--------------------------- MODULE ClientSenders ----------------------------
(***************************************************************************)
(* The server's registry of connected peers (ClientSenders) with the tasks *)
(* that use it: the reader task of each connection, which registers it and *)
(* answers pings through the registry, the tasks of the application, which *)
(* send and remove by peer name, the inactivity checker, and the writer    *)
(* task that drains each connection's channel.                             *)
(*                                                                         *)
(* add and send let go of the map before they await a channel, so a step   *)
(* here is what happens between two points where another task can run: a   *)
(* map operation, the outcome of a channel send, a counter update.         *)
(***************************************************************************)
EXTENDS Integers, Sequences, FiniteSets

CONSTANTS Peers,     \* peer names
          Conns,     \* connections; each is its own reader task
          Callers,   \* tasks of the application
          BufSize,   \* per_connection_buffer_size
          NoConn, NoPeer

ASSUME BufSizeAssumption == BufSize \in Nat \ {0}
ASSUME NamesAssumption == /\ NoConn \notin Conns /\ NoPeer \notin Peers
                          /\ Conns \cap Callers = {}
ASSUME FiniteAssumption ==
  IsFiniteSet(Peers) /\ IsFiniteSet(Conns) /\ IsFiniteSet(Callers)

Tasks == Conns \cup Callers

VARIABLES
  clients,    \* the map: whose channel each peer name leads to
  stale,      \* the entry's send_time is older than client_timeout_seconds
  active,     \* Metrics::connections_active
  total,      \* Metrics::connections_total
  chan,       \* messages in each connection's channel
  closed,     \* the writer task has closed the receiving end
  pc,         \* where each task is
  peer,       \* the peer a task is operating on; a connection keeps its own
  target,     \* the channel a task cloned out of the map
  replacing,  \* add's local of that name
  disturbed   \* history: an add's idea of replacing was wrong when it
              \* inserted, or the gauge was decremented at zero

registry == <<clients, stale>>
metrics == <<active, total>>
channels == <<chan, closed>>
locals == <<pc, peer, target, replacing>>
vars == <<clients, stale, active, total, chan, closed, pc, peer, target,
          replacing, disturbed>>

Registered(p) == clients[p] # NoConn
HasRoom(c) == ~closed[c] /\ Len(chan[c]) < BufSize
IsFull(c) == ~closed[c] /\ Len(chan[c]) = BufSize

Init ==
  /\ clients = [p \in Peers |-> NoConn]
  /\ stale = [p \in Peers |-> FALSE]
  /\ active = 0 /\ total = 0
  /\ chan = [c \in Conns |-> <<>>]
  /\ closed = [c \in Conns |-> FALSE]
  /\ pc = [t \in Tasks |-> IF t \in Conns THEN "new" ELSE "idle"]
  /\ peer = [t \in Tasks |-> NoPeer]
  /\ target = [t \in Tasks |-> NoConn]
  /\ replacing = [t \in Tasks |-> FALSE]
  /\ disturbed = FALSE

Goto(t, step) == pc' = [pc EXCEPT ![t] = step]

\* A task is done with an operation; a reader keeps the identity of its peer.
Finish(t) ==
  /\ Goto(t, "idle")
  /\ target' = [target EXCEPT ![t] = NoConn]
  /\ replacing' = [replacing EXCEPT ![t] = FALSE]
  /\ peer' = [peer EXCEPT ![t] = IF t \in Conns THEN @ ELSE NoPeer]

-----------------------------------------------------------------------------
(* add, called by a reader task once, when its first message names a peer. *)

\* Clone the previous sender, if any, and release the map.
AddLookup(c, p) ==
  /\ c \in Conns /\ pc[c] = "new"
  /\ peer' = [peer EXCEPT ![c] = p]
  /\ target' = [target EXCEPT ![c] = clients[p]]
  /\ replacing' = [replacing EXCEPT ![c] = Registered(p)]
  /\ Goto(c, IF Registered(p) THEN "notify" ELSE "insert")
  /\ UNCHANGED <<registry, metrics, channels, disturbed>>

\* The disconnect notice: accepted, refused by a closed channel, or given up
\* after DISCONNECT_NOTICE_TIMEOUT on a full one.
AddNotice(c) ==
  /\ pc[c] = "notify"
  /\ chan' = IF HasRoom(target[c])
             THEN [chan EXCEPT ![target[c]] = Append(@, "disconnect")]
             ELSE chan
  /\ target' = [target EXCEPT ![c] = NoConn]
  /\ Goto(c, "insert")
  /\ UNCHANGED <<registry, metrics, closed, peer, replacing, disturbed>>

AddInsert(c) ==
  /\ pc[c] = "insert"
  /\ clients' = [clients EXCEPT ![peer[c]] = c]
  /\ stale' = [stale EXCEPT ![peer[c]] = FALSE]
  /\ disturbed' = (disturbed \/ replacing[c] # Registered(peer[c]))
  /\ Goto(c, "count")
  /\ UNCHANGED <<metrics, channels, peer, target, replacing>>

\* Mutant: every add counts as a new connection.
AddCountAlways(c) ==
  /\ pc[c] = "count"
  /\ total' = total + 1
  /\ active' = active + 1
  /\ Finish(c)
  /\ UNCHANGED <<registry, channels, disturbed>>

AddCount(c) ==
  /\ pc[c] = "count"
  /\ total' = total + 1
  /\ active' = IF replacing[c] THEN active ELSE active + 1
  /\ Finish(c)
  /\ UNCHANGED <<registry, channels, disturbed>>

-----------------------------------------------------------------------------
(* The trait's send: ClientSenders::send, then write_time or remove.  A    *)
(* reader answers its peer's pings with it; the application calls it, and  *)
(* send_all, send_all_in_list and send_message_in_list are several at once *)
(* over a snapshot of the peers (one caller each), expire_send one after   *)
(* another.                                                                *)

\* Clone the channel out of the map, or give up on an absent peer.
SendLookup(t, p) ==
  /\ pc[t] = "idle"
  /\ t \in Conns => p = peer[t]
  /\ peer' = [peer EXCEPT ![t] = p]
  /\ target' = [target EXCEPT ![t] = clients[p]]
  /\ Goto(t, IF Registered(p) THEN "sending" ELSE "remove")
  /\ UNCHANGED <<registry, metrics, channels, replacing, disturbed>>

SendAccepted(t) ==
  /\ pc[t] = "sending"
  /\ HasRoom(target[t])
  /\ chan' = [chan EXCEPT ![target[t]] = Append(@, "message")]
  /\ Goto(t, "stamp")
  /\ UNCHANGED <<registry, metrics, closed, peer, target, replacing, disturbed>>

\* Mutant: no SEND_TIMEOUT, a full channel is waited for.
SendRefusedOnly(t) ==
  /\ pc[t] = "sending"
  /\ closed[target[t]]
  /\ Goto(t, "remove")
  /\ UNCHANGED <<registry, metrics, channels, peer, target, replacing, disturbed>>

\* The channel is closed, or still full after SEND_TIMEOUT.
SendFailed(t) ==
  /\ pc[t] = "sending"
  /\ closed[target[t]] \/ IsFull(target[t])
  /\ Goto(t, "remove")
  /\ UNCHANGED <<registry, metrics, channels, peer, target, replacing, disturbed>>

\* write_time, by name.
WriteTime(t) ==
  /\ pc[t] = "stamp"
  /\ stale' = [stale EXCEPT ![peer[t]] = FALSE]
  /\ Finish(t)
  /\ UNCHANGED <<clients, metrics, channels, disturbed>>

\* remove, by name: after a failed send, or called by the application.
RemoveCall(t, p) ==
  /\ t \in Callers /\ pc[t] = "idle"
  /\ peer' = [peer EXCEPT ![t] = p]
  /\ Goto(t, "remove")
  /\ UNCHANGED <<registry, metrics, channels, target, replacing, disturbed>>

Remove(t) ==
  /\ pc[t] = "remove"
  /\ clients' = [clients EXCEPT ![peer[t]] = NoConn]
  /\ stale' = [stale EXCEPT ![peer[t]] = FALSE]
  /\ IF Registered(peer[t])
     THEN Goto(t, "uncount") /\ UNCHANGED <<peer, target, replacing>>
     ELSE Finish(t)
  /\ UNCHANGED <<metrics, channels, disturbed>>

\* Mutant: a plain subtraction.
DecrementWrapping == /\ active' = active - 1
                     /\ disturbed' = (disturbed \/ active = 0)

\* dec_connections_active stops at zero.
Decrement == /\ active' = IF active > 0 THEN active - 1 ELSE 0
             /\ disturbed' = (disturbed \/ active = 0)

RemoveCount(t) ==
  /\ pc[t] = "uncount"
  /\ Decrement
  /\ Finish(t)
  /\ UNCHANGED <<registry, total, channels>>

-----------------------------------------------------------------------------
(* check_client_send_time, one entry of the map at a time (retain holds    *)
(* one shard, and the closure runs per entry), and the time that passes.   *)

\* Time passes while tasks await, not in the instructions between two awaits.
BecomeStale(p) ==
  /\ Registered(p) /\ ~stale[p]
  /\ \A t \in Tasks : peer[t] = p => pc[t] \notin {"insert", "count", "stamp", "remove", "uncount"}
  /\ stale' = [stale EXCEPT ![p] = TRUE]
  /\ UNCHANGED <<clients, metrics, channels, locals, disturbed>>

\* Mutant: only the gauge hears of the timeout.
CheckEntryKeeping(p) ==
  /\ Registered(p) /\ stale[p]
  /\ Decrement
  /\ stale' = [stale EXCEPT ![p] = FALSE]
  /\ UNCHANGED <<clients, total, channels, locals>>

CheckEntry(p) ==
  /\ Registered(p) /\ stale[p]
  /\ Decrement
  /\ clients' = [clients EXCEPT ![p] = NoConn]
  /\ stale' = [stale EXCEPT ![p] = FALSE]
  /\ UNCHANGED <<total, channels, locals>>

-----------------------------------------------------------------------------
(* The two tasks of a connection, as far as the channel is concerned.      *)

\* The reader's loop ends (or it was rejected, or never named a peer): it
\* always sends a disconnect into its own channel, waiting for room.
ReaderLeaves(c) ==
  /\ pc[c] \in {"new", "idle"}
  /\ Goto(c, "leaving")
  /\ UNCHANGED <<registry, metrics, channels, peer, target, replacing, disturbed>>

ReaderGone(c) ==
  /\ pc[c] = "leaving"
  /\ HasRoom(c) \/ closed[c]
  /\ chan' = IF closed[c] THEN chan ELSE [chan EXCEPT ![c] = Append(@, "disconnect")]
  /\ Goto(c, "gone")
  /\ peer' = [peer EXCEPT ![c] = NoPeer]
  /\ UNCHANGED <<registry, metrics, closed, target, replacing, disturbed>>

\* The writer takes a message to the socket; it ends after a disconnect, or
\* when the write fails, and what is left in the channel goes with it.
Write(c) ==
  /\ ~closed[c] /\ chan[c] # <<>>
  /\ \/ /\ Head(chan[c]) # "disconnect"
        /\ chan' = [chan EXCEPT ![c] = Tail(@)]
        /\ UNCHANGED closed
     \/ /\ chan' = [chan EXCEPT ![c] = <<>>]
        /\ closed' = [closed EXCEPT ![c] = TRUE]
  /\ UNCHANGED <<registry, metrics, locals, disturbed>>

-----------------------------------------------------------------------------
AddStep(c) == AddNotice(c) \/ AddInsert(c) \/ AddCount(c)
SendStep(t) == \/ SendAccepted(t) \/ SendFailed(t) \/ WriteTime(t)
               \/ Remove(t) \/ RemoveCount(t)

Next ==
  \/ \E c \in Conns : \/ \E p \in Peers : AddLookup(c, p)
                      \/ AddStep(c) \/ ReaderLeaves(c) \/ ReaderGone(c) \/ Write(c)
  \/ \E t \in Tasks : SendStep(t) \/ \E p \in Peers : SendLookup(t, p)
  \/ \E t \in Callers, p \in Peers : RemoveCall(t, p)
  \/ \E p \in Peers : BecomeStale(p) \/ CheckEntry(p)

Spec == Init /\ [][Next]_vars

\* The runtime runs every task that can run, the timeouts of add and send fire,
\* and the checker's interval ticks.  Nothing is assumed of the writers: a
\* half-open socket may hold one up for ever.
FairSpec ==
  /\ Spec
  /\ \A c \in Conns : WF_vars(AddStep(c))
  /\ \A t \in Tasks : WF_vars(SendStep(t))
  /\ \A p \in Peers : WF_vars(BecomeStale(p)) /\ WF_vars(CheckEntry(p))

-----------------------------------------------------------------------------
Steps == {"new", "notify", "insert", "count", "idle", "sending", "stamp",
          "remove", "uncount", "leaving", "gone"}

TypeOK ==
  /\ clients \in [Peers -> Conns \cup {NoConn}]
  /\ stale \in [Peers -> BOOLEAN]
  /\ active \in Nat /\ total \in Nat
  /\ chan \in [Conns -> Seq({"message", "disconnect"})]
  /\ \A c \in Conns : Len(chan[c]) <= BufSize
  /\ closed \in [Conns -> BOOLEAN]
  /\ pc \in [Tasks -> Steps]
  /\ peer \in [Tasks -> Peers \cup {NoPeer}]
  /\ target \in [Tasks -> Conns \cup {NoConn}]
  /\ replacing \in [Tasks -> BOOLEAN]
  /\ disturbed \in BOOLEAN

Entries == {p \in Peers : Registered(p)}
Uncounted == {c \in Conns : pc[c] = "count" /\ ~replacing[c]}
StillCounted == {t \in Tasks : pc[t] = "uncount"}

\* The gauge of active connections is the size of the map, up to the operations
\* that are between the map and the counter, unless an add found the map
\* changed under its await or a decrement met zero.  (client_sender.rs:174-178:
\* replacing a connection must not count it twice.)
GaugeExact ==
  ~disturbed =>
    active + Cardinality(Uncounted) = Cardinality(Entries) + Cardinality(StillCounted)

\* A registered connection's writer ended, yet the entry leads to it: the next
\* send removes it, and without any traffic the checker does.
DeadEntriesLeave ==
  \A p \in Peers, c \in Conns : clients[p] = c /\ closed[c] ~> clients[p] # c

\* Adding and sending come back although no channel is ever drained: one
\* unreachable peer holds up neither its own reconnection nor a broadcast.
OperationsReturn ==
  \A t \in Tasks : pc[t] \notin {"new", "idle", "leaving", "gone"} ~> pc[t] = "idle"

\* metrics.rs:22 calls the gauge "Currently active connections": with every
\* operation finished it is the size of the map.
GaugeIsLen ==
  (\A t \in Tasks : pc[t] \in {"new", "idle", "leaving", "gone"})
    => active = Cardinality(Entries)
=============================================================================
