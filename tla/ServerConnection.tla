-------------------------- MODULE ServerConnection --------------------------
(***************************************************************************)
(* A connection to the server from the accept loop to its end: the permit  *)
(* that caps connections, the WebSocket handshake, the reader task (first  *)
(* message, middleware chain, forwarding) and the writer loop, which runs  *)
(* in the task that holds the permit.                                      *)
(*                                                                         *)
(* A server is compiled with the bebop codec or for raw bytes: a raw peer  *)
(* is named by its socket address, nothing is a ping, and the writer does  *)
(* not recognise a disconnect.                                             *)
(*                                                                         *)
(* The registry is seen from one connection: registered says whether the   *)
(* entry of its peer leads to it.  ClientSenders models the tasks that     *)
(* push into its channel, displace it or evict it; here they are Push,     *)
(* Notice and Evicted.                                                     *)
(***************************************************************************)
EXTENDS Naturals, Sequences, FiniteSets

CONSTANTS Builds,          \* the builds considered: "bebop", "raw"
          Tls,             \* a TLS acceptor was given: handle_accept_tls runs
          Conns,           \* connections that may arrive
          MaxConnections,  \* ServerOptions::max_connections
          BufSize,         \* per_connection_buffer_size
          Middlewares,     \* length of the middleware chain
          UsePing,         \* ServerOptions::use_ping
          ProxyPing        \* ServerOptions::proxy_ping > 0

ASSUME BoundsAssumption == /\ MaxConnections \in Nat /\ BufSize \in Nat \ {0}
                           /\ Middlewares \in Nat
                           /\ {Tls, UsePing, ProxyPing} \subseteq BOOLEAN
                           /\ Builds \subseteq {"bebop", "raw"}
ASSUME FiniteAssumption == IsFiniteSet(Conns)

Chain == 1..Middlewares

VARIABLES
  build,       \* the build of this server: it never changes
  cancelled,   \* shutdown has cancelled the token
  accepting,   \* the accept loop runs: it has not seen that yet
  slots,       \* permits left in the semaphore
  upgraded,    \* connections handed over by accept_upgraded
  task,        \* the task that owns the connection: once served, its writer
  reader,      \* the reader task
  link,        \* next middleware of the chain that the reader will call
  chan,        \* messages in the connection's channel
  registered,  \* connections that the registry leads to
  admittedBy,  \* history: middlewares whose on_connect returned true
  toldOfEnd,   \* history: middlewares whose on_disconnect was called
  forwarded    \* history: for the messages sent on to the application, how
               \* many on_message calls had let each of them pass

admission == <<build, cancelled, accepting, slots, upgraded>>
calls == <<admittedBy, toldOfEnd, forwarded>>
vars == <<build, cancelled, accepting, slots, upgraded, task, reader, link, chan,
          registered, admittedBy, toldOfEnd, forwarded>>

Init ==
  /\ build \in Builds
  /\ cancelled = FALSE /\ accepting = TRUE /\ slots = MaxConnections /\ upgraded = {}
  /\ task = [c \in Conns |-> "none"]
  /\ reader = [c \in Conns |-> "none"]
  /\ link = [c \in Conns |-> 1]
  /\ chan = [c \in Conns |-> <<>>]
  /\ registered = {}
  /\ admittedBy = [c \in Conns |-> {}]
  /\ toldOfEnd = [c \in Conns |-> {}]
  /\ forwarded = [c \in Conns |-> {}]

HasRoom(c) == task[c] = "writing" /\ Len(chan[c]) < BufSize
TaskTo(c, step) == task' = [task EXCEPT ![c] = step]
ReaderTo(c, step) == reader' = [reader EXCEPT ![c] = step]
Put(c, message) == chan' = [chan EXCEPT ![c] = Append(@, message)]
Forward(c, passed) == forwarded' = [forwarded EXCEPT ![c] = @ \cup {passed}]

\* Mutant: a connection that never took a permit returns one as well.
EndTaskReturning(c) ==
  /\ TaskTo(c, "ended")
  /\ chan' = [chan EXCEPT ![c] = <<>>]
  /\ slots' = slots + 1

\* The task returns, and drops its permit if it was given one.
EndTask(c) ==
  /\ TaskTo(c, "ended")
  /\ chan' = [chan EXCEPT ![c] = <<>>]
  /\ slots' = IF c \in upgraded THEN slots ELSE slots + 1

-----------------------------------------------------------------------------
(* Admission: handle_accept, handle_accept_tls, accept_upgraded.           *)

\* A permit, or the socket is dropped at once.
TakePermit(c, step) ==
  IF slots > 0
  THEN slots' = slots - 1 /\ TaskTo(c, step)
  ELSE UNCHANGED slots /\ TaskTo(c, "refused")

\* shutdown may have been called: select! takes whichever of the cancelled token
\* and a waiting client it likes, until it takes the token.
Accept(c) ==
  /\ ~Tls /\ accepting /\ task[c] = "none"
  /\ TakePermit(c, "handshake")
  /\ UNCHANGED <<build, cancelled, accepting, upgraded, reader, link, chan, registered, calls>>

\* The permit comes before the TLS handshake.
AcceptTls(c) ==
  /\ Tls /\ accepting /\ task[c] = "none"
  /\ TakePermit(c, "tls")
  /\ UNCHANGED <<build, cancelled, accepting, upgraded, reader, link, chan, registered, calls>>

\* A client that is gone before its address was asked for is not admitted, and
\* leaves the permits alone.
PeerUnknown(c) ==
  /\ accepting /\ task[c] = "none"
  /\ TaskTo(c, "lost")
  /\ UNCHANGED <<admission, reader, link, chan, registered, calls>>

TlsDone(c) ==
  /\ task[c] = "tls"
  /\ TaskTo(c, "handshake")
  /\ UNCHANGED <<admission, reader, link, chan, registered, calls>>

\* inner_handle_ws: the reader task is spawned, its caller becomes the writer.
ServeBebop(c) ==
  /\ build = "bebop"
  /\ TaskTo(c, "writing") /\ ReaderTo(c, "first")
  /\ UNCHANGED registered

\* Here the peer is known at once.
ServeRaw(c) ==
  /\ build = "raw"
  /\ TaskTo(c, "writing") /\ ReaderTo(c, "onConnect")
  /\ registered' = registered \cup {c}

Serve(c) == ServeBebop(c) \/ ServeRaw(c)

HandshakeDone(c) ==
  /\ task[c] = "handshake"
  /\ Serve(c)
  /\ UNCHANGED <<admission, link, chan, calls>>

\* Mutant: the error path keeps the permit.
HandshakeFailedLeaking(c) ==
  /\ task[c] \in {"tls", "handshake"}
  /\ TaskTo(c, "ended")
  /\ UNCHANGED <<admission, chan, reader, link, registered, calls>>

HandshakeFailed(c) ==
  /\ task[c] \in {"tls", "handshake"}
  /\ EndTask(c)
  /\ UNCHANGED <<build, cancelled, accepting, upgraded, reader, link, registered, calls>>

\* A stream that was upgraded elsewhere is served without a permit.
AcceptUpgraded(c) ==
  /\ task[c] = "none"
  /\ upgraded' = upgraded \cup {c}
  /\ Serve(c)
  /\ UNCHANGED <<build, cancelled, accepting, slots, link, chan, calls>>

Shutdown ==
  /\ ~cancelled
  /\ cancelled' = TRUE
  /\ UNCHANGED <<build, accepting, slots, upgraded, task, reader, link, chan, registered,
                 calls>>

LoopEnds ==
  /\ cancelled /\ accepting
  /\ accepting' = FALSE
  /\ UNCHANGED <<build, cancelled, slots, upgraded, task, reader, link, chan, registered,
                 calls>>

-----------------------------------------------------------------------------
(* The reader task.                                                        *)

\* get_id_from_first_message: a ping names the peer and registers it.  With
\* use_ping it is answered, or else it goes on to the application at once.
FirstPing(c) ==
  /\ reader[c] = "first"
  /\ registered' = registered \cup {c}
  /\ IF UsePing THEN ReaderTo(c, "firstPong") /\ UNCHANGED forwarded
                ELSE ReaderTo(c, "onConnect") /\ Forward(c, 0)
  /\ UNCHANGED <<admission, task, link, chan, admittedBy, toldOfEnd>>

\* So does a message of the proxied category, which is never answered.
FirstProxied(c) ==
  /\ ProxyPing /\ reader[c] = "first"
  /\ registered' = registered \cup {c}
  /\ ReaderTo(c, "onConnect") /\ Forward(c, 0)
  /\ UNCHANGED <<admission, task, link, chan, admittedBy, toldOfEnd>>

\* Any other first message, or none: nobody is named.
NoIdentity(c) ==
  /\ reader[c] = "first"
  /\ ReaderTo(c, "leaving")
  /\ UNCHANGED <<admission, task, link, chan, registered, calls>>

\* A pong through the registry, after the first ping and later ones: accepted
\* by this channel, or refused, which removes the entry; once displaced, it
\* goes elsewhere.
Pong(c) ==
  /\ reader[c] \in {"firstPong", "pong"}
  /\ IF c \in registered /\ HasRoom(c)
     THEN Put(c, "message") /\ UNCHANGED registered
     ELSE registered' = registered \ {c} /\ UNCHANGED chan
  /\ ReaderTo(c, IF reader[c] = "firstPong" THEN "onConnect" ELSE "reading")
  /\ UNCHANGED <<admission, task, link, calls>>

\* One on_connect of the chain returns true.
OnConnect(c) ==
  /\ reader[c] = "onConnect" /\ link[c] \in Chain
  /\ link' = [link EXCEPT ![c] = @ + 1]
  /\ admittedBy' = [admittedBy EXCEPT ![c] = @ \cup {link[c]}]
  /\ UNCHANGED <<admission, task, reader, chan, registered, toldOfEnd, forwarded>>

\* Mutant: a refusal only ends the chain.
OnConnectRefusesUnheeded(c) ==
  /\ reader[c] = "onConnect" /\ link[c] \in Chain
  /\ ReaderTo(c, "reading")
  /\ UNCHANGED <<admission, task, link, chan, registered, calls>>

\* It returns false: no other is asked, and the connection ends.
OnConnectRefuses(c) ==
  /\ reader[c] = "onConnect" /\ link[c] \in Chain
  /\ ReaderTo(c, "leaving")
  /\ UNCHANGED <<admission, task, link, chan, registered, calls>>

Connected(c) ==
  /\ reader[c] = "onConnect" /\ link[c] \notin Chain
  /\ ReaderTo(c, "reading")
  /\ UNCHANGED <<admission, task, link, chan, registered, calls>>

\* The next message: a ping to answer, one for the chain, or the end of the
\* loop by a disconnect or a dead stream.  A malformed one is skipped.
ReadPing(c) ==
  /\ build = "bebop" /\ UsePing /\ reader[c] = "reading"
  /\ ReaderTo(c, "pong")
  /\ UNCHANGED <<admission, task, link, chan, registered, calls>>

ReadMessage(c) ==
  /\ reader[c] = "reading"
  /\ ReaderTo(c, "onMessage")
  /\ link' = [link EXCEPT ![c] = 1]
  /\ UNCHANGED <<admission, task, chan, registered, calls>>

ReadEnd(c) ==
  /\ reader[c] = "reading"
  /\ ReaderTo(c, "onDisconnect")
  /\ UNCHANGED <<admission, task, link, chan, registered, calls>>

\* One on_message says Continue.
OnMessage(c) ==
  /\ reader[c] = "onMessage" /\ link[c] \in Chain
  /\ link' = [link EXCEPT ![c] = @ + 1]
  /\ UNCHANGED <<admission, task, reader, chan, registered, calls>>

\* Or Stop: the message is not forwarded.
OnMessageStops(c) ==
  /\ reader[c] = "onMessage" /\ link[c] \in Chain
  /\ ReaderTo(c, "reading")
  /\ UNCHANGED <<admission, task, link, chan, registered, calls>>

ForwardMessage(c) ==
  /\ reader[c] = "onMessage" /\ link[c] \notin Chain
  /\ Forward(c, link[c] - 1)
  /\ ReaderTo(c, "reading")
  /\ UNCHANGED <<admission, task, link, chan, registered, admittedBy, toldOfEnd>>

\* Mutant: the reader breaks out of its loop past the on_disconnect calls.
OnDisconnectSkipped(c) ==
  /\ reader[c] = "onDisconnect"
  /\ ReaderTo(c, "leaving")
  /\ UNCHANGED <<admission, task, link, chan, registered, calls>>

\* Every middleware is told.
OnDisconnect(c) ==
  /\ reader[c] = "onDisconnect"
  /\ toldOfEnd' = [toldOfEnd EXCEPT ![c] = Chain]
  /\ ReaderTo(c, "leaving")
  /\ UNCHANGED <<admission, task, link, chan, registered, admittedBy, forwarded>>

\* Mutant: a reader that named nobody just stops.
LeaveSilently(c) ==
  /\ reader[c] = "leaving"
  /\ ReaderTo(c, "gone")
  /\ UNCHANGED <<admission, task, link, chan, registered, calls>>

\* However it ends, the reader asks its writer to stop, waiting for room.
Leave(c) ==
  /\ reader[c] = "leaving"
  /\ \/ HasRoom(c) /\ Put(c, "disconnect")
     \/ task[c] # "writing" /\ UNCHANGED chan
  /\ ReaderTo(c, "gone")
  /\ UNCHANGED <<admission, task, link, registered, calls>>

-----------------------------------------------------------------------------
(* The writer loop, and what other tasks do to the connection.             *)

\* A message reaches the socket; a disconnect is the last one, and so is one of
\* the application's that does not parse.  The raw build parses nothing.
Write(c) ==
  /\ task[c] = "writing" /\ chan[c] # <<>>
  /\ chan' = [chan EXCEPT ![c] = Tail(@)]
  /\ \/ build = "bebop" /\ TaskTo(c, "flushing")
     \/ (build = "raw" \/ Head(chan[c]) # "disconnect") /\ UNCHANGED task
  /\ UNCHANGED <<admission, reader, link, registered, calls>>

\* No sender is left: the reader's is dropped with it, the registry's with the
\* entry.
SendersGone(c) ==
  /\ task[c] = "writing" /\ chan[c] = <<>>
  /\ reader[c] = "gone" /\ c \notin registered
  /\ TaskTo(c, "flushing")
  /\ UNCHANGED <<admission, reader, link, chan, registered, calls>>

\* The socket refuses the message: inner_handle_ws returns the error.
WriteFails(c) ==
  /\ task[c] = "writing" /\ chan[c] # <<>>
  /\ EndTask(c)
  /\ UNCHANGED <<build, cancelled, accepting, upgraded, reader, link, registered, calls>>

\* At most a second of flushing.
Flush(c) ==
  /\ task[c] = "flushing"
  /\ EndTask(c)
  /\ UNCHANGED <<build, cancelled, accepting, upgraded, reader, link, registered, calls>>

\* The application sends to the peer.
Push(c) ==
  /\ c \in registered /\ HasRoom(c)
  /\ Put(c, "message")
  /\ UNCHANGED <<admission, task, reader, link, registered, calls>>

\* A later connection of the same peer tells this one to go.
Notice(c) ==
  /\ c \in registered /\ HasRoom(c)
  /\ Put(c, "disconnect")
  /\ UNCHANGED <<admission, task, reader, link, registered, calls>>

\* That connection, told or not, takes the entry over; or the checker, a failed
\* send or the application removes it.
Evicted(c) ==
  /\ c \in registered
  /\ registered' = registered \ {c}
  /\ UNCHANGED <<admission, task, reader, link, chan, calls>>

-----------------------------------------------------------------------------
ReaderStep(c) == \/ Pong(c) \/ OnConnect(c) \/ OnConnectRefuses(c) \/ Connected(c)
                 \/ OnMessage(c) \/ OnMessageStops(c) \/ ForwardMessage(c)
                 \/ OnDisconnect(c) \/ Leave(c)
WriterStep(c) == Write(c) \/ SendersGone(c) \/ WriteFails(c) \/ Flush(c)

Next ==
  \/ Shutdown \/ LoopEnds
  \/ \E c \in Conns :
       \/ Accept(c) \/ AcceptTls(c) \/ PeerUnknown(c) \/ TlsDone(c) \/ HandshakeDone(c)
       \/ HandshakeFailed(c) \/ AcceptUpgraded(c)
       \/ FirstPing(c) \/ FirstProxied(c) \/ NoIdentity(c) \/ ReadPing(c) \/ ReadMessage(c) \/ ReadEnd(c)
       \/ ReaderStep(c) \/ WriterStep(c)
       \/ Push(c) \/ Notice(c) \/ Evicted(c)

Spec == Init /\ [][Next]_vars

\* The runtime schedules both tasks, middlewares return, and the socket takes
\* or refuses a write in the end; a channel serves those who wait for room in
\* turn, so that a leaving reader is not overtaken for ever.  What the client
\* sends, and that it sends anything or closes, is up to the client.  A select!
\* that is free to choose takes the cancelled token in the end.
FairSpec ==
  /\ Spec
  /\ WF_vars(LoopEnds)
  /\ \A c \in Conns : WF_vars(ReaderStep(c)) /\ WF_vars(WriterStep(c)) /\ SF_vars(Leave(c))

-----------------------------------------------------------------------------
Serving == {"writing", "flushing"}

TypeOK ==
  /\ build \in Builds
  /\ cancelled \in BOOLEAN /\ accepting \in BOOLEAN
  /\ slots \in 0..MaxConnections
  /\ upgraded \subseteq Conns
  /\ task \in [Conns -> {"none", "refused", "lost", "tls", "handshake", "writing",
                         "flushing", "ended"}]
  /\ reader \in [Conns -> {"none", "first", "firstPong", "onConnect", "reading", "pong",
                           "onMessage", "onDisconnect", "leaving", "gone"}]
  /\ link \in [Conns -> 1..Middlewares + 1]
  /\ chan \in [Conns -> Seq({"message", "disconnect"})]
  /\ \A c \in Conns : Len(chan[c]) <= BufSize
  /\ registered \subseteq Conns
  /\ admittedBy \in [Conns -> SUBSET Chain]
  /\ toldOfEnd \in [Conns -> SUBSET Chain]
  /\ forwarded \in [Conns -> SUBSET (0..Middlewares)]

HoldsPermit(c) == c \notin upgraded /\ task[c] \in {"tls", "handshake"} \cup Serving

\* No way a connection can end loses a permit or returns it twice: the
\* semaphore and the live tasks of accepted connections always add up to
\* max_connections.
PermitsAddUp == slots + Cardinality({c \in Conns : HoldsPermit(c)}) = MaxConnections

\* Seen from the clients, the semaphore and the accept loops are the door of
\* Admission: a client is refused only while max_connections live tasks hold a
\* place, on whichever ways the others have left, and nobody passes the door once
\* the loop has ended, which a client that is waiting may still do after shutdown
\* (internal_server.rs:89-95 and 308-346).  One whose address cannot be told has
\* not come to the door.
Door == INSTANCE Admission WITH Clients <- Conns, Capacity <- MaxConnections,
                                open <- accepting,
                                inside <- {c \in Conns : HoldsPermit(c)},
                                turnedAway <- {c \in Conns : task[c] = "refused"}
ImplementsAdmission == Door!Spec

\* The first message of a bebop connection goes past the chain unasked when it
\* is a ping that is not answered, or of the proxied category.
Unasked == IF build = "bebop" /\ (~UsePing \/ ProxyPing) THEN {0} ELSE {}

\* A message reaches the application only past every on_message, and only from
\* a connection that every on_connect let in (middleware.rs:63-66, "Called for
\* each incoming message", "Stop to drop it"), but for a first message that the
\* options exempt: never past half of the chain, never from a refused connection.
VettedBeforeForwarded ==
  \A c \in Conns : /\ forwarded[c] \subseteq {Middlewares} \cup Unasked
                   /\ forwarded[c] \ Unasked # {} => admittedBy[c] = Chain

\* Only middlewares that have let a connection in are told of its end
\* (middleware.rs:69), and by the time its reader is gone all of them have been, if
\* none refused it.  When one did, those before it are not told: the code makes
\* no call then, and nothing is claimed about it here.
EndIsTold ==
  \A c \in Conns :
    /\ toldOfEnd[c] \subseteq admittedBy[c]
    /\ reader[c] \in {"leaving", "gone"} /\ admittedBy[c] = Chain => toldOfEnd[c] = Chain

SocketHeld(c) == HoldsPermit(c) \/ reader[c] \notin {"none", "gone"}

\* When the reader is done, for whatever reason, the connection's task ends too
\* and gives its slot back: in the bebop build, whose writer stops at the
\* reader's disconnect.
ReaderEndFreesSlot ==
  \A c \in Conns : build = "bebop" /\ reader[c] = "leaving" ~> task[c] = "ended"

\* internal_server.rs:222-223: after shutdown "existing client connections will
\* be closed when their tasks detect the cancellation or when the TCP listener
\* is dropped".
ShutdownCloses == \A c \in Conns : cancelled /\ SocketHeld(c) ~> ~SocketHeld(c)
=============================================================================
