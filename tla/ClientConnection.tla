-------------------------- MODULE ClientConnection --------------------------
(***************************************************************************)
(* The client's connection to its server over time: connection attempts    *)
(* and the single-flight flag is_try_connect that admits one at a time,    *)
(* the reader and the writer of an established connection, the ping loop   *)
(* that declares a silent connection dead and reconnects, senders whose    *)
(* retries end in a reconnection, and the application.  External selects   *)
(* between get_outer_* (a fixed URL) and get_internal_* (an address kept   *)
(* in the connection store; no scan discovery).                            *)
(*                                                                         *)
(* A step is what happens under one hold of the ServerSender's lock, or    *)
(* between two awaits.  Conns are attempts that have claimed the flag and  *)
(* the connections they become; a finished one is used again when nothing  *)
(* refers to it.                                                           *)
(***************************************************************************)
EXTENDS Naturals, Sequences

CONSTANTS Conns,     \* attempts and the connections they become
          MaxSpawned,\* bound: attempts that have been spawned and not run yet
          Builds,    \* with the bebop feature, or raw
          BufSize,   \* per_connection_buffer_size
          Senders,   \* tasks in server_sender.send: the application, ping timers
          App, Loop, \* the callers of get_internal_connect or get_outer_connect
          External,  \* ClientOptions::atomic_websocket_type
          KeepIp,    \* use_keep_ip
          UsePing,   \* use_ping
          NoConn,
          Closed     \* the connection of a sender whose channel is closed

ASSUME OptionsAssumption == /\ {External, KeepIp, UsePing} \subseteq BOOLEAN
                            /\ Builds \subseteq {"bebop", "raw"}
                            /\ MaxSpawned \in Nat \ {0} /\ BufSize \in Nat \ {0}
ASSUME NamesAssumption == /\ NoConn \notin Conns /\ Closed \notin Conns
                          /\ NoConn # Closed /\ App # Loop /\ Loop \notin Senders

Callers == {App, Loop}

\* The ping loop sends as well.
Pushers == Senders \cup {Loop}

VARIABLES
  build,         \* the build the client is of
  isTryConnect,  \* ServerSender::is_try_connect
  serverIp,      \* server_ip is not empty
  sx,            \* the connection that sx leads to
  received,      \* age of server_received_times: within 2 retry periods, up to 4, over
  storedIp,      \* the connection store holds an address, which get_internal_* read
  cancelled,     \* the ping loop's token
  spawned,       \* attempts that have yet to claim the flag
  task,          \* each attempt that has it, later the writer of its connection
  reader,        \* the reader of each connection
  channel,       \* what is queued for the writer of each connection
  goodbye,       \* the disconnect of sx_drop: none, waiting for room, sent by a raw writer
  sending,       \* the connection whose sx a sender has cloned
  caller,        \* where a caller is in get_internal_connect or get_outer_connect
  loop,          \* where the ping loop is
  lossAnnounced  \* the last step sent the status Disconnected

shared == <<isTryConnect, serverIp, sx, received, storedIp, goodbye>>
conns == <<spawned, task, reader, channel>>
others == <<sending, caller, loop, cancelled, build>>
vars == <<build, isTryConnect, serverIp, sx, received, storedIp, cancelled, spawned, task,
          reader, channel, goodbye, sending, caller, loop, lossAnnounced>>

\* The URL option becomes server_ip at once; an address may have been stored (an
\* external client never reads it).
Init ==
  /\ build \in Builds
  /\ isTryConnect = FALSE
  /\ serverIp = External
  /\ sx = NoConn
  /\ received = "never"
  /\ storedIp \in {FALSE, ~External}
  /\ cancelled = FALSE
  /\ spawned = 0
  /\ task = [c \in Conns |-> "idle"]
  /\ reader = [c \in Conns |-> "gone"]
  /\ channel = [c \in Conns |-> <<>>]
  /\ goodbye = [c \in Conns |-> "none"]
  /\ sending = [p \in Pushers |-> NoConn]
  /\ caller = [k \in Callers |-> "idle"]
  /\ loop = "asleep"
  /\ lossAnnounced = FALSE

TaskTo(c, step) == task' = [task EXCEPT ![c] = step]
CallerTo(k, step) == caller' = [caller EXCEPT ![k] = step]
\* A status is sent; only Disconnected is told apart.
Announce(status) == lossAnnounced' = (status = "Disconnected")
Quiet == lossAnnounced' = FALSE

\* The attempts that have claimed the flag and not released it.
Claimed == {c \in Conns : task[c] # "idle"}

\* Those with a sender that is, or was, the client's.
Open == {c \in Conns : task[c] \in {"storing", "greeting", "pinging", "up"}}

Reading(c) == reader[c] \in {"first", "reading"}

Room(c) == Len(channel[c]) < BufSize

Queue(c, message) == channel' = [channel EXCEPT ![c] = Append(@, message)]

\* Nothing refers to it any more.
Free(c) == c \notin Claimed /\ reader[c] = "gone" /\ sx # c

\* A task for one attempt: wrap_get_internal_websocket, wrap_get_outer_websocket.
Spawn == spawned < MaxSpawned /\ spawned' = spawned + 1

\* A task of its own sends the disconnect; a closed channel refuses it.
SxDrop == goodbye' = [c \in Conns |-> IF c = sx /\ c \in Claimed THEN "waiting"
                                      ELSE goodbye[c]]

\* Mutant: the sender is just forgotten.
RemoveIpSilently ==
  IF serverIp
  THEN serverIp' = FALSE /\ sx' = NoConn /\ UNCHANGED goodbye
  ELSE UNCHANGED <<serverIp, sx, goodbye>>

RemoveIp ==
  IF serverIp
  THEN SxDrop /\ serverIp' = FALSE /\ sx' = NoConn
  ELSE UNCHANGED <<serverIp, sx, goodbye>>

-----------------------------------------------------------------------------
(* One attempt: get_internal_websocket, get_outer_websocket and            *)
(* handle_websocket.                                                       *)

\* Mutant: the flag is not looked at.
TryAcquireAnyway(c) ==
  /\ Free(c)
  /\ isTryConnect' = TRUE /\ TaskTo(c, "dialing")

\* TryConnectGuard::try_acquire.
TryAcquire(c) ==
  /\ Free(c)
  /\ ~isTryConnect
  /\ isTryConnect' = TRUE /\ TaskTo(c, "dialing")

Claim(c) ==
  /\ spawned > 0 /\ spawned' = spawned - 1
  /\ TryAcquire(c)
  /\ UNCHANGED <<serverIp, sx, received, storedIp, goodbye, reader, channel, others>>
  /\ Quiet

TurnedAway ==
  /\ spawned > 0 /\ spawned' = spawned - 1
  /\ isTryConnect
  /\ UNCHANGED <<shared, task, reader, channel, others>>
  /\ Quiet

\* An error, or the connect timeout: get_outer_websocket keeps its URL ...
OuterDialFails(c) ==
  /\ External
  /\ task[c] = "dialing"
  /\ TaskTo(c, "resetting")
  /\ UNCHANGED <<shared, spawned, reader, channel, others>>
  /\ Quiet

\* ... and get_internal_websocket forgets its address.
DialFails(c) ==
  /\ ~External
  /\ task[c] = "dialing"
  /\ TaskTo(c, "forgetting")
  /\ UNCHANGED <<shared, spawned, reader, channel, others>>
  /\ Quiet

\* remove_ip_if_valid_server_ip: remove_ip, then clear_server_ip of the store.
Forget(c) ==
  /\ task[c] = "forgetting"
  /\ RemoveIp
  /\ TaskTo(c, "clearing")
  /\ UNCHANGED <<isTryConnect, received, storedIp, spawned, reader, channel, others>>
  /\ Quiet

ClearStored(c) ==
  /\ task[c] = "clearing"
  /\ storedIp' = FALSE
  /\ TaskTo(c, "resetting")
  /\ UNCHANGED <<isTryConnect, serverIp, sx, received, goodbye, spawned, reader, channel, others>>
  /\ Quiet

\* Mutant: the guard is disarmed before the dial.
ResetDisarmed(c) ==
  /\ task[c] = "resetting"
  /\ TaskTo(c, "idle")
  /\ UNCHANGED <<shared, spawned, reader, channel, others>>
  /\ Quiet

\* The dropped guard's task.
Reset(c) ==
  /\ task[c] = "resetting"
  /\ isTryConnect' = FALSE
  /\ TaskTo(c, "idle")
  /\ UNCHANGED <<serverIp, sx, received, storedIp, goodbye, spawned, reader, channel, others>>
  /\ Quiet

\* The dial succeeds: ServerSender::add replaces, and closes, the previous sender;
\* the store is written after the lock is released.
Add(c) ==
  /\ task[c] = "dialing"
  /\ SxDrop
  /\ sx' = c /\ serverIp' = TRUE
  /\ TaskTo(c, "storing")
  /\ UNCHANGED <<isTryConnect, received, storedIp, spawned, reader, channel, others>>
  /\ Quiet

\* The store is written for an external client too, and never read.
StoreAddress(c) ==
  /\ task[c] = "storing"
  /\ storedIp' = ~External
  /\ TaskTo(c, "greeting")
  /\ UNCHANGED <<isTryConnect, serverIp, sx, received, goodbye, spawned, reader, channel,
                 others>>
  /\ Quiet

Greets == build = "bebop" /\ UsePing

\* The reader and the writer loop of the connection start.
Starts(c) == /\ TaskTo(c, "up")
             /\ reader' = [reader EXCEPT ![c] = IF Greets THEN "first" ELSE "reading"]

\* Without a first ping the connection counts as established here.
Establish(c) ==
  /\ task[c] = "greeting"
  /\ ~Greets
  /\ received' = "fresh" /\ Announce("Connected")
  /\ Starts(c)
  /\ UNCHANGED <<isTryConnect, serverIp, sx, storedIp, goodbye, spawned, channel, others>>

\* The first ping is a send like any other: sx is cloned, if it still stands ...
Greet(c) ==
  /\ task[c] = "greeting"
  /\ Greets
  /\ IF sx = c THEN TaskTo(c, "pinging") /\ UNCHANGED reader ELSE Starts(c)
  /\ UNCHANGED <<shared, spawned, channel, others>>
  /\ Quiet

\* ... and room in the channel awaited, which nobody reads yet.
FirstPing(c) ==
  /\ task[c] = "pinging"
  /\ Room(c) /\ Queue(c, "message")
  /\ Starts(c)
  /\ UNCHANGED <<shared, spawned, others>>
  /\ Quiet

-----------------------------------------------------------------------------
(* The reader and the writer of a connection.                              *)

\* write_received_times does not ask whether the connection is the current one.
Hear(c) ==
  /\ Reading(c)
  /\ received' = "fresh"
  /\ IF reader[c] = "first" THEN Announce("Connected") ELSE Quiet

Hears(c) ==
  /\ Hear(c)
  /\ reader' = [reader EXCEPT ![c] = "reading"]
  /\ UNCHANGED <<isTryConnect, serverIp, sx, storedIp, goodbye, spawned, task, channel,
                 others>>

\* A bebop reader passes a disconnect on to the writer of the same connection, if
\* that is still there ...
HearsDisconnect(c) ==
  /\ build = "bebop"
  /\ Hear(c)
  /\ IF c \in Claimed /\ Room(c) THEN Queue(c, "disconnect") ELSE UNCHANGED channel
  /\ reader' = [reader EXCEPT ![c] = IF c \in Claimed /\ ~Room(c) THEN "telling" ELSE "gone"]
  /\ UNCHANGED <<isTryConnect, serverIp, sx, storedIp, goodbye, spawned, task, others>>

\* ... and waits for room, or for the end of the channel.
ReaderTells(c) ==
  /\ reader[c] = "telling"
  /\ Room(c) /\ Queue(c, "disconnect")
  /\ reader' = [reader EXCEPT ![c] = "gone"]
  /\ UNCHANGED <<shared, spawned, task, others>>
  /\ Quiet

StreamEnds(c) ==
  /\ Reading(c)
  /\ reader' = [reader EXCEPT ![c] = "gone"]
  /\ UNCHANGED <<shared, spawned, task, channel, others>>
  /\ Quiet

\* The task of sx_drop finds room.
GoodbyeQueued(c) ==
  /\ goodbye[c] = "waiting"
  /\ Room(c) /\ Queue(c, "disconnect")
  /\ goodbye' = [goodbye EXCEPT ![c] = "none"]
  /\ UNCHANGED <<isTryConnect, serverIp, sx, received, storedIp, spawned, task, reader,
                 others>>
  /\ Quiet

\* Only the bebop writer knows a disconnect: it is its last message.  To the raw
\* writer it is one message of many.
WriterSends(c) ==
  /\ task[c] = "up" /\ channel[c] # <<>>
  /\ channel' = [channel EXCEPT ![c] = Tail(@)]
  /\ LET last == Head(channel[c]) = "disconnect"
     IN  /\ TaskTo(c, IF last /\ build = "bebop" THEN "flushing" ELSE "up")
         /\ goodbye' = IF last /\ build = "raw" THEN [goodbye EXCEPT ![c] = "sent"]
                       ELSE goodbye
  /\ UNCHANGED <<isTryConnect, serverIp, sx, received, storedIp, spawned, reader, others>>
  /\ Quiet

\* The reader is gone.
WriterStops(c) ==
  /\ task[c] = "up"
  /\ reader[c] = "gone"
  /\ TaskTo(c, "flushing")
  /\ UNCHANGED <<shared, spawned, reader, channel, others>>
  /\ Quiet

\* The socket refuses a message, or a message of the application does not parse.
WriteFails(c) ==
  /\ task[c] = "up"
  /\ TaskTo(c, "flushing")
  /\ UNCHANGED <<shared, spawned, reader, channel, others>>
  /\ Quiet

\* The flag is released and the channel dropped, which fails those who wait for
\* room; neither sx nor server_ip is touched.
Flushed(c) ==
  /\ task[c] = "flushing"
  /\ isTryConnect' = FALSE
  /\ TaskTo(c, "idle")
  /\ channel' = [channel EXCEPT ![c] = <<>>]
  /\ goodbye' = [goodbye EXCEPT ![c] = "none"]
  /\ sending' = [p \in Pushers |-> IF sending[p] = c THEN Closed ELSE sending[p]]
  /\ reader' = [reader EXCEPT ![c] = IF @ = "telling" THEN "gone" ELSE @]
  /\ UNCHANGED <<serverIp, sx, received, storedIp, spawned, caller, loop, cancelled, build>>
  /\ Quiet

-----------------------------------------------------------------------------
(* server_sender.send.                                                     *)

\* A disconnected client sends nothing.
Clone(p) ==
  /\ sending[p] = NoConn /\ sx # NoConn
  /\ sending' = [sending EXCEPT ![p] = IF task[sx] = "idle" THEN Closed ELSE sx]
  /\ UNCHANGED <<shared, conns, caller, loop, cancelled, build>>
  /\ Quiet

SendBegins(s) == Clone(s)

\* Mutant: the channel of the connection is unbounded.
SendsUnbounded(p) ==
  /\ sending[p] \notin {NoConn, Closed}
  /\ Queue(sending[p], "message")
  /\ sending' = [sending EXCEPT ![p] = NoConn]
  /\ UNCHANGED <<shared, spawned, task, reader, caller, loop, cancelled, build>>
  /\ Quiet

\* The channel has room; the writer may not take it, once it is flushing.
SendAccepted(p) ==
  /\ sending[p] \notin {NoConn, Closed}
  /\ Room(sending[p]) /\ Queue(sending[p], "message")
  /\ sending' = [sending EXCEPT ![p] = NoConn]
  /\ UNCHANGED <<shared, spawned, task, reader, caller, loop, cancelled, build>>
  /\ Quiet

\* Closed for every retry: a new attempt at the address that was cloned.
SendExhausted(p) ==
  /\ sending[p] # NoConn
  /\ sending[p] # Closed => task[sending[p]] = "flushing"
  /\ Announce("Disconnected")
  /\ Spawn
  /\ sending' = [sending EXCEPT ![p] = NoConn]
  /\ UNCHANGED <<shared, task, reader, channel, caller, loop, cancelled, build>>

-----------------------------------------------------------------------------
(* get_internal_connect and get_outer_connect.                             *)

\* A connection, or an attempt at one, is under way.
Check(k) ==
  /\ caller[k] = "called"
  /\ CallerTo(k, IF isTryConnect THEN "idle" ELSE "checked")
  /\ UNCHANGED <<shared, conns, sending, loop, cancelled, build>>
  /\ Quiet

\* is_valid_server_ip.
Valid == serverIp /\ received = "fresh"

Validate(k) ==
  /\ caller[k] = "checked"
  /\ Valid
  /\ Announce("Connected")
  /\ CallerTo(k, "idle")
  /\ UNCHANGED <<shared, conns, sending, loop, cancelled, build>>

\* The internal client reads its store first.
Look(k) ==
  /\ caller[k] = "checked"
  /\ ~External /\ ~Valid
  /\ CallerTo(k, "looking")
  /\ UNCHANGED <<shared, conns, sending, loop, cancelled, build>>
  /\ Quiet

\* No address to dial.
NoAddress(k) ==
  /\ caller[k] = "looking"
  /\ ~storedIp
  /\ Announce("Disconnected")
  /\ CallerTo(k, "idle")
  /\ UNCHANGED <<shared, conns, sending, loop, cancelled, build>>

\* At the stored address.
Dial(k) ==
  /\ caller[k] = "looking"
  /\ storedIp
  /\ Announce("Connecting")
  /\ Spawn
  /\ CallerTo(k, "idle")
  /\ UNCHANGED <<shared, task, reader, channel, sending, loop, cancelled, build>>

\* At the URL of the options, whatever the store holds.
DialUrl(k) ==
  /\ caller[k] = "checked"
  /\ External /\ ~Valid
  /\ Announce("Connecting")
  /\ Spawn
  /\ CallerTo(k, "idle")
  /\ UNCHANGED <<shared, task, reader, channel, sending, loop, cancelled, build>>

-----------------------------------------------------------------------------
(* The ping loop.  Its own ping is a send that it waits for.               *)

\* After two silent periods.
LoopPings ==
  /\ loop = "asleep" /\ ~cancelled
  /\ UsePing /\ received = "quiet"
  /\ Clone(Loop)

\* Mutant: it reconnects without telling the application.
LoopFindsDeadQuietly ==
  /\ loop = "asleep" /\ ~cancelled /\ sending[Loop] = NoConn
  /\ received = "dead"
  /\ loop' = "dead"
  /\ UNCHANGED <<shared, conns, sending, caller, cancelled, build>>
  /\ Quiet

\* After four.
LoopFindsDead ==
  /\ loop = "asleep" /\ ~cancelled /\ sending[Loop] = NoConn
  /\ received = "dead"
  /\ Announce("Disconnected")
  /\ loop' = "dead"
  /\ UNCHANGED <<shared, conns, sending, caller, cancelled, build>>

\* get_outer_connect or get_internal_connect, in a task of its own.
\* Bound: not before the last one has returned.
Reconnects ==
  /\ caller[Loop] = "idle"
  /\ Announce("Reconnecting")
  /\ CallerTo(Loop, "called")
  /\ loop' = "asleep"

\* remove_ip_if_valid_server_ip, in two steps like Forget and ClearStored.
LoopForgets ==
  /\ ~External /\ ~KeepIp
  /\ loop = "dead" /\ loop' = "clearing"
  /\ RemoveIp
  /\ UNCHANGED <<isTryConnect, received, storedIp, conns, sending, caller, cancelled, build>>
  /\ Quiet

LoopClears ==
  /\ loop = "clearing"
  /\ storedIp' = FALSE
  /\ Reconnects
  /\ UNCHANGED <<isTryConnect, serverIp, sx, received, goodbye, conns, sending, cancelled,
                 build>>

\* Mutant: the dead connection is left as it is.
LoopKeepsIp ==
  /\ loop = "dead"
  /\ Reconnects
  /\ UNCHANGED <<shared, conns, sending, cancelled, build>>

\* Mutant: only a client that still has a sender is reconnected.
LoopReconnectsSet ==
  /\ loop = "dead"
  /\ sx # NoConn
  /\ RemoveIp /\ Reconnects
  /\ UNCHANGED <<isTryConnect, received, storedIp, conns, sending, cancelled, build>>

\* remove_ip, or with use_keep_ip nothing, comes first.
LoopReconnects ==
  /\ loop = "dead"
  /\ External \/ KeepIp
  /\ IF KeepIp THEN UNCHANGED <<serverIp, sx, goodbye>> ELSE RemoveIp
  /\ Reconnects
  /\ UNCHANGED <<isTryConnect, received, storedIp, conns, sending, cancelled, build>>

\* Time passes.
Age ==
  /\ received \in {"fresh", "quiet"}
  /\ received' = IF received = "fresh" THEN "quiet" ELSE "dead"
  /\ UNCHANGED <<isTryConnect, serverIp, sx, storedIp, goodbye, conns, others>>
  /\ Quiet

-----------------------------------------------------------------------------
(* The application.                                                        *)

\* Its call passes the test that Check makes for the ping loop.
\* Bound: not again after it has disconnected.
AppConnects ==
  /\ caller[App] = "idle" /\ ~cancelled
  /\ ~isTryConnect
  /\ CallerTo(App, "checked")
  /\ UNCHANGED <<shared, conns, sending, loop, cancelled, build>>
  /\ Quiet

AppStores ==
  /\ ~External /\ ~storedIp
  /\ storedIp' = TRUE
  /\ UNCHANGED <<isTryConnect, serverIp, sx, received, goodbye, conns, others>>
  /\ Quiet

Disconnect ==
  /\ ~cancelled
  /\ cancelled' = TRUE
  /\ RemoveIp
  /\ UNCHANGED <<isTryConnect, received, storedIp, conns, sending, caller, loop, build>>
  /\ Quiet

-----------------------------------------------------------------------------
TaskStep(c) == \/ OuterDialFails(c) \/ DialFails(c)
               \/ Forget(c) \/ ClearStored(c)
               \/ Reset(c) \/ Add(c) \/ StoreAddress(c)
               \/ Establish(c) \/ Greet(c) \/ FirstPing(c)
               \/ WriterSends(c) \/ WriterStops(c) \/ Flushed(c)
DisconnectStep(c) == ReaderTells(c) \/ GoodbyeQueued(c)
SendStep(p) == SendAccepted(p) \/ SendExhausted(p)
CallerStep(k) == Check(k) \/ Validate(k) \/ Look(k) \/ NoAddress(k) \/ Dial(k) \/ DialUrl(k)
LoopStep == LoopPings \/ LoopFindsDead \/ LoopForgets \/ LoopClears \/ LoopReconnects

Next ==
  \/ TurnedAway
  \/ \E c \in Conns : \/ Claim(c) \/ TaskStep(c) \/ WriteFails(c) \/ DisconnectStep(c)
                      \/ Hears(c) \/ HearsDisconnect(c) \/ StreamEnds(c)
  \/ \E s \in Senders : SendBegins(s)
  \/ \E p \in Pushers : SendStep(p)
  \/ \E k \in Callers : CallerStep(k)
  \/ LoopStep \/ Age
  \/ AppConnects \/ AppStores \/ Disconnect

Spec == Init /\ [][Next]_vars

\* Every task of the client runs (a call or a send of the application need not
\* go on), dials end by their timeout, writes are accepted or refused, time
\* passes, and a socket whose writer is gone is closed in the end by the server,
\* which was told, or by the system.  A server that keeps a connection open owes
\* it nothing.  Room in a channel is handed out in order of arrival, and only the
\* bound on Spawn ever disables a caller or a failed send: hence the strong
\* fairness.
FairSpec ==
  /\ Spec
  /\ WF_vars(\E c \in Conns : TaskStep(c))
  /\ WF_vars(\E c \in Conns : task[c] = "idle" /\ StreamEnds(c))
  /\ WF_vars(TurnedAway \/ \E c \in Conns : Claim(c))
  /\ SF_vars(\E c \in Conns : DisconnectStep(c))
  /\ SF_vars(CallerStep(Loop)) /\ SF_vars(SendStep(Loop))
  /\ WF_vars(LoopStep) /\ WF_vars(Age)

-----------------------------------------------------------------------------
TypeOK ==
  /\ build \in {"bebop", "raw"}
  /\ isTryConnect \in BOOLEAN /\ serverIp \in BOOLEAN
  /\ storedIp \in BOOLEAN /\ cancelled \in BOOLEAN /\ lossAnnounced \in BOOLEAN
  /\ sx \in Conns \cup {NoConn}
  /\ received \in {"never", "fresh", "quiet", "dead"}
  /\ task \in [Conns -> {"idle", "dialing", "forgetting", "clearing", "resetting",
                         "storing", "greeting", "pinging", "up", "flushing"}]
  /\ spawned \in 0..MaxSpawned
  /\ reader \in [Conns -> {"first", "reading", "telling", "gone"}]
  /\ channel \in [Conns -> Seq({"message", "disconnect"})]
  /\ \A c \in Conns : Len(channel[c]) <= BufSize
  /\ goodbye \in [Conns -> {"none", "waiting", "sent"}]
  /\ sending \in [Pushers -> Conns \cup {NoConn, Closed}]
  /\ caller \in [Callers -> {"idle", "called", "checked", "looking"}]
  /\ loop \in {"asleep", "dead", "clearing"}

\* One attempt or connection at a time, whoever asks for one and however the
\* last one ended; and the flag is set exactly while there is one, so that it
\* can lock nobody out (get_internal_websocket.rs:37-48).
SingleFlight == /\ \A c, d \in Claimed : c = d
                /\ isTryConnect <=> Claimed # {}

\* Moreover it changes hands one way only: a trigger that finds it clear takes it
\* when the last connection has let go, and nobody but its owner clears it, which
\* is what TryConnectGuard and the end of handle_websocket are to guarantee
\* together (get_internal_websocket.rs:37-98 and 320-328).
Guard == INSTANCE FlagGuard WITH Owners <- Conns, flag <- isTryConnect, owners <- Claimed
ImplementsGuard == Guard!Spec

\* A disconnect waits for room, is queued, or has been sent and survived.
Queued(c) == \E i \in 1..Len(channel[c]) : channel[c][i] = "disconnect"
Told(c) == goodbye[c] # "none" \/ Queued(c)

\* An open connection is the one that messages go to, or it has been told to
\* close: none is left open that nobody can send to and nobody has told (a bebop
\* writer ends at the disconnect, a raw one sends it to the server and goes on;
\* server_sender.rs:244-272).
NoOrphan == \A c \in Open : sx = c \/ (sx = NoConn /\ Told(c))

\* A connection whose reader is at work and which nobody has asked to close.
Live == \E c \in Conns : task[c] = "up" /\ Reading(c) /\ ~Told(c)

\* The first ping waits on a channel that is full before anything reads it.
FirstPingStuck == \E c \in Conns : task[c] = "pinging" /\ ~Room(c)

\* A raw connection that was asked to close, kept open by the server.
KeptOpen == \E c \in Conns : task[c] = "up" /\ Reading(c) /\ goodbye[c] = "sent"

\* The flag is never held for good without a live connection ("preventing
\* permanent connection lockout", get_internal_websocket.rs:47), but for the two
\* ways in which the code does not let go.
FlagReleased == []<>(~isTryConnect \/ Live \/ FirstPingStuck \/ KeptOpen)

\* An external client that was connected, and has no connection now, tries again
\* (README.md:400 "The client will automatically attempt to reconnect when the
\* connection is lost").
LossIsRedialed == received # "never" /\ ~isTryConnect ~> isTryConnect \/ cancelled

\* The application hears of a loss, however many redials fail meanwhile, unless
\* there is a connection again, or the loop itself waits behind a first ping that
\* is stuck, or a raw server that was asked to close goes on talking.
LossIsReported ==
  received # "never" /\ ~Live
    ~> lossAnnounced \/ Live \/ cancelled \/ FirstPingStuck \/ KeptOpen

\* A connection that has gone silent is given up for a new attempt, unless it
\* speaks again (SenderStatus::Reconnecting: "Lost connection, automatically
\* attempting to reconnect"), with the same two exceptions.
SilenceIsRedialed ==
  received = "dead" ~> \/ received # "dead" \/ cancelled
                       \/ \E c \in Conns : task[c] = "dialing"
                       \/ FirstPingStuck \/ KeptOpen
=============================================================================
