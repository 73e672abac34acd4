----------------------------- MODULE PingSystem -----------------------------
(***************************************************************************)
(* Time: an external client and its server keep each other alive.  The     *)
(* client answers a pong with a ping one retry period later, and its ping  *)
(* loop, which sleeps one period or more, pings a server that is silent    *)
(* for two of them and gives it up after four.  The server counts from its *)
(* last successful send to a client and drops the entry of one that it had *)
(* nothing to send to for client_timeout_seconds.                          *)
(*                                                                         *)
(* Time is a number of ticks: ages count up, timers count down, and Tick   *)
(* waits for whatever is due.  A message takes up to Delay ticks.          *)
(***************************************************************************)
EXTENDS Integers, Sequences, FiniteSets

CONSTANTS Retry,           \* ClientOptions::retry_seconds
          Timeouts,        \* values of ServerOptions::client_timeout_seconds
          CheckInterval,   \* ServerOptions::client_check_interval_secs
          ConnectTimeout,  \* ClientOptions::connect_timeout_seconds
          Delay,           \* the longest way of a message
          MaxFaults,       \* bound: times that the network or the server fails
          MaxQueue         \* bound: messages on their way before the server's
                           \* application sends another

ASSUME PeriodsAssumption ==
  /\ Retry \in Nat \ {0} /\ CheckInterval \in Nat \ {0} /\ Timeouts \subseteq Nat
  /\ ConnectTimeout \in Nat /\ Delay \in Nat /\ MaxFaults \in Nat

MaxPeriod == 8 * Retry
Never == -1
Gone == -1

VARIABLES
  clientTimeout,  \* ServerOptions::client_timeout_seconds
  link,           \* the client's attempt: "none", "dialing", "open", "closing"
  dialing,        \* ticks since the dial began
  sx,             \* ServerSender::sx: "none", "live", or "dead" with its receiver
  redial,         \* a reconnection was spawned and has not looked at the guard
  received,       \* age of server_received_times
  wakeIn,         \* until the ping loop wakes up
  period,         \* current_retry_seconds
  pingTimers,     \* sleeping tasks that will ping: [in, own], own being the
                  \* open connection's, whose is_wait_ping is set
  up, down,       \* the open connection: [what, age]
  broken,         \* nothing gets through it, without either side being told
  named,          \* the server has read its first ping
  sendAge,        \* age of send_time in the connection's entry
  checkIn,        \* until the next check_client_send_time
  faults,
  settled         \* history: the ping loop has found this connection alive

clientVars == <<link, dialing, sx, redial, received, pingTimers>>
loopVars == <<wakeIn, period, settled>>
network == <<up, down, broken>>
serverVars == <<clientTimeout, named, sendAge, checkIn>>
vars == <<clientVars, loopVars, network, serverVars, faults>>

Init ==
  /\ clientTimeout \in Timeouts
  /\ link = "dialing" /\ dialing = 0 /\ sx = "none" /\ redial = FALSE
  /\ received = Never /\ wakeIn = Retry /\ period = Retry /\ pingTimers = {}
  /\ up = <<>> /\ down = <<>> /\ broken = FALSE
  /\ named = FALSE /\ sendAge = Gone /\ checkIn = CheckInterval
  /\ faults = 0 /\ settled = FALSE

Now(what) == [what |-> what, age |-> 0]
On(queue, what) == IF broken THEN queue ELSE Append(queue, Now(what))

\* ServerSender::send of a ping.  A channel whose receiver is gone refuses every
\* retry, and the send spawns a reconnection.
SendPing ==
  /\ up' = IF sx = "live" /\ link = "open" THEN On(up, "ping") ELSE up
  /\ redial' = (redial \/ sx = "dead")

-----------------------------------------------------------------------------
(* Connecting.                                                             *)

\* The guard is free or the reconnection is turned away.
Redial ==
  /\ redial
  /\ redial' = FALSE
  /\ IF link = "none" THEN link' = "dialing" /\ dialing' = 0 ELSE UNCHANGED <<link, dialing>>
  /\ UNCHANGED <<sx, received, pingTimers, loopVars, network, serverVars, faults>>

\* handle_websocket: the sender is replaced and the first ping sent.
DialSucceeds ==
  /\ link = "dialing"
  /\ link' = "open" /\ dialing' = 0 /\ sx' = "live"
  /\ up' = <<Now("ping")>> /\ down' = <<>> /\ broken' = FALSE
  /\ named' = FALSE /\ sendAge' = Gone
  /\ pingTimers' = {[in |-> t.in, own |-> FALSE] : t \in pingTimers}
  /\ settled' = FALSE
  /\ UNCHANGED <<redial, received, wakeIn, period, clientTimeout, checkIn, faults>>

DialFails ==
  /\ link = "dialing"
  /\ link' = "none" /\ dialing' = 0
  /\ UNCHANGED <<sx, redial, received, pingTimers, loopVars, network, serverVars, faults>>

\* The writer has flushed; the guard is released.
Closed ==
  /\ link = "closing"
  /\ link' = "none"
  /\ sx' = IF sx = "live" THEN "dead" ELSE sx
  /\ up' = <<>> /\ down' = <<>> /\ broken' = FALSE
  /\ named' = FALSE /\ sendAge' = Gone
  /\ UNCHANGED <<dialing, redial, received, pingTimers, loopVars, clientTimeout, checkIn, faults>>

-----------------------------------------------------------------------------
(* The client.                                                             *)

\* Any message refreshes server_received_times; a pong starts the timer of the
\* next ping, unless one is running.
ClientHears ==
  /\ link = "open" /\ ~broken /\ down # <<>>
  /\ down' = Tail(down)
  /\ received' = 0
  /\ pingTimers' = IF Head(down).what = "pong" /\ ~\E t \in pingTimers : t.own
                   THEN pingTimers \cup {[in |-> Retry, own |-> TRUE]} ELSE pingTimers
  /\ UNCHANGED <<link, dialing, sx, redial, loopVars, up, broken, serverVars, faults>>

TimerFires ==
  /\ \E t \in pingTimers : t.in = 0 /\ pingTimers' = pingTimers \ {t}
  /\ SendPing
  /\ UNCHANGED <<link, dialing, sx, received, loopVars, down, broken, serverVars, faults>>

\* Mutant: a live connection does not end the backoff.
LoopFindsAliveOnly ==
  /\ wakeIn = 0 /\ (received = Never \/ received <= 2 * Retry)
  /\ wakeIn' = period /\ UNCHANGED period
  /\ settled' = (link = "open" /\ received # Never)
  /\ UNCHANGED <<clientVars, network, serverVars, faults>>

LoopFindsAlive ==
  /\ wakeIn = 0 /\ (received = Never \/ received <= 2 * Retry)
  /\ wakeIn' = Retry /\ period' = Retry
  /\ settled' = (link = "open" /\ received # Never)
  /\ UNCHANGED <<clientVars, network, serverVars, faults>>

LoopPings ==
  /\ wakeIn = 0 /\ received \in (2 * Retry + 1)..(4 * Retry)
  /\ SendPing
  /\ wakeIn' = period
  /\ UNCHANGED <<link, dialing, sx, received, pingTimers, period, settled, down, broken,
                 serverVars, faults>>

\* Mutant: the backoff has no cap.
BackoffUncapped == 2 * period

Backoff == IF 2 * period > MaxPeriod THEN MaxPeriod ELSE 2 * period

\* Mutant: the silent connection keeps the guard.
GiveUpNot == UNCHANGED <<link, sx>>

\* remove_ip: the sender is dropped, and told to disconnect.
GiveUp == /\ sx' = "none"
          /\ link' = IF link = "open" THEN "closing" ELSE link

LoopFindsDead ==
  /\ wakeIn = 0 /\ received > 4 * Retry
  /\ GiveUp
  /\ redial' = TRUE
  /\ period' = Backoff /\ wakeIn' = Backoff
  /\ UNCHANGED <<dialing, received, pingTimers, settled, network, serverVars, faults>>

-----------------------------------------------------------------------------
(* The server.                                                             *)

\* The first ping registers the client, a later one is answered through the
\* registry: a client that was dropped gets no answer.
ServerHears ==
  /\ up # <<>> /\ ~broken
  /\ up' = Tail(up)
  /\ named' = TRUE
  /\ IF named /\ sendAge = Gone THEN UNCHANGED <<down, sendAge>>
     ELSE down' = On(down, "pong") /\ sendAge' = 0
  /\ UNCHANGED <<clientVars, loopVars, broken, clientTimeout, checkIn, faults>>

\* The server's application sends something, into a dead network, too.
ServerSends ==
  /\ link = "open" /\ sendAge # Gone /\ Len(down) < MaxQueue
  /\ down' = On(down, "data") /\ sendAge' = 0
  /\ UNCHANGED <<clientVars, loopVars, up, broken, clientTimeout, named, checkIn, faults>>

\* Mutant: the last second does not count.
ExpiredEarly == sendAge >= clientTimeout

Expired == sendAge > clientTimeout

Check ==
  /\ checkIn = 0
  /\ checkIn' = CheckInterval
  /\ sendAge' = IF Expired THEN Gone ELSE sendAge
  /\ UNCHANGED <<clientVars, loopVars, network, clientTimeout, named, faults>>

-----------------------------------------------------------------------------
(* Faults.                                                                 *)

\* The network swallows everything from now on.
Break ==
  /\ faults < MaxFaults /\ link = "open" /\ ~broken
  /\ faults' = faults + 1 /\ broken' = TRUE
  /\ up' = <<>> /\ down' = <<>>
  /\ UNCHANGED <<clientVars, loopVars, serverVars>>

\* The stream ends: the server went down or closed it.
StreamEnds ==
  /\ faults < MaxFaults /\ link = "open" /\ ~broken
  /\ faults' = faults + 1 /\ link' = "closing"
  /\ up' = <<>> /\ down' = <<>>
  /\ UNCHANGED <<dialing, sx, redial, received, pingTimers, loopVars, broken, serverVars>>

-----------------------------------------------------------------------------
\* Bound: an age beyond the last deadline that asks for it stays there.
Older(age, bound) == IF age = -1 \/ age = bound THEN age ELSE age + 1
Later(queue) == [i \in 1..Len(queue) |-> [what |-> queue[i].what, age |-> queue[i].age + 1]]
MaxAge == 4 * Retry + MaxPeriod + 1

Due == \/ wakeIn = 0 \/ checkIn = 0 \/ redial
       \/ \E t \in pingTimers : t.in = 0
       \/ \E queue \in {up, down} : queue # <<>> /\ Head(queue).age = Delay
       \/ link = "dialing" /\ dialing = ConnectTimeout
       \/ link = "closing"

Tick ==
  /\ ~Due
  /\ dialing' = IF link = "dialing" THEN dialing + 1 ELSE dialing
  /\ received' = Older(received, MaxAge)
  /\ sendAge' = Older(sendAge, clientTimeout + 1)
  /\ wakeIn' = wakeIn - 1 /\ checkIn' = checkIn - 1
  /\ pingTimers' = {[in |-> t.in - 1, own |-> t.own] : t \in pingTimers}
  /\ up' = Later(up) /\ down' = Later(down)
  /\ UNCHANGED <<clientTimeout, link, sx, redial, period, broken, named, faults, settled>>

Client == Redial \/ DialSucceeds \/ DialFails \/ Closed \/ ClientHears \/ TimerFires
Loop == LoopFindsAlive \/ LoopPings \/ LoopFindsDead
Server == ServerHears \/ ServerSends \/ Check
Next == Client \/ Loop \/ Server \/ Break \/ StreamEnds \/ Tick

\* Tasks run, time passes, and a server that is dialed for ever answers.
Fairness == /\ WF_vars(Tick) /\ WF_vars(Loop) /\ WF_vars(Check)
            /\ WF_vars(Redial) /\ WF_vars(Closed) /\ WF_vars(ClientHears)
            /\ WF_vars(TimerFires) /\ WF_vars(ServerHears)
            /\ WF_vars(DialSucceeds \/ DialFails) /\ SF_vars(DialSucceeds)

Spec == Init /\ [][Next]_vars /\ Fairness

-----------------------------------------------------------------------------
Messages == [what : {"ping", "pong", "data"}, age : 0..Delay]
Timers == [in : 0..Retry, own : BOOLEAN]

ClientTypes ==
  /\ link \in {"none", "dialing", "open", "closing"} /\ dialing \in 0..ConnectTimeout
  /\ sx \in {"none", "live", "dead"} /\ received \in -1..MaxAge
  /\ pingTimers \subseteq Timers
LoopTypes == period \in Retry..MaxPeriod /\ wakeIn \in 0..period
NetworkTypes ==
  up \in Seq(Messages) /\ down \in Seq(Messages) /\ faults \in 0..MaxFaults
ServerTypes ==
  /\ clientTimeout \in Timeouts /\ sendAge \in -1..(clientTimeout + 1)
  /\ checkIn \in 0..CheckInterval
Flags ==
  redial \in BOOLEAN /\ broken \in BOOLEAN /\ named \in BOOLEAN /\ settled \in BOOLEAN

\* Timers and ages stay within their periods, and no message is later than the
\* longest way, whatever crosses (get_internal_websocket.rs:259-266,
\* internal_client.rs:535-563).
TypeOK == ClientTypes /\ LoopTypes /\ NetworkTypes /\ ServerTypes /\ Flags

\* A client that answers pongs is not dropped by the server, at any phase of the
\* two periods, if its period and a round trip fit into the timeout
\* (get_internal_websocket.rs:254-268, client_sender.rs:271-286).
PingingClientStays ==
  Retry + 2 * Delay <= clientTimeout /\ link = "open" /\ ~broken /\ named => sendAge # Gone

\* A connection that the ping loop has seen alive is given up at most five
\* periods after its last message, whatever the backoff was before
\* (internal_client.rs:517-520, 559-561).
SilenceIsNoticed == link = "open" /\ settled => received <= 5 * Retry

\* Whatever timers and messages cross, a client that has once heard of its server
\* is registered with it again: after a silent network, an end of the stream, and
\* after it was dropped for want of anything sent to it, which leaves its
\* connection open and its pings unanswered (internal_client.rs:517-553).
ComesBack ==
  received # Never ~> (link = "open" /\ ~broken /\ sendAge # Gone)
=============================================================================
