-------------------------- MODULE PingSystemProofs --------------------------
(***************************************************************************)
(* A client that answers pongs keeps its entry, and the ping loop notices  *)
(* silence in time: for all periods, timeouts and delays.                  *)
(*                                                                         *)
(* The argument follows the exchange around.  Of a connection whose client *)
(* is named, one of three things is on its way: a pong, the timer that the *)
(* pong started, or the ping that the timer sent.  Each is younger than it *)
(* may get, and the last send is no older than the three together.         *)
(***************************************************************************)
EXTENDS PingSystem, TLAPS

\* Messages arrive in order: the first is the oldest.
InOrder(queue) == \A i, j \in 1..Len(queue) : i < j => queue[j].age <= queue[i].age

\* A connection whose first ping was not read has sent nothing back.
Fresh == link = "open" /\ ~named => /\ sendAge = Gone /\ down = <<>>
                                    /\ \A t \in pingTimers : ~t.own

PongSince == \A i \in 1..Len(down) : down[i].what = "pong" => sendAge <= down[i].age
TimerSince == \A t \in pingTimers : t.own => sendAge <= Delay + Retry - t.in
OnItsWay == \/ \E i \in 1..Len(down) : down[i].what = "pong"
            \/ \E t \in pingTimers : t.own
            \/ \E i \in 1..Len(up) : sendAge <= Delay + Retry + up[i].age

Answering == link = "open" /\ ~broken /\ named /\ Retry + 2 * Delay <= clientTimeout
Exchange == Answering => sendAge # Gone /\ PongSince /\ TimerSince /\ OnItsWay

\* The loop sleeps one period at a time over a connection it has seen alive.
Watch == link = "open" /\ settled => /\ period = Retry /\ received # Never
                                     /\ received + wakeIn <= 5 * Retry

Ordered == InOrder(up) /\ InOrder(down)
Sender == link = "open" => sx = "live"

IInv == TypeOK /\ Ordered /\ Sender /\ Fresh /\ Exchange /\ Watch

-----------------------------------------------------------------------------
\* Bounds that the periods give.
LEMMA Periods ==
  /\ Retry \in Nat \ {0} /\ CheckInterval \in Nat \ {0} /\ Timeouts \subseteq Nat
  /\ ConnectTimeout \in Nat /\ Delay \in Nat /\ MaxFaults \in Nat
  /\ MaxPeriod \in Nat /\ MaxAge \in Nat /\ MaxPeriod = 8 * Retry
  /\ MaxAge = 12 * Retry + 1
  BY PeriodsAssumption DEF MaxPeriod, MaxAge

\* A new message goes to the end of a queue that is in order.
LEMMA Sent ==
  ASSUME NEW queue \in Seq(Messages), InOrder(queue),
         NEW what \in {"ping", "pong", "data"}
  PROVE  /\ Append(queue, Now(what)) \in Seq(Messages)
         /\ InOrder(Append(queue, Now(what)))
<1> DEFINE longer == Append(queue, Now(what))
<1>1. Now(what) \in Messages
  BY Periods DEF Now, Messages
<1>2. longer \in Seq(Messages) /\ Len(longer) = Len(queue) + 1 /\ Len(queue) \in Nat
  BY <1>1
<1>3. longer[Len(queue) + 1].age = 0
  BY <1>1 DEF Now
<1>4. \A i \in 1..Len(queue) : longer[i] = queue[i] /\ queue[i].age \in Nat
  <2> SUFFICES ASSUME NEW i \in 1..Len(queue)
               PROVE  longer[i] = queue[i] /\ queue[i].age \in Nat
    OBVIOUS
  <2>1. queue[i] \in Messages /\ longer[i] = queue[i]
    BY <1>1
  <2> QED  BY <2>1, Periods DEF Messages
<1>5. ASSUME NEW i \in 1..Len(longer), NEW j \in 1..Len(longer), i < j
      PROVE  longer[j].age <= longer[i].age
  <2> i \in 1..Len(queue)
    BY <1>2, <1>5
  <2>1. CASE j = Len(queue) + 1
    BY <2>1, <1>3, <1>4
  <2>2. CASE j \in 1..Len(queue)
    BY <2>2, <1>4, <1>5 DEF InOrder
  <2> QED  BY <2>1, <2>2, <1>2
<1> QED  BY <1>2, <1>5 DEF InOrder

\* The first of a queue leaves the others in order.
LEMMA Received ==
  ASSUME NEW queue \in Seq(Messages), InOrder(queue), queue # <<>>
  PROVE  Tail(queue) \in Seq(Messages) /\ InOrder(Tail(queue))
  BY DEF InOrder

\* No message is late as long as the first is not.
LEMMA Aged ==
  ASSUME NEW queue \in Seq(Messages), InOrder(queue),
         queue # <<>> => Head(queue).age # Delay
  PROVE  /\ Later(queue) \in Seq(Messages) /\ InOrder(Later(queue))
         /\ Len(Later(queue)) = Len(queue)
         /\ \A i \in 1..Len(queue) : /\ Later(queue)[i].what = queue[i].what
                                     /\ Later(queue)[i].age = queue[i].age + 1
<1>1. \A i \in 1..Len(queue) : queue[i] \in Messages /\ queue[i].age < Delay
  <2> SUFFICES ASSUME NEW i \in 1..Len(queue)
               PROVE  queue[i] \in Messages /\ queue[i].age < Delay
    OBVIOUS
  <2>1. queue[i] \in Messages /\ queue[1] \in Messages /\ Head(queue) = queue[1]
    OBVIOUS
  <2>2. queue[1].age # Delay /\ queue[i].age <= queue[1].age
    BY <2>1, Periods DEF InOrder, Messages
  <2> QED  BY <2>1, <2>2, Periods DEF Messages
<1>2. \A i \in 1..Len(queue) :
        [what |-> queue[i].what, age |-> queue[i].age + 1] \in Messages
  BY <1>1, Periods DEF Messages
<1>3. Later(queue) \in Seq(Messages) /\ Len(Later(queue)) = Len(queue)
  BY <1>2 DEF Later
<1>4. \A i \in 1..Len(queue) : /\ Later(queue)[i].what = queue[i].what
                               /\ Later(queue)[i].age = queue[i].age + 1
  BY DEF Later
<1>5. InOrder(Later(queue))
  BY <1>1, <1>3, <1>4 DEF InOrder, Messages
<1> QED  BY <1>3, <1>4, <1>5

\* A message that is sent, or swallowed.
LEMMA SentOn ==
  ASSUME NEW queue \in Seq(Messages), InOrder(queue),
         NEW what \in {"ping", "pong", "data"}
  PROVE  /\ On(queue, what) \in Seq(Messages) /\ InOrder(On(queue, what))
         /\ \A i \in 1..Len(queue) : /\ i \in 1..Len(On(queue, what))
                                     /\ On(queue, what)[i] = queue[i]
         /\ ~broken => \E i \in 1..Len(On(queue, what)) : On(queue, what)[i] = Now(what)
<1>1. CASE broken
  BY <1>1 DEF On
<1>2. CASE ~broken
  <2> DEFINE longer == Append(queue, Now(what))
  <2>1. On(queue, what) = longer /\ longer \in Seq(Messages) /\ InOrder(longer)
    BY <1>2, Sent DEF On
  <2>2. Now(what) \in Messages
    BY Periods DEF Now, Messages
  <2>3. Len(longer) = Len(queue) + 1 /\ longer[Len(queue) + 1] = Now(what)
    BY <2>2
  <2>4. \A i \in 1..Len(queue) : i \in 1..Len(longer) /\ longer[i] = queue[i]
    BY <2>2
  <2>5. Len(queue) + 1 \in 1..Len(longer)
    BY <2>3
  <2> QED  BY <2>1, <2>3, <2>4, <2>5
<1> QED  BY <1>1, <1>2

-----------------------------------------------------------------------------
LEMMA Initially == Init => IInv
<1> SUFFICES ASSUME Init PROVE IInv
  OBVIOUS
<1>1. ClientTypes
  BY Periods DEF Init, ClientTypes, Never
<1>2. LoopTypes
  BY Periods DEF Init, LoopTypes
<1>3. NetworkTypes
  <2>1. up \in Seq(Messages) /\ down \in Seq(Messages)
    BY DEF Init
  <2> QED  BY <2>1, Periods DEF Init, NetworkTypes
<1>4. ServerTypes
  BY Periods DEF Init, ServerTypes, Gone
<1>5. Flags
  BY DEF Init, Flags
<1>6. Ordered /\ Sender /\ Fresh /\ Exchange /\ Watch
  BY DEF Init, Ordered, InOrder, Sender, Fresh, Exchange, Answering, Watch
<1> QED  BY <1>1, <1>2, <1>3, <1>4, <1>5, <1>6 DEF IInv, TypeOK

\* A connection that the server does not know yet.
LEMMA Unnamed ==
  ASSUME ServerTypes, sendAge' = Gone, UNCHANGED <<clientTimeout, checkIn>>
  PROVE  ServerTypes'
<1>1. clientTimeout \in Nat
  BY Periods DEF ServerTypes
<1>2. Gone \in -1..(clientTimeout + 1)
  BY <1>1 DEF Gone
<1> QED  BY <1>2 DEF ServerTypes

\* Connecting starts from nothing.
LEMMA RedialKeeps == IInv /\ Redial => IInv'
<1> SUFFICES ASSUME IInv, Redial PROVE IInv'
  OBVIOUS
<1> USE DEF IInv, Redial
<1>1. ClientTypes'
  BY Periods DEF TypeOK, ClientTypes
<1>2. LoopTypes' /\ NetworkTypes' /\ ServerTypes'
  BY DEF TypeOK, LoopTypes, NetworkTypes, ServerTypes, loopVars, network, serverVars
<1>3. Flags'
  BY DEF TypeOK, Flags, loopVars, network, serverVars
<1>4. Ordered' /\ Sender' /\ Fresh' /\ Watch'
  BY DEF Ordered, InOrder, Sender, Fresh, Watch, loopVars, network, serverVars
<1>5. Exchange'
  BY DEF Exchange, Answering, PongSince, TimerSince, OnItsWay, network, serverVars
<1> QED  BY <1>1, <1>2, <1>3, <1>4, <1>5 DEF TypeOK

LEMMA DialSucceedsKeeps == IInv /\ DialSucceeds => IInv'
<1> SUFFICES ASSUME IInv, DialSucceeds PROVE IInv'
  OBVIOUS
<1> USE DEF IInv, DialSucceeds
<1>1. pingTimers' \subseteq Timers /\ \A t \in pingTimers' : ~t.own
  <2>1. \A t \in pingTimers : [in |-> t.in, own |-> FALSE] \in Timers
    BY DEF TypeOK, ClientTypes, Timers
  <2> QED  BY <2>1
<1>2. ClientTypes'
  BY <1>1, Periods DEF TypeOK, ClientTypes
<1>3. NetworkTypes'
  <2>1. Now("ping") \in Messages
    BY Periods DEF Now, Messages
  <2>2. up' \in Seq(Messages) /\ down' \in Seq(Messages)
    BY <2>1
  <2> QED  BY <2>2 DEF TypeOK, NetworkTypes
<1>4. LoopTypes' /\ ServerTypes'
  BY Unnamed DEF TypeOK, LoopTypes
<1>5. Flags'
  BY DEF TypeOK, Flags
<1>6. Ordered' /\ Sender' /\ Fresh' /\ Watch' /\ Exchange'
  BY <1>1 DEF Ordered, InOrder, Sender, Fresh, Watch, Exchange, Answering
<1> QED  BY <1>2, <1>3, <1>4, <1>5, <1>6 DEF TypeOK

LEMMA DialFailsKeeps == IInv /\ DialFails => IInv'
<1> SUFFICES ASSUME IInv, DialFails PROVE IInv'
  OBVIOUS
<1> USE DEF IInv, DialFails
<1>1. ClientTypes'
  BY Periods DEF TypeOK, ClientTypes
<1>2. LoopTypes' /\ NetworkTypes' /\ ServerTypes' /\ Flags'
  BY DEF TypeOK, LoopTypes, NetworkTypes, ServerTypes, Flags, loopVars, network, serverVars
<1>3. Ordered' /\ Sender' /\ Fresh' /\ Watch' /\ Exchange'
  BY DEF Ordered, InOrder, Sender, Fresh, Watch, Exchange, Answering, network
<1> QED  BY <1>1, <1>2, <1>3 DEF TypeOK

LEMMA ClosedKeeps == IInv /\ Closed => IInv'
<1> SUFFICES ASSUME IInv, Closed PROVE IInv'
  OBVIOUS
<1> USE DEF IInv, Closed
<1>1. ClientTypes' /\ LoopTypes'
  BY DEF TypeOK, ClientTypes, LoopTypes, loopVars
<1>2. NetworkTypes'
  <2>1. up' \in Seq(Messages) /\ down' \in Seq(Messages)
    OBVIOUS
  <2> QED  BY <2>1 DEF TypeOK, NetworkTypes
<1>3. ServerTypes'
  BY Unnamed DEF TypeOK
<1>4. Flags'
  BY DEF TypeOK, Flags, loopVars
<1>5. Ordered' /\ Sender' /\ Fresh' /\ Watch' /\ Exchange'
  BY DEF Ordered, InOrder, Sender, Fresh, Watch, Exchange, Answering
<1> QED  BY <1>1, <1>2, <1>3, <1>4, <1>5 DEF TypeOK

\* Hearing a pong hands the turn to the timer.
LEMMA HearingKeeps == IInv /\ ClientHears => IInv'
<1> SUFFICES ASSUME IInv, ClientHears PROVE IInv'
  OBVIOUS
<1> USE DEF IInv
<1> DEFINE first == Head(down)
<1>1. /\ down \in Seq(Messages) /\ down # <<>> /\ InOrder(down) /\ Len(down) \in Nat \ {0}
      /\ down' = Tail(down) /\ Len(down') = Len(down) - 1
      /\ first = down[1] /\ first \in Messages
  BY DEF ClientHears, TypeOK, NetworkTypes, Ordered
<1>2. down' \in Seq(Messages) /\ InOrder(down')
  BY <1>1, Received
<1>3. \A i \in 1..Len(down') : i + 1 \in 1..Len(down) /\ down'[i] = down[i + 1]
  BY <1>1
<1>4. \A i \in 1..Len(down) : i = 1 \/ (i - 1 \in 1..Len(down') /\ down'[i - 1] = down[i])
  BY <1>1
<1>5. [in |-> Retry, own |-> TRUE] \in Timers
  BY Periods DEF Timers
<1>6. TypeOK'
  <2>1. ClientTypes'
    <3>1. pingTimers' \subseteq Timers
      BY <1>5 DEF TypeOK, ClientTypes, ClientHears
    <3> QED  BY <3>1, Periods DEF TypeOK, ClientTypes, ClientHears
  <2>2. LoopTypes' /\ NetworkTypes' /\ ServerTypes'
    BY <1>2 DEF TypeOK, LoopTypes, NetworkTypes, ServerTypes, ClientHears, loopVars, serverVars
  <2>3. Flags'
    BY DEF TypeOK, Flags, ClientHears, loopVars, serverVars
  <2> QED  BY <2>1, <2>2, <2>3 DEF TypeOK
<1>7. Ordered' /\ Sender'
  BY <1>2 DEF Ordered, Sender, ClientHears, InOrder
<1>8. Fresh'
  BY <1>1 DEF Fresh, ClientHears, serverVars
<1>9. Watch'
  BY Periods DEF Watch, ClientHears, loopVars, TypeOK, LoopTypes, Never
<1>10. Exchange'
  <2> SUFFICES ASSUME Answering' PROVE (sendAge # Gone /\ PongSince /\ TimerSince /\ OnItsWay)'
    BY DEF Exchange
  <2>1. /\ sendAge # Gone /\ PongSince /\ TimerSince /\ OnItsWay
        /\ sendAge' = sendAge /\ up' = up
    BY DEF Answering, Exchange, ClientHears, serverVars
  <2>2. PongSince'
    BY <1>3, <2>1 DEF PongSince
  <2>3. CASE first.what = "pong" /\ ~\E t \in pingTimers : t.own
    <3>1. pingTimers' = pingTimers \cup {[in |-> Retry, own |-> TRUE]}
      BY <2>3 DEF ClientHears
    <3>2. sendAge <= Delay
      <4>1. 1 \in 1..Len(down) /\ down[1].what = "pong"
        BY <1>1, <2>3
      <4>2. sendAge <= down[1].age
        BY <2>1, <4>1 DEF PongSince
      <4>3. down[1].age \in 0..Delay
        BY <1>1 DEF Messages
      <4>4. clientTimeout \in Nat /\ sendAge \in Int
        BY Periods DEF TypeOK, ServerTypes
      <4> QED  BY <4>2, <4>3, <4>4, Periods
    <3>3. TimerSince'
      BY <2>1, <3>1, <3>2, Periods DEF TimerSince, TypeOK, ServerTypes
    <3>4. \E t \in pingTimers' : t.own
      <4>1. [in |-> Retry, own |-> TRUE] \in pingTimers'
        BY <3>1
      <4> QED  BY <4>1
    <3>5. OnItsWay'
      BY <3>4 DEF OnItsWay
    <3> QED  BY <2>1, <2>2, <3>3, <3>5
  <2>4. CASE ~(first.what = "pong" /\ ~\E t \in pingTimers : t.own)
    <3>1. pingTimers' = pingTimers
      BY <2>4 DEF ClientHears
    <3>2. OnItsWay'
      <4>1. CASE \E i \in 1..Len(down) : down[i].what = "pong"
        <5>1. PICK i \in 1..Len(down) : down[i].what = "pong"
          BY <4>1
        <5>2. CASE i = 1
          BY <1>1, <2>4, <3>1, <5>1, <5>2 DEF OnItsWay
        <5>3. CASE i # 1
          BY <1>4, <5>1, <5>3 DEF OnItsWay
        <5> QED  BY <5>2, <5>3
      <4>2. CASE ~\E i \in 1..Len(down) : down[i].what = "pong"
        BY <2>1, <3>1, <4>2 DEF OnItsWay
      <4> QED  BY <4>1, <4>2
    <3> QED  BY <2>1, <2>2, <3>1, <3>2 DEF TimerSince
  <2> QED  BY <2>3, <2>4
<1> QED  BY <1>6, <1>7, <1>8, <1>9, <1>10

-----------------------------------------------------------------------------
\* A ping goes to the end of the client's queue, or nowhere.
LEMMA PingSent ==
  ASSUME IInv, SendPing
  PROVE  /\ up' \in Seq(Messages) /\ InOrder(up')
         /\ \A i \in 1..Len(up) : i \in 1..Len(up') /\ up'[i] = up[i]
         /\ Answering => \E i \in 1..Len(up') : up'[i] = Now("ping")
<1>1. up \in Seq(Messages) /\ InOrder(up)
  BY DEF IInv, TypeOK, NetworkTypes, Ordered
<1>2. up' = up \/ up' = On(up, "ping")
  BY DEF SendPing
<1>3. Answering => up' = On(up, "ping") /\ ~broken
  BY DEF Answering, SendPing, IInv, Sender
<1> QED  BY <1>1, <1>2, <1>3, SentOn

\* The timer that a pong started hands the turn to a ping.
LEMMA TimerKeeps == IInv /\ TimerFires => IInv'
<1> SUFFICES ASSUME IInv, TimerFires PROVE IInv'
  OBVIOUS
<1>1. SendPing /\ UNCHANGED <<link, dialing, sx, received, loopVars, down, broken, serverVars, faults>>
  BY DEF TimerFires
<1>2. PICK t \in pingTimers : t.in = 0 /\ pingTimers' = pingTimers \ {t}
  BY DEF TimerFires
<1>3. ClientTypes' /\ LoopTypes' /\ ServerTypes'
  BY <1>1, <1>2 DEF IInv, TypeOK, ClientTypes, LoopTypes, ServerTypes, loopVars, serverVars
<1>4. NetworkTypes' /\ Ordered'
  BY <1>1, PingSent DEF IInv, TypeOK, NetworkTypes, Ordered, InOrder
<1>5. Flags'
  BY <1>1 DEF IInv, TypeOK, Flags, SendPing, loopVars, serverVars
<1>6. Sender' /\ Fresh' /\ Watch'
  BY <1>1, <1>2 DEF IInv, Sender, Fresh, Watch, loopVars, serverVars
<1>7. Exchange'
  <2> SUFFICES ASSUME Answering' PROVE (sendAge # Gone /\ PongSince /\ TimerSince /\ OnItsWay)'
    BY DEF Exchange
  <2>1. /\ Answering /\ sendAge # Gone /\ PongSince /\ TimerSince /\ OnItsWay
        /\ sendAge' = sendAge /\ down' = down
    BY <1>1 DEF IInv, Answering, Exchange, serverVars
  <2>2. PongSince' /\ TimerSince'
    BY <1>2, <2>1 DEF PongSince, TimerSince
  <2>3. OnItsWay'
    <3>1. CASE t.own
      <4>1. sendAge <= Delay + Retry
        BY <1>2, <2>1, <3>1, Periods DEF TimerSince
      <4>2. PICK i \in 1..Len(up') : up'[i] = Now("ping")
        BY <1>1, <2>1, PingSent
      <4>3. sendAge' <= Delay + Retry + up'[i].age
        BY <2>1, <4>1, <4>2, Periods DEF Now
      <4> QED  BY <4>3 DEF OnItsWay
    <3>2. CASE ~t.own
      <4>1. \A r \in pingTimers : r.own => r \in pingTimers'
        BY <1>2, <3>2
      <4> QED  BY <1>1, <2>1, <4>1, PingSent DEF OnItsWay
    <3> QED  BY <3>1, <3>2
  <2> QED  BY <2>1, <2>2, <2>3
<1> QED  BY <1>3, <1>4, <1>5, <1>6, <1>7 DEF IInv, TypeOK

\* A loop that finds the server alive sleeps one period.
LEMMA AliveKeeps == IInv /\ LoopFindsAlive => IInv'
<1> SUFFICES ASSUME IInv, LoopFindsAlive PROVE IInv'
  OBVIOUS
<1> USE DEF IInv, LoopFindsAlive
<1>1. ClientTypes' /\ NetworkTypes' /\ ServerTypes'
  BY DEF TypeOK, ClientTypes, NetworkTypes, ServerTypes, clientVars, network, serverVars
<1>2. LoopTypes'
  BY Periods DEF TypeOK, LoopTypes
<1>3. Flags'
  BY DEF TypeOK, Flags, clientVars, network, serverVars
<1>4. Ordered' /\ Sender' /\ Fresh' /\ Exchange'
  BY DEF Ordered, InOrder, Sender, Fresh, Exchange, Answering, PongSince, TimerSince, OnItsWay,
         clientVars, network, serverVars
<1>5. Watch'
  <2> SUFFICES ASSUME link' = "open", settled'
               PROVE  period' = Retry /\ received' # Never /\ received' + wakeIn' <= 5 * Retry
    BY DEF Watch
  <2>1. received # Never /\ received <= 2 * Retry /\ received' = received
    BY DEF clientVars
  <2>2. received \in Int
    BY Periods DEF TypeOK, ClientTypes
  <2> QED  BY <2>1, <2>2, Periods
<1> QED  BY <1>1, <1>2, <1>3, <1>4, <1>5 DEF TypeOK

\* A loop that pings sleeps the period it had, which is one for a connection it
\* has seen alive.
LEMMA LoopPingsKeeps == IInv /\ LoopPings => IInv'
<1> SUFFICES ASSUME IInv, LoopPings PROVE IInv'
  OBVIOUS
<1>1. /\ SendPing /\ wakeIn' = period /\ received \in (2 * Retry + 1)..(4 * Retry)
      /\ UNCHANGED <<link, dialing, sx, received, pingTimers, period, settled, down, broken,
                     serverVars, faults>>
  BY DEF LoopPings
<1>2. ClientTypes' /\ ServerTypes'
  BY <1>1 DEF IInv, TypeOK, ClientTypes, ServerTypes, serverVars
<1>3. LoopTypes'
  BY <1>1, Periods DEF IInv, TypeOK, LoopTypes
<1>4. NetworkTypes' /\ Ordered'
  BY <1>1, PingSent DEF IInv, TypeOK, NetworkTypes, Ordered, InOrder
<1>5. Flags'
  BY <1>1 DEF IInv, TypeOK, Flags, SendPing, serverVars
<1>6. Sender' /\ Fresh'
  BY <1>1 DEF IInv, Sender, Fresh, serverVars
<1>7. Watch'
  <2> SUFFICES ASSUME link' = "open", settled'
               PROVE  period' = Retry /\ received' # Never /\ received' + wakeIn' <= 5 * Retry
    BY DEF Watch
  <2>1. period = Retry /\ received # Never
    BY <1>1 DEF IInv, Watch
  <2>2. wakeIn' = Retry /\ received' = received /\ period' = period
    BY <1>1, <2>1
  <2> QED  BY <1>1, <2>1, <2>2, Periods
<1>8. Exchange'
  BY <1>1, PingSent DEF IInv, Exchange, Answering, PongSince, TimerSince, OnItsWay, serverVars
<1> QED  BY <1>2, <1>3, <1>4, <1>5, <1>6, <1>7, <1>8 DEF IInv, TypeOK

\* A connection that is given up is no longer open.
LEMMA DeadKeeps == IInv /\ LoopFindsDead => IInv'
<1> SUFFICES ASSUME IInv, LoopFindsDead PROVE IInv'
  OBVIOUS
<1>1. /\ GiveUp /\ redial' = TRUE /\ period' = Backoff /\ wakeIn' = Backoff
      /\ UNCHANGED <<dialing, received, pingTimers, settled, network, serverVars, faults>>
  BY DEF LoopFindsDead
<1>2. link' # "open"
  BY <1>1 DEF GiveUp
<1>3. ClientTypes'
  BY <1>1 DEF IInv, TypeOK, ClientTypes, GiveUp
<1>4. Backoff \in Retry..MaxPeriod
  BY Periods DEF IInv, TypeOK, LoopTypes, Backoff
<1>5. LoopTypes'
  BY <1>1, <1>4, Periods DEF LoopTypes
<1>6. NetworkTypes' /\ ServerTypes' /\ Ordered'
  BY <1>1 DEF IInv, TypeOK, NetworkTypes, ServerTypes, Ordered, InOrder, network, serverVars
<1>7. Flags'
  BY <1>1 DEF IInv, TypeOK, Flags, network, serverVars
<1>8. Sender' /\ Fresh' /\ Watch' /\ Exchange'
  BY <1>2 DEF Sender, Fresh, Watch, Exchange, Answering
<1> QED  BY <1>3, <1>5, <1>6, <1>7, <1>8 DEF IInv, TypeOK

-----------------------------------------------------------------------------
\* Reading a ping hands the turn to a pong.
LEMMA ServerHearsKeeps == IInv /\ ServerHears => IInv'
<1> SUFFICES ASSUME IInv, ServerHears PROVE IInv'
  OBVIOUS
<1>1. /\ up # <<>> /\ ~broken /\ up' = Tail(up) /\ named' = TRUE
      /\ IF named /\ sendAge = Gone THEN UNCHANGED <<down, sendAge>>
         ELSE down' = On(down, "pong") /\ sendAge' = 0
      /\ UNCHANGED <<clientVars, loopVars, broken, clientTimeout, checkIn, faults>>
  BY DEF ServerHears
<1>2. /\ up \in Seq(Messages) /\ InOrder(up) /\ down \in Seq(Messages) /\ InOrder(down)
      /\ clientTimeout \in Nat
  BY Periods DEF IInv, TypeOK, NetworkTypes, ServerTypes, Ordered
<1>3. up' \in Seq(Messages) /\ InOrder(up')
  BY <1>1, <1>2, Received
<1>4. /\ On(down, "pong") \in Seq(Messages) /\ InOrder(On(down, "pong"))
      /\ ~broken => \E i \in 1..Len(On(down, "pong")) : On(down, "pong")[i] = Now("pong")
  BY <1>2, SentOn
<1>5. ClientTypes' /\ LoopTypes'
  BY <1>1 DEF IInv, TypeOK, ClientTypes, LoopTypes, clientVars, loopVars
<1>6. NetworkTypes' /\ Ordered'
  BY <1>1, <1>2, <1>3, <1>4 DEF IInv, TypeOK, NetworkTypes, Ordered, InOrder
<1>7. ServerTypes'
  BY <1>1, <1>2 DEF IInv, TypeOK, ServerTypes
<1>8. Flags'
  BY <1>1 DEF IInv, TypeOK, Flags, clientVars, loopVars
<1>9. Sender' /\ Fresh' /\ Watch'
  BY <1>1 DEF IInv, Sender, Fresh, Watch, clientVars, loopVars
<1>10. Exchange'
  <2> SUFFICES ASSUME Answering' PROVE (sendAge # Gone /\ PongSince /\ TimerSince /\ OnItsWay)'
    BY DEF Exchange
  <2>1. down' = On(down, "pong") /\ sendAge' = 0
    BY <1>1 DEF IInv, Exchange, Answering, clientVars
  <2>2. PongSince'
    <3>1. \A i \in 1..Len(down') : down'[i] \in Messages
      BY <1>4, <2>1
    <3> QED  BY <2>1, <3>1, Periods DEF PongSince, Messages
  <2>3. TimerSince'
    <3>1. \A t \in pingTimers' : t.in \in 0..Retry
      BY <1>1 DEF IInv, TypeOK, ClientTypes, Timers, clientVars
    <3> QED  BY <2>1, <3>1, Periods DEF TimerSince
  <2>4. OnItsWay'
    <3>1. PICK i \in 1..Len(down') : down'[i] = Now("pong")
      BY <1>1, <1>4, <2>1
    <3>2. down'[i].what = "pong"
      BY <3>1 DEF Now
    <3> QED  BY <3>2 DEF OnItsWay
  <2> QED  BY <2>1, <2>2, <2>3, <2>4 DEF Gone
<1> QED  BY <1>5, <1>6, <1>7, <1>8, <1>9, <1>10 DEF IInv, TypeOK

\* Whatever else is sent only renews the entry.
LEMMA ServerSendsKeeps == IInv /\ ServerSends => IInv'
<1> SUFFICES ASSUME IInv, ServerSends PROVE IInv'
  OBVIOUS
<1>1. /\ sendAge # Gone /\ down' = On(down, "data") /\ sendAge' = 0
      /\ UNCHANGED <<clientVars, loopVars, up, broken, clientTimeout, named, checkIn, faults>>
  BY DEF ServerSends
<1>2. down \in Seq(Messages) /\ InOrder(down) /\ clientTimeout \in Nat
  BY Periods DEF IInv, TypeOK, NetworkTypes, ServerTypes, Ordered
<1>3. /\ On(down, "data") \in Seq(Messages) /\ InOrder(On(down, "data"))
      /\ \A i \in 1..Len(down) : /\ i \in 1..Len(On(down, "data"))
                                 /\ On(down, "data")[i] = down[i]
  BY <1>2, SentOn
<1>4. ClientTypes' /\ LoopTypes'
  BY <1>1 DEF IInv, TypeOK, ClientTypes, LoopTypes, clientVars, loopVars
<1>5. NetworkTypes' /\ Ordered'
  BY <1>1, <1>3 DEF IInv, TypeOK, NetworkTypes, Ordered, InOrder
<1>6. ServerTypes'
  BY <1>1, <1>2 DEF IInv, TypeOK, ServerTypes
<1>7. Flags'
  BY <1>1 DEF IInv, TypeOK, Flags, clientVars, loopVars
<1>8. Sender' /\ Fresh' /\ Watch'
  BY <1>1 DEF IInv, Sender, Fresh, Watch, clientVars, loopVars
<1>9. Exchange'
  <2> SUFFICES ASSUME Answering' PROVE (sendAge # Gone /\ PongSince /\ TimerSince /\ OnItsWay)'
    BY DEF Exchange
  <2>1. OnItsWay /\ sendAge \in Nat
    <3>1. Answering
      BY <1>1 DEF Answering, clientVars
    <3> QED  BY <3>1, <1>1, <1>2 DEF IInv, Exchange, TypeOK, ServerTypes, Gone
  <2>2. PongSince'
    <3>1. \A i \in 1..Len(down') : down'[i] \in Messages
      BY <1>1, <1>3
    <3> QED  BY <1>1, <3>1, Periods DEF PongSince, Messages
  <2>3. TimerSince'
    <3>1. \A t \in pingTimers' : t.in \in 0..Retry
      BY <1>1 DEF IInv, TypeOK, ClientTypes, Timers, clientVars
    <3> QED  BY <1>1, <3>1, Periods DEF TimerSince
  <2>4. OnItsWay'
    <3>1. CASE \E i \in 1..Len(down) : down[i].what = "pong"
      BY <1>1, <1>3, <3>1 DEF OnItsWay
    <3>2. CASE \E t \in pingTimers : t.own
      BY <1>1, <3>2 DEF OnItsWay, clientVars
    <3>3. CASE \E i \in 1..Len(up) : sendAge <= Delay + Retry + up[i].age
      <4>1. PICK i \in 1..Len(up) : sendAge <= Delay + Retry + up[i].age
        BY <3>3
      <4>2. up[i] \in Messages /\ up' = up
        BY <1>1 DEF IInv, TypeOK, NetworkTypes
      <4>3. sendAge' <= Delay + Retry + up'[i].age
        BY <1>1, <4>2, Periods DEF Messages
      <4> QED  BY <4>2, <4>3 DEF OnItsWay
    <3> QED  BY <2>1, <3>1, <3>2, <3>3 DEF OnItsWay
  <2> QED  BY <1>1, <2>2, <2>3, <2>4 DEF Gone
<1> QED  BY <1>4, <1>5, <1>6, <1>7, <1>8, <1>9 DEF IInv, TypeOK

\* Of a client that answers, the last send is at most a period and a round trip old.
LEMMA Young == IInv /\ Answering => sendAge <= Retry + 2 * Delay
<1> SUFFICES ASSUME IInv, Answering PROVE sendAge <= Retry + 2 * Delay
  OBVIOUS
<1>1. PongSince /\ TimerSince /\ OnItsWay
  BY DEF IInv, Exchange
<1>2. /\ sendAge \in Int
      /\ \A i \in 1..Len(up) : up[i].age \in 0..Delay
      /\ \A i \in 1..Len(down) : down[i].age \in 0..Delay
      /\ \A t \in pingTimers : t.in \in 0..Retry
  <2>1. clientTimeout \in Nat /\ sendAge \in Int
    BY Periods DEF IInv, TypeOK, ServerTypes
  <2>2. \A i \in 1..Len(up) : up[i] \in Messages
    BY DEF IInv, TypeOK, NetworkTypes
  <2>3. \A i \in 1..Len(down) : down[i] \in Messages
    BY DEF IInv, TypeOK, NetworkTypes
  <2>4. \A t \in pingTimers : t \in Timers
    BY DEF IInv, TypeOK, ClientTypes
  <2> QED  BY <2>1, <2>2, <2>3, <2>4 DEF Messages, Timers
<1>3. CASE \E i \in 1..Len(down) : down[i].what = "pong"
  <2>1. PICK i \in 1..Len(down) : sendAge <= down[i].age
    BY <1>1, <1>3 DEF PongSince
  <2> QED  BY <1>2, <2>1, Periods
<1>4. CASE \E t \in pingTimers : t.own
  <2>1. PICK t \in pingTimers : t.own
    BY <1>4
  <2>2. sendAge <= Delay + Retry - t.in
    BY <1>1, <2>1 DEF TimerSince
  <2>3. t.in \in 0..Retry
    BY <1>2
  <2> QED  BY <1>2, <2>2, <2>3, Periods
<1>5. CASE \E i \in 1..Len(up) : sendAge <= Delay + Retry + up[i].age
  BY <1>2, <1>5, Periods
<1> QED  BY <1>1, <1>3, <1>4, <1>5 DEF OnItsWay

\* The check finds nothing to drop of a client that answers.
LEMMA CheckKeeps == IInv /\ Check => IInv'
<1> SUFFICES ASSUME IInv, Check PROVE IInv'
  OBVIOUS
<1>1. /\ checkIn' = CheckInterval /\ sendAge' = IF Expired THEN Gone ELSE sendAge
      /\ UNCHANGED <<clientVars, loopVars, network, clientTimeout, named, faults>>
  BY DEF Check
<1>2. clientTimeout \in Nat /\ sendAge \in -1..(clientTimeout + 1)
  BY Periods DEF IInv, TypeOK, ServerTypes
<1>3. ClientTypes' /\ LoopTypes' /\ NetworkTypes'
  BY <1>1 DEF IInv, TypeOK, ClientTypes, LoopTypes, NetworkTypes, clientVars, loopVars, network
<1>4. ServerTypes'
  BY <1>1, <1>2, Periods DEF IInv, TypeOK, ServerTypes, Gone
<1>5. Flags'
  BY <1>1 DEF IInv, TypeOK, Flags, clientVars, loopVars, network
<1>6. Ordered' /\ Sender' /\ Fresh' /\ Watch'
  BY <1>1 DEF IInv, Ordered, InOrder, Sender, Fresh, Watch, clientVars, loopVars, network
<1>7. Exchange'
  <2> SUFFICES ASSUME Answering' PROVE (sendAge # Gone /\ PongSince /\ TimerSince /\ OnItsWay)'
    BY DEF Exchange
  <2>1. Answering
    BY <1>1 DEF Answering, clientVars, network
  <2>2. ~Expired
    BY <1>2, <2>1, Young, Periods DEF Expired, Answering
  <2> QED  BY <1>1, <2>1, <2>2 DEF IInv, Exchange, PongSince, TimerSince, OnItsWay, clientVars, network
<1> QED  BY <1>3, <1>4, <1>5, <1>6, <1>7 DEF IInv, TypeOK

-----------------------------------------------------------------------------
\* Faults cut the exchange off, and nothing else.
LEMMA FaultKeeps == IInv /\ (Break \/ StreamEnds) => IInv'
<1> SUFFICES ASSUME IInv, Break \/ StreamEnds PROVE IInv'
  OBVIOUS
<1>1. /\ faults' = faults + 1 /\ faults < MaxFaults /\ up' = <<>> /\ down' = <<>>
      /\ link' = "closing" \/ (link' = link /\ broken' = TRUE)
      /\ broken' = TRUE \/ broken' = broken
      /\ UNCHANGED <<dialing, sx, redial, received, pingTimers, loopVars, serverVars>>
  BY DEF Break, StreamEnds, clientVars
<1>2. ClientTypes' /\ LoopTypes' /\ ServerTypes'
  BY <1>1 DEF IInv, TypeOK, ClientTypes, LoopTypes, ServerTypes, loopVars, serverVars
<1>3. NetworkTypes'
  <2>1. up' \in Seq(Messages) /\ down' \in Seq(Messages)
    BY <1>1
  <2> QED  BY <1>1, <2>1, Periods DEF IInv, TypeOK, NetworkTypes
<1>4. Flags'
  BY <1>1 DEF IInv, TypeOK, Flags, loopVars, serverVars
<1>5. Ordered' /\ Sender' /\ Fresh' /\ Watch' /\ Exchange'
  BY <1>1 DEF IInv, Ordered, InOrder, Sender, Fresh, Watch, Exchange, Answering, loopVars, serverVars
<1> QED  BY <1>2, <1>3, <1>4, <1>5 DEF IInv, TypeOK

\* Time: whatever is on its way grows older with the last send.
LEMMA TickKeeps == IInv /\ Tick => IInv'
<1> SUFFICES ASSUME IInv, Tick PROVE IInv'
  OBVIOUS
<1>1. /\ dialing' = IF link = "dialing" THEN dialing + 1 ELSE dialing
      /\ received' = Older(received, MaxAge) /\ sendAge' = Older(sendAge, clientTimeout + 1)
      /\ wakeIn' = wakeIn - 1 /\ checkIn' = checkIn - 1
      /\ pingTimers' = {[in |-> t.in - 1, own |-> t.own] : t \in pingTimers}
      /\ up' = Later(up) /\ down' = Later(down)
      /\ UNCHANGED <<clientTimeout, link, sx, redial, period, broken, named, faults, settled>>
  BY DEF Tick
<1>2. /\ wakeIn # 0 /\ checkIn # 0 /\ \A t \in pingTimers : t.in # 0
      /\ up # <<>> => Head(up).age # Delay
      /\ down # <<>> => Head(down).age # Delay
      /\ link = "dialing" => dialing # ConnectTimeout
  BY DEF Tick, Due
<1>3. /\ up \in Seq(Messages) /\ InOrder(up) /\ down \in Seq(Messages) /\ InOrder(down)
      /\ received \in -1..MaxAge /\ clientTimeout \in Nat
      /\ sendAge \in -1..(clientTimeout + 1)
  BY Periods DEF IInv, TypeOK, ClientTypes, NetworkTypes, ServerTypes, Ordered
<1>4. /\ up' \in Seq(Messages) /\ InOrder(up') /\ Len(up') = Len(up)
      /\ \A i \in 1..Len(up) : up'[i].age = up[i].age + 1
  BY <1>1, <1>2, <1>3, Aged
<1>5. /\ down' \in Seq(Messages) /\ InOrder(down') /\ Len(down') = Len(down)
      /\ \A i \in 1..Len(down) : /\ down'[i].what = down[i].what
                                 /\ down'[i].age = down[i].age + 1
  BY <1>1, <1>2, <1>3, Aged
<1>6. \A t \in pingTimers : [in |-> t.in - 1, own |-> t.own] \in Timers /\ t.in \in Int
  BY <1>2, Periods DEF IInv, TypeOK, ClientTypes, Timers
<1>7. /\ received' \in -1..MaxAge /\ received' <= received + 1
      /\ received # Never => received' # Never
  BY <1>1, <1>3, Periods DEF Older, Never
<1>8. /\ sendAge' \in -1..(clientTimeout + 1)
      /\ IF sendAge = Gone THEN sendAge' = Gone
         ELSE sendAge' # Gone /\ sendAge' <= sendAge + 1
  BY <1>1, <1>3 DEF Older, Gone
<1>9. ClientTypes'
  <2>1. pingTimers' \subseteq Timers
    BY <1>1, <1>6
  <2>2. dialing' \in 0..ConnectTimeout
    BY <1>1, <1>2, Periods DEF IInv, TypeOK, ClientTypes
  <2> QED  BY <1>1, <1>7, <2>1, <2>2 DEF IInv, TypeOK, ClientTypes
<1>10. LoopTypes'
  BY <1>1, <1>2, Periods DEF IInv, TypeOK, LoopTypes
<1>11. NetworkTypes'
  BY <1>1, <1>4, <1>5 DEF IInv, TypeOK, NetworkTypes
<1>12. ServerTypes'
  BY <1>1, <1>2, <1>8, Periods DEF IInv, TypeOK, ServerTypes
<1>13. Flags'
  BY <1>1 DEF IInv, TypeOK, Flags
<1>14. Ordered' /\ Sender'
  BY <1>1, <1>4, <1>5 DEF IInv, Ordered, Sender, InOrder
<1>15. Fresh'
  <2> SUFFICES ASSUME link' = "open", ~named'
               PROVE  sendAge' = Gone /\ down' = <<>> /\ \A t \in pingTimers' : ~t.own
    BY DEF Fresh
  <2>1. sendAge = Gone /\ down = <<>> /\ \A t \in pingTimers : ~t.own
    BY <1>1 DEF IInv, Fresh
  <2>2. down' = <<>>
    BY <1>5, <2>1
  <2>3. \A t \in pingTimers' : ~t.own
    BY <1>1, <2>1
  <2> QED  BY <1>8, <2>1, <2>2, <2>3
<1>16. Watch'
  <2>1. received \in Int /\ received' \in Int /\ wakeIn \in Int /\ Retry \in Int
    BY <1>3, <1>7, Periods DEF IInv, TypeOK, LoopTypes
  <2>2. received + wakeIn <= 5 * Retry => received' + wakeIn' <= 5 * Retry
    BY <1>1, <1>7, <2>1
  <2> QED  BY <1>1, <1>7, <2>2 DEF IInv, Watch
<1>17. Exchange'
  <2> SUFFICES ASSUME Answering' PROVE (sendAge # Gone /\ PongSince /\ TimerSince /\ OnItsWay)'
    BY DEF Exchange
  <2>1. /\ sendAge # Gone /\ PongSince /\ TimerSince /\ OnItsWay
        /\ sendAge' # Gone /\ sendAge' <= sendAge + 1 /\ sendAge \in Int /\ sendAge' \in Int
    BY <1>1, <1>3, <1>8 DEF IInv, Exchange, Answering
  <2>2. \A i \in 1..Len(down) : down[i].age \in Int
    <3>1. \A i \in 1..Len(down) : down[i] \in Messages
      BY <1>3
    <3> QED  BY <3>1, Periods DEF Messages
  <2>3. \A i \in 1..Len(up) : up[i].age \in Int
    <3>1. \A i \in 1..Len(up) : up[i] \in Messages
      BY <1>3
    <3> QED  BY <3>1, Periods DEF Messages
  <2>4. PongSince'
    BY <1>5, <2>1, <2>2 DEF PongSince
  <2>5. TimerSince'
    <3> SUFFICES ASSUME NEW r \in pingTimers', r.own
                 PROVE  sendAge' <= Delay + Retry - r.in
      BY DEF TimerSince
    <3>1. PICK t \in pingTimers : r = [in |-> t.in - 1, own |-> t.own]
      BY <1>1
    <3>2. r.in = t.in - 1 /\ t.own /\ t.in \in Int
      BY <1>6, <3>1
    <3>3. sendAge <= Delay + Retry - t.in
      BY <2>1, <3>2 DEF TimerSince
    <3> QED  BY <2>1, <3>2, <3>3, Periods
  <2>6. OnItsWay'
    <3>1. CASE \E i \in 1..Len(down) : down[i].what = "pong"
      BY <1>5, <3>1 DEF OnItsWay
    <3>2. CASE \E t \in pingTimers : t.own
      <4>1. PICK t \in pingTimers : t.own
        BY <3>2
      <4>2. [in |-> t.in - 1, own |-> t.own] \in pingTimers'
        BY <1>1
      <4>3. [in |-> t.in - 1, own |-> t.own].own
        BY <4>1
      <4> QED  BY <4>2, <4>3 DEF OnItsWay
    <3>3. CASE \E i \in 1..Len(up) : sendAge <= Delay + Retry + up[i].age
      <4>1. PICK i \in 1..Len(up) : sendAge <= Delay + Retry + up[i].age
        BY <3>3
      <4>2. up'[i].age = up[i].age + 1 /\ up[i].age \in Int /\ i \in 1..Len(up')
        BY <1>4, <2>3
      <4>3. sendAge' <= Delay + Retry + up'[i].age
        BY <2>1, <4>1, <4>2, Periods
      <4> QED  BY <4>2, <4>3 DEF OnItsWay
    <3> QED  BY <2>1, <3>1, <3>2, <3>3 DEF OnItsWay
  <2> QED  BY <2>1, <2>4, <2>5, <2>6
<1> QED  BY <1>9, <1>10, <1>11, <1>12, <1>13, <1>14, <1>15, <1>16, <1>17 DEF IInv, TypeOK

-----------------------------------------------------------------------------
LEMMA StepKeeps == IInv /\ [Next]_vars => IInv'
<1> SUFFICES ASSUME IInv, [Next]_vars PROVE IInv'
  OBVIOUS
<1>1. CASE Client
  BY <1>1, RedialKeeps, DialSucceedsKeeps, DialFailsKeeps, ClosedKeeps, HearingKeeps, TimerKeeps
     DEF Client
<1>2. CASE Loop
  BY <1>2, AliveKeeps, LoopPingsKeeps, DeadKeeps DEF Loop
<1>3. CASE Server
  BY <1>3, ServerHearsKeeps, ServerSendsKeeps, CheckKeeps DEF Server
<1>4. CASE Break \/ StreamEnds
  BY <1>4, FaultKeeps
<1>5. CASE Tick
  BY <1>5, TickKeeps
<1>6. CASE UNCHANGED vars
  <2> USE <1>6 DEF vars, clientVars, loopVars, network, serverVars
  <2>1. ClientTypes' /\ LoopTypes' /\ NetworkTypes' /\ ServerTypes' /\ Flags'
    BY DEF IInv, TypeOK, ClientTypes, LoopTypes, NetworkTypes, ServerTypes, Flags
  <2>2. Ordered' /\ Sender' /\ Fresh' /\ Watch' /\ Exchange'
    BY DEF IInv, Ordered, InOrder, Sender, Fresh, Watch, Exchange, Answering, PongSince,
           TimerSince, OnItsWay
  <2> QED  BY <2>1, <2>2 DEF IInv, TypeOK
<1> QED  BY <1>1, <1>2, <1>3, <1>4, <1>5, <1>6 DEF Next

LEMMA Inductive == Spec => []IInv
  BY Initially, StepKeeps, PTL DEF Spec

\* Types, for all periods and delays: no timer is missed and no message is late.
THEOREM TypeCorrect == Spec => []TypeOK
<1>1. IInv => TypeOK
  BY DEF IInv
<1> QED  BY <1>1, Inductive, PTL

\* A client that answers pongs is never dropped for silence, for every period,
\* check interval, timeout and delay with Retry + 2 * Delay <= clientTimeout
\* (client_sender.rs:271-286).
THEOREM ClientStays == Spec => []PingingClientStays
<1>1. IInv => PingingClientStays
  BY DEF IInv, Exchange, Answering, PingingClientStays
<1> QED  BY <1>1, Inductive, PTL

\* The ping loop gives a silent connection up within five periods of its last
\* message, for every period (internal_client.rs:517-563).
THEOREM GivesUpInTime == Spec => []SilenceIsNoticed
<1>1. IInv => SilenceIsNoticed
  <2> SUFFICES ASSUME IInv, link = "open", settled PROVE received <= 5 * Retry
    BY DEF SilenceIsNoticed
  <2>1. received + wakeIn <= 5 * Retry /\ received \in Int /\ wakeIn \in Nat
    BY Periods DEF IInv, Watch, TypeOK, ClientTypes, LoopTypes
  <2> QED  BY <2>1, Periods
<1> QED  BY <1>1, Inductive, PTL
=============================================================================
