----------------------- MODULE ClientConnectionProofs -----------------------
(***************************************************************************)
(* Proofs about ClientConnection for any connections, senders and options: *)
(* type correctness, the single-flight flag, and that no connection is     *)
(* left open without a sender or a disconnect on its way.                  *)
(***************************************************************************)
EXTENDS ClientConnection, TLAPS, SequenceTheorems

USE OptionsAssumption, NamesAssumption

\* remove_ip does nothing when server_ip is empty: a sender that stood without
\* an address could never be closed by it.
SenderHasIp == sx # NoConn => serverIp

IInv == TypeOK /\ SingleFlight /\ SenderHasIp /\ NoOrphan

LEMMA TypeInit == Init => TypeOK
PROOF
  <1> SUFFICES ASSUME Init PROVE TypeOK
    OBVIOUS
  <1>1. isTryConnect \in BOOLEAN /\ serverIp \in BOOLEAN
    BY Zenon DEF Init
  <1>2. storedIp \in BOOLEAN /\ cancelled \in BOOLEAN /\ lossAnnounced \in BOOLEAN
    BY Zenon DEF Init
  <1>3. spawned \in 0..MaxSpawned /\ build \in {"bebop", "raw"}
    BY DEF Init
  <1>4. /\ channel \in [Conns -> Seq({"message", "disconnect"})]
        /\ \A c \in Conns : Len(channel[c]) <= BufSize
    BY DEF Init
  <1> QED
    BY <1>1, <1>2, <1>3, <1>4 DEF Init, TypeOK

\* A queue that has room keeps its type and everything in it.
LEMMA QueueEffect ==
  ASSUME TypeOK, NEW c \in Conns, NEW m \in {"message", "disconnect"}, Queue(c, m)
  PROVE  /\ channel' \in [Conns -> Seq({"message", "disconnect"})]
         /\ Room(c) => \A d \in Conns : Len(channel'[d]) <= BufSize
         /\ \A d \in Conns : Queued(d) => Queued(d)'
         /\ m = "disconnect" => Queued(c)'
PROOF
  <1>1. channel \in [Conns -> Seq({"message", "disconnect"})]
    BY DEF TypeOK
  <1>2. /\ channel' = [channel EXCEPT ![c] = Append(channel[c], m)]
        /\ channel'[c] = Append(channel[c], m)
        /\ \A d \in Conns : d # c => channel'[d] = channel[d]
    BY <1>1 DEF Queue
  <1>3. /\ Append(channel[c], m) \in Seq({"message", "disconnect"})
        /\ Len(Append(channel[c], m)) = Len(channel[c]) + 1
        /\ \A i \in 1..Len(channel[c]) : Append(channel[c], m)[i] = channel[c][i]
        /\ Append(channel[c], m)[Len(channel[c]) + 1] = m
        /\ Len(channel[c]) \in Nat
    BY <1>1
  <1>4. Room(c) => \A d \in Conns : Len(channel'[d]) <= BufSize
    BY <1>2, <1>3 DEF Room, TypeOK
  <1>5. ASSUME NEW d \in Conns, Queued(d) PROVE Queued(d)'
    BY <1>2, <1>3, <1>5 DEF Queued
  <1>6. ASSUME m = "disconnect" PROVE Queued(c)'
    BY <1>2, <1>3, <1>6 DEF Queued
  <1> QED
    BY <1>1, <1>2, <1>3, <1>4, <1>5, <1>6

\* Only the first message leaves it.
LEMMA WriterSendsEffect ==
  ASSUME TypeOK, NEW c \in Conns, WriterSends(c)
  PROVE  /\ channel' \in [Conns -> Seq({"message", "disconnect"})]
         /\ \A d \in Conns : Len(channel'[d]) <= BufSize
         /\ goodbye' \in [Conns -> {"none", "waiting", "sent"}]
         /\ \E step \in {"up", "flushing"} : task' = [task EXCEPT ![c] = step]
         /\ \A d \in Conns : task'[d] # "flushing" /\ Told(d) => Told(d)'
PROOF
  <1>1. /\ channel \in [Conns -> Seq({"message", "disconnect"})]
        /\ task \in [Conns -> {"idle", "dialing", "forgetting", "clearing", "resetting",
                               "storing", "greeting", "pinging", "up", "flushing"}]
        /\ goodbye \in [Conns -> {"none", "waiting", "sent"}] /\ build \in {"bebop", "raw"}
    BY DEF TypeOK
  <1>2. /\ channel' = [channel EXCEPT ![c] = Tail(channel[c])]
        /\ channel'[c] = Tail(channel[c]) /\ channel[c] # <<>>
        /\ \A d \in Conns : d # c => channel'[d] = channel[d]
    BY <1>1 DEF WriterSends
  <1>3. /\ Tail(channel[c]) \in Seq({"message", "disconnect"})
        /\ Len(Tail(channel[c])) = Len(channel[c]) - 1
        /\ \A i \in 1..Len(Tail(channel[c])) : Tail(channel[c])[i] = channel[c][i + 1]
        /\ Len(channel[c]) \in Nat /\ Head(channel[c]) = channel[c][1]
    BY <1>1, <1>2
  <1>4. /\ channel' \in [Conns -> Seq({"message", "disconnect"})]
        /\ \A d \in Conns : Len(channel'[d]) <= BufSize
    BY <1>1, <1>2, <1>3 DEF TypeOK
  <1>5. CASE Head(channel[c]) = "disconnect" /\ build = "bebop"
    <2>1. goodbye' = goodbye /\ task' = [task EXCEPT ![c] = "flushing"]
      BY <1>5 DEF WriterSends, TaskTo
    <2>2. task'[c] = "flushing"
      BY <1>1, <2>1
    <2>3. \A d \in Conns : d # c /\ Told(d) => Told(d)'
      BY <1>2, <2>1 DEF Told, Queued
    <2> QED
      BY <1>1, <1>4, <2>1, <2>2, <2>3
  <1>6. CASE Head(channel[c]) = "disconnect" /\ build = "raw"
    <2>1. goodbye' = [goodbye EXCEPT ![c] = "sent"] /\ task' = [task EXCEPT ![c] = "up"]
      BY <1>6 DEF WriterSends, TaskTo
    <2>2. Told(c)' /\ \A d \in Conns : d # c /\ Told(d) => Told(d)'
      BY <1>1, <1>2, <2>1 DEF Told, Queued
    <2> QED
      BY <1>1, <1>4, <2>1, <2>2
  <1>7. CASE Head(channel[c]) # "disconnect"
    <2>1. goodbye' = goodbye /\ task' = [task EXCEPT ![c] = "up"]
      BY <1>7 DEF WriterSends, TaskTo
    <2>2. ASSUME Queued(c) PROVE Queued(c)'
      <3>1. PICK i \in 1..Len(channel[c]) : channel[c][i] = "disconnect"
        BY <2>2 DEF Queued
      <3>2. i # 1 /\ i - 1 \in 1..Len(Tail(channel[c]))
        BY <1>3, <1>7, <3>1
      <3>3. Tail(channel[c])[i - 1] = "disconnect"
        BY <1>3, <3>1, <3>2
      <3> QED
        BY <1>2, <3>2, <3>3 DEF Queued
    <2>3. \A d \in Conns : Told(d) => Told(d)'
      BY <1>2, <2>1, <2>2 DEF Told, Queued
    <2> QED
      BY <1>1, <1>4, <2>1, <2>3
  <1> QED
    BY <1>1, <1>5, <1>6, <1>7

LEMMA SxDropEffect ==
  ASSUME TypeOK, SxDrop
  PROVE  /\ goodbye' \in [Conns -> {"none", "waiting", "sent"}]
         /\ \A c \in Conns : goodbye[c] # "none" => goodbye'[c] # "none"
         /\ sx \in Claimed => goodbye'[sx] # "none"
PROOF
  <1>1. \A c \in Conns : goodbye'[c] = IF c = sx /\ c \in Claimed THEN "waiting" ELSE goodbye[c]
    BY DEF SxDrop
  <1>2. goodbye' \in [Conns -> {"none", "waiting", "sent"}]
    BY DEF SxDrop, TypeOK
  <1> QED
    BY <1>1, <1>2 DEF Claimed

\* What remove_ip leaves behind.
LEMMA RemoveIpEffect ==
  ASSUME TypeOK, SenderHasIp, RemoveIp
  PROVE  /\ goodbye' \in [Conns -> {"none", "waiting", "sent"}]
         /\ sx' = NoConn /\ serverIp' = FALSE
         /\ \A c \in Conns : goodbye[c] # "none" => goodbye'[c] # "none"
         /\ sx \in Claimed => goodbye'[sx] # "none"
PROOF
  <1>1. sx \in Conns \cup {NoConn} /\ NoConn \notin Claimed /\ serverIp \in BOOLEAN
    BY DEF TypeOK, Claimed
  <1>2. CASE serverIp
    BY <1>2, SxDropEffect DEF RemoveIp
  <1>3. CASE ~serverIp
    <2>1. sx = NoConn /\ goodbye' = goodbye /\ sx' = sx /\ serverIp' = serverIp
      BY <1>3 DEF RemoveIp, SenderHasIp
    <2> QED
      BY <1>1, <1>3, <2>1 DEF TypeOK
  <1> QED
    BY <1>2, <1>3

LEMMA TypeStep ==
  ASSUME IInv, [Next]_vars
  PROVE  TypeOK'
PROOF
  <1> USE DEF TypeOK, shared, conns, others, TaskTo, CallerTo, Announce, Quiet
  <1> TypeOK /\ SenderHasIp
    BY DEF IInv
  <1>1. CASE TurnedAway
    <2>1. spawned' \in 0..MaxSpawned
      BY <1>1 DEF TurnedAway
    <2> QED
      BY <1>1, <2>1 DEF TurnedAway
  <1>2. ASSUME NEW c \in Conns, Claim(c) PROVE TypeOK'
    <2>1. spawned' \in 0..MaxSpawned
      BY <1>2 DEF Claim
    <2> QED
      BY <1>2, <2>1 DEF Claim, TryAcquire
  <1>3. ASSUME NEW c \in Conns, TaskStep(c) PROVE TypeOK'
    <2>1. CASE OuterDialFails(c)
      BY <2>1 DEF OuterDialFails
    <2>2. CASE DialFails(c)
      BY <2>2 DEF DialFails
    <2>3. CASE Forget(c)
      <3>1. /\ goodbye' \in [Conns -> {"none", "waiting", "sent"}]
            /\ sx' = NoConn /\ serverIp' = FALSE
        BY <2>3, RemoveIpEffect DEF Forget
      <3> QED
        BY <2>3, <3>1 DEF Forget
    <2>4. CASE ClearStored(c)
      BY <2>4 DEF ClearStored
    <2>5. CASE Reset(c)
      BY <2>5 DEF Reset
    <2>6. CASE Add(c)
      <3>1. goodbye' \in [Conns -> {"none", "waiting", "sent"}]
        BY <2>6, SxDropEffect DEF Add
      <3> QED
        BY <2>6, <3>1 DEF Add
    <2>7. CASE StoreAddress(c)
      BY <2>7 DEF StoreAddress
    <2>8. CASE Establish(c)
      BY <2>8 DEF Establish, Starts, Greets
    <2>9. CASE Greet(c)
      BY <2>9 DEF Greet, Starts, Greets
    <2>10. CASE FirstPing(c)
      <3>1. /\ channel' \in [Conns -> Seq({"message", "disconnect"})]
            /\ \A d \in Conns : Len(channel'[d]) <= BufSize
        BY <2>10, QueueEffect DEF FirstPing
      <3> QED
        BY <2>10, <3>1 DEF FirstPing, Starts, Greets
    <2>11. CASE WriterSends(c)
      <3>1. /\ channel' \in [Conns -> Seq({"message", "disconnect"})]
            /\ \A d \in Conns : Len(channel'[d]) <= BufSize
            /\ goodbye' \in [Conns -> {"none", "waiting", "sent"}]
            /\ \E step \in {"up", "flushing"} : task' = [task EXCEPT ![c] = step]
        BY <2>11, WriterSendsEffect
      <3> QED
        BY <2>11, <3>1 DEF WriterSends
    <2>12. CASE WriterStops(c)
      BY <2>12 DEF WriterStops
    <2>13. CASE Flushed(c)
      <3>1. /\ channel' \in [Conns -> Seq({"message", "disconnect"})]
            /\ \A d \in Conns : Len(channel'[d]) <= BufSize
        BY <2>13, EmptySeq DEF Flushed
      <3>2. /\ sending' \in [Pushers -> Conns \cup {NoConn, Closed}]
            /\ reader' \in [Conns -> {"first", "reading", "telling", "gone"}]
            /\ goodbye' \in [Conns -> {"none", "waiting", "sent"}]
        BY <2>13 DEF Flushed
      <3> QED
        BY <2>13, <3>1, <3>2 DEF Flushed
    <2> QED
      BY <1>3, <2>1, <2>2, <2>3, <2>4, <2>5, <2>6, <2>7, <2>8, <2>9, <2>10, <2>11, <2>12,
         <2>13 DEF TaskStep
  <1>4. ASSUME NEW c \in Conns, WriteFails(c) PROVE TypeOK'
    BY <1>4 DEF WriteFails
  <1>5. ASSUME NEW c \in Conns, Hears(c) PROVE TypeOK'
    <2>1. lossAnnounced' \in BOOLEAN /\ received' = "fresh"
      BY <1>5 DEF Hears, Hear
    <2> QED
      BY <1>5, <2>1 DEF Hears
  <1>6. ASSUME NEW c \in Conns, HearsDisconnect(c) PROVE TypeOK'
    <2>1. lossAnnounced' \in BOOLEAN /\ received' = "fresh"
      BY <1>6 DEF HearsDisconnect, Hear
    <2>2. /\ channel' \in [Conns -> Seq({"message", "disconnect"})]
          /\ \A d \in Conns : Len(channel'[d]) <= BufSize
      BY <1>6, QueueEffect DEF HearsDisconnect
    <2>3. reader' \in [Conns -> {"first", "reading", "telling", "gone"}]
      BY <1>6 DEF HearsDisconnect
    <2> QED
      BY <1>6, <2>1, <2>2, <2>3 DEF HearsDisconnect
  <1>7. ASSUME NEW c \in Conns, StreamEnds(c) PROVE TypeOK'
    BY <1>7 DEF StreamEnds
  <1>18. ASSUME NEW c \in Conns, DisconnectStep(c) PROVE TypeOK'
    <2>1. /\ channel' \in [Conns -> Seq({"message", "disconnect"})]
          /\ \A d \in Conns : Len(channel'[d]) <= BufSize
      BY <1>18, QueueEffect DEF DisconnectStep, ReaderTells, GoodbyeQueued
    <2>2. CASE ReaderTells(c)
      BY <2>1, <2>2 DEF ReaderTells
    <2>3. CASE GoodbyeQueued(c)
      BY <2>1, <2>3 DEF GoodbyeQueued
    <2> QED
      BY <1>18, <2>2, <2>3 DEF DisconnectStep
  <1>8. ASSUME NEW p \in Pushers, Clone(p) PROVE TypeOK'
    <2>1. sending' \in [Pushers -> Conns \cup {NoConn, Closed}]
      BY <1>8 DEF Clone
    <2> QED
      BY <1>8, <2>1 DEF Clone
  <1>9. ASSUME NEW p \in Pushers, SendAccepted(p) PROVE TypeOK'
    <2>1. sending[p] \in Conns
      BY <1>9 DEF SendAccepted
    <2>2. /\ channel' \in [Conns -> Seq({"message", "disconnect"})]
          /\ \A d \in Conns : Len(channel'[d]) <= BufSize
      BY <1>9, <2>1, QueueEffect DEF SendAccepted
    <2> QED
      BY <1>9, <2>2 DEF SendAccepted
  <1>10. ASSUME NEW p \in Pushers, SendExhausted(p) PROVE TypeOK'
    BY <1>10 DEF SendExhausted, Spawn
  <1>11. ASSUME NEW k \in Callers, CallerStep(k) PROVE TypeOK'
    <2>1. CASE Check(k)
      BY <2>1 DEF Check
    <2>2. CASE Validate(k)
      BY <2>2 DEF Validate
    <2>6. CASE Look(k)
      BY <2>6 DEF Look
    <2>3. CASE NoAddress(k)
      BY <2>3 DEF NoAddress
    <2>4. CASE Dial(k)
      BY <2>4 DEF Dial, Spawn
    <2>5. CASE DialUrl(k)
      BY <2>5 DEF DialUrl, Spawn
    <2> QED
      BY <1>11, <2>1, <2>2, <2>3, <2>4, <2>5, <2>6 DEF CallerStep
  <1>12. CASE LoopStep
    <2>0. CASE LoopPings
      BY <2>0, <1>8 DEF LoopPings, Pushers
    <2>1. CASE LoopFindsDead
      BY <2>1 DEF LoopFindsDead
    <2>2. CASE LoopForgets
      <3>1. /\ goodbye' \in [Conns -> {"none", "waiting", "sent"}]
            /\ sx' = NoConn /\ serverIp' = FALSE
        BY <2>2, RemoveIpEffect DEF LoopForgets
      <3> QED
        BY <2>2, <3>1 DEF LoopForgets
    <2>3. CASE LoopClears
      BY <2>3 DEF LoopClears, Reconnects, Callers
    <2>4. CASE LoopReconnects
      <3>1. /\ goodbye' \in [Conns -> {"none", "waiting", "sent"}]
            /\ sx' \in {sx, NoConn} /\ serverIp' \in {serverIp, FALSE}
        BY <2>4, RemoveIpEffect DEF LoopReconnects
      <3> QED
        BY <2>4, <3>1 DEF LoopReconnects, Reconnects, Callers
    <2> QED
      BY <1>12, <2>0, <2>1, <2>2, <2>3, <2>4 DEF LoopStep
  <1>13. CASE Age
    BY <1>13 DEF Age
  <1>14. CASE AppConnects
    BY <1>14 DEF AppConnects, Callers
  <1>15. CASE AppStores
    BY <1>15 DEF AppStores
  <1>16. CASE Disconnect
    <2>1. /\ goodbye' \in [Conns -> {"none", "waiting", "sent"}]
          /\ sx' = NoConn /\ serverIp' = FALSE
      BY <1>16, RemoveIpEffect DEF Disconnect
    <2> QED
      BY <1>16, <2>1 DEF Disconnect
  <1>17. CASE UNCHANGED vars
    BY <1>17 DEF vars
  <1> HIDE DEF TypeOK, shared, conns, others, TaskTo, CallerTo, Announce, Quiet
  <1> QED
    BY <1>1, <1>2, <1>3, <1>4, <1>5, <1>6, <1>7, <1>8, <1>9, <1>10, <1>11, <1>12, <1>13,
       <1>14, <1>15, <1>16, <1>17, <1>18 DEF Next, SendStep, SendBegins, Pushers

-----------------------------------------------------------------------------
(* The flag.  It is only touched where Claimed is.                         *)

LEMMA FlagInit == Init => SingleFlight
PROOF
  <1> SUFFICES ASSUME Init PROVE SingleFlight
    OBVIOUS
  <1>1. Claimed = {} /\ isTryConnect = FALSE
    BY DEF Init, Claimed
  <1> QED
    BY <1>1 DEF SingleFlight

\* Every step is a step of FlagGuard: an attempt that finds nobody takes the flag,
\* one that ends gives it back, and all others leave both alone.
LEMMA GuardStep ==
  ASSUME IInv, [Next]_vars
  PROVE  [Guard!Next]_Guard!vars
PROOF
  <1> TypeOK /\ SingleFlight
    BY DEF IInv
  <1> USE DEF shared, conns, others, TaskTo
  <1>1. CASE task' = task /\ isTryConnect' = isTryConnect
    BY <1>1 DEF Claimed, Guard!vars
  <1>2. ASSUME NEW c \in Conns, Claim(c) PROVE [Guard!Next]_Guard!vars
    <2>1. Claimed = {} /\ isTryConnect' = TRUE
      BY <1>2 DEF Claim, TryAcquire, SingleFlight
    <2>2. task' = [task EXCEPT ![c] = "dialing"]
      BY <1>2 DEF Claim, TryAcquire
    <2>3. Claimed' = {c}
      BY <2>1, <2>2 DEF TypeOK, Claimed
    <2> QED
      BY <2>1, <2>3 DEF Guard!Next, Guard!Acquire
  \* A step of the attempt that has the flag, which it keeps.
  <1>3. ASSUME NEW c \in Conns, task[c] # "idle", isTryConnect' = isTryConnect,
               NEW step, step # "idle", task' = [task EXCEPT ![c] = step]
        PROVE  [Guard!Next]_Guard!vars
    <2>1. Claimed' = Claimed
      BY <1>3 DEF TypeOK, Claimed
    <2> QED
      BY <1>3, <2>1 DEF Guard!vars
  \* Its last one.
  <1>4. ASSUME NEW c \in Conns, task[c] # "idle", isTryConnect' = FALSE,
               task' = [task EXCEPT ![c] = "idle"]
        PROVE  [Guard!Next]_Guard!vars
    <2>1. Claimed = {c}
      BY <1>4 DEF SingleFlight, Claimed
    <2>2. Claimed' = {}
      BY <1>4, <2>1 DEF TypeOK, Claimed
    <2> QED
      BY <1>4, <2>1, <2>2 DEF Guard!Next, Guard!Release
  <1>5. ASSUME NEW c \in Conns, TaskStep(c) PROVE [Guard!Next]_Guard!vars
    <2>1. CASE OuterDialFails(c)
      BY <2>1, <1>3 DEF OuterDialFails
    <2>2. CASE DialFails(c)
      BY <2>2, <1>3 DEF DialFails
    <2>3. CASE Forget(c)
      BY <2>3, <1>3 DEF Forget
    <2>4. CASE ClearStored(c)
      BY <2>4, <1>3 DEF ClearStored
    <2>5. CASE Reset(c)
      BY <2>5, <1>4 DEF Reset
    <2>6. CASE Add(c)
      BY <2>6, <1>3 DEF Add
    <2>7. CASE StoreAddress(c)
      BY <2>7, <1>3 DEF StoreAddress
    <2>8. CASE Establish(c)
      BY <2>8, <1>3 DEF Establish, Starts
    <2>9. CASE Greet(c)
      <3>1. /\ task[c] = "greeting" /\ isTryConnect' = isTryConnect
            /\ \/ task' = [task EXCEPT ![c] = "pinging"]
               \/ task' = [task EXCEPT ![c] = "up"]
        BY <2>9 DEF Greet, Starts
      <3> QED
        BY <3>1, <1>3
    <2>10. CASE FirstPing(c)
      BY <2>10, <1>3 DEF FirstPing, Starts
    <2>11. CASE WriterSends(c)
      <3>1. PICK step \in {"up", "flushing"} : task' = [task EXCEPT ![c] = step]
        BY <2>11, WriterSendsEffect
      <3> QED
        BY <2>11, <3>1, <1>3 DEF WriterSends
    <2>12. CASE WriterStops(c)
      BY <2>12, <1>3 DEF WriterStops
    <2>13. CASE Flushed(c)
      BY <2>13, <1>4 DEF Flushed
    <2> QED
      BY <1>5, <2>1, <2>2, <2>3, <2>4, <2>5, <2>6, <2>7, <2>8, <2>9, <2>10, <2>11, <2>12,
         <2>13 DEF TaskStep
  <1>6. ASSUME NEW c \in Conns, WriteFails(c) PROVE [Guard!Next]_Guard!vars
    BY <1>6, <1>3 DEF WriteFails
  \* Everyone else.
  <1>7. CASE TurnedAway
    BY <1>7, <1>1 DEF TurnedAway
  <1>8. ASSUME NEW c \in Conns,
               Hears(c) \/ HearsDisconnect(c) \/ StreamEnds(c) \/ DisconnectStep(c)
        PROVE  [Guard!Next]_Guard!vars
    BY <1>8, <1>1 DEF Hears, HearsDisconnect, StreamEnds, DisconnectStep, ReaderTells,
                      GoodbyeQueued
  <1>9. ASSUME NEW p \in Pushers, Clone(p) \/ SendStep(p) PROVE [Guard!Next]_Guard!vars
    BY <1>9, <1>1 DEF Clone, SendStep, SendAccepted, SendExhausted
  <1>10. ASSUME NEW k \in Callers, CallerStep(k) PROVE [Guard!Next]_Guard!vars
    BY <1>10, <1>1 DEF CallerStep, Check, Validate, Look, NoAddress, Dial, DialUrl
  <1>11. CASE LoopStep
    BY <1>11, <1>1 DEF LoopStep, LoopPings, Clone, LoopFindsDead, LoopForgets, LoopClears,
                       LoopReconnects
  <1>12. CASE Age \/ AppConnects \/ AppStores \/ Disconnect
    BY <1>12, <1>1 DEF Age, AppConnects, AppStores, Disconnect
  <1>13. CASE UNCHANGED vars
    BY <1>13, <1>1 DEF vars
  <1> HIDE DEF shared, conns, others, TaskTo
  <1> QED
    BY <1>2, <1>5, <1>6, <1>7, <1>8, <1>9, <1>10, <1>11, <1>12, <1>13
       DEF Next, SendBegins, Pushers

LEMMA FlagStep ==
  ASSUME IInv, [Next]_vars
  PROVE  SingleFlight'
PROOF
  <1>1. SingleFlight /\ [Guard!Next]_Guard!vars
    BY GuardStep DEF IInv
  <1> QED
    BY <1>1 DEF SingleFlight, Guard!Next, Guard!Acquire, Guard!Release, Guard!vars

-----------------------------------------------------------------------------
(* The sender.                                                             *)

\* A step that changes sx in no way, begins no connection and loses no disconnect.
LEMMA OrphanKept ==
  ASSUME SenderHasIp, NoOrphan, sx' = sx, serverIp' = serverIp, Open' \subseteq Open,
         \A c \in Open' : Told(c) => Told(c)'
  PROVE  SenderHasIp' /\ NoOrphan'
PROOF
  BY DEF SenderHasIp, NoOrphan

\* remove_ip closes what it takes the sender away from.
LEMMA OrphanRemoved ==
  ASSUME TypeOK, SenderHasIp, NoOrphan, RemoveIp, channel' = channel, Open' \subseteq Open
  PROVE  SenderHasIp' /\ NoOrphan'
PROOF
  <1>1. /\ sx' = NoConn
        /\ \A c \in Conns : goodbye[c] # "none" => goodbye'[c] # "none"
        /\ sx \in Claimed => goodbye'[sx] # "none"
    BY RemoveIpEffect
  <1>2. ASSUME NEW c \in Open' PROVE Told(c)'
    <2>1. sx = c \/ Told(c)
      BY <1>2 DEF NoOrphan
    <2>2. c \in Conns /\ c \in Claimed
      BY <1>2 DEF Open, Claimed
    <2> QED
      BY <1>1, <2>1, <2>2 DEF Told, Queued
  <1> QED
    BY <1>1, <1>2 DEF SenderHasIp, NoOrphan

\* A message or a disconnect is queued; the connection may begin to be read.
LEMMA OrphanQueued ==
  ASSUME TypeOK, SenderHasIp, NoOrphan, sx' = sx, serverIp' = serverIp, Open' \subseteq Open,
         NEW c \in Conns, NEW m \in {"message", "disconnect"}, Queue(c, m),
         goodbye' = goodbye
  PROVE  SenderHasIp' /\ NoOrphan'
PROOF
  <1>1. \A d \in Conns : Queued(d) => Queued(d)'
    BY QueueEffect
  <1>2. Open' \subseteq Conns
    BY DEF Open
  <1> QED
    BY <1>1, <1>2, OrphanKept DEF Told

LEMMA OrphanStep ==
  ASSUME IInv, [Next]_vars
  PROVE  SenderHasIp' /\ NoOrphan'
PROOF
  <1> TypeOK /\ SingleFlight /\ SenderHasIp /\ NoOrphan
    BY DEF IInv
  <1> USE DEF shared, conns, others, TaskTo
  <1>1. CASE /\ task' = task /\ sx' = sx /\ serverIp' = serverIp
             /\ goodbye' = goodbye /\ channel' = channel
    BY <1>1, OrphanKept DEF Open, Told, Queued
  <1>2. CASE task' = task /\ channel' = channel /\ RemoveIp
    BY <1>2, OrphanRemoved DEF Open
  \* A step of one attempt that opens nothing.
  <1>3. ASSUME NEW c \in Conns, NEW step, task' = [task EXCEPT ![c] = step],
               c \in Open \/ step \notin {"storing", "greeting", "pinging", "up"},
               sx' = sx, serverIp' = serverIp, goodbye' = goodbye, channel' = channel
        PROVE  SenderHasIp' /\ NoOrphan'
    <2>1. Open' \subseteq Open
      BY <1>3 DEF Open, TypeOK
    <2> QED
      BY <1>3, <2>1, OrphanKept DEF Told, Queued
  <1>4. ASSUME NEW c \in Conns, Claim(c) PROVE SenderHasIp' /\ NoOrphan'
    BY <1>4, <1>3 DEF Claim, TryAcquire
  <1>5. ASSUME NEW c \in Conns, TaskStep(c) PROVE SenderHasIp' /\ NoOrphan'
    <2>1. CASE OuterDialFails(c)
      BY <2>1, <1>3 DEF OuterDialFails
    <2>2. CASE DialFails(c)
      BY <2>2, <1>3 DEF DialFails
    <2>3. CASE Forget(c)
      <3>1. Open' \subseteq Open
        BY <2>3 DEF Forget, TypeOK, Open
      <3> QED
        BY <2>3, <3>1, OrphanRemoved DEF Forget
    <2>4. CASE ClearStored(c)
      BY <2>4, <1>3 DEF ClearStored
    <2>5. CASE Reset(c)
      BY <2>5, <1>3 DEF Reset
    <2>6. CASE Add(c)
      <3>1. \A d \in Conns : d # c => task[d] = "idle" /\ task'[d] = "idle"
        BY <2>6 DEF Add, SingleFlight, Claimed, TypeOK
      <3>2. sx' = c /\ serverIp' = TRUE
        BY <2>6 DEF Add
      <3> QED
        BY <3>1, <3>2 DEF SenderHasIp, NoOrphan, Open
    <2>7. CASE StoreAddress(c)
      BY <2>7, <1>3 DEF StoreAddress, Open
    <2>8. CASE Establish(c)
      BY <2>8, <1>3 DEF Establish, Starts, Open
    <2>9. CASE Greet(c)
      <3>1. /\ c \in Open /\ sx' = sx /\ serverIp' = serverIp /\ goodbye' = goodbye
            /\ channel' = channel
            /\ \/ task' = [task EXCEPT ![c] = "pinging"]
               \/ task' = [task EXCEPT ![c] = "up"]
        BY <2>9 DEF Greet, Starts, Open
      <3> QED
        BY <3>1, <1>3
    <2>10. CASE FirstPing(c)
      <3>1. Open' \subseteq Open
        BY <2>10 DEF FirstPing, Starts, TypeOK, Open
      <3> QED
        BY <2>10, <3>1, OrphanQueued DEF FirstPing
    <2>11. CASE WriterSends(c)
      <3>1. PICK step \in {"up", "flushing"} : task' = [task EXCEPT ![c] = step]
        BY <2>11, WriterSendsEffect
      <3>2. Open' \subseteq Open /\ \A d \in Open' : d \in Conns /\ task'[d] # "flushing"
        BY <2>11, <3>1 DEF WriterSends, TypeOK, Open
      <3>3. \A d \in Open' : Told(d) => Told(d)'
        BY <2>11, <3>2, WriterSendsEffect
      <3>4. sx' = sx /\ serverIp' = serverIp
        BY <2>11 DEF WriterSends
      <3> QED
        BY <3>2, <3>3, <3>4, OrphanKept
    <2>12. CASE WriterStops(c)
      BY <2>12, <1>3 DEF WriterStops
    <2>13. CASE Flushed(c)
      <3>1. \A d \in Conns : task'[d] = "idle"
        BY <2>13 DEF Flushed, SingleFlight, Claimed, TypeOK
      <3>2. sx' = sx /\ serverIp' = serverIp
        BY <2>13 DEF Flushed
      <3> QED
        BY <3>1, <3>2 DEF SenderHasIp, NoOrphan, Open
    <2> QED
      BY <1>5, <2>1, <2>2, <2>3, <2>4, <2>5, <2>6, <2>7, <2>8, <2>9, <2>10, <2>11, <2>12,
         <2>13 DEF TaskStep
  <1>6. ASSUME NEW c \in Conns, WriteFails(c) PROVE SenderHasIp' /\ NoOrphan'
    BY <1>6, <1>3 DEF WriteFails
  <1>7. CASE TurnedAway
    BY <1>7, <1>1 DEF TurnedAway
  <1>8. ASSUME NEW c \in Conns, Hears(c) \/ StreamEnds(c) PROVE SenderHasIp' /\ NoOrphan'
    BY <1>8, <1>1 DEF Hears, StreamEnds
  <1>9. ASSUME NEW c \in Conns, HearsDisconnect(c) \/ ReaderTells(c)
        PROVE  SenderHasIp' /\ NoOrphan'
    <2>1. /\ task' = task /\ sx' = sx /\ serverIp' = serverIp /\ goodbye' = goodbye
          /\ Open' = Open
      BY <1>9 DEF HearsDisconnect, ReaderTells, Open
    <2>2. Queue(c, "disconnect") \/ channel' = channel
      BY <1>9 DEF HearsDisconnect, ReaderTells
    <2> QED
      BY <1>1, <2>1, <2>2, OrphanQueued
  \* What was waiting is queued.
  <1>16. ASSUME NEW c \in Conns, GoodbyeQueued(c) PROVE SenderHasIp' /\ NoOrphan'
    <2>1. /\ \A d \in Conns : Queued(d) => Queued(d)'
          /\ Queued(c)'
      BY <1>16, QueueEffect DEF GoodbyeQueued
    <2>2. /\ sx' = sx /\ serverIp' = serverIp /\ Open' = Open
          /\ \A d \in Conns : d # c => goodbye'[d] = goodbye[d]
      BY <1>16 DEF GoodbyeQueued, TypeOK, Open
    <2>3. \A d \in Conns : Told(d) => Told(d)'
      BY <2>1, <2>2 DEF Told
    <2>4. Open' \subseteq Conns
      BY DEF Open
    <2> QED
      BY <2>2, <2>3, <2>4, OrphanKept
  <1>10. ASSUME NEW p \in Pushers, Clone(p) \/ SendStep(p)
         PROVE  SenderHasIp' /\ NoOrphan'
    <2>1. CASE Clone(p)
      BY <2>1, <1>1 DEF Clone
    <2>2. CASE SendAccepted(p)
      <3>1. /\ sending[p] \in Conns /\ Queue(sending[p], "message") /\ goodbye' = goodbye
            /\ sx' = sx /\ serverIp' = serverIp /\ Open' = Open
        BY <2>2 DEF SendAccepted, TypeOK, Open
      <3> QED
        BY <3>1, OrphanQueued
    <2>3. CASE SendExhausted(p)
      BY <2>3, <1>1 DEF SendExhausted
    <2> QED
      BY <1>10, <2>1, <2>2, <2>3 DEF SendStep
  <1>11. ASSUME NEW k \in Callers, CallerStep(k) PROVE SenderHasIp' /\ NoOrphan'
    BY <1>11, <1>1 DEF CallerStep, Check, Validate, Look, NoAddress, Dial, DialUrl
  <1>12. CASE LoopStep
    <2>1. CASE LoopForgets
      BY <2>1, <1>2 DEF LoopForgets
    <2>2. CASE LoopPings \/ LoopFindsDead \/ LoopClears
      BY <2>2, <1>1 DEF LoopPings, Clone, LoopFindsDead, LoopClears
    <2>3. CASE LoopReconnects
      <3>1. CASE RemoveIp
        BY <2>3, <3>1, <1>2 DEF LoopReconnects
      <3>2. CASE UNCHANGED <<serverIp, sx, goodbye>>
        BY <2>3, <3>2, <1>1 DEF LoopReconnects
      <3> QED
        BY <2>3, <3>1, <3>2 DEF LoopReconnects
    <2> QED
      BY <1>12, <2>1, <2>2, <2>3 DEF LoopStep
  <1>13. CASE Disconnect
    BY <1>13, <1>2 DEF Disconnect
  <1>14. CASE Age \/ AppConnects \/ AppStores
    BY <1>14, <1>1 DEF Age, AppConnects, AppStores
  <1>15. CASE UNCHANGED vars
    BY <1>15, <1>1 DEF vars
  <1> HIDE DEF shared, conns, others, TaskTo
  <1> QED
    BY <1>4, <1>5, <1>6, <1>7, <1>8, <1>9, <1>10, <1>11, <1>12, <1>13, <1>14, <1>15, <1>16
       DEF Next, SendBegins, Pushers, DisconnectStep

LEMMA Inductive == Spec => []IInv
PROOF
  <1>1. Init => IInv
    <2> SUFFICES ASSUME Init PROVE SenderHasIp /\ NoOrphan
      BY TypeInit, FlagInit DEF IInv
    <2> QED
      BY DEF Init, SenderHasIp, NoOrphan, Open
  <1>2. IInv /\ [Next]_vars => IInv'
    BY TypeStep, FlagStep, OrphanStep DEF IInv
  <1> QED
    BY <1>1, <1>2, PTL DEF Spec

\* Every reachable state is one the declarations allow, for any connections.
THEOREM TypeCorrect == Spec => []TypeOK
PROOF
  BY Inductive, PTL DEF IInv

\* TryConnectGuard admits one attempt at a time and its flag outlives none of them,
\* for any number of triggers and any order of losses and failed dials.
THEOREM OneAttempt == Spec => []SingleFlight
PROOF
  BY Inductive, PTL DEF IInv

\* is_try_connect is a FlagGuard of the attempts: Claim is its Acquire, Reset and
\* Flushed are its Release.
THEOREM GuardImplemented == Spec => ImplementsGuard
PROOF
  <1>1. Init => Guard!Init
    BY DEF Init, Guard!Init, Claimed
  <1> QED
    BY <1>1, GuardStep, Inductive, PTL DEF Spec, ImplementsGuard, Guard!Spec

\* add, remove_ip and the writers leave no open connection behind that neither sx
\* reaches nor a disconnect is on its way to.
THEOREM NoneOrphaned == Spec => []NoOrphan
PROOF
  BY Inductive, PTL DEF IInv
=============================================================================
