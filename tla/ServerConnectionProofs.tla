----------------------- MODULE ServerConnectionProofs -----------------------
(***************************************************************************)
(* Proofs about ServerConnection for any connections, any cap on them and  *)
(* a middleware chain of any length: type correctness, the conservation of *)
(* permits, the door of Admission that they implement, what the chain has  *)
(* vetted, and whom the end of a connection is told.                       *)
(***************************************************************************)
EXTENDS ServerConnection, FiniteSetTheorems, TLAPS

USE BoundsAssumption, FiniteAssumption

\* The connections whose task holds a permit.
Holders == {c \in Conns : HoldsPermit(c)}

\* Those that were turned away.
Refused == {c \in Conns : task[c] = "refused"}

\* A connection that was handed over never waits for a permit.
UpgradedServed == \A c \in upgraded : task[c] \in Serving \cup {"ended"}

IInv == TypeOK /\ PermitsAddUp /\ UpgradedServed

LEMMA HoldersFinite == IsFiniteSet(Holders) /\ Cardinality(Holders) \in Nat
PROOF
  BY FS_Subset, FS_CardinalityType DEF Holders

\* The free permits stay below the cap when one comes back, for whoever returns
\* it is still counted among the holders.
LEMMA RoomToReturn ==
  ASSUME IInv, NEW c \in Conns, HoldsPermit(c)
  PROVE  slots + 1 \in 0..MaxConnections
PROOF
  <1>1. c \in Holders
    BY DEF Holders
  <1>2. Cardinality(Holders) # 0
    BY <1>1, HoldersFinite, FS_EmptySet
  <1>3. slots + Cardinality(Holders) = MaxConnections /\ slots \in 0..MaxConnections
    BY DEF IInv, PermitsAddUp, Holders, TypeOK
  <1> QED
    BY <1>2, <1>3, HoldersFinite

LEMMA PutType ==
  ASSUME TypeOK, NEW c \in Conns, HasRoom(c), NEW m \in {"message", "disconnect"}, Put(c, m)
  PROVE  /\ chan' \in [Conns -> Seq({"message", "disconnect"})]
         /\ \A d \in Conns : Len(chan'[d]) <= BufSize
PROOF
  <1>1. /\ chan[c] \in Seq({"message", "disconnect"}) /\ Len(chan[c]) < BufSize
        /\ chan \in [Conns -> Seq({"message", "disconnect"})]
        /\ \A d \in Conns : Len(chan[d]) <= BufSize
        /\ chan' = [chan EXCEPT ![c] = Append(@, m)]
    BY DEF TypeOK, HasRoom, Put
  <1>2. Append(chan[c], m) \in Seq({"message", "disconnect"})
        /\ Len(Append(chan[c], m)) <= BufSize
    BY <1>1
  <1> QED
    BY ONLY <1>1, <1>2

LEMMA EndTaskType ==
  ASSUME IInv, NEW c \in Conns, task[c] \in {"tls", "handshake", "writing", "flushing"}, EndTask(c)
  PROVE  /\ slots' \in 0..MaxConnections
         /\ task' \in [Conns -> {"none", "refused", "lost", "tls", "handshake", "writing",
                                 "flushing", "ended"}]
         /\ chan' \in [Conns -> Seq({"message", "disconnect"})]
         /\ \A d \in Conns : Len(chan'[d]) <= BufSize
PROOF
  <1>1. slots' \in 0..MaxConnections
    <2>1. CASE c \in upgraded
      BY <2>1 DEF EndTask, IInv, TypeOK
    <2>2. CASE c \notin upgraded
      <3>1. HoldsPermit(c)
        BY <2>2 DEF HoldsPermit, Serving
      <3> QED
        BY <2>2, <3>1, RoomToReturn DEF EndTask
    <2> QED
      BY <2>1, <2>2
  <1>2. <<>> \in Seq({"message", "disconnect"}) /\ Len(<<>>) <= BufSize
    OBVIOUS
  <1> QED
    BY <1>1, <1>2 DEF EndTask, TaskTo, IInv, TypeOK

LEMMA TypeInit == Init => TypeOK
PROOF
  <1> SUFFICES ASSUME Init PROVE TypeOK
    OBVIOUS
  <1>1. <<>> \in Seq({"message", "disconnect"}) /\ Len(<<>>) <= BufSize
    OBVIOUS
  <1>2. cancelled \in BOOLEAN /\ accepting \in BOOLEAN
    BY Zenon DEF Init
  <1> QED
    BY <1>1, <1>2 DEF Init, TypeOK, Chain

LEMMA TypeStep ==
  ASSUME IInv, [Next]_vars
  PROVE  TypeOK'
PROOF
  <1> USE DEF TypeOK, admission, calls, TaskTo, ReaderTo
  <1> TypeOK
    BY DEF IInv
  <1>1. CASE Shutdown \/ LoopEnds
    BY <1>1 DEF Shutdown, LoopEnds
  <1>2. ASSUME NEW c \in Conns,
               \/ Accept(c) \/ AcceptTls(c) \/ PeerUnknown(c)
               \/ TlsDone(c) \/ HandshakeDone(c) \/ AcceptUpgraded(c)
        PROVE  TypeOK'
    <2>1. CASE Accept(c) \/ AcceptTls(c)
      <3>1. slots' \in 0..MaxConnections
        BY <2>1 DEF Accept, AcceptTls, TakePermit
      <3> QED
        BY <2>1, <3>1 DEF Accept, AcceptTls, TakePermit
    <2>2. CASE TlsDone(c) \/ PeerUnknown(c)
      BY <2>2 DEF TlsDone, PeerUnknown
    <2>3. CASE HandshakeDone(c)
      BY <2>3 DEF HandshakeDone, Serve, ServeBebop, ServeRaw
    <2>4. CASE AcceptUpgraded(c)
      BY <2>4 DEF AcceptUpgraded, Serve, ServeBebop, ServeRaw
    <2> QED
      BY <1>2, <2>1, <2>2, <2>3, <2>4
  <1>3. ASSUME NEW c \in Conns, \/ HandshakeFailed(c) \/ WriteFails(c) \/ Flush(c)
        PROVE  TypeOK'
    <2>1. EndTask(c) /\ task[c] \in {"tls", "handshake", "writing", "flushing"}
      BY <1>3 DEF HandshakeFailed, WriteFails, Flush
    <2>2. UNCHANGED <<build, cancelled, accepting, upgraded, reader, link, registered, calls>>
      BY <1>3 DEF HandshakeFailed, WriteFails, Flush
    <2> QED
      BY <2>1, <2>2, EndTaskType
  <1>4. ASSUME NEW c \in Conns, \/ FirstPing(c) \/ FirstProxied(c) \/ NoIdentity(c)
        PROVE  TypeOK'
    <2>1. CASE FirstPing(c)
      <3>1. forwarded' \in [Conns -> SUBSET (0..Middlewares)]
        <4>1. UNCHANGED forwarded \/ Forward(c, 0)
          BY <2>1 DEF FirstPing
        <4>2. forwarded[c] \cup {0} \in SUBSET (0..Middlewares)
          OBVIOUS
        <4> QED
          BY <4>1, <4>2 DEF Forward
      <3>2. ReaderTo(c, "firstPong") \/ ReaderTo(c, "onConnect")
        BY <2>1 DEF FirstPing
      <3>3. /\ registered' = registered \cup {c}
            /\ UNCHANGED <<admission, task, link, chan, admittedBy, toldOfEnd>>
        BY <2>1 DEF FirstPing
      <3> QED
        BY <3>1, <3>2, <3>3
    <2>2. CASE FirstProxied(c)
      BY <2>2 DEF FirstProxied, Forward
    <2>3. CASE NoIdentity(c)
      BY <2>3 DEF NoIdentity, Forward
    <2> QED
      BY <1>4, <2>1, <2>2, <2>3
  <1>5. ASSUME NEW c \in Conns, \/ Pong(c) \/ Leave(c) \/ Push(c) \/ Notice(c)
        PROVE  TypeOK'
    <2>1. \/ UNCHANGED chan
          \/ HasRoom(c) /\ \E m \in {"message", "disconnect"} : Put(c, m)
      BY <1>5 DEF Pong, Leave, Push, Notice
    <2>2. /\ chan' \in [Conns -> Seq({"message", "disconnect"})]
          /\ \A d \in Conns : Len(chan'[d]) <= BufSize
      BY <2>1, PutType
    <2>3. CASE Pong(c)
      BY <2>2, <2>3 DEF Pong
    <2>4. CASE Leave(c)
      BY <2>2, <2>4 DEF Leave
    <2>5. CASE Push(c) \/ Notice(c)
      BY <2>2, <2>5 DEF Push, Notice
    <2> QED
      BY <1>5, <2>3, <2>4, <2>5
  <1>6. ASSUME NEW c \in Conns, \/ OnConnect(c) \/ OnConnectRefuses(c) \/ Connected(c)
        PROVE  TypeOK'
    <2>1. CASE OnConnect(c)
      BY <2>1 DEF OnConnect, Chain
    <2>2. CASE OnConnectRefuses(c)
      BY <2>2 DEF OnConnectRefuses, Chain
    <2>3. CASE Connected(c)
      BY <2>3 DEF Connected, Chain
    <2> QED
      BY <1>6, <2>1, <2>2, <2>3
  <1>7. ASSUME NEW c \in Conns, \/ ReadPing(c) \/ ReadMessage(c) \/ ReadEnd(c) \/ Evicted(c)
        PROVE  TypeOK'
    <2>1. CASE ReadPing(c)
      BY <2>1 DEF ReadPing
    <2>2. CASE ReadMessage(c)
      BY <2>2 DEF ReadMessage
    <2>3. CASE ReadEnd(c)
      BY <2>3 DEF ReadEnd
    <2>4. CASE Evicted(c)
      BY <2>4 DEF Evicted
    <2> QED
      BY <1>7, <2>1, <2>2, <2>3, <2>4
  <1>8. ASSUME NEW c \in Conns, \/ OnMessage(c) \/ OnMessageStops(c) \/ ForwardMessage(c)
        PROVE  TypeOK'
    <2>1. CASE OnMessage(c)
      BY <2>1 DEF OnMessage, Chain
    <2>2. CASE OnMessageStops(c)
      BY <2>2 DEF OnMessageStops
    <2>3. CASE ForwardMessage(c)
      <3>1. link[c] - 1 \in 0..Middlewares
        OBVIOUS
      <3> QED
        BY <2>3, <3>1 DEF ForwardMessage, Forward
    <2> QED
      BY <1>8, <2>1, <2>2, <2>3
  <1>9. ASSUME NEW c \in Conns, OnDisconnect(c)
        PROVE  TypeOK'
    BY <1>9 DEF OnDisconnect
  <1>10. ASSUME NEW c \in Conns, Write(c)
         PROVE  TypeOK'
    <2>1. /\ Tail(chan[c]) \in Seq({"message", "disconnect"})
          /\ Len(Tail(chan[c])) <= BufSize
      BY <1>10 DEF Write
    <2> QED
      BY <1>10, <2>1 DEF Write
  <1>11. ASSUME NEW c \in Conns, SendersGone(c)
         PROVE  TypeOK'
    BY <1>11 DEF SendersGone
  <1>12. CASE UNCHANGED vars
    BY <1>12 DEF vars
  <1> QED
    BY <1>1, <1>2, <1>3, <1>4, <1>5, <1>6, <1>7, <1>8, <1>9, <1>10, <1>11, <1>12
       DEF Next, ReaderStep, WriterStep

-----------------------------------------------------------------------------
\* A step gives a permit to one connection, turns one away for want of a permit,
\* takes one back, closes the door, or leaves all of that alone.
Same == Holders' = Holders /\ Refused' = Refused /\ slots' = slots
Given(c) == /\ accepting /\ slots > 0 /\ c \notin Holders /\ c \notin Refused
            /\ Holders' = Holders \cup {c} /\ Refused' = Refused
            /\ slots' = slots - 1 /\ accepting' = accepting
Denied(c) == /\ accepting /\ ~(slots > 0) /\ c \notin Holders /\ c \notin Refused
             /\ Holders' = Holders /\ Refused' = Refused \cup {c}
             /\ slots' = slots /\ accepting' = accepting
TakenBack(c) == /\ c \in Holders
                /\ Holders' = Holders \ {c} /\ Refused' = Refused
                /\ slots' = slots + 1 /\ accepting' = accepting

LEMMA PermitStep ==
  ASSUME IInv, [Next]_vars
  PROVE  \/ Same /\ accepting' = accepting
         \/ Same /\ accepting /\ ~accepting'
         \/ \E c \in Conns : Given(c) \/ Denied(c) \/ TakenBack(c)
PROOF
  <1> USE DEF IInv, TypeOK, UpgradedServed, Holders, Refused, HoldsPermit, Serving, admission, TaskTo
  <1>1. ASSUME NEW c \in Conns, Accept(c) \/ AcceptTls(c)
        PROVE  Given(c) \/ Denied(c)
    <2>1. CASE slots > 0
      BY <1>1, <2>1 DEF Accept, AcceptTls, TakePermit, Given
    <2>2. CASE ~(slots > 0)
      BY <1>1, <2>2 DEF Accept, AcceptTls, TakePermit, Denied
    <2> QED
      BY <2>1, <2>2
  <1>2. ASSUME NEW c \in Conns, task[c] \in {"tls", "handshake", "writing", "flushing"},
               EndTask(c), UNCHANGED <<upgraded, accepting>>
        PROVE  (Same /\ accepting' = accepting) \/ TakenBack(c)
    <2>1. CASE c \in upgraded
      BY <1>2, <2>1 DEF EndTask, Same
    <2>2. CASE c \notin upgraded
      BY <1>2, <2>2 DEF EndTask, TakenBack
    <2> QED
      BY <2>1, <2>2
  <1>3. ASSUME NEW c \in Conns, \/ HandshakeFailed(c) \/ WriteFails(c) \/ Flush(c)
        PROVE  /\ EndTask(c) /\ task[c] \in {"tls", "handshake", "writing", "flushing"}
               /\ UNCHANGED <<upgraded, accepting>>
    BY <1>3 DEF HandshakeFailed, WriteFails, Flush
  <1>4. ASSUME NEW c \in Conns,
               \/ PeerUnknown(c) \/ TlsDone(c) \/ HandshakeDone(c) \/ AcceptUpgraded(c)
               \/ Write(c) \/ SendersGone(c)
        PROVE  Same /\ accepting' = accepting
    <2>1. CASE TlsDone(c) \/ PeerUnknown(c)
      BY <2>1 DEF TlsDone, PeerUnknown, Same
    <2>2. CASE HandshakeDone(c) \/ AcceptUpgraded(c)
      BY <2>2 DEF HandshakeDone, AcceptUpgraded, Serve, ServeBebop, ServeRaw, Same
    <2>3. CASE Write(c) \/ SendersGone(c)
      BY <2>3 DEF Write, SendersGone, Same
    <2> QED
      BY <1>4, <2>1, <2>2, <2>3
  <1>5. ASSUME UNCHANGED <<slots, upgraded, task>>
        PROVE  Same
    BY <1>5 DEF Same
  <1>6. ASSUME NEW c \in Conns,
               \/ FirstPing(c) \/ FirstProxied(c) \/ NoIdentity(c) \/ Pong(c)
               \/ OnConnect(c) \/ OnConnectRefuses(c) \/ Connected(c)
        PROVE  UNCHANGED <<accepting, slots, upgraded, task>>
    BY <1>6 DEF FirstPing, FirstProxied, NoIdentity, Pong, OnConnect, OnConnectRefuses, Connected
  <1>7. ASSUME NEW c \in Conns,
               \/ ReadPing(c) \/ ReadMessage(c) \/ ReadEnd(c)
               \/ OnMessage(c) \/ OnMessageStops(c) \/ ForwardMessage(c)
        PROVE  UNCHANGED <<accepting, slots, upgraded, task>>
    BY <1>7 DEF ReadPing, ReadMessage, ReadEnd, OnMessage, OnMessageStops, ForwardMessage
  <1>8. ASSUME NEW c \in Conns,
               \/ OnDisconnect(c) \/ Leave(c) \/ Push(c) \/ Notice(c) \/ Evicted(c)
        PROVE  UNCHANGED <<accepting, slots, upgraded, task>>
    BY <1>8 DEF OnDisconnect, Leave, Push, Notice, Evicted
  <1>9. ASSUME LoopEnds
        PROVE  accepting /\ ~accepting' /\ UNCHANGED <<slots, upgraded, task>>
    BY <1>9 DEF LoopEnds
  <1>10. ASSUME Shutdown \/ UNCHANGED vars
         PROVE  UNCHANGED <<accepting, slots, upgraded, task>>
    BY <1>10 DEF Shutdown, vars
  <1> HIDE DEF IInv, TypeOK, UpgradedServed, Holders, Refused, HoldsPermit, Serving, admission, TaskTo
  <1>11. CASE \E c \in Conns : Accept(c) \/ AcceptTls(c)
    BY <1>1, <1>11
  <1>12. CASE \E c \in Conns : HandshakeFailed(c) \/ WriteFails(c) \/ Flush(c)
    BY <1>2, <1>3, <1>12
  <1>13. CASE \E c \in Conns : \/ PeerUnknown(c) \/ TlsDone(c) \/ HandshakeDone(c) \/ AcceptUpgraded(c)
                               \/ Write(c) \/ SendersGone(c)
    BY <1>4, <1>13
  <1>14. CASE LoopEnds
    BY <1>5, <1>9, <1>14
  <1> QED
    BY <1>5, <1>6, <1>7, <1>8, <1>10, <1>11, <1>12, <1>13, <1>14 DEF Next, ReaderStep, WriterStep

LEMMA UpgradedStep ==
  ASSUME IInv, [Next]_vars
  PROVE  UpgradedServed'
PROOF
  <1> USE DEF IInv, TypeOK, UpgradedServed, Serving, admission, TaskTo
  <1>1. ASSUME NEW c \in Conns,
               \/ Accept(c) \/ AcceptTls(c) \/ PeerUnknown(c) \/ TlsDone(c)
               \/ HandshakeDone(c) \/ HandshakeFailed(c) \/ AcceptUpgraded(c)
               \/ Write(c) \/ SendersGone(c) \/ WriteFails(c) \/ Flush(c)
        PROVE  UpgradedServed'
    <2>1. CASE Accept(c) \/ AcceptTls(c) \/ PeerUnknown(c) \/ TlsDone(c) \/ HandshakeFailed(c)
      BY <2>1 DEF Accept, AcceptTls, TakePermit, PeerUnknown, TlsDone, HandshakeFailed, EndTask
    <2>2. CASE HandshakeDone(c) \/ AcceptUpgraded(c)
      BY <2>2 DEF HandshakeDone, AcceptUpgraded, Serve, ServeBebop, ServeRaw
    <2>3. CASE Write(c) \/ SendersGone(c) \/ WriteFails(c) \/ Flush(c)
      BY <2>3 DEF Write, SendersGone, WriteFails, Flush, EndTask
    <2> QED
      BY <1>1, <2>1, <2>2, <2>3
  <1>2. ASSUME UNCHANGED <<upgraded, task>>
        PROVE  UpgradedServed'
    BY <1>2
  <1>3. ASSUME NEW c \in Conns,
               \/ FirstPing(c) \/ FirstProxied(c) \/ NoIdentity(c) \/ Pong(c)
               \/ OnConnect(c) \/ OnConnectRefuses(c) \/ Connected(c)
        PROVE  UNCHANGED <<upgraded, task>>
    BY <1>3 DEF FirstPing, FirstProxied, NoIdentity, Pong, OnConnect, OnConnectRefuses, Connected
  <1>4. ASSUME NEW c \in Conns,
               \/ ReadPing(c) \/ ReadMessage(c) \/ ReadEnd(c)
               \/ OnMessage(c) \/ OnMessageStops(c) \/ ForwardMessage(c)
        PROVE  UNCHANGED <<upgraded, task>>
    BY <1>4 DEF ReadPing, ReadMessage, ReadEnd, OnMessage, OnMessageStops, ForwardMessage
  <1>5. ASSUME NEW c \in Conns,
               \/ OnDisconnect(c) \/ Leave(c) \/ Push(c) \/ Notice(c) \/ Evicted(c)
        PROVE  UNCHANGED <<upgraded, task>>
    BY <1>5 DEF OnDisconnect, Leave, Push, Notice, Evicted
  <1>6. ASSUME Shutdown \/ LoopEnds \/ UNCHANGED vars
        PROVE  UNCHANGED <<upgraded, task>>
    BY <1>6 DEF Shutdown, LoopEnds, vars
  <1> HIDE DEF UpgradedServed, TypeOK
  <1> QED
    BY <1>1, <1>2, <1>3, <1>4, <1>5, <1>6 DEF Next, ReaderStep, WriterStep

LEMMA PermitsStep ==
  ASSUME IInv, [Next]_vars
  PROVE  PermitsAddUp'
PROOF
  <1>1. slots + Cardinality(Holders) = MaxConnections /\ slots \in Nat
    BY DEF IInv, PermitsAddUp, Holders, TypeOK
  <1>2. slots' + Cardinality(Holders') = MaxConnections
    <2>1. CASE Same
      BY <1>1, <2>1 DEF Same
    <2>2. ASSUME NEW c \in Conns, Given(c)
          PROVE  slots' + Cardinality(Holders') = MaxConnections
      <3>1. Cardinality(Holders \cup {c}) = Cardinality(Holders) + 1
        BY <2>2, HoldersFinite, FS_AddElement DEF Given
      <3> QED
        BY <1>1, <2>2, <3>1, HoldersFinite DEF Given
    <2>3. ASSUME NEW c \in Conns, Denied(c)
          PROVE  slots' + Cardinality(Holders') = MaxConnections
      BY <1>1, <2>3 DEF Denied
    <2>4. ASSUME NEW c \in Conns, TakenBack(c)
          PROVE  slots' + Cardinality(Holders') = MaxConnections
      <3>1. Cardinality(Holders \ {c}) = Cardinality(Holders) - 1
        BY <2>4, HoldersFinite, FS_RemoveElement DEF TakenBack
      <3> QED
        BY <1>1, <2>4, <3>1, HoldersFinite DEF TakenBack
    <2> QED
      BY <2>1, <2>2, <2>3, <2>4, PermitStep
  <1> QED
    BY <1>2 DEF PermitsAddUp, Holders

\* The door counts as we do.
LEMMA DoorCounts == Door!Cardinality(Holders) = Cardinality(Holders)
PROOF
  BY Zenon DEF Door!Cardinality, Cardinality

\* Since permits add up, the semaphore is empty exactly when Capacity clients
\* are inside: each step is one of the door.
LEMMA DoorStep ==
  ASSUME IInv, [Next]_vars
  PROVE  [Door!Next]_Door!vars
PROOF
  <1>1. /\ slots + Cardinality(Holders) = MaxConnections /\ slots \in Nat
        /\ Cardinality(Holders) \in Nat /\ MaxConnections \in Nat /\ accepting' \in BOOLEAN
    BY HoldersFinite, TypeStep DEF IInv, PermitsAddUp, Holders, TypeOK
  <1>2. CASE Same /\ accepting' = accepting
    BY <1>2 DEF Same, Holders, Refused, Door!vars
  <1>3. CASE Same /\ accepting /\ ~accepting'
    BY <1>1, <1>3 DEF Same, Holders, Refused, Door!Next, Door!Close
  <1>4. ASSUME NEW c \in Conns, Given(c) PROVE Door!LetIn(c)
    <2>1. Door!Cardinality(Holders) < MaxConnections
      BY <1>1, <1>4, DoorCounts DEF Given
    <2>2. Door!Arrives(c)
      BY <1>4 DEF Given, Holders, Refused, Door!Arrives
    <2> QED
      BY <1>4, <2>1, <2>2 DEF Given, Holders, Refused, Door!LetIn
  <1>5. ASSUME NEW c \in Conns, Denied(c) PROVE Door!TurnAway(c)
    <2>1. Door!Cardinality(Holders) = MaxConnections
      BY <1>1, <1>5, DoorCounts DEF Denied
    <2>2. Door!Arrives(c)
      BY <1>5 DEF Denied, Holders, Refused, Door!Arrives
    <2> QED
      BY <1>5, <2>1, <2>2 DEF Denied, Holders, Refused, Door!TurnAway
  <1>6. ASSUME NEW c \in Conns, TakenBack(c) PROVE Door!Leave(c)
    BY <1>6 DEF TakenBack, Holders, Refused, Door!Leave
  <1> QED
    BY <1>2, <1>3, <1>4, <1>5, <1>6, PermitStep DEF Door!Next

LEMMA PermitsInit == Init => PermitsAddUp /\ UpgradedServed
PROOF
  <1> SUFFICES ASSUME Init PROVE PermitsAddUp /\ UpgradedServed
    OBVIOUS
  <1>1. {c \in Conns : HoldsPermit(c)} = {}
    BY DEF Init, HoldsPermit, Serving
  <1>2. Cardinality({c \in Conns : HoldsPermit(c)}) = 0
    BY <1>1, FS_EmptySet
  <1> QED
    BY <1>2 DEF Init, PermitsAddUp, UpgradedServed

\* The inductive invariant holds in every reachable state.
THEOREM Inductive == Spec => []IInv
PROOF
  <1>1. Init => IInv
    BY TypeInit, PermitsInit DEF IInv
  <1>2. IInv /\ [Next]_vars => IInv'
    BY TypeStep, PermitsStep, UpgradedStep DEF IInv
  <1> QED
    BY <1>1, <1>2, PTL DEF Spec

\* TypeOK for every configuration, the cap on each connection's channel included.
THEOREM TypeCorrect == Spec => []TypeOK
PROOF
  <1>1. IInv => TypeOK
    BY DEF IInv
  <1> QED
    BY <1>1, Inductive, PTL

\* Permits are conserved for any number of connections and any cap.
THEOREM PermitsConserved == Spec => []PermitsAddUp
PROOF
  <1>1. IInv => PermitsAddUp
    BY DEF IInv
  <1> QED
    BY <1>1, Inductive, PTL

\* The accept loops with their semaphore implement the door of Admission: no
\* client is refused while fewer than max_connections are inside, none is let in
\* beyond them or once the loop has ended, and every place that is left is free
\* again.
THEOREM AdmissionImplemented == Spec => ImplementsAdmission
PROOF
  <1>1. Init => Door!Init
    BY DEF Init, Door!Init, HoldsPermit, Serving
  <1> QED
    BY <1>1, DoorStep, Inductive, PTL DEF Spec, ImplementsAdmission, Door!Spec

-----------------------------------------------------------------------------
\* Where the reader is tells which middlewares it has asked, and with what
\* answer: up to link while it asks on_connect, all of them afterwards.
ChainInv ==
  \A c \in Conns :
    /\ task[c] \in {"none", "tls", "handshake"} => reader[c] = "none"
    /\ reader[c] \in {"none", "first", "firstPong"} => admittedBy[c] = {} /\ link[c] = 1
    /\ reader[c] = "onConnect" => admittedBy[c] = 1..link[c] - 1
    /\ reader[c] \in {"reading", "pong", "onMessage", "onDisconnect"} => admittedBy[c] = Chain
    /\ reader[c] \notin {"leaving", "gone"} => toldOfEnd[c] = {}

ReaderInv == TypeOK /\ ChainInv /\ EndIsTold

\* Asking one middleware more extends the interval of those asked.
LEMMA OneMore ==
  ASSUME NEW l \in 1..Middlewares
  PROVE  /\ (1..l - 1) \cup {l} = 1..(l + 1) - 1
         /\ 1..l - 1 # Chain
PROOF
  BY DEF Chain

LEMMA ReaderStepKeeps ==
  ASSUME ReaderInv, [Next]_vars
  PROVE  ChainInv' /\ EndIsTold'
PROOF
  <1> USE DEF ReaderInv, TypeOK, ChainInv, EndIsTold, admission, calls, TaskTo, ReaderTo
  <1>1. ASSUME NEW c \in Conns,
               \/ Accept(c) \/ AcceptTls(c) \/ PeerUnknown(c)
               \/ TlsDone(c) \/ HandshakeDone(c) \/ AcceptUpgraded(c)
        PROVE  ChainInv' /\ EndIsTold'
    <2>1. CASE Accept(c) \/ AcceptTls(c)
      <3>1. /\ task[c] = "none"
            /\ TaskTo(c, "refused") \/ TaskTo(c, "tls") \/ TaskTo(c, "handshake")
            /\ UNCHANGED <<reader, link, admittedBy, toldOfEnd>>
        BY <2>1 DEF Accept, AcceptTls, TakePermit
      <3>2. reader[c] = "none"
        BY <3>1
      <3> QED
        BY <3>1, <3>2
    <2>2. CASE TlsDone(c) \/ PeerUnknown(c)
      BY <2>2 DEF TlsDone, PeerUnknown
    <2>3. CASE HandshakeDone(c) \/ AcceptUpgraded(c)
      <3>1. /\ task[c] \in {"none", "handshake"} /\ TaskTo(c, "writing")
            /\ ReaderTo(c, "first") \/ ReaderTo(c, "onConnect")
            /\ UNCHANGED <<link, admittedBy, toldOfEnd>>
        BY <2>3 DEF HandshakeDone, AcceptUpgraded, Serve, ServeBebop, ServeRaw
      <3>2. reader[c] = "none" /\ admittedBy[c] = {} /\ 1..link[c] - 1 = {}
        BY <3>1
      <3>3. CASE ReaderTo(c, "first")
        BY <3>1, <3>2, <3>3
      <3>4. CASE ReaderTo(c, "onConnect")
        BY <3>1, <3>2, <3>4
      <3> QED
        BY <3>1, <3>3, <3>4
    <2> QED
      BY <1>1, <2>1, <2>2, <2>3
  <1>2. ASSUME NEW c \in Conns, \/ HandshakeFailed(c) \/ Write(c) \/ SendersGone(c)
                               \/ WriteFails(c) \/ Flush(c)
        PROVE  ChainInv' /\ EndIsTold'
    <2>1. CASE HandshakeFailed(c)
      BY <2>1 DEF HandshakeFailed, EndTask
    <2>2. CASE Write(c)
      BY <2>2 DEF Write, EndTask
    <2>3. CASE WriteFails(c)
      BY <2>3 DEF WriteFails, EndTask
    <2>4. CASE Flush(c)
      BY <2>4 DEF Flush, EndTask
    <2>5. CASE SendersGone(c)
      BY <2>5 DEF SendersGone
    <2> QED
      BY <1>2, <2>1, <2>2, <2>3, <2>4, <2>5
  <1>3. ASSUME NEW c \in Conns, \/ FirstPing(c) \/ FirstProxied(c)
        PROVE  ChainInv' /\ EndIsTold'
    <2>1. reader[c] = "first" /\ admittedBy[c] = {} /\ 1..link[c] - 1 = {}
      BY <1>3 DEF FirstPing, FirstProxied
    <2>2. /\ ReaderTo(c, "firstPong") \/ ReaderTo(c, "onConnect")
          /\ reader[c] = "first"
          /\ UNCHANGED <<task, link, admittedBy, toldOfEnd>>
      BY <1>3 DEF FirstPing, FirstProxied
    <2>3. CASE ReaderTo(c, "firstPong")
      BY <2>1, <2>2, <2>3
    <2>4. CASE ReaderTo(c, "onConnect")
      BY <2>1, <2>2, <2>4
    <2> QED
      BY <2>2, <2>3, <2>4
  <1>4. ASSUME NEW c \in Conns, NoIdentity(c)
        PROVE  ChainInv' /\ EndIsTold'
    <2>1. /\ reader' = [reader EXCEPT ![c] = "leaving"]
          /\ UNCHANGED <<task, link, admittedBy, toldOfEnd>>
          /\ reader[c] = "first" /\ admittedBy[c] = {} /\ toldOfEnd[c] = {}
      BY <1>4 DEF NoIdentity
    <2>2. ChainInv'
      BY <2>1
    <2>3. EndIsTold'
      BY <2>1
    <2> QED
      BY <2>2, <2>3
  <1>5. ASSUME NEW c \in Conns, Pong(c)
        PROVE  ChainInv' /\ EndIsTold'
    <2>1. reader[c] = "firstPong" => admittedBy[c] = {} /\ 1..link[c] - 1 = {}
      BY <1>5
    <2>2. UNCHANGED <<task, link, admittedBy, toldOfEnd>>
          /\ ReaderTo(c, IF reader[c] = "firstPong" THEN "onConnect" ELSE "reading")
          /\ reader[c] \in {"firstPong", "pong"}
      BY <1>5 DEF Pong
    <2> QED
      BY <2>1, <2>2
  <1>6. ASSUME NEW c \in Conns, \/ OnConnect(c) \/ OnConnectRefuses(c)
        PROVE  ChainInv' /\ EndIsTold'
    <2>1. link[c] \in 1..Middlewares /\ admittedBy[c] = 1..link[c] - 1 /\ reader[c] = "onConnect"
      BY <1>6 DEF OnConnect, OnConnectRefuses, Chain
    <2>2. /\ admittedBy[c] \cup {link[c]} = 1..(link[c] + 1) - 1
          /\ admittedBy[c] # Chain
      BY <2>1, OneMore
    <2>3. CASE OnConnect(c)
      BY <2>1, <2>2, <2>3 DEF OnConnect
    <2>4. CASE OnConnectRefuses(c)
      BY <2>1, <2>2, <2>4 DEF OnConnectRefuses
    <2> QED
      BY <1>6, <2>3, <2>4
  <1>7. ASSUME NEW c \in Conns, Connected(c)
        PROVE  ChainInv' /\ EndIsTold'
    <2>1. link[c] = Middlewares + 1 /\ admittedBy[c] = 1..link[c] - 1
      BY <1>7 DEF Connected, Chain
    <2>2. admittedBy[c] = Chain
      BY <2>1 DEF Chain
    <2> QED
      BY <1>7, <2>2 DEF Connected
  <1>8. ASSUME NEW c \in Conns, \/ ReadPing(c) \/ ReadMessage(c) \/ ReadEnd(c) \/ Evicted(c)
        PROVE  ChainInv' /\ EndIsTold'
    <2>1. CASE ReadPing(c)
      BY <2>1 DEF ReadPing
    <2>2. CASE ReadMessage(c)
      BY <2>2 DEF ReadMessage
    <2>3. CASE ReadEnd(c)
      BY <2>3 DEF ReadEnd
    <2>4. CASE Evicted(c)
      BY <2>4 DEF Evicted
    <2> QED
      BY <1>8, <2>1, <2>2, <2>3, <2>4
  <1>9. ASSUME NEW c \in Conns, \/ OnMessage(c) \/ OnMessageStops(c) \/ ForwardMessage(c)
        PROVE  ChainInv' /\ EndIsTold'
    <2>1. CASE OnMessage(c)
      BY <2>1 DEF OnMessage, Forward
    <2>2. CASE OnMessageStops(c)
      BY <2>2 DEF OnMessageStops, Forward
    <2>3. CASE ForwardMessage(c)
      BY <2>3 DEF ForwardMessage, Forward
    <2> QED
      BY <1>9, <2>1, <2>2, <2>3
  <1>10. ASSUME NEW c \in Conns, \/ OnDisconnect(c) \/ Leave(c) \/ Push(c) \/ Notice(c)
         PROVE  ChainInv' /\ EndIsTold'
    <2>1. CASE OnDisconnect(c)
      BY <2>1 DEF OnDisconnect
    <2>2. CASE Leave(c)
      BY <2>2 DEF Leave
    <2>3. CASE Push(c)
      BY <2>3 DEF Push
    <2>4. CASE Notice(c)
      BY <2>4 DEF Notice
    <2> QED
      BY <1>10, <2>1, <2>2, <2>3, <2>4
  <1>11. CASE Shutdown \/ LoopEnds \/ UNCHANGED vars
    BY <1>11 DEF Shutdown, LoopEnds, vars
  <1> HIDE DEF ReaderInv, TypeOK, ChainInv, EndIsTold
  <1> QED
    BY <1>1, <1>2, <1>3, <1>4, <1>5, <1>6, <1>7, <1>8, <1>9, <1>10, <1>11
       DEF Next, ReaderStep, WriterStep

\* Nobody is told of the end of a connection that they did not let in, and by the
\* time its reader is gone all middlewares of one that none refused have been told,
\* for a chain of any length.
THEOREM EndTold == Spec => []EndIsTold
PROOF
  <1>1. Init => ChainInv /\ EndIsTold
    BY DEF Init, ChainInv, EndIsTold
  <1>2. TypeOK /\ (ChainInv /\ EndIsTold) /\ [Next]_vars => (ChainInv /\ EndIsTold)'
    BY ReaderStepKeeps DEF ReaderInv
  <1> QED
    BY <1>1, <1>2, TypeCorrect, PTL DEF Spec

\* The build never changes.
LEMMA BuildStays == [Next]_vars => UNCHANGED build
PROOF
  BY DEF Next, Shutdown, LoopEnds, Accept, AcceptTls, PeerUnknown, TlsDone, HandshakeDone,
         HandshakeFailed, AcceptUpgraded, FirstPing, FirstProxied, NoIdentity, ReadPing, ReadMessage, ReadEnd,
         ReaderStep, Pong, OnConnect, OnConnectRefuses, Connected, OnMessage,
         OnMessageStops, ForwardMessage, OnDisconnect, Leave, WriterStep, Write,
         SendersGone, WriteFails, Flush, Push, Notice, Evicted, vars, admission

\* Only the bebop build has a first message that names the peer.
FirstIsNamed == \A c \in Conns : reader[c] = "first" => build = "bebop"

LEMMA FirstIsNamedStep ==
  ASSUME TypeOK, FirstIsNamed, [Next]_vars
  PROVE  FirstIsNamed'
PROOF
  <1>1. ASSUME NEW c \in Conns, reader'[c] = "first", reader[c] # "first"
        PROVE  build = "bebop"
    <2> USE <1>1 DEF TypeOK, admission, calls, ReaderTo
    <2>1. ASSUME NEW d \in Conns, HandshakeDone(d) \/ AcceptUpgraded(d)
          PROVE  build = "bebop"
      BY <2>1 DEF HandshakeDone, AcceptUpgraded, Serve, ServeBebop, ServeRaw
    <2>2. ASSUME NEW d \in Conns, \/ Accept(d) \/ AcceptTls(d) \/ PeerUnknown(d)
                                  \/ TlsDone(d) \/ HandshakeFailed(d)
                                  \/ WriterStep(d) \/ Push(d) \/ Notice(d) \/ Evicted(d)
          PROVE  FALSE
      BY <2>2 DEF Accept, AcceptTls, PeerUnknown, TlsDone, HandshakeFailed, WriterStep, Write, SendersGone,
                  WriteFails, Flush, Push, Notice, Evicted
    <2>3. ASSUME NEW d \in Conns, \/ FirstPing(d) \/ FirstProxied(d) \/ NoIdentity(d)
                                  \/ ReadPing(d) \/ ReadMessage(d) \/ ReadEnd(d)
          PROVE  FALSE
      BY <2>3 DEF FirstPing, FirstProxied, NoIdentity, ReadPing, ReadMessage, ReadEnd
    <2>4. ASSUME NEW d \in Conns, ReaderStep(d)
          PROVE  FALSE
      BY <2>4 DEF ReaderStep, Pong, OnConnect, OnConnectRefuses, Connected, OnMessage,
                  OnMessageStops, ForwardMessage, OnDisconnect, Leave
    <2>5. CASE Shutdown \/ LoopEnds \/ UNCHANGED vars
      BY <2>5 DEF Shutdown, LoopEnds, vars
    <2> QED
      BY ONLY <2>1, <2>2, <2>3, <2>4, <2>5, [Next]_vars DEF Next
  <1> QED
    BY <1>1, BuildStays DEF FirstIsNamed

\* What is forwarded is an exempt first message, or comes from ForwardMessage at
\* the end of a chain that on_connect and on_message have both walked.
LEMMA VettedStep ==
  ASSUME TypeOK, ChainInv, FirstIsNamed, VettedBeforeForwarded, [Next]_vars
  PROVE  VettedBeforeForwarded'
PROOF
  <1>held. \A c \in Conns : /\ forwarded[c] \subseteq {Middlewares} \cup Unasked
                             /\ forwarded[c] \ Unasked # {} => admittedBy[c] = Chain
    BY Zenon DEF VettedBeforeForwarded
  <1> USE DEF TypeOK, ChainInv, VettedBeforeForwarded, admission, calls, ReaderTo
  <1>same. Unasked' = Unasked
    BY BuildStays DEF Unasked
  <1>1. ASSUME UNCHANGED <<admittedBy, forwarded>>
        PROVE  VettedBeforeForwarded'
    BY <1>same, <1>1
  <1>2. ASSUME NEW c \in Conns, OnConnect(c)
        PROVE  VettedBeforeForwarded'
    <2>1. link[c] \in Chain /\ (forwarded[c] \ Unasked # {} => admittedBy[c] = Chain)
      BY <1>2, <1>held DEF OnConnect
    <2>2. forwarded[c] \ Unasked # {} => admittedBy[c] \cup {link[c]} = Chain
      BY ONLY <2>1
    <2> QED
      BY <1>same, <1>2, <2>2 DEF OnConnect
  <1>3. ASSUME NEW c \in Conns, ForwardMessage(c)
        PROVE  VettedBeforeForwarded'
    <2>1. link[c] - 1 = Middlewares /\ admittedBy[c] = Chain
      BY <1>3 DEF ForwardMessage, Chain
    <2> QED
      BY <1>same, <1>3, <2>1 DEF ForwardMessage, Forward
  \* An exempt message is past the chain, and changes nothing for the others.
  <1>4. ASSUME NEW c \in Conns, 0 \in Unasked, Forward(c, 0), UNCHANGED admittedBy
        PROVE  VettedBeforeForwarded'
    <2> SUFFICES ASSUME NEW d \in Conns
                 PROVE  /\ forwarded'[d] \subseteq {Middlewares} \cup Unasked
                        /\ forwarded'[d] \ Unasked # {} => admittedBy[d] = Chain
      BY <1>same, <1>4
    <2>1. forwarded'[d] = forwarded[d] \/ forwarded'[d] = forwarded[d] \cup {0}
      BY <1>4 DEF Forward
    <2>2. /\ forwarded[d] \subseteq {Middlewares} \cup Unasked
          /\ forwarded[d] \ Unasked # {} => admittedBy[d] = Chain
      BY <1>held, Zenon
    <2> QED
      BY ONLY <1>4, <2>1, <2>2
  <1>5. ASSUME NEW c \in Conns, FirstPing(c) \/ FirstProxied(c)
        PROVE  VettedBeforeForwarded'
    <2>1. build = "bebop"
      BY <1>5 DEF FirstPing, FirstProxied, FirstIsNamed
    <2>2. CASE FirstPing(c) /\ UsePing
      BY <1>1, <2>2 DEF FirstPing
    <2>3. CASE FirstPing(c) /\ ~UsePing
      BY <1>4, <2>1, <2>3 DEF FirstPing, Unasked
    <2>4. CASE FirstProxied(c)
      BY <1>4, <2>1, <2>4 DEF FirstProxied, Unasked
    <2> QED
      BY <1>5, <2>2, <2>3, <2>4
  <1>6. ASSUME NEW c \in Conns,
               \/ Accept(c) \/ AcceptTls(c) \/ PeerUnknown(c) \/ TlsDone(c)
               \/ HandshakeDone(c) \/ HandshakeFailed(c) \/ AcceptUpgraded(c)
               \/ Write(c) \/ SendersGone(c) \/ WriteFails(c) \/ Flush(c)
        PROVE  UNCHANGED <<admittedBy, forwarded>>
    BY <1>6 DEF Accept, AcceptTls, PeerUnknown, TlsDone, HandshakeDone, HandshakeFailed, AcceptUpgraded,
                Write, SendersGone, WriteFails, Flush
  <1>7. ASSUME NEW c \in Conns,
               \/ NoIdentity(c) \/ Pong(c) \/ OnConnectRefuses(c) \/ Connected(c)
               \/ ReadPing(c) \/ ReadMessage(c)
        PROVE  UNCHANGED <<admittedBy, forwarded>>
    BY <1>7 DEF NoIdentity, Pong, OnConnectRefuses, Connected, ReadPing, ReadMessage
  <1>8. ASSUME NEW c \in Conns,
               \/ ReadEnd(c) \/ OnMessage(c) \/ OnMessageStops(c) \/ OnDisconnect(c)
               \/ Leave(c) \/ Push(c) \/ Notice(c) \/ Evicted(c)
        PROVE  UNCHANGED <<admittedBy, forwarded>>
    BY <1>8 DEF ReadEnd, OnMessage, OnMessageStops, OnDisconnect, Leave, Push, Notice, Evicted
  <1>9. ASSUME Shutdown \/ LoopEnds \/ UNCHANGED vars
        PROVE  UNCHANGED <<admittedBy, forwarded>>
    BY <1>9 DEF Shutdown, LoopEnds, vars
  <1> HIDE DEF TypeOK, ChainInv, VettedBeforeForwarded
  <1> QED
    BY <1>1, <1>2, <1>3, <1>5, <1>6, <1>7, <1>8, <1>9 DEF Next, ReaderStep, WriterStep

\* For all options, both builds and a chain of any length, nothing but an exempt
\* first message reaches the application that the whole chain has not let in and
\* let pass.
THEOREM Vetted == Spec => []VettedBeforeForwarded
PROOF
  <1> DEFINE Inv == ChainInv /\ EndIsTold /\ FirstIsNamed /\ VettedBeforeForwarded
  <1>1. Init => Inv
    BY DEF Init, ChainInv, EndIsTold, FirstIsNamed, VettedBeforeForwarded
  <1>2. TypeOK /\ Inv /\ [Next]_vars => Inv'
    BY ReaderStepKeeps, FirstIsNamedStep, VettedStep DEF ReaderInv
  <1> QED
    BY <1>1, <1>2, TypeCorrect, PTL DEF Spec
=============================================================================
