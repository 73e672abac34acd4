------------------------ MODULE ClientSendersProofs -------------------------
(***************************************************************************)
(* Proofs about ClientSenders for any peers, connections and callers: type *)
(* correctness, and when the gauge of active connections is exact.         *)
(***************************************************************************)
EXTENDS ClientSenders, FiniteSetTheorems, TLAPS

\* What a task is doing fits what it holds: the inductive form of TypeOK.
LocalsInv ==
  \A t \in Tasks :
    /\ pc[t] \in {"new", "notify", "insert", "count", "leaving", "gone"} => t \in Conns
    /\ pc[t] \notin {"new", "idle", "leaving", "gone"} => peer[t] \in Peers
    /\ pc[t] = "idle" /\ t \in Conns => peer[t] \in Peers
    /\ pc[t] \in {"notify", "sending"} => target[t] \in Conns

IInv == TypeOK /\ LocalsInv

USE BufSizeAssumption, NamesAssumption, FiniteAssumption

\* A message put in a channel with room keeps every channel within its size.
LEMMA ChannelType ==
  ASSUME TypeOK, NEW c \in Conns, HasRoom(c), NEW m \in {"message", "disconnect"},
         chan' = [chan EXCEPT ![c] = Append(@, m)]
  PROVE  /\ chan' \in [Conns -> Seq({"message", "disconnect"})]
         /\ \A d \in Conns : Len(chan'[d]) <= BufSize
PROOF
  <1>1. /\ chan[c] \in Seq({"message", "disconnect"}) /\ Len(chan[c]) < BufSize
        /\ chan \in [Conns -> Seq({"message", "disconnect"})]
        /\ \A d \in Conns : Len(chan[d]) <= BufSize
    BY DEF TypeOK, HasRoom
  <1>2. Append(chan[c], m) \in Seq({"message", "disconnect"})
        /\ Len(Append(chan[c], m)) <= BufSize
    BY <1>1
  <1> QED
    BY <1>1, <1>2

LEMMA TypeStep ==
  ASSUME IInv, [Next]_vars
  PROVE  IInv'
PROOF
  <1> USE DEF IInv, TypeOK, LocalsInv, Steps, Tasks, Registered,
              registry, metrics, channels, locals
  <1>1. ASSUME NEW c \in Conns, NEW p \in Peers, AddLookup(c, p)
        PROVE  IInv'
    BY <1>1 DEF AddLookup, Goto
  <1>2. ASSUME NEW c \in Conns, AddNotice(c)
        PROVE  IInv'
    <2>1. target[c] \in Conns
      BY <1>2 DEF AddNotice
    <2>2. /\ chan' \in [Conns -> Seq({"message", "disconnect"})]
          /\ \A d \in Conns : Len(chan'[d]) <= BufSize
      BY <1>2, <2>1, ChannelType DEF AddNotice
    <2> QED
      BY <1>2, <2>1, <2>2 DEF AddNotice, Goto
  <1>3. ASSUME NEW c \in Conns, AddInsert(c) \/ AddCount(c)
        PROVE  IInv'
    <2>1. CASE AddInsert(c)
      BY <2>1 DEF AddInsert, Goto
    <2>2. CASE AddCount(c)
      BY <2>2 DEF AddCount, Finish, Goto
    <2> QED
      BY <1>3, <2>1, <2>2
  <1>4. ASSUME NEW c \in Conns, ReaderLeaves(c)
        PROVE  IInv'
    BY <1>4 DEF ReaderLeaves, Goto
  <1>5. ASSUME NEW c \in Conns, ReaderGone(c)
        PROVE  IInv'
    <2>1. /\ chan' \in [Conns -> Seq({"message", "disconnect"})]
          /\ \A d \in Conns : Len(chan'[d]) <= BufSize
      BY <1>5, ChannelType DEF ReaderGone
    <2> QED
      BY <1>5, <2>1 DEF ReaderGone, Goto
  <1>6. ASSUME NEW c \in Conns, Write(c)
        PROVE  IInv'
    <2>1. /\ chan' \in [Conns -> Seq({"message", "disconnect"})]
          /\ \A d \in Conns : Len(chan'[d]) <= BufSize
      <3>1. chan[c] \in Seq({"message", "disconnect"}) /\ chan[c] # <<>>
        BY <1>6 DEF Write
      <3>2. Tail(chan[c]) \in Seq({"message", "disconnect"})
            /\ Len(Tail(chan[c])) = Len(chan[c]) - 1
        BY ONLY <3>1, SMT
      <3> QED
        <4>1. CASE chan' = [chan EXCEPT ![c] = Tail(@)]
          BY <3>2, <4>1
        <4>2. CASE chan' = [chan EXCEPT ![c] = <<>>]
          BY <4>2
        <4> QED
          BY <1>6, <4>1, <4>2 DEF Write
    <2> QED
      BY <1>6, <2>1 DEF Write
  <1>7. ASSUME NEW t \in Tasks, NEW p \in Peers, SendLookup(t, p)
        PROVE  IInv'
    BY <1>7 DEF SendLookup, Goto
  <1>8. ASSUME NEW t \in Tasks, SendAccepted(t)
        PROVE  IInv'
    <2>1. target[t] \in Conns
      BY <1>8 DEF SendAccepted
    <2>2. /\ chan' \in [Conns -> Seq({"message", "disconnect"})]
          /\ \A d \in Conns : Len(chan'[d]) <= BufSize
      BY <1>8, <2>1, ChannelType DEF SendAccepted
    <2> QED
      BY <1>8, <2>1, <2>2 DEF SendAccepted, Goto
  <1>9. ASSUME NEW t \in Tasks, SendFailed(t) \/ WriteTime(t) \/ Remove(t) \/ RemoveCount(t)
        PROVE  IInv'
    <2>1. CASE SendFailed(t)
      BY <2>1 DEF SendFailed, Goto
    <2>2. CASE WriteTime(t)
      BY <2>2 DEF WriteTime, Finish, Goto
    <2>3. CASE Remove(t)
      <3>1. /\ clients' \in [Peers -> Conns \cup {NoConn}] /\ stale' \in [Peers -> BOOLEAN]
            /\ pc[t] = "remove" /\ peer[t] \in Peers
            /\ UNCHANGED <<active, total, chan, closed, disturbed>>
        BY <2>3 DEF Remove
      <3>2. CASE Goto(t, "uncount") /\ UNCHANGED <<peer, target, replacing>>
        BY <3>1, <3>2 DEF Goto
      <3>3. CASE Finish(t)
        BY <3>1, <3>3 DEF Finish, Goto
      <3> QED
        BY <2>3, <3>2, <3>3 DEF Remove
    <2>4. CASE RemoveCount(t)
      <3>1. active' \in Nat /\ disturbed' \in BOOLEAN
        BY <2>4 DEF RemoveCount, Decrement
      <3> QED
        BY <2>4, <3>1 DEF RemoveCount, Finish, Goto
    <2> QED
      BY <1>9, <2>1, <2>2, <2>3, <2>4
  <1>10. ASSUME NEW t \in Callers, NEW p \in Peers, RemoveCall(t, p)
         PROVE  IInv'
    BY <1>10 DEF RemoveCall, Goto
  <1>11. ASSUME NEW p \in Peers, BecomeStale(p) \/ CheckEntry(p)
         PROVE  IInv'
    <2>1. CASE BecomeStale(p)
      BY <2>1 DEF BecomeStale
    <2>2. CASE CheckEntry(p)
      BY <2>2 DEF CheckEntry, Decrement
    <2> QED
      BY <1>11, <2>1, <2>2
  <1>12. CASE UNCHANGED vars
    BY <1>12 DEF vars
  <1> QED
    BY <1>1, <1>2, <1>3, <1>4, <1>5, <1>6, <1>7, <1>8, <1>9, <1>10, <1>11, <1>12
       DEF Next, AddStep, SendStep

-----------------------------------------------------------------------------
(* The gauge.  GaugeExact counts three finite sets; each operation moves at *)
(* most one element in or out of two of them, and the counter with it.     *)

LEMMA CountSets ==
  ASSUME TypeOK
  PROVE  /\ IsFiniteSet(Entries) /\ Cardinality(Entries) \in Nat
         /\ IsFiniteSet(Uncounted) /\ Cardinality(Uncounted) \in Nat
         /\ IsFiniteSet(StillCounted) /\ Cardinality(StillCounted) \in Nat
PROOF
  <1>1. IsFiniteSet(Tasks)
    BY FiniteAssumption, FS_Union DEF Tasks
  <1>2. Entries \subseteq Peers /\ Uncounted \subseteq Conns /\ StillCounted \subseteq Tasks
    BY DEF Entries, Uncounted, StillCounted
  <1> QED
    BY <1>1, <1>2, FiniteAssumption, FS_Subset, FS_CardinalityType

\* One element more or less.
LEMMA CountAdd ==
  ASSUME NEW S, IsFiniteSet(S), NEW x, x \notin S
  PROVE  Cardinality(S \cup {x}) = Cardinality(S) + 1
PROOF
  BY FS_AddElement

LEMMA CountRemove ==
  ASSUME NEW S, IsFiniteSet(S), NEW x, x \in S
  PROVE  Cardinality(S \ {x}) = Cardinality(S) - 1
PROOF
  BY FS_RemoveElement

LEMMA GaugeStep ==
  ASSUME IInv, GaugeExact, [Next]_vars
  PROVE  GaugeExact'
PROOF
  <1> USE DEF Registered
  <1>0. /\ active \in Nat /\ disturbed \in BOOLEAN /\ clients \in [Peers -> Conns \cup {NoConn}]
        /\ pc \in [Tasks -> Steps] /\ replacing \in [Tasks -> BOOLEAN]
        /\ peer \in [Tasks -> Peers \cup {NoPeer}] /\ Conns \subseteq Tasks /\ Callers \subseteq Tasks
    BY DEF IInv, TypeOK, Tasks
  <1>c. /\ IsFiniteSet(Entries) /\ Cardinality(Entries) \in Nat
        /\ IsFiniteSet(Uncounted) /\ Cardinality(Uncounted) \in Nat
        /\ IsFiniteSet(StillCounted) /\ Cardinality(StillCounted) \in Nat
    BY CountSets DEF IInv
  <1>1. ASSUME NEW c \in Conns, AddInsert(c)
        PROVE  GaugeExact'
    <2>0. peer[c] \in Peers
      BY <1>1 DEF AddInsert, IInv, LocalsInv, Tasks
    <2>1. /\ disturbed' = (disturbed \/ replacing[c] # Registered(peer[c]))
          /\ active' = active /\ UNCHANGED replacing
          /\ clients' = [clients EXCEPT ![peer[c]] = c] /\ c # NoConn
          /\ pc[c] = "insert" /\ pc' = [pc EXCEPT ![c] = "count"]
      BY <1>1, NamesAssumption DEF AddInsert, Goto, metrics
    <2>2. StillCounted' = StillCounted
      BY <1>0, <2>1 DEF StillCounted
    <2>3. CASE replacing[c]
      <3>1. Uncounted' = Uncounted
        BY <1>0, <2>1, <2>3 DEF Uncounted
      <3>2. ~disturbed' => Entries' = Entries
        BY <1>0, <2>0, <2>1, <2>3 DEF Entries
      <3> QED
        BY <1>0, <2>1, <2>2, <3>1, <3>2 DEF GaugeExact
    <2>4. CASE ~replacing[c]
      <3>1. Uncounted' = Uncounted \cup {c} /\ c \notin Uncounted
        BY <1>0, <2>1, <2>4 DEF Uncounted
      <3>2. ~disturbed' => Entries' = Entries \cup {peer[c]} /\ peer[c] \notin Entries
        BY <1>0, <2>0, <2>1, <2>4 DEF Entries
      <3> HIDE DEF Registered
      <3>3. Cardinality(Uncounted') = Cardinality(Uncounted) + 1
        BY <1>c, <3>1, CountAdd
      <3>4. ~disturbed' => Cardinality(Entries') = Cardinality(Entries) + 1
        BY <1>c, <3>2, CountAdd
      <3> QED
        BY <1>0, <1>c, <2>1, <2>2, <3>3, <3>4 DEF GaugeExact
    <2> QED
      BY <1>0, <2>3, <2>4
  <1>2. ASSUME NEW c \in Conns, AddCount(c)
        PROVE  GaugeExact'
    <2>1. /\ UNCHANGED <<clients, disturbed>>
          /\ pc[c] = "count" /\ pc' = [pc EXCEPT ![c] = "idle"]
          /\ replacing' = [replacing EXCEPT ![c] = FALSE]
          /\ active' = IF replacing[c] THEN active ELSE active + 1
      BY <1>2 DEF AddCount, Finish, Goto, registry
    <2>2. StillCounted' = StillCounted /\ Entries' = Entries
      BY <1>0, <2>1 DEF StillCounted, Entries
    <2>3. CASE replacing[c]
      <3>1. Uncounted' = Uncounted
        BY <1>0, <2>1, <2>3 DEF Uncounted
      <3> QED
        BY <2>1, <2>2, <2>3, <3>1 DEF GaugeExact
    <2>4. CASE ~replacing[c]
      <3>1. Uncounted' = Uncounted \ {c} /\ c \in Uncounted
        BY <1>0, <2>1, <2>4 DEF Uncounted
      <3>2. Cardinality(Uncounted') = Cardinality(Uncounted) - 1
        BY <1>c, <3>1, CountRemove
      <3> QED
        BY <1>0, <1>c, <2>1, <2>2, <2>4, <3>2 DEF GaugeExact
    <2> QED
      BY <2>3, <2>4
  <1>3. ASSUME NEW t \in Tasks, Remove(t)
        PROVE  GaugeExact'
    <2>0. peer[t] \in Peers
      BY <1>3 DEF Remove, IInv, LocalsInv
    <2>1. /\ UNCHANGED <<active, disturbed>> /\ pc[t] = "remove"
          /\ clients' = [clients EXCEPT ![peer[t]] = NoConn]
      BY <1>3 DEF Remove, metrics
    <2>2. CASE Registered(peer[t])
      <3>1. pc' = [pc EXCEPT ![t] = "uncount"] /\ UNCHANGED replacing
        BY <1>3, <2>2 DEF Remove, Goto
      <3>2. Uncounted' = Uncounted /\ StillCounted' = StillCounted \cup {t} /\ t \notin StillCounted
        BY <1>0, <2>1, <3>1 DEF Uncounted, StillCounted
      <3>3. Entries' = Entries \ {peer[t]} /\ peer[t] \in Entries
        BY <1>0, <2>0, <2>1, <2>2 DEF Entries
      <3>4. Cardinality(StillCounted') = Cardinality(StillCounted) + 1
        BY <1>c, <3>2, CountAdd
      <3>5. Cardinality(Entries') = Cardinality(Entries) - 1
        BY <1>c, <3>3, CountRemove
      <3> QED
        BY <1>0, <1>c, <2>1, <3>2, <3>4, <3>5 DEF GaugeExact
    <2>3. CASE ~Registered(peer[t])
      <3>1. pc' = [pc EXCEPT ![t] = "idle"] /\ replacing' = [replacing EXCEPT ![t] = FALSE]
        BY <1>3, <2>3 DEF Remove, Finish, Goto
      <3>2. Uncounted' = Uncounted /\ StillCounted' = StillCounted
        BY <1>0, <2>1, <3>1 DEF Uncounted, StillCounted
      <3>3. Entries' = Entries
        BY <1>0, <2>0, <2>1, <2>3 DEF Entries
      <3> QED
        BY <2>1, <3>2, <3>3 DEF GaugeExact
    <2> QED
      BY <2>2, <2>3
  <1>4. ASSUME NEW t \in Tasks, RemoveCount(t)
        PROVE  GaugeExact'
    <2>1. /\ UNCHANGED clients /\ Decrement
          /\ pc[t] = "uncount" /\ pc' = [pc EXCEPT ![t] = "idle"]
          /\ replacing' = [replacing EXCEPT ![t] = FALSE]
      BY <1>4 DEF RemoveCount, Finish, Goto, registry
    <2>2. Entries' = Entries /\ Uncounted' = Uncounted
          /\ StillCounted' = StillCounted \ {t} /\ t \in StillCounted
      BY <1>0, <2>1 DEF Entries, Uncounted, StillCounted
    <2>3. Cardinality(StillCounted') = Cardinality(StillCounted) - 1
      BY <1>c, <2>2, CountRemove
    <2>4. ~disturbed' => active > 0 /\ ~disturbed /\ active' = active - 1
      <3>1. ~disturbed' => ~disturbed /\ active # 0
        BY <2>1, Zenon DEF Decrement
      <3>2. active # 0 => active > 0
        BY <1>0
      <3>3. active' = IF active > 0 THEN active - 1 ELSE 0
        BY <2>1 DEF Decrement
      <3> QED
        BY <3>1, <3>2, <3>3
    <2>5. CASE disturbed'
      BY <2>5 DEF GaugeExact
    <2>6. CASE ~disturbed'
      BY <1>0, <1>c, <2>2, <2>3, <2>4, <2>6 DEF GaugeExact
    <2> QED
      BY <2>5, <2>6
  <1>5. ASSUME NEW p \in Peers, CheckEntry(p)
        PROVE  GaugeExact'
    <2>1. /\ clients' = [clients EXCEPT ![p] = NoConn] /\ clients[p] # NoConn
          /\ Decrement /\ UNCHANGED <<pc, replacing>>
      BY <1>5 DEF CheckEntry, locals
    <2>2. Uncounted' = Uncounted /\ StillCounted' = StillCounted
          /\ Entries' = Entries \ {p} /\ p \in Entries
      BY <1>0, <2>1 DEF Entries, Uncounted, StillCounted
    <2>3. Cardinality(Entries') = Cardinality(Entries) - 1
      BY <1>c, <2>2, CountRemove
    <2>4. ~disturbed' => active > 0 /\ ~disturbed /\ active' = active - 1
      <3>1. ~disturbed' => ~disturbed /\ active # 0
        BY <2>1, Zenon DEF Decrement
      <3>2. active # 0 => active > 0
        BY <1>0
      <3>3. active' = IF active > 0 THEN active - 1 ELSE 0
        BY <2>1 DEF Decrement
      <3> QED
        BY <3>1, <3>2, <3>3
    <2>5. CASE disturbed'
      BY <2>5 DEF GaugeExact
    <2>6. CASE ~disturbed'
      BY <1>0, <1>c, <2>2, <2>3, <2>4, <2>6 DEF GaugeExact
    <2> QED
      BY <2>5, <2>6
  \* the other steps touch neither the map nor the counter, and no add between
  \* the two of them
  <1>6. ASSUME UNCHANGED <<clients, active, disturbed, Uncounted, StillCounted>>
        PROVE  GaugeExact'
    BY <1>6 DEF GaugeExact, Entries
  <1>7. ASSUME NEW c \in Conns, \/ \E p \in Peers : AddLookup(c, p)
                                \/ AddNotice(c) \/ ReaderLeaves(c) \/ ReaderGone(c)
        PROVE  GaugeExact'
    <2>1. /\ UNCHANGED <<clients, active, disturbed>>
          /\ pc[c] \notin {"count", "uncount"}
          /\ \E s \in Steps \ {"count", "uncount"} : pc' = [pc EXCEPT ![c] = s]
          /\ \A d \in Conns : d # c => replacing'[d] = replacing[d]
      BY <1>0, <1>7 DEF AddLookup, AddNotice, ReaderLeaves, ReaderGone, Goto, Steps,
                        registry, metrics
    <2>2. UNCHANGED <<Uncounted, StillCounted>>
      BY <1>0, <2>1 DEF Uncounted, StillCounted
    <2> QED
      BY <1>6, <2>1, <2>2
  <1>8. ASSUME NEW t \in Tasks, \/ \E p \in Peers : SendLookup(t, p)
                                \/ SendAccepted(t) \/ SendFailed(t) \/ WriteTime(t)
        PROVE  GaugeExact'
    <2>1. /\ UNCHANGED <<clients, active, disturbed>>
          /\ pc[t] \notin {"count", "uncount"}
          /\ \E s \in Steps \ {"count", "uncount"} : pc' = [pc EXCEPT ![t] = s]
          /\ \A d \in Conns : d # t => replacing'[d] = replacing[d]
      BY <1>0, <1>8 DEF SendLookup, SendAccepted, SendFailed, WriteTime, Finish, Goto, Steps,
                        registry, metrics
    <2>2. UNCHANGED <<Uncounted, StillCounted>>
      BY <1>0, <2>1 DEF Uncounted, StillCounted
    <2> QED
      BY <1>6, <2>1, <2>2
  <1>9. ASSUME NEW t \in Callers, NEW p \in Peers, RemoveCall(t, p)
        PROVE  GaugeExact'
    <2>1. UNCHANGED <<clients, active, disturbed, replacing>> /\ pc[t] = "idle"
          /\ pc' = [pc EXCEPT ![t] = "remove"]
      BY <1>9 DEF RemoveCall, Goto, registry, metrics
    <2>2. UNCHANGED <<Uncounted, StillCounted>>
      BY <1>0, <2>1 DEF Uncounted, StillCounted
    <2> QED
      BY <1>6, <2>1, <2>2
  <1>10. (\E p \in Peers : BecomeStale(p)) \/ (\E c \in Conns : Write(c)) \/ UNCHANGED vars
           => GaugeExact'
    BY <1>6 DEF BecomeStale, Write, vars, Uncounted, StillCounted, metrics, locals, registry
  <1> QED
    BY <1>1, <1>2, <1>3, <1>4, <1>5, <1>7, <1>8, <1>9, <1>10 DEF Next, AddStep, SendStep

-----------------------------------------------------------------------------
LEMMA InitType == Init => IInv
PROOF
  <1> SUFFICES ASSUME Init PROVE IInv
    OBVIOUS
  <1>1. /\ chan \in [Conns -> Seq({"message", "disconnect"})]
        /\ \A c \in Conns : Len(chan[c]) <= BufSize
    BY DEF Init
  <1>2. \A t \in Tasks : pc[t] \in {"new", "idle"} /\ (pc[t] = "new" <=> t \in Conns)
    BY DEF Init
  <1>3. pc \in [Tasks -> Steps]
    BY DEF Init, Steps
  <1>4. TypeOK
    BY <1>1, <1>3 DEF Init, TypeOK
  <1>5. LocalsInv
    BY <1>2 DEF LocalsInv
  <1> QED
    BY <1>4, <1>5 DEF IInv

\* The types of the registry, its channels and its tasks, and the bound on
\* every connection's channel.
THEOREM TypeCorrect == Spec => []TypeOK
PROOF
  <1>1. Init => IInv
    BY InitType
  <1>2. IInv /\ [Next]_vars => IInv'
    BY TypeStep
  <1>3. IInv => TypeOK
    BY DEF IInv
  <1> QED
    BY <1>1, <1>2, <1>3, PTL DEF Spec

\* The gauge is exact for any number of peers, connections and callers, unless
\* an add found the map changed under its await or a decrement met zero.
THEOREM GaugeCorrect == Spec => []GaugeExact
PROOF
  <1>1. Init => IInv /\ GaugeExact
    <2>1. Init => IInv
      BY InitType
    <2>2. ASSUME Init
          PROVE  Entries = {} /\ Uncounted = {} /\ StillCounted = {}
      BY <2>2 DEF Init, Entries, Uncounted, StillCounted, Registered, Tasks
    <2>3. Init => GaugeExact
      BY <2>2, FS_EmptySet DEF GaugeExact, Init
    <2> QED
      BY <2>1, <2>3
  <1>2. IInv /\ GaugeExact /\ [Next]_vars => (IInv /\ GaugeExact)'
    BY TypeStep, GaugeStep
  <1> QED
    BY <1>1, <1>2, PTL DEF Spec
=============================================================================
