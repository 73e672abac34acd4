-------------------------- MODULE DiscoveryProofs ---------------------------
(***************************************************************************)
(* Proofs about Discovery: the types, the single scan, the single owner of *)
(* the connection and the permits of the probes, for any number of         *)
(* callers, addresses and permits.                                         *)
(***************************************************************************)
EXTENDS Discovery, FiniteSetTheorems, TLAPS

\* What an action of another part leaves alone.
LEMMA FlagFrame ==
  ASSUME isScanning' = isScanning, pc' = pc
  PROVE  [ScanGuard!Next]_ScanGuard!vars
  BY DEF ScanGuard!vars, Searching

LEMMA OwnerFrame ==
  ASSUME isTryConnect' = isTryConnect, holders' = holders
  PROVE  [Guard!Next]_Guard!vars
  BY DEF Guard!vars

-----------------------------------------------------------------------------
(* Types.                                                                  *)

\* Probes move between stages and leave, always one at a time and never below
\* zero.
LEMMA MoveType ==
  ASSUME NEW ip \in IPs, NEW from \in Stages, NEW to \in Stages, from # to,
         probes \in [IPs -> [Stages -> Nat]], Move(ip, from, to)
  PROVE  probes' \in [IPs -> [Stages -> Nat]]
  BY DEF Move

LEMMA LeaveType ==
  ASSUME NEW ip \in IPs, NEW from \in Stages,
         probes \in [IPs -> [Stages -> Nat]], Leave(ip, from)
  PROVE  probes' \in [IPs -> [Stages -> Nat]]
  BY DEF Leave

LEMMA NewManagerType ==
  ASSUME NewManager
  PROVE  /\ stop' \in BOOLEAN /\ permits' \in Nat
         /\ states' \in [IPs -> {"none", "connecting", "connected", "failed"}]
         /\ probes' \in [IPs -> [Stages -> Nat]]
  BY MaxConcurrentAssumption DEF NewManager, NoProbes, Untried

LEMMA TypeInit == Init => TypeOK
<1> SUFFICES ASSUME Init PROVE TypeOK
  OBVIOUS
<1>1. /\ states \in [IPs -> {"none", "connecting", "connected", "failed"}]
      /\ probes \in [IPs -> [Stages -> Nat]]
  BY DEF Init, NoProbes, Untried
<1>2. pc \in [Callers -> Places] /\ auto \in [Callers -> BOOLEAN]
  BY DEF Init, Places
<1>3. found \in [Callers -> BOOLEAN] /\ permits \in Nat
  BY MaxConcurrentAssumption DEF Init
<1> QED BY <1>1, <1>2, <1>3 DEF Init, TypeOK, Statuses

\* The calls of the application keep the types.
LEMMA TypeCall ==
  ASSUME TypeOK, NEW t \in Callers, Ask(t) \/ Decide(t) \/ Search(t) \/ Conclude(t)
  PROVE  TypeOK'
<1> USE DEF TypeOK, Goto, Places, Statuses, client, calls, manager
<1>1. CASE Ask(t)
  BY <1>1 DEF Ask, ScanAndConnect, GetInternalConnect
<1>2. CASE AlreadyConnected(t) \/ NotConnected(t)
  BY <1>2 DEF AlreadyConnected, NotConnected
<1>3. CASE DialStored(t) \/ NothingStored(t)
  BY <1>3 DEF DialStored, NothingStored
<1>4. CASE ClaimScan(t)
  BY <1>4 DEF ClaimScan
<1>5. CASE NoLocalNetwork(t)
  BY <1>5 DEF NoLocalNetwork
<1>14. CASE NetworkVanishes(t)
  BY <1>14 DEF NetworkVanishes
<1>6. CASE StartScan(t)
  BY <1>6, NewManagerType DEF StartScan
<1>7. CASE \E ip \in IPs : TakeStream(t, ip)
  BY <1>7, NewManagerType DEF TakeStream
<1>8. CASE ScanNetwork(t)
  <2>1. probes' \in [IPs -> [Stages -> Nat]]
    BY <1>8 DEF ScanNetwork, Stages
  <2> QED BY <1>8, <2>1 DEF ScanNetwork
<1>9. CASE Deadline(t)
  BY <1>9, NewManagerType DEF Deadline
<1>10. CASE ReleaseScan(t)
  BY <1>10 DEF ReleaseScan
<1>11. CASE ReportNone(t)
  BY <1>11 DEF ReportNone
<1>12. CASE HandOver(t)
  BY <1>12 DEF HandOver
<1>13. CASE DropStream(t)
  BY <1>13 DEF DropStream
<1> QED BY <1>1, <1>2, <1>3, <1>4, <1>5, <1>6, <1>7, <1>8, <1>9, <1>10, <1>11, <1>12, <1>13, <1>14
        DEF Ask, Decide, Search, Start, Conclude

\* So do the probe tasks.
LEMMA TypeProbe ==
  ASSUME TypeOK, NEW ip \in IPs, ProbeStep(ip)
  PROVE  TypeOK'
<1> USE DEF TypeOK, client, calls
<1>1. CASE Admitted(ip)
  BY <1>1, MoveType DEF Admitted, Stages
<1>2. CASE GivesUp(ip)
  BY <1>2, LeaveType DEF GivesUp, Stages
<1>3. CASE StartConnection(ip)
  BY <1>3, MoveType DEF StartConnection, Stages
<1>4. CASE ServerAnswers(ip)
  BY <1>4, MoveType DEF ServerAnswers, Stages
<1>5. CASE KeepsStream(ip)
  BY <1>5, LeaveType DEF KeepsStream, Stages
<1>6. CASE ProbeFails(ip)
  BY <1>6, LeaveType DEF ProbeFails, Stages
<1> QED BY <1>1, <1>2, <1>3, <1>4, <1>5, <1>6, ProbeStep(ip) DEF ProbeStep

\* And the other attempts and connections.
LEMMA TypeEnvironment ==
  ASSUME TypeOK, Environment
  PROVE  TypeOK'
  BY DEF Environment, Attempt, Silence, Forgotten, Established, Ended, TypeOK, Statuses,
         calls, manager

\* The types hold of every state (all of scan_manager.rs and the flags of
\* server_sender.rs:155-165); the semaphore is never overdrawn.
THEOREM TypeCorrect == Spec => []TypeOK
<1>1. TypeOK /\ [Next]_vars => TypeOK'
  <2> SUFFICES ASSUME TypeOK, [Next]_vars PROVE TypeOK'
    OBVIOUS
  <2>1. CASE UNCHANGED vars
    BY <2>1 DEF vars, TypeOK
  <2>2. CASE Next
    BY <2>2, TypeCall, TypeProbe, TypeEnvironment DEF Next
  <2> QED BY <2>1, <2>2
<1> QED BY TypeInit, <1>1, PTL DEF Spec

-----------------------------------------------------------------------------
(* One scan at a time.                                                     *)

\* A caller that moves between places of the same kind changes nothing.
LEMMA SameKind ==
  ASSUME TypeOK, isScanning' = isScanning, NEW t \in Callers, NEW step, Goto(t, step),
         t \in Searching <=> step \in {"claimed", "scanning", "release", "panicked"}
  PROVE  [ScanGuard!Next]_ScanGuard!vars
<1>1. Searching' = Searching
  BY DEF Searching, Goto, TypeOK
<1> QED BY <1>1 DEF ScanGuard!vars

\* The one that searches stops, and clears the flag with the same step.
LEMMA GivesBack ==
  ASSUME TypeOK, SingleScan, isScanning' = FALSE, NEW t \in Searching, NEW step, Goto(t, step),
         step \notin {"claimed", "scanning", "release", "panicked"}
  PROVE  [ScanGuard!Next]_ScanGuard!vars
<1>1. t \in Callers /\ Searching = {t}
  BY DEF Searching, SingleScan
<1>2. Searching' = {}
  BY <1>1 DEF Searching, Goto, TypeOK
<1> QED BY <1>1, <1>2 DEF ScanGuard!Next, ScanGuard!Release

LEMMA ScanCall ==
  ASSUME TypeOK, SingleScan, NEW t \in Callers,
         Ask(t) \/ Decide(t) \/ Search(t) \/ Conclude(t)
  PROVE  [ScanGuard!Next]_ScanGuard!vars
<1> USE DEF client, calls, manager
<1>1. CASE Ask(t)
  BY <1>1, SameKind DEF Ask, ScanAndConnect, GetInternalConnect, Searching
<1>2. CASE AlreadyConnected(t)
  BY <1>2, SameKind DEF AlreadyConnected, Searching
<1>3. CASE NotConnected(t)
  <2>1. CASE bebop /\ auto[t]
    BY <1>3, <2>1, SameKind DEF NotConnected, Searching
  <2>2. CASE ~(bebop /\ auto[t])
    BY <1>3, <2>2, SameKind DEF NotConnected, Searching
  <2> QED BY <2>1, <2>2
<1>4. CASE DialStored(t) \/ NothingStored(t)
  BY <1>4, SameKind DEF DialStored, NothingStored, Searching
<1>5. CASE ClaimScan(t)
  <2>1. CASE isScanning
    BY <1>5, <2>1, SameKind DEF ClaimScan, Searching
  <2>2. CASE ~isScanning
    <3>1. Searching = {} /\ Goto(t, "claimed")
      BY <1>5, <2>2 DEF ClaimScan, SingleScan
    <3>2. Searching' = {t}
      BY <3>1 DEF Searching, Goto, TypeOK
    <3> QED BY <1>5, <3>1, <3>2 DEF ClaimScan, ScanGuard!Next, ScanGuard!Acquire
  <2> QED BY <2>1, <2>2
<1>6. CASE NoLocalNetwork(t)
  BY <1>6, GivesBack DEF NoLocalNetwork, Searching
<1>14. CASE NetworkVanishes(t)
  BY <1>14, SameKind DEF NetworkVanishes, Searching
<1>7. CASE StartScan(t)
  BY <1>7, SameKind DEF StartScan, Searching
<1>8. CASE \E ip \in IPs : TakeStream(t, ip)
  BY <1>8, SameKind DEF TakeStream, Scanner, Searching
<1>9. CASE ScanNetwork(t)
  BY <1>9, FlagFrame DEF ScanNetwork
<1>10. CASE Deadline(t)
  BY <1>10, SameKind DEF Deadline, Scanner, Searching
<1>11. CASE ReleaseScan(t)
  <2>1. CASE found[t]
    BY <1>11, <2>1, GivesBack DEF ReleaseScan, Searching
  <2>2. CASE ~found[t]
    BY <1>11, <2>2, GivesBack DEF ReleaseScan, Searching
  <2> QED BY <2>1, <2>2
<1>12. CASE ReportNone(t)
  BY <1>12, SameKind DEF ReportNone, Searching
<1>13. CASE HandOver(t) \/ DropStream(t)
  BY <1>13, SameKind DEF HandOver, DropStream, Searching
<1> QED BY <1>1, <1>2, <1>3, <1>4, <1>5, <1>6, <1>7, <1>8, <1>9, <1>10, <1>11, <1>12, <1>13, <1>14
        DEF Ask, Decide, Search, Start, Conclude

LEMMA ScanStep ==
  ASSUME TypeOK, SingleScan, [Next]_vars
  PROVE  [ScanGuard!Next]_ScanGuard!vars
<1>1. CASE UNCHANGED vars
  BY <1>1, FlagFrame DEF vars
<1>2. ASSUME NEW t \in Callers, Ask(t) \/ Decide(t) \/ Search(t) \/ Conclude(t)
      PROVE  [ScanGuard!Next]_ScanGuard!vars
  BY <1>2, ScanCall
<1>3. ASSUME NEW ip \in IPs, ProbeStep(ip) PROVE [ScanGuard!Next]_ScanGuard!vars
  BY <1>3, FlagFrame DEF ProbeStep, Admitted, GivesUp, StartConnection, ServerAnswers,
     KeepsStream, ProbeFails, client, calls
<1>4. CASE Environment
  BY <1>4, FlagFrame DEF Environment, Attempt, Silence, Forgotten, Established, Ended, calls
<1> QED BY <1>1, <1>2, <1>3, <1>4 DEF Next

\* One scan at most, and is_scanning says whether there is one: the test and
\* set under the write lock (internal_client.rs:214-220) admits nobody twice.
THEOREM OneScan == Spec => []SingleScan
<1>1. Init => SingleScan
  BY DEF Init, SingleScan, Searching
<1>2. TypeOK /\ SingleScan /\ [Next]_vars => SingleScan'
  <2> SUFFICES ASSUME TypeOK, SingleScan, [Next]_vars PROVE SingleScan'
    OBVIOUS
  <2>1. [ScanGuard!Next]_ScanGuard!vars
    BY ScanStep
  <2> QED BY <2>1 DEF SingleScan, ScanGuard!Next, ScanGuard!Acquire, ScanGuard!Release,
             ScanGuard!vars
<1> QED BY TypeCorrect, <1>1, <1>2, PTL DEF Spec

\* is_scanning is a FlagGuard of the callers: the scan stays with the caller that
\* claimed it through every way a search can end, and only that caller clears it.
THEOREM ScanGuardImplemented == Spec => ImplementsScanGuard
<1>1. Init => ScanGuard!Init
  BY DEF Init, ScanGuard!Init, Searching
<1>2. TypeOK /\ SingleScan /\ [Next]_vars => [ScanGuard!Next]_ScanGuard!vars
  BY ScanStep
<1> QED BY TypeCorrect, OneScan, <1>1, <1>2, PTL DEF Spec, ImplementsScanGuard, ScanGuard!Spec

-----------------------------------------------------------------------------
(* One owner of the connection.                                            *)

LEMMA OwnerCall ==
  ASSUME OneOwner, NEW t \in Callers,
         Ask(t) \/ Decide(t) \/ Search(t) \/ Conclude(t)
  PROVE  [Guard!Next]_Guard!vars
<1> USE DEF client, calls, manager
<1>1. CASE Ask(t) \/ Decide(t)
  BY <1>1, OwnerFrame DEF Ask, Decide, ScanAndConnect, GetInternalConnect, AlreadyConnected,
     NotConnected, DialStored, NothingStored, ClaimScan
<1>2. CASE Search(t)
  BY <1>2, OwnerFrame DEF Search, Start, NoLocalNetwork, NetworkVanishes, StartScan, TakeStream, ScanNetwork, Deadline
<1>3. CASE HandOver(t)
  BY <1>3 DEF HandOver, OneOwner, Guard!Next, Guard!Acquire
<1>4. CASE ReleaseScan(t) \/ ReportNone(t) \/ DropStream(t)
  BY <1>4, OwnerFrame DEF ReleaseScan, ReportNone, DropStream
<1> QED BY <1>1, <1>2, <1>3, <1>4 DEF Conclude

LEMMA OwnerStep ==
  ASSUME OneOwner, [Next]_vars
  PROVE  [Guard!Next]_Guard!vars
<1>1. CASE UNCHANGED vars
  BY <1>1, OwnerFrame DEF vars
<1>2. ASSUME NEW t \in Callers, Ask(t) \/ Decide(t) \/ Search(t) \/ Conclude(t)
      PROVE  [Guard!Next]_Guard!vars
  BY <1>2, OwnerCall
<1>3. ASSUME NEW ip \in IPs, ProbeStep(ip) PROVE [Guard!Next]_Guard!vars
  BY <1>3, OwnerFrame DEF ProbeStep, Admitted, GivesUp, StartConnection, ServerAnswers,
     KeepsStream, ProbeFails, client, calls
<1>4. CASE Silence \/ Forgotten
  BY <1>4, OwnerFrame DEF Silence, Forgotten
<1>5. CASE Attempt
  BY <1>5 DEF Attempt, OneOwner, Guard!Next, Guard!Acquire
<1>6. ASSUME NEW h \in Callers \cup {Other}, Established(h) PROVE [Guard!Next]_Guard!vars
  BY <1>6, OwnerFrame DEF Established
<1>7. ASSUME NEW h \in Callers \cup {Other}, Ended(h) PROVE [Guard!Next]_Guard!vars
  BY <1>7 DEF Ended, OneOwner, Guard!Next, Guard!Release
<1> QED BY <1>1, <1>2, <1>3, <1>4, <1>5, <1>6, <1>7 DEF Next, Environment

\* A stream that a scan found is handed over under the guard
\* (internal_client.rs:242-251), so it never joins an attempt under way.
THEOREM NoSecondOwner == Spec => []OneOwner
<1>1. Init => OneOwner
  BY DEF Init, OneOwner
<1>2. OneOwner /\ [Next]_vars => OneOwner'
  <2> SUFFICES ASSUME OneOwner, [Next]_vars PROVE OneOwner'
    OBVIOUS
  <2>1. [Guard!Next]_Guard!vars
    BY OwnerStep
  <2> QED BY <2>1 DEF OneOwner, Guard!Next, Guard!Acquire, Guard!Release, Guard!vars
<1> QED BY <1>1, <1>2, PTL DEF Spec

\* What a scan does with is_try_connect is what FlagGuard allows, as it is for
\* the attempts of ClientConnection: the two share the flag on these terms.
THEOREM GuardImplemented == Spec => ImplementsGuard
<1>1. Init => Guard!Init
  BY DEF Init, Guard!Init
<1>2. OneOwner /\ [Next]_vars => [Guard!Next]_Guard!vars
  BY OwnerStep
<1> QED BY NoSecondOwner, <1>1, <1>2, PTL DEF Spec, ImplementsGuard, Guard!Spec

-----------------------------------------------------------------------------
(* Permits.  A permit that a probe holds is numbered within its address,   *)
(* so that taking one adds a pair to InUse and returning one removes a     *)
(* pair; that InUse is finite is part of the invariant.                    *)

Permits == IsFiniteSet(InUse) /\ WithinConcurrency

LEMMA UsedType ==
  ASSUME TypeOK
  PROVE  \A ip \in IPs : Used(ip) \in Nat
  BY DEF TypeOK, Used, Stages

\* No probe of any address took or returned a permit.
LEMMA NoneMoved ==
  ASSUME \A ip \in IPs : Used(ip)' = Used(ip), permits' = permits, Permits
  PROVE  Permits'
<1>1. InUse' = InUse
  BY DEF InUse
<1> QED BY <1>1 DEF Permits, WithinConcurrency

\* A probe took one.
LEMMA OneTaken ==
  ASSUME TypeOK, NEW ip \in IPs, Used(ip)' = Used(ip) + 1,
         \A other \in IPs \ {ip} : Used(other)' = Used(other),
         permits' = permits - 1, Permits
  PROVE  Permits'
<1> DEFINE one == <<ip, Used(ip) + 1>>
<1>1. InUse' = InUse \cup {one} /\ one \notin InUse
  <2>1. \A n : n \in 1..(Used(ip) + 1) <=> n \in 1..Used(ip) \/ n = Used(ip) + 1
    BY UsedType
  <2>2. Used(ip) + 1 \notin 1..Used(ip)
    BY UsedType
  <2>3. ASSUME NEW pair PROVE pair \in InUse' <=> pair \in InUse \/ pair = one
    BY <2>1 DEF InUse
  <2>4. one \notin InUse
    BY <2>2 DEF InUse
  <2> QED BY <2>3, <2>4
<1> HIDE DEF one
<1>2. IsFiniteSet(InUse') /\ Cardinality(InUse') = Cardinality(InUse) + 1
  BY <1>1, FS_AddElement DEF Permits
<1>3. Cardinality(InUse) \in Nat
  BY FS_CardinalityType DEF Permits
<1> QED BY <1>2, <1>3, MaxConcurrentAssumption DEF Permits, WithinConcurrency, TypeOK

\* A probe returned one.
LEMMA OneReturned ==
  ASSUME TypeOK, NEW ip \in IPs, Used(ip) > 0, Used(ip)' = Used(ip) - 1,
         \A other \in IPs \ {ip} : Used(other)' = Used(other),
         permits' = permits + 1, Permits
  PROVE  Permits'
<1> DEFINE one == <<ip, Used(ip)>>
<1>1. InUse' = InUse \ {one} /\ one \in InUse
  <2>1. \A n : n \in 1..(Used(ip) - 1) <=> n \in 1..Used(ip) /\ n # Used(ip)
    BY UsedType
  <2>2. Used(ip) \in 1..Used(ip)
    BY UsedType
  <2>3. ASSUME NEW pair PROVE pair \in InUse' <=> pair \in InUse /\ pair # one
    BY <2>1 DEF InUse
  <2>4. one \in InUse
    BY <2>2 DEF InUse
  <2> QED BY <2>3, <2>4
<1> HIDE DEF one
<1>2. IsFiniteSet(InUse') /\ Cardinality(InUse') = Cardinality(InUse) - 1
  BY <1>1, FS_RemoveElement DEF Permits
<1>3. Cardinality(InUse) \in Nat
  BY FS_CardinalityType DEF Permits
<1> QED BY <1>2, <1>3, MaxConcurrentAssumption DEF Permits, WithinConcurrency, TypeOK

\* A manager that starts has all its permits.
LEMMA AllReturned ==
  ASSUME NewManager
  PROVE  Permits'
<1>1. \A ip \in IPs : Used(ip)' = 0
  BY DEF NewManager, NoProbes, Used, Stages
<1>2. InUse' = {}
  BY <1>1 DEF InUse
<1> QED BY <1>2, FS_EmptySet, MaxConcurrentAssumption
        DEF NewManager, Permits, WithinConcurrency

\* What the stages of a probe's move do to the permits it holds.
LEMMA PermitProbe ==
  ASSUME TypeOK, Permits, NEW ip \in IPs, ProbeStep(ip)
  PROVE  Permits'
<1> USE DEF TypeOK, Stages
<1>1. CASE Admitted(ip)
  <2>1. Used(ip)' = Used(ip) + 1 /\ \A other \in IPs \ {ip} : Used(other)' = Used(other)
    BY <1>1 DEF Admitted, Move, Used
  <2> QED BY <1>1, <2>1, OneTaken DEF Admitted
<1>2. CASE GivesUp(ip)
  <2>1. \A other \in IPs : Used(other)' = Used(other)
    BY <1>2 DEF GivesUp, Leave, Used
  <2> QED BY <1>2, <2>1, NoneMoved DEF GivesUp
<1>3. CASE StartConnection(ip) \/ ServerAnswers(ip)
  <2>1. \A other \in IPs : Used(other)' = Used(other)
    BY <1>3 DEF StartConnection, ServerAnswers, Move, Used
  <2> QED BY <1>3, <2>1, NoneMoved DEF StartConnection, ServerAnswers
<1>4. CASE KeepsStream(ip) \/ ProbeFails(ip)
  <2>1. Used(ip) > 0 /\ Used(ip)' = Used(ip) - 1
        /\ \A other \in IPs \ {ip} : Used(other)' = Used(other)
    BY <1>4 DEF KeepsStream, ProbeFails, Leave, Used
  <2> QED BY <1>4, <2>1, OneReturned DEF KeepsStream, ProbeFails
<1> QED BY <1>1, <1>2, <1>3, <1>4 DEF ProbeStep

LEMMA PermitCall ==
  ASSUME TypeOK, Permits, NEW t \in Callers,
         Ask(t) \/ Decide(t) \/ Search(t) \/ Conclude(t)
  PROVE  Permits'
<1>1. CASE Ask(t) \/ Decide(t) \/ Conclude(t) \/ NoLocalNetwork(t) \/ NetworkVanishes(t)
  <2>1. probes' = probes /\ permits' = permits
    BY <1>1 DEF Ask, Decide, Conclude, ScanAndConnect, GetInternalConnect, AlreadyConnected,
       NotConnected, DialStored, NothingStored, ClaimScan, NoLocalNetwork, NetworkVanishes, ReleaseScan,
       ReportNone, HandOver, DropStream, manager
  <2> QED BY <2>1, NoneMoved DEF Used
<1>2. CASE ScanNetwork(t)
  <2>1. \A ip \in IPs : Used(ip)' = Used(ip)
    BY <1>2 DEF ScanNetwork, Used, TypeOK, Stages
  <2> QED BY <1>2, <2>1, NoneMoved DEF ScanNetwork
<1>3. CASE StartScan(t) \/ Deadline(t) \/ \E ip \in IPs : TakeStream(t, ip)
  BY <1>3, AllReturned DEF StartScan, Deadline, TakeStream
<1> QED BY <1>1, <1>2, <1>3 DEF Search, Start

\* The probes between start_connection and end_connection are as many as the
\* permits the semaphore is short of, however a probe ends and however often an
\* address is spawned again (scan_manager.rs:78-120).
THEOREM ProbesWithinLimit == Spec => []WithinConcurrency
<1>1. Init => Permits
  <2> SUFFICES ASSUME Init PROVE Permits
    OBVIOUS
  <2>1. \A ip \in IPs : Used(ip) = 0
    BY DEF Init, NoProbes, Used, Stages
  <2>2. InUse = {}
    BY <2>1 DEF InUse
  <2> QED BY <2>2, FS_EmptySet, MaxConcurrentAssumption DEF Init, Permits, WithinConcurrency
<1>2. TypeOK /\ Permits /\ [Next]_vars => Permits'
  <2> SUFFICES ASSUME TypeOK, Permits, [Next]_vars PROVE Permits'
    OBVIOUS
  <2>1. CASE UNCHANGED vars \/ Environment
    <3>1. probes' = probes /\ permits' = permits
      BY <2>1 DEF vars, Environment, Attempt, Silence, Forgotten, Established, Ended, manager
    <3> QED BY <3>1, NoneMoved DEF Used
  <2> QED BY <2>1, PermitCall, PermitProbe DEF Next
<1>3. Permits => WithinConcurrency
  BY DEF Permits
<1> QED BY TypeCorrect, <1>1, <1>2, <1>3, PTL DEF Spec
=============================================================================
