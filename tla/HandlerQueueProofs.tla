------------------------- MODULE HandlerQueueProofs -------------------------
(***************************************************************************)
(* Proofs about HandlerQueue, for any readers, capacities and number of    *)
(* messages: types, per-peer order, that every message is accounted for,   *)
(* and that it implements HandlerFifo.                                     *)
(***************************************************************************)
EXTENDS HandlerQueue, FiniteSetTheorems, SequenceTheorems, TLAPS

-----------------------------------------------------------------------------
(* Two facts about moving a message from one queue to the next.            *)

\* Moving the head of t to the end of s leaves their concatenation as it was:
\* what DrainOne does with the buffers, and Recv with history and channel.
LEMMA MoveHead ==
  ASSUME NEW S, NEW s \in Seq(S), NEW t \in Seq(S), t # <<>>
  PROVE  /\ Append(s, Head(t)) \o Tail(t) = s \o t
         /\ Head(t) \in S
         /\ Tail(t) \in Seq(S) /\ Len(Tail(t)) = Len(t) - 1
PROOF
  <1>1. /\ Head(t) \in S /\ Tail(t) \in Seq(S) /\ Len(t) > 0
        /\ Len(Tail(t)) = Len(t) - 1
    BY SMT
  <1>2. Append(s, Head(t)) \in Seq(S)
    BY <1>1
  <1>3. Len(Append(s, Head(t)) \o Tail(t)) = Len(s \o t)
    BY <1>1, <1>2
  <1>4. ASSUME NEW i \in 1..Len(s \o t)
        PROVE  (Append(s, Head(t)) \o Tail(t))[i] = (s \o t)[i]
    BY <1>1, <1>2
  <1>5. QED
    BY <1>1, <1>2, <1>3, <1>4, SMT

\* Appending to the second of two queues appends to their concatenation.
LEMMA AppendSecond ==
  ASSUME NEW S, NEW s \in Seq(S), NEW t \in Seq(S), NEW m \in S
  PROVE  s \o Append(t, m) = Append(s \o t, m)
PROOF
  BY SMT

\* Dropping the middle of a queue keeps what precedes and follows it in order.
LEMMA DropMiddle ==
  ASSUME NEW S, NEW s \in Seq(S), NEW t \in Seq(S), NEW u \in Seq(S),
         NEW i \in 1..Len(s \o u)
  PROVE  LET k == IF i <= Len(s) THEN i ELSE i + Len(t)
         IN  k \in 1..Len((s \o t) \o u) /\ ((s \o t) \o u)[k] = (s \o u)[i]
PROOF
  BY SMT

-----------------------------------------------------------------------------
(* The inductive invariant.  Order alone is not inductive: a message that   *)
(* is appended must be newer than what its reader has in the pipeline       *)
(* (Behind), and a direct send must find the spillover buffer empty, which  *)
(* only the mutex guarantees between the drain loop and the send (MutexInv).*)

MutexInv ==
  \A r \in Readers : /\ pc[r] \in InMutex => guard = r
                     /\ pc[r] = "direct" => spillover = <<>>

SentInv ==
  \A r \in Readers : /\ sent[r] <= received
                     /\ pc[r] # "reading" => sent[r] > 0

Behind ==
  \A i \in 1..Len(Pipeline) :
    LET m == Pipeline[i] IN
      /\ m[2] <= sent[m[1]]
      /\ pc[m[1]] # "reading" => m[2] < sent[m[1]]

IInv == TypeOK /\ MutexInv /\ SentInv /\ Behind /\ PeerOrder

USE ChannelCapAssumption, SpillCapAssumption, NoReaderAssumption, MaxMessagesAssumption

\* The message of a reader inside a call is a message.
LEMMA MessageType ==
  ASSUME IInv, NEW r \in Readers, pc[r] # "reading"
  PROVE  Message(r) \in Messages
PROOF
  BY DEF IInv, TypeOK, SentInv, Message, Messages

\* What a step does to the pipeline: nothing, one newer message at its end, or
\* (DropReceiver) its middle is lost.
LEMMA PipelineStep ==
  ASSUME IInv, [Next]_vars
  PROVE  /\ Pipeline \in Seq(Messages)
         /\ \/ Pipeline' = Pipeline
            \/ \E r \in Readers : /\ pc[r] # "reading" /\ pc'[r] = "reading"
                                  /\ Pipeline' = Append(Pipeline, Message(r))
                                  /\ UNCHANGED sent
            \/ DropReceiver
PROOF
  <1> USE DEF IInv, TypeOK, Pipeline
  <1>0. Pipeline \in Seq(Messages)
    BY SMT
  <1>1. ASSUME NEW r \in Readers, DrainOne(r)
        PROVE  Pipeline' = Pipeline
    <2>1. /\ delivered \in Seq(Messages) /\ channel \in Seq(Messages)
          /\ spillover \in Seq(Messages) /\ spillover # <<>>
          /\ delivered' = delivered
          /\ channel' = Append(channel, Head(spillover)) /\ spillover' = Tail(spillover)
      BY <1>1 DEF DrainOne
    <2>2. channel' \o spillover' = channel \o spillover
      BY ONLY <2>1, MoveHead
    <2>3. delivered' \in Seq(Messages) /\ channel' \in Seq(Messages)
          /\ spillover' \in Seq(Messages)
      BY ONLY <2>1, SMT
    <2>4. (delivered \o channel) \o spillover = delivered \o (channel \o spillover)
      BY ONLY <2>1, SMT
    <2>5. (delivered' \o channel') \o spillover' = delivered' \o (channel' \o spillover')
      BY ONLY <2>3, SMT
    <2> QED
      BY ONLY <2>1, <2>2, <2>4, <2>5 DEF Pipeline
  <1>2. ASSUME NEW r \in Readers, DirectSend(r) \/ Buffer(r)
        PROVE  \/ Pipeline' = Pipeline
               \/ /\ pc[r] # "reading" /\ pc'[r] = "reading"
                  /\ Pipeline' = Append(Pipeline, Message(r))
                  /\ UNCHANGED sent
    <2>1. /\ pc[r] # "reading" /\ pc'[r] = "reading" /\ UNCHANGED <<sent, delivered>>
      BY <1>2 DEF DirectSend, Buffer, Return
    <2>2. Message(r) \in Messages
      BY <2>1, MessageType
    <2>0. /\ delivered \in Seq(Messages) /\ channel \in Seq(Messages)
          /\ spillover \in Seq(Messages)
      OBVIOUS
    <2>3. CASE spillover' = Append(spillover, Message(r)) /\ channel' = channel
      <3>1. delivered \o channel \in Seq(Messages)
        BY ONLY <2>0, SMT
      <3>2. (delivered \o channel) \o Append(spillover, Message(r))
              = Append((delivered \o channel) \o spillover, Message(r))
        BY ONLY <3>1, <2>0, <2>2, AppendSecond
      <3> QED
        BY ONLY <3>2, <2>1, <2>3, Zenon DEF Pipeline
    <2>4. CASE channel' = Append(channel, Message(r)) /\ spillover' = spillover
                /\ spillover = <<>>
      <3>1. delivered \o Append(channel, Message(r)) = Append(delivered \o channel, Message(r))
        BY ONLY <2>0, <2>2, AppendSecond
      <3>2. (delivered \o channel) \o <<>> = delivered \o channel
        BY ONLY <2>0, SMT
      <3>3. Append(delivered \o channel, Message(r)) \o <<>>
              = Append(delivered \o channel, Message(r))
        BY ONLY <2>0, <2>2, SMT
      <3> QED
        BY ONLY <3>1, <3>2, <3>3, <2>1, <2>4, Zenon DEF Pipeline
    <2>5. CASE UNCHANGED <<channel, spillover>>
      BY <2>1, <2>5
    <2> QED
      BY <1>2, <2>3, <2>4, <2>5 DEF DirectSend, Buffer, PushOrDrop, MutexInv
  <1>3. ASSUME Recv
        PROVE  Pipeline' = Pipeline
    <2>0. /\ delivered \in Seq(Messages) /\ channel \in Seq(Messages) /\ channel # <<>>
          /\ delivered' = Append(delivered, Head(channel)) /\ channel' = Tail(channel)
      BY <1>3 DEF Recv
    <2>1. delivered' \o channel' = delivered \o channel
      BY ONLY <2>0, MoveHead
    <2> QED
      BY <2>1, <1>3 DEF Recv
  <1>4. ASSUME NEW r \in Readers, Receive(r) \/ LockSpillover(r) \/ DrainEnd(r)
        PROVE  Pipeline' = Pipeline
    BY <1>4 DEF Receive, LockSpillover, DrainEnd
  <1>5. TakeReceiver \/ UNCHANGED vars => Pipeline' = Pipeline
    BY DEF TakeReceiver, vars
  <1> QED
    BY <1>0, <1>1, <1>2, <1>3, <1>4, <1>5 DEF Next, Call

\* The conjuncts other than order.
LEMMA TypeStep ==
  ASSUME IInv, [Next]_vars
  PROVE  TypeOK' /\ MutexInv' /\ SentInv'
PROOF
  <1> USE DEF IInv, TypeOK, MutexInv, SentInv, States, InMutex
  <1>1. ASSUME NEW r \in Readers, Receive(r)
        PROVE  TypeOK' /\ MutexInv' /\ SentInv'
    BY <1>1 DEF Receive
  <1>2. ASSUME NEW r \in Readers, LockSpillover(r)
        PROVE  TypeOK' /\ MutexInv' /\ SentInv'
    BY <1>2 DEF LockSpillover
  <1>3. ASSUME NEW r \in Readers, DrainOne(r)
        PROVE  TypeOK' /\ MutexInv' /\ SentInv'
    <2>1. spillover # <<>> /\ Len(channel) < ChannelCap
          /\ channel' = Append(channel, Head(spillover)) /\ spillover' = Tail(spillover)
      BY <1>3 DEF DrainOne, HasRoom
    <2>2. /\ channel' \in Seq(Messages) /\ Len(channel') <= ChannelCap
          /\ spillover' \in Seq(Messages) /\ Len(spillover') <= SpillCap
      BY <2>1
    <2>3. pc[r] = "draining" /\ guard = r
      BY <1>3 DEF DrainOne
    <2> QED
      BY <2>2, <2>3, <1>3 DEF DrainOne
  <1>4. ASSUME NEW r \in Readers, DrainEnd(r)
        PROVE  TypeOK' /\ MutexInv' /\ SentInv'
    BY <1>4 DEF DrainEnd
  <1>5. ASSUME NEW r \in Readers, DirectSend(r) \/ Buffer(r)
        PROVE  TypeOK' /\ MutexInv' /\ SentInv'
    <2>1. /\ pc[r] \in InMutex /\ Return(r)
          /\ UNCHANGED <<receiver, received, sent, delivered, discarded>>
      BY <1>5 DEF DirectSend, Buffer
    <2>2. Message(r) \in Messages
      BY <2>1, MessageType
    <2>3. /\ channel' \in Seq(Messages) /\ Len(channel') <= ChannelCap
          /\ spillover' \in Seq(Messages) /\ Len(spillover') <= SpillCap
          /\ dropped' \in Nat /\ refused' \in Nat
      <3>1. CASE HasRoom /\ channel' = Append(channel, Message(r))
                 /\ UNCHANGED <<spillover, dropped, refused>>
        BY <2>2, <3>1 DEF HasRoom
      <3>2. CASE PushOrDrop(r) /\ UNCHANGED <<channel, refused>>
        <4>1. CASE Len(spillover) < SpillCap /\ spillover' = Append(spillover, Message(r))
                   /\ UNCHANGED dropped
          <5>1. spillover' \in Seq(Messages) /\ Len(spillover') = Len(spillover) + 1
            BY <2>2, <4>1
          <5> QED
            BY <3>2, <4>1, <5>1
        <4>2. CASE dropped' = dropped + 1 /\ UNCHANGED spillover
          BY <3>2, <4>2
        <4> QED
          BY <3>2, <4>1, <4>2 DEF PushOrDrop
      <3>3. CASE refused' = refused + 1 /\ UNCHANGED <<channel, spillover, dropped>>
        BY <3>3
      <3> QED
        BY <1>5, <3>1, <3>2, <3>3 DEF DirectSend, Buffer
    <2>4. MutexInv'
      BY <2>1 DEF Return
    <2> QED
      BY <2>1, <2>3, <2>4 DEF Return
  <1>6. ASSUME Recv
        PROVE  TypeOK' /\ MutexInv' /\ SentInv'
    <2>0. /\ channel \in Seq(Messages) /\ Len(channel) <= ChannelCap /\ channel # <<>>
          /\ delivered \in Seq(Messages)
          /\ delivered' = Append(delivered, Head(channel)) /\ channel' = Tail(channel)
      BY <1>6 DEF Recv
    <2>1. /\ channel' \in Seq(Messages) /\ Len(channel') <= ChannelCap
          /\ delivered' \in Seq(Messages)
      <3>1. /\ Head(channel) \in Messages /\ Tail(channel) \in Seq(Messages)
            /\ Len(Tail(channel)) = Len(channel) - 1
        BY ONLY <2>0, MoveHead
      <3> QED
        BY ONLY <2>0, <3>1, ChannelCapAssumption, SMT
    <2> QED
      BY <2>1, <1>6 DEF Recv
  <1>7. CASE TakeReceiver
    BY <1>7 DEF TakeReceiver
  <1>8. CASE DropReceiver
    <2>1. channel' \in Seq(Messages) /\ Len(channel') <= ChannelCap /\ discarded' \in Nat
      BY <1>8 DEF DropReceiver
    <2> QED
      BY <2>1, <1>8 DEF DropReceiver
  <1>9. CASE UNCHANGED vars
    BY <1>9 DEF vars
  <1> QED
    BY <1>1, <1>2, <1>3, <1>4, <1>5, <1>6, <1>7, <1>8, <1>9 DEF Next, Call

\* A message newer than all its reader has in the pipeline keeps it in order;
\* losing the middle of the pipeline does too.
LEMMA OrderStep ==
  ASSUME IInv, [Next]_vars
  PROVE  Behind' /\ PeerOrder'
PROOF
  <1>0. /\ Pipeline \in Seq(Messages) /\ sent \in [Readers -> Nat] /\ pc \in [Readers -> States]
        /\ \A i \in 1..Len(Pipeline) : /\ Pipeline[i] \in Messages
                                       /\ Pipeline[i][1] \in Readers /\ Pipeline[i][2] \in Nat
    <2>1. Pipeline \in Seq(Messages) /\ sent \in [Readers -> Nat] /\ pc \in [Readers -> States]
      BY PipelineStep DEF IInv, TypeOK
    <2>2. \A m \in Messages : m[1] \in Readers /\ m[2] \in Nat
      BY DEF Messages
    <2>3. \A i \in 1..Len(Pipeline) : Pipeline[i] \in Messages
      BY ONLY <2>1, SMT
    <2> QED
      BY ONLY <2>1, <2>2, <2>3
  <1>1. \/ Pipeline' = Pipeline
        \/ \E r \in Readers : /\ pc[r] # "reading" /\ pc'[r] = "reading"
                              /\ Pipeline' = Append(Pipeline, Message(r))
                              /\ UNCHANGED sent
        \/ DropReceiver
    BY PipelineStep
  \* sent only grows, and a reader that enters a call has just made it grow
  <1>2. \A r \in Readers : /\ sent'[r] \in Nat /\ sent'[r] >= sent[r]
                           /\ pc'[r] # "reading" => sent'[r] > sent[r] \/ pc[r] # "reading"
    <2>1. ASSUME NEW q \in Readers, Receive(q)
          PROVE  \A r \in Readers : /\ sent'[r] \in Nat /\ sent'[r] >= sent[r]
                                    /\ pc'[r] # "reading" => sent'[r] > sent[r] \/ pc[r] # "reading"
      BY <1>0, <2>1 DEF Receive
    <2>2. ASSUME NEW q \in Readers, Call(q)
          PROVE  UNCHANGED sent /\ \A r \in Readers : pc'[r] # "reading" => pc[r] # "reading"
      BY <1>0, <2>2 DEF Call, LockSpillover, DrainOne, DrainEnd, DirectSend, Buffer, Return
    <2>3. ASSUME TakeReceiver \/ Recv \/ DropReceiver \/ UNCHANGED vars
          PROVE  UNCHANGED <<sent, pc>>
      BY <2>3 DEF TakeReceiver, Recv, DropReceiver, vars
    <2> QED
      BY <1>0, <2>1, <2>2, <2>3 DEF Next
  <1>3. CASE Pipeline' = Pipeline
    <2>1. Behind'
      <3> SUFFICES ASSUME NEW i \in 1..Len(Pipeline')
                   PROVE  /\ Pipeline'[i][2] <= sent'[Pipeline'[i][1]]
                          /\ pc'[Pipeline'[i][1]] # "reading"
                               => Pipeline'[i][2] < sent'[Pipeline'[i][1]]
        BY DEF Behind
      <3> DEFINE r == Pipeline[i][1]
                 n == Pipeline[i][2]
      <3>1. Pipeline'[i][1] = r /\ Pipeline'[i][2] = n /\ i \in 1..Len(Pipeline)
        BY <1>3
      <3>2. r \in Readers /\ n \in Nat
        BY <1>0, <3>1
      <3>3. n <= sent[r] /\ (pc[r] # "reading" => n < sent[r])
        BY <3>1 DEF IInv, Behind
      <3> HIDE DEF r, n
      <3>4. /\ sent[r] \in Nat /\ sent'[r] \in Nat /\ sent'[r] >= sent[r]
            /\ pc'[r] # "reading" => sent'[r] > sent[r] \/ pc[r] # "reading"
        BY <1>0, <1>2, <3>2
      <3>5. n <= sent'[r] /\ (pc'[r] # "reading" => n < sent'[r])
        BY ONLY <3>2, <3>3, <3>4, SMT
      <3> QED
        BY ONLY <3>1, <3>5
    <2>2. PeerOrder'
      BY <1>3 DEF IInv, PeerOrder
    <2> QED
      BY <2>1, <2>2
  <1>4. ASSUME NEW r \in Readers, pc[r] # "reading", pc'[r] = "reading",
               Pipeline' = Append(Pipeline, Message(r)), UNCHANGED sent
        PROVE  Behind' /\ PeerOrder'
    <2>1. /\ Len(Pipeline') = Len(Pipeline) + 1
          /\ \A i \in 1..Len(Pipeline) : Pipeline'[i] = Pipeline[i]
          /\ Pipeline'[Len(Pipeline) + 1] = Message(r)
      BY <1>0, <1>4, MessageType
    <2>2. Message(r)[1] = r /\ Message(r)[2] = sent[r]
      BY DEF Message
    <2>3. Behind'
      BY <1>0, <1>2, <1>4, <2>1, <2>2 DEF IInv, Behind
    <2>4. PeerOrder'
      <3> SUFFICES ASSUME NEW i \in 1..Len(Pipeline'), NEW j \in 1..Len(Pipeline'),
                          i < j, Pipeline'[i][1] = Pipeline'[j][1]
                   PROVE  Pipeline'[i][2] < Pipeline'[j][2]
        BY DEF PeerOrder
      <3>1. i \in 1..Len(Pipeline) /\ Pipeline'[i] = Pipeline[i]
        BY <1>0, <2>1
      <3>2. CASE j \in 1..Len(Pipeline)
        BY <3>1, <3>2, <2>1 DEF IInv, PeerOrder
      <3>3. CASE j = Len(Pipeline) + 1
        BY <3>1, <3>3, <2>1, <2>2, <1>4 DEF IInv, Behind
      <3> QED
        BY <1>0, <2>1, <3>2, <3>3
    <2> QED
      BY <2>3, <2>4
  <1>5. CASE DropReceiver
    <2> DEFINE At(i) == IF i <= Len(delivered) THEN i ELSE i + Len(channel)
    <2>1. /\ delivered \in Seq(Messages) /\ channel \in Seq(Messages) /\ spillover \in Seq(Messages)
          /\ Pipeline = (delivered \o channel) \o spillover
          /\ Pipeline' = delivered \o spillover
          /\ UNCHANGED <<sent, pc>>
      BY <1>5 DEF IInv, TypeOK, Pipeline, DropReceiver
    <2>2. Len(Pipeline') \in Nat
          /\ \A i \in 1..Len(Pipeline') : /\ At(i) \in 1..Len(Pipeline)
                                          /\ Pipeline[At(i)] = Pipeline'[i]
      BY ONLY <2>1, DropMiddle, SMT
    <2>3. \A i, j \in 1..Len(Pipeline') : i < j => At(i) < At(j)
      BY <2>1, <2>2
    <2> HIDE DEF At
    <2>4. Behind'
      <3> SUFFICES ASSUME NEW i \in 1..Len(Pipeline')
                   PROVE  /\ Pipeline'[i][2] <= sent'[Pipeline'[i][1]]
                          /\ pc'[Pipeline'[i][1]] # "reading"
                               => Pipeline'[i][2] < sent'[Pipeline'[i][1]]
        BY DEF Behind
      <3> DEFINE m == Pipeline[At(i)]
      <3>1. At(i) \in 1..Len(Pipeline) /\ m = Pipeline'[i]
        BY <2>2
      <3>2. m[2] <= sent[m[1]] /\ (pc[m[1]] # "reading" => m[2] < sent[m[1]])
        BY <3>1, Zenon DEF IInv, Behind
      <3> QED
        BY ONLY <3>1, <3>2, <2>1, Zenon
    <2>5. PeerOrder'
      <3> SUFFICES ASSUME NEW i \in 1..Len(Pipeline'), NEW j \in 1..Len(Pipeline'),
                          i < j, Pipeline'[i][1] = Pipeline'[j][1]
                   PROVE  Pipeline'[i][2] < Pipeline'[j][2]
        BY DEF PeerOrder
      <3>1. /\ At(i) \in 1..Len(Pipeline) /\ At(j) \in 1..Len(Pipeline)
            /\ Pipeline[At(i)] = Pipeline'[i] /\ Pipeline[At(j)] = Pipeline'[j]
        BY <2>2
      <3>2. At(i) < At(j)
        BY <2>3
      <3>3. \A a, b \in 1..Len(Pipeline) :
              a < b /\ Pipeline[a][1] = Pipeline[b][1] => Pipeline[a][2] < Pipeline[b][2]
        BY Zenon DEF IInv, PeerOrder
      <3>4. Pipeline[At(i)][1] = Pipeline[At(j)][1]
        BY <3>1
      <3>5. Pipeline[At(i)][2] < Pipeline[At(j)][2]
        BY ONLY <3>1, <3>2, <3>3, <3>4, Zenon
      <3> QED
        BY <3>1, <3>5
    <2> QED
      BY <2>4, <2>5
  <1> QED
    BY <1>1, <1>3, <1>4, <1>5

LEMMA Inductive == Spec => []IInv
PROOF
  <1>1. Init => IInv
    BY DEF Init, IInv, TypeOK, MutexInv, SentInv, Behind, PeerOrder, Pipeline, States, InMutex
  <1>2. IInv /\ [Next]_vars => IInv'
    BY TypeStep, OrderStep DEF IInv
  <1> QED
    BY <1>1, <1>2, PTL DEF Spec

\* The types, and the caps of the channel and the spillover buffer.
THEOREM TypeCorrect == Spec => []TypeOK
PROOF
  <1>1. IInv => TypeOK
    BY DEF IInv
  <1> QED
    BY <1>1, Inductive, PTL

\* Each peer's messages reach the application in the order they were read and
\* at most once, for any number of connections and any capacities.
THEOREM OrderKept == Spec => []PeerOrder
PROOF
  <1>1. IInv => PeerOrder
    BY DEF IInv
  <1> QED
    BY <1>1, Inductive, PTL

-----------------------------------------------------------------------------
(* Where every message is.  The readers inside a call are counted, so that *)
(* they are finitely many is part of the invariant, and what a dropped     *)
(* receiver took with it is counted once.                                  *)

Calling == {r \in Readers : pc[r] # "reading"}

\* Messages that are in no call.
Elsewhere == Len(delivered) + Len(channel) + Len(spillover) + dropped + refused + discarded

Accounts == /\ IsFiniteSet(Calling)
            /\ received = Cardinality(Calling) + Elsewhere
            /\ receiver # "dropped" => discarded = 0

\* The pipeline is as long as its parts.
LEMMA PipelineLength ==
  ASSUME TypeOK
  PROVE  Len(Pipeline) = Len(delivered) + Len(channel) + Len(spillover)
PROOF
  <1>1. /\ delivered \in Seq(Messages) /\ channel \in Seq(Messages)
        /\ spillover \in Seq(Messages)
    BY DEF TypeOK
  <1> QED
    BY ONLY <1>1, SMT DEF Pipeline

\* A step changes the numbers by one message that moves, if any.
LEMMA AccountsStep ==
  ASSUME IInv, Accounts, [Next]_vars
  PROVE  Accounts'
PROOF
  <1>0. /\ delivered \in Seq(Messages) /\ channel \in Seq(Messages)
        /\ spillover \in Seq(Messages) /\ pc \in [Readers -> States]
        /\ received \in Nat /\ dropped \in Nat /\ refused \in Nat /\ discarded \in Nat
        /\ Len(delivered) \in Nat /\ Len(channel) \in Nat /\ Len(spillover) \in Nat
    BY DEF IInv, TypeOK
  <1>c. Cardinality(Calling) \in Nat
    BY FS_CardinalityType DEF Accounts
  <1>1. ASSUME NEW r \in Readers, Receive(r) PROVE Accounts'
    <2>1. Calling' = Calling \cup {r} /\ r \notin Calling
      BY <1>0, <1>1 DEF Receive, Calling
    <2>2. IsFiniteSet(Calling') /\ Cardinality(Calling') = Cardinality(Calling) + 1
      BY <2>1, FS_AddElement DEF Accounts
    <2>3. Elsewhere \in Nat /\ Elsewhere' = Elsewhere /\ received' = received + 1
          /\ UNCHANGED <<receiver, discarded>>
      BY <1>0, <1>1 DEF Receive, Elsewhere
    <2> QED
      BY <1>0, <1>c, <2>2, <2>3 DEF Accounts
  <1>2. ASSUME NEW r \in Readers, DirectSend(r) \/ Buffer(r) PROVE Accounts'
    <2>1. /\ pc[r] # "reading" /\ Return(r)
          /\ UNCHANGED <<receiver, received, delivered, discarded>>
      BY <1>2 DEF DirectSend, Buffer
    <2>2. Calling' = Calling \ {r} /\ r \in Calling
      BY <1>0, <2>1 DEF Return, Calling
    <2>3. IsFiniteSet(Calling') /\ Cardinality(Calling') = Cardinality(Calling) - 1
      BY <2>2, FS_RemoveElement DEF Accounts
    <2>4. Message(r) \in Messages
      BY <2>1, MessageType
    <2>5. Elsewhere' = Elsewhere + 1
      <3>1. CASE channel' = Append(channel, Message(r)) /\ UNCHANGED <<spillover, dropped, refused>>
        <4>1. Len(channel') = Len(channel) + 1
          BY <1>0, <2>4, <3>1
        <4> QED
          BY <1>0, <2>1, <3>1, <4>1 DEF Elsewhere
      <3>2. CASE PushOrDrop(r) /\ UNCHANGED <<channel, refused>>
        <4>1. CASE spillover' = Append(spillover, Message(r)) /\ UNCHANGED dropped
          <5>1. Len(spillover') = Len(spillover) + 1
            BY <1>0, <2>4, <4>1
          <5> QED
            BY <1>0, <2>1, <3>2, <4>1, <5>1 DEF Elsewhere
        <4>2. CASE dropped' = dropped + 1 /\ UNCHANGED spillover
          BY <1>0, <2>1, <3>2, <4>2 DEF Elsewhere
        <4> QED
          BY <3>2, <4>1, <4>2 DEF PushOrDrop
      <3>3. CASE refused' = refused + 1 /\ UNCHANGED <<channel, spillover, dropped>>
        BY <1>0, <2>1, <3>3 DEF Elsewhere
      <3> QED
        BY <1>2, <3>1, <3>2, <3>3 DEF DirectSend, Buffer
    <2>6. Elsewhere \in Nat
      BY <1>0 DEF Elsewhere
    <2> QED
      BY <1>0, <1>c, <2>1, <2>3, <2>5, <2>6 DEF Accounts
  <1>3. ASSUME NEW r \in Readers, LockSpillover(r) \/ DrainEnd(r) PROVE Accounts'
    <2>1. Calling' = Calling
      BY <1>0, <1>3 DEF LockSpillover, DrainEnd, Calling
    <2> QED
      BY <1>3, <2>1 DEF LockSpillover, DrainEnd, Accounts, Elsewhere
  <1>4. ASSUME NEW r \in Readers, DrainOne(r) PROVE Accounts'
    <2>1. Head(spillover) \in Messages /\ Len(Tail(spillover)) = Len(spillover) - 1
      BY <1>0, <1>4, MoveHead DEF DrainOne
    <2>2. Len(channel') = Len(channel) + 1 /\ Len(spillover') = Len(spillover) - 1
      BY <1>0, <1>4, <2>1 DEF DrainOne
    <2>3. Elsewhere' = Elsewhere /\ Calling' = Calling
          /\ UNCHANGED <<received, receiver, discarded>>
      BY <1>0, <1>4, <2>2 DEF DrainOne, Elsewhere, Calling
    <2> QED
      BY <2>3 DEF Accounts
  <1>5. CASE Recv
    <2>1. Head(channel) \in Messages /\ Len(Tail(channel)) = Len(channel) - 1
      BY <1>0, <1>5, MoveHead DEF Recv
    <2>2. Len(delivered') = Len(delivered) + 1 /\ Len(channel') = Len(channel) - 1
      BY <1>0, <1>5, <2>1 DEF Recv
    <2>3. Elsewhere' = Elsewhere /\ Calling' = Calling
          /\ UNCHANGED <<received, receiver, discarded>>
      BY <1>0, <1>5, <2>2 DEF Recv, Elsewhere, Calling
    <2> QED
      BY <2>3 DEF Accounts
  <1>6. CASE DropReceiver
    <2>1. discarded = 0 /\ discarded' = Len(channel) /\ Len(channel') = 0
          /\ receiver' = "dropped"
      BY <1>6 DEF DropReceiver, Accounts
    <2>2. Elsewhere' = Elsewhere /\ Calling' = Calling /\ UNCHANGED received
      BY <1>0, <1>6, <2>1 DEF DropReceiver, Elsewhere, Calling
    <2> QED
      BY <2>1, <2>2 DEF Accounts
  <1>7. CASE TakeReceiver \/ UNCHANGED vars
    BY <1>7 DEF TakeReceiver, vars, Accounts, Elsewhere, Calling
  <1> QED
    BY <1>1, <1>2, <1>3, <1>4, <1>5, <1>6, <1>7 DEF Next, Call

\* Every received message is in one place: none vanishes or doubles between
\* calls, channel, spillover buffer and application, whatever the capacities
\* and the moment the receiver goes (client_sender.rs:222-261).
THEOREM AllAccountedFor == Spec => []Conservation
PROOF
  <1>1. Init => Accounts
    <2> SUFFICES ASSUME Init PROVE Accounts
      OBVIOUS
    <2>1. Calling = {}
      BY DEF Init, Calling
    <2>2. Elsewhere = 0
      BY DEF Init, Elsewhere
    <2> QED
      BY <2>1, <2>2, FS_EmptySet DEF Init, Accounts
  <1>2. IInv /\ Accounts /\ [Next]_vars => Accounts'
    BY AccountsStep
  <1>3. IInv /\ Accounts => Conservation
    <2> SUFFICES ASSUME IInv, Accounts PROVE Conservation
      OBVIOUS
    <2>1. /\ Cardinality(Calling) \in Nat /\ dropped \in Nat /\ refused \in Nat
          /\ discarded \in Nat
      BY FS_CardinalityType DEF Accounts, IInv, TypeOK
    <2>2. /\ Len(Pipeline) = Len(delivered) + Len(channel) + Len(spillover)
          /\ Len(delivered) \in Nat /\ Len(channel) \in Nat /\ Len(spillover) \in Nat
      BY PipelineLength DEF IInv, TypeOK
    <2>3. received = Cardinality(Calling) + Len(Pipeline) + dropped + refused + discarded
      BY <2>1, <2>2 DEF Accounts, Elsewhere
    <2> QED
      BY <2>3 DEF Conservation, Calling
  <1> QED
    BY <1>1, <1>2, <1>3, Inductive, PTL DEF Spec

\* The queue of the implementation is that of HandlerFifo: the drain loop and
\* everything about the mutex are stutters, and a message is only turned away
\* while the spillover buffer is full.
THEOREM Refinement == Spec => ImplementsFifo
PROOF
  <1>1. Init => Fifo!Init
    BY DEF Init, Fifo!Init, Closed
  <1>2. ASSUME IInv, [Next]_vars
        PROVE  [Fifo!Next]_Fifo!vars
    <2> USE <1>2
    <2>0. /\ channel \in Seq(Messages) /\ spillover \in Seq(Messages)
          /\ Len(channel) <= ChannelCap /\ Len(spillover) <= SpillCap
          /\ Len(channel \o spillover) = Len(channel) + Len(spillover)
      BY DEF IInv, TypeOK
    <2>1. ASSUME NEW r \in Readers, DrainOne(r)
          PROVE  UNCHANGED Fifo!vars
      <3>1. spillover # <<>> /\ channel' = Append(channel, Head(spillover))
            /\ spillover' = Tail(spillover)
        BY <2>1 DEF DrainOne
      <3>2. channel' \o spillover' = channel \o spillover
        BY ONLY <2>0, <3>1, MoveHead
      <3> QED
        BY <3>2, <2>1 DEF DrainOne, Fifo!vars, Closed
    <2>2. ASSUME NEW r \in Readers, pc[r] # "reading", PushOrDrop(r),
                 UNCHANGED <<channel, delivered, receiver>>
          PROVE  [Fifo!Next]_Fifo!vars
      <3>1. Message(r) \in Messages
        BY <2>2, MessageType
      <3>2. CASE spillover' = Append(spillover, Message(r)) /\ UNCHANGED dropped
                 /\ Len(spillover) < SpillCap
        <4>1. channel' \o spillover' = Append(channel \o spillover, Message(r))
          BY <2>0, <2>2, <3>1, <3>2, AppendSecond
        <4> QED
          BY <4>1, <2>0, <2>2, <3>1, <3>2 DEF Fifo!Next, Fifo!Accept, Closed
      <3>3. CASE dropped' = dropped + 1 /\ UNCHANGED spillover /\ ~(Len(spillover) < SpillCap)
        <4>1. Len(channel \o spillover) >= SpillCap
          BY <2>0, <3>3
        <4> QED
          BY <4>1, <2>2, <3>3 DEF Fifo!Next, Fifo!TurnAway, Closed
      <3> QED
        BY <2>2, <3>2, <3>3 DEF PushOrDrop
    <2>3. ASSUME NEW r \in Readers, DirectSend(r)
          PROVE  [Fifo!Next]_Fifo!vars
      <3>1. pc[r] # "reading" /\ spillover = <<>> /\ UNCHANGED <<receiver, delivered>>
            /\ Message(r) \in Messages
        BY <2>3, MessageType DEF DirectSend, IInv, MutexInv
      <3>2. CASE HasRoom /\ channel' = Append(channel, Message(r))
                 /\ UNCHANGED <<spillover, dropped, refused>>
        <4>1. channel' \o spillover' = Append(channel \o spillover, Message(r))
          BY <2>0, <3>1, <3>2
        <4>2. Len(channel \o spillover) < ChannelCap + SpillCap
          BY <2>0, <3>1, <3>2 DEF HasRoom
        <4> QED
          BY <4>1, <4>2, <3>1, <3>2 DEF Fifo!Next, Fifo!Accept, Closed
      <3>3. CASE UNCHANGED <<channel, spillover, dropped>>
        BY <3>1, <3>3 DEF Fifo!vars, Closed
      <3> QED
        BY <2>2, <2>3, <3>1, <3>2, <3>3 DEF DirectSend
    <2>4. ASSUME Recv
          PROVE  Fifo!Deliver
      <3>1. channel # <<>> /\ channel' = Tail(channel) /\ UNCHANGED <<spillover, dropped, receiver>>
            /\ delivered' = Append(delivered, Head(channel)) /\ receiver = "taken"
        BY <2>4 DEF Recv
      <3>2. /\ channel \o spillover # <<>>
            /\ Head(channel \o spillover) = Head(channel)
            /\ Tail(channel \o spillover) = Tail(channel) \o spillover
        BY ONLY <2>0, <3>1, SMT
      <3> QED
        BY <3>1, <3>2 DEF Fifo!Deliver, Closed
    <2>5. ASSUME DropReceiver
          PROVE  Fifo!Close
      <3>1. /\ channel' = <<>> /\ spillover' = spillover /\ UNCHANGED <<delivered, dropped>>
            /\ receiver = "taken" /\ receiver' = "dropped"
        BY <2>5 DEF DropReceiver
      <3>2. /\ Len(channel) \in 0..Len(channel \o spillover)
            /\ SubSeq(channel \o spillover, Len(channel) + 1, Len(channel \o spillover)) = spillover
        BY ONLY <2>0, SMT
      <3>3. channel' \o spillover' = spillover
        BY <2>0, <3>1
      <3> QED
        BY <3>1, <3>2, <3>3 DEF Fifo!Close, Closed
    <2>6. ASSUME NEW r \in Readers, Receive(r) \/ LockSpillover(r) \/ DrainEnd(r)
          PROVE  UNCHANGED Fifo!vars
      BY <2>6 DEF Receive, LockSpillover, DrainEnd, Fifo!vars, Closed
    <2>7. TakeReceiver \/ UNCHANGED vars => UNCHANGED Fifo!vars
      BY DEF TakeReceiver, vars, Fifo!vars, Closed
    <2>8. ASSUME NEW r \in Readers, Buffer(r)
          PROVE  [Fifo!Next]_Fifo!vars
      BY <2>2, <2>8 DEF Buffer
    <2> QED
      BY <2>1, <2>3, <2>4, <2>5, <2>6, <2>7, <2>8 DEF Next, Call, Fifo!Next
  <1> QED
    BY <1>1, <1>2, Inductive, PTL DEF Spec, ImplementsFifo, Fifo!Spec
=============================================================================
