---------------------------- MODULE HandlerQueue ----------------------------
(***************************************************************************)
(* The path of a received message from a connection's reader task to the   *)
(* application: ClientSenders::send_handle_message, a bounded channel with *)
(* a spillover buffer behind a mutex.  ServerSender::send_handle_message   *)
(* is the same algorithm on the client side.                               *)
(*                                                                         *)
(* Several reader tasks call it at once, and the application's recv runs   *)
(* without the mutex, so it interleaves with the drain loop of a call: one *)
(* step here is one try_send, one push or one lock operation.              *)
(***************************************************************************)
EXTENDS Naturals, Sequences, FiniteSets

CONSTANTS Readers,      \* connection reader tasks that forward messages
          ChannelCap,   \* capacity of the handler channel
          SpillCap,     \* spillover_buffer_size
          NoReader,     \* holder of a free mutex
          MaxMessages   \* bound: how many calls are made in all

ASSUME ChannelCapAssumption == ChannelCap \in Nat \ {0}
ASSUME SpillCapAssumption == SpillCap \in Nat
ASSUME NoReaderAssumption == NoReader \notin Readers
ASSUME MaxMessagesAssumption == MaxMessages \in Nat

VARIABLES
  channel,    \* messages in the handler channel
  spillover,  \* messages in the spillover buffer
  receiver,   \* where the receiving half is: "held", "taken" or "dropped"
  pc,         \* where each reader is inside the call
  guard,      \* who holds the spillover mutex
  received,   \* Metrics::messages_received
  dropped,    \* Metrics::messages_dropped
  sent,       \* how many messages each reader has forwarded: its next message
  delivered,  \* history: what the application has received
  refused,    \* history: messages a closed channel refused
  discarded   \* history: messages inside the channel when it was dropped

vars == <<channel, spillover, receiver, pc, guard, received, dropped, sent,
          delivered, refused, discarded>>

\* The message that reader r is forwarding: (bytes, peer), told apart by its
\* position in what r has read from its socket.
Message(r) == <<r, sent[r]>>
Messages == Readers \X (1..MaxMessages)

Init ==
  /\ channel = <<>> /\ spillover = <<>>
  /\ receiver = "held"
  /\ pc = [r \in Readers |-> "reading"]
  /\ guard = NoReader
  /\ received = 0 /\ dropped = 0
  /\ sent = [r \in Readers |-> 0]
  /\ delivered = <<>> /\ refused = 0 /\ discarded = 0

Closed == receiver = "dropped"
HasRoom == ~Closed /\ Len(channel) < ChannelCap

-----------------------------------------------------------------------------
\* inc_messages_received comes before the mutex.
Receive(r) ==
  /\ pc[r] = "reading"
  /\ received < MaxMessages
  /\ received' = received + 1
  /\ sent' = [sent EXCEPT ![r] = @ + 1]
  /\ pc' = [pc EXCEPT ![r] = "locking"]
  /\ UNCHANGED <<channel, spillover, receiver, guard, dropped, delivered, refused, discarded>>

LockSpillover(r) ==
  /\ pc[r] = "locking"
  /\ guard = NoReader
  /\ guard' = r
  /\ pc' = [pc EXCEPT ![r] = "draining"]
  /\ UNCHANGED <<channel, spillover, receiver, received, dropped, sent, delivered, refused, discarded>>

\* Mutant: the front is sent but stays in the buffer.
DrainWithoutPop(r) ==
  /\ pc[r] = "draining"
  /\ spillover # <<>> /\ HasRoom
  /\ channel' = Append(channel, Head(spillover))
  /\ UNCHANGED <<spillover, receiver, pc, guard, received, dropped, sent, delivered, refused, discarded>>

\* Step 1: one try_send of the front of the spillover buffer.
DrainOne(r) ==
  /\ pc[r] = "draining"
  /\ spillover # <<>> /\ HasRoom
  /\ channel' = Append(channel, Head(spillover))
  /\ spillover' = Tail(spillover)
  /\ UNCHANGED <<receiver, pc, guard, received, dropped, sent, delivered, refused, discarded>>

\* Mutant: the channel is tried although older messages are still buffered.
DrainEndOvertaking(r) ==
  /\ pc[r] = "draining"
  /\ spillover = <<>> \/ ~HasRoom
  /\ pc' = [pc EXCEPT ![r] = "direct"]
  /\ UNCHANGED <<channel, spillover, receiver, guard, received, dropped, sent, delivered, refused, discarded>>

\* The loop ends: nothing buffered (try the channel next), or try_send failed.
DrainEnd(r) ==
  /\ pc[r] = "draining"
  /\ spillover = <<>> \/ ~HasRoom
  /\ pc' = [pc EXCEPT ![r] = IF spillover = <<>> THEN "direct" ELSE "buffering"]
  /\ UNCHANGED <<channel, spillover, receiver, guard, received, dropped, sent, delivered, refused, discarded>>

\* Mutant: the cap is not checked.
PushUncapped(r) ==
  spillover' = Append(spillover, Message(r)) /\ UNCHANGED dropped

\* Mutant: the cap is off by one.
PushBelowCap(r) ==
  IF Len(spillover) + 1 < SpillCap
  THEN spillover' = Append(spillover, Message(r)) /\ UNCHANGED dropped
  ELSE dropped' = dropped + 1 /\ UNCHANGED spillover

\* Push to the spillover buffer, or drop the message and count it, at its cap.
PushOrDrop(r) ==
  IF Len(spillover) < SpillCap
  THEN spillover' = Append(spillover, Message(r)) /\ UNCHANGED dropped
  ELSE dropped' = dropped + 1 /\ UNCHANGED spillover

Return(r) == /\ guard' = NoReader
             /\ pc' = [pc EXCEPT ![r] = "reading"]

\* Mutant: send().await instead of try_send, waiting for room with the mutex held.
DirectSendWaiting(r) ==
  /\ pc[r] = "direct"
  /\ HasRoom
  /\ channel' = Append(channel, Message(r))
  /\ Return(r)
  /\ UNCHANGED <<spillover, dropped, refused, receiver, received, sent, delivered, discarded>>

\* Step 2 with an empty spillover buffer: try_send, and its Full and Closed errors.
DirectSend(r) ==
  /\ pc[r] = "direct"
  /\ \/ /\ HasRoom
        /\ channel' = Append(channel, Message(r))
        /\ UNCHANGED <<spillover, dropped, refused>>
     \/ /\ ~Closed /\ ~HasRoom
        /\ PushOrDrop(r)
        /\ UNCHANGED <<channel, refused>>
     \/ /\ Closed
        /\ refused' = refused + 1
        /\ UNCHANGED <<channel, spillover, dropped>>
  /\ Return(r)
  /\ UNCHANGED <<receiver, received, sent, delivered, discarded>>

\* Step 2 behind messages that are still buffered.
Buffer(r) ==
  /\ pc[r] = "buffering"
  /\ PushOrDrop(r)
  /\ Return(r)
  /\ UNCHANGED <<channel, receiver, received, sent, delivered, refused, discarded>>

-----------------------------------------------------------------------------
\* get_handle_message_receiver: the first caller gets the receiver.
TakeReceiver ==
  /\ receiver = "held"
  /\ receiver' = "taken"
  /\ UNCHANGED <<channel, spillover, pc, guard, received, dropped, sent, delivered, refused, discarded>>

\* The application receives; it takes no lock.
Recv ==
  /\ receiver = "taken"
  /\ channel # <<>>
  /\ delivered' = Append(delivered, Head(channel))
  /\ channel' = Tail(channel)
  /\ UNCHANGED <<spillover, receiver, pc, guard, received, dropped, sent, refused, discarded>>

\* The application drops the receiver, and what the channel held with it.
DropReceiver ==
  /\ receiver = "taken"
  /\ receiver' = "dropped"
  /\ channel' = <<>>
  /\ discarded' = Len(channel)
  /\ UNCHANGED <<spillover, pc, guard, received, dropped, sent, delivered, refused>>

Call(r) == \/ LockSpillover(r) \/ DrainOne(r) \/ DrainEnd(r)
           \/ DirectSend(r) \/ Buffer(r)

Next == \/ \E r \in Readers : Receive(r) \/ Call(r)
        \/ TakeReceiver \/ Recv \/ DropReceiver

Spec == Init /\ [][Next]_vars

\* A reader task inside a call is scheduled by the runtime.  The mutex is a
\* std::sync::Mutex, which promises no more than that a waiter gets a lock that
\* stays free: weak fairness.  Nothing is assumed of the application.
FairSpec == Spec /\ \A r \in Readers : WF_vars(Call(r))
-----------------------------------------------------------------------------
States == {"reading", "locking", "draining", "direct", "buffering"}
InMutex == {"draining", "direct", "buffering"}

TypeOK ==
  /\ channel \in Seq(Messages) /\ Len(channel) <= ChannelCap
  /\ spillover \in Seq(Messages) /\ Len(spillover) <= SpillCap
  /\ receiver \in {"held", "taken", "dropped"}
  /\ pc \in [Readers -> States]
  /\ guard \in Readers \cup {NoReader}
  /\ received \in 0..MaxMessages /\ dropped \in Nat
  /\ sent \in [Readers -> 0..MaxMessages]
  /\ delivered \in Seq(Messages)
  /\ refused \in Nat /\ discarded \in Nat

\* What is on its way to the application, oldest first, after what has arrived.
Pipeline == delivered \o channel \o spillover

\* Every received message is in exactly one place: in a call, queued, delivered,
\* counted as dropped, or lost to a closed receiver.  None vanishes or doubles
\* between the channel and the spillover buffer, whatever recv does during the
\* drain loop.
Conservation ==
  received = Cardinality({r \in Readers : pc[r] # "reading"})
             + Len(Pipeline) + dropped + refused + discarded

\* Messages of one connection reach the application in the order its reader
\* received them, each at most once, although some went through the spillover
\* buffer and others straight to the channel.
PeerOrder ==
  \A i, j \in 1..Len(Pipeline) :
    (i < j /\ Pipeline[i][1] = Pipeline[j][1]) => Pipeline[i][2] < Pipeline[j][2]

\* send_handle_message implements the lossy queue of HandlerFifo: one global
\* order, and a message is turned away only with the spillover buffer at its cap.
Fifo == INSTANCE HandlerFifo
          WITH Msg <- Messages, Capacity <- ChannelCap + SpillCap,
               DropLevel <- SpillCap, queue <- channel \o spillover,
               open <- ~Closed
ImplementsFifo == Fifo!Spec

\* The reader of a socket is never blocked by a slow or absent application:
\* each call comes back although nothing obliges the application to receive.
CallsReturn == \A r \in Readers : pc[r] # "reading" ~> pc[r] = "reading"
=============================================================================
