----------------------------- MODULE HandlerFifo -----------------------------
(***************************************************************************)
(* What the handler queue of a registry promises to the application: the   *)
(* messages that were accepted come out once each and in the order they    *)
(* were accepted, a message is turned away only when the queue already     *)
(* holds as many messages as the spillover buffer may, and closing the     *)
(* receiver loses a prefix of what is queued.  HandlerQueue implements it. *)
(***************************************************************************)
EXTENDS Naturals, Sequences

CONSTANTS Msg,        \* messages that may be offered
          Capacity,   \* how many accepted messages may wait
          DropLevel   \* a message is turned away only from this length on

VARIABLES queue,      \* accepted, not yet delivered
          delivered,  \* what the application has received
          dropped,    \* messages turned away
          open        \* the application still holds the receiver

vars == <<queue, delivered, dropped, open>>

Init == /\ queue = <<>>
        /\ delivered = <<>>
        /\ dropped = 0
        /\ open = TRUE

Accept(m) == /\ Len(queue) < Capacity
             /\ queue' = Append(queue, m)
             /\ UNCHANGED <<delivered, dropped, open>>

TurnAway == /\ Len(queue) >= DropLevel
            /\ dropped' = dropped + 1
            /\ UNCHANGED <<queue, delivered, open>>

Deliver == /\ open
           /\ queue # <<>>
           /\ delivered' = Append(delivered, Head(queue))
           /\ queue' = Tail(queue)
           /\ UNCHANGED <<dropped, open>>

Close == /\ open
         /\ open' = FALSE
         /\ \E n \in 0..Len(queue) : queue' = SubSeq(queue, n + 1, Len(queue))
         /\ UNCHANGED <<delivered, dropped>>

Next == (\E m \in Msg : Accept(m)) \/ TurnAway \/ Deliver \/ Close

Spec == Init /\ [][Next]_vars
=============================================================================
