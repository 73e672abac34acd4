------------------------------ MODULE Admission ------------------------------
(***************************************************************************)
(* What the cap on connections promises (ServerOptions::max_connections):  *)
(* while the server accepts, a client that comes is let in when fewer than *)
(* Capacity are inside and turned away at once when not.  No queue, no     *)
(* place that stays taken when its client is gone, no place given twice,   *)
(* and nobody is let in or turned away once the server has closed its      *)
(* door, which it does some time after it was told to.  ServerConnection   *)
(* implements it with a semaphore and the accept loop.                     *)
(***************************************************************************)
EXTENDS Naturals, FiniteSets

CONSTANTS Clients, Capacity

VARIABLES open,        \* the server accepts
          inside,      \* clients that hold a place
          turnedAway   \* clients that were refused, for good

vars == <<open, inside, turnedAway>>

Init == open = TRUE /\ inside = {} /\ turnedAway = {}

Arrives(c) == open /\ c \notin inside \cup turnedAway

LetIn(c) == /\ Arrives(c)
            /\ Cardinality(inside) < Capacity
            /\ inside' = inside \cup {c}
            /\ UNCHANGED <<open, turnedAway>>

TurnAway(c) == /\ Arrives(c)
               /\ Cardinality(inside) = Capacity
               /\ turnedAway' = turnedAway \cup {c}
               /\ UNCHANGED <<open, inside>>

Leave(c) == /\ c \in inside
            /\ inside' = inside \ {c}
            /\ UNCHANGED <<open, turnedAway>>

Close == /\ open /\ open' = FALSE
         /\ UNCHANGED <<inside, turnedAway>>

Next == Close \/ \E c \in Clients : LetIn(c) \/ TurnAway(c) \/ Leave(c)

Spec == Init /\ [][Next]_vars
=============================================================================
