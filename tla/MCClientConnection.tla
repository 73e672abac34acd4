------------------------- MODULE MCClientConnection -------------------------
(* Two connections: the one that the flag belongs to, and an earlier one whose
   reader is still at work or which senders still hold. *)
EXTENDS ClientConnection, FiniteSets, TLC

Symmetry == Permutations(Conns)
=============================================================================
