--------------------------- MODULE MCHandlerQueue ---------------------------
(* Two reader tasks, a channel of one or two messages and a spillover buffer
   of none to two: see the configurations. *)
EXTENDS HandlerQueue, TLC

Symmetry == Permutations(Readers)
=============================================================================
