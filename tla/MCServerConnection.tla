------------------------- MODULE MCServerConnection -------------------------
(* One or two connections for one permit or two; the length of the
   middleware chain and the ping options are those of the configuration. *)
EXTENDS ServerConnection, TLC

Symmetry == Permutations(Conns)
=============================================================================
