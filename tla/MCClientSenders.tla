--------------------------- MODULE MCClientSenders --------------------------
(* Two or three connections of one peer and up to two application tasks over
   one-message channels; see the configurations. *)
EXTENDS ClientSenders, TLC

Symmetry == Permutations(Conns) \cup Permutations(Callers) \cup Permutations(Peers)
=============================================================================
