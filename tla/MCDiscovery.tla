---------------------------- MODULE MCDiscovery -----------------------------
(* Two callers and an address that may answer; see the configurations. *)
EXTENDS Discovery
=============================================================================
