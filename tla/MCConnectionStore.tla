------------------------- MODULE MCConnectionStore --------------------------
(* One host, and the records that an application or an older build leaves. *)
EXTENDS ConnectionStore, TLC

MCParts == {"", "ws", "wss", "http", "a", "//a", "80", "x", "y"}
MCHosts == {"a"}
MCSlashed == {"//a"}
MCAuthority == [a |-> "//a"]
MCPorts == {"80"}
MCInputs == {"80", "", "x"}
MCIds == {"id1", "id2"}
\* A host with a port beside it, "a:" with one, "a:x", and another scheme.
MCEntered == {[ip |-> <<"a">>, port |-> "80"], [ip |-> <<"a", "">>, port |-> "80"],
              [ip |-> <<"a", "x">>, port |-> "y"], [ip |-> <<"http", "//a">>, port |-> ""]}
MCInitial == {[ip |-> <<"ws", "//a", "80">>, port |-> "//a"], [ip |-> <<"a">>, port |-> "//a"],
              [ip |-> << >>, port |-> "//a"], [ip |-> <<"a", "80">>, port |-> ""]}
MCWriteFaults == {"write"}
NoFaults == {}
Symmetry == Permutations(Tasks)
=============================================================================
