---------------------------- MODULE MCPingSystem ----------------------------
(* PingSystem where a period of the client and a round trip fit exactly into  *)
(* one of the server's timeouts, and not into the other.                      *)
EXTENDS PingSystem

TimeoutsDef == {3, 4}
=============================================================================
