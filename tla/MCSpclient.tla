---------------------------- MODULE MCSpclient ----------------------------
(* Two requests that share the token; one of them is a PutConnectState.     *)
EXTENDS Spclient, TLC
CONSTANTS a, b
MCCallers == {a, b}
MCPuts == {b}
=============================================================================
