---------------------------- MODULE MCStateLock ----------------------------
(* Small instances of StateLock: two processes; the first runs two calls    *)
(* (two tool calls of one MCP server), the second runs one.                 *)
EXTENDS StateLock, TLC

CONSTANTS c1, c2, c3, p1, p2, p3

OneProcessOfTwoCalls == c1 :> p1 @@ c2 :> p1 @@ c3 :> p2

ThreeProcesses == c1 :> p1 @@ c2 :> p2 @@ c3 :> p3
=============================================================================
