------------------------------ MODULE MCBridge ------------------------------
(* One to three calls that share the connection.  When all have ended and    *)
(* the thread rests, the system has stopped: no deadlock is looked for.       *)
EXTENDS Bridge, TLC

CONSTANTS a, b, c

Mix(first, second, third, faults, moves, lingering) ==
  [kinds |-> (a :> first @@ b :> second @@ c :> third),
   left |-> [fault |-> faults, move |-> moves, lingers |-> lingering]]

Few == {Mix("wake", "none", "none", 2, 3, FALSE), Mix("wake", "read", "none", 1, 2, FALSE),
        Mix("wake", "wake", "none", 1, 0, FALSE),
        Mix("wake", "none", "none", 1, 1, TRUE), Mix("archive", "wait", "read", 1, 1, TRUE),
        Mix("archive", "read", "none", 2, 0, FALSE),
        Mix("wait", "wait", "none", 2, 1, FALSE), Mix("read", "read", "probe", 2, 0, FALSE)}
=============================================================================
