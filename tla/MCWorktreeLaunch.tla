------------------------- MODULE MCWorktreeLaunch -------------------------
(* Two CLI runs at a time, the launch's action id and one a user made up    *)
(* for the same worktree, and a second task only a duplicate would use.     *)
EXTENDS WorktreeLaunch
=============================================================================
