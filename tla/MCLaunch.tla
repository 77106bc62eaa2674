------------------------------ MODULE MCLaunch ------------------------------
(* Two overlapping calls, two task ids (a second one only a duplicate would *)
(* use) and two attempts.                                                   *)
EXTENDS Launch
=============================================================================
