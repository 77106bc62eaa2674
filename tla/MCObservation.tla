---------------------------- MODULE MCObservation ----------------------------
(* Envelopes of the small instances: a success of either attempt, a result  *)
(* that is not one, and no valid result block.                              *)
EXTENDS Observation, TLC

TwoEnvelopes ==
  {[attempt |-> 1, succeeded |-> TRUE], [attempt |-> 2, succeeded |-> TRUE]}

OneEnvelope == {[attempt |-> 1, succeeded |-> TRUE]}

Interchangeable == Permutations(Deciders)
=============================================================================
