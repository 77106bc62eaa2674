-------------------------- MODULE MCExecutionStore --------------------------
(* Two callers of one store instance; two native tasks, three launch        *)
(* actions, so that one replacement fits and a second one is attempted.     *)
EXTENDS ExecutionStore

Template(revision, attempt, required, readable) ==
  [revision |-> revision, attempt |-> attempt, maxAttempts |-> 3,
   required |-> required, readable |-> readable,
   binding |-> Unbound, history |-> << >>]

CallerSpecs ==
  {Template(1, 1, TRUE, TRUE), Template(2, 1, TRUE, TRUE),
   Template(2, 1, FALSE, FALSE)}

\* Nothing, or the record of an older version: required, but not readable.
FilesAtFirst == {None, Template(1, 1, TRUE, FALSE)}
=============================================================================
