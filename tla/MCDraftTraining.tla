-------------------------- MODULE MCDraftTraining --------------------------
(* Small instances of DraftTraining for TLC. *)
EXTENDS DraftTraining

\* A shuffle: the paths by their glob first, those of a trace apart.
Before(x, y) ==
  IF x[2] = y[2] THEN x[1] < y[1] ELSE x[2] = "trace_*.pt"
Apart ==
  [paths \in SUBSET (Prompts \X Globs) |->
     [i \in 1..Cardinality(paths) |->
        CHOOSE x \in paths : Cardinality({y \in paths : Before(y, x)}) = i - 1]]
=============================================================================
