-------------------------- MODULE MCSnapshotStore --------------------------
(* Small instances of SnapshotStore for TLC. *)
EXTENDS SnapshotStore

MCTarget(s) == (MapThenSumSet(LAMBDA i : i * s[i], 1..Len(s)) + Len(s)) % 2
\* No file, a first turn, the same dialogue one reply and one turn later
\* (the target continues 0 1 by 0), and an unrelated prompt.
MCPrompts == {<<>>, <<0, 1>>, <<0, 1, 0, 0, 1>>, <<1, 1, 1>>}
=============================================================================
