----------------------------- MODULE Boundaries -----------------------------
(***************************************************************************)
(* The scans of scripts/prefix_cache.py for the points at which a rendered *)
(* prompt may be cut: find_prefix_boundary and find_all_boundaries.  A     *)
(* token is one of the chat markers or any other, and a cut is the length  *)
(* of the prefix it ends.                                                  *)
(***************************************************************************)
EXTENDS Integers, SequencesExt, FiniteSetsExt

ImStart == "<|im_start|>"
ImEnd == "<|im_end|>"
System == "system"
\* In place of System, if the tokenizer has no single token for it.
NoSystem == "None"

\* The first <|im_start|> that opens a system message, or any message if there
\* is no token to tell by, as a set.
SystemStart(ids, system) ==
  LET found == {i \in 1..(Len(ids) - 1) :
                  ids[i] = ImStart /\ system \in {NoSystem, ids[i + 1]}}
  IN  {i \in found : \A j \in found : i <= j}

\* The <|im_start|> within two tokens after an <|im_end|>, the nearest first.
NextStart(ids, i) ==
  LET found == {j \in (i + 1)..Min({i + 2, Len(ids)}) : ids[j] = ImStart}
  IN  {j \in found : \A k \in found : j <= k}

\* The first end of a message after the system token decides.
find_prefix_boundary(ids, system) ==
  LET ends == {i \in 1..Len(ids) : ids[i] = ImEnd /\ \E s \in SystemStart(ids, system) : i > s}
      next == IF ends = {} THEN {} ELSE NextStart(ids, Min(ends))
  IN  IF next = {} THEN -1 ELSE Min(next)

\* One pass over the tokens; an <|im_end|> that no message follows ends it.
find_all_boundaries(ids, system) ==
  LET scan[i \in 1..(Len(ids) + 1)] ==
        IF i > Len(ids) THEN <<>>
        ELSE IF ids[i] # ImEnd THEN scan[i + 1]
        ELSE LET next == NextStart(ids, i)
             IN  IF next = {} THEN <<>> ELSE <<Min(next)>> \o scan[Min(next) + 1]
      start == SystemStart(ids, system)
  IN  IF start = {} THEN <<>> ELSE scan[Min(start) + 1]
=============================================================================
