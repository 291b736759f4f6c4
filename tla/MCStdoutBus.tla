---------------------------- MODULE MCStdoutBus ----------------------------
(* Small instances of StdoutBus for TLC. *)
EXTENDS StdoutBus

\* A daemon that may fail to take a snapshot but answers what it answers in
\* time; one that takes its time; callers that cancel twice.
MCHazards == {{"fail", "cancel", "die"}, {"slow", "die"}, {"cancel", "recancel"}}

\* With a slow daemon or commands left behind, calls that do not consume the
\* tokens are left out.
\* Prompts are interchangeable, so the first call's may be any of them.
MCInit ==
  /\ Init
  /\ "fail" \notin faults => \A c \in Calls : call[c].consumed
  /\ call[CHOOSE c \in Calls : TRUE].prompt = CHOOSE p \in Prompts : TRUE
MCSpec == MCInit /\ [][Next]_vars /\ Fairness
=============================================================================
