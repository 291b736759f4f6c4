--------------------------- MODULE MCPrefixCache ---------------------------
(* Small instances of PrefixCache for TLC. *)
EXTENDS PrefixCache

MCTurn == {"sys1", "sys2", "sys3", "a", "b", "x"}
MCSystemTurn == {"sys1", "sys2", "sys3"}

\* Dialogues in which user and assistant alternate: two first turns that
\* share a system prompt, one continued by a second turn, and two other
\* system prompts, so that the targets outnumber the slots; and a prompt
\* without a system message, which has no cut point.
Alternating ==
  {<<"sys1", "a">>, <<"sys1", "b">>, <<"sys1", "a", "x", "b">>,
   <<"sys2", "a">>, <<"sys3", "a">>, <<"a">>}

\* A client that sends two user messages in a row, and one that sends one.
DoubleUser == {<<"sys1", "a", "b">>, <<"sys1", "a">>, <<"sys2", "a">>}

ASSUME DialogueAssumption ==
  TurnsAlternate(Alternating) /\ ~TurnsAlternate(DoubleUser)

-----------------------------------------------------------------------------
(* The scans of Boundaries, of which PrefixCache has only the result       *)

Scans == INSTANCE Boundaries

\* A turn as the chat template renders it, with n tokens of content, and a
\* prompt, which ends by opening the turn of the assistant.
Rendered(turn, n) ==
  <<Scans!ImStart, IF turn \in MCSystemTurn THEN Scans!System ELSE "user">>
    \o [i \in 1..n |-> "text"] \o <<Scans!ImEnd, "newline">>
Tokens(p, n) ==
  FoldLeft(LAMBDA ids, turn : ids \o Rendered(turn, n[turn]), <<>>, p)
    \o <<Scans!ImStart, "assistant">>

\* The cuts found among the tokens are one past the ends of the turns that
\* Candidates names, however long the turns are.
ASSUME CutsAreTurnEnds ==
  \A p \in Alternating \cup DoubleUser, n \in [MCTurn -> 0..1] :
    Scans!find_all_boundaries(Tokens(p, n), Scans!System) =
      [i \in DOMAIN Candidates(p) |->
         Len(Tokens(SubSeq(p, 1, Candidates(p)[i]), n)) - 1]

\* On any tokens the two scans agree on the first cut, and the cuts ascend,
\* whether or not the tokenizer has a token for "system".
ASSUME ScansAgree ==
  \A k \in 0..6 :
    \A ids \in [1..k -> {Scans!ImStart, Scans!ImEnd, Scans!System, "text"}],
       system \in {Scans!System, Scans!NoSystem} :
      LET cuts == Scans!find_all_boundaries(ids, system)
      IN  /\ Scans!find_prefix_boundary(ids, system) =
               IF cuts = <<>> THEN -1 ELSE cuts[1]
          /\ \A i, j \in DOMAIN cuts : i < j => cuts[i] < cuts[j]
=============================================================================
