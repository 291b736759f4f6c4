--------------------------- MODULE MCSpecDecode ---------------------------
(* Small instances of SpecDecode for TLC: a target whose choice depends on *)
(* every token of its context and on their order.                          *)
EXTENDS SpecDecode, TLC

MCTarget(s) == (MapThenSumSet(LAMBDA i : i * s[i], 1..Len(s)) + Len(s)) % 3
\* Continued 1 1 2, ending with the end-of-sequence token, and 0 1 0 1.
MCPrompts == {<<0>>, <<1, 0>>}
MCLogProbs == {0, -1, -5}
=============================================================================
