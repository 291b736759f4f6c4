---------------------------- MODULE MCFullCache ----------------------------
(* Small instances of FullCache for TLC. *)
EXTENDS FullCache, TLC

\* Clients and prompts are interchangeable in every definition.
Symmetry == Permutations(Client) \cup Permutations(Prompts)
=============================================================================
