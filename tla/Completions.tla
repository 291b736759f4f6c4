---------------------------- MODULE Completions ----------------------------
(***************************************************************************)
(* What the two servers promise of a completion, whatever locks, threads   *)
(* and pipes lie in between: a response is the continuation the daemon     *)
(* generated for this very request, cut before the first stop token and    *)
(* after gen_len tokens, and nothing of it is missing when it ends.        *)
(***************************************************************************)
EXTENDS Integers, Sequences

CONSTANTS
  Clients,     \* one request each
  Tokens,      \* what the daemon generates
  StopTokens   \* those of stop_ids

VARIABLES
  limit,       \* gen_len of each request
  made,        \* the tokens generated for it so far
  out,         \* the tokens it has received
  answered     \* its response has ended

vars == <<limit, made, out, answered>>

\* What a request for n tokens is to receive of the tokens m.
Trimmed(m, n) ==
  LET shown(k) == k <= n /\ \A j \in 1..k : m[j] \notin StopTokens
  IN  SubSeq(m, 1, CHOOSE k \in 0..Len(m) :
                     shown(k) /\ (k < Len(m) => ~shown(k + 1)))

Generate(c) ==
  /\ ~answered[c]
  /\ \E t \in Tokens : made' = [made EXCEPT ![c] = Append(@, t)]
  /\ UNCHANGED <<limit, out, answered>>

Deliver(c) ==
  /\ ~answered[c]
  /\ \E t \in Tokens : out' = [out EXCEPT ![c] = Append(@, t)]
  /\ LET due == Trimmed(made[c], limit[c])
     IN  Len(out[c]) < Len(due) /\ out'[c] = SubSeq(due, 1, Len(out[c]) + 1)
  /\ UNCHANGED <<limit, made, answered>>

Answer(c) ==
  /\ ~answered[c]
  /\ out[c] = Trimmed(made[c], limit[c])
  /\ answered' = [answered EXCEPT ![c] = TRUE]
  /\ UNCHANGED <<limit, made, out>>

Init ==
  /\ limit \in [Clients -> Nat]
  /\ made = [c \in Clients |-> <<>>]
  /\ out = [c \in Clients |-> <<>>]
  /\ answered = [c \in Clients |-> FALSE]

Next == \E c \in Clients : Generate(c) \/ Deliver(c) \/ Answer(c)

Spec == Init /\ [][Next]_vars
=============================================================================
