---------------------------- MODULE SpecDecode ----------------------------
(***************************************************************************)
(* The DFlash decode loop of test/test_dflash.cpp, from the end of prefill *)
(* to the end of one request: a block-diffusion draft proposes a block of  *)
(* tokens, the target verifies the block in one forward pass, and the      *)
(* accepted part is committed.  Four strategies:                           *)
(*   legacy  chain; the recurrent state is saved, restored and replayed    *)
(*   fast    chain; --fast-rollback to a state captured during the verify  *)
(*   tree    --ddtree --ddtree-no-chain-seed                               *)
(*   seeded  --ddtree, the draft's own chain put into the tree first       *)
(*                                                                         *)
(* A context is the sequence of tokens a piece of state was computed from. *)
(* The recurrent state (ssm) is its context; a KV slot is the context that *)
(* ends in its token; the convolution state is the last three tokens.      *)
(* The forward pass predicts Target of a context when these three agree    *)
(* and Garbled otherwise.  Sequential and batched verify leave the same    *)
(* state and are one action.  Slots of the code count from 0, here from 1. *)
(***************************************************************************)
EXTENDS Integers, SequencesExt, FiniteSetsExt

CONSTANTS
  Token,        \* the vocabulary
  Eos,          \* tokens for which IS_EOS_TOK holds
  Target(_),    \* the target's greedy choice after a context
  Garbled,      \* what it chooses when its state is inconsistent
  Pad,          \* a zero column of the convolution state
  Prompts,      \* prompts already prefilled
  NGen,         \* n_gen of the command
  QLen,         \* q_len: the draft block with last_tok in front
  Budget,       \* --ddtree-budget
  TopK,         \* ddtree_K when siblings are wanted (8 in the code)
  LogProbs,     \* log-probabilities of the draft, rounded to integers
  Threshold,    \* --ddtree-guard-threshold, in tenths (8 by default)
  MaxCtx,       \* slots of the KV cache
  Strategies    \* subset of {"legacy", "fast", "tree", "seeded"}

ASSUME SizeAssumption ==
  /\ NGen \in Nat /\ QLen \in Nat \ {0, 1} /\ Budget \in Nat \ {0}
  /\ TopK \in Nat \ {0, 1} /\ Threshold \in Nat \ {0} /\ MaxCtx \in Nat
ASSUME TokenAssumption == Garbled \notin Token /\ Pad \notin Token \cup {Garbled}
\* "prompt + gen + block exceeds max_ctx" is refused before decoding.
ASSUME AdmittedAssumption ==
  Prompts \subseteq Seq(Token) \ {<<>>} /\ \A p \in Prompts : Len(p) + NGen + QLen <= MaxCtx

VARIABLES
  strategy,     \* one of Strategies
  prompt,       \* the prompt
  phase,        \* where the loop stands
  out,          \* out_all
  committed,    \* committed; n_generated is committed - Len(prompt)
  lastTok,      \* last_tok, chosen but not yet committed
  kv,           \* attn_k/attn_v: slot -> context, as far as it can be read
  ssm,          \* ssm_state
  conv,         \* conv_state
  backup,       \* ssm_state_snap, conv_state_snap
  top,          \* the draft: per position, its top-K tokens, best first
  block,        \* the flat tree (or chain) given to the verify pass
  heap,         \* candidates of build_ddtree
  posterior,    \* target_tok / posterior: the target's choice at each slot
  inter,        \* ssm_intermediate: the recurrent state after each slot
  convIn,       \* conv_input: conv_state followed by the block's tokens
  accepted,     \* slots of the path accepted in the tree, the root first
  copied,       \* positions of the path already compacted
  curPos,       \* cache.cur_pos at the end
  curTok        \* cache.last_tok at the end

cache == <<kv, ssm, conv, backup>>
tree == <<top, block, heap>>
verified == <<posterior, inter, convIn>>
walk == <<accepted, copied>>
final == <<curPos, curTok>>
vars == <<strategy, prompt, phase, out, committed, lastTok, cache, tree,
          verified, walk, final>>

Tree == strategy \in {"tree", "seeded"}
L == QLen - 1
K == IF Tree /\ Budget > L THEN TopK ELSE 1
Room == NGen - (committed - Len(prompt))        \* need_commit_budget
Prefixed(s) == [i \in 1..Len(s) |-> SubSeq(s, 1, i)]
ConvWidth == 3                                  \* K_conv - 1

\* The last three tokens of a context, zero columns before its start.
Window(s) == LET padded == <<Pad, Pad, Pad>> \o s
             IN  SubSeq(padded, Len(s) + 1, Len(s) + ConvWidth)

-----------------------------------------------------------------------------
(* The draft and the tree                                                  *)

Candidate == [tok : Token, lp : LogProbs]

\* One position of the draft: K distinct tokens, best first.  Without
\* siblings the log-probabilities are not computed and stand at 0.
Row ==
  IF K = 1 THEN {<<[tok |-> t, lp |-> 0]>> : t \in Token}
  ELSE {r \in [1..K -> Candidate] :
          /\ \A i, j \in 1..K : i < j => r[i].lp >= r[j].lp /\ r[i].tok # r[j].tok}

TopTok(d) == top[d][1].tok
\* draft_tok, its first entry pinned to last_tok.
DraftTok == [i \in 1..QLen |-> IF i = 1 THEN lastTok ELSE TopTok(i - 1)]
\* Log-probability of the draft's chain of depth d.
ChainLp(d) == MapThenSumSet(LAMBDA i : top[i][1].lp, 1..d)

\* Slot i of a chain whose tokens are s.
ChainNode(s, i) ==
  [tok |-> s[i], parent |-> i - 1, depth |-> i - 1, sees |-> 1..i, path |-> SubSeq(s, 1, i)]
Chain(s) == [i \in 1..Len(s) |-> ChainNode(s, i)]

\* 1) and 2): the draft proposes a block after last_tok; 3) legacy saves the
\* recurrent state.
Draft ==
  /\ phase = "loop"
  /\ Room > 0
  /\ top' \in [1..L -> Row]
  /\ backup' = IF strategy = "legacy" THEN <<ssm, conv>> ELSE backup
  /\ phase' = IF Tree THEN "seed" ELSE "chain"
  /\ UNCHANGED <<strategy, prompt, out, committed, lastTok, kv, ssm, conv, block,
                 heap, verified, walk, final>>

\* Mutant: the chain is seeded one token short.
SeedShort ==
  /\ phase = "seed"
  /\ LET depth == Min({L, Budget}) - 1
         chain == Chain(DraftTok)
     IN  IF strategy = "seeded"
         THEN /\ block' = SubSeq(chain, 1, depth + 1)
              /\ heap' = IF K = 1 THEN {} ELSE
                   {[parent |-> d, depth |-> d, rank |-> 2,
                     logw |-> ChainLp(d) - top[d][1].lp + top[d][2].lp] : d \in 1..depth}
         ELSE /\ block' = SubSeq(chain, 1, 1)
              /\ heap' = {[parent |-> 1, depth |-> 1, rank |-> 1, logw |-> ChainLp(1)]}
  /\ phase' = "grow"
  /\ UNCHANGED <<strategy, prompt, out, committed, lastTok, cache, top, verified, walk,
                 final>>

\* build_ddtree starts from the root alone, or from the draft's chain with the
\* second-best token of each depth on the heap.
Seed ==
  /\ phase = "seed"
  /\ LET depth == Min({L, Budget})
         chain == Chain(DraftTok)
     IN  IF strategy = "seeded"
         THEN /\ block' = SubSeq(chain, 1, depth + 1)
              /\ heap' = IF K = 1 THEN {} ELSE
                   {[parent |-> d, depth |-> d, rank |-> 2,
                     logw |-> ChainLp(d) - top[d][1].lp + top[d][2].lp] : d \in 1..depth}
         ELSE /\ block' = SubSeq(chain, 1, 1)
              /\ heap' = {[parent |-> 1, depth |-> 1, rank |-> 1, logw |-> ChainLp(1)]}
  /\ phase' = "grow"
  /\ UNCHANGED <<strategy, prompt, out, committed, lastTok, cache, top, verified, walk,
                 final>>

\* Mutant: one node more than the budget.
GrowingPast == heap # {} /\ Len(block) - 1 <= Budget

\* build_ddtree's loop goes on.
Growing == heap # {} /\ Len(block) - 1 < Budget

\* The slot a popped candidate becomes; it sees what its parent sees, and itself.
Node(e) ==
  LET tok == top[e.depth][e.rank].tok
  IN  [tok |-> tok, parent |-> e.parent, depth |-> e.depth,
       sees |-> block[e.parent].sees \cup {Len(block) + 1},
       path |-> Append(block[e.parent].path, tok)]

\* Pop a most likely candidate, append its node, push the next sibling and
\* the first child.
Grow ==
  /\ phase = "grow"
  /\ Growing
  /\ \E e \in heap :
       /\ \A f \in heap : f.logw <= e.logw
       /\ block' = Append(block, Node(e))
       /\ heap' = (heap \ {e})
            \cup (IF e.rank = K THEN {} ELSE
                   {[e EXCEPT !.rank = e.rank + 1,
                      !.logw = e.logw - top[e.depth][e.rank].lp + top[e.depth][e.rank + 1].lp]})
            \cup (IF e.depth = L THEN {} ELSE
                   {[parent |-> Len(block) + 1, depth |-> e.depth + 1, rank |-> 1,
                     logw |-> e.logw + top[e.depth + 1][1].lp]})
  /\ UNCHANGED <<strategy, prompt, phase, out, committed, lastTok, cache, top, verified,
                 walk, final>>

\* Depth down to which the tree holds the draft's own chain.
SpineDepth ==
  Max({block[n].depth : n \in {m \in DOMAIN block :
         \A j \in block[m].sees \ {1} : block[j].tok = TopTok(block[j].depth)}})

\* tree_mean < chain_mean, and tree_mean < chain_mean * threshold, with both
\* means multiplied out.
WorseThanChain == L * ChainLp(SpineDepth) < SpineDepth * ChainLp(L)
FallsBack ==
  IF SpineDepth = 0 THEN 10 * ChainLp(L) < Threshold * ChainLp(L)
  ELSE 10 * L * ChainLp(SpineDepth) < Threshold * SpineDepth * ChainLp(L)

\* The quality guard: verify the tree, or go on with the plain chain.
Guard ==
  /\ phase = "grow"
  /\ ~Growing
  /\ phase' = IF FallsBack THEN "chain" ELSE "tree"
  /\ UNCHANGED <<strategy, prompt, out, committed, lastTok, cache, tree, verified, walk,
                 final>>

-----------------------------------------------------------------------------
(* The verify pass                                                         *)

\* Slot n attends to exactly the tokens of its own context, at their positions.
Attends(b, n) ==
  /\ {b[j].path : j \in b[n].sees} = ToSet(Prefixed(b[n].path))
  /\ \A j \in b[n].sees : b[j].depth = Len(b[j].path) - 1

\* The target's choice after slot n of block b, from recurrent state s and
\* convolution state c.
Choice(s, c, b, n) ==
  IF SubSeq(kv, 1, committed) = Prefixed(s) /\ c = Window(s) /\ Attends(b, n)
  THEN Target(s \o b[n].path) ELSE Garbled

Contexts(s, b) == [n \in 1..Len(b) |-> s \o b[n].path]
Tokens(b) == [n \in 1..Len(b) |-> b[n].tok]

\* One forward pass over block b: it fills the KV slots after committed and
\* leaves the state of the last slot.
Forward(s, c, b) ==
  /\ kv' = SubSeq(kv, 1, committed) \o Contexts(s, b)
  /\ ssm' = s \o Last(b).path
  /\ conv' = SubSeq(c \o Tokens(b), Len(b) + 1, Len(b) + ConvWidth)

\* 4) Verify block b, capturing the state after every slot.
Verify(b) ==
  /\ Forward(ssm, conv, b)
  /\ block' = b
  /\ posterior' = [n \in 1..Len(b) |-> Choice(ssm, conv, b, n)]
  /\ inter' = Contexts(ssm, b)
  /\ convIn' = conv \o Tokens(b)
  /\ UNCHANGED <<strategy, prompt, out, committed, lastTok, backup, top, heap, copied, final>>

VerifyChain ==
  /\ phase = "chain"
  /\ Verify(Chain(DraftTok))
  /\ phase' = "accept"
  /\ UNCHANGED accepted

VerifyTree ==
  /\ phase = "tree"
  /\ Verify(block)
  /\ phase' = "walk"
  /\ accepted' = <<1>>

-----------------------------------------------------------------------------
(* Chain: accept, roll back, commit                                        *)

\* accept_n: last_tok and the draft tokens the target would have chosen too.
AcceptN == Max({n \in 1..QLen : \A i \in 1..(n - 1) : block[i + 1].tok = posterior[i]})

HasEos(toks) == \E t \in ToSet(toks) : t \in Eos

\* Tokens go to out_all and the stream; an end-of-sequence token breaks out of
\* the loop before committed is advanced.
Emit(toks) == out' = out \o toks

\* The buffers of a round are not read after its commit.
DropRound ==
  /\ top' = <<>> /\ block' = <<>> /\ heap' = {}
  /\ posterior' = <<>> /\ inter' = <<>> /\ convIn' = <<>>
Advance(toks) ==
  IF HasEos(toks) THEN phase' = "break" /\ UNCHANGED committed
  ELSE phase' = "loop" /\ committed' = committed + Len(toks)

\* Mutant: the state is rolled back by one slot too many.
CommitFastOff ==
  /\ phase = "accept"
  /\ strategy # "legacy"
  /\ LET n == Min({AcceptN, Room})
         toks == SubSeq(DraftTok, 1, n)
     IN  /\ IF n < QLen
            THEN /\ ssm' = inter[IF n = 1 THEN 1 ELSE n - 1]
                 /\ conv' = SubSeq(convIn, n + 1, n + ConvWidth)
            ELSE UNCHANGED <<ssm, conv>>
         /\ lastTok' = posterior[n]
         /\ kv' = SubSeq(kv, 1, committed + n)
         /\ Emit(toks)
         /\ Advance(toks)
  /\ DropRound
  /\ UNCHANGED <<strategy, prompt, backup, walk, final>>

\* Fast rollback: no bonus token, it becomes the next round's last_tok.
CommitFast ==
  /\ phase = "accept"
  /\ strategy # "legacy"
  /\ LET n == Min({AcceptN, Room})
         toks == SubSeq(DraftTok, 1, n)
     IN  /\ IF n < QLen
            THEN ssm' = inter[n] /\ conv' = SubSeq(convIn, n + 1, n + ConvWidth)
            ELSE UNCHANGED <<ssm, conv>>
         /\ lastTok' = posterior[n]
         /\ kv' = SubSeq(kv, 1, committed + n)
         /\ Emit(toks)
         /\ Advance(toks)
  /\ DropRound
  /\ UNCHANGED <<strategy, prompt, backup, walk, final>>

\* Mutant: the bonus token is not clipped to the generation budget.
ReplayUnclipped ==
  LET n == AcceptN
  IN  IF n < QLen THEN Append(SubSeq(DraftTok, 1, n), posterior[n]) ELSE DraftTok

\* Legacy: the accepted tokens and, if the budget has room, the target's
\* correction after them.
Replay ==
  LET n == AcceptN
  IN  IF n < QLen /\ n < Room THEN Append(SubSeq(DraftTok, 1, n), posterior[n])
      ELSE SubSeq(DraftTok, 1, Min({n, Room}))

\* Legacy: restore the saved state and run the committed tokens again.
CommitLegacy ==
  /\ phase = "accept"
  /\ strategy = "legacy"
  /\ LET b == Chain(Replay)
     IN  /\ Forward(backup[1], backup[2], b)
         /\ lastTok' = Choice(backup[1], backup[2], b, Len(b))
         /\ Emit(Replay)
         /\ Advance(Replay)
  /\ DropRound
  /\ UNCHANGED <<strategy, prompt, backup, walk, final>>

-----------------------------------------------------------------------------
(* Tree: walk, guards, roll back, compact, commit                          *)

\* follow_verified_tree: children of the last accepted slot that carry the
\* target's choice.
Matching == {n \in DOMAIN block : block[n].parent = Last(accepted)
                                  /\ block[n].tok = posterior[Last(accepted)]}

Walk ==
  /\ phase = "walk"
  /\ \E n \in Matching : accepted' = Append(accepted, n)
  /\ UNCHANGED <<strategy, prompt, phase, out, committed, lastTok, cache, tree, verified,
                 copied, final>>

\* What the sibling guard leaves (slots beyond the spine's), and of that what
\* the confidence guard leaves (log-probability -4).
Truncated ==
  Max({n \in 1..Len(accepted) : \A i \in 1..n :
         /\ accepted[i] <= QLen
         /\ i > 1 => top[block[accepted[i]].depth][1].lp >= -4})

\* Slots of the path that are committed.  The count was taken before the
\* guards: past the truncated path the code reads what the vector does not
\* hold, here any slot of the block.
CommitPaths ==
  {p \in [1..Min({Len(accepted), Room}) -> DOMAIN block] :
     \A i \in DOMAIN p : i <= Truncated => p[i] = accepted[i]}

\* Parent of a slot; before the root, the columns of the old convolution state.
Up(n) == IF n >= 1 THEN block[n].parent ELSE n - 1

\* The convolution state after slot n: three columns along its ancestry.
ConvAfter(n) == <<convIn[3 + Up(Up(n))], convIn[3 + Up(n)], convIn[3 + n]>>

\* Emit the path and roll the recurrent and convolution states back to its
\* last slot, unless an end-of-sequence token ends the loop first.
CommitTree ==
  /\ phase = "walk"
  /\ Matching = {}
  /\ \E path \in CommitPaths :
       LET toks == [i \in 1..Len(path) |-> block[path[i]].tok]
       IN  /\ Emit(toks)
           /\ accepted' = path
           /\ phase' = IF Len(path) > Truncated THEN "undefined"
                       ELSE IF HasEos(toks) THEN "break" ELSE "compact"
           /\ IF HasEos(toks) THEN UNCHANGED <<ssm, conv>>
              ELSE ssm' = inter[Last(path)] /\ conv' = ConvAfter(Last(path))
  /\ lastTok' = posterior[accepted[Truncated]]
  /\ copied' = 1
  /\ DropRound
  /\ UNCHANGED <<strategy, prompt, committed, kv, backup, final>>

\* Mutant: the source slot is not relative to the block.
CompactAbsolute ==
  /\ phase = "compact"
  /\ copied < Len(accepted)
  /\ LET d == copied + 1
     IN  kv' = [kv EXCEPT ![committed + d] = kv[accepted[d]]]
  /\ copied' = copied + 1
  /\ UNCHANGED <<strategy, prompt, phase, out, committed, lastTok, ssm, conv, backup, tree,
                 verified, accepted, final>>

\* KV compaction, one position of the path at a time, in place.
Compact ==
  /\ phase = "compact"
  /\ copied < Len(accepted)
  /\ LET d == copied + 1
     IN  kv' = [kv EXCEPT ![committed + d] = kv[committed + accepted[d]]]
  /\ copied' = copied + 1
  /\ UNCHANGED <<strategy, prompt, phase, out, committed, lastTok, ssm, conv, backup, tree,
                 verified, accepted, final>>

Compacted ==
  /\ phase = "compact"
  /\ copied = Len(accepted)
  /\ committed' = committed + Len(accepted)
  /\ kv' = SubSeq(kv, 1, committed')
  /\ accepted' = <<1>>
  /\ copied' = 1
  /\ phase' = "loop"
  /\ UNCHANGED <<strategy, prompt, out, lastTok, ssm, conv, backup, tree, verified, final>>

-----------------------------------------------------------------------------
\* Mutant: an end-of-sequence token leaves the request unfinished.
FinishAtBudget ==
  /\ phase = "loop" /\ Room <= 0
  /\ curPos' = Len(out)
  /\ curTok' = lastTok
  /\ phase' = "done"
  /\ UNCHANGED <<strategy, prompt, out, committed, lastTok, cache, tree, verified, walk>>

\* The request ends: cur_pos and last_tok are set for a later SNAPSHOT, and
\* -1 closes the stream.
Finish ==
  /\ phase = "break" \/ (phase = "loop" /\ Room <= 0)
  /\ curPos' = Len(out)
  /\ curTok' = lastTok
  /\ phase' = "done"
  /\ UNCHANGED <<strategy, prompt, out, committed, lastTok, cache, tree, verified, walk>>

Init ==
  /\ strategy \in Strategies
  /\ prompt \in Prompts
  /\ phase = "loop"
  /\ out = prompt
  /\ committed = Len(prompt)
  /\ lastTok = Target(prompt)
  /\ kv = Prefixed(prompt)
  /\ ssm = prompt
  /\ conv = Window(prompt)
  /\ backup = <<prompt, Window(prompt)>>
  /\ top = <<>>
  /\ block = <<>>
  /\ heap = {}
  /\ posterior = <<>>
  /\ inter = <<>>
  /\ convIn = <<>>
  /\ accepted = <<1>>
  /\ copied = 1
  /\ curPos = 0
  /\ curTok = Pad

Next ==
  \/ Draft \/ Seed \/ Grow \/ Guard
  \/ VerifyChain \/ CommitFast \/ CommitLegacy
  \/ VerifyTree \/ Walk \/ CommitTree \/ Compact \/ Compacted
  \/ Finish

Spec == Init /\ [][Next]_vars

\* The loop runs in one thread that nothing blocks.
FairSpec == Spec /\ WF_vars(Next)

-----------------------------------------------------------------------------
(* Properties                                                              *)

Slots == [tok : Token, parent : Nat, depth : Nat, sees : SUBSET Nat, path : Seq(Token)]

\* Every variable stays in its domain; in particular the target never chooses
\* from an inconsistent state (Garbled is no token).
TypeOK ==
  /\ strategy \in Strategies
  /\ prompt \in Prompts
  /\ phase \in {"loop", "seed", "grow", "chain", "tree", "accept", "walk", "compact",
                "break", "done", "undefined"}
  /\ out \in Seq(Token)
  /\ committed \in Nat
  /\ lastTok \in Token
  /\ kv \in Seq(Seq(Token))
  /\ ssm \in Seq(Token)
  /\ conv \in Seq(Token \cup {Pad})
  /\ backup \in Seq(Token) \X Seq(Token \cup {Pad})
  /\ top \in Seq(Seq(Candidate))
  /\ block \in Seq(Slots)
  /\ heap \subseteq [parent : Nat, depth : Nat, rank : Nat, logw : Int]
  /\ posterior \in Seq(Token)
  /\ inter \in Seq(Seq(Token))
  /\ convIn \in Seq(Token \cup {Pad})
  /\ accepted \in Seq(Nat)
  /\ copied \in Nat
  /\ curPos \in Nat
  /\ curTok \in Token \cup {Pad}

Greedy(s) == \A i \in (Len(prompt) + 1)..Len(s) : s[i] = Target(SubSeq(s, 1, i - 1))

\* Every strategy emits the target's own greedy continuation and never more
\* than n_gen tokens of it, whatever the draft proposes ("Identical output
\* stream"), as long as no guard has cut a path.
StreamIsGreedy ==
  phase # "undefined" => Greedy(out) /\ Len(out) <= Len(prompt) + NGen

\* At the loop head attention, recurrent and convolution state all stand at
\* the end of what was emitted, and last_tok is the target's next choice.
StateMatchesStream ==
  phase = "loop" =>
    /\ committed = Len(out)
    /\ SubSeq(kv, 1, committed) = Prefixed(out)
    /\ ssm = out
    /\ conv = Window(out)
    /\ Room > 0 => lastTok = Target(out)

\* What a SNAPSHOT taken now would store is the state at cur_pos.
EndConsistent ==
  phase = "done" =>
    /\ curPos = Len(out)
    /\ SubSeq(kv, 1, curPos) = Prefixed(out)
    /\ ssm = out
    /\ conv = Window(out)
    /\ curTok = Target(out)

\* The chain strategies leave a cache that can be snapshotted, also when an
\* end-of-sequence token or the budget cut the last block.
ChainEndConsistent == ~Tree => EndConsistent

\* A verify pass writes only slots the KV cache has (scripts/run.py 147 sizes the
\* context so that it "covers q_len=16 + ddtree budget up to 22 with margin").
\* The daemon's own admission does not ensure it: see OverrunBounded.
BlockFits ==
  /\ phase \in {"seed", "chain"} => committed + QLen <= MaxCtx
  /\ phase = "tree" => committed + Len(block) <= MaxCtx

\* The slots by which a tree may exceed the block that the admission test
\* (test_dflash.cpp 1967) reckons with.
Excess == IF Budget > QLen THEN Budget - QLen ELSE 0

\* A verified chain, also the one the guard falls back to from a tree, lies
\* within the KV cache; a tree ends past it by at most Excess slots, however
\* the rounds before it were cut, and within it if the budget is at most QLen.
OverrunBounded ==
  /\ phase \in {"seed", "grow", "chain"} => committed + QLen <= MaxCtx
  /\ phase = "tree" => committed + Len(block) <= MaxCtx + Excess

\* A seeded tree accepts at least what the chain would have ("guarantees AL >=
\* chain mode"), when the budget covers the block.
SeededCoversChain ==
  phase = "walk" /\ strategy = "seeded" /\ Matching = {} /\ Budget >= L =>
    \A n \in 1..QLen :
      (\A i \in 1..(n - 1) : DraftTok[i + 1] = Target(out \o SubSeq(DraftTok, 1, i)))
        => Len(accepted) >= n

\* The quality guard rejects a tree only for a path worse than the chain; not so
\* (README, further observations).
FallbackOnlyIfWorse ==
  phase = "grow" /\ ~Growing /\ FallsBack => WorseThanChain

\* No guard makes the loop emit anything but the greedy continuation; not so
\* either.
GuardsKeepStream == Greedy(out)

\* Every request ends: each round commits at least one token.
Ends == <>(phase \in {"done", "undefined"})
=============================================================================
