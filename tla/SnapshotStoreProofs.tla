------------------------ MODULE SnapshotStoreProofs ------------------------
(***************************************************************************)
(* Theorems about SnapshotStore, for every vocabulary, set of prompts,     *)
(* ubatch and number of slots, and any failing allocation: however prefill *)
(* is cut and whatever it resumes, decoding starts from the state of the   *)
(* prompt, what is snapshotted can be resumed, and a chain of thin         *)
(* snapshots without a gap puts the attention state back.                  *)
(***************************************************************************)
EXTENDS SnapshotStore, SequenceTheorems, WellFoundedInduction, TLAPS

-----------------------------------------------------------------------------
(* Hypothesis                                                              *)

\* A choice of the target is a token.
TargetChooses == \A s \in Seq(Token) : Target(s) \in Token

-----------------------------------------------------------------------------
(* The cache                                                               *)

Ctx == Seq(Token)

IsCache(c) ==
  /\ c = [kv |-> c.kv, ssm |-> c.ssm, curPos |-> c.curPos, lastTok |-> c.lastTok,
          skewed |-> c.skewed]
  /\ c.skewed \in BOOLEAN /\ c.curPos \in Nat

\* Both parts of the cache stand after the tokens s.
Stands(c, s) == c.ssm = s /\ c.kv = Prefixed(s)

\* A cache at rest: what a snapshot must store to be resumed.
Sound(c) ==
  /\ c.ssm \in Ctx
  /\ Stands(c, c.ssm)
  /\ c.curPos = Len(c.ssm)
  /\ c.lastTok = IF c.ssm = <<>> THEN None ELSE Target(c.ssm)

Good(c) == IsCache(c) /\ (~c.skewed => Sound(c))

LEMMA MinTwo ==
  ASSUME NEW a \in Int, NEW b \in Int
  PROVE  Min({a, b}) = IF a <= b THEN a ELSE b
<1>1. \E x \in {a, b} : \A y \in {a, b} : x <= y
  OBVIOUS
<1>2. Min({a, b}) \in {a, b} /\ \A y \in {a, b} : Min({a, b}) <= y
  BY <1>1 DEF Min
<1>3. QED
  BY <1>2

LEMMA CtxNotBroken ==
  ASSUME NEW s \in Ctx
  PROVE  s # Broken
BY TokenAssumption DEF Ctx, Broken

LEMMA PrefixedWhole ==
  ASSUME NEW S, NEW s \in Seq(S)
  PROVE  /\ Prefixed(s) \in Seq(Seq(S)) /\ Len(Prefixed(s)) = Len(s)
         /\ SubSeq(Prefixed(s), 1, Len(s)) = Prefixed(s)
<1>1. Prefixed(s) \in Seq(Seq(S)) /\ Len(Prefixed(s)) = Len(s)
  BY SubSeqProperties DEF Prefixed
<1>2. QED
  BY <1>1

\* A pass over a cache that stands after its context.
LEMMA ForwardStands ==
  ASSUME NEW c, IsCache(c), c.ssm \in Ctx, Stands(c, c.ssm), NEW toks
  PROVE  /\ Forward(c, Len(c.ssm), toks)
              = [kv |-> Prefixed(c.ssm \o toks), ssm |-> c.ssm \o toks, curPos |-> c.curPos,
                 lastTok |-> c.lastTok, skewed |-> c.skewed]
         /\ Choice(c, Len(c.ssm), toks) = Target(c.ssm \o toks)
<1>1. Len(c.kv) >= Len(c.ssm) /\ SubSeq(c.kv, 1, Len(c.ssm)) = Prefixed(c.ssm)
  BY PrefixedWhole DEF Stands, Ctx
<1>2. Aligned(c, Len(c.ssm))
  BY <1>1, CtxNotBroken DEF Aligned
<1>3. Forward(c, Len(c.ssm), toks) = [c EXCEPT !.kv = Prefixed(c.ssm \o toks), !.ssm = @ \o toks]
  BY <1>2 DEF Forward
<1>4. QED
  BY <1>2, <1>3 DEF IsCache, Choice

\* What a pass leaves alone in any case.
LEMMA ForwardKeeps ==
  ASSUME NEW c, IsCache(c), NEW start, NEW toks
  PROVE  /\ IsCache(Forward(c, start, toks))
         /\ Forward(c, start, toks).skewed = c.skewed
<1>1. CASE Aligned(c, start)
  BY <1>1 DEF Forward, IsCache
<1>2. CASE ~Aligned(c, start)
  BY <1>2 DEF Forward, IsCache
<1>3. QED
  BY <1>1, <1>2

\* Prefixes of a prompt.
LEMMA PrefixGrows ==
  ASSUME NEW p \in Ctx, NEW m \in Nat, NEW k \in Nat, m + k <= Len(p)
  PROVE  /\ SubSeq(p, 1, m) \in Ctx /\ Len(SubSeq(p, 1, m)) = m
         /\ SubSeq(p, 1, m) \o SubSeq(p, m + 1, m + k) = SubSeq(p, 1, m + k)
<1>1. /\ SubSeq(p, 1, m) \in Ctx /\ Len(SubSeq(p, 1, m)) = m
      /\ \A i \in 1..m : SubSeq(p, 1, m)[i] = p[i]
  BY SubSeqProperties DEF Ctx
<1>2. /\ SubSeq(p, m + 1, m + k) \in Ctx /\ Len(SubSeq(p, m + 1, m + k)) = k
      /\ \A i \in 1..k : SubSeq(p, m + 1, m + k)[i] = p[m + i]
  BY SubSeqProperties DEF Ctx
<1>3. /\ SubSeq(p, 1, m + k) \in Ctx /\ Len(SubSeq(p, 1, m + k)) = m + k
      /\ \A i \in 1..(m + k) : SubSeq(p, 1, m + k)[i] = p[i]
  BY SubSeqProperties DEF Ctx
<1> DEFINE a == SubSeq(p, 1, m)
           b == SubSeq(p, m + 1, m + k)
           d == SubSeq(p, 1, m + k)
<1> HIDE DEF a, b, d
<1>4. a \o b = d
  <2>1. a \in Ctx /\ b \in Ctx /\ d \in Ctx /\ Len(a) = m /\ Len(b) = k /\ Len(d) = m + k
        /\ (\A i \in 1..m : a[i] = p[i]) /\ (\A i \in 1..k : b[i] = p[m + i])
        /\ (\A i \in 1..(m + k) : d[i] = p[i])
    BY <1>1, <1>2, <1>3 DEF a, b, d
  <2>a. a \in Seq(Token) /\ b \in Seq(Token)
    BY <2>1 DEF Ctx
  <2>b. /\ a \o b \in Seq(Token) /\ Len(a \o b) = Len(a) + Len(b)
        /\ \A i \in 1..(Len(a) + Len(b)) :
             (a \o b)[i] = IF i <= Len(a) THEN a[i] ELSE b[i - Len(a)]
    BY <2>a, ConcatProperties
  <2>2. a \o b \in Ctx /\ Len(a \o b) = m + k
    BY <2>1, <2>b DEF Ctx
  <2>3. \A i \in 1..(m + k) : (a \o b)[i] = d[i]
    <3> SUFFICES ASSUME NEW i \in 1..(m + k) PROVE (a \o b)[i] = d[i]
      OBVIOUS
    <3>1. CASE i <= m
      <4>1. i \in 1..Len(a)
        BY <2>1, <3>1
      <4>2. (a \o b)[i] = a[i]
        BY <2>1, <2>b, <4>1
      <4>3. QED
        BY <2>1, <3>1, <4>2
    <3>2. CASE ~(i <= m)
      <4>1. i - m \in 1..k /\ m + (i - m) = i
        BY <3>2
      <4>2. (a \o b)[i] = b[i - m]
        BY <2>1, <2>b, <3>2, <4>1
      <4>3. b[i - m] = p[i]
        BY <2>1, <4>1
      <4>4. d[i] = p[i]
        BY <2>1
      <4>5. QED
        BY <4>2, <4>3, <4>4
    <3>3. QED
      BY <3>1, <3>2
  <2>4. QED
    BY <2>1, <2>2, <2>3, SeqEqual DEF Ctx
<1>5. QED
  BY <1>1, <1>4 DEF a, b, d

\* A restored cache that holds a prefix of the prompt stands after that prefix.
LEMMA HeldPrefix ==
  ASSUME NEW c, Sound(c), NEW p \in Ctx, HoldsPrefix(c, p)
  PROVE  c.curPos <= Len(p) /\ c.ssm = SubSeq(p, 1, c.curPos)
<1> DEFINE n == Len(c.ssm)
<1>1. /\ n \in Nat /\ c.curPos = n /\ c.kv = Prefixed(c.ssm) /\ c.ssm \in Seq(Token)
      /\ Len(c.kv) = n /\ Len(Prefixed(p)) = Len(p) /\ Len(p) \in Nat
  BY PrefixedWhole DEF Sound, Stands, Ctx
<1>2. n <= Len(p) /\ SubSeq(c.kv, 1, n) = SubSeq(Prefixed(p), 1, n)
  BY <1>1 DEF HoldsPrefix, IsPrefix
<1>3. CASE n = 0
  <2>1. c.ssm = <<>>
    BY <1>1, <1>3
  <2>2. SubSeq(p, 1, 0) = <<>>
    BY DEF Ctx
  <2>3. QED
    BY <1>1, <1>2, <1>3, <2>1, <2>2
<1>4. CASE n > 0
  <2>1. c.kv[n] = SubSeq(c.ssm, 1, n) /\ Prefixed(p)[n] = SubSeq(p, 1, n)
    BY <1>1, <1>2, <1>4 DEF Prefixed
  <2>2. SubSeq(c.ssm, 1, n) = c.ssm
    BY <1>1
  <2>3. SubSeq(c.kv, 1, n)[n] = c.kv[n] /\ SubSeq(Prefixed(p), 1, n)[n] = Prefixed(p)[n]
    <3>1. c.kv \in Seq(Ctx) /\ Prefixed(p) \in Seq(Ctx)
      BY <1>1, PrefixedWhole DEF Ctx
    <3>2. QED
      BY <1>1, <1>2, <1>4, <3>1, SubSeqProperties
  <2>4. QED
    BY <1>1, <1>2, <2>1, <2>2, <2>3
<1>5. QED
  BY <1>1, <1>3, <1>4

-----------------------------------------------------------------------------
(* The invariant                                                           *)

SnapsInv ==
  /\ snaps = [s \in Slot |-> snaps[s]]
  /\ \A s \in Slot : snaps[s].kind = "thick" =>
       snaps[s] = Thick(snaps[s].cache) /\ Good(snaps[s].cache)

IsJob(j) ==
  /\ j = [prompt |-> j.prompt, nGen |-> j.nGen, asked |-> j.asked, snap |-> j.snap,
          from |-> j.from, start |-> j.start, committed |-> j.committed, made |-> j.made,
          tok |-> j.tok]
  /\ j.prompt \in Prompts \ {<<>>} /\ j.nGen \in NGens
  /\ j.from \in Nat /\ j.start \in Nat /\ j.committed \in Nat /\ j.made \in Nat
  /\ j.asked # None => j.asked \in Snap /\ j.asked.pos <= Len(j.prompt)
  /\ j.snap \in {None, j.asked}

\* Tokens of the prompt the cache stands after.
Pos == IF job.start < Len(job.prompt) THEN job.start ELSE Len(job.prompt)

\* Nothing was run yet: the cache is as it was restored.
Untouched ==
  /\ job.start = job.from /\ job.tok = None /\ job.committed = 0 /\ Pos = job.from
  /\ Sound(cache) /\ cache.curPos = job.from

\* At least one ubatch was run, and what comes next is known.
Underway ==
  /\ job.start > job.from
  /\ job.committed = Pos /\ Pos > 0
  /\ job.tok = Target(cache.ssm)

\* The snapshot asked for is in its slot, unless the slot could not be allocated.
Taken ==
  IF snaps[job.asked.slot] = Empty THEN "oom" \in Faults
  ELSE snaps[job.asked.slot].cache.ssm = SubSeq(job.prompt, 1, job.asked.pos)

\* A snapshot that was asked for is taken, or its position is still ahead, or it
\* was before the restored position from the start.
SnapAhead ==
  IF job.snap = None THEN job.asked # None => Taken
  ELSE \/ job.snap.pos < job.from
       \/ job.snap.pos > Pos
       \/ job.snap.pos = Pos /\ job.start = job.from

PrefillInv ==
  /\ job.made = 0
  /\ IF layer THEN Sound(cache) /\ cache.curPos = job.from
     ELSE /\ Stands(cache, SubSeq(job.prompt, 1, Pos))
          /\ Untouched \/ Underway
          /\ SnapAhead

SnapDone ==
  ~layer /\ job.asked # None /\ job.asked.pos >= job.from /\ job.from < Len(job.prompt)
    => Taken

DecodeInv ==
  /\ cache.ssm \in Ctx \ {<<>>}
  /\ Stands(cache, cache.ssm)
  /\ job.committed = Len(cache.ssm) /\ job.committed = Len(job.prompt) + job.made
  /\ job.tok = Target(cache.ssm)
  /\ phase = "decode" => cache.ssm = job.prompt /\ SnapDone

Inv ==
  /\ IsCache(cache)
  /\ SnapsInv
  /\ layer \in BOOLEAN
  /\ phase \in {"idle", "prefill", "decode", "decoding", "exited"}
  /\ phase = "idle" => Good(cache)
  /\ phase \in {"prefill", "decode", "decoding"} =>
       /\ IsJob(job)
       /\ ~cache.skewed => IF phase = "prefill" THEN PrefillInv ELSE DecodeInv

-----------------------------------------------------------------------------
(* The attention state, of a skewed cache as well                          *)

\* What a KV slot or the recurrent state may stand after.
State == Ctx \cup {Broken}

\* Only inconsistent state has chosen Garbled.
Seqs(c) ==
  /\ c.kv \in Seq(State) /\ c.ssm \in State
  /\ c.lastTok \in Token \cup {None, Garbled}
  /\ c.lastTok = Garbled => c.ssm = Broken

\* The KV slots end at the position.
Level(c) == Len(c.kv) = c.curPos

SnapsLevel ==
  /\ \A s \in Slot : snaps[s].kind = "thick" => Seqs(snaps[s].cache) /\ Level(snaps[s].cache)
  /\ \A s \in Slot : snaps[s].kind = "thin" =>
       snaps[s].from \in Nat /\ snaps[s].to \in Nat /\ snaps[s].from < snaps[s].to

\* As long as nothing was run the KV slots are those of the prompt.
PrefillLevel ==
  /\ job.made = 0
  /\ job.from <= job.start /\ job.from <= Len(job.prompt)
  /\ Len(cache.kv) = Pos
  /\ IF job.start = job.from
     THEN job.tok = None /\ cache.kv = SubSeq(Prefixed(job.prompt), 1, job.from)
     ELSE job.tok # None /\ job.committed = Pos

DecodeLevel ==
  /\ Len(cache.kv) = Len(job.prompt) + job.made
  /\ job.tok # None => job.committed = Len(cache.kv)

LevelInv ==
  /\ Seqs(cache)
  /\ SnapsLevel
  /\ phase = "idle" => Level(cache)
  /\ phase \in {"prefill", "decode", "decoding"} =>
       /\ job.tok \in Token \cup {None, Garbled} /\ (job.tok = Garbled => cache.ssm = Broken)
       /\ IF phase = "prefill" THEN PrefillLevel ELSE DecodeLevel

-----------------------------------------------------------------------------
(* Snapshots                                                               *)

\* Storing a sound cache, or one from a skewing restore, keeps the slots good.
LEMMA StoreKeepsSnaps ==
  ASSUME SnapsInv, NEW s \in Slot, NEW c, Good(c), snaps' \in AfterSnapshot(s, c)
  PROVE  /\ SnapsInv'
         /\ IF snaps'[s] = Empty THEN "oom" \in Faults ELSE snaps'[s] = Thick(c)
<1>1. CASE snaps' = [snaps EXCEPT ![s] = Thick(c)]
  <2>1. snaps'[s] = Thick(c) /\ snaps' = [t \in Slot |-> snaps'[t]]
        /\ \A t \in Slot \ {s} : snaps'[t] = snaps[t]
    BY <1>1 DEF SnapsInv
  <2>2. Thick(c).cache = c /\ Thick(c) # Empty
    BY DEF Thick, Empty
  <2>3. QED
    BY <2>1, <2>2 DEF SnapsInv
<1>2. CASE snaps' = snaps /\ snaps[s] = Empty /\ "oom" \in Faults
  BY <1>2 DEF SnapsInv
<1>3. QED
  BY <1>1, <1>2 DEF AfterSnapshot

\* A thin snapshot or an empty slot is no thick one.
LEMMA NoThickKeepsSnaps ==
  ASSUME SnapsInv, NEW s \in Slot, NEW x, x.kind # "thick",
         snaps' = [snaps EXCEPT ![s] = x]
  PROVE  SnapsInv'
<1>1. snaps'[s] = x /\ snaps' = [t \in Slot |-> snaps'[t]]
      /\ \A t \in Slot \ {s} : snaps'[t] = snaps[t]
  BY DEF SnapsInv
<1>2. QED
  BY <1>1 DEF SnapsInv

\* The empty cache.
LEMMA FreshGood == Good(Fresh)
<1>1. Prefixed(<<>>) = <<>>
  BY DEF Prefixed
<1>2. QED
  BY <1>1 DEF Good, Fresh, IsCache, Sound, Stands, Ctx

LEMMA FreshLevel == IsCache(Fresh) /\ Seqs(Fresh) /\ Level(Fresh)
<1>1. <<>> \in Seq(State) /\ <<>> \in State /\ Len(<<>>) = 0
  BY DEF State, Ctx
<1>2. None # Garbled
  BY TokenAssumption
<1>3. QED
  BY <1>1, <1>2 DEF Fresh, IsCache, Seqs, Level

-----------------------------------------------------------------------------
(* Chains                                                                  *)

\* A set of naturals has a least element, and one with a bound a greatest.
LEMMA MinExists ==
  ASSUME NEW T, T \subseteq Nat, T # {}
  PROVE  \E x \in T : \A y \in T : x <= y
<1>1. PICK x \in T : \A y \in T : <<y, x>> \notin OpToRel(<, Nat)
  BY NatLessThanWellFounded, WFMin, Zenon
<1>2. \A y \in T : ~(y < x)
  BY <1>1, Zenon DEF OpToRel
<1>3. \A y \in T : x <= y
  BY <1>2
<1>4. QED
  BY <1>3

LEMMA MaxExists ==
  ASSUME NEW q \in Nat, NEW S \in SUBSET (0..q), S # {}
  PROVE  Max(S) \in S /\ \A n \in S : n <= Max(S)
<1> DEFINE T == {q - n : n \in S}
<1>1. \A n \in S : n \in 0..q /\ q - n \in Nat
  OBVIOUS
<1>2. T \subseteq Nat /\ T # {}
  BY <1>1
<1>3. \A n \in S : q - n \in T
  OBVIOUS
<1>4. \A x \in T : \E m \in S : x = q - m
  OBVIOUS
<1> HIDE DEF T
<1>5. PICK x \in T : \A y \in T : x <= y
  BY <1>2, MinExists
<1>6. PICK m \in S : x = q - m
  BY <1>4
<1>7. ASSUME NEW n \in S PROVE m >= n
  <2>1. q - m <= q - n /\ m \in 0..q /\ n \in 0..q
    BY <1>1, <1>3, <1>5, <1>6
  <2>2. QED
    BY <2>1
<1>8. Max(S) \in S /\ \A n \in S : Max(S) >= n
  BY <1>7 DEF Max
<1>9. \A n \in S : n \in Int
  BY <1>1
<1>10. QED
  BY <1>8, <1>9

\* The thin snapshots of a chain are pieces of p, and each starts at or before pos
\* or behind the start of another that reaches it.
Parts(thins, p, pos) ==
  \A n \in DOMAIN thins :
    LET t == snaps[thins[n]]
    IN  /\ thins[n] \in Slot
        /\ t.from \in Nat /\ t.to \in Nat /\ t.from < t.to /\ t.to <= Len(p)
        /\ t.kv = SubSeq(Prefixed(p), t.from + 1, t.to)
        /\ \/ t.from <= pos
           \/ \E m \in DOMAIN thins :
                snaps[thins[m]].from < t.from /\ t.from <= snaps[thins[m]].to

\* The thin snapshots of a chain, and the cache it starts from.
LEMMA ChainParts ==
  ASSUME Inv, LevelInv, NEW p \in Ctx, NEW base \in Slot \cup {None},
         NEW thins \in SeqOf(Slot, MaxThins), HoldChain(base, thins, p),
         NEW b, b = IF base = None THEN Fresh ELSE Restored(base)
  PROVE  /\ Good(b) /\ Seqs(b) /\ Level(b) /\ b.curPos <= Len(p) /\ HoldsPrefix(b, p)
         /\ \E k \in Nat : DOMAIN thins = 1..k
         /\ Parts(thins, p, b.curPos)
<1>1. PICK k \in 0..MaxThins : thins \in [1..k -> Slot]
  BY Zenon DEF SeqOf
<1>2. k \in Nat /\ DOMAIN thins = 1..k
  BY <1>1, SizeAssumption
<1>3. \A n \in DOMAIN thins : thins[n] \in Slot /\ thins[n] \in ToSet(thins)
  BY <1>1 DEF ToSet
<1>4. \A s \in ToSet(thins) : \E m \in DOMAIN thins : thins[m] = s
  BY DEF ToSet
<1>5. /\ Good(b) /\ Seqs(b) /\ Level(b) /\ HoldsPrefix(b, p)
  <2>1. CASE base = None
    <3>1. b = Fresh /\ HoldsPrefix(Fresh, p)
      BY <2>1, PrefixedWhole DEF HoldsPrefix, IsPrefix, Fresh, Ctx
    <3>2. QED
      BY <3>1, FreshGood, FreshLevel
  <2>2. CASE base # None
    <3>1. base \in Slot /\ snaps[base].kind = "thick" /\ b = snaps[base].cache
          /\ HoldsPrefix(b, p)
      BY <2>2 DEF HoldChain, Restored
    <3>2. QED
      BY <3>1 DEF Inv, SnapsInv, LevelInv, SnapsLevel
  <2>3. QED
    BY <2>1, <2>2
<1>6. b.curPos \in Nat /\ b.curPos <= Len(p)
  <2>1. Len(b.kv) <= Len(Prefixed(p)) /\ Len(Prefixed(p)) = Len(p)
    BY <1>5, PrefixedWhole DEF HoldsPrefix, IsPrefix, Ctx
  <2>2. QED
    BY <1>5, <2>1 DEF Level, Good, IsCache
<1>7. ASSUME NEW n \in DOMAIN thins
      PROVE  LET t == snaps[thins[n]]
             IN  /\ thins[n] \in Slot
                 /\ t.from \in Nat /\ t.to \in Nat /\ t.from < t.to /\ t.to <= Len(p)
                 /\ t.kv = SubSeq(Prefixed(p), t.from + 1, t.to)
                 /\ \/ t.from <= b.curPos
                    \/ \E m \in DOMAIN thins :
                         snaps[thins[m]].from < t.from /\ t.from <= snaps[thins[m]].to
  <2> DEFINE s == thins[n]
             t == snaps[s]
  <2>1. s \in Slot /\ s \in ToSet(thins)
    BY <1>3
  <2>2. t.kind = "thin" /\ t.to <= Len(p) /\ t.kv = SubSeq(Prefixed(p), t.from + 1, t.to)
    BY <2>1 DEF HoldChain
  <2>3. t.from \in Nat /\ t.to \in Nat /\ t.from < t.to
    BY <2>1, <2>2 DEF LevelInv, SnapsLevel
  <2>4. \/ t.from = 0
        \/ base # None /\ t.from <= snaps[base].cache.curPos
        \/ \E u \in ToSet(thins) : u # s /\ t.from \in (snaps[u].from + 1)..snaps[u].to
    BY <2>1, Zenon DEF HoldChain
  <2>5. CASE t.from = 0
    BY <1>6, <2>1, <2>2, <2>3, <2>5
  <2>6. CASE base # None /\ t.from <= snaps[base].cache.curPos
    BY <2>1, <2>2, <2>3, <2>6 DEF Restored
  <2>7. CASE \E u \in ToSet(thins) : u # s /\ t.from \in (snaps[u].from + 1)..snaps[u].to
    <3>1. PICK u \in ToSet(thins) : t.from \in (snaps[u].from + 1)..snaps[u].to
      BY <2>7
    <3>2. PICK m \in DOMAIN thins : thins[m] = u
      BY <1>4
    <3>3. u \in Slot /\ snaps[u].kind = "thin"
      BY <1>3, <3>2 DEF HoldChain
    <3>4. snaps[u].from \in Nat /\ snaps[u].to \in Nat
      BY <3>3 DEF LevelInv, SnapsLevel
    <3>5. snaps[u].from < t.from /\ t.from <= snaps[u].to
      BY <2>3, <3>1, <3>4
    <3>6. QED
      BY <2>1, <2>2, <2>3, <3>2, <3>5
  <2>8. QED
    BY <2>4, <2>5, <2>6, <2>7
<1>8. Parts(thins, p, b.curPos)
  BY <1>7 DEF Parts
<1>9. QED
  BY <1>2, <1>5, <1>6, <1>8

\* A chain without a gap: what lies between the base and the furthest end is held
\* by some thin snapshot.  Of those that reach beyond i take the one that starts
\* first: what it starts behind reaches beyond i as well and starts before it.
LEMMA NoGap ==
  ASSUME NEW thins, NEW k \in Nat, DOMAIN thins = 1..k, NEW pos \in Nat,
         \A n \in 1..k :
            LET t == snaps[thins[n]]
            IN  /\ t.from \in Nat /\ t.to \in Nat /\ t.from < t.to
                /\ \/ t.from <= pos
                   \/ \E m \in 1..k :
                        snaps[thins[m]].from < t.from /\ t.from <= snaps[thins[m]].to,
         NEW i \in Nat, i > pos, NEW l \in 1..k, i <= snaps[thins[l]].to
  PROVE  \E n \in 1..k : i \in (snaps[thins[n]].from + 1)..snaps[thins[n]].to
<1> DEFINE from(n) == snaps[thins[n]].from
           to(n) == snaps[thins[n]].to
           F == {from(n) : n \in {m \in 1..k : i <= to(m)}}
<1>1. \A n \in 1..k : /\ from(n) \in Nat /\ to(n) \in Nat
                      /\ from(n) <= pos \/ \E m \in 1..k : from(m) < from(n) /\ from(n) <= to(m)
  OBVIOUS
<1>2. i <= to(l)
  OBVIOUS
<1>3. F \subseteq Nat /\ F # {}
  BY <1>1, <1>2
<1>4. \A n \in 1..k : i <= to(n) => from(n) \in F
  OBVIOUS
<1>5. PICK x \in F : \A y \in F : x <= y
  BY <1>3, MinExists
<1>6. PICK n \in 1..k : i <= to(n) /\ x = from(n)
  OBVIOUS
<1> HIDE DEF from, to, F
<1>7. from(n) < i
  <2> SUFFICES ASSUME ~(from(n) < i) PROVE FALSE
    OBVIOUS
  <2>1. from(n) \in Nat /\ i <= from(n)
    BY <1>1
  <2>2. ~(from(n) <= pos)
    BY <2>1
  <2>3. PICK m \in 1..k : from(m) < from(n) /\ from(n) <= to(m)
    BY <1>1, <2>2
  <2>4. from(m) \in Nat /\ to(m) \in Nat /\ i <= to(m)
    BY <1>1, <2>1, <2>3
  <2>5. from(n) <= from(m)
    BY <1>4, <1>5, <1>6, <2>4
  <2>6. QED
    BY <2>1, <2>3, <2>4, <2>5
<1>8. i \in (from(n) + 1)..to(n)
  BY <1>1, <1>6, <1>7
<1>9. QED
  BY <1>8 DEF from, to

\* The first k thin snapshots are pieces of the prompt, and hold what lies behind pos.
Pieces(thins, k, p) ==
  \A n \in 1..k :
    LET t == snaps[thins[n]]
    IN  /\ t.from \in Nat /\ t.to \in Nat /\ t.to <= Len(p)
        /\ t.kv = SubSeq(Prefixed(p), t.from + 1, t.to)
Behind(thins, k, pos, end) ==
  \A i \in 1..end : i > pos =>
    \E n \in 1..k : i \in (snaps[thins[n]].from + 1)..snaps[thins[n]].to

\* The KV slots of a chain are those of the prompt, in whatever order its thin
\* snapshots come.
LEMMA LaidPrefix ==
  ASSUME NEW p \in Ctx, NEW thins, NEW k \in Nat, DOMAIN thins = 1..k,
         NEW b, b.kv \in Seq(State), Level(b), b.curPos \in Nat, HoldsPrefix(b, p),
         NEW end \in Nat, end <= Len(p), Pieces(thins, k, p),
         Behind(thins, k, b.curPos, end)
  PROVE  Laid(b.kv, thins, end) = SubSeq(Prefixed(p), 1, end)
<1> DEFINE w == Prefixed(p)
           v == Laid(b.kv, thins, end)
<1>1. w \in Seq(Ctx) /\ Len(w) = Len(p) /\ Len(p) \in Nat
  BY PrefixedWhole DEF Ctx
<1>2. SubSeq(w, 1, end) = [i \in 1..end |-> w[i]]
  <2>1. /\ SubSeq(w, 1, end) \in Seq(Ctx) /\ Len(SubSeq(w, 1, end)) = end
        /\ \A i \in 1..end : SubSeq(w, 1, end)[i] = w[i]
    <3> HIDE DEF w
    <3>1. 1 \in Int /\ end \in Int /\ \A i \in 1..end : w[i] \in Ctx
      BY <1>1, ElementOfSeq
    <3>2. QED
      BY <1>1, <3>1, SubSeqProperties
  <2> DEFINE u == SubSeq(w, 1, end)
  <2> HIDE DEF w, u
  <2>2. u = [i \in 1..Len(u) |-> u[i]]
    BY <2>1 DEF u
  <2>3. QED
    BY <2>1, <2>2 DEF u
<1>3. ASSUME NEW i \in 1..end
      PROVE  (IF Holding(thins, i) # {}
              THEN LET t == snaps[thins[Max(Holding(thins, i))]] IN t.kv[i - t.from]
              ELSE IF i <= Len(b.kv) THEN b.kv[i] ELSE <<>>) = w[i]
  <2>1. CASE Holding(thins, i) # {}
    <3> DEFINE n == Max(Holding(thins, i))
               t == snaps[thins[n]]
    <3>1. Holding(thins, i) \in SUBSET (0..k)
      BY DEF Holding
    <3>2. n \in Holding(thins, i)
      BY <2>1, <3>1, MaxExists
    <3>3. n \in 1..k /\ i \in (t.from + 1)..t.to
      BY <3>2 DEF Holding
    <3> HIDE DEF n
    <3>4. /\ t.from \in Nat /\ t.to \in Nat /\ t.to <= Len(p)
          /\ t.kv = SubSeq(w, t.from + 1, t.to)
      BY <3>3 DEF Pieces
    <3>5. t.kv[i - t.from] = w[i]
      <4> DEFINE f == t.from
                 g == t.to
      <4>1. f \in Nat /\ g \in Nat /\ g <= Len(w) /\ i \in (f + 1)..g /\ t.kv = SubSeq(w, f + 1, g)
        BY <1>1, <3>3, <3>4
      <4> HIDE DEF w, f, g
      <4>2. f + 1 \in Int /\ g \in Int /\ \A j \in (f + 1)..g : w[j] \in Ctx
        BY <1>1, <4>1, ElementOfSeq
      <4>3. \A j \in 1..(g - (f + 1) + 1) : SubSeq(w, f + 1, g)[j] = w[f + 1 + j - 1]
        BY <4>2, SubSeqProperties
      <4>4. i - f \in 1..(g - (f + 1) + 1) /\ f + 1 + (i - f) - 1 = i
        BY <4>1
      <4>5. t.kv[i - f] = w[i]
        BY <4>1, <4>3, <4>4
      <4>6. QED
        BY <4>5 DEF f
    <3>6. QED
      BY <2>1, <3>5 DEF n
  <2>2. CASE Holding(thins, i) = {}
    <3>1. i <= b.curPos
      <4>1. ~\E n \in 1..k : i \in (snaps[thins[n]].from + 1)..snaps[thins[n]].to
        BY <2>2, Zenon DEF Holding
      <4>2. ~(i > b.curPos)
        BY <4>1 DEF Behind
      <4>3. QED
        BY <4>2
    <3>2. /\ i <= Len(b.kv) /\ i \in 1..Len(b.kv) /\ Len(b.kv) \in Nat /\ Len(b.kv) <= Len(w)
          /\ SubSeq(b.kv, 1, Len(b.kv)) = SubSeq(w, 1, Len(b.kv))
      BY <3>1 DEF Level, HoldsPrefix, IsPrefix
    <3>3. SubSeq(b.kv, 1, Len(b.kv))[i] = b.kv[i] /\ SubSeq(w, 1, Len(b.kv))[i] = w[i]
      <4> DEFINE y == b.kv
      <4>1. y \in Seq(State) /\ i \in 1..Len(y) /\ Len(y) \in Nat /\ Len(y) <= Len(w)
        BY <3>2
      <4> HIDE DEF y, w
      <4>2. \A j \in 1..Len(y) : y[j] \in State /\ w[j] \in Ctx
        BY <1>1, <4>1, ElementOfSeq
      <4>3. SubSeq(y, 1, Len(y))[i] = y[1 + i - 1] /\ SubSeq(w, 1, Len(y))[i] = w[1 + i - 1]
        <5>1. i \in 1..(Len(y) - 1 + 1) /\ 1 \in Int /\ Len(y) \in Int
          BY <4>1
        <5>2. QED
          BY <4>2, <5>1, SubSeqProperties
      <4>4. QED
        BY <4>1, <4>3 DEF y
    <3>4. QED
      BY <2>2, <3>2, <3>3
  <2>3. QED
    BY <2>1, <2>2
<1>4. v = [i \in 1..end |-> w[i]]
  <2> HIDE DEF w
  <2>1. QED
    BY <1>3 DEF Laid
<1>5. QED
  BY <1>2, <1>4

\* What a chain leaves: the attention state of a prefix of the prompt, and if the
\* base reaches as far as the chain a sound cache.
LEMMA ChainRestores ==
  ASSUME Inv, LevelInv, NEW p \in Ctx, NEW base \in Slot \cup {None},
         NEW thins \in SeqOf(Slot, MaxThins), HoldChain(base, thins, p),
         NEW c, c = Chained(base, thins)
  PROVE  /\ Good(c) /\ Seqs(c) /\ Level(c) /\ HoldsPrefix(c, p)
         /\ c.curPos <= Len(p) /\ c.kv = SubSeq(Prefixed(p), 1, c.curPos)
<1> DEFINE b == IF base = None THEN Fresh ELSE Restored(base)
           end == ChainEnd(b, thins)
           w == Prefixed(p)
<1>1. /\ Good(b) /\ Seqs(b) /\ Level(b) /\ b.curPos <= Len(p) /\ HoldsPrefix(b, p)
      /\ \E k \in Nat : DOMAIN thins = 1..k
      /\ Parts(thins, p, b.curPos)
  <2> HIDE DEF b
  <2>1. b = IF base = None THEN Fresh ELSE Restored(base)
    BY DEF b
  <2>2. QED
    BY <2>1, ChainParts
<1>2. PICK k \in Nat : DOMAIN thins = 1..k
  BY <1>1
<1>3. c = [b EXCEPT !.kv = Laid(@, thins, end), !.curPos = end,
                    !.skewed = @ \/ end > b.curPos]
  BY DEF Chained
<1> HIDE DEF b, w
<1>4. w \in Seq(Ctx) /\ Len(w) = Len(p) /\ Len(p) \in Nat /\ b.curPos \in Nat
  BY <1>1, PrefixedWhole DEF Ctx, w, Good, IsCache
<1>5. /\ end \in {b.curPos} \cup {snaps[s].to : s \in ToSet(thins)}
      /\ b.curPos <= end
      /\ end \in 0..Len(p)
  <2> DEFINE S == {b.curPos} \cup {snaps[s].to : s \in ToSet(thins)}
  <2>1. \A s \in ToSet(thins) : \E n \in DOMAIN thins : s = thins[n]
    BY DEF ToSet
  <2>2. \A s \in ToSet(thins) : snaps[s].to \in 0..Len(p)
    BY <1>1, <1>4, <2>1 DEF Parts
  <2>3. S \in SUBSET (0..Len(p)) /\ S # {} /\ b.curPos \in S
    BY <1>1, <1>4, <2>2
  <2>4. end = Max(S)
    BY DEF ChainEnd
  <2> HIDE DEF S, end
  <2>5. end \in S /\ b.curPos <= end
    BY <1>4, <2>3, <2>4, MaxExists
  <2>6. QED
    BY <2>3, <2>5 DEF S
<1> HIDE DEF end
<1>6. ASSUME NEW i \in 1..end, i > b.curPos
      PROVE  \E n \in 1..k : i \in (snaps[thins[n]].from + 1)..snaps[thins[n]].to
  <2>1. end # b.curPos /\ i \in Nat /\ i <= end
    BY <1>4, <1>5, <1>6
  <2>2. PICK s \in ToSet(thins) : end = snaps[s].to
    BY <1>5, <2>1
  <2>3. PICK l \in 1..k : s = thins[l]
    BY <1>2 DEF ToSet
  <2>4. i <= snaps[thins[l]].to
    BY <2>1, <2>2, <2>3
  <2>5. \A n \in 1..k :
          LET t == snaps[thins[n]]
          IN  /\ t.from \in Nat /\ t.to \in Nat /\ t.from < t.to
              /\ \/ t.from <= b.curPos
                 \/ \E m \in 1..k :
                      snaps[thins[m]].from < t.from /\ t.from <= snaps[thins[m]].to
    BY <1>1, <1>2 DEF Parts
  <2>6. QED
    BY <1>2, <1>4, <1>6, <2>1, <2>4, <2>5, NoGap
<1>7. Laid(b.kv, thins, end) = SubSeq(w, 1, end)
  <2>1. Pieces(thins, k, p)
    BY <1>1, <1>2 DEF Pieces, Parts
  <2>2. b.kv \in Seq(State) /\ Level(b) /\ HoldsPrefix(b, p) /\ end \in Nat /\ end <= Len(p)
    BY <1>1, <1>4, <1>5 DEF Seqs
  <2>3. Behind(thins, k, b.curPos, end)
    BY <1>6 DEF Behind
  <2>4. QED
    BY <1>2, <1>4, <2>1, <2>2, <2>3, LaidPrefix DEF w
<1>8. /\ IsCache(c) /\ c.kv = SubSeq(w, 1, end) /\ c.curPos = end /\ c.ssm = b.ssm
      /\ c.lastTok = b.lastTok /\ c.skewed = (b.skewed \/ end > b.curPos)
  <2>1. IsCache(b) /\ end \in Nat
    BY <1>1, <1>5 DEF Good
  <2>2. QED
    BY <1>3, <1>7, <2>1 DEF IsCache
<1>9. /\ SubSeq(w, 1, end) \in Seq(Ctx) /\ Len(SubSeq(w, 1, end)) = end
      /\ \A i \in 1..end : SubSeq(w, 1, end)[i] = w[i]
  <2>1. 1 \in Int /\ end \in Int /\ \A i \in 1..end : w[i] \in Ctx
    BY <1>4, <1>5, ElementOfSeq
  <2>2. QED
    BY <1>5, <2>1, SubSeqProperties
<1>10. SubSeq(w, 1, end) \in Seq(State)
  BY <1>9 DEF State
<1>11. Seqs(c) /\ Level(c)
  BY <1>1, <1>8, <1>9, <1>10 DEF Seqs, Level
<1>12. HoldsPrefix(c, p)
  <2>1. Len(c.kv) = end /\ end <= Len(w) /\ end \in Nat /\ c.kv \in Seq(Ctx)
    BY <1>4, <1>5, <1>8, <1>9
  <2>2. SubSeq(c.kv, 1, Len(c.kv)) = c.kv
    BY <2>1
  <2>3. QED
    BY <1>8, <2>1, <2>2 DEF HoldsPrefix, IsPrefix, w
<1>13. ASSUME ~c.skewed PROVE Sound(c)
  <2>1. ~b.skewed /\ ~(end > b.curPos)
    BY <1>8, <1>13, Zenon
  <2>2. end = b.curPos /\ Sound(b)
    BY <1>1, <1>4, <1>5, <2>1 DEF Good
  <2>3. b.kv = c.kv
    <3> DEFINE y == b.kv
    <3>1. y \in Seq(Ctx) /\ Len(y) = end /\ SubSeq(y, 1, Len(y)) = SubSeq(w, 1, Len(y))
      <4>1. y \in Seq(Ctx)
        BY <2>2, PrefixedWhole DEF Sound, Stands, Ctx
      <4>2. QED
        BY <1>1, <2>2, <4>1 DEF HoldsPrefix, IsPrefix, Level, w
    <3> HIDE DEF y
    <3>2. SubSeq(y, 1, Len(y)) = y
      BY <3>1
    <3>3. QED
      BY <1>8, <3>1, <3>2 DEF y
  <2>4. QED
    BY <1>8, <2>2, <2>3 DEF Sound, Stands
<1>14. QED
  BY <1>5, <1>8, <1>11, <1>12, <1>13 DEF Good, w

-----------------------------------------------------------------------------
(* The clients                                                             *)

\* A request, admitted or refused.
LEMMA StartInv ==
  ASSUME Inv, phase = "idle", NEW c, Good(c), NEW p \in Prompts,
         ~c.skewed => c.curPos <= Len(p) /\ c.ssm = SubSeq(p, 1, c.curPos),
         NEW n \in NGens, NEW snap \in Snap \cup {None}, MayAsk(p, snap),
         Start(c, p, n, snap)
  PROVE  Inv'
<1> USE DEF Inv
<1>1. cache' = c /\ snaps' = snaps /\ layer' = layer /\ SnapsInv'
  BY DEF Start, SnapsInv
<1>2. CASE UNCHANGED <<phase, job>>
  BY <1>1, <1>2 DEF Good
<1>3. CASE /\ p # <<>> /\ phase' = "prefill"
           /\ job' = [prompt |-> p, nGen |-> n, asked |-> snap, snap |-> snap,
                      from |-> c.curPos, start |-> c.curPos, committed |-> 0, made |-> 0,
                      tok |-> None]
  <2>1. IsCache(c) /\ c.curPos \in Nat /\ p \in Ctx /\ Len(p) \in Nat
    BY PromptAssumption DEF Good, IsCache, Ctx
  <2>2. IsJob(job')
    BY <1>3, <2>1 DEF IsJob, MayAsk
  <2>3. ASSUME ~c.skewed PROVE PrefillInv'
    <3>1. Sound(c) /\ c.curPos <= Len(p) /\ Stands(c, SubSeq(p, 1, c.curPos))
      BY <2>3 DEF Good, Sound, Stands
    <3>2. Pos' = c.curPos
      BY <1>3, <2>1, <3>1 DEF Pos
    <3>3. Untouched'
      BY <1>1, <1>3, <3>1, <3>2 DEF Untouched
    <3>4. SnapAhead'
      <4>1. snap # None => snap.pos \in Nat
        BY SizeAssumption DEF Snap
      <4>2. QED
        BY <1>3, <2>1, <3>2, <4>1 DEF SnapAhead
    <3>5. QED
      BY <1>1, <1>3, <3>1, <3>2, <3>3, <3>4 DEF PrefillInv
  <2>4. QED
    BY <1>1, <1>3, <2>1, <2>2, <2>3
<1>4. QED
  BY <1>2, <1>3 DEF Start

\* What clients do of their own accord.
LEMMA ClientInv ==
  ASSUME Inv, LevelInv, Client
  PROVE  Inv'
<1> USE DEF Inv
<1>1. ASSUME NEW p \in Prompts, NEW n \in NGens, NEW snap \in Snap \cup {None},
             MayAsk(p, snap), BARE(p, n, snap)
      PROVE  Inv'
  <2>1. phase = "idle" /\ Start(Fresh, p, n, snap)
    BY <1>1 DEF BARE
  <2>2. Fresh.curPos <= Len(p) /\ Fresh.ssm = SubSeq(p, 1, Fresh.curPos)
    BY PromptAssumption DEF Fresh
  <2>3. QED
    BY <1>1, <2>1, <2>2, FreshGood, StartInv
<1>2. ASSUME NEW p \in Prompts, NEW n \in NGens, NEW snap \in Snap \cup {None}, NEW s \in Slot,
             MayAsk(p, snap), RESTORE(s, p, n, snap),
             snaps[s].kind = "thick" => HoldsPrefix(snaps[s].cache, p)
      PROVE  Inv'
  <2>1. CASE snaps[s].kind = "thick"
    <3>1. phase = "idle" /\ Start(snaps[s].cache, p, n, snap) /\ Good(snaps[s].cache)
      BY <1>2, <2>1 DEF RESTORE, Restored, SnapsInv
    <3>2. ~snaps[s].cache.skewed =>
            /\ snaps[s].cache.curPos <= Len(p)
            /\ snaps[s].cache.ssm = SubSeq(p, 1, snaps[s].cache.curPos)
      BY <1>2, <2>1, <3>1, HeldPrefix, PromptAssumption DEF Good, Ctx
    <3>3. QED
      BY <1>2, <3>1, <3>2, StartInv
  <2>2. CASE snaps[s].kind # "thick"
    <3>1. phase = "idle" /\ cache' = Fresh /\ UNCHANGED <<snaps, job, phase, layer>>
      BY <1>2, <2>2 DEF RESTORE
    <3>2. QED
      BY <3>1, FreshGood DEF Good, SnapsInv
  <2>3. QED
    BY <2>1, <2>2
<1>3. ASSUME NEW s \in Slot, SNAPSHOT(s)
      PROVE  Inv'
  <2>1. phase = "idle" /\ snaps' \in AfterSnapshot(s, cache)
        /\ UNCHANGED <<cache, job, phase, layer>>
    BY <1>3 DEF SNAPSHOT
  <2>2. SnapsInv'
    BY <2>1, StoreKeepsSnaps
  <2>3. QED
    BY <2>1, <2>2 DEF Good
<1>4. ASSUME NEW s \in Slot, NEW from, NEW to, SNAPSHOT_THIN(s, from, to)
      PROVE  Inv'
  <2>1. phase = "idle" /\ snaps' \in AfterSnapshotThin(s, from, to)
        /\ UNCHANGED <<cache, job, phase, layer>>
    BY <1>4 DEF SNAPSHOT_THIN
  <2>2. \/ snaps' = [snaps EXCEPT ![s] = Thin(from, to)]
        \/ snaps' = [snaps EXCEPT ![s] = Empty]
    BY <2>1 DEF AfterSnapshotThin
  <2>3. Thin(from, to).kind # "thick" /\ Empty.kind # "thick"
    BY DEF Thin, Empty
  <2>4. SnapsInv'
    BY <2>2, <2>3, NoThickKeepsSnaps
  <2>5. QED
    BY <2>1, <2>4 DEF Good
<1>5. ASSUME NEW s \in Slot, FREE_SNAPSHOT(s)
      PROVE  Inv'
  <2>1. phase = "idle" /\ snaps' = [snaps EXCEPT ![s] = Empty]
        /\ UNCHANGED <<cache, job, phase, layer>>
    BY <1>5 DEF FREE_SNAPSHOT
  <2>2. SnapsInv'
    BY <2>1, NoThickKeepsSnaps DEF Empty
  <2>3. QED
    BY <2>1, <2>2 DEF Good
<1>6. ASSUME NEW p \in Prompts, NEW n \in NGens, NEW base \in Slot \cup {None},
             NEW thins \in SeqOf(Slot, MaxThins), HoldChain(base, thins, p),
             RESTORE_CHAIN(base, thins, p, n)
      PROVE  Inv'
  <2> DEFINE c == Chained(base, thins)
  <2>1. phase = "idle" /\ Start(c, p, n, None) /\ p \in Ctx
    BY <1>6, PromptAssumption DEF RESTORE_CHAIN, Ctx
  <2> HIDE DEF c, Inv
  <2>2. Good(c) /\ HoldsPrefix(c, p)
    BY <1>6, <2>1, ChainRestores DEF c
  <2>3. ~c.skewed => c.curPos <= Len(p) /\ c.ssm = SubSeq(p, 1, c.curPos)
    BY <2>1, <2>2, HeldPrefix DEF Good
  <2>4. MayAsk(p, None)
    BY DEF MayAsk
  <2>5. QED
    BY <2>1, <2>2, <2>3, <2>4, StartInv
<1>7. QED
  BY <1>1, <1>2, <1>3, <1>4, <1>5, <1>6 DEF Client

-----------------------------------------------------------------------------
(* Prefill                                                                 *)

\* The part of the prompt that the next ubatch runs.
LEMMA ChunkFacts ==
  ASSUME Inv, phase = "prefill", job.start < Len(job.prompt),
         job.snap # None => job.snap.pos # job.start
  PROVE  /\ job.prompt \in Ctx /\ Len(job.prompt) \in Nat /\ job.start \in Nat
         /\ Pos = job.start
         /\ ChunkLen \in Nat \ {0} /\ job.start + ChunkLen <= Len(job.prompt)
         /\ Clips => job.snap # None /\ job.snap \in Snap /\ job.snap.pos \in Nat
                     /\ job.start + ChunkLen = job.snap.pos
         /\ ~Clips => ChunkLen = IF Ubatch <= Len(job.prompt) - job.start THEN Ubatch
                                 ELSE Len(job.prompt) - job.start
<1>1. /\ job.prompt \in Ctx /\ Len(job.prompt) \in Nat /\ job.start \in Nat
      /\ Ubatch \in Nat \ {0}
  BY PromptAssumption, SizeAssumption DEF Inv, IsJob, Ctx
<1>2. Whole = IF Ubatch <= Len(job.prompt) - job.start THEN Ubatch
              ELSE Len(job.prompt) - job.start
  BY <1>1, MinTwo DEF Whole
<1>3. CASE Clips
  <2>1. job.snap # None /\ job.snap \in Snap /\ job.snap.pos \in Nat
    BY <1>3, SizeAssumption DEF Clips, Inv, IsJob, Snap
  <2>2. job.snap.pos \in (job.start + 1)..(job.start + Whole)
        /\ ChunkLen = job.snap.pos - job.start
    BY <1>3 DEF Clips, ChunkLen
  <2>3. Whole \in Nat /\ Whole <= Len(job.prompt) - job.start
    BY <1>1, <1>2
  <2>4. /\ ChunkLen \in Nat \ {0} /\ job.start + ChunkLen <= Len(job.prompt)
        /\ job.start + ChunkLen = job.snap.pos
    BY <1>1, <2>1, <2>2, <2>3, SMTT(20)
  <2>5. QED
    BY <1>1, <1>3, <2>1, <2>4 DEF Pos
<1>4. CASE ~Clips
  BY <1>1, <1>2, <1>4 DEF ChunkLen, Pos
<1>5. QED
  BY <1>3, <1>4

\* Where the next ubatch starts.
LEMMA NextStartFacts ==
  ASSUME Inv, phase = "prefill", job.start < Len(job.prompt),
         job.snap # None => job.snap.pos # job.start
  PROVE  /\ NextStart \in Nat /\ NextStart >= job.start + ChunkLen /\ NextStart > job.start
         /\ Clips => NextStart = job.start + ChunkLen
         /\ IF NextStart < Len(job.prompt) THEN NextStart = job.start + ChunkLen
            ELSE job.start + ChunkLen = Len(job.prompt)
<1> DEFINE next == job.start + ChunkLen
<1>1. Len(job.prompt) \in Nat /\ job.start \in Nat /\ ChunkLen \in Nat \ {0} /\ next \in Nat
      /\ next <= Len(job.prompt)
  BY ChunkFacts
<1>2. /\ Clips => NextStart = next
      /\ ~Clips => NextStart = job.start + Ubatch
  BY DEF NextStart
<1>3. ~Clips => ChunkLen = IF Ubatch <= Len(job.prompt) - job.start THEN Ubatch
                           ELSE Len(job.prompt) - job.start
  BY ChunkFacts
<1>4. Ubatch \in Nat \ {0}
  BY SizeAssumption
<1>5. CASE Clips
  BY <1>1, <1>2, <1>5
<1>6. CASE ~Clips
  <2>1. PICK l \in Nat, s \in Nat, u \in Nat \ {0} :
          l = Len(job.prompt) /\ s = job.start /\ u = Ubatch
    BY <1>1, <1>4
  <2>2. NextStart = s + u /\ next = s + (IF u <= l - s THEN u ELSE l - s) /\ s < l
    BY <1>2, <1>3, <1>6, <2>1
  <2>3. /\ NextStart \in Nat /\ NextStart >= next /\ NextStart > s
        /\ IF NextStart < l THEN NextStart = next ELSE next = l
    BY <2>2
  <2>4. QED
    BY <1>6, <2>1, <2>3, Zenon
<1>7. QED
  BY <1>5, <1>6

LEMMA SnapAtStartInv ==
  ASSUME Inv, SnapAtStart
  PROVE  Inv'
<1> USE DEF Inv
<1>1. /\ phase = "prefill" /\ ~layer /\ job.start < Len(job.prompt) /\ job.snap # None
      /\ job.snap.pos = job.start /\ job.snap = job.asked /\ job.snap \in Snap
      /\ cache' = [cache EXCEPT !.curPos = job.start] /\ job.start \in Nat
      /\ job' = [job EXCEPT !.snap = None] /\ phase' = phase /\ layer' = layer
      /\ snaps' \in AfterSnapshot(job.snap.slot, cache') /\ job.snap.slot \in Slot
  BY DEF SnapAtStart, IsJob, Snap
<1>2. /\ IsCache(cache') /\ cache'.skewed = cache.skewed /\ cache'.kv = cache.kv
      /\ cache'.ssm = cache.ssm /\ cache'.lastTok = cache.lastTok /\ cache'.curPos = job.start
  BY <1>1 DEF IsCache
<1>3. IsJob(job') /\ job'.snap = None /\ job'.asked = job.asked /\ job'.start = job.start
      /\ job'.from = job.from /\ job'.tok = job.tok /\ job'.committed = job.committed
      /\ job'.prompt = job.prompt /\ job'.made = job.made
  BY <1>1 DEF IsJob
<1>4. ASSUME ~cache.skewed
      PROVE  /\ Sound(cache') /\ Untouched' /\ Pos' = Pos
             /\ Stands(cache', SubSeq(job.prompt, 1, Pos))
             /\ SubSeq(job.prompt, 1, job.asked.pos) = cache.ssm
  <2>1. PrefillInv /\ Pos = job.start /\ job.from \in Nat
    BY <1>1, <1>4 DEF Pos, IsJob
  <2>2. job.start = job.from
    BY <1>1, <2>1 DEF PrefillInv, SnapAhead, Underway, Untouched
  <2>3. Untouched
    BY <1>1, <2>1, <2>2 DEF PrefillInv, Underway
  <2>4. QED
    BY <1>1, <1>2, <1>3, <2>1, <2>2, <2>3 DEF PrefillInv, Untouched, Sound, Stands, Pos
<1>5. Good(cache')
  BY <1>2, <1>4 DEF Good
<1>6. SnapsInv' /\ IF snaps'[job.snap.slot] = Empty THEN "oom" \in Faults
                   ELSE snaps'[job.snap.slot] = Thick(cache')
  BY <1>1, <1>5, StoreKeepsSnaps
<1>7. ~cache.skewed => PrefillInv'
  <2> SUFFICES ASSUME ~cache.skewed PROVE PrefillInv'
    OBVIOUS
  <2>1. cache'.ssm = SubSeq(job'.prompt, 1, job'.asked.pos)
    BY <1>2, <1>3, <1>4
  <2>2. IF snaps'[job'.asked.slot] = Empty THEN "oom" \in Faults
        ELSE snaps'[job'.asked.slot].cache = cache'
    BY <1>1, <1>3, <1>6 DEF Thick
  <2>3. Taken'
    BY <2>1, <2>2 DEF Taken
  <2>4. QED
    BY <1>1, <1>3, <1>4, <2>3 DEF PrefillInv, SnapAhead
<1>8. QED
  BY <1>1, <1>2, <1>3, <1>6, <1>7

LEMMA PrefillChunkInv ==
  ASSUME Inv, PrefillChunk
  PROVE  Inv'
<1> USE DEF Inv
<1> DEFINE toks == SubSeq(job.prompt, job.start + 1, job.start + ChunkLen)
           tok  == Choice(cache, job.start, toks)
           c    == Forward(cache, job.start, toks)
           next == job.start + ChunkLen
<1>1. /\ phase = "prefill" /\ ~layer /\ job.start < Len(job.prompt)
      /\ job.snap # None => job.snap.pos # job.start
      /\ IF Clips
         THEN cache' = [c EXCEPT !.curPos = next, !.lastTok = tok]
              /\ snaps' \in AfterSnapshot(job.snap.slot, cache')
         ELSE cache' = c /\ snaps' = snaps
      /\ job' = [job EXCEPT !.tok = tok, !.committed = next,
                            !.snap = IF Clips THEN None ELSE job.snap, !.start = NextStart]
      /\ phase' = phase /\ layer' = layer
  BY DEF PrefillChunk, AtSnap
<1>2. /\ job.prompt \in Ctx /\ Len(job.prompt) \in Nat /\ job.start \in Nat /\ Pos = job.start
      /\ ChunkLen \in Nat \ {0} /\ next <= Len(job.prompt) /\ next \in Nat
  BY <1>1, ChunkFacts
<1>3. IsCache(c) /\ c.skewed = cache.skewed
  BY ForwardKeeps
<1> HIDE DEF c, tok, toks
<1>4. /\ IsCache(cache') /\ cache'.skewed = cache.skewed /\ cache'.kv = c.kv /\ cache'.ssm = c.ssm
      /\ Clips => cache'.curPos = next /\ cache'.lastTok = tok
  BY <1>1, <1>2, <1>3 DEF IsCache
<1>5. NextStart \in Nat /\ NextStart >= next /\ (Clips => NextStart = next)
      /\ IF NextStart < Len(job.prompt) THEN NextStart = next ELSE next = Len(job.prompt)
  BY <1>1, NextStartFacts
<1>6. /\ IsJob(job') /\ job'.prompt = job.prompt /\ job'.asked = job.asked /\ job'.from = job.from
      /\ job'.start = NextStart /\ job'.tok = tok /\ job'.committed = next
      /\ job'.snap = (IF Clips THEN None ELSE job.snap) /\ job'.made = job.made
  BY <1>1, <1>2, <1>5 DEF IsJob
<1>7. Pos' = next
  BY <1>2, <1>5, <1>6 DEF Pos
<1>8. ASSUME ~cache.skewed
      PROVE  /\ Stands(c, SubSeq(job.prompt, 1, next)) /\ SubSeq(job.prompt, 1, next) \in Ctx
             /\ Len(SubSeq(job.prompt, 1, next)) = next
             /\ tok = Target(SubSeq(job.prompt, 1, next))
             /\ job.from \in Nat /\ job.from <= job.start
  <2>1. Stands(cache, SubSeq(job.prompt, 1, job.start)) /\ SnapAhead
        /\ job.from \in Nat /\ job.from <= job.start
    BY <1>1, <1>2, <1>8 DEF PrefillInv, IsJob, Untouched, Underway
  <2>2. /\ SubSeq(job.prompt, 1, job.start) \in Ctx
        /\ Len(SubSeq(job.prompt, 1, job.start)) = job.start
        /\ SubSeq(job.prompt, 1, job.start) \o toks = SubSeq(job.prompt, 1, next)
    BY <1>2, PrefixGrows DEF toks
  <2>3. /\ cache.ssm = SubSeq(job.prompt, 1, job.start) /\ Stands(cache, cache.ssm)
        /\ cache.ssm \in Ctx /\ Len(cache.ssm) = job.start /\ IsCache(cache)
    BY <2>1, <2>2 DEF Stands
  <2>4. /\ c.kv = Prefixed(cache.ssm \o toks) /\ c.ssm = cache.ssm \o toks
        /\ tok = Target(cache.ssm \o toks)
    <3> HIDE DEF Inv
    <3>1. /\ Forward(cache, Len(cache.ssm), toks)
               = [kv |-> Prefixed(cache.ssm \o toks), ssm |-> cache.ssm \o toks,
                  curPos |-> cache.curPos, lastTok |-> cache.lastTok, skewed |-> cache.skewed]
          /\ Choice(cache, Len(cache.ssm), toks) = Target(cache.ssm \o toks)
      BY <2>3, ForwardStands
    <3>2. c = Forward(cache, Len(cache.ssm), toks) /\ tok = Choice(cache, Len(cache.ssm), toks)
      BY <2>3 DEF c, tok
    <3>3. QED
      BY <3>1, <3>2
  <2>5. SubSeq(job.prompt, 1, next) \in Ctx /\ Len(SubSeq(job.prompt, 1, next)) = next
    <3>1. next + 0 <= Len(job.prompt) /\ 0 \in Nat
      BY <1>2
    <3> HIDE DEF next
    <3>2. QED
      BY <1>2, <3>1, PrefixGrows
  <2>6. QED
    BY <2>1, <2>2, <2>3, <2>4, <2>5 DEF Stands
<1>9. Clips => Good(cache')
  <2> SUFFICES ASSUME Clips, ~cache.skewed PROVE Sound(cache')
    BY <1>4 DEF Good
  <2>1. cache'.ssm = SubSeq(job.prompt, 1, next) /\ cache'.kv = Prefixed(cache'.ssm)
        /\ cache'.ssm \in Ctx /\ Len(cache'.ssm) = next
    BY <1>4, <1>8 DEF Stands
  <2>2. cache'.ssm # <<>>
    BY <1>2, <2>1
  <2>3. QED
    BY <1>4, <1>8, <2>1, <2>2 DEF Sound, Stands
<1>10. /\ SnapsInv'
       /\ Clips => /\ job.snap \in Snap /\ job.snap = job.asked /\ job.snap.pos = next
                   /\ IF snaps'[job.snap.slot] = Empty THEN "oom" \in Faults
                      ELSE snaps'[job.snap.slot] = Thick(cache')
  <2>1. CASE Clips
    <3>1. /\ job.snap \in Snap /\ job.snap = job.asked
          /\ job.snap.pos = next /\ job.snap.slot \in Slot
      BY <1>1, <2>1, ChunkFacts DEF IsJob, Snap
    <3>2. QED
      BY <1>1, <1>9, <2>1, <3>1, StoreKeepsSnaps
  <2>2. CASE ~Clips
    BY <1>1, <2>2 DEF SnapsInv
  <2>3. QED
    BY <2>1, <2>2
<1>11. ASSUME ~cache.skewed PROVE SnapAhead'
  <2>1. CASE Clips
    <3>1. cache'.ssm = SubSeq(job'.prompt, 1, job'.asked.pos)
      BY <1>4, <1>6, <1>8, <1>10, <1>11, <2>1 DEF Stands
    <3>2. IF snaps'[job'.asked.slot] = Empty THEN "oom" \in Faults
          ELSE snaps'[job'.asked.slot].cache = cache'
      BY <1>6, <1>10, <2>1 DEF Thick
    <3>3. Taken'
      BY <3>1, <3>2 DEF Taken
    <3>4. QED
      BY <1>6, <2>1, <3>3 DEF SnapAhead
  <2>2. CASE ~Clips /\ job.snap = None
    <3>1. snaps' = snaps /\ job'.snap = None
      BY <1>1, <1>6, <2>2
    <3>2. job.asked # None => Taken
      BY <1>1, <1>11, <2>2 DEF PrefillInv, SnapAhead
    <3>3. QED
      BY <1>6, <3>1, <3>2 DEF SnapAhead, Taken
  <2>3. CASE ~Clips /\ job.snap # None
    <3>1. job.snap.pos \in Nat /\ job.snap.pos # job.start
      BY <1>1, <2>3, SizeAssumption DEF IsJob, Snap
    <3>2. job.snap.pos < job.from \/ job.snap.pos > job.start
      BY <1>1, <1>2, <1>11, <2>3, <3>1 DEF PrefillInv, SnapAhead
    <3>3. ~(job.snap.pos \in (job.start + 1)..(job.start + Whole))
      BY <2>3 DEF Clips
    <3>4. Whole = ChunkLen
      BY <2>3 DEF ChunkLen
    <3>5. job.snap.pos < job.from \/ job.snap.pos > next
      BY <1>2, <3>1, <3>2, <3>3, <3>4
    <3>6. QED
      BY <1>6, <1>7, <2>3, <3>5 DEF SnapAhead
  <2>4. QED
    BY <2>1, <2>2, <2>3
<1>12. ~cache.skewed => PrefillInv'
  <2> SUFFICES ASSUME ~cache.skewed PROVE PrefillInv'
    OBVIOUS
  <2>1. Stands(cache', SubSeq(job'.prompt, 1, Pos'))
    BY <1>4, <1>6, <1>7, <1>8 DEF Stands
  <2>2. job'.start > job'.from /\ Pos' > 0 /\ job'.committed = Pos'
    BY <1>2, <1>5, <1>6, <1>7, <1>8
  <2>3. job'.tok = Target(cache'.ssm)
    BY <1>4, <1>6, <1>8 DEF Stands
  <2>4. job'.made = 0
    BY <1>1, <1>6 DEF PrefillInv
  <2>5. QED
    BY <1>1, <1>11, <2>1, <2>2, <2>3, <2>4 DEF PrefillInv, Underway
<1>13. QED
  BY <1>1, <1>4, <1>6, <1>10, <1>12

LEMMA PrefillDoneInv ==
  ASSUME Inv, TargetChooses, PrefillDone
  PROVE  Inv'
<1> USE DEF Inv
<1>1. /\ phase = "prefill" /\ ~layer /\ job.start >= Len(job.prompt) /\ phase' = "decode"
      /\ job' = IF job.tok = None /\ cache.lastTok # None /\ job.from = Len(job.prompt)
                THEN [job EXCEPT !.tok = cache.lastTok, !.committed = Len(job.prompt)] ELSE job
      /\ cache' = cache /\ snaps' = snaps /\ layer' = layer
  BY DEF PrefillDone
<1>2. /\ job.prompt \in Ctx \ {<<>>} /\ Len(job.prompt) \in Nat \ {0}
      /\ SubSeq(job.prompt, 1, Len(job.prompt)) = job.prompt /\ job.start \in Nat
      /\ job.from \in Nat
  BY <1>1, PromptAssumption DEF IsJob, Ctx
<1>3. /\ IsJob(job') /\ job'.prompt = job.prompt /\ job'.asked = job.asked
      /\ job'.from = job.from /\ job'.made = job.made
  BY <1>1, <1>2 DEF IsJob
<1>4. SnapsInv'
  BY <1>1 DEF SnapsInv
<1>5. ASSUME ~cache.skewed PROVE DecodeInv'
  <2>1. Pos = Len(job.prompt) /\ Stands(cache, job.prompt) /\ job.made = 0 /\ SnapAhead
        /\ (Untouched \/ Underway)
    <3>1. Pos = Len(job.prompt)
      BY <1>1, <1>2 DEF Pos
    <3>2. PrefillInv
      BY <1>1, <1>5
    <3>3. QED
      BY <1>1, <1>2, <3>1, <3>2 DEF PrefillInv, Stands
  <2>2. cache.ssm = job.prompt /\ Target(job.prompt) # None
    BY <1>2, <2>1, TokenAssumption DEF Stands, TargetChooses, Ctx
  <2>3. job'.committed = Len(job.prompt) /\ job'.tok = Target(job.prompt)
    <3>1. CASE Untouched
      <4>1. job.tok = None /\ job.from = Len(job.prompt) /\ cache.lastTok = Target(job.prompt)
        BY <1>2, <2>1, <2>2, <3>1 DEF Untouched, Sound
      <4>2. job' = [job EXCEPT !.tok = cache.lastTok, !.committed = Len(job.prompt)]
        BY <1>1, <2>2, <4>1
      <4>3. QED
        BY <1>1, <4>1, <4>2 DEF IsJob
    <3>2. CASE Underway
      BY <1>1, <2>1, <2>2, <3>2 DEF Underway
    <3>3. QED
      BY <2>1, <3>1, <3>2
  <2>4. SnapDone'
    <3> SUFFICES ASSUME job.asked # None, job.asked.pos >= job.from,
                        job.from < Len(job.prompt)
                 PROVE  Taken
      BY <1>1, <1>3 DEF SnapDone, Taken
    <3>1. job.asked.pos \in Nat /\ job.asked.pos <= Len(job.prompt)
      BY <1>1, SizeAssumption DEF IsJob, Snap
    <3>2. job.start # job.from
      BY <1>1, <1>2
    <3>3. job.snap = None
      BY <1>1, <1>2, <2>1, <3>1, <3>2 DEF SnapAhead, IsJob
    <3>4. QED
      BY <2>1, <3>3 DEF SnapAhead
  <2>5. QED
    BY <1>1, <1>2, <1>3, <2>1, <2>2, <2>3, <2>4 DEF DecodeInv, Stands
<1>6. QED
  BY <1>1, <1>3, <1>4, <1>5

LEMMA LayerPrefillInv ==
  ASSUME Inv, LayerPrefill
  PROVE  Inv'
<1> USE DEF Inv
<1> DEFINE c == Forward(cache, 0, job.prompt)
<1>1. /\ phase = "prefill" /\ layer /\ phase' = "decode" /\ snaps' = snaps /\ layer' = layer
      /\ cache' = [c EXCEPT !.skewed = @ \/ job.from > 0]
      /\ job' = [job EXCEPT !.tok = Choice(cache, 0, job.prompt), !.committed = Len(job.prompt)]
  BY DEF LayerPrefill
<1>2. IsCache(c) /\ c.skewed = cache.skewed
  BY ForwardKeeps
<1>3. /\ job.prompt \in Ctx \ {<<>>} /\ Len(job.prompt) \in Nat \ {0} /\ job.from \in Nat
  BY <1>1, PromptAssumption DEF IsJob, Ctx
<1>4. /\ IsJob(job') /\ job'.prompt = job.prompt /\ job'.made = job.made
      /\ job'.committed = Len(job.prompt) /\ job'.tok = Choice(cache, 0, job.prompt)
  BY <1>1, <1>3 DEF IsJob
<1>5. SnapsInv'
  BY <1>1 DEF SnapsInv
<1>6. ASSUME ~cache.skewed, job.from = 0
      PROVE  /\ Stands(c, job.prompt) /\ Choice(cache, 0, job.prompt) = Target(job.prompt)
             /\ job.made = 0
  <2>1. Sound(cache) /\ cache.curPos = 0 /\ job.made = 0
    BY <1>1, <1>6 DEF PrefillInv
  <2>2. cache.ssm \in Ctx /\ Len(cache.ssm) = 0 /\ Stands(cache, cache.ssm)
    BY <2>1 DEF Sound
  <2>3. cache.ssm \o job.prompt = job.prompt
    <3>1. cache.ssm = <<>>
      BY <2>2 DEF Ctx
    <3>2. QED
      BY <1>3, <3>1, ConcatEmptySeq DEF Ctx
  <2>4. QED
    <3> HIDE DEF Inv
    <3>1. IsCache(cache)
      BY DEF Inv
    <3>2. /\ Forward(cache, Len(cache.ssm), job.prompt)
               = [kv |-> Prefixed(cache.ssm \o job.prompt), ssm |-> cache.ssm \o job.prompt,
                  curPos |-> cache.curPos, lastTok |-> cache.lastTok, skewed |-> cache.skewed]
          /\ Choice(cache, Len(cache.ssm), job.prompt) = Target(cache.ssm \o job.prompt)
      BY <2>2, <3>1, ForwardStands
    <3>3. QED
      BY <2>1, <2>2, <2>3, <3>2 DEF Stands
<1> HIDE DEF c
<1>7. /\ IsCache(cache') /\ cache'.kv = c.kv /\ cache'.ssm = c.ssm
      /\ cache'.skewed = (cache.skewed \/ job.from > 0)
  BY <1>1, <1>2, <1>3 DEF IsCache
<1>8. ASSUME ~cache'.skewed PROVE DecodeInv'
  <2>1. ~cache.skewed /\ job.from = 0
    <3>1. ~cache.skewed /\ ~(job.from > 0)
      BY <1>7, <1>8, Zenon
    <3>2. QED
      BY <1>3, <3>1
  <2>2. cache'.ssm = job.prompt /\ cache'.kv = Prefixed(job.prompt)
    BY <1>6, <1>7, <2>1 DEF Stands
  <2>3. SnapDone'
    BY <1>1 DEF SnapDone
  <2>4. QED
    BY <1>1, <1>3, <1>4, <1>6, <2>1, <2>2, <2>3 DEF DecodeInv, Stands
<1>9. QED
  BY <1>1, <1>4, <1>5, <1>7, <1>8

-----------------------------------------------------------------------------
(* Decode                                                                  *)

LEMMA DecodeTokenInv ==
  ASSUME Inv, TargetChooses, DecodeToken
  PROVE  Inv'
<1> USE DEF Inv
<1> DEFINE c == Forward(cache, job.committed, <<job.tok>>)
<1>1. /\ phase \in {"decode", "decoding"} /\ phase' = "decoding" /\ snaps' = snaps
      /\ layer' = layer /\ cache' = c
      /\ job' = [job EXCEPT !.tok = Choice(cache, job.committed, <<job.tok>>),
                            !.committed = @ + 1, !.made = @ + 1]
  BY DEF DecodeToken
<1>2. IsCache(cache') /\ cache'.skewed = cache.skewed
  BY <1>1, ForwardKeeps
<1>3. /\ IsJob(job') /\ job'.prompt = job.prompt /\ job'.made = job.made + 1
      /\ job'.committed = job.committed + 1
      /\ job'.tok = Choice(cache, job.committed, <<job.tok>>)
  <2> DEFINE t == Choice(cache, job.committed, <<job.tok>>)
             n == job.committed + 1
             k == job.made + 1
  <2> HIDE DEF t, n, k, Inv
  <2>1. IsJob(job) /\ job' = [job EXCEPT !.tok = t, !.committed = n, !.made = k]
    BY <1>1 DEF t, n, k, Inv
  <2>2. n \in Nat /\ k \in Nat
    BY <2>1 DEF n, k, IsJob
  <2>3. /\ job'.prompt = job.prompt /\ job'.nGen = job.nGen /\ job'.asked = job.asked
        /\ job'.snap = job.snap /\ job'.from = job.from /\ job'.start = job.start
        /\ job'.made = k /\ job'.committed = n /\ job'.tok = t
        /\ job' = [prompt |-> job.prompt, nGen |-> job.nGen, asked |-> job.asked,
                   snap |-> job.snap, from |-> job.from, start |-> job.start,
                   committed |-> n, made |-> k, tok |-> t]
    BY <2>1 DEF IsJob
  <2>4. IsJob(job')
    BY <2>1, <2>2, <2>3 DEF IsJob
  <2>5. QED
    BY <2>3, <2>4 DEF t, n, k
<1>4. SnapsInv'
  BY <1>1 DEF SnapsInv
<1>5. ASSUME ~cache.skewed PROVE DecodeInv'
  <2>1. /\ cache.ssm \in Seq(Token) /\ Stands(cache, cache.ssm)
        /\ job.committed = Len(cache.ssm) /\ job.committed = Len(job.prompt) + job.made
        /\ job.tok = Target(cache.ssm)
    BY <1>1, <1>5 DEF DecodeInv, Ctx
  <2>2. job.tok \in Token
    BY <2>1 DEF TargetChooses
  <2>3. /\ cache'.ssm = cache.ssm \o <<job.tok>> /\ cache'.kv = Prefixed(cache.ssm \o <<job.tok>>)
        /\ job'.tok = Target(cache.ssm \o <<job.tok>>)
    <3> DEFINE toks == <<job.tok>>
    <3> HIDE DEF toks, Inv
    <3>1. IsCache(cache) /\ cache.ssm \in Ctx
      BY <2>1 DEF Inv, Ctx
    <3>2. /\ Forward(cache, Len(cache.ssm), toks)
               = [kv |-> Prefixed(cache.ssm \o toks), ssm |-> cache.ssm \o toks,
                  curPos |-> cache.curPos, lastTok |-> cache.lastTok, skewed |-> cache.skewed]
          /\ Choice(cache, Len(cache.ssm), toks) = Target(cache.ssm \o toks)
      BY <2>1, <3>1, ForwardStands
    <3>3. cache' = Forward(cache, Len(cache.ssm), toks)
          /\ job'.tok = Choice(cache, Len(cache.ssm), toks)
      BY <1>1, <1>3, <2>1 DEF toks
    <3>4. cache'.ssm = cache.ssm \o toks /\ cache'.kv = Prefixed(cache.ssm \o toks)
          /\ job'.tok = Target(cache.ssm \o toks)
      BY <3>2, <3>3
    <3>5. QED
      BY <3>4 DEF toks
  <2>4. /\ cache.ssm \o <<job.tok>> \in Seq(Token)
        /\ Len(cache.ssm \o <<job.tok>>) = Len(cache.ssm) + 1
    <3>1. <<job.tok>> \in Seq(Token) /\ Len(<<job.tok>>) = 1
      BY <2>2
    <3> DEFINE toks == <<job.tok>>
    <3> HIDE DEF toks, Inv
    <3>2. cache.ssm \in Seq(Token) /\ toks \in Seq(Token) /\ Len(toks) = 1
      BY <2>1, <3>1 DEF toks
    <3>3. cache.ssm \o toks \in Seq(Token) /\ Len(cache.ssm \o toks) = Len(cache.ssm) + Len(toks)
      BY <3>2, ConcatProperties
    <3>4. QED
      BY <3>2, <3>3 DEF toks
  <2>5. cache'.ssm # <<>>
    BY <2>1, <2>3, <2>4
  <2>6. Len(job.prompt) \in Nat /\ job.made \in Nat
    BY <1>1, PromptAssumption DEF IsJob
  <2>7. QED
    <3>1. cache'.ssm \in Seq(Token) \ {<<>>} /\ cache'.kv = Prefixed(cache'.ssm)
          /\ job'.tok = Target(cache'.ssm)
      BY <2>3, <2>4, <2>5
    <3>2. job'.committed = Len(cache'.ssm) /\ job'.committed = Len(job'.prompt) + job'.made
      <4>1. Len(cache'.ssm) = Len(cache.ssm) + 1
        BY <2>3, <2>4
      <4>2. /\ Len(cache.ssm) = Len(job.prompt) + job.made
            /\ job'.committed = Len(cache.ssm) + 1
            /\ job'.prompt = job.prompt /\ job'.made = job.made + 1
        BY <1>3, <2>1
      <4> HIDE DEF Inv
      <4>3. Len(job'.prompt) = Len(job.prompt)
        BY <4>2
      <4>4. QED
        BY <2>6, <4>1, <4>2, <4>3
    <3>3. QED
      BY <1>1, <3>1, <3>2 DEF DecodeInv, Stands, Ctx
<1>6. QED
  BY <1>1, <1>2, <1>3, <1>4, <1>5

LEMMA DecodeEndInv ==
  ASSUME Inv, DecodeEnd
  PROVE  Inv'
<1> USE DEF Inv
<1>1. /\ phase \in {"decode", "decoding"} /\ phase' = "idle" /\ snaps' = snaps /\ layer' = layer
      /\ cache' = [cache EXCEPT !.curPos = Len(job.prompt) + job.made, !.lastTok = job.tok]
  BY DEF DecodeEnd
<1>2. Len(job.prompt) + job.made \in Nat
  BY <1>1, PromptAssumption DEF IsJob
<1>3. /\ IsCache(cache') /\ cache'.skewed = cache.skewed /\ cache'.kv = cache.kv
      /\ cache'.ssm = cache.ssm /\ cache'.lastTok = job.tok
      /\ cache'.curPos = Len(job.prompt) + job.made
  BY <1>1, <1>2 DEF IsCache
<1>4. ~cache.skewed => Sound(cache')
  BY <1>1, <1>3 DEF DecodeInv, Sound, Stands
<1>5. SnapsInv'
  BY <1>1 DEF SnapsInv
<1>6. QED
  BY <1>1, <1>3, <1>4, <1>5 DEF Good

-----------------------------------------------------------------------------
(* The attention state                                                     *)

\* The length of a concatenation.
LEMMA ConcatLen ==
  ASSUME NEW S, NEW s \in Seq(S), NEW t \in Seq(S)
  PROVE  s \o t \in Seq(S) /\ Len(s \o t) = Len(s) + Len(t)
BY ConcatProperties

\* How far the KV slots reach after a pass, and whether its choice can be used.
LEMMA ForwardLevel ==
  ASSUME NEW c, IsCache(c), Seqs(c), NEW start \in Nat, Len(c.kv) >= start,
         NEW toks \in Seq(Token \cup {Garbled}), toks \in Seq(Token) \/ c.ssm = Broken,
         TargetChooses
  PROVE  /\ Seqs(Forward(c, start, toks))
         /\ Len(Forward(c, start, toks).kv) = start + Len(toks)
         /\ Choice(c, start, toks) \in Token \cup {Garbled}
         /\ Choice(c, start, toks) = Garbled => Forward(c, start, toks).ssm = Broken
<1> DEFINE f == Forward(c, start, toks)
           g == Choice(c, start, toks)
<1>1. CASE Aligned(c, start)
  <2>1. c.ssm # Broken /\ SubSeq(c.kv, 1, start) = Prefixed(c.ssm)
    BY <1>1 DEF Aligned
  <2>2. c.ssm \in Seq(Token) /\ toks \in Seq(Token) /\ c.lastTok # Garbled
    BY <2>1 DEF Seqs, State, Ctx
  <2>3. Len(c.ssm) = start
    <3> DEFINE y == c.kv
    <3>1. y \in Seq(State) /\ start <= Len(y) /\ SubSeq(y, 1, start) = Prefixed(c.ssm)
      BY <2>1 DEF Seqs
    <3>2. Len(Prefixed(c.ssm)) = Len(c.ssm)
      BY <2>2, PrefixedWhole
    <3> HIDE DEF y
    <3>3. Len(SubSeq(y, 1, start)) = start
      <4>1. \A i \in 1..start : y[i] \in State
        BY <3>1, ElementOfSeq
      <4>2. Len(SubSeq(y, 1, start)) = IF 1 <= start THEN start - 1 + 1 ELSE 0
        BY <4>1, SubSeqProperties
      <4>3. QED
        BY <4>2
    <3>4. QED
      BY <3>1, <3>2, <3>3
  <2> DEFINE d == c.ssm \o toks
  <2>4. d \in Seq(Token) /\ Len(d) = start + Len(toks)
    <3> DEFINE y == c.ssm
    <3>1. y \in Seq(Token) /\ toks \in Seq(Token) /\ Len(y) = start
      BY <2>2, <2>3
    <3> HIDE DEF y
    <3>2. y \o toks \in Seq(Token) /\ Len(y \o toks) = Len(y) + Len(toks)
      BY <3>1, ConcatLen
    <3>3. QED
      BY <3>1, <3>2 DEF y
  <2>5. f = [c EXCEPT !.kv = Prefixed(d), !.ssm = d] /\ g = Target(d)
    BY <1>1 DEF Forward, Choice
  <2> HIDE DEF d, f, g
  <2>6. Prefixed(d) \in Seq(Ctx) /\ Len(Prefixed(d)) = Len(d)
    BY <2>4, PrefixedWhole DEF Ctx
  <2>7. Prefixed(d) \in Seq(State)
    BY <2>6 DEF State
  <2>8. f.kv = Prefixed(d) /\ f.ssm = d /\ f.lastTok = c.lastTok
    BY <2>5 DEF IsCache
  <2>9. Seqs(f) /\ Len(f.kv) = start + Len(toks)
    BY <2>2, <2>4, <2>6, <2>7, <2>8 DEF Seqs, State, Ctx
  <2>10. g \in Token /\ g # Garbled
    BY <2>4, <2>5, TokenAssumption DEF TargetChooses
  <2>11. QED
    BY <2>9, <2>10 DEF f, g
<1>2. CASE ~Aligned(c, start)
  <2> DEFINE a == SubSeq(c.kv, 1, Min({start, Len(c.kv)}))
             z == [i \in 1..Len(toks) |-> Broken]
  <2>1. f = [c EXCEPT !.kv = a \o z, !.ssm = Broken] /\ g = Garbled
    BY <1>2 DEF Forward, Choice
  <2>2. a \in Seq(State) /\ Len(a) = start
    <3> DEFINE y == c.kv
    <3>1. y \in Seq(State) /\ start <= Len(y) /\ Len(y) \in Nat
      BY DEF Seqs
    <3> HIDE DEF y
    <3>2. Min({start, Len(y)}) = start
      BY <3>1, MinTwo
    <3>3. \A i \in 1..start : y[i] \in State
      BY <3>1, ElementOfSeq
    <3>4. /\ SubSeq(y, 1, start) \in Seq(State)
          /\ Len(SubSeq(y, 1, start)) = IF 1 <= start THEN start - 1 + 1 ELSE 0
      BY <3>3, SubSeqProperties
    <3>5. SubSeq(y, 1, start) \in Seq(State) /\ Len(SubSeq(y, 1, start)) = start
      BY <3>4
    <3>6. QED
      BY <3>2, <3>5 DEF y
  <2>3. z \in Seq(State) /\ Len(z) = Len(toks)
    BY DEF State
  <2> HIDE DEF a, z, f, g
  <2>4. a \o z \in Seq(State) /\ Len(a \o z) = start + Len(toks)
    <3>1. a \o z \in Seq(State) /\ Len(a \o z) = Len(a) + Len(z)
      BY <2>2, <2>3, ConcatLen
    <3>2. QED
      BY <2>2, <2>3, <3>1, Zenon
  <2>5. f.kv = a \o z /\ f.ssm = Broken /\ f.lastTok = c.lastTok
    BY <2>1 DEF IsCache
  <2>6. Seqs(f) /\ Len(f.kv) = start + Len(toks)
    BY <2>4, <2>5 DEF Seqs, State
  <2>7. QED
    BY <2>1, <2>5, <2>6 DEF f, g
<1>3. QED
  BY <1>1, <1>2

\* A snapshot of a cache whose KV slots end at its position, and one that is thin.
LEMMA StoreKeepsLevel ==
  ASSUME SnapsInv, SnapsLevel, NEW s \in Slot, NEW c, Seqs(c), Level(c),
         snaps' \in AfterSnapshot(s, c)
  PROVE  SnapsLevel'
<1>1. CASE snaps' = [snaps EXCEPT ![s] = Thick(c)]
  <2>1. /\ snaps'[s].kind = "thick" /\ snaps'[s].cache = c
        /\ \A t \in Slot \ {s} : snaps'[t] = snaps[t]
    BY <1>1 DEF SnapsInv, Thick
  <2>2. QED
    BY <2>1 DEF SnapsLevel
<1>2. CASE snaps' = snaps
  BY <1>2 DEF SnapsLevel
<1>3. QED
  BY <1>1, <1>2 DEF AfterSnapshot

\* A restored cache whose slots are those of the prompt.
LEMMA HeldSlots ==
  ASSUME NEW c, Seqs(c), Level(c), NEW p \in Ctx, HoldsPrefix(c, p)
  PROVE  c.curPos <= Len(p) /\ c.kv = SubSeq(Prefixed(p), 1, c.curPos)
<1> DEFINE y == c.kv
           w == Prefixed(p)
<1>1. /\ y \in Seq(State) /\ Len(y) = c.curPos /\ Len(w) = Len(p)
      /\ Len(y) <= Len(w) /\ SubSeq(y, 1, Len(y)) = SubSeq(w, 1, Len(y))
  BY PrefixedWhole DEF Seqs, Level, HoldsPrefix, IsPrefix, Ctx
<1> HIDE DEF y, w
<1>2. SubSeq(y, 1, Len(y)) = y
  BY <1>1
<1>3. QED
  BY <1>1, <1>2 DEF y, w

\* A request, admitted or refused.
LEMMA StartLevel ==
  ASSUME LevelInv, phase = "idle", NEW c, IsCache(c), Seqs(c), Level(c), NEW p \in Prompts,
         c.curPos <= Len(p), c.kv = SubSeq(Prefixed(p), 1, c.curPos),
         NEW n, NEW snap, Start(c, p, n, snap)
  PROVE  LevelInv'
<1>1. cache' = c /\ snaps' = snaps /\ SnapsLevel'
  BY DEF Start, LevelInv, SnapsLevel
<1>2. CASE UNCHANGED <<phase, job>>
  BY <1>1, <1>2 DEF LevelInv
<1>3. CASE /\ phase' = "prefill"
           /\ job' = [prompt |-> p, nGen |-> n, asked |-> snap, snap |-> snap,
                      from |-> c.curPos, start |-> c.curPos, committed |-> 0, made |-> 0,
                      tok |-> None]
  <2>1. c.curPos \in Nat /\ Len(p) \in Nat /\ None # Garbled
    BY PromptAssumption, TokenAssumption DEF IsCache
  <2>2. Pos' = c.curPos /\ Len(cache'.kv) = c.curPos
    BY <1>1, <1>3, <2>1 DEF Pos, Level
  <2>3. PrefillLevel'
    BY <1>1, <1>3, <2>1, <2>2 DEF PrefillLevel
  <2>4. QED
    BY <1>1, <1>3, <2>1, <2>3 DEF LevelInv
<1>4. QED
  BY <1>2, <1>3 DEF Start

LEMMA ClientLevel ==
  ASSUME Inv, LevelInv, Client
  PROVE  LevelInv'
<1>1. ASSUME NEW p \in Prompts, NEW n \in NGens, NEW snap \in Snap \cup {None},
             BARE(p, n, snap)
      PROVE  LevelInv'
  <2>1. phase = "idle" /\ Start(Fresh, p, n, snap) /\ p \in Ctx
    BY <1>1, PromptAssumption DEF BARE, Ctx
  <2>2. HoldsPrefix(Fresh, p)
    BY <2>1, PrefixedWhole DEF HoldsPrefix, IsPrefix, Fresh, Ctx
  <2>3. Fresh.curPos <= Len(p) /\ Fresh.kv = SubSeq(Prefixed(p), 1, Fresh.curPos)
    BY <2>1, <2>2, FreshLevel, HeldSlots
  <2>4. QED
    BY <2>1, <2>3, FreshLevel, StartLevel
<1>2. ASSUME NEW p \in Prompts, NEW n \in NGens, NEW snap \in Snap \cup {None}, NEW s \in Slot,
             RESTORE(s, p, n, snap), snaps[s].kind = "thick" => HoldsPrefix(snaps[s].cache, p)
      PROVE  LevelInv'
  <2>1. CASE snaps[s].kind = "thick"
    <3> DEFINE c == snaps[s].cache
    <3>1. phase = "idle" /\ Start(c, p, n, snap) /\ p \in Ctx /\ HoldsPrefix(c, p)
      BY <1>2, <2>1, PromptAssumption DEF RESTORE, Restored, Ctx
    <3>2. IsCache(c) /\ Seqs(c) /\ Level(c)
      BY <2>1 DEF Inv, SnapsInv, Good, LevelInv, SnapsLevel
    <3> HIDE DEF c
    <3>3. c.curPos <= Len(p) /\ c.kv = SubSeq(Prefixed(p), 1, c.curPos)
      BY <3>1, <3>2, HeldSlots
    <3>4. QED
      BY <3>1, <3>2, <3>3, StartLevel
  <2>2. CASE snaps[s].kind # "thick"
    <3>1. phase = "idle" /\ cache' = Fresh /\ UNCHANGED <<snaps, job, phase, layer>>
      BY <1>2, <2>2 DEF RESTORE
    <3>2. QED
      BY <3>1, FreshLevel DEF LevelInv, SnapsLevel
  <2>3. QED
    BY <2>1, <2>2
<1>3. ASSUME NEW s \in Slot, SNAPSHOT(s)
      PROVE  LevelInv'
  <2>1. phase = "idle" /\ snaps' \in AfterSnapshot(s, cache)
        /\ UNCHANGED <<cache, job, phase, layer>>
    BY <1>3 DEF SNAPSHOT
  <2>2. SnapsLevel'
    BY <2>1, StoreKeepsLevel DEF Inv, LevelInv
  <2>3. QED
    BY <2>1, <2>2 DEF LevelInv
<1>4. ASSUME NEW s \in Slot, NEW from \in Cuts \cup {0}, NEW to \in Cuts \cup {0},
             SNAPSHOT_THIN(s, from, to)
      PROVE  LevelInv'
  <2>1. phase = "idle" /\ from < to /\ snaps' \in AfterSnapshotThin(s, from, to)
        /\ UNCHANGED <<cache, job, phase, layer>>
    BY <1>4 DEF SNAPSHOT_THIN
  <2>2. from \in Nat /\ to \in Nat
    BY SizeAssumption
  <2>3. \/ snaps' = [snaps EXCEPT ![s] = Thin(from, to)]
        \/ snaps' = [snaps EXCEPT ![s] = Empty]
    BY <2>1 DEF AfterSnapshotThin
  <2>4. /\ \A t \in Slot \ {s} : snaps'[t] = snaps[t]
        /\ snaps'[s] \in {Thin(from, to), Empty}
    BY <2>3 DEF Inv, SnapsInv
  <2>5. /\ Thin(from, to).kind = "thin" /\ Thin(from, to).from = from /\ Thin(from, to).to = to
        /\ Empty.kind = "empty"
    BY DEF Thin, Empty
  <2>6. SnapsLevel'
    BY <2>1, <2>2, <2>4, <2>5 DEF LevelInv, SnapsLevel
  <2>7. QED
    BY <2>1, <2>6 DEF LevelInv
<1>5. ASSUME NEW s \in Slot, FREE_SNAPSHOT(s)
      PROVE  LevelInv'
  <2>1. phase = "idle" /\ snaps' = [snaps EXCEPT ![s] = Empty]
        /\ UNCHANGED <<cache, job, phase, layer>>
    BY <1>5 DEF FREE_SNAPSHOT
  <2>2. (\A t \in Slot \ {s} : snaps'[t] = snaps[t]) /\ snaps'[s].kind = "empty"
    BY <2>1 DEF Inv, SnapsInv, Empty
  <2>3. SnapsLevel'
    BY <2>2 DEF LevelInv, SnapsLevel
  <2>4. QED
    BY <2>1, <2>3 DEF LevelInv
<1>6. ASSUME NEW p \in Prompts, NEW n \in NGens, NEW base \in Slot \cup {None},
             NEW thins \in SeqOf(Slot, MaxThins), HoldChain(base, thins, p),
             RESTORE_CHAIN(base, thins, p, n)
      PROVE  LevelInv'
  <2> DEFINE c == Chained(base, thins)
  <2>1. phase = "idle" /\ Start(c, p, n, None) /\ p \in Ctx
    BY <1>6, PromptAssumption DEF RESTORE_CHAIN, Ctx
  <2> HIDE DEF c
  <2>2. /\ Good(c) /\ Seqs(c) /\ Level(c) /\ c.curPos <= Len(p)
        /\ c.kv = SubSeq(Prefixed(p), 1, c.curPos)
    BY <1>6, <2>1, ChainRestores DEF c
  <2>3. IsCache(c)
    BY <2>2 DEF Good
  <2>4. QED
    BY <2>1, <2>2, <2>3, StartLevel
<1>7. QED
  BY <1>1, <1>2, <1>3, <1>4, <1>5, <1>6 DEF Client

LEMMA SnapAtStartLevel ==
  ASSUME Inv, LevelInv, SnapAtStart
  PROVE  LevelInv'
<1>1. /\ phase = "prefill" /\ phase' = "prefill" /\ job.start < Len(job.prompt)
      /\ IsJob(job) /\ IsCache(cache) /\ job.snap \in Snap
      /\ cache' = [cache EXCEPT !.curPos = job.start]
      /\ snaps' \in AfterSnapshot(job.snap.slot, cache')
      /\ job' = [job EXCEPT !.snap = None]
  BY DEF SnapAtStart, Inv, IsJob
<1>2. Seqs(cache) /\ PrefillLevel /\ SnapsLevel /\ job.tok \in Token \cup {None, Garbled}
      /\ (job.tok = Garbled => cache.ssm = Broken)
  BY <1>1 DEF LevelInv
<1>3. /\ cache'.kv = cache.kv /\ cache'.ssm = cache.ssm /\ cache'.lastTok = cache.lastTok
      /\ cache'.curPos = job.start
  BY <1>1 DEF IsCache
<1>4. Seqs(cache') /\ Level(cache')
  BY <1>1, <1>2, <1>3 DEF Seqs, Level, PrefillLevel, Pos
<1>5. SnapsLevel'
  <2>1. job.snap.slot \in Slot /\ SnapsInv
    BY <1>1 DEF Snap, Inv
  <2>2. QED
    BY <1>1, <1>2, <1>4, <2>1, StoreKeepsLevel
<1>6. /\ job'.tok = job.tok /\ job'.made = job.made /\ job'.start = job.start
      /\ job'.from = job.from /\ job'.prompt = job.prompt /\ job'.committed = job.committed
  BY <1>1 DEF IsJob
<1>7. PrefillLevel'
  BY <1>2, <1>3, <1>6 DEF PrefillLevel, Pos
<1>8. QED
  BY <1>1, <1>2, <1>3, <1>4, <1>5, <1>6, <1>7 DEF LevelInv

LEMMA PrefillChunkLevel ==
  ASSUME Inv, LevelInv, TargetChooses, PrefillChunk
  PROVE  LevelInv'
<1> DEFINE toks == SubSeq(job.prompt, job.start + 1, job.start + ChunkLen)
           tok  == Choice(cache, job.start, toks)
           c    == Forward(cache, job.start, toks)
           next == job.start + ChunkLen
<1>1. /\ phase = "prefill" /\ phase' = "prefill" /\ job.start < Len(job.prompt)
      /\ job.snap # None => job.snap.pos # job.start
      /\ IsJob(job) /\ IsCache(cache)
      /\ IF Clips
         THEN cache' = [c EXCEPT !.curPos = next, !.lastTok = tok]
              /\ snaps' \in AfterSnapshot(job.snap.slot, cache')
         ELSE cache' = c /\ snaps' = snaps
      /\ job' = [job EXCEPT !.tok = tok, !.committed = next,
                            !.snap = IF Clips THEN None ELSE job.snap, !.start = NextStart]
  BY DEF PrefillChunk, AtSnap, Inv
<1>2. /\ job.prompt \in Ctx /\ Len(job.prompt) \in Nat /\ job.start \in Nat /\ Pos = job.start
      /\ ChunkLen \in Nat \ {0} /\ next <= Len(job.prompt) /\ next \in Nat
      /\ Clips => job.snap \in Snap
      /\ NextStart \in Nat /\ NextStart > job.start
      /\ IF NextStart < Len(job.prompt) THEN NextStart = next ELSE next = Len(job.prompt)
  BY <1>1, ChunkFacts, NextStartFacts
<1>3. Seqs(cache) /\ PrefillLevel /\ SnapsLevel
  BY <1>1 DEF LevelInv
<1>4. toks \in Seq(Token) /\ Len(toks) = ChunkLen
  <2> DEFINE p == job.prompt
             s == job.start
             k == ChunkLen
  <2>1. p \in Seq(Token) /\ s \in Nat /\ k \in Nat /\ s + k <= Len(p) /\ toks = SubSeq(p, s + 1, s + k)
    BY <1>2 DEF Ctx
  <2> HIDE DEF p, s, k, toks
  <2>2. \A i \in (s + 1)..(s + k) : p[i] \in Token
    BY <2>1, ElementOfSeq
  <2>3. /\ SubSeq(p, s + 1, s + k) \in Seq(Token)
        /\ Len(SubSeq(p, s + 1, s + k)) = IF s + 1 <= s + k THEN s + k - (s + 1) + 1 ELSE 0
    BY <2>1, <2>2, SubSeqProperties
  <2>4. toks \in Seq(Token) /\ Len(toks) = k
    BY <2>1, <2>3
  <2>5. QED
    BY <2>4 DEF k
<1>5. /\ Seqs(c) /\ Len(c.kv) = next /\ tok \in Token \cup {Garbled}
      /\ tok = Garbled => c.ssm = Broken
  <2> HIDE DEF toks
  <2>1. toks \in Seq(Token \cup {Garbled}) /\ Len(cache.kv) >= job.start
    BY <1>2, <1>3, <1>4 DEF PrefillLevel
  <2>2. QED
    BY <1>1, <1>2, <1>3, <1>4, <2>1, ForwardLevel
<1>6. IsCache(c)
  BY <1>1, ForwardKeeps
<1> HIDE DEF c, tok, toks
<1>7. /\ cache'.kv = c.kv /\ cache'.ssm = c.ssm
      /\ IF Clips THEN cache'.curPos = next /\ cache'.lastTok = tok
         ELSE cache'.lastTok = c.lastTok
  BY <1>1, <1>6 DEF IsCache
<1>8. Seqs(cache') /\ (Clips => Level(cache'))
  BY <1>5, <1>7 DEF Seqs, Level
<1>9. SnapsLevel'
  <2>1. CASE Clips
    <3>1. job.snap.slot \in Slot /\ SnapsInv /\ snaps' \in AfterSnapshot(job.snap.slot, cache')
      BY <1>1, <1>2, <2>1 DEF Snap, Inv
    <3>2. QED
      BY <1>3, <1>8, <2>1, <3>1, StoreKeepsLevel
  <2>2. CASE ~Clips
    BY <1>1, <1>3, <2>2 DEF SnapsLevel
  <2>3. QED
    BY <2>1, <2>2
<1>10. /\ job'.tok = tok /\ job'.made = job.made /\ job'.start = NextStart
       /\ job'.from = job.from /\ job'.prompt = job.prompt /\ job'.committed = next
  BY <1>1 DEF IsJob
<1>11. Pos' = next
  BY <1>2, <1>10 DEF Pos
<1>12. PrefillLevel'
  <2>1. job.made = 0 /\ job.from <= job.start /\ job.from <= Len(job.prompt) /\ job.from \in Nat
    BY <1>1, <1>3 DEF PrefillLevel, IsJob
  <2>2. job'.from <= job'.start /\ job'.start # job'.from
    BY <1>2, <1>10, <2>1
  <2>3. tok # None
    BY <1>5, TokenAssumption
  <2>4. QED
    BY <1>5, <1>7, <1>10, <1>11, <2>1, <2>2, <2>3 DEF PrefillLevel
<1>13. QED
  BY <1>1, <1>5, <1>7, <1>8, <1>9, <1>10, <1>12 DEF LevelInv

LEMMA PrefillDoneLevel ==
  ASSUME Inv, LevelInv, PrefillDone
  PROVE  LevelInv'
<1>1. /\ phase = "prefill" /\ job.start >= Len(job.prompt) /\ phase' = "decode"
      /\ IsJob(job) /\ IsCache(cache)
      /\ job' = IF job.tok = None /\ cache.lastTok # None /\ job.from = Len(job.prompt)
                THEN [job EXCEPT !.tok = cache.lastTok, !.committed = Len(job.prompt)] ELSE job
      /\ cache' = cache /\ snaps' = snaps
  BY DEF PrefillDone, Inv
<1>2. /\ Seqs(cache) /\ PrefillLevel /\ SnapsLevel /\ job.tok \in Token \cup {None, Garbled}
      /\ (job.tok = Garbled => cache.ssm = Broken)
  BY <1>1 DEF LevelInv
<1>3. Len(job.prompt) \in Nat /\ job.start \in Nat /\ job.from \in Nat
  BY <1>1, PromptAssumption DEF IsJob
<1>4. Pos = Len(job.prompt) /\ SnapsLevel'
  BY <1>1, <1>2, <1>3 DEF Pos, SnapsLevel
<1>5. CASE job.tok = None /\ cache.lastTok # None /\ job.from = Len(job.prompt)
  <2>1. /\ job'.tok = cache.lastTok /\ job'.committed = Len(job.prompt)
        /\ job'.prompt = job.prompt /\ job'.made = job.made
    BY <1>1, <1>5 DEF IsJob
  <2>2. DecodeLevel'
    BY <1>1, <1>2, <1>3, <1>4, <2>1 DEF DecodeLevel, PrefillLevel
  <2>3. job'.tok \in Token \cup {None, Garbled} /\ (job'.tok = Garbled => cache'.ssm = Broken)
    BY <1>1, <1>2, <2>1 DEF Seqs
  <2>4. QED
    BY <1>1, <1>2, <1>4, <2>2, <2>3 DEF LevelInv
<1>6. CASE ~(job.tok = None /\ cache.lastTok # None /\ job.from = Len(job.prompt))
  <2>1. job' = job
    BY <1>1, <1>6
  <2>2. DecodeLevel'
    BY <1>1, <1>2, <1>3, <1>4, <2>1 DEF DecodeLevel, PrefillLevel
  <2>3. QED
    BY <1>1, <1>2, <1>4, <2>1, <2>2 DEF LevelInv
<1>7. QED
  BY <1>5, <1>6

LEMMA LayerPrefillLevel ==
  ASSUME Inv, LevelInv, TargetChooses, LayerPrefill
  PROVE  LevelInv'
<1> DEFINE c == Forward(cache, 0, job.prompt)
           tok == Choice(cache, 0, job.prompt)
<1>1. /\ phase = "prefill" /\ phase' = "decode" /\ snaps' = snaps /\ IsJob(job) /\ IsCache(cache)
      /\ cache' = [c EXCEPT !.skewed = @ \/ job.from > 0]
      /\ job' = [job EXCEPT !.tok = tok, !.committed = Len(job.prompt)]
  BY DEF LayerPrefill, Inv
<1>2. Seqs(cache) /\ PrefillLevel /\ SnapsLevel
  BY <1>1 DEF LevelInv
<1>3. job.prompt \in Seq(Token) /\ Len(job.prompt) \in Nat
  BY <1>1, PromptAssumption DEF IsJob
<1>4. /\ Seqs(c) /\ Len(c.kv) = 0 + Len(job.prompt) /\ tok \in Token \cup {Garbled}
      /\ tok = Garbled => c.ssm = Broken
  <2>1. job.prompt \in Seq(Token \cup {Garbled}) /\ 0 \in Nat
    BY <1>3
  <2>2. Len(cache.kv) >= 0
    BY <1>2 DEF Seqs
  <2>3. QED
    BY <1>1, <1>2, <1>3, <2>1, <2>2, ForwardLevel
<1>5. IsCache(c)
  BY <1>1, ForwardKeeps
<1> HIDE DEF c, tok
<1>6. cache'.kv = c.kv /\ cache'.ssm = c.ssm /\ cache'.lastTok = c.lastTok
  BY <1>1, <1>5 DEF IsCache
<1>7. /\ job'.tok = tok /\ job'.committed = Len(job.prompt) /\ job'.prompt = job.prompt
      /\ job'.made = job.made
  BY <1>1 DEF IsJob
<1>8. DecodeLevel'
  BY <1>2, <1>3, <1>4, <1>6, <1>7 DEF DecodeLevel, PrefillLevel
<1>9. SnapsLevel' /\ Seqs(cache')
  BY <1>1, <1>2, <1>4, <1>6 DEF SnapsLevel, Seqs
<1>10. QED
  BY <1>1, <1>4, <1>6, <1>7, <1>8, <1>9 DEF LevelInv

LEMMA DecodeTokenLevel ==
  ASSUME Inv, LevelInv, TargetChooses, DecodeToken
  PROVE  LevelInv'
<1> DEFINE toks == <<job.tok>>
           c == Forward(cache, job.committed, toks)
           tok == Choice(cache, job.committed, toks)
<1>1. /\ phase \in {"decode", "decoding"} /\ phase' = "decoding" /\ job.tok # None
      /\ IsJob(job) /\ IsCache(cache) /\ snaps' = snaps /\ cache' = c
      /\ job' = [job EXCEPT !.tok = tok, !.committed = job.committed + 1, !.made = job.made + 1]
  BY DEF DecodeToken, Inv
<1>2. /\ Seqs(cache) /\ DecodeLevel /\ SnapsLevel /\ job.tok \in Token \cup {None, Garbled}
      /\ (job.tok = Garbled => cache.ssm = Broken)
  BY <1>1 DEF LevelInv
<1>3. job.committed \in Nat /\ job.made \in Nat /\ Len(job.prompt) \in Nat
  BY <1>1, PromptAssumption DEF IsJob
<1>4. toks \in Seq(Token \cup {Garbled}) /\ (toks \in Seq(Token) \/ cache.ssm = Broken)
      /\ Len(toks) = 1
  BY <1>1, <1>2
<1> HIDE DEF toks
<1>5. /\ Seqs(c) /\ Len(c.kv) = job.committed + Len(toks) /\ tok \in Token \cup {Garbled}
      /\ tok = Garbled => c.ssm = Broken
  <2>1. Len(cache.kv) >= job.committed
    BY <1>1, <1>2, <1>3 DEF DecodeLevel
  <2>2. QED
    BY <1>1, <1>2, <1>3, <1>4, <2>1, ForwardLevel
<1> HIDE DEF c, tok
<1>6. /\ job'.tok = tok /\ job'.committed = job.committed + 1 /\ job'.prompt = job.prompt
      /\ job'.made = job.made + 1
  BY <1>1 DEF IsJob
<1>7. DecodeLevel'
  BY <1>1, <1>2, <1>3, <1>4, <1>5, <1>6 DEF DecodeLevel
<1>8. SnapsLevel'
  BY <1>1, <1>2 DEF SnapsLevel
<1>9. QED
  BY <1>1, <1>5, <1>6, <1>7, <1>8 DEF LevelInv

LEMMA DecodeEndLevel ==
  ASSUME Inv, LevelInv, DecodeEnd
  PROVE  LevelInv'
<1>1. /\ phase \in {"decode", "decoding"} /\ phase' = "idle" /\ IsCache(cache)
      /\ cache' = [cache EXCEPT !.curPos = Len(job.prompt) + job.made, !.lastTok = job.tok]
      /\ snaps' = snaps
  BY DEF DecodeEnd, Inv
<1>2. /\ Seqs(cache) /\ DecodeLevel /\ SnapsLevel /\ job.tok \in Token \cup {None, Garbled}
      /\ (job.tok = Garbled => cache.ssm = Broken)
  BY <1>1 DEF LevelInv
<1>3. /\ cache'.kv = cache.kv /\ cache'.ssm = cache.ssm /\ cache'.lastTok = job.tok
      /\ cache'.curPos = Len(job.prompt) + job.made
  BY <1>1 DEF IsCache
<1>4. Seqs(cache') /\ Level(cache')
  BY <1>2, <1>3 DEF Seqs, Level, DecodeLevel
<1>5. SnapsLevel'
  BY <1>1, <1>2 DEF SnapsLevel
<1>6. QED
  BY <1>1, <1>4, <1>5 DEF LevelInv

-----------------------------------------------------------------------------
(* Theorems                                                                *)

LEMMA InitInv == Init => Inv /\ LevelInv
<1> SUFFICES ASSUME Init PROVE Inv /\ LevelInv
  OBVIOUS
<1>1. SnapsInv
  BY DEF Init, SnapsInv, Empty
<1>2. Good(cache) /\ phase = "idle" /\ layer \in BOOLEAN
  BY FreshGood, LayerAssumption DEF Init
<1>3. SnapsLevel
  BY DEF Init, SnapsLevel, Empty
<1>4. Seqs(cache) /\ Level(cache)
  BY FreshLevel DEF Init
<1>5. QED
  BY <1>1, <1>2, <1>3, <1>4 DEF Inv, Good, LevelInv

LEMMA StepInv ==
  ASSUME Inv, LevelInv, [Next]_vars, TargetChooses
  PROVE  Inv' /\ LevelInv'
<1>1. CASE Client
  BY <1>1, ClientInv, ClientLevel
<1>2. CASE SnapAtStart
  BY <1>2, SnapAtStartInv, SnapAtStartLevel
<1>3. CASE PrefillChunk
  BY <1>3, PrefillChunkInv, PrefillChunkLevel
<1>4. CASE PrefillDone
  BY <1>4, PrefillDoneInv, PrefillDoneLevel
<1>5. CASE LayerPrefill
  BY <1>5, LayerPrefillInv, LayerPrefillLevel
<1>6. CASE DecodeToken
  BY <1>6, DecodeTokenInv, DecodeTokenLevel
<1>7. CASE DecodeEnd
  BY <1>7, DecodeEndInv, DecodeEndLevel
<1>8. CASE DecodeFails
  <2>1. Inv'
    BY <1>8 DEF DecodeFails, Inv, SnapsInv
  <2>2. LevelInv'
    BY <1>8 DEF DecodeFails, LevelInv, SnapsLevel
  <2>3. QED
    BY <2>1, <2>2
<1>9. CASE UNCHANGED vars
  <2>1. Inv'
    BY <1>9 DEF vars, Inv, SnapsInv, PrefillInv, Pos, Untouched, Underway, SnapAhead, Taken,
                DecodeInv, SnapDone
  <2>2. LevelInv'
    BY <1>9 DEF vars, LevelInv, SnapsLevel, PrefillLevel, DecodeLevel, Pos
  <2>3. QED
    BY <2>1, <2>2
<1>10. QED
  BY <1>1, <1>2, <1>3, <1>4, <1>5, <1>6, <1>7, <1>8, <1>9 DEF Next, Daemon

\* The daemon stays in the invariant.
LEMMA AlwaysInv ==
  ASSUME TargetChooses
  PROVE  Spec => [](Inv /\ LevelInv)
<1>1. Inv /\ LevelInv /\ [Next]_vars => (Inv /\ LevelInv)'
  BY StepInv
<1>2. QED
  BY <1>1, InitInv, PTL DEF Spec

\* Whatever the prompt, the ubatch, the restored snapshot and the position of an
\* inline snapshot, decoding starts from the state of exactly the prompt, with
\* the target's own first choice (SnapshotStore!PrefillLands).
THEOREM PrefillAlwaysLands ==
  ASSUME TargetChooses
  PROVE  Spec => []PrefillLands
<1>1. Inv => PrefillLands
  BY DEF Inv, PrefillLands, DecodeInv, Lands, Stands
<1>2. QED
  BY <1>1, AlwaysInv, PTL

\* A thick snapshot is resumable whenever it was taken: inline at either end of
\* a ubatch, between requests, or after a decode that an end-of-sequence token
\* cut short (SnapshotStore!SnapshotsResumable).
THEOREM SnapshotsAlwaysResumable ==
  ASSUME TargetChooses
  PROVE  Spec => []SnapshotsResumable
<1>1. Inv => SnapshotsResumable
  BY DEF Inv, SnapsInv, SnapshotsResumable, Good, Sound, Stands
<1>2. QED
  BY <1>1, AlwaysInv, PTL

\* However ubatches fall, an inline snapshot is taken at its exact position or
\* its slot could not be allocated (SnapshotStore!InlineSnapTaken).
THEOREM InlineSnapsLand ==
  ASSUME TargetChooses
  PROVE  Spec => []InlineSnapTaken
<1>1. Inv => InlineSnapTaken
  BY DEF Inv, InlineSnapTaken, DecodeInv, SnapDone, Taken
<1>2. QED
  BY <1>1, AlwaysInv, PTL

\* Whatever thin snapshots a chain is made of and in whatever order they come, if
\* they leave no gap the KV slots are those of the prompt when prefill goes on from
\* where they end; and so after any other restore (SnapshotStore!ChainRestoresAttention).
THEOREM ChainsRestoreAttention ==
  ASSUME TargetChooses
  PROVE  Spec => []ChainRestoresAttention
<1>1. LevelInv => ChainRestoresAttention
  BY DEF LevelInv, ChainRestoresAttention, PrefillLevel
<1>2. QED
  BY <1>1, AlwaysInv, PTL
=============================================================================
