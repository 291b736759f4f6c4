------------------------- MODULE PrefixCacheProofs -------------------------
(***************************************************************************)
(* Theorems about PrefixCache, for every set of prompts, every cap and     *)
(* every combination of faults unless the statement says otherwise.        *)
(***************************************************************************)
EXTENDS PrefixCache, SequenceTheorems, WellFoundedInduction, TLAPS

-----------------------------------------------------------------------------
(* The order of an LRU index, a sequence of distinct keys                  *)

\* pop removes the key and nothing else, whether or not it is there.
LEMMA PopDropsKey ==
  ASSUME NEW S, NEW s \in Seq(S), IsInjective(s), NEW k
  PROVE  /\ Pop(s, k) \in Seq(S) /\ IsInjective(Pop(s, k))
         /\ ToSet(Pop(s, k)) = ToSet(s) \ {k}
         /\ Len(Pop(s, k)) = Len(s) - (IF k \in ToSet(s) THEN 1 ELSE 0)
<1>1. CASE k \notin ToSet(s)
  BY <1>1 DEF Pop
<1>2. CASE k \in ToSet(s)
  <2>1. PICK i \in 1..Len(s) : i = Position(s, k) /\ s[i] = k
    BY <1>2 DEF Position, ToSet
  <2>2. PICK r, a, b : r = Pop(s, k) /\ a = SubSeq(s, 1, i - 1) /\ b = SubSeq(s, i + 1, Len(s))
    OBVIOUS
  <2>3. a \in Seq(S) /\ Len(a) = i - 1 /\ \A j \in 1..(i - 1) : a[j] = s[j]
    BY <2>2, SubSeqProperties
  <2>4. b \in Seq(S) /\ Len(b) = Len(s) - i /\ \A j \in 1..(Len(s) - i) : b[j] = s[i + j]
    BY <2>2, SubSeqProperties
  <2>5. r = a \o b
    BY <1>2, <2>1, <2>2 DEF Pop, RemoveAt
  <2>6. r \in Seq(S) /\ Len(r) = Len(s) - 1 /\ DOMAIN r = 1..(Len(s) - 1) /\ DOMAIN s = 1..Len(s)
    BY <2>3, <2>4, <2>5, ConcatProperties
  <2>7. \A j \in DOMAIN r : r[j] = s[IF j < i THEN j ELSE j + 1]
    <3>1. \A j \in 1..Len(a) : r[j] = a[j]
      BY <2>3, <2>4, <2>5, ConcatProperties
    <3>2. \A j \in (Len(a) + 1)..(Len(a) + Len(b)) : r[j] = b[j - Len(a)]
      BY <2>3, <2>4, <2>5, ConcatProperties
    <3>3. ASSUME NEW j \in DOMAIN r, j < i PROVE r[j] = s[j]
      BY <2>3, <2>6, <3>1, <3>3
    <3>4. ASSUME NEW j \in DOMAIN r, j >= i PROVE r[j] = s[j + 1]
      <4>1. PICK n \in Nat : n = Len(s)
        OBVIOUS
      <4>2. j \in 1..(n - 1) /\ i \in 1..n /\ Len(a) = i - 1 /\ Len(b) = n - i
        BY <2>3, <2>4, <2>6, <4>1
      <4>3. PICK h : h = j - (i - 1)
        OBVIOUS
      <4>4. h \in 1..(n - i) /\ i + h = j + 1 /\ j \in ((i - 1) + 1)..((i - 1) + (n - i))
        BY <3>4, <4>2, <4>3
      <4>5. r[j] = b[h] /\ b[h] = s[i + h]
        BY <2>4, <3>2, <4>1, <4>2, <4>3, <4>4
      <4>6. QED
        BY <4>4, <4>5
    <3>5. QED
      BY <2>6, <3>3, <3>4
  <2>8. PICK from \in [DOMAIN r -> DOMAIN s \ {i}] :
          /\ \A j \in DOMAIN r : r[j] = s[from[j]]
          /\ \A j, h \in DOMAIN r : from[j] = from[h] => j = h
          /\ \A j \in DOMAIN s \ {i} : \E h \in DOMAIN r : from[h] = j
    <3> DEFINE f == [j \in DOMAIN r |-> IF j < i THEN j ELSE j + 1]
    <3>1. f \in [DOMAIN r -> DOMAIN s \ {i}] /\ \A j \in DOMAIN r : r[j] = s[f[j]]
      BY <2>6, <2>7
    <3>2. \A j, h \in DOMAIN r : f[j] = f[h] => j = h
      BY <2>6
    <3>3. ASSUME NEW j \in DOMAIN s \ {i} PROVE \E h \in DOMAIN r : f[h] = j
      <4>1. CASE j < i
        BY <2>6, <3>3, <4>1
      <4>2. CASE j > i
        <5>1. j - 1 \in DOMAIN r /\ f[j - 1] = j
          BY <2>6, <3>3, <4>2
        <5>2. QED
          BY <5>1
      <4>3. QED
        BY <2>6, <3>3, <4>1, <4>2
    <3> HIDE DEF f
    <3>4. QED
      BY <3>1, <3>2, <3>3
  <2>9. IsInjective(r)
    BY <2>8 DEF IsInjective
  <2>10. ToSet(r) = ToSet(s) \ {k}
    BY <2>1, <2>6, <2>8 DEF ToSet, IsInjective
  <2>11. QED
    BY <1>2, <2>2, <2>6, <2>9, <2>10
<1>3. QED
  BY <1>1, <1>2

\* Appending a key that is not in the order.
LEMMA AppendFresh ==
  ASSUME NEW S, NEW s \in Seq(S), IsInjective(s), NEW k \in S, k \notin ToSet(s)
  PROVE  /\ Append(s, k) \in Seq(S)
         /\ IsInjective(Append(s, k))
         /\ ToSet(Append(s, k)) = ToSet(s) \cup {k}
         /\ Len(Append(s, k)) = Len(s) + 1
  BY DEF IsInjective, ToSet

\* Inserting a key keeps the order free of duplicates.
LEMMA InsertAddsKey ==
  ASSUME NEW S, NEW s \in Seq(S), IsInjective(s), NEW k \in S
  PROVE  /\ Insert(s, k) \in Seq(S)
         /\ IsInjective(Insert(s, k))
         /\ ToSet(Insert(s, k)) = ToSet(s) \cup {k}
         /\ Len(Insert(s, k)) = Len(s) + (IF k \in ToSet(s) THEN 0 ELSE 1)
<1>1. CASE k \in ToSet(s)
  BY <1>1 DEF Insert
<1>2. CASE k \notin ToSet(s)
  BY <1>2, AppendFresh DEF Insert
<1>3. QED
  BY <1>1, <1>2

-----------------------------------------------------------------------------
(* Extrema of bounded sets of positions                                    *)

\* A non-empty set of naturals has a minimum.
LEMMA MinOfNaturals ==
  ASSUME NEW S \in SUBSET Nat, S # {}
  PROVE  Min(S) \in S /\ \A x \in S : Min(S) <= x
<1>1. PICK m \in S : \A x \in S : <<x, m>> \notin OpToRel(<, Nat)
  BY WFMin, NatLessThanWellFounded, Zenon
<1>2. \A x \in S : ~(x < m)
  BY <1>1, Zenon DEF OpToRel
<1>3. \A x \in S : m <= x
  BY <1>2
<1>4. QED
  BY <1>3 DEF Min

\* A non-empty set of positions 1..n has a maximum.
LEMMA MaxOfPositions ==
  ASSUME NEW n \in Nat, NEW S \in SUBSET (1..n), S # {}
  PROVE  Max(S) \in S /\ \A x \in S : x <= Max(S)
<1> DEFINE D == {n - x : x \in S}
<1>1. D \in SUBSET Nat /\ D # {}
  <2>1. \A x \in S : n - x \in Nat
    OBVIOUS
  <2>2. QED
    BY <2>1
<1>2. PICK m \in S : Min(D) = n - m
  BY <1>1, MinOfNaturals
<1>3. \A x \in S : n - m <= n - x
  BY <1>1, <1>2, MinOfNaturals
<1>4. \A x \in S : x <= m
  BY <1>3
<1>5. QED
  BY <1>4 DEF Max

-----------------------------------------------------------------------------
(* Cut points                                                              *)

\* The cut points of a prompt are the positions from its first system turn
\* on, in ascending order.
LEMMA CandidatesAreCuts ==
  ASSUME NEW p \in Prompts, Candidates(p) # <<>>
  PROVE  \E f \in 1..Len(p) :
           /\ Candidates(p) = [j \in 1..(Len(p) - f + 1) |-> f + j - 1]
           /\ Len(Candidates(p)) = Len(p) - f + 1
           /\ ToSet(Candidates(p)) = f..Len(p)
<1> DEFINE sys == {i \in DOMAIN p : p[i] \in SystemTurn}
           f == Min(sys)
           c == [j \in 1..(Len(p) - f + 1) |-> f + j - 1]
<1>1. p \in Seq(Turn) /\ DOMAIN p = 1..Len(p)
  BY PromptsAssumption
<1>2. sys # {} /\ Candidates(p) = c
  BY DEF Candidates
<1>3. f \in 1..Len(p)
  <2>1. sys \in SUBSET (1..Len(p)) /\ sys \in SUBSET Nat
    BY <1>1
  <2>2. f \in sys
    BY <1>2, <2>1, MinOfNaturals
  <2>3. QED
    BY <2>1, <2>2
<1> HIDE DEF f, sys
<1>4. c \in Seq(Nat) /\ Len(c) = Len(p) - f + 1
  BY <1>1, <1>3
<1>5. ToSet(c) = f..Len(p)
  <2>1. ASSUME NEW d \in f..Len(p) PROVE d \in ToSet(c)
    <3>1. d - f + 1 \in DOMAIN c /\ c[d - f + 1] = d
      BY <1>1, <1>3
    <3>2. QED
      BY <3>1 DEF ToSet
  <2>2. ASSUME NEW d \in ToSet(c) PROVE d \in f..Len(p)
    BY <1>1, <1>3 DEF ToSet
  <2>3. QED
    BY <2>1, <2>2
<1>6. QED
  BY <1>2, <1>3, <1>4, <1>5

\* The target of a prompt with cut points is one of them.
LEMMA TargetIsACut ==
  ASSUME NEW p \in Prompts, Candidates(p) # <<>>
  PROVE  TargetCut(p) \in 1..Len(p) /\ TargetCut(p) \in ToSet(Candidates(p))
<1>1. PICK f \in 1..Len(p) :
         /\ Candidates(p) = [j \in 1..(Len(p) - f + 1) |-> f + j - 1]
         /\ Len(Candidates(p)) = Len(p) - f + 1
         /\ ToSet(Candidates(p)) = f..Len(p)
  BY CandidatesAreCuts
<1>2. Len(p) \in Nat
  BY PromptsAssumption
<1>3. TargetCut(p) \in f..Len(p)
  BY <1>1, <1>2 DEF TargetCut
<1>4. QED
  BY <1>1, <1>2, <1>3

\* A prefix of a prompt is a sequence of turns of the length of the cut.
LEMMA PrefixType ==
  ASSUME NEW p \in Prompts, NEW d \in 1..Len(p)
  PROVE  Prefix(p, d) \in Seq(Turn) /\ Len(Prefix(p, d)) = d
<1>1. p \in Seq(Turn)
  BY PromptsAssumption
<1>2. QED
  BY <1>1, SubSeqProperties DEF Prefix

-----------------------------------------------------------------------------
(* The index, whatever goes wrong                                          *)

\* While a request holds a reservation, its target is not cached, and at cap
\* the entry to evict is the oldest one.
Reserved ==
  holder # None /\ holder.snap # None =>
    /\ Candidates(holder.prompt) # <<>>
    /\ holder.snap.cut = TargetCut(holder.prompt)
    /\ TargetKey(holder.prompt) \notin Cached
    /\ IF Len(lru) < Cap THEN pendingEvict = None ELSE pendingEvict = Oldest(lru)

\* A snapshot position never lies past the end of the prompt it came with.
InPrompt(r) == r.snap = None \/ r.snap.cut <= Len(r.prompt)

SnapsInPrompt ==
  /\ \A i \in DOMAIN stdin : InPrompt(stdin[i])
  /\ job # None => InPrompt(job)

IndexInv == TypeOK /\ IndexBounded /\ Reserved /\ SnapsInPrompt

\* The order left by lookup and prepare_inline_snap is a permutation of the
\* order before.
LEMMA TouchedPermutes ==
  ASSUME TypeOK, IndexBounded, NEW p \in Prompts, NEW order \in Touched(p)
  PROVE  /\ order \in Seq(Seq(Turn))
         /\ IsInjective(order)
         /\ ToSet(order) = ToSet(lru)
         /\ Len(order) = Len(lru)
<1>1. Cached = ToSet(lru) /\ lru \in Seq(Seq(Turn))
  BY DEF TypeOK, Cached
<1>2. /\ order \in [1..Len(lru) -> Cached]
      /\ IsInjective(order)
      /\ \A k \in Cached : \E i \in 1..Len(lru) : order[i] = k
  BY DEF Touched, Bijection, Injection, Surjection
<1>3. Cached \subseteq Seq(Turn)
  BY <1>1 DEF ToSet
<1>4. order \in Seq(Seq(Turn)) /\ Len(order) = Len(lru)
  <2>1. order \in [1..Len(lru) -> Seq(Turn)] /\ Len(lru) \in Nat
    BY <1>1, <1>2, <1>3
  <2>2. QED
    BY <2>1
<1>5. ToSet(order) = Cached
  BY <1>2 DEF ToSet
<1>6. QED
  BY <1>1, <1>2, <1>4, <1>5

\* lookup returns a slot of the prefix pool or None.
LEMMA LookupType ==
  ASSUME TypeOK, NEW p \in Prompts
  PROVE  /\ lookup(p) \in Slot \cup {None}
         /\ lookup(p) # None =>
              \E d \in Hits(p) : lookup(p) = slotOf[Prefix(p, d)]
<1>1. CASE Hits(p) = {}
  BY <1>1 DEF lookup
<1>2. CASE Hits(p) # {}
  <2>1. Candidates(p) # <<>>
    BY <1>2 DEF Hits, ToSet
  <2>2. Hits(p) \in SUBSET (1..Len(p)) /\ Len(p) \in Nat
    BY <2>1, CandidatesAreCuts, PromptsAssumption DEF Hits
  <2>3. Max(Hits(p)) \in Hits(p)
    BY <1>2, <2>2, MaxOfPositions
  <2>4. slotOf[Prefix(p, Max(Hits(p)))] \in Slot
    BY <2>3 DEF Hits, Cached, TypeOK
  <2>5. QED
    BY <1>2, <2>3, <2>4 DEF lookup
<1>3. QED
  BY <1>1, <1>2

\* The reservation made by prepare_inline_snap.
LEMMA PrepareType ==
  ASSUME TypeOK, IndexBounded, NEW p \in Prompts, NEW order \in Touched(p)
  PROVE  /\ prepare_inline_snap(p, order) \in SnapPrep \cup {None}
         /\ Reserve(p, order) => /\ nextSlot' \in Slot
                                 /\ pendingEvict' \in Seq(Turn) \cup {None}
<1>1. CASE ~NeedsSnap(p)
  BY <1>1 DEF prepare_inline_snap, Reserve, TypeOK
<1>2. CASE NeedsSnap(p)
  <2>1. TargetCut(p) \in Nat
    BY <1>2, TargetIsACut, PromptsAssumption DEF NeedsSnap
  <2>2. CASE Len(order) >= Cap
    <3>1. Oldest(order) \in Cached /\ Oldest(order) \in Seq(Turn)
      <4>1. order \in Seq(Seq(Turn)) /\ ToSet(order) = Cached
        BY TouchedPermutes DEF Cached, TypeOK
      <4>2. 1 \in DOMAIN order
        BY <2>2, <4>1, CapAssumption
      <4>3. QED
        BY <4>1, <4>2 DEF Oldest, ToSet
    <3>2. slotOf[Oldest(order)] \in Slot
      BY <3>1 DEF TypeOK, Cached
    <3>3. QED
      BY <1>2, <2>1, <2>2, <3>1, <3>2 DEF prepare_inline_snap, Reserve, SnapPrep, TypeOK
  <2>3. CASE ~(Len(order) >= Cap)
    <3>1. (nextSlot + 1) % Cap \in Slot
      BY CapAssumption DEF TypeOK, Slot
    <3>2. QED
      BY <1>2, <2>1, <2>3, <3>1 DEF prepare_inline_snap, Reserve, SnapPrep, TypeOK
  <2>4. QED
    BY <2>2, <2>3
<1>3. QED
  BY <1>1, <1>2

LEMMA SubmitIndexInv ==
  ASSUME IndexInv, NEW p \in Prompts, Submit(p)
  PROVE  IndexInv'
<1> USE DEF IndexInv
<1>1. PICK order \in Touched(p) :
        LET snap == prepare_inline_snap(p, order)
        IN  /\ lru' = order
            /\ Reserve(p, order)
            /\ holder' = [prompt |-> p, snap |-> snap]
            /\ stdin' = Append(stdin, [prompt |-> p, restore |-> lookup(p),
                                       snap |-> snap, bin |-> TRUE])
  BY DEF Submit
<1> DEFINE snap == prepare_inline_snap(p, order)
           cmd == [prompt |-> p, restore |-> lookup(p), snap |-> snap, bin |-> TRUE]
<1>2. UNCHANGED <<slotOf, job, slots, replies>>
  BY DEF Submit
<1>3. /\ lru' \in Seq(Seq(Turn)) /\ IsInjective(lru')
      /\ ToSet(lru') = ToSet(lru) /\ Len(lru') = Len(lru)
  BY <1>1, TouchedPermutes
<1>4. /\ snap \in SnapPrep \cup {None}
      /\ nextSlot' \in Slot
      /\ pendingEvict' \in Seq(Turn) \cup {None}
  BY <1>1, PrepareType
<1>5. snap # None => /\ NeedsSnap(p)
                     /\ snap.cut = TargetCut(p)
                     /\ TargetCut(p) <= Len(p)
  BY TargetIsACut, PromptsAssumption DEF prepare_inline_snap, NeedsSnap
<1>6. cmd \in Command /\ InPrompt(cmd)
  BY <1>4, <1>5, LookupType DEF Command, InPrompt
<1>7. stdin' \in Seq(Command) /\ \A i \in DOMAIN stdin' : InPrompt(stdin'[i])
  <2> HIDE DEF cmd
  <2>1. stdin' = Append(stdin, cmd)
    BY <1>1 DEF cmd
  <2>2. QED
    BY <1>6, <2>1 DEF TypeOK, SnapsInPrompt
<1>8. holder' \in Request
  BY <1>1, <1>4 DEF Request
<1>9. TypeOK'
  BY <1>2, <1>3, <1>4, <1>7, <1>8 DEF TypeOK
<1>10. IndexBounded'
  BY <1>3 DEF IndexBounded
<1>11. Reserved'
  <2> SUFFICES ASSUME holder'.snap # None
               PROVE  /\ Candidates(p) # <<>>
                      /\ snap.cut = TargetCut(p)
                      /\ TargetKey(p) \notin Cached'
                      /\ IF Len(lru') < Cap THEN pendingEvict' = None
                         ELSE pendingEvict' = Oldest(lru')
    BY <1>1 DEF Reserved
  <2>1. snap # None
    BY <1>1
  <2>2. NeedsSnap(p) /\ snap.cut = TargetCut(p)
    BY <1>5, <2>1
  <2>3. Cached' = Cached
    BY <1>2 DEF Cached
  <2>4. Len(order) \in Nat /\ Cap \in Nat
    BY TouchedPermutes, CapAssumption DEF TypeOK
  <2>5. IF Len(lru') < Cap THEN pendingEvict' = None ELSE pendingEvict' = Oldest(lru')
    BY <1>1, <2>2, <2>4 DEF Reserve
  <2>6. QED
    BY <2>2, <2>3, <2>5 DEF NeedsSnap
<1>12. SnapsInPrompt'
  BY <1>2, <1>7 DEF SnapsInPrompt, InPrompt
<1>13. QED
  BY <1>9, <1>10, <1>11, <1>12

\* Marking the prompt file of the last command changes nothing else.
LEMMA UnlinkedType ==
  ASSUME TypeOK, SnapsInPrompt
  PROVE  /\ Unlinked \in Seq(Command)
         /\ Len(Unlinked) = Len(stdin)
         /\ \A i \in DOMAIN Unlinked : InPrompt(Unlinked[i])
<1>1. CASE stdin = <<>>
  BY <1>1 DEF Unlinked, TypeOK, SnapsInPrompt
<1>2. CASE stdin # <<>>
  <2> DEFINE n == Len(stdin)
             c == [stdin[n] EXCEPT !.bin = FALSE]
  <2>1. n \in 1..Len(stdin) /\ stdin \in Seq(Command)
    BY <1>2 DEF TypeOK
  <2>2. stdin[n] \in Command
    BY <2>1
  <2>3. c \in Command /\ c.snap = stdin[n].snap /\ c.prompt = stdin[n].prompt
    BY <2>2 DEF Command
  <2> HIDE DEF c
  <2>4. Unlinked = [stdin EXCEPT ![n] = c]
    BY <1>2 DEF Unlinked, c
  <2>5. /\ Unlinked \in Seq(Command)
        /\ Len(Unlinked) = Len(stdin)
        /\ \A i \in 1..Len(stdin) : Unlinked[i] = IF i = n THEN c ELSE stdin[i]
    BY <2>1, <2>3, <2>4, ExceptSeq
  <2>6. \A i \in DOMAIN Unlinked : InPrompt(Unlinked[i])
    BY <2>1, <2>3, <2>5 DEF SnapsInPrompt, InPrompt
  <2>7. QED
    BY <2>5, <2>6
<1>3. QED
  BY <1>1, <1>2

\* Confirming evicts at most the oldest entry, and one when the index is full.
LEMMA ConfirmIndex ==
  ASSUME IndexInv, holder # None, holder.snap # None,
         confirm_inline_snap(holder.snap.slot, Prefix(holder.prompt, holder.snap.cut))
  PROVE  /\ lru' \in Seq(Seq(Turn)) /\ IsInjective(lru') /\ Len(lru') <= Cap
         /\ Len(lru') = IF Len(lru) < Cap THEN Len(lru) + 1 ELSE Len(lru)
         /\ slotOf' \in [ToSet(lru') -> Slot]
         /\ ToSet(lru') = (Cached \ {pendingEvict}) \cup {TargetKey(holder.prompt)}
         /\ nextSlot' = nextSlot /\ pendingEvict' = None
<1> USE DEF IndexInv
<1> DEFINE key == TargetKey(holder.prompt)
           kept == Pop(lru, pendingEvict)
<1>1. /\ lru' = Insert(kept, key)
      /\ slotOf' = [k \in (Cached \ {pendingEvict}) \cup {key} |->
                      IF k = key THEN holder.snap.slot ELSE slotOf[k]]
      /\ nextSlot' = nextSlot /\ pendingEvict' = None
  BY DEF confirm_inline_snap, Reserved, TargetKey
<1>2. /\ holder \in Request /\ holder.prompt \in Prompts /\ holder.snap.slot \in Slot
      /\ Candidates(holder.prompt) # <<>>
      /\ key \notin Cached
      /\ IF Len(lru) < Cap THEN pendingEvict = None ELSE pendingEvict = Oldest(lru)
  BY DEF TypeOK, Request, SnapPrep, Reserved
<1>3. Cached = ToSet(lru) /\ lru \in Seq(Seq(Turn)) /\ IsInjective(lru) /\ Len(lru) <= Cap
  BY DEF TypeOK, Cached, IndexBounded
<1>4. key \in Seq(Turn)
  BY <1>2, TargetIsACut, PrefixType DEF TargetKey
<1> HIDE DEF key, kept
<1>5. /\ kept \in Seq(Seq(Turn)) /\ IsInjective(kept)
      /\ ToSet(kept) = ToSet(lru) \ {pendingEvict}
      /\ Len(kept) = Len(lru) - (IF pendingEvict \in ToSet(lru) THEN 1 ELSE 0)
  BY <1>3, PopDropsKey DEF kept
<1>6. key \notin ToSet(kept)
  BY <1>2, <1>3, <1>5
<1>7. /\ lru' \in Seq(Seq(Turn)) /\ IsInjective(lru')
      /\ ToSet(lru') = ToSet(kept) \cup {key}
      /\ Len(lru') = Len(kept) + 1
  BY <1>1, <1>4, <1>5, <1>6, InsertAddsKey
<1>8. Len(kept) < Cap /\ Len(kept) = IF Len(lru) < Cap THEN Len(lru) ELSE Len(lru) - 1
  <2>1. CASE Len(lru) < Cap
    <3>1. pendingEvict \notin ToSet(lru)
      BY <1>2, <1>3, <2>1, NoneAssumption DEF ToSet
    <3>2. QED
      BY <1>3, <1>5, <2>1, <3>1, CapAssumption
  <2>2. CASE ~(Len(lru) < Cap)
    <3>1. pendingEvict \in ToSet(lru)
      BY <1>2, <1>3, <2>2, CapAssumption DEF Oldest, ToSet
    <3>2. QED
      BY <1>3, <1>5, <2>2, <3>1, CapAssumption
  <2>3. QED
    BY <2>1, <2>2
<1>9. ToSet(lru') = (Cached \ {pendingEvict}) \cup {key}
  BY <1>3, <1>5, <1>7
<1>10. slotOf' \in [ToSet(lru') -> Slot]
  BY <1>1, <1>2, <1>3, <1>9 DEF TypeOK
<1>11. Len(lru') <= Cap /\ Len(lru') = IF Len(lru) < Cap THEN Len(lru) + 1 ELSE Len(lru)
  <2>1. Len(lru) \in Nat /\ Len(kept) \in Nat /\ Cap \in Nat
    BY <1>3, <1>5, CapAssumption
  <2>2. QED
    BY <1>7, <1>8, <2>1
<1>12. QED
  BY <1>1, <1>7, <1>9, <1>10, <1>11 DEF key

LEMMA ReplyIndexInv ==
  ASSUME IndexInv, Reply
  PROVE  IndexInv'
<1> USE DEF IndexInv
<1>1. /\ holder # None /\ holder' = None /\ replies > 0 /\ replies' = replies - 1
      /\ stdin' = Unlinked /\ UNCHANGED <<job, slots>>
  BY DEF Reply, daemon
<1>2. /\ lru' \in Seq(Seq(Turn)) /\ IsInjective(lru') /\ Len(lru') <= Cap
      /\ slotOf' \in [ToSet(lru') -> Slot]
      /\ nextSlot' \in Slot /\ pendingEvict' \in Seq(Turn) \cup {None}
  <2>1. CASE holder.snap = None
    BY <2>1 DEF Reply, index, TypeOK, IndexBounded
  <2>2. CASE holder.snap # None
    <3>1. confirm_inline_snap(holder.snap.slot, Prefix(holder.prompt, holder.snap.cut))
      BY <2>2 DEF Reply
    <3>2. QED
      BY <1>1, <2>2, <3>1, ConfirmIndex DEF TypeOK
  <2>3. QED
    BY <2>1, <2>2
<1>3. TypeOK'
  BY <1>1, <1>2, UnlinkedType DEF TypeOK
<1>4. IndexBounded'
  BY <1>2 DEF IndexBounded
<1>5. Reserved'
  BY <1>1 DEF Reserved
<1>6. SnapsInPrompt'
  BY <1>1, UnlinkedType DEF SnapsInPrompt, InPrompt
<1>7. QED
  BY <1>3, <1>4, <1>5, <1>6

LEMMA AbandonIndexInv ==
  ASSUME IndexInv, Abandon
  PROVE  IndexInv'
<1> USE DEF IndexInv
<1>1. /\ holder' = None /\ stdin' \in {stdin, Unlinked}
      /\ UNCHANGED <<lru, slotOf, nextSlot, pendingEvict, job, slots, replies>>
  BY DEF Abandon, index, daemon
<1>2. TypeOK'
  BY <1>1, UnlinkedType DEF TypeOK
<1>3. IndexBounded' /\ Reserved'
  BY <1>1 DEF IndexBounded, Reserved
<1>4. SnapsInPrompt'
  BY <1>1, UnlinkedType DEF SnapsInPrompt, InPrompt
<1>5. QED
  BY <1>2, <1>3, <1>4

\* The KV state at the snapshot position is a sequence of turns.
LEMMA AtCutType ==
  ASSUME TypeOK, SnapsInPrompt, job # None, SnapReachable
  PROVE  AtCut \in Seq(Turn)
<1>1. /\ job \in Job /\ job.prompt \in Seq(Turn) /\ job.kv \in Seq(Turn)
      /\ job.snap.cut \in Nat /\ job.snap.cut <= Len(job.prompt)
  BY PromptsAssumption DEF TypeOK, Job, SnapPrep, SnapReachable, SnapsInPrompt, InPrompt
<1>2. SubSeq(job.prompt, Len(job.kv) + 1, job.snap.cut) \in Seq(Turn)
  BY <1>1, SubSeqProperties
<1>3. QED
  BY <1>1, <1>2 DEF AtCut

LEMMA DaemonIndexInv ==
  ASSUME IndexInv, Daemon
  PROVE  IndexInv'
<1> USE DEF IndexInv
<1>1. CASE Accept
  <2>1. /\ stdin # <<>> /\ stdin' = Tail(stdin)
        /\ UNCHANGED <<lru, slotOf, nextSlot, pendingEvict, holder, slots>>
    BY <1>1 DEF Accept, index
  <2>2. Head(stdin) \in Command /\ InPrompt(Head(stdin))
    <3>1. Head(stdin) = stdin[1] /\ 1 \in DOMAIN stdin
      BY <2>1 DEF TypeOK
    <3>2. QED
      BY <3>1 DEF TypeOK, SnapsInPrompt
  <2>3. /\ stdin' \in Seq(Command)
        /\ \A i \in DOMAIN stdin' : InPrompt(stdin'[i])
    <3>1. /\ stdin' \in Seq(Command) /\ Len(stdin') = Len(stdin) - 1
          /\ \A i \in 1..Len(stdin') : stdin'[i] = stdin[i + 1]
      BY <2>1, HeadTailProperties DEF TypeOK
    <3>2. Len(stdin) \in Nat /\ DOMAIN stdin = 1..Len(stdin)
      BY DEF TypeOK
    <3>3. \A i \in 1..Len(stdin') : i + 1 \in DOMAIN stdin
      BY <3>1, <3>2
    <3>4. \A i \in 1..Len(stdin') : InPrompt(stdin[i + 1])
      BY <3>3 DEF SnapsInPrompt
    <3>5. \A i \in 1..Len(stdin') : InPrompt(stdin'[i])
      BY <3>1, <3>4
    <3>6. QED
      BY <3>1, <3>5, LenProperties
  <2>4. /\ job' \in Job \cup {None} /\ replies' \in Nat
        /\ job' # None => InPrompt(job')
    <3>1. CASE Rejects(Head(stdin))
      BY <1>1, <3>1 DEF Accept, TypeOK, SnapsInPrompt
    <3>2. CASE ~Rejects(Head(stdin))
      <4> DEFINE c == Head(stdin)
                 kv == IF c.restore = None THEN <<>> ELSE slots[c.restore]
      <4>1. job' = [prompt |-> c.prompt, snap |-> c.snap, kv |-> kv] /\ replies' = replies
        BY <1>1, <3>2 DEF Accept
      <4>2. kv \in Seq(Turn)
        BY <2>2 DEF TypeOK, Command
      <4> HIDE DEF c, kv
      <4>3. QED
        BY <2>2, <4>1, <4>2 DEF TypeOK, Job, Command, InPrompt, c
    <3>3. QED
      BY <3>1, <3>2
  <2>5. TypeOK'
    BY <2>1, <2>3, <2>4 DEF TypeOK
  <2>6. QED
    BY <2>1, <2>3, <2>4, <2>5 DEF IndexBounded, Reserved, SnapsInPrompt, Cached
<1>2. CASE InlineSnap \/ InlineSnapFails
  <2>1. /\ job # None /\ SnapReachable
        /\ job' = [job EXCEPT !.kv = AtCut, !.snap = None]
        /\ \/ slots' = [slots EXCEPT ![job.snap.slot] = AtCut]
           \/ slots' = slots
        /\ UNCHANGED <<lru, slotOf, nextSlot, pendingEvict, holder, stdin, replies>>
    BY <1>2 DEF InlineSnap, InlineSnapFails, index
  <2>2. AtCut \in Seq(Turn)
    BY <2>1, AtCutType
  <2>3. slots' \in [Slot -> Seq(Turn)]
    BY <2>1, <2>2 DEF TypeOK
  <2>4. job' \in Job /\ job'.snap = None
    BY <2>1, <2>2 DEF TypeOK, Job
  <2>5. TypeOK'
    BY <2>1, <2>3, <2>4 DEF TypeOK
  <2>6. QED
    BY <2>1, <2>4, <2>5 DEF IndexBounded, Reserved, SnapsInPrompt, InPrompt, Cached
<1>3. CASE Finish
  BY <1>3 DEF Finish, index, TypeOK, IndexBounded, Reserved, SnapsInPrompt, InPrompt, Cached
<1>4. QED
  BY <1>1, <1>2, <1>3 DEF Daemon

LEMMA InitIndexInv == Init => IndexInv
  BY CapAssumption DEF Init, IndexInv, TypeOK, IndexBounded, Reserved, SnapsInPrompt,
     IsInjective, ToSet, Slot

LEMMA NextIndexInv == IndexInv /\ [Next]_vars => IndexInv'
<1> SUFFICES ASSUME IndexInv, [Next]_vars PROVE IndexInv'
  OBVIOUS
<1>1. CASE Next
  BY <1>1, SubmitIndexInv, ReplyIndexInv, AbandonIndexInv, DaemonIndexInv DEF Next
<1>2. CASE UNCHANGED vars
  BY <1>2 DEF vars, IndexInv, TypeOK, IndexBounded, Reserved, SnapsInPrompt, InPrompt, Cached
<1>3. QED
  BY <1>1, <1>2

LEMMA IndexInvariant == Spec => []IndexInv
  BY InitIndexInv, NextIndexInv, PTL DEF Spec

\* PrefixCache.entries, the daemon slots and the pipes stay in their domains,
\* whatever requests do and however they end.
THEOREM TypeCorrect == Spec => []TypeOK
<1>1. IndexInv => TypeOK
  BY DEF IndexInv
<1>2. QED
  BY <1>1, IndexInvariant, PTL

\* prepare_inline_snap and confirm_inline_snap never let the index grow past
\* cap, although the eviction is deferred and a request may end between them.
THEOREM NeverOverCap == Spec => []IndexBounded
<1>1. IndexInv => IndexBounded
  BY DEF IndexInv
<1>2. QED
  BY <1>1, IndexInvariant, PTL

\* An entry leaves the index only as its least recently used key, even if
\* the reservation it was chosen by is stale by then.
THEOREM OnlyOldestEvicted == Spec => EvictsOldest
<1> DEFINE A == \A k \in Cached \ Cached' : k = Oldest(lru)
<1>1. IndexInv /\ [Next]_vars => [A]_vars
  <2> SUFFICES ASSUME IndexInv, Next PROVE A
    BY DEF A
  <2>1. CASE Reply /\ holder.snap # None
    <3>1. confirm_inline_snap(holder.snap.slot, Prefix(holder.prompt, holder.snap.cut))
      BY <2>1 DEF Reply
    <3>2. ToSet(lru') = (Cached \ {pendingEvict}) \cup {TargetKey(holder.prompt)}
          /\ slotOf' \in [ToSet(lru') -> Slot]
      BY <2>1, <3>1, ConfirmIndex DEF Reply
    <3>3. \A k \in Cached \ Cached' : k = pendingEvict
      BY <3>2 DEF Cached
    <3>4. \A k \in Cached : k \in Seq(Turn)
      BY DEF IndexInv, TypeOK, Cached, ToSet
    <3>5. pendingEvict \in Cached => pendingEvict = Oldest(lru)
      BY <2>1, <3>4, NoneAssumption DEF IndexInv, Reserved, Reply
    <3>6. QED
      BY <3>3, <3>5
  <2>2. CASE ~(Reply /\ holder.snap # None)
    <3>1. slotOf' = slotOf
      BY <2>2 DEF Next, Submit, Reply, Abandon, Daemon, Accept, InlineSnap,
         InlineSnapFails, Finish, index
    <3>2. QED
      BY <3>1 DEF Cached
  <2>3. QED
    BY <2>1, <2>2
<1>2. QED
  BY <1>1, IndexInvariant, PTL DEF Spec, EvictsOldest

-----------------------------------------------------------------------------
(***************************************************************************)
(* What the index and the daemon guarantee together when no request is     *)
(* abandoned, no snapshot allocation fails and turns alternate: slots are  *)
(* never shared and every request runs on the KV state of its own prompt.  *)
(* Runs of MCPrefixCache violate the conclusions when requests may be      *)
(* abandoned, and when a client sends two user messages in a row.          *)
(***************************************************************************)


-----------------------------------------------------------------------------
(* The inductive invariant                                                 *)

\* Every cached key is the target of some prompt.
KeysAreTargets ==
  \A k \in Cached : \E q \in Prompts : Candidates(q) # <<>> /\ k = TargetKey(q)

Reserving == holder # None /\ holder.snap # None

\* The daemon has stored the snapshot that the request reserved.
SnapDone == Reserving /\ stdin = <<>> /\ (job = None \/ job.snap = None)

\* Below cap, the slots in use are 0..Len(lru)-1 and the next one follows.
SlotsInOrder ==
  /\ Len(lru) < Cap =>
       /\ \A k \in Cached : slotOf[k] < Len(lru)
       /\ nextSlot = IF Reserving THEN (Len(lru) + 1) % Cap ELSE Len(lru)
       /\ Reserving => holder.snap.slot = Len(lru)
  /\ Len(lru) >= Cap /\ Reserving => holder.snap.slot = slotOf[pendingEvict]

\* Every slot holds its key, but for the one being overwritten.
SlotsHoldKeys ==
  /\ \A k \in Cached : \/ slots[slotOf[k]] = k
                       \/ SnapDone /\ slotOf[k] = holder.snap.slot
  /\ SnapDone => slots[holder.snap.slot] = TargetKey(holder.prompt)

\* The one request in the lock is queued, running or answered.
Queued ==
  /\ Len(stdin) = 1 /\ job = None /\ replies = 0
  /\ LET c == stdin[1]
     IN  /\ c.prompt = holder.prompt /\ c.snap = holder.snap /\ c.bin
         /\ c.restore # None =>
              \E d \in Hits(c.prompt) : c.restore = slotOf[Prefix(c.prompt, d)]

Running ==
  /\ stdin = <<>> /\ job # None /\ replies = 0
  /\ job.prompt = holder.prompt
  /\ job.snap = holder.snap \/ job.snap = None
  /\ \E d \in 0..Len(job.prompt) :
       /\ job.kv = Prefix(job.prompt, d)
       /\ job.snap # None => d < job.snap.cut

Done == stdin = <<>> /\ job = None /\ replies = 1

Lockstep ==
  IF holder = None THEN stdin = <<>> /\ job = None /\ replies = 0
  ELSE Queued \/ Running \/ Done

CleanInv ==
  /\ IndexInv
  /\ KeysAreTargets
  /\ SlotCountConsistent
  /\ SlotsInOrder
  /\ SlotsHoldKeys
  /\ Lockstep

-----------------------------------------------------------------------------
(* Prefixes                                                                *)

\* Prefilling from a prefix of the prompt to a later position yields the
\* prefix up to that position.
LEMMA PrefillExtends ==
  ASSUME NEW p \in Prompts, NEW d \in 0..Len(p), NEW cut \in d..Len(p)
  PROVE  Prefix(p, d) \o SubSeq(p, d + 1, cut) = Prefix(p, cut)
<1>1. p \in Seq(Turn) /\ Len(p) \in Nat
  BY PromptsAssumption
<1>2. QED
  BY <1>1, ConcatAdjacentSubSeq DEF Prefix

\* Length of a prefix, the empty one included.
LEMMA PrefixLen ==
  ASSUME NEW p \in Prompts, NEW d \in 0..Len(p)
  PROVE  /\ Prefix(p, d) \in Seq(Turn) /\ Len(Prefix(p, d)) = d
         /\ IsPrefix(Prefix(p, d), p)
<1>1. p \in Seq(Turn) /\ Len(p) \in Nat
  BY PromptsAssumption
<1>2. Prefix(p, d) \in Seq(Turn) /\ Len(Prefix(p, d)) = d
  BY <1>1, SubSeqProperties DEF Prefix
<1>3. SubSeq(Prefix(p, d), 1, d) = Prefix(p, d)
  BY <1>1, <1>2
<1>4. QED
  BY <1>1, <1>2, <1>3 DEF IsPrefix, Prefix

\* The hits of a lookup are positive cuts of the prompt with a cached prefix.
LEMMA HitsAreCuts ==
  ASSUME NEW p \in Prompts, NEW d \in Hits(p)
  PROVE  /\ Candidates(p) # <<>> /\ d \in ToSet(Candidates(p))
         /\ d \in 1..Len(p) /\ Prefix(p, d) \in Cached
<1>1. d \in ToSet(Candidates(p)) /\ Prefix(p, d) \in Cached
  BY DEF Hits
<1>2. Candidates(p) # <<>>
  BY <1>1 DEF ToSet
<1>3. ToSet(Candidates(p)) \in SUBSET (1..Len(p))
  <2>1. PICK f \in 1..Len(p) : ToSet(Candidates(p)) = f..Len(p)
    BY <1>2, CandidatesAreCuts
  <2>2. QED
    BY <2>1, PromptsAssumption
<1>4. QED
  BY <1>1, <1>2, <1>3

-----------------------------------------------------------------------------
(* One step at a time                                                      *)

LEMMA SubmitClean ==
  ASSUME CleanInv, NEW p \in Prompts, Submit(p)
  PROVE  CleanInv'
<1> USE DEF CleanInv
<1>1. PICK order \in Touched(p) :
        LET snap == prepare_inline_snap(p, order)
        IN  /\ lru' = order
            /\ Reserve(p, order)
            /\ holder' = [prompt |-> p, snap |-> snap]
            /\ stdin' = Append(stdin, [prompt |-> p, restore |-> lookup(p),
                                       snap |-> snap, bin |-> TRUE])
  BY DEF Submit
<1> DEFINE snap == prepare_inline_snap(p, order)
           cmd == [prompt |-> p, restore |-> lookup(p), snap |-> snap, bin |-> TRUE]
<1>2. holder = None /\ UNCHANGED <<slotOf, job, slots, replies>>
  BY DEF Submit
<1>3. stdin = <<>> /\ job = None /\ replies = 0
  BY <1>2 DEF Lockstep
<1>4. IndexInv /\ TypeOK /\ IndexBounded /\ IndexInv'
  BY SubmitIndexInv DEF IndexInv
<1>5. Len(lru') = Len(lru) /\ Len(order) = Len(lru) /\ Len(lru) \in Nat
  BY <1>1, <1>4, TouchedPermutes DEF TypeOK
<1>6. Cached' = Cached
  BY <1>2 DEF Cached
<1>7. snap \in SnapPrep \cup {None}
  BY <1>4, PrepareType
<1>8. holder' # None /\ holder'.snap = snap /\ holder'.prompt = p
  <2>1. holder' \in Request
    BY <1>1, <1>7 DEF Request
  <2>2. QED
    BY <1>1, <2>1, NoneAssumption
<1>9. stdin' = <<cmd>>
  BY <1>1, <1>3
<1>10. KeysAreTargets' /\ SlotCountConsistent'
  BY <1>2, <1>6 DEF KeysAreTargets, SlotCountConsistent
<1>11. SlotsInOrder'
  <2>1. CASE ~NeedsSnap(p)
    <3>1. snap = None /\ nextSlot' = nextSlot
      BY <1>1, <2>1 DEF prepare_inline_snap, Reserve
    <3>2. ~Reserving' /\ ~Reserving
      BY <1>2, <1>8, <3>1 DEF Reserving
    <3>3. QED
      BY <1>2, <1>5, <1>6, <3>1, <3>2 DEF SlotsInOrder
  <2>2. CASE NeedsSnap(p) /\ Len(lru) < Cap
    <3>1. /\ nextSlot = Len(lru) /\ \A k \in Cached : slotOf[k] < Len(lru)
      BY <1>2, <2>2 DEF SlotsInOrder, Reserving
    <3>2. /\ snap = [slot |-> nextSlot, cut |-> TargetCut(p)]
          /\ nextSlot' = (nextSlot + 1) % Cap
      BY <1>1, <1>5, <2>2, CapAssumption DEF prepare_inline_snap, Reserve
    <3>3. snap # None /\ snap.slot = Len(lru)
      BY <1>4, <3>1, <3>2, NoneAssumption, TargetIsACut, PromptsAssumption, <2>2
         DEF SnapPrep, TypeOK, NeedsSnap
    <3>4. Reserving'
      BY <1>8, <3>3 DEF Reserving
    <3>5. /\ \A k \in Cached' : slotOf'[k] < Len(lru')
          /\ nextSlot' = (Len(lru') + 1) % Cap
          /\ holder'.snap.slot = Len(lru')
      BY <1>2, <1>5, <1>6, <1>8, <3>1, <3>2, <3>3
    <3>6. ~(Len(lru') >= Cap)
      BY <1>5, <2>2, CapAssumption
    <3>7. QED
      BY <3>4, <3>5, <3>6 DEF SlotsInOrder
  <2>3. CASE NeedsSnap(p) /\ ~(Len(lru) < Cap)
    <3>1. snap.slot = slotOf[Oldest(order)] /\ pendingEvict' = Oldest(order)
      BY <1>1, <1>5, <2>3, CapAssumption DEF prepare_inline_snap, Reserve
    <3>2. QED
      BY <1>2, <1>5, <1>8, <2>3, <3>1 DEF SlotsInOrder
  <2>4. QED
    BY <2>1, <2>2, <2>3
<1>12. SlotsHoldKeys'
  <2>1. ~SnapDone /\ ~SnapDone'
    BY <1>2, <1>9 DEF SnapDone, Reserving
  <2>2. QED
    BY <1>2, <1>6, <2>1 DEF SlotsHoldKeys
<1>13. Lockstep'
  <2>1. lookup(p) # None => \E d \in Hits(p) : lookup(p) = slotOf[Prefix(p, d)]
    BY <1>4, LookupType
  <2>2. Hits(p)' = Hits(p)
    BY <1>6 DEF Hits
  <2>3. cmd.prompt = p /\ cmd.snap = snap /\ cmd.restore = lookup(p) /\ cmd.bin
    OBVIOUS
  <2> HIDE DEF cmd
  <2>4. stdin'[1] = cmd /\ Len(stdin') = 1
    BY <1>9
  <2>5. Queued'
    BY <1>2, <1>3, <1>8, <2>1, <2>2, <2>3, <2>4 DEF Queued
  <2>6. QED
    BY <1>8, <2>5 DEF Lockstep
<1>14. QED
  BY <1>4, <1>10, <1>11, <1>12, <1>13

\* The daemon reads the one command there is: it never rejects it, and the
\* slot it restores holds a prefix of the prompt no deeper than its target.
LEMMA AcceptClean ==
  ASSUME TurnsAlternate(Prompts), CleanInv, Accept
  PROVE  CleanInv'
<1> USE DEF CleanInv
<1> DEFINE c == stdin[1]
<1>1. /\ stdin # <<>> /\ stdin' = Tail(stdin)
      /\ UNCHANGED <<lru, slotOf, nextSlot, pendingEvict, holder, slots>>
  BY DEF Accept, index
<1>2. /\ holder # None /\ Len(stdin) = 1 /\ job = None /\ replies = 0
      /\ c.prompt = holder.prompt /\ c.snap = holder.snap /\ c.bin
      /\ c.restore # None =>
           \E d \in Hits(c.prompt) : c.restore = slotOf[Prefix(c.prompt, d)]
  BY <1>1 DEF Lockstep, Queued, Running, Done
<1>3. IndexInv /\ TypeOK /\ IndexInv'
  <2>1. Daemon
    BY DEF Daemon
  <2>2. QED
    BY <2>1, DaemonIndexInv DEF IndexInv
<1>4. c = Head(stdin) /\ c \in Command /\ stdin' = <<>>
  <2>1. stdin \in Seq(Command)
    BY <1>3 DEF TypeOK
  <2>2. QED
    BY <1>1, <1>2, <2>1
<1>5. c.prompt \in Prompts /\ c.snap \in SnapPrep \cup {None}
      /\ c.restore \in Slot \cup {None}
  BY <1>4 DEF Command
<1> HIDE DEF c
<1>6. ~SnapDone
  BY <1>1 DEF SnapDone
<1>7. ASSUME c.restore # None
      PROVE  \E d \in 1..Len(c.prompt) :
               /\ slots[c.restore] = Prefix(c.prompt, d)
               /\ c.snap # None => d < c.snap.cut
  <2>1. PICK d \in Hits(c.prompt) : c.restore = slotOf[Prefix(c.prompt, d)]
    BY <1>2, <1>7
  <2>2. /\ d \in 1..Len(c.prompt) /\ d \in ToSet(Candidates(c.prompt))
        /\ Prefix(c.prompt, d) \in Cached
    BY <1>5, HitsAreCuts
  <2>3. slots[c.restore] = Prefix(c.prompt, d)
    BY <1>6, <2>1, <2>2 DEF SlotsHoldKeys
  <2>4. ASSUME c.snap # None PROVE d < c.snap.cut
    <3>1. /\ Candidates(c.prompt) # <<>> /\ c.snap.cut = TargetCut(c.prompt)
          /\ TargetKey(c.prompt) \notin Cached
      BY <1>2, <1>3, <2>4 DEF IndexInv, Reserved
    <3>2. PICK q \in Prompts : Candidates(q) # <<>> /\ Prefix(c.prompt, d) = TargetKey(q)
      BY <2>2 DEF KeysAreTargets
    <3>3. d <= c.snap.cut
      BY <1>5, <2>2, <3>1, <3>2 DEF TurnsAlternate
    <3>4. d # c.snap.cut
      BY <2>2, <3>1 DEF TargetKey
    <3>5. c.snap.cut \in Nat /\ d \in Nat
      BY <1>5, <2>2, <2>4, PromptsAssumption DEF SnapPrep
    <3>6. QED
      BY <3>3, <3>4, <3>5
  <2>5. QED
    BY <2>2, <2>3, <2>4
<1>8. ~Rejects(c)
  <2>1. ASSUME c.restore # None PROVE slots[c.restore] # <<>>
    <3>1. PICK d \in 1..Len(c.prompt) : slots[c.restore] = Prefix(c.prompt, d)
      BY <1>7, <2>1
    <3>2. Len(Prefix(c.prompt, d)) = d /\ d >= 1
      BY <1>5, PrefixType
    <3>3. Len(<<>>) = 0
      OBVIOUS
    <3>4. QED
      BY <3>1, <3>2, <3>3
  <2>2. QED
    BY <1>2, <2>1 DEF Rejects
<1> DEFINE kv == IF c.restore = None THEN <<>> ELSE slots[c.restore]
<1>9. job' = [prompt |-> c.prompt, snap |-> c.snap, kv |-> kv] /\ replies' = replies
  BY <1>4, <1>8 DEF Accept
<1>10. \E d \in 0..Len(c.prompt) : /\ kv = Prefix(c.prompt, d)
                                   /\ c.snap # None => d < c.snap.cut
  <2>1. CASE c.restore = None
    <3>1. Prefix(c.prompt, 0) = <<>> /\ 0 \in 0..Len(c.prompt)
      BY <1>5, SubSeqEmpty, PromptsAssumption DEF Prefix
    <3>2. c.snap # None => 0 < c.snap.cut
      BY <1>2, <1>3, <1>5, TargetIsACut, PromptsAssumption DEF IndexInv, Reserved, SnapPrep
    <3>3. QED
      BY <2>1, <3>1, <3>2
  <2>2. CASE c.restore # None
    <3>1. PICK d \in 1..Len(c.prompt) : /\ slots[c.restore] = Prefix(c.prompt, d)
                                        /\ c.snap # None => d < c.snap.cut
      BY <1>7, <2>2
    <3>2. d \in 0..Len(c.prompt)
      OBVIOUS
    <3>3. QED
      BY <2>2, <3>1, <3>2
  <2>3. QED
    BY <2>1, <2>2
<1> HIDE DEF kv
<1>11. job' # None
  <2>1. kv \in Seq(Turn)
    BY <1>5, <1>10, PrefixLen
  <2>2. job' \in Job
    BY <1>5, <1>9, <2>1 DEF Job
  <2>3. QED
    BY <2>2, NoneAssumption
<1>12. ~SnapDone'
  BY <1>1, <1>2, <1>9, <1>11 DEF SnapDone, Reserving
<1>13. Cached' = Cached /\ Reserving' = Reserving
  BY <1>1 DEF Cached, Reserving
<1>14. KeysAreTargets' /\ SlotCountConsistent' /\ SlotsInOrder' /\ SlotsHoldKeys'
  BY <1>1, <1>6, <1>12, <1>13
     DEF KeysAreTargets, SlotCountConsistent, SlotsInOrder, SlotsHoldKeys
<1>15. Running'
  BY <1>1, <1>2, <1>4, <1>9, <1>10, <1>11 DEF Running
<1>16. QED
  BY <1>1, <1>2, <1>3, <1>14, <1>15 DEF Lockstep

\* The snapshot position is reachable: the slot receives the target key.
LEMMA InlineSnapClean ==
  ASSUME CleanInv, InlineSnap
  PROVE  CleanInv'
<1> USE DEF CleanInv
<1>1. /\ job # None /\ SnapReachable
      /\ slots' = [slots EXCEPT ![job.snap.slot] = AtCut]
      /\ job' = [job EXCEPT !.kv = AtCut, !.snap = None]
      /\ UNCHANGED <<lru, slotOf, nextSlot, pendingEvict, holder, stdin, replies>>
  BY DEF InlineSnap, index
<1>2. IndexInv /\ TypeOK /\ IndexInv'
  <2>1. Daemon
    BY DEF Daemon
  <2>2. QED
    BY <2>1, DaemonIndexInv DEF IndexInv
<1>3. /\ holder # None /\ stdin = <<>> /\ replies = 0
      /\ job.prompt = holder.prompt /\ job.snap = holder.snap /\ job.snap # None
  BY <1>1 DEF Lockstep, Queued, Running, Done, SnapReachable
<1>4. PICK d \in 0..Len(job.prompt) : job.kv = Prefix(job.prompt, d) /\ d < job.snap.cut
  BY <1>1, <1>3 DEF Lockstep, Queued, Running, Done
<1> DEFINE p == job.prompt
           cut == job.snap.cut
<1>5. /\ job \in Job /\ p \in Prompts /\ job.snap \in SnapPrep
      /\ cut \in Nat /\ job.snap.slot \in Slot
  BY <1>1, <1>3, <1>2 DEF TypeOK, Job, SnapPrep
<1>6. cut \in d..Len(p) /\ Len(p) \in Nat
  BY <1>1, <1>2, <1>3, <1>4, <1>5, PromptsAssumption DEF IndexInv, SnapsInPrompt, InPrompt
<1>7. AtCut = Prefix(p, cut) /\ AtCut = TargetKey(p)
  <2>1. Len(job.kv) = d
    BY <1>4, <1>5, PrefixLen
  <2>2. AtCut = Prefix(p, cut)
    BY <1>4, <1>5, <1>6, <2>1, PrefillExtends DEF AtCut
  <2>3. cut = TargetCut(p)
    BY <1>2, <1>3 DEF IndexInv, Reserved
  <2>4. QED
    BY <2>2, <2>3 DEF TargetKey
<1>8. /\ job' \in Job /\ job'.prompt = p /\ job'.kv = AtCut /\ job'.snap = None
  <2>1. cut \in 0..Len(p)
    BY <1>4, <1>6
  <2>2. AtCut \in Seq(Turn)
    BY <1>5, <1>7, <2>1, PrefixLen
  <2>3. QED
    BY <1>1, <1>5, <2>2 DEF Job
<1>9. SnapDone' /\ ~SnapDone
  BY <1>1, <1>3, <1>8 DEF SnapDone, Reserving
<1>10. Cached' = Cached /\ Reserving' = Reserving
  BY <1>1 DEF Cached, Reserving
<1>11. KeysAreTargets' /\ SlotCountConsistent' /\ SlotsInOrder'
  BY <1>1, <1>10 DEF KeysAreTargets, SlotCountConsistent, SlotsInOrder
<1>12. SlotsHoldKeys'
  <2>1. \A k \in Cached : slots[slotOf[k]] = k /\ slotOf[k] \in Slot
    BY <1>2, <1>9 DEF SlotsHoldKeys, TypeOK, Cached
  <2>2. /\ slots'[job.snap.slot] = TargetKey(p)
        /\ \A s \in Slot \ {job.snap.slot} : slots'[s] = slots[s]
    BY <1>1, <1>2, <1>5, <1>7 DEF TypeOK
  <2>3. QED
    BY <1>1, <1>3, <1>9, <1>10, <2>1, <2>2 DEF SlotsHoldKeys
<1>13. Running'
  <2>1. cut \in 0..Len(p)
    BY <1>4, <1>6
  <2>2. job' # None
    BY <1>8, NoneAssumption
  <2>3. QED
    BY <1>1, <1>3, <1>7, <1>8, <2>1, <2>2 DEF Running
<1>14. QED
  BY <1>1, <1>2, <1>3, <1>11, <1>12, <1>13 DEF Lockstep

\* The daemon finishes only after the snapshot has fired.
LEMMA FinishClean ==
  ASSUME CleanInv, Finish
  PROVE  CleanInv' /\ job.snap = None
<1> USE DEF CleanInv
<1>1. /\ job # None /\ ~SnapReachable /\ job' = None /\ replies' = replies + 1
      /\ UNCHANGED <<lru, slotOf, nextSlot, pendingEvict, holder, stdin, slots>>
  BY DEF Finish, index
<1>2. IndexInv /\ TypeOK /\ IndexInv'
  <2>1. Daemon
    BY DEF Daemon
  <2>2. QED
    BY <2>1, DaemonIndexInv DEF IndexInv
<1>3. /\ holder # None /\ Running
  BY <1>1 DEF Lockstep, Queued, Done
<1>4. job.snap = None
  <2> SUFFICES ASSUME job.snap # None PROVE FALSE
    OBVIOUS
  <2>1. PICK d \in 0..Len(job.prompt) : job.kv = Prefix(job.prompt, d) /\ d < job.snap.cut
    BY <1>3 DEF Running
  <2>2. job.prompt \in Prompts /\ job.snap.cut \in Nat
    BY <1>1, <1>2 DEF TypeOK, Job, SnapPrep
  <2>3. Len(job.kv) = d
    BY <2>1, <2>2, PrefixLen
  <2>4. d \in Nat /\ Len(job.prompt) \in Nat
    BY <2>2, PromptsAssumption
  <2>5. job.snap.cut <= Len(job.prompt)
    BY <1>1, <1>2, <2>2, PromptsAssumption DEF IndexInv, SnapsInPrompt, InPrompt
  <2>6. QED
    BY <1>1, <2>1, <2>2, <2>3, <2>4, <2>5 DEF SnapReachable
<1>5. Cached' = Cached /\ Reserving' = Reserving /\ SnapDone' = SnapDone
  BY <1>1, <1>4 DEF Cached, Reserving, SnapDone
<1>6. KeysAreTargets' /\ SlotCountConsistent' /\ SlotsInOrder' /\ SlotsHoldKeys'
  BY <1>1, <1>5 DEF KeysAreTargets, SlotCountConsistent, SlotsInOrder, SlotsHoldKeys
<1>7. Done'
  BY <1>1, <1>3 DEF Running, Done
<1>8. QED
  BY <1>1, <1>2, <1>3, <1>4, <1>6, <1>7 DEF Lockstep

\* A confirmed key is inserted over a slot that holds its KV state, and no
\* other entry is left on that slot.
LEMMA ReplyClean ==
  ASSUME CleanInv, Reply
  PROVE  /\ CleanInv'
         /\ \A k \in Cached' \ Cached : slots[slotOf'[k]] = k
<1> USE DEF CleanInv
<1>1. /\ holder # None /\ holder' = None /\ replies > 0 /\ replies' = replies - 1
      /\ stdin' = Unlinked /\ UNCHANGED <<job, slots>>
  BY DEF Reply, daemon
<1>2. IndexInv /\ TypeOK /\ IndexInv'
  BY ReplyIndexInv DEF IndexInv
<1>3. stdin = <<>> /\ job = None /\ replies = 1
  BY <1>1 DEF Lockstep, Queued, Running, Done
<1>4. stdin' = <<>> /\ Lockstep'
  BY <1>1, <1>3 DEF Unlinked, Lockstep
<1>5. ~Reserving' /\ ~SnapDone'
  BY <1>1 DEF Reserving, SnapDone
<1>6. CASE holder.snap = None
  <2>1. UNCHANGED <<lru, slotOf, nextSlot, pendingEvict>>
    BY <1>6 DEF Reply, index
  <2>2. ~Reserving /\ ~SnapDone /\ Cached' = Cached
    BY <1>6, <2>1 DEF Reserving, SnapDone, Cached
  <2>3. KeysAreTargets' /\ SlotCountConsistent' /\ SlotsInOrder' /\ SlotsHoldKeys'
    BY <1>1, <1>5, <2>1, <2>2
       DEF KeysAreTargets, SlotCountConsistent, SlotsInOrder, SlotsHoldKeys
  <2>4. QED
    BY <1>2, <1>4, <2>2, <2>3
<1>7. CASE holder.snap # None
  <2> DEFINE key == TargetKey(holder.prompt)
             slot == holder.snap.slot
  <2>1. SnapDone /\ Reserving
    BY <1>1, <1>3, <1>7 DEF SnapDone, Reserving
  <2>2. confirm_inline_snap(slot, Prefix(holder.prompt, holder.snap.cut))
    BY <1>7 DEF Reply
  <2>3. /\ Len(lru') = IF Len(lru) < Cap THEN Len(lru) + 1 ELSE Len(lru)
        /\ slotOf' \in [ToSet(lru') -> Slot]
        /\ ToSet(lru') = (Cached \ {pendingEvict}) \cup {key}
        /\ nextSlot' = nextSlot
    BY <1>1, <1>2, <1>7, <2>2, ConfirmIndex
  <2>4. /\ key \notin Cached
        /\ Candidates(holder.prompt) # <<>> /\ holder.prompt \in Prompts
        /\ IF Len(lru) < Cap THEN pendingEvict = None ELSE pendingEvict = Oldest(lru)
        /\ Prefix(holder.prompt, holder.snap.cut) = key
    BY <1>1, <1>2, <1>7 DEF IndexInv, Reserved, TypeOK, Request, TargetKey
  <2>5. Cached' = (Cached \ {pendingEvict}) \cup {key}
    BY <2>3 DEF Cached
  <2>6. slotOf'[key] = slot /\ \A k \in Cached \ {pendingEvict} : slotOf'[k] = slotOf[k]
    BY <2>2, <2>4 DEF confirm_inline_snap
  <2>7. Len(lru) \in Nat /\ Cap \in Nat /\ Len(lru) <= Cap
    BY <1>2, CapAssumption DEF IndexInv, TypeOK, IndexBounded
  <2>8. slots[slot] = key
    BY <2>1 DEF SlotsHoldKeys
  <2>9. \A k \in Cached \ {pendingEvict} : slotOf[k] # slot
    <3>1. CASE Len(lru) < Cap
      <4>1. slot = Len(lru) /\ \A k \in Cached : slotOf[k] < Len(lru)
        BY <2>1, <3>1 DEF SlotsInOrder
      <4>2. \A k \in Cached : slotOf[k] \in Slot
        BY <1>2 DEF TypeOK, Cached
      <4>3. QED
        BY <2>7, <4>1, <4>2 DEF Slot
    <3>2. CASE ~(Len(lru) < Cap)
      <4>1. slot = slotOf[pendingEvict]
        BY <2>1, <2>7, <3>2 DEF SlotsInOrder
      <4>2. pendingEvict \in Cached
        <5>1. Cached = ToSet(lru) /\ 1 \in DOMAIN lru
          BY <1>2, <2>7, <3>2, CapAssumption DEF TypeOK, Cached
        <5>2. QED
          BY <2>4, <3>2, <5>1 DEF Oldest, ToSet
      <4>3. QED
        BY <4>1, <4>2 DEF SlotCountConsistent, IsInjective, Cached
    <3>3. QED
      BY <3>1, <3>2
  <2> HIDE DEF key, slot
  <2>10. KeysAreTargets'
    BY <2>4, <2>5 DEF KeysAreTargets, key
  <2>11. SlotCountConsistent'
    <3>1. \A j, k \in Cached \ {pendingEvict} : slotOf[j] = slotOf[k] => j = k
      BY DEF SlotCountConsistent, IsInjective, Cached
    <3>2. \A j, k \in Cached' : slotOf'[j] = slotOf'[k] => j = k
      BY <2>5, <2>6, <2>9, <3>1
    <3>3. QED
      BY <3>2 DEF SlotCountConsistent, IsInjective, Cached
  <2>12. SlotsInOrder'
    <3>1. CASE Len(lru) < Cap
      <4>1. Len(lru') = Len(lru) + 1 /\ nextSlot' = (Len(lru) + 1) % Cap
        BY <2>1, <2>3, <3>1 DEF SlotsInOrder
      <4>2. slot = Len(lru) /\ \A k \in Cached : slotOf[k] < Len(lru)
        BY <2>1, <3>1 DEF SlotsInOrder, slot
      <4>3. \A k \in Cached : slotOf[k] \in Int
        BY <1>2 DEF TypeOK, Cached, Slot
      <4>4. \A k \in Cached' : slotOf'[k] < Len(lru')
        BY <2>5, <2>6, <2>7, <4>1, <4>2, <4>3
      <4>5. Len(lru') < Cap => nextSlot' = Len(lru')
        BY <2>7, <4>1
      <4>6. QED
        BY <1>5, <4>4, <4>5 DEF SlotsInOrder
    <3>2. CASE ~(Len(lru) < Cap)
      <4>1. ~(Len(lru') < Cap)
        BY <2>3, <3>2
      <4>2. QED
        BY <1>5, <4>1 DEF SlotsInOrder
    <3>3. QED
      BY <3>1, <3>2
  <2>13. \A k \in Cached' : slots[slotOf'[k]] = k
    <3>1. \A k \in Cached \ {pendingEvict} : slots[slotOf[k]] = k
      BY <2>9 DEF SlotsHoldKeys, slot
    <3>2. QED
      BY <2>5, <2>6, <2>8, <3>1
  <2>14. SlotsHoldKeys'
    BY <1>1, <1>5, <2>13 DEF SlotsHoldKeys
  <2>15. QED
    BY <1>2, <1>4, <2>10, <2>11, <2>12, <2>13, <2>14
<1>8. QED
  BY <1>6, <1>7

-----------------------------------------------------------------------------
(* The theorems                                                            *)

LEMMA InitClean == Init => CleanInv
<1> SUFFICES ASSUME Init PROVE CleanInv
  OBVIOUS
<1>1. lru = <<>> /\ holder = None /\ stdin = <<>> /\ job = None /\ replies = 0
      /\ nextSlot = 0 /\ Cached = {}
  BY DEF Init, Cached
<1>2. IndexInv
  BY InitIndexInv
<1>3. KeysAreTargets /\ SlotCountConsistent /\ SlotsHoldKeys /\ Lockstep
  BY <1>1 DEF KeysAreTargets, SlotCountConsistent, IsInjective, SlotsHoldKeys, Cached,
     SnapDone, Reserving, Lockstep
<1>4. SlotsInOrder
  <2>1. Len(lru) = 0 /\ ~Reserving
    BY <1>1 DEF Reserving
  <2>2. QED
    BY <1>1, <2>1, CapAssumption DEF SlotsInOrder
<1>5. QED
  BY <1>2, <1>3, <1>4 DEF CleanInv

LEMMA NextClean ==
  ASSUME Faults = {}, TurnsAlternate(Prompts)
  PROVE  CleanInv /\ [Next]_vars => CleanInv'
<1> SUFFICES ASSUME CleanInv, [Next]_vars PROVE CleanInv'
  OBVIOUS
<1>1. CASE Next
  <2>1. ~Abandon /\ ~InlineSnapFails
    BY DEF Abandon, InlineSnapFails
  <2>2. QED
    BY <1>1, <2>1, SubmitClean, AcceptClean, InlineSnapClean, FinishClean, ReplyClean
       DEF Next, Daemon
<1>2. CASE UNCHANGED vars
  <2>1. IndexInv'
    BY <1>2, NextIndexInv DEF CleanInv
  <2>2. Cached' = Cached /\ Reserving' = Reserving /\ SnapDone' = SnapDone
    BY <1>2 DEF vars, Cached, Reserving, SnapDone
  <2>3. KeysAreTargets' /\ SlotCountConsistent' /\ SlotsInOrder' /\ SlotsHoldKeys'
    BY <1>2, <2>2
       DEF vars, CleanInv, KeysAreTargets, SlotCountConsistent, SlotsInOrder, SlotsHoldKeys
  <2>4. Lockstep'
    BY <1>2, <2>2 DEF vars, CleanInv, Lockstep, Queued, Running, Done, Hits
  <2>5. QED
    BY <2>1, <2>3, <2>4 DEF CleanInv
<1>3. QED
  BY <1>1, <1>2

\* A running request holds the KV state of a prefix of its own prompt.
LEMMA CleanRunsOnPrefix == CleanInv => RunsOnOwnPrefix
<1> SUFFICES ASSUME CleanInv, job # None PROVE IsPrefix(job.kv, job.prompt)
  BY DEF RunsOnOwnPrefix
<1>1. PICK d \in 0..Len(job.prompt) : job.kv = Prefix(job.prompt, d)
  BY DEF CleanInv, Lockstep, Queued, Running, Done
<1>2. job.prompt \in Prompts
  BY DEF CleanInv, IndexInv, TypeOK, Job
<1>3. QED
  BY <1>1, <1>2, PrefixLen

\* A queued RESTORE names a slot that holds a non-empty prefix.
LEMMA CleanRestoreFinds == CleanInv => RestoreFindsSnapshot
<1> SUFFICES ASSUME CleanInv, job = None, stdin # <<>>, Head(stdin).restore # None
             PROVE  slots[Head(stdin).restore] # <<>>
  BY DEF RestoreFindsSnapshot
<1> DEFINE c == stdin[1]
<1>1. Queued
  BY DEF CleanInv, Lockstep, Running, Done
<1>2. c = Head(stdin) /\ c.prompt \in Prompts
  <2>1. stdin \in Seq(Command) /\ 1 \in DOMAIN stdin
    BY DEF CleanInv, IndexInv, TypeOK
  <2>2. c \in Command
    BY <2>1
  <2>3. QED
    BY <2>1, <2>2 DEF Command
<1>3. PICK d \in Hits(c.prompt) : c.restore = slotOf[Prefix(c.prompt, d)]
  BY <1>1, <1>2 DEF Queued
<1> HIDE DEF c
<1>4. /\ d \in 1..Len(c.prompt) /\ Prefix(c.prompt, d) \in Cached
  BY <1>2, <1>3, HitsAreCuts
<1>5. slots[c.restore] = Prefix(c.prompt, d)
  BY <1>3, <1>4 DEF CleanInv, SlotsHoldKeys, SnapDone
<1>6. Len(Prefix(c.prompt, d)) = d
  BY <1>2, <1>4, PrefixType
<1>7. d # 0 /\ Len(<<>>) = 0
  BY <1>2, <1>4, PromptsAssumption
<1>8. QED
  BY <1>2, <1>5, <1>6, <1>7

\* Two cached prefixes never share a daemon slot, if every request runs to
\* its end and turns alternate (prefix_cache.py:298-301).
THEOREM SlotsNeverShared ==
  ASSUME Faults = {}, TurnsAlternate(Prompts)
  PROVE  Spec => []SlotCountConsistent
<1>1. CleanInv /\ [Next]_vars => CleanInv'
  BY NextClean
<1>2. CleanInv => SlotCountConsistent
  BY DEF CleanInv
<1>3. QED
  BY <1>1, <1>2, InitClean, PTL DEF Spec

\* No request ever runs on another prompt's KV state
\* (prefix_cache.py:425-427, the daemon's RESTORE and prefill).
THEOREM NoWrongKVRestore ==
  ASSUME Faults = {}, TurnsAlternate(Prompts)
  PROVE  Spec => []RunsOnOwnPrefix
<1>1. CleanInv /\ [Next]_vars => CleanInv'
  BY NextClean
<1>2. QED
  BY <1>1, CleanRunsOnPrefix, InitClean, PTL DEF Spec

\* The daemon never meets a RESTORE of an empty slot, so no request is
\* answered with an empty response because of the index.
THEOREM NoEmptyRestore ==
  ASSUME Faults = {}, TurnsAlternate(Prompts)
  PROVE  Spec => []RestoreFindsSnapshot
<1>1. CleanInv /\ [Next]_vars => CleanInv'
  BY NextClean
<1>2. QED
  BY <1>1, CleanRestoreFinds, InitClean, PTL DEF Spec

\* confirm_inline_snap, which sees no acknowledgement, only ever registers a
\* snapshot the daemon has taken.
THEOREM ConfirmsOnlyTakenSnapshots ==
  ASSUME Faults = {}, TurnsAlternate(Prompts)
  PROVE  Spec => ConfirmedWasTaken
<1> DEFINE A == \A k \in Cached' \ Cached : slots[slotOf'[k]] = k
<1>1. CleanInv /\ [Next]_vars => CleanInv'
  BY NextClean
<1>2. CleanInv /\ [Next]_vars => [A]_vars
  <2> SUFFICES ASSUME CleanInv, Next PROVE A
    BY DEF A
  <2>1. CASE Reply
    BY <2>1, ReplyClean
  <2>2. CASE ~Reply
    <3>1. slotOf' = slotOf
      BY <2>2 DEF Next, Submit, Abandon, Daemon, Accept, InlineSnap, InlineSnapFails,
         Finish, index
    <3>2. QED
      BY <3>1 DEF Cached
  <2>3. QED
    BY <2>1, <2>2
<1>3. QED
  BY <1>1, <1>2, InitClean, PTL DEF Spec, ConfirmedWasTaken

\* lookup sends the request to a slot at least as deep as every prefix of the
\* prompt the index holds ("the LONGEST cached prefix").
THEOREM LongestPrefixRestored ==
  ASSUME Faults = {}, TurnsAlternate(Prompts)
  PROVE  Spec => RestoresLongest
<1> DEFINE A(p) == \A d \in ToSet(Candidates(p)) : Prefix(p, d) \in Cached =>
                     LET c == Last(stdin')
                     IN  c.restore # None /\ Len(slots[c.restore]) >= d
           B == \A p \in Prompts : Submit(p) => A(p)
<1>1. CleanInv /\ [Next]_vars => CleanInv'
  BY NextClean
<1>2. CleanInv /\ [Next]_vars => [B]_vars
  <2> SUFFICES ASSUME CleanInv, NEW p \in Prompts, Submit(p),
                      NEW d \in Hits(p)
               PROVE  LET c == Last(stdin')
                      IN  c.restore # None /\ Len(slots[c.restore]) >= d
    BY DEF B, A, Hits
  <2> DEFINE m == Max(Hits(p))
  <2>1. stdin = <<>>
    BY DEF CleanInv, Lockstep, Submit
  <2>2. \E c : stdin' = <<c>> /\ c.restore = lookup(p)
    BY <2>1 DEF Submit
  <2>3. Last(stdin').restore = lookup(p)
    BY <2>2 DEF Last
  <2>4. Hits(p) \in SUBSET (1..Len(p)) /\ Len(p) \in Nat
    BY HitsAreCuts, PromptsAssumption
  <2>5. m \in Hits(p) /\ d <= m
    BY <2>4, MaxOfPositions
  <2>6. lookup(p) = slotOf[Prefix(p, m)]
    BY DEF lookup
  <2> HIDE DEF m
  <2>7. m \in 1..Len(p) /\ Prefix(p, m) \in Cached
    BY <2>5, HitsAreCuts
  <2>8. slots[lookup(p)] = Prefix(p, m)
    BY <2>1, <2>6, <2>7 DEF CleanInv, SlotsHoldKeys, SnapDone, Reserving, Submit
  <2>9. lookup(p) # None
    BY <2>6, <2>7, NoneAssumption DEF CleanInv, IndexInv, TypeOK, Cached
  <2>10. Len(slots[lookup(p)]) = m
    BY <2>7, <2>8, PrefixType
  <2>11. QED
    BY <2>3, <2>5, <2>9, <2>10
<1>3. QED
  BY <1>1, <1>2, InitClean, PTL DEF Spec, RestoresLongest
=============================================================================
