---------------------------- MODULE PrefixCache ----------------------------
(***************************************************************************)
(* The inline prefix cache: the LRU index class PrefixCache of             *)
(* scripts/prefix_cache.py, driven by one HTTP request at a time under     *)
(* daemon_lock (scripts/server.py), over the snapshot slots of the decode  *)
(* daemon (test/test_dflash.cpp).                                          *)
(*                                                                         *)
(* A prompt is its sequence of rendered chat messages ("turns").  A        *)
(* position counts turns, so the prefix ids[:cut] that the code hashes is  *)
(* SubSeq(p, 1, cut), and the KV state of a cache or of a slot is the      *)
(* sequence of turns it was computed from.  Hash collisions are left out.  *)
(***************************************************************************)
EXTENDS Integers, SequencesExt, OrderedDict

CONSTANTS
  Turn,         \* message contents
  SystemTurn,   \* the turns rendered with the role "system"
  Prompts,      \* the prompts clients send
  Cap,          \* PrefixCache.cap, after clamping to DAEMON_MAX_SLOTS
  Faults,       \* subset of {"abandon", "oom"}: what may go wrong
  MaxStale,     \* bound on abandoned commands whose reply is not yet read
  None          \* Python's None

ASSUME PromptsAssumption ==
  /\ SystemTurn \subseteq Turn
  /\ Prompts \subseteq Seq(Turn) \ {<<>>}
ASSUME CapAssumption == Cap \in 1..8
VARIABLES
  lru,          \* keys of PrefixCache.entries, least recently used first
  slotOf,       \* PrefixCache.entries: cached prefix -> daemon slot
  nextSlot,     \* PrefixCache.next_slot
  pendingEvict, \* PrefixCache._pending_evict_key
  holder,       \* the request inside `async with daemon_lock`, or None
  stdin,        \* command lines written and not yet read by the daemon
  job,          \* the request the daemon is running, or None
  slots,        \* prefix_snapshots: the KV state held, <<>> for no snapshot
  replies       \* replies ended by -1 in the token pipe and not yet read

index == <<lru, slotOf, nextSlot, pendingEvict>>
daemon == <<job, slots>>
vars == <<lru, slotOf, nextSlot, pendingEvict, holder, stdin, job, slots, replies>>

Slot == 0..(Cap - 1)
SnapPrep == [slot : Slot, cut : Nat]
Request == [prompt : Prompts, snap : SnapPrep \cup {None}]
\* bin: the prompt file named by the command still exists
Command == [prompt : Prompts, restore : Slot \cup {None},
            snap : SnapPrep \cup {None}, bin : BOOLEAN]
Job == [prompt : Prompts, kv : Seq(Turn), snap : SnapPrep \cup {None}]

ASSUME NoneAssumption ==
  None \notin Slot \cup Seq(Turn) \cup SnapPrep \cup Request \cup Job

-----------------------------------------------------------------------------
(* Cut points and keys                                                     *)

Prefix(p, cut) == SubSeq(p, 1, cut)

\* find_all_boundaries: a cut after every turn from the first system turn on
\* (module Boundaries has the scan over tokens); none without a system turn.
Candidates(p) ==
  LET sys == {i \in DOMAIN p : p[i] \in SystemTurn}
  IN  IF sys = {} THEN <<>>
      ELSE [j \in 1..(Len(p) - Min(sys) + 1) |-> Min(sys) + j - 1]

\* candidates[-2] if there are two, else candidates[-1]
TargetCut(p) ==
  LET c == Candidates(p)
  IN  IF Len(c) >= 2 THEN c[Len(c) - 1] ELSE c[Len(c)]

TargetKey(p) == Prefix(p, TargetCut(p))

\* A prefix that some prompt of P targets is never a cut point of another
\* one past that one's own target.  True of dialogues in which user and
\* assistant alternate: every target ends an assistant turn.
TurnsAlternate(P) ==
  \A p, q \in P : Candidates(p) # <<>> /\ Candidates(q) # <<>> =>
    \A d \in ToSet(Candidates(p)) :
      Prefix(p, d) = TargetKey(q) => d <= TargetCut(p)

-----------------------------------------------------------------------------
(* The index                                                               *)

Cached == DOMAIN slotOf

Hits(p) == {d \in ToSet(Candidates(p)) : Prefix(p, d) \in Cached}

\* Mutant: stop at the first hit.
lookupShortest(p) ==
  IF Hits(p) = {} THEN None ELSE slotOf[Prefix(p, Min(Hits(p)))]

\* The slot of the longest cached prefix.
lookup(p) ==
  IF Hits(p) = {} THEN None ELSE slotOf[Prefix(p, Max(Hits(p)))]

\* OrderedDict after lookup and prepare_inline_snap: move_to_end on every
\* hit in ascending cut order, then on the target if it is cached.
Touched(p) ==
  LET hit  == {Prefix(p, d) : d \in Hits(p)}
      use(k) == IF k \notin hit THEN Position(lru, k)
                ELSE Len(lru) + (IF k = TargetKey(p) THEN Len(p) + 1 ELSE Len(k))
  IN  {s \in Bijection(1..Len(lru), Cached) :
         \A i, j \in 1..Len(lru) : i < j => use(s[i]) < use(s[j])}

NeedsSnap(p) == Candidates(p) # <<>> /\ TargetKey(p) \notin Cached

\* Mutant: round robin at cap too, whichever entry is evicted.
prepareRoundRobin(p, order) ==
  IF ~NeedsSnap(p) THEN None ELSE [slot |-> nextSlot, cut |-> TargetCut(p)]

\* Slot reserved by prepare_inline_snap, given the keys in LRU order.
prepare_inline_snap(p, order) ==
  IF ~NeedsSnap(p) THEN None
  ELSE [slot |-> IF Len(order) >= Cap THEN slotOf[Oldest(order)] ELSE nextSlot,
        cut |-> TargetCut(p)]

\* Mutant: the most recently used entry is marked for eviction.
ReserveNewest(p, order) ==
  IF ~NeedsSnap(p) THEN UNCHANGED <<nextSlot, pendingEvict>>
  ELSE IF Len(order) >= Cap
  THEN pendingEvict' = Last(order) /\ UNCHANGED nextSlot
  ELSE pendingEvict' = None /\ nextSlot' = (nextSlot + 1) % Cap

\* What prepare_inline_snap leaves in next_slot and _pending_evict_key.
Reserve(p, order) ==
  IF ~NeedsSnap(p) THEN UNCHANGED <<nextSlot, pendingEvict>>
  ELSE IF Len(order) >= Cap
  THEN pendingEvict' = Oldest(order) /\ UNCHANGED nextSlot
  ELSE pendingEvict' = None /\ nextSlot' = (nextSlot + 1) % Cap

\* Mutant: the reserved entry is forgotten.
confirmKeepsEvicted(slot, key) ==
  /\ lru' = Insert(lru, key)
  /\ slotOf' = [k \in Cached \cup {key} |-> IF k = key THEN slot ELSE slotOf[k]]
  /\ pendingEvict' = None
  /\ UNCHANGED nextSlot

\* Mutant: next_slot is read at confirm time, after prepare advanced it.
confirmNextSlot(slot, key) ==
  /\ lru' = Insert(Pop(lru, pendingEvict), key)
  /\ slotOf' = [k \in (Cached \ {pendingEvict}) \cup {key} |->
                  IF k = key THEN nextSlot ELSE slotOf[k]]
  /\ pendingEvict' = None
  /\ UNCHANGED nextSlot

\* Evict the reserved entry, if any, and insert key -> slot.
confirm_inline_snap(slot, key) ==
  /\ lru' = Insert(Pop(lru, pendingEvict), key)
  /\ slotOf' = [k \in (Cached \ {pendingEvict}) \cup {key} |->
                  IF k = key THEN slot ELSE slotOf[k]]
  /\ pendingEvict' = None
  /\ UNCHANGED nextSlot

-----------------------------------------------------------------------------
(* The HTTP request, inside daemon_lock                                    *)

\* lookup, prepare_inline_snap and the write of the command line: no await
\* separates them.
Submit(p) ==
  /\ holder = None
  /\ \E order \in Touched(p) :
       LET snap == prepare_inline_snap(p, order)
       IN  /\ lru' = order
           /\ Reserve(p, order)
           /\ holder' = [prompt |-> p, snap |-> snap]
           /\ stdin' = Append(stdin, [prompt |-> p, restore |-> lookup(p),
                                      snap |-> snap, bin |-> TRUE])
  /\ UNCHANGED <<slotOf, job, slots, replies>>

\* cur_bin.unlink(): the holder's command is the last one written, so if any
\* command is still unread its prompt file is gone when the daemon opens it.
Unlinked ==
  IF stdin = <<>> THEN stdin ELSE [stdin EXCEPT ![Len(stdin)].bin = FALSE]

\* The token reader met a -1: the response ends, the snapshot is confirmed
\* whatever the daemon printed, and the lock is released.
Reply ==
  /\ holder # None
  /\ replies > 0
  /\ replies' = replies - 1
  /\ IF holder.snap = None THEN UNCHANGED index
     ELSE confirm_inline_snap(holder.snap.slot, Prefix(holder.prompt, holder.snap.cut))
  /\ stdin' = Unlinked
  /\ holder' = None
  /\ UNCHANGED daemon

\* The client of a streaming response goes away: only `finally` runs (not
\* even that at the first yield, before `try`).  The snapshot is neither
\* confirmed nor aborted and the pipe is not drained.
Abandon ==
  /\ "abandon" \in Faults
  /\ holder # None
  /\ Len(stdin) + (IF job = None THEN 0 ELSE 1) + replies <= MaxStale
  /\ holder' = None
  /\ stdin' \in {stdin, Unlinked}
  /\ UNCHANGED <<index, daemon, replies>>

-----------------------------------------------------------------------------
(* The daemon                                                              *)

\* The daemon answers -1 at once: RESTORE of an empty slot, or no prompt file.
Rejects(c) ==
  \/ c.restore # None /\ slots[c.restore] = <<>>
  \/ ~c.bin

\* Mutant: a rejected command is not answered.
AcceptSilentReject ==
  /\ job = None
  /\ stdin # <<>>
  /\ LET c == Head(stdin)
     IN  job' = IF Rejects(c) THEN None
                ELSE [prompt |-> c.prompt, snap |-> c.snap,
                      kv |-> IF c.restore = None THEN <<>> ELSE slots[c.restore]]
  /\ stdin' = Tail(stdin)
  /\ UNCHANGED <<index, holder, slots, replies>>

\* Read one command line: reset the cache, restore the slot if asked to.
Accept ==
  /\ job = None
  /\ stdin # <<>>
  /\ LET c == Head(stdin)
     IN  IF Rejects(c)
         THEN replies' = replies + 1 /\ UNCHANGED job
         ELSE /\ job' = [prompt |-> c.prompt, snap |-> c.snap,
                         kv |-> IF c.restore = None THEN <<>> ELSE slots[c.restore]]
              /\ UNCHANGED replies
  /\ stdin' = Tail(stdin)
  /\ UNCHANGED <<index, holder, slots>>

\* Mutant: the comparison with the restored depth is the wrong way round.
SnapUnreachable == job.snap # None /\ job.snap.cut <= Len(job.kv)

\* Prefill starts at cache.cur_pos, so a cut below it is never reached, and
\* there is no prefill if the restored state covers the prompt.
SnapReachable ==
  job.snap # None /\ job.snap.cut >= Len(job.kv) /\ Len(job.kv) < Len(job.prompt)

\* Mutant: prefill is not clipped at the snapshot position.
AtEnd == job.kv \o SubSeq(job.prompt, Len(job.kv) + 1, Len(job.prompt))

\* KV state after prefilling up to the snapshot position.
AtCut == job.kv \o SubSeq(job.prompt, Len(job.kv) + 1, job.snap.cut)

\* Prefill lands exactly on snap_pos and copies the cache into the slot.
InlineSnap ==
  /\ job # None
  /\ SnapReachable
  /\ slots' = [slots EXCEPT ![job.snap.slot] = AtCut]
  /\ job' = [job EXCEPT !.kv = AtCut, !.snap = None]
  /\ UNCHANGED <<index, holder, stdin, replies>>

\* The lazy allocation of an empty slot fails: the request goes on.
InlineSnapFails ==
  /\ "oom" \in Faults
  /\ job # None
  /\ SnapReachable
  /\ slots[job.snap.slot] = <<>>
  /\ job' = [job EXCEPT !.kv = AtCut, !.snap = None]
  /\ UNCHANGED <<index, holder, stdin, slots, replies>>

\* Prefill and decode are over: the reply and its -1 are in the pipe.
Finish ==
  /\ job # None
  /\ ~SnapReachable
  /\ job' = None
  /\ replies' = replies + 1
  /\ UNCHANGED <<index, holder, stdin, slots>>

-----------------------------------------------------------------------------
Init ==
  /\ lru = <<>>
  /\ slotOf = [k \in {} |-> 0]
  /\ nextSlot = 0
  /\ pendingEvict = None
  /\ holder = None
  /\ stdin = <<>>
  /\ job = None
  /\ slots = [s \in Slot |-> <<>>]
  /\ replies = 0

Daemon == Accept \/ InlineSnap \/ InlineSnapFails \/ Finish

Next ==
  \/ \E p \in Prompts : Submit(p)
  \/ Reply
  \/ Abandon
  \/ Daemon

Spec == Init /\ [][Next]_vars

\* The daemon loop and the reader of the pipe run until they block.
FairSpec == Spec /\ WF_vars(Daemon) /\ WF_vars(Reply)

-----------------------------------------------------------------------------
(* Properties                                                              *)

\* Every variable stays in its domain: slots handed to the daemon lie in the
\* prefix pool [0, cap), keys are sequences of turns.
TypeOK ==
  /\ lru \in Seq(Seq(Turn))
  /\ slotOf \in [ToSet(lru) -> Slot]
  /\ nextSlot \in Slot
  /\ pendingEvict \in Seq(Turn) \cup {None}
  /\ holder \in Request \cup {None}
  /\ stdin \in Seq(Command)
  /\ job \in Job \cup {None}
  /\ slots \in [Slot -> Seq(Turn)]
  /\ replies \in Nat

\* The LRU order lists each cached key once and never more than cap of them,
\* although eviction happens a whole generation after the slot was chosen
\* (prefix_cache.py prepare_inline_snap / confirm_inline_snap).
IndexBounded == IsInjective(lru) /\ Len(lru) <= Cap

\* No two cached prefixes name the same daemon slot ("the daemon slot count
\* stays consistent", prefix_cache.py:298-301).
SlotCountConsistent == IsInjective(slotOf)

\* The KV state a request runs on is that of a prefix of its own prompt
\* ("never returning a wrong-KV restore", prefix_cache.py:427).
RunsOnOwnPrefix == job # None => IsPrefix(job.kv, job.prompt)

\* A RESTORE about to be read names a slot that holds a snapshot, so no
\* request is turned into an empty answer by a stale index entry.
RestoreFindsSnapshot ==
  job = None /\ stdin # <<>> /\ Head(stdin).restore # None
    => slots[Head(stdin).restore] # <<>>

\* A key enters the index only after the daemon has stored its KV state in
\* the slot ("after the daemon has successfully fired [snap] inline").
ConfirmedWasTaken ==
  [][\A k \in Cached' \ Cached : slots[slotOf'[k]] = k]_vars

\* Only the least recently used key is ever evicted.
EvictsOldest == [][\A k \in Cached \ Cached' : k = Oldest(lru)]_vars

\* A request is restored from a slot at least as deep as every cached prefix
\* of its prompt (lookup: "the LONGEST cached prefix").
RestoresLongest ==
  [][\A p \in Prompts : Submit(p) =>
       \A d \in ToSet(Candidates(p)) : Prefix(p, d) \in Cached =>
         LET c == Last(stdin')
         IN  c.restore # None /\ Len(slots[c.restore]) >= d]_vars

\* The request inside the lock leaves it: every command line is answered by
\* a -1, whether it was run or rejected.
Answered == holder # None ~> holder = None

=============================================================================
