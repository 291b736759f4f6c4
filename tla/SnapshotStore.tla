--------------------------- MODULE SnapshotStore ---------------------------
(***************************************************************************)
(* The command loop of the decode daemon (test/test_dflash.cpp) over its   *)
(* target cache and its snapshot slots (src/qwen35_target_graph.cpp): thick *)
(* snapshots of the whole cache, thin ones of a range of KV slots, and the *)
(* prefill of a prompt from what was restored.                             *)
(*                                                                         *)
(* As in SpecDecode a context is the sequence of tokens a piece of state   *)
(* was computed from: the recurrent state (ssm) is its context, a KV slot  *)
(* the context that ends in its token.  Slots of the code count from 0,    *)
(* here kv[i] is slot i - 1.  A forward pass over inconsistent state       *)
(* leaves Broken.  The convolution state goes with the recurrent state.    *)
(***************************************************************************)
EXTENDS Integers, SequencesExt, FiniteSetsExt

CONSTANTS
  Token,        \* the vocabulary
  Target(_),    \* the target's greedy choice after a context
  Garbled,      \* what it chooses when its state is inconsistent
  Prompts,      \* prompt files; <<>> is one that cannot be read
  NGens,        \* generation lengths asked for
  Cuts,         \* positions at which clients ask for snapshots
  QLen,         \* q_len
  MaxCtx,       \* max_ctx
  Ubatch,       \* PREFILL_UBATCH
  Slot,         \* 0..PREFIX_CACHE_SLOTS - 1
  MaxThins,     \* bound on the thin snapshots of a chain
  Commands,     \* subset of {"SNAPSHOT", "SNAPSHOT_THIN", "RESTORE_CHAIN"}
  LayerModes,   \* values of DFLASH27B_LAYER_PREFILL # 0
  Faults,       \* subset of {"oom"}
  None          \* the token -1, no snapshot, no slot

ASSUME SizeAssumption ==
  /\ NGens \subseteq Nat /\ Cuts \subseteq Nat
  /\ {QLen, MaxCtx, MaxThins} \subseteq Nat /\ Ubatch \in Nat \ {0}
ASSUME LayerAssumption == LayerModes \subseteq BOOLEAN
ASSUME PromptAssumption == Prompts \subseteq Seq(Token)
ASSUME TokenAssumption == Garbled \notin Token /\ None \notin Token \cup {Garbled} \cup Slot

VARIABLES
  cache,        \* the target cache; kv as far as it may be read
  snaps,        \* prefix_snapshots
  job,          \* the locals of the request being run, or None
  phase,        \* where the daemon stands
  layer         \* layer_prefill, fixed by the environment

vars == <<cache, snaps, job, phase, layer>>

Broken == <<Garbled>>
Prefixed(s) == [i \in 1..Len(s) |-> SubSeq(s, 1, i)]
Snap == [pos : Cuts, slot : Slot]

-----------------------------------------------------------------------------
(* The target cache                                                        *)

\* reset_target_cache: zeroed, nothing decoded.  skewed is a history
\* variable: the cache went through a restore that moved the attention and
\* the recurrent state to different positions.
Fresh == [kv |-> <<>>, ssm |-> <<>>, curPos |-> 0, lastTok |-> None, skewed |-> FALSE]

\* KV slots below start and the recurrent state stand at the same context.
Aligned(c, start) ==
  c.ssm # Broken /\ Len(c.kv) >= start /\ SubSeq(c.kv, 1, start) = Prefixed(c.ssm)

\* A forward pass over toks from position start, and the choice after it.
Forward(c, start, toks) ==
  IF Aligned(c, start)
  THEN [c EXCEPT !.kv = Prefixed(c.ssm \o toks), !.ssm = @ \o toks]
  ELSE [c EXCEPT !.kv = SubSeq(@, 1, Min({start, Len(@)})) \o [i \in 1..Len(toks) |-> Broken],
                 !.ssm = Broken]
Choice(c, start, toks) == IF Aligned(c, start) THEN Target(c.ssm \o toks) ELSE Garbled

-----------------------------------------------------------------------------
(* Snapshots                                                               *)

Empty == [kind |-> "empty"]

\* snapshot_target_cache, into a slot that holds no thin snapshot: the slot's
\* buffers are allocated the first time only, and that may fail.
Thick(c) == [kind |-> "thick", cache |-> c]
AfterSnapshot(s, c) ==
  {[snaps EXCEPT ![s] = Thick(c)]}
    \cup (IF "oom" \in Faults /\ snaps[s] = Empty THEN {snaps} ELSE {})

\* KV slots from .. to - 1.
Thin(from, to) ==
  [kind |-> "thin", from |-> from, to |-> to, kv |-> SubSeq(cache.kv, from + 1, to)]

\* snapshot_target_cache_thin: unless the slot holds the same range already,
\* what it held is freed before the new buffers are allocated.
AfterSnapshotThin(s, from, to) ==
  LET reuse == snaps[s].kind = "thin" /\ snaps[s].from = from /\ snaps[s].to = to
  IN  {[snaps EXCEPT ![s] = Thin(from, to)]}
        \cup (IF "oom" \in Faults /\ ~reuse THEN {[snaps EXCEPT ![s] = Empty]} ELSE {})

\* restore_target_cache
Restored(s) == snaps[s].cache

\* Thin snapshots copied over kv in order, each into KV slots from .. to - 1: of
\* those that hold slot i the last one stays; what none of them holds is zero.
Holding(thins, i) == {n \in DOMAIN thins : i \in (snaps[thins[n]].from + 1)..snaps[thins[n]].to}
Laid(kv, thins, end) ==
  [i \in 1..end |->
     IF Holding(thins, i) # {}
     THEN LET t == snaps[thins[Max(Holding(thins, i))]] IN t.kv[i - t.from]
     ELSE IF i <= Len(kv) THEN kv[i] ELSE <<>>]

\* max_kv_end
ChainEnd(c, thins) == Max({c.curPos} \cup {snaps[s].to : s \in ToSet(thins)})

\* Mutant: the position is the end of the last thin snapshot.
ChainedLast(base, thins) ==
  LET c  == IF base = None THEN Fresh ELSE Restored(base)
      to == IF thins = <<>> THEN c.curPos ELSE snaps[Last(thins)].to
  IN  [c EXCEPT !.kv = Laid(@, thins, ChainEnd(c, thins)), !.curPos = to,
                !.skewed = @ \/ to > c.curPos]

\* restore_target_cache_chain on a cache that was just reset: the thick base
\* first, then the thin snapshots in order.  The recurrent state and last_tok
\* stay those of the base.
Chained(base, thins) ==
  LET c   == IF base = None THEN Fresh ELSE Restored(base)
      end == ChainEnd(c, thins)
  IN  [c EXCEPT !.kv = Laid(@, thins, end), !.curPos = end, !.skewed = @ \/ end > c.curPos]

SNAPSHOT(s) ==
  /\ phase = "idle"
  /\ snaps' \in AfterSnapshot(s, cache)
  /\ UNCHANGED <<cache, job, phase, layer>>

SNAPSHOT_THIN(s, from, to) ==
  /\ phase = "idle"
  /\ from < to
  /\ to <= cache.curPos
  /\ snaps' \in AfterSnapshotThin(s, from, to)
  /\ UNCHANGED <<cache, job, phase, layer>>

FREE_SNAPSHOT(s) ==
  /\ phase = "idle"
  /\ snaps' = [snaps EXCEPT ![s] = Empty]
  /\ UNCHANGED <<cache, job, phase, layer>>

-----------------------------------------------------------------------------
(* Requests                                                                *)

Job == [prompt : Prompts, nGen : NGens, asked : Snap \cup {None}, snap : Snap \cup {None},
        from : Nat, start : Nat, committed : Nat, made : Nat,
        tok : Token \cup {None, Garbled}]

\* The cache was reset and c restored into it; the prompt is read and
\* admitted, or refused with the cache as it is.
Start(c, p, n, snap) ==
  /\ cache' = c
  /\ IF p = <<>> \/ Len(p) + n + QLen > MaxCtx THEN UNCHANGED <<phase, job>>
     ELSE /\ phase' = "prefill"
          /\ job' = [prompt |-> p, nGen |-> n, asked |-> snap, snap |-> snap,
                     from |-> c.curPos, start |-> c.curPos, committed |-> 0, made |-> 0,
                     tok |-> None]
  /\ UNCHANGED <<snaps, layer>>

\* `<prompt> <n_gen> [snap=<pos>:<slot>]`
BARE(p, n, snap) ==
  /\ phase = "idle"
  /\ Start(Fresh, p, n, snap)

\* `RESTORE <slot> <prompt> <n_gen> [snap=<pos>:<slot>]`.  A slot without a
\* snapshot is refused; a thin one, without recurrent state, only after the
\* cache was reset.
RESTORE(s, p, n, snap) ==
  /\ phase = "idle"
  /\ snaps[s] # Empty
  /\ IF snaps[s].kind = "thick" THEN Start(Restored(s), p, n, snap)
     ELSE cache' = Fresh /\ UNCHANGED <<snaps, job, phase, layer>>

\* `RESTORE_CHAIN <thick> <thins> <prompt> <n_gen>`
RESTORE_CHAIN(base, thins, p, n) ==
  /\ phase = "idle"
  /\ base # None => snaps[base].kind = "thick"
  /\ \A s \in ToSet(thins) : snaps[s].kind = "thin"
  /\ Start(Chained(base, thins), p, n, None)

-----------------------------------------------------------------------------
(* Prefill and decode                                                      *)

\* Inline snapshot at the very start of prefill, before any token is run.
SnapAtStart ==
  /\ phase = "prefill" /\ ~layer
  /\ job.start < Len(job.prompt)
  /\ job.snap # None
  /\ job.snap.pos = job.start
  /\ cache' = [cache EXCEPT !.curPos = job.start]
  /\ snaps' \in AfterSnapshot(job.snap.slot, cache')
  /\ job' = [job EXCEPT !.snap = None]
  /\ UNCHANGED <<phase, layer>>

Whole == Min({Ubatch, Len(job.prompt) - job.start})

\* Mutant: a snapshot at the end of the ubatch is left to the next one.
ClipsOpen == job.snap # None /\ job.snap.pos \in (job.start + 1)..(job.start + Whole - 1)

\* The snapshot position falls inside the ubatch or on its end.
Clips == job.snap # None /\ job.snap.pos \in (job.start + 1)..(job.start + Whole)

ChunkLen == IF Clips THEN job.snap.pos - job.start ELSE Whole

\* Mutant: no adjustment after a clipped ubatch.
NextStartSkips == job.start + Ubatch

\* start after the loop's own increment.
NextStart == job.start + (IF Clips THEN ChunkLen ELSE Ubatch)

\* Mutant: last_tok stays that of the restored snapshot.
AtSnapStale(c, tok) == [c EXCEPT !.curPos = job.start + ChunkLen]

\* What an inline snapshot after a clipped ubatch stores.
AtSnap(c, tok) == [c EXCEPT !.curPos = job.start + ChunkLen, !.lastTok = tok]

\* One ubatch, cut short at the snapshot position if that lies inside.
PrefillChunk ==
  /\ phase = "prefill" /\ ~layer
  /\ job.start < Len(job.prompt)
  /\ job.snap # None => job.snap.pos # job.start
  /\ LET toks == SubSeq(job.prompt, job.start + 1, job.start + ChunkLen)
         tok  == Choice(cache, job.start, toks)
         c    == Forward(cache, job.start, toks)
     IN  /\ IF Clips
            THEN cache' = AtSnap(c, tok) /\ snaps' \in AfterSnapshot(job.snap.slot, cache')
            ELSE cache' = c /\ UNCHANGED snaps
         /\ job' = [job EXCEPT !.tok = tok, !.committed = job.start + ChunkLen,
                               !.snap = IF Clips THEN None ELSE @, !.start = NextStart]
  /\ UNCHANGED <<phase, layer>>

\* A restored cache that covers the prompt exactly seeds last_tok.
PrefillDone ==
  /\ phase = "prefill" /\ ~layer
  /\ job.start >= Len(job.prompt)
  /\ job' = IF job.tok = None /\ cache.lastTok # None /\ job.from = Len(job.prompt)
            THEN [job EXCEPT !.tok = cache.lastTok, !.committed = Len(job.prompt)] ELSE job
  /\ phase' = "decode"
  /\ UNCHANGED <<cache, snaps, layer>>

\* Layer-segmented prefill runs the whole prompt from position 0 and knows
\* neither of a restored cache nor of an inline snapshot.
LayerPrefill ==
  /\ phase = "prefill" /\ layer
  /\ cache' = [Forward(cache, 0, job.prompt) EXCEPT !.skewed = @ \/ job.from > 0]
  /\ job' = [job EXCEPT !.tok = Choice(cache, 0, job.prompt), !.committed = Len(job.prompt)]
  /\ phase' = "decode"
  /\ UNCHANGED <<snaps, layer>>

Lands == /\ job.committed = Len(job.prompt)
         /\ cache.kv = Prefixed(job.prompt)
         /\ cache.ssm = job.prompt
         /\ job.tok = Target(job.prompt)

\* One token of the continuation: the decode loop by what its chain strategies
\* leave of a round (SpecDecode), however many tokens it commits.
DecodeToken ==
  /\ phase \in {"decode", "decoding"}
  /\ job.made < job.nGen /\ job.tok # None
  /\ cache' = Forward(cache, job.committed, <<job.tok>>)
  /\ job' = [job EXCEPT !.tok = Choice(cache, job.committed, <<job.tok>>),
                        !.committed = @ + 1, !.made = @ + 1]
  /\ phase' = "decoding"
  /\ UNCHANGED <<snaps, layer>>

\* The end of the request, after n_gen tokens or an end-of-sequence token, which
\* may be any of them: cur_pos and last_tok are set for the next SNAPSHOT.
DecodeEnd ==
  /\ phase = "decoding" \/ (phase = "decode" /\ job.nGen = 0)
  /\ cache' = [cache EXCEPT !.curPos = Len(job.prompt) + job.made, !.lastTok = job.tok]
  /\ phase' = "idle"
  /\ job' = None
  /\ UNCHANGED <<snaps, layer>>

\* Without a token to start from the daemon exits.
DecodeFails ==
  /\ phase = "decode"
  /\ job.nGen > 0 /\ job.tok = None
  /\ phase' = "exited"
  /\ UNCHANGED <<cache, snaps, job, layer>>

-----------------------------------------------------------------------------
(* The clients                                                             *)

\* What clients know of a slot: they restore a prefix of their own prompt
\* (the index promises it: PrefixCache!RunsOnOwnPrefix).
HoldsPrefix(c, p) == IsPrefix(c.kv, Prefixed(p))

\* The slots of a chain hold pieces of the prompt that leave no gap.
HoldChain(base, thins, p) ==
  /\ base # None => snaps[base].kind = "thick" /\ HoldsPrefix(snaps[base].cache, p)
  /\ \A s \in ToSet(thins) : snaps[s].kind = "thin"
  /\ \A s \in ToSet(thins) :
       /\ snaps[s].to <= Len(p)
       /\ snaps[s].kv = SubSeq(Prefixed(p), snaps[s].from + 1, snaps[s].to)
       /\ \/ snaps[s].from = 0
          \/ base # None /\ snaps[s].from <= snaps[base].cache.curPos
          \/ \E t \in ToSet(thins) : t # s /\ snaps[s].from \in (snaps[t].from + 1)..snaps[t].to

\* A client asks for an inline snapshot into a slot that is empty or thick.
MayAsk(p, snap) ==
  snap # None => snap.pos <= Len(p) /\ snaps[snap.slot].kind # "thin"

Init ==
  /\ cache = Fresh
  /\ snaps = [s \in Slot |-> Empty]
  /\ job = None
  /\ phase = "idle"
  /\ layer \in LayerModes

Client ==
  \/ \E p \in Prompts, n \in NGens, snap \in Snap \cup {None} :
       /\ MayAsk(p, snap)
       /\ \/ BARE(p, n, snap)
          \/ \E s \in Slot :
               /\ snaps[s].kind = "thick" => HoldsPrefix(snaps[s].cache, p)
               /\ RESTORE(s, p, n, snap)
  \/ /\ "RESTORE_CHAIN" \in Commands
     /\ \E p \in Prompts, n \in NGens, base \in Slot \cup {None},
           thins \in SeqOf(Slot, MaxThins) :
          /\ HoldChain(base, thins, p)
          /\ RESTORE_CHAIN(base, thins, p, n)
  \/ \E s \in Slot :
       \/ "SNAPSHOT" \in Commands /\ snaps[s].kind # "thin" /\ SNAPSHOT(s)
       \/ /\ "SNAPSHOT_THIN" \in Commands
          /\ \E from, to \in Cuts \cup {0} : SNAPSHOT_THIN(s, from, to)
       \/ FREE_SNAPSHOT(s)

Daemon == SnapAtStart \/ PrefillChunk \/ PrefillDone \/ LayerPrefill
          \/ DecodeToken \/ DecodeEnd \/ DecodeFails

Next == Client \/ Daemon

Spec == Init /\ [][Next]_vars

-----------------------------------------------------------------------------
(* Properties                                                              *)

Contexts == Seq(Token \cup {Garbled})
Caches == [kv : Seq(Contexts), ssm : Contexts, curPos : Nat,
           lastTok : Token \cup {None, Garbled}, skewed : BOOLEAN]

\* Every variable stays in its domain.
TypeOK ==
  /\ cache \in Caches
  /\ snaps \in [Slot -> {Empty} \cup [kind : {"thick"}, cache : Caches]
                        \cup [kind : {"thin"}, from : Nat, to : Nat, kv : Seq(Contexts)]]
  /\ job \in Job \cup {None}
  /\ phase \in {"idle", "prefill", "decode", "decoding", "exited"}
  /\ layer \in BOOLEAN

\* However a prompt is cut into ubatches, and from whatever snapshot it was
\* resumed, decoding starts from the state of exactly that prompt and its
\* first token is the target's choice ("so the decode loop has a valid
\* starting token").
PrefillLands == phase = "decode" /\ ~cache.skewed => Lands

\* The same of every restore, chains and layer-segmented prefill included; the
\* code does not keep to it (README, further observations).
RestoreLands == phase = "decode" => Lands

\* Whenever it was taken, a thick snapshot is one consistent state: restoring
\* it resumes at cur_pos with the right next token.
SnapshotsResumable ==
  \A s \in Slot : snaps[s].kind = "thick" /\ ~snaps[s].cache.skewed =>
    LET c == snaps[s].cache
    IN  /\ c.curPos = Len(c.ssm)
        /\ c.kv = Prefixed(c.ssm)
        /\ c.lastTok = IF c.ssm = <<>> THEN None ELSE Target(c.ssm)

\* A snapshot asked for inside the part of the prompt that is prefilled holds
\* the state at exactly that position when decoding starts ("land exactly at
\* snap_pos so the snapshot captures the right boundary").
InlineSnapTaken ==
  /\ phase = "decode" /\ ~layer /\ ~cache.skewed
  /\ job.asked # None /\ job.asked.pos >= job.from /\ job.from < Len(job.prompt)
  => IF snaps[job.asked.slot] = Empty THEN "oom" \in Faults
     ELSE snaps[job.asked.slot].cache.ssm = SubSeq(job.prompt, 1, job.asked.pos)

\* Whatever the order of its thin snapshots, a chain that leaves no gap puts
\* the attention state of the prompt back in place, up to the position from
\* which prefill goes on ("Out-of-order thins are allowed").
ChainRestoresAttention ==
  phase = "prefill" /\ job.start = job.from =>
    cache.kv = SubSeq(Prefixed(job.prompt), 1, job.from)
=============================================================================
