# dflash-robot: TLA+ verification project

dflash-robot serves Qwen3.5/3.6 models with DFlash block-diffusion speculative
decoding. Two Python HTTP servers (`scripts/server.py`,
`scripts/server_tools.py`) drive one C++ decode daemon (`test/test_dflash.cpp
--daemon`) over a line protocol: commands on its stdin, log and acknowledgement
lines on its stdout, and generated tokens as 32-bit integers, ended by -1, in a
separate pipe. The daemon owns one target cache and eight snapshot slots; the
server owns the indices that say what each slot holds. Offline, `training/`
makes the draft model that the daemon loads.

The properties in this directory are about what must agree across those lines:
which slot holds what, which state a request runs on, what a speculative round
leaves behind, whose tokens a response is made of, which weights are in VRAM when
a generation starts, and whether every request comes to an end.

All modules are plain TLA+. `PROJECT.json` lists every component, every run, the
source lines each definition stands for, the mutants, and the hazards the
properties are aimed at. Paths below are relative to `src/`.

## Inventory

| Component | State it keeps | Operations | Interacts with |
| --- | --- | --- | --- |
| Inline prefix cache (`scripts/prefix_cache.py` 230–437, 604–687) | `entries` (LRU: prefix hash → slot), `next_slot`, `_pending_evict_key` | `lookup`, `prepare_inline_snap`, `confirm_inline_snap`, `abort_inline_snap`, `startup_sync`, `maybe_snapshot` | servers (under `daemon_lock`), stdout bus, daemon slots 0..cap-1 |
| Boundary scan (`prefix_cache.py` 148–226) | none | `find_prefix_boundary`, `find_all_boundaries` | prefix cache |
| Full-compress cache (`prefix_cache.py` 440–601) | `full_entries`, `_full_next_slot`, pending key and path, one file per entry | `lookup_full`, `prepare_full_snap`, `confirm_full_snap` | servers, daemon slots from `_full_slot_base`, cache directory |
| Stdout bus (`prefix_cache.py` 68–128) | waiters | `_run`, `await_reply` | daemon stdout, `startup_sync`, `maybe_snapshot` |
| Server (`scripts/server.py`) | `daemon_lock`, the token pipe | OpenAI and Anthropic chat, streaming or not | everything above and below |
| Tool server (`scripts/server_tools.py`) | the same, with the lock taken twice per request | the same two endpoints; stop sequences, reasoning and tool calls on the OpenAI one | everything above and below |
| Compression hook (`scripts/_prefill_hook.py`) | temporary files | park, compress, free drafter, unpark, from a thread of its own | servers, daemon |
| Daemon loop (`test/test_dflash.cpp` 1590–1976) | snapshots, what is parked, drafter | `SNAPSHOT`, `SNAPSHOT_THIN`, `FREE_SNAPSHOT`, `LIST_SLOTS`, `RESTORE`, `RESTORE_CHAIN`, bare prompt, `park`, `unpark`, `compress`, `free drafter` | servers, target cache |
| Prefill (`test_dflash.cpp` 1994–2280) | `committed`, `last_tok`, the pending inline snapshot | token-segmented, layer-segmented | target cache, snapshots |
| Decode (`test_dflash.cpp` 2302–3338) | `out_all`, `committed`, `last_tok`, draft, tree, captured states | draft, tree building, verify, accept, rollback, compaction, replay | target cache |
| Target cache (`src/qwen35_target_graph.cpp` 40–636) | KV slots, recurrent and convolution state, `cur_pos`, `last_tok` | create, reset, migrate, snapshot, restore, chain restore | daemon |
| Draft training (`training/*.py`, `src/safetensors_draft.cpp`) | traces, checkpoints, exported models on disk | generate, train, resume, export, produce, calibrate, validate, load | file system |
| Compressor daemon (`test/pflash_daemon.cpp`, `scripts/phase_split_dual_gpu.py`) | loaded drafter | compress, quit | its one driver |
| Numeric code, loaders, registries, benchmarks, converters | weights | start-up or offline | – |

What is hard here, and what makes each part correct:

* **Deferred confirmation.** A slot is chosen, and the entry to evict is marked,
  when a request is sent; the eviction happens when its response has ended,
  without an acknowledgement. In between clients vanish, lookups reorder the LRU,
  allocations fail. Correct means: the index stays within cap, evicts its oldest
  entry, never names one slot twice, and a slot holds what its key says.
* **Two owners of one fact.** Index and slots are in different processes, and a
  wrong slot is not an error, only a wrong answer. Correct means: a request runs
  on the state of a prefix of its own prompt, the longest one known.
* **One unlabelled pipe.** Tokens and sentinels of all requests go through the same
  pipe, and the only thing that says whose they are is who holds the lock. A
  handler has up to ten stages and takes the lock twice, a compression runs on a
  thread that cancellation does not stop, and a cancelled read is still a read.
  Correct means: a response is its own continuation, trimmed and whole.
* **State in three parts.** Attention slots may be overwritten freely past
  `committed`; the recurrent and convolution states may not, so every partial
  acceptance needs a rollback. Correct means: the three agree after every round,
  and the emitted tokens are the target's own greedy choices, whatever the draft
  proposed.
* **Text that cannot be taken back.** A tag or a stop sequence may be cut over
  tokens, and what was streamed is gone. Correct means: nothing shown is revised
  and nothing held back is lost.
* **Arithmetic at boundaries.** Ubatch clipping, budget clipping, blocks at the end
  of the KV cache, paths shorter than the convolution window, a data set divided
  among workers.
* **Files that outlive their writer.** A training run is killed in the middle of a
  file and the next one finds what is left.
* **Liveness.** Each command line must be answered by a -1 on every path through
  the daemon, each wait for an acknowledgement must have a timer, or the lock is
  never released.

## Modules

| Module | Models | State |
| --- | --- | --- |
| `OrderedDict` | the operations of Python's `OrderedDict` that the indices use, on sequences of keys | – |
| `PrefixCache` | inline cache + server request + daemon, composed | index, lock holder, stdin, job, slots, replies |
| `Boundaries` | the two scans for cut points, over tokens | – |
| `FullCache` | full-compress cache + both servers' locking + daemon | index, files, slots, requests, lock holder |
| `StdoutBus` | bus, `startup_sync`, `maybe_snapshot`, daemon, composed | waiters, timers, index, stdin, stdout, slots |
| `TokenPipe` | the eight handlers + compression thread + daemon with its weights, composed | stages, lock, files, threads, both pipes, parked weights |
| `Completions` | what a completion promises (abstract) | tokens made and received |
| `StreamParse` | the streaming parser of the tool server and the batch parsers | text, window, mode, deltas |
| `SpecDecode` | one request's decode loop, four strategies | tokens emitted, the three parts of the cache, draft, tree, captured states |
| `SnapshotStore` | command loop, snapshots, restore, prefill and decode across requests | cache, slots, job, phase |
| `DraftWeights` | tensors and their names from PyTorch to the loader | – |
| `DraftTraining` | the training programs over the files they share | traces, checkpoints, exports, the program that runs |
| `MC*` | constants, initial states and symmetry for TLC | – |
| `*Proofs` | theorems and their lemmas | – |

### PrefixCache and Boundaries

A prompt is its sequence of rendered chat turns, and a position counts turns,
because cut points are turn ends. `ids[:cut]`, its hash and the KV state
computed from it are all `SubSeq(p, 1, cut)`.

* `Submit` is the stretch from `lookup` to `stdin.write` under `daemon_lock`:
  `lookup`, `prepare_inline_snap` and the write run without an `await`, so they
  are one action. Its LRU effect (`Touched`) is the permutation that
  `move_to_end` on every hit leaves, and one more on the target key.
* `Reply` is the read of -1, `confirm_inline_snap`, the unlink of the prompt
  file, the release of the lock. `Abandon` is a streaming client that goes away:
  only `finally` runs. If the generator has not reached its `try`, not even
  that; so the file may or may not be unlinked.
* `Accept`, `InlineSnap`, `InlineSnapFails`, `Finish` are the daemon. `Accept`
  rejects a restore of an empty slot and a missing file with an immediate -1.

After `Abandon` the daemon goes on with the old command, so an old -1 may end a
newer request. The model keeps the number of such replies (`replies`), which is
all the pipe tells its reader here; `TokenPipe` has the pipe itself.

That cut points are turn ends is not taken on trust: `Boundaries` has the two
scans over chat markers, and two ASSUMEs of `MCPrefixCache`, which TLC evaluates,
say that on the rendered prompts of the runs, with empty and non-empty turns,
`find_all_boundaries` finds exactly the cuts `Candidates` works with, and that on
all token sequences of length up to six the two scans agree and the cuts ascend.

### FullCache

A prompt stands for its raw ids, its key, its compressed file and that file's KV
state. `Lookup` covers lookup, compression and reservation; `Send` the command;
`Run` the daemon; `Complete` the confirm. With `LockGap = FALSE` the lock is kept
from `Lookup` to `Complete` (`server.py`), with `LockGap = TRUE` it is released
between `Lookup` and `Send` (`server_tools.py`). A streaming handler unlinks the
compressed file in its `finally`, before `confirm_full_snap` copies it, so its
copy always fails.

### StdoutBus

The daemon's stdout is read by one asyncio task that hands a line to the first
waiter whose prefix it has (`RouteLine`), and fails all waiters at end of file
(`RouteEof`). Two coroutines wait on it: `startup_sync` (`StartSync`, `SyncReply`,
`SyncFails`), which lists the slots an earlier server left behind and frees them
one by one, and `maybe_snapshot`, which prefills a prefix out of band and
snapshots it (`Prefill`, `Snapshot`, `Confirm`), or takes back its reservation
when no acknowledgement comes, it is cancelled, or the daemon is dead (`Recover`,
`Cancel`, `Abort`, `CancelRecovery`). A timer (`Expired`) goes off when nothing is
coming any more, or, with the fault "slow", at any time, so that an
acknowledgement arrives late and finds another waiter of the same prefix.
`Execute` is the daemon's loop; a failed snapshot is not acknowledged. The lock
is held throughout, as its callers do.

### TokenPipe and Completions

A handler is the sequence of its stages (`ChatStream` to `ToolsMessagesCollect`),
in the order of its source: "lock", "squeeze" (the compression), "check" (the
admission test), "send", "head" (the first event of a stream), "read", "unlink",
"unlock", "answer". server_tools.py differs in that it takes the lock twice
("lock2"), scans its stream for stop sequences ("scan"), and reads the tokens of a
collected chat on the event loop itself ("collect"), which blocks every other
handler (`Runs`). Each stage is an action (`Lock`, `Check`, `Send`, `Read`, ...);
an exception or a refusal releases the lock through `async with`.

The compression (`compress_text_via_daemon`) is a list of six command lines, each
written and then awaited to its sentinel by a thread (`WorkerWrite`,
`WorkerRead`). A client that leaves (`Leave`) cancels its generator at an `await`
or a `yield`, but neither that thread nor a read that is under way: the latter
becomes a stray read (`strays`). `StopMatch` leaves a stream with tokens still
in the pipe. The daemon takes a line at a time and answers it with tokens and a
sentinel; `Compress` and `Unpark` may fail, and the daemon may die.

An item of the pipe carries the request it belongs to (`from`), which no reader
looks at. That is what the refinement uses: `Completions` promises that a
response is its own continuation, cut before the first stop token and after
`gen_len` tokens, and whole; `Promised` is its specification under the mapping
`out <- got`, `answered <- (status = "done")`.

A full-cache hit is any choice here (`Lock`), since `FullCache` says when there is
one. The properties say what hits change: which files there are to unlink.

### StreamParse

Text is a sequence of symbols, a tag several of them, so a tag may be cut
anywhere. `Token(n)` is one turn of `_stream_response`'s loop on a token of n
symbols, up to the search for stop sequences; each turn of the inner loop, which
looks for the tag of the mode and shows all but the holdback if there is none, is a
step of its own (`Scan`, in phase "scanning"). `End` flushes the window or parses the
buffered tool calls. `Batch` is the collected response: trim, `parse_tool_calls`,
`parse_reasoning`. The reference for both is `Reference`, the same parser without a
window or a holdback, looking at the whole text from each place on. `IsPiece` is what
the tokenizer guarantees: a tag has a token of its own, and a token does not run past
the end of one that is spelled out.

`Regular` names the texts of which the two endpoints are held to say the same: those
with no tag where it means something else to the other parser (see the
observations), whether or not the response starts in thinking, the reasoning is ever
closed, or a stop sequence comes.

### SpecDecode

A *context* is the token sequence a piece of state was computed from. The
recurrent state is its context, a KV slot the context ending in its token, the
convolution state the last three tokens. A forward pass predicts `Target` of a
context if the three parts agree and each slot of the block attends to exactly
its own ancestors; otherwise it predicts `Garbled`, which is no token. So an
off-by-one in a rollback, a mask or a compaction shows up as a wrong token.
`Target` is an arbitrary function of contexts; the draft is any choice of tokens
and log-probabilities.

Phases follow the loop: `loop` → `Draft` → (`Seed`, `Grow`*, `Guard`) → `VerifyChain`
or `VerifyTree` → `CommitFast` / `CommitLegacy`, or `Walk`* → `CommitTree` →
`Compact`* → `Compacted` → `loop`; `Finish` ends the request. Where the code reads
a vector past its end (the guards, below) `CommitPaths` offers every slot it could
find there, and the phase becomes `undefined`.

### SnapshotStore

The same contexts, one level up: the target cache across requests, the slots, and
the prefill from whatever was restored. `BARE`, `RESTORE`, `RESTORE_CHAIN` are the
three ways to start a request; `SnapAtStart` and `PrefillChunk` the prefill loop
with its inline snapshot; `LayerPrefill` the other prefill. The decode loop is here
one token at a time (`DecodeToken`), ending after n_gen tokens or at any token
before (`DecodeEnd`): what `SpecDecode` shows the chain strategies leave of a
round (`StateMatchesStream`, `ChainEndConsistent`). `skewed` is a history
variable: it marks a cache that went through a chain restore or a layer-segmented
prefill that moved its parts to different positions. The copy loop of a chain is
stated by its outcome (`Laid`): a KV slot is as the last thin snapshot that holds it
left it, then as the base did. Clients restore prefixes of
their own prompt, which is what `PrefixCache!RunsOnOwnPrefix` promises of the
index, and keep thick and thin slots apart, as the servers do.

### DraftTraining and DraftWeights

The programs of `training/` share three directories: traces, checkpoints, models.
An invocation (`Invoke`) is a run of pipeline.py with any of its --skip options, of
the trace generator with or without --resume, or of train.py with --resume or
--max-steps; produce.py and calibrate.py are `Calibrate`. Each step of a program
computes, then writes its files one after the other (`Write`). `Kill` may come
between any two steps, also when a file of a step is whole and the next one not yet
touched, or in the middle of a file, which it leaves `Torn`. A save of a trace that
raises leaves a torn one as well, and the loop goes on. `Batch` is one
block of an epoch with the saves it triggers, `EndEpoch` the checkpoint of an
epoch. Averages are arbitrary, and may be infinite or no number (`Inf`): such a step
is saved when its number comes, but is never the best. `Blocks` is the data set of an epoch: the paths
matched by the globs (`Matches`), in the order the seeded shuffle gives (`Shuffle`, a
parameter: any order of any set of paths), divided among the workers (`Slice`, as the
indices of a share), with the anchors of each trace. A block is named by its worker,
path and number, so that one that two workers read is two blocks; `Batch` takes them
in any order.

`DraftWeights` follows names and orientation of tensors through export.py,
produce.py and calibrate.py to the loader in C++.

### How they fit together

Each module assumes of the others what they check. PrefixCache takes from
SnapshotStore that an inline snapshot lands at its position (`InlineSnapTaken`)
and that a restored prefix is resumed correctly (`PrefillLands`). SnapshotStore
takes from PrefixCache that clients restore prefixes of their own prompts, and
from SpecDecode what decoding leaves. SpecDecode starts from the state
`PrefillLands` describes. TokenPipe needs of the daemon that each command is
answered by one sentinel, which `PrefixCache!Answered` checks against the daemon's
rejection paths, and says of the lock what PrefixCache and FullCache assume: that
the response they confirm is that of the request that reserved. StreamParse takes
the tokens TokenPipe delivers.

## Runs

Runs that pass:

| Run | Question | Bounds, distinct states | Properties |
| --- | --- | --- | --- |
| `index_faults` | Does the index survive vanishing clients and failed allocations? | cap 2, 6 prompts, one stale command; 178,824 | `IndexBounded` `EvictsOldest` `Answered` |
| `cache_clean` | If every request ends and turns alternate, is every slot what the index says? | cap 3; 2,133 | `SlotCountConsistent` `RunsOnOwnPrefix` `RestoreFindsSnapshot` `ConfirmedWasTaken` `RestoresLongest` |
| `full_clean` | The same for the full cache under `server.py` | cap 4, 5 prompts, 2 clients; 235 up to symmetry | `SlotsNotShared` `HitRunsOnOwnPrompt` `CompletedIsCached` |
| `full_faults` | Does the full index survive rejection, abandonment, failed copies and deleted files? | cap 2, 3 prompts; 10,898 up to symmetry | `IndexBounded` `NoLeakedFiles` `EvictsOldest` |
| `stdout_bus` | Do index and daemon agree, and does every caller come back, whatever is lost, late or cancelled? | 3 calls, 3 prompts, 2 daemon slots, cap 0, 1, 2; 627,000 | `IndexMatchesSlots` `EveryCallEnds` |
| `token_clean` | Is every response its own, and are the weights back, for requests of every kind in every interleaving? | 2 clients, 7 handlers, 2 tokens; 852,199 up to symmetry | `ReadyForGenerate` `Promised` |
| `token_faults` | Is there a sentinel for every reader, does every request end, and which files stay, when clients leave, messages are empty, stop sequences match, weights fail to load and the daemon dies? | 2 clients, 2 handlers, 1 token; 568,578 | `SentinelsSuffice` `OneReader` `FilesLeft` `EveryRequestEnds` |
| `stream_parse` | However text is cut into tokens, is what is streamed right, whole, and what the batch parsers find? | texts of up to 4 of 8 parts and a tool-call tail, tokens of up to 3 symbols; 1,476,564 | `ShownIsFinal` `WholeAtEnd` `BatchAgrees` |
| `decode_all` | Do all four strategies emit the target's greedy continuation against every draft, and end? | block 3, budget 4, 4 tokens to generate, 2 prompts; 214,482 | `StreamIsGreedy` `StateMatchesStream` `ChainEndConsistent` `OverrunBounded` `SeededCoversChain` `Ends` |
| `snapshot_all` | Is decoding always started from the prompt's own state, whatever was restored and however prefill was cut? | 2 slots, 4 prompts, ubatch 2; 142,206 | `PrefillLands` `SnapshotsResumable` `InlineSnapTaken` `ChainRestoresAttention` |
| `training` | Do data sets, checkpoints and exports mean what their names say after kills and resumes? | 2 prompts, 3 workers, 2 epochs, 2 invocations; 640,580 | `EpochCoversTraces` `EpochsTrained` `BestIsLowest` `FreshExport` `TensorsAccounted` |

One run that TLC must find violated, with a finding:

| Run | Property | What it shows |
| --- | --- | --- |
| `token_cancel` | `ReadyForGenerate` | A client of `server.py` leaves while its prompt is compressed. The lock is released, the thread goes on, and the next request's generate runs with weights parked, although the hook's docstring says its caller keeps the lock throughout. |

Each property of a passing run has a mutant in `PROJECT.json`: a changed form of
one definition, kept next to it in the module under a comment "Mutant:", with
which TLC finds the property violated.

Why the bounds are enough:

* *PrefixCache.* The targets of the six prompts outnumber the slots in both runs,
  so reservation at cap, eviction, reuse of a live slot and the wrap of
  `next_slot` all happen. One dialogue extends another, so a hit can be at, below
  or above the target. One prompt has no cut point. One stale command is enough
  for an abandoned request to run, reserve and answer during a later one.
* *FullCache.* One more prompt than slots, so every slot is reused. With
  `server.py`'s locking a second client adds nothing but its wait, and the run has
  it. `full_faults` has one client: what two clients break under `LockGap` is
  reported below.
* *StdoutBus.* Three calls against two slots: the third evicts, or finds its prompt
  cached. The daemon may start with any slots occupied. The bound on faults is
  that they come in three sets (`MCHazards`): failures, cancellation and death;
  slow acknowledgements and death; cancellation of the recovery.
* *TokenPipe.* Two requests are enough for one to get in the way of another, and
  for each to be first or second. `token_clean` has every handler but "messages"
  (the stages of which are those of "chat"), every combination of two, and at most
  one unusual thing about each request (an empty message, a short prompt, a prompt
  that is too long, tools): these do not interact in the code. Up to two tokens
  against limits of 0 and 1 lets a response be cut by its budget and by a stop
  token, and lets the daemon go on after either. `token_faults` takes the two
  handlers that differ most in what they can be left at, with faults of every kind
  at once.
* *StreamParse.* Tags share their first symbols, so each may be mistaken for the
  other until its last; the stop sequence is longer than the tags and overlaps
  itself; four parts give a closed reasoning block, content and a tool call, tails
  of up to two calls add complete, unnamed, unfinished ones and a stop sequence in
  one. After a call `</think>` may be spelled out, wholly or in part. Tags and stop
  sequences are `Apart`, which the theorems assume (an ASSUME of `MCStreamParse`).
* *SpecDecode.* A block of three gives zero to two accepted draft tokens; four
  tokens to generate give rounds clipped by the budget and several rounds in
  sequence; two of the three choices of each position are in the draft, so
  siblings, spines and non-adjacent paths (which compaction must move) occur; one
  prompt leads to an end-of-sequence token, the other does not. The budget is
  above the block, as in the shipped defaults, so trees exceed what admission
  reckoned with. The target's
  choice depends on every token of the context and on their order, so that two
  different contexts are seldom confused.
* *SnapshotStore.* Prompts of 2, 3 and 5 tokens against an ubatch of 2, snapshot
  positions 2 and 3: clips on, inside and past an ubatch, resumption on and off
  its grid, restored positions equal to the prompt's length, a refused prompt
  (too long with two tokens to generate), an unreadable one. Two slots allow a
  chain of two thin parts (`MaxThins` is 2), or a base and a thin part, in either
  order.
* *DraftTraining.* Two traces, listed twice each, do not divide among three workers,
  so the last one takes the remainder, and they are shuffled so that the paths of
  one trace go to different workers; lengths below and above the block size. A save
  interval of two makes some steps save for several blocks and others for none;
  two invocations are one that is killed and one that finds what it left.

## Further observations

What TLC finds beyond the runs, within seconds, from the configuration named with
the constants changed as given. Where a property is named that the cfg does not
have, it is put under its INVARIANTS (or PROPERTIES).

| From | Change | What is violated |
| --- | --- | --- |
| `PrefixCache_faults.cfg` | `Faults = {"abandon"}`, `RunsOnOwnPrefix` | A client leaves after the daemon overwrote the reserved slot; nothing tells the index (`server.py` 465), and the next hit on the old key runs on another prompt's state. `abort_inline_snap` (`prefix_cache.py` 425) is not called there. |
| `PrefixCache_faults.cfg` | `Faults = {"abandon"}`, `SlotCountConsistent` | Reservations that are never confirmed advance `next_slot` onto a live slot. |
| `PrefixCache_clean.cfg` | `Prompts <- DoubleUser` | `ConfirmedWasTaken`: two user messages in a row make a hit deeper than the target, so the snapshot never fires, and is confirmed. |
| `FullCache_clean.cfg` | `LockGap = TRUE`, `Cap = 2` | `HitRunsOnOwnPrompt`: `server_tools.py` uses a slot it looked up before it released the lock (585). Also `IndexBounded` and `EvictsOldest`: two requests share one pending key. |
| `FullCache_clean.cfg` | `LockGap = TRUE`, `Cap = 2`, `Client = {c1}` | `SlotsNotShared`: a rejected request keeps its reservation. |
| `FullCache_clean.cfg` | `Streaming = {TRUE, FALSE}`, `Cap = 2` | `HitRunsOnOwnPrompt`, `CompletedIsCached`: a streaming response at cap overwrites a slot and keeps its entry, because its copy fails (`prefix_cache.py` 582–585); no streaming response is ever cached. |
| `FullCache_clean.cfg` | `Faults = {"delete"}`, `Cap = 2` | `HitRunsOnOwnPrompt`: after a file is deleted `_full_next_slot` points at a live slot. |
| `StreamParse_all.cfg` | `MCStops == {<<"a", "b", "b">>, <<"b">>}`, without the ASSUME | `ShownIsFinal`: a stop sequence that is inside another ends the response where it is seen first (`server_tools.py` 740), after the "a" if the second "b" has not come, else before it. |
| `SpecDecode_all.cfg` | `Strategies = {"tree"}`, `GuardsKeepStream` | The commit count is taken (2757) before a guard shortens the path, and slots past its end are emitted. |
| `SpecDecode_all.cfg` | `Strategies = {"seeded"}`, `BlockFits` | Admission (1967) counts `q_len`, not the tree budget, which is above it in both shipped defaults (22, 64): the last tree of an admitted request ends past the KV cache. The servers keep 20 slots free (`server.py` 384), so that with budget 22 a tree of 23 slots from `max_ctx - 21` ends at `max_ctx + 2`; `scripts/run.py` (147) allows for "ddtree budget up to 22 with margin". `OverrunBounded`, checked and proved, says how far past. |
| `SpecDecode_all.cfg` | `Strategies = {"seeded"}`, `FallbackOnlyIfWorse` | The guard multiplies negative means by its ratio (2598), so trees as good as the chain are rejected. |
| `SpecDecode_all.cfg` | `Strategies = {"seeded"}`, `Budget = 2`, `EndConsistent` | A tree round that ends the request leaves a cache that must not be snapshotted. |
| `SnapshotStore_all.cfg` | `LayerModes = {TRUE}`, `RestoreLands` | Layer-segmented prefill (1994) ignores what was restored. |
| `SnapshotStore_all.cfg` | `LayerModes = {FALSE}`, `RestoreLands` | A chain leaves the recurrent state at its base. |

`SnapshotStore_all.cfg` with `LayerModes = {FALSE}` and `Commands = {"SNAPSHOT"}`
satisfies `RestoreLands`: what the servers use today is right.

What reading the code for the models showed, with the guard or exemption in the
model that stands for it:

* *Servers.* After a stop sequence the rest of the generation stays in the pipe for
  the next request (`StopMatch`; `_drain_pipe_to_sentinel` at `server_tools.py` 508
  has no caller), which is why `Promised` is stated without stops. The Anthropic
  endpoint ignores `stop_sequences`. A streamed tool-server request that hits the
  full cache leaves its prompt file behind (849). An empty message makes the hook
  raise (`_prefill_hook.py` 133), and such a request leaves its prompt file too, as
  does one whose command cannot be written or whose client goes before its token
  loop; `FilesLeft` says which file. `--kv-f16` does not set the variable its help
  names.
* *Parsers.* Stop sequences do not apply inside a buffered tool call; the batch
  parser takes tool calls out of the reasoning, too, and drops a complete call
  without a function that the stream shows as text. `Regular` excludes these, and
  calls that are all unfinished or unnamed. Where tags and stop sequences overlap, or
  a stop sequence is inside another one ("b" in "abc"), the outcome depends on how the
  text is cut: with "b" in the window the stream stops there, with "abc" in it before
  the "a". `Apart` excludes these.
* *Stdout bus.* A call cancelled in its `finally` leaves the entry of the slot it
  overwrote (`prefix_cache.py` 651: CancelledError is no Exception). A failed call
  below cap does not return its slot to `next_slot`, which then reaches a live one.
  With a slow daemon and a caller that does not consume the tokens, an early
  acknowledgement confirms a snapshot of the wrong prompt. `IndexMatchesSlots` and
  `MCInit` name these exemptions.
* *Training.* The globs list each trace twice. A torn trace is never generated again
  and its prompt is lost. best_loss starts anew on resume. epoch_k.pt and final.pt
  are not compared with best_loss (`train.py` 179–183) and may be better than best.pt. A
  step whose average is NaN is saved, but never as best.pt (170), and all later averages
  of its epoch are NaN too. Gradients that a trailing incomplete accumulation has left
  are dropped at the start of the next epoch (137, 150). A best.pt of an earlier
  run is exported in place of a newer model if this run was too short to save one
  (`FreshExport`). generate_trace raises on a shape mismatch (120–125); an export
  follows even if all traces failed. The warm-up never reaches the learning rate
  asked for; token ids are cast to 16 bits by value; the verdict of validation is
  ignored; produce.py leaves a file with names and an orientation the loader
  rejects, calibrate.py one with a name it rejects; both leave fc as initialised if
  upstream stores its outputs first (`produce.py` 49–54), and a final norm that upstream
  calls norm (97). `export.py --dtype` offers float16 and float32, which the loader
  refuses (`safetensors_draft.cpp` 260). The docstring of pipeline.py
  says 6 epochs, its default is 3.

## Fairness and deadlock

* `PrefixCache`: weak fairness of the daemon and of the reader of the token pipe.
  Both are loops that block only for input: the daemon in `getline`, the server in
  `read`. Clients are not fair.
* `TokenPipe`: weak fairness of each handler, of each compression thread, of the
  stray reads and of the daemon: asyncio, the thread pool and the daemon process
  schedule whatever can run. The lock is not assumed fair beyond that, and need not
  be: each client sends one request. Nobody has to leave, to match a stop sequence
  or to die.
* `StdoutBus`: weak fairness of the bus task, of `startup_sync`, of each call and
  its timers, and of the daemon. Cancellation and death are not fair.
* `SpecDecode`: weak fairness of `Next`. The decode loop is one thread and waits
  for nobody.
* `FullCache`, `SnapshotStore`, `StreamParse` and `DraftTraining` state no liveness.

Deadlock is checked in the runs of PrefixCache and FullCache, where the server
always accepts one more request, and in those of TokenPipe, StdoutBus and
DraftTraining, where the one state that may last is named (`Idle`, `Quiet`,
`Done`). It is off in SpecDecode and StreamParse, which end with their request,
and in SnapshotStore, where the daemon may exit (decoding from token -1 ends it).

## Proofs

Theorems hold for every value of the constants that satisfies the ASSUMEs of the
module, and the hypotheses named here. TLC evaluates the ASSUMEs in every run.

The three modules about an LRU index begin with what insertion and removal make of
its order.

### PrefixCacheProofs

For every set of prompts and every cap in 1..8. With any fault: types, `IndexBounded`, `EvictsOldest`. `IndexBounded` is not inductive: that
a confirm at cap evicts, it must be known that the pending key is the oldest key
whenever a reservation is open. `IndexInv` adds this (`Reserved`), that a reserved
cut is the target's cut, that the target is not cached already, and that snapshot
positions lie within their prompt (`SnapsInPrompt`). It survives abandonment
because a reservation lives and dies with `holder`: a stale `_pending_evict_key`
is always overwritten by the next reservation before a confirm reads it.

That slots are never shared, that a request runs on a prefix of its own prompt,
that no restore finds an empty slot, that a confirmed snapshot was taken and that
the longest cached prefix is restored follows from
`Faults = {}` and `TurnsAlternate(Prompts)`. The second hypothesis says that a
cached prefix of a prompt is never deeper than that prompt's own target; it holds
of dialogues in which user and assistant alternate, and the observations above
show it is needed. `CleanInv` relates the two processes:

* `Lockstep`: the one request in the lock is queued, running or answered;
  when it runs, the cache stands before its snapshot position;
* `SlotsInOrder`: below cap the slots in use are exactly those before `next_slot`;
  at cap the reserved slot is that of the pending key;
* `SlotsHoldKeys`: every slot holds its key, except for the one being overwritten,
  whose owner is about to be evicted;
* `KeysAreTargets`: what `TurnsAlternate` is applied to.

Each of them is needed by `ReplyClean`, where the new key is inserted over a slot
no other key may name and which must hold its state already.

### FullCacheProofs

For any number of clients, prompts and slots. With every fault and either locking:
types, and `NoLeakedFiles`, since each path that drops an entry drops its file.
With every fault and `Serial` (the lock is kept, or there is one client):
`IndexBounded` and `EvictsOldest`, by the argument of the inline cache; without
`Serial` they do not hold. With `Clean` (`server.py`, no streaming, no fault):
`SlotsNotShared`, `HitRunsOnOwnPrompt` and `CompletedIsCached`, from an invariant
that says which slot each stage of a request may find changed.

### TokenPipeProofs

For any number of clients, all eight handlers and every fault. `PipeHasOneReader`
(`OneReader`): the invariant `LockInv` says that an open handler in a stage between
an acquisition and the next release holds the lock, by the shape of the eight
sequences, and that a thread dances only while its handler is in "squeeze", unless
the client has gone. `LeftFilesAreKnown` (`FilesLeft`): `FileInv` says which
files there are at every stage and after every end, and needs from `ThreadInv` that
nothing is compressed on a hit.

`ServersKeepThePromise` proves the refinement `Promised` for any number of clients,
from `Steady`: no client leaves, no stop sequence matches, the daemon lives (the
observations above show what each of the three breaks). No item names its reader,
so the invariant `RefInv` has to: `OwedHolds` says that only the holder of the
lock is owed an answer, since `Ordered` handlers do not give it up between sending
and hearing, and `WireInv` that all there is on stdin, in the daemon and in the
pipe belongs to it: its command `Written`, `Executed` or `Answered`, and in the
pipe exactly what it has not read (`Unread`), followed by its sentinel once the
command has ended. `TokenInv` relates what a reader has shown to what was generated
(`ShownOf`), muted or not. At the sentinel that is the trimmed continuation
(`HeardIsPromised`), and before it a prefix (`TrimmedExtends`, which needs that
the CHOOSE in `Trimmed` has one answer and that there is one). Then a read that shows a token is
a `Deliver`, a token of the daemon a `Generate`, the end of a response an `Answer`,
and everything else a stutter.

`GenerateFindsTheWeights` (`ReadyForGenerate`) adds `Reloads`, that what was
parked can be loaded again. `WeightInv` says where the weights are after each of
the six commands (`After`), counts those executed for the dance in progress
(`Executions`), and that no dance is half done when there is none: which is what
a generate command meets, as its client has the lock and does not dance.

`SentinelsForAllWaiting` (`SentinelsSuffice`), with every fault again, counts:
`SentinelInv` has on one side the threads that drain, the open requests whose command
is written and whose answer is not read (`Askers`: those in a token loop, and those
still before it, in "head") and the stray reads, on the other the sentinels in the
pipe, the commands on stdin and the one executed (`Supply`). A command written adds
one to each side; a read takes a sentinel from the supply only with a stray read, a
drainer or an asker that ends; a cancelled read moves from the askers to the strays;
what the daemon does keeps the supply. The sets stay finite because each step adds
at most one client, so nothing is assumed of `Clients`.

### SnapshotStoreProofs

For any vocabulary, prompts, ubatch, slots, snapshot positions, chains and failing
allocations, from `TargetChooses` alone (the target chooses a token):
`PrefillLands`, `SnapshotsResumable`, `InlineSnapTaken`, `ChainRestoresAttention`.

The inductive invariant has two halves. `Inv` follows a request whose cache is not
skewed: at rest the cache is `Sound`; in prefill all parts stand after the first
`Pos` tokens, either `Untouched` since the restore or `Underway`, and a snapshot
asked for is taken, still ahead, or was before the restored position (`SnapAhead`);
in decode they stand after the prompt and what was made. Slots hold sound caches
throughout. `SnapAhead` is what makes the clipping arithmetic inductive: an ubatch
never passes a position that is still ahead.

`LevelInv` holds of skewed caches as well: the KV slots end exactly at the position,
however inconsistent what they hold, and only state that is already broken has
chosen garbage. A chain needs it of its base. That a chain leaves no slot unwritten
(`NoGap`) is an argument about a least element: were some slot beyond the base in
no thin snapshot, take of those that reach beyond it the one that starts first; it
starts behind the start of another, which then reaches beyond the slot too. From
there `ChainRestores` gives the KV slots of the prompt, and a chain that does not
skew its base is the base itself.

### SpecDecodeProofs

For any vocabulary, block length, tree budget, generation budget, prompts and KV
size, for all four strategies and against every draft, from `TargetChooses` alone:
`StreamIsGreedy`, `StateMatchesStream`, `ChainEndConsistent`, `SeededCoversChain`
and `OverrunBounded`. The last is what the admission test (1967) ensures: it gives
`BlockFits` for `Budget <= QLen`; beyond that trees do end past the KV cache (see
the observations).

`Inv` says where the state stands in each phase: at the end of what was emitted
(`Settled`), at the end of the whole chain with what a rollback needs recorded for
each slot (`Verified`), along every slot's own path (`TreeVerified`), or at the end
of the accepted path with the KV slots half compacted (`Compacting`). For a chain:

* `ChainPass`: a pass over a chain attends to its own context, is judged by the
  target and moves all three parts of the state together;
* `WindowSlides`: three columns of the convolution input at the accepted offset are
  the window after the accepted tokens;
* `AcceptFacts`: the accepted prefix is the target's own choice.

For a tree three more facts have to be inductive, each for a reason of its own:

* `TreeOK`: a slot comes after its parent, stands one deeper and sees its parent's
  ancestry and itself. Hence every slot is judged after its own path (`TreePass`),
  and three columns gathered along the ancestry are the window after it, also for a
  path shorter than the window (`ConvFollows`).
* `Distinct` and `HeapOK`: siblings carry different tokens, which holds because no
  slot has two candidates on the heap and the ranks taken under it come before the
  candidate's (`SiblingsGrow`). Without it the walk might leave the draft's chain
  for a sibling with the same token, and `SpineWalked`, on which `SeededCoversChain`
  rests, would fail.
* `WalkOK`: accepted slots increase, so the i-th is never before the i-th place;
  this is why compaction in place overwrites no slot it has still to read.

The three commits then meet `EmitInv`: tokens that follow the stream are emitted
and all state is moved to their end.

### StdoutBusProofs

`Consistent`: `IndexMatchesSlots` for any number of calls, prompts, slots and values
of the flag, while snapshots fail, calls are given up or cancelled, the daemon dies.
Two hypotheses, both needed (TLC finds a counterexample without either):
`OneOrTheOther`, that a daemon is slow or fails snapshots but not both, since a late
acknowledgement then stands for a snapshot that was not taken; and `Consuming`, that
callers of a slow daemon read the tokens to their end (see the observations). `Inv`
says nothing once something has happened after which the property says nothing
(`Live`); this ends for good (`LiveBefore`). Until then

* the lock is held by whoever is under way (`LockInv`), who alone waits (`WaitInv`);
* during start-up the slots in use are among those still to be freed (`SyncInv`);
* below cap the index fills the first slots, at cap the reserved slot is the oldest
  key's (`IndexInv`), and all slots but the reserved one agree (`CallInv`, `BusInv`);
* what is in stdin, in stdout and at the waiter at each stage: if acknowledgements
  come in time (`Punctual`), exactly one of the command, its line and the reply; of
  a slow daemon only the end of stdin can be told (`FreedInv`, `SlotInv`), which is
  enough because it has one slot.

### DraftTrainingProofs

For any number of prompts, workers, epochs and invocations, each killed or resumed
anywhere. Losses are in Nat, averages may also be infinite or no number (`Inf`,
which is above every loss: `LossAssumption`).

* `EpochsAreTrained`: a checkpoint's epoch never runs ahead of what its model has
  been through, for files and for the write under way (`EpochInv`). A run with
  --max-steps cuts an epoch short; `Trained` exempts its models, and those resumed
  from them.
* `BestIsTheLowest`, about every invocation, killed, resumed or neither: its best.pt is
  not above any step checkpoint it left, with the exceptions that `BestIsLowest` names.
  `BestInv` relates `best` to best.pt while training, even while a write is under way;
  `RunInv` says that no file is signed by a run to come. `DiskInv` says what is on
  disk: best.pt covers all steps of the run (`AllCovered`); or training goes on, best.pt
  is due, and it covers all before the last (`BestDue`, `CoveredBefore`); or the run was
  killed there, perhaps in the middle of best.pt (`Stopped`). To get there the steps of
  a run must be numbered in order (`Steps`), a due best.pt be that of the step written
  with it (`Pair`), and no final checkpoint be there before training ends (`NoFinal`).
* `ExportIsFresh`: `ExportInv` follows a pipeline: the last epoch's file and the final
  one are its own when it comes to the export, so whichever candidate is found is
  of this run, or a best.pt of an earlier one; and that only if no step
  checkpoint of this run has an average that is a number.
* `EpochsCover`: by `OneWorker` every index of the list of paths is in the share of
  exactly one worker, by `PathsAre` every match of a trace is at exactly one index;
  so the blocks of a trace in `Blocks` are in bijection with its two matches times
  its anchors (`BlocksCount`). `QueueInv` adds that no trace is written while
  training, so that an epoch begins with the blocks of what is on disk.
* `TensorsAreAccounted`: `TensorsAccounted`, for any number of layers of the draft
  and of the upstream release. Every tensor of what each program writes, fc and norms
  included, comes from its own place or is named as `Lost` with the reason, and the
  loader takes exactly the files of export.py.

### StreamParseProofs

For any texts, tags, stop sequences and longest token: `ShownIsFinal`, `WholeAtEnd` and
`BatchAgrees`, from `Apart`: no tag and no stop sequence can overlap a tag, and no stop
sequence is inside another one. Two stop sequences may overlap: the one that begins
first ends first. Both parts are needed (see the observations). Of real tags only
the stop sequences can break it, as the three tags have one "<" each, at their
beginning.

`Inv` says where the window is. Outside tool calls (`Waits`) it is the text from a
place i to what has come. No stop sequence and no tag of the mode begins at i or later
and has ended, or `Scan` would have been stopped by it (`EndAfter`; in the middle of a
scan a tag may end with the last token, and by `IsPiece` not before). And what has been
shown, with what the reference shows from i on in this mode, is all it shows (`Owes`).
Inside (`Collects`) the buffer is the text since the tag. Every step moves i:

* a holdback as long as the longest word leaves no place from which one can begin
  in what is released (`HoldbackIs`, `ShowFree`), and symbols at which nothing begins
  are shown as they are (`Skip`, by induction over the last one);
* at a tag nothing begins before it, as it would overlap it or have ended
  (`TagFound`), and the reference changes its mode where the window does (`TagShown`);
* at a stop sequence likewise (`StopFound`), where that none is inside another is needed;
* at the end of the text what has not ended does not begin (`AllFree`), so that the
  window may be flushed.

Both `Remaining` and `parse_tool_calls` are recursive functions with arguments that
shrink by the length of a tag. That they have a solution (`ShownExists`,
`ToolsExist`) takes a smallest n up to which there is none; after that they are used
by unfolding them once.

`BatchAgrees` compares `Reference` with the batch parsers. The response ends before the
first stop sequence (`TrimIs`), and the trimmed text has the tags that begin there
(`EndsBefore`, with `Apart`). If no tool call is left in it, both show reasoning and content
of the same slices (`AgreePlain`). If there is one, the response does not end before the
text does (`CallingIs`), the calls of the text are those from its first call on
(`CallsSplit`), and taking them out leaves `</think>` as the first one where it was
(`CutFirst`, `AgreeCalls`).

### Only model-checked

Every invariant and action property that a run checks is proved. Liveness (`Answered`,
`Ends`, `EveryRequestEnds`, `EveryCallEnds`) is not: it needs fairness and ENABLED. Nor is
what recursive functions compute as data: the boundary scans agree with `Candidates` on
the prompts that TLC evaluates, and what a solution of `parse_tool_calls` and `Remaining`
is beyond one unfolding is not stated.

## Not modelled

* The compressor daemon (`pflash_daemon.cpp`, `phase_split_dual_gpu.py`): a
  one-command protocol in lockstep with a single driver, nothing interleaves.
* Hash collisions of `hash_prefix`; expiry and deletion of prompt files by others.
* `abort_full_snap`, which has no caller; message formatting, /health, the model
  list, the conversion of tool arguments, and flags.
* Several worker processes of one server: the servers start one.

Details that the models of the parts above leave out:

* The answers of -1 to a compress command with bad arguments or an empty input
  (`test_dflash.cpp` 1676–1685) are not separate from that of a drafter that cannot
  load: in the hook's sequence, where all is parked before, they leave the same state.
* `SpecDecode` verifies a chain in one action, batched or one token at a time. With
  `--seq-verify` and `--ddtree` together (1216) the guards' fall-back to the chain has
  no captures to roll back to; no script passes both.
* `StreamParse` takes what the tokens decode to one by one (`server_tools.py` 735) and
  what they decode to as a whole without special tokens (626) as the same text.
* What the optimizer does with gradients in `DraftTraining` (an epoch has seen a block
  when it was in a batch), and the type of the numbers in a model file in `DraftWeights`.
* The `target_feat` ring (compacted as KV slots are, read only by the draft, which
  is arbitrary here), the sliding attention window, quantisation and rounding.
* `SNAPSHOT` into a slot that holds a thin snapshot (`qwen35_target_graph.cpp` 351
  finds buffers allocated, of another shape); the servers keep the kinds apart.
  Growing the cache.
* Learning rates and losses as numbers; the contents of traces.
* Kernels, graph building, weight loaders, registries, benchmarks, one-shot runners
  and converters: numeric or sequential, one process, one pass.

## What is left

In the order of what matters most:

1. The liveness properties, should a prover for fairness be at hand. The arguments are
   variants: commands on stdin and sentinels in the pipe for `Answered` and
   `EveryRequestEnds`, tokens to generate for `Ends`, waiters and their timers for
   `EveryCallEnds`.
2. The boundary scans for every prompt, by induction over its tokens.
