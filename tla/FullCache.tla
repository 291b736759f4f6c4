----------------------------- MODULE FullCache -----------------------------
(***************************************************************************)
(* The full-compress-result cache: the second LRU index of class           *)
(* PrefixCache (scripts/prefix_cache.py), which maps a long raw prompt to  *)
(* the daemon slot holding the KV state of its compressed form and to a    *)
(* copy of the compressed prompt file, as the two servers drive it.        *)
(* scripts/server.py keeps daemon_lock from the lookup to the confirm;     *)
(* scripts/server_tools.py releases it in between (LockGap).               *)
(*                                                                         *)
(* A prompt stands for its raw ids, its key, its compressed file and the   *)
(* KV state of that file: compression is a function of the prompt.         *)
(***************************************************************************)
EXTENDS Integers, SequencesExt, OrderedDict

CONSTANTS
  Client,       \* connections, each with one request at a time
  Prompts,      \* raw prompts long enough to be compressed
  Cap,          \* PrefixCache._full_cap, after clamping
  LockGap,      \* TRUE for server_tools.py, FALSE for server.py
  Streaming,    \* kinds of responses asked for: a subset of BOOLEAN
  Faults,       \* subset of {"abandon", "copy", "delete", "oom"}
  None          \* Python's None

ASSUME CapAssumption == Cap \in 1..8
ASSUME SwitchAssumption == LockGap \in BOOLEAN /\ Streaming \subseteq BOOLEAN

VARIABLES
  lru,          \* keys of full_entries, least recently used first
  slotOf,       \* full_entries: key -> slot, relative to _full_slot_base
  nextSlot,     \* _full_next_slot
  pendingEvict, \* _full_pending_evict_key; its path is that key's file
  files,        \* keys whose <key>.bin exists in the cache directory
  slots,        \* daemon snapshots of the pool: a prompt's KV state or None
  req,          \* the request of each client, or None
  holder        \* the client inside daemon_lock, or None

index == <<lru, slotOf, nextSlot, pendingEvict>>
vars == <<lru, slotOf, nextSlot, pendingEvict, files, slots, req, holder>>

Slot == 0..(Cap - 1)
Request == [prompt : Prompts, stream : Streaming, pc : {"prepared", "queued", "answered"},
            hit : Slot \cup {None}, prep : Slot \cup {None}]

ASSUME NoneAssumption == None \notin Client \cup Prompts \cup Slot \cup Request

Cached == DOMAIN slotOf

-----------------------------------------------------------------------------
(* PrefixCache                                                             *)

\* A hit needs the entry and its file.
IsHit(p) == p \in Cached \cap files

\* lookup_full on a hit; on an entry whose file is gone, which is dropped; on
\* a miss.
lookup_full(p) ==
  /\ lru' = IF IsHit(p) THEN MoveToEnd(lru, p) ELSE Pop(lru, p)
  /\ slotOf' = IF IsHit(p) THEN slotOf ELSE Restrict(slotOf, Cached \ {p})

\* Mutant: round robin at cap too, whichever entry is evicted.
PreparedRoundRobin(p) == nextSlot

\* Slot reserved by prepare_full_snap when lookup_full has missed.
PreparedSlot(p) ==
  LET order == Pop(lru, p)
  IN  IF Len(order) >= Cap THEN slotOf[Oldest(order)] ELSE nextSlot

\* Mutant: the most recently used entry is marked for eviction.
prepareNewest(p) ==
  LET order == Pop(lru, p)
  IN  IF Len(order) >= Cap
      THEN pendingEvict' = Last(order) /\ UNCHANGED nextSlot
      ELSE pendingEvict' = None /\ nextSlot' = (nextSlot + 1) % Cap

\* What prepare_full_snap leaves in _full_next_slot and the pending key.
prepare_full_snap(p) ==
  LET order == Pop(lru, p)
  IN  IF Len(order) >= Cap
      THEN pendingEvict' = Oldest(order) /\ UNCHANGED nextSlot
      ELSE pendingEvict' = None /\ nextSlot' = (nextSlot + 1) % Cap

\* The copy of cur_bin failed: only the reservation is forgotten.
CopyFailed == pendingEvict' = None /\ UNCHANGED <<lru, slotOf, nextSlot, files>>

\* Mutant: the pending entry is not evicted.
RegisterKeepsEvicted(p, slot) ==
  /\ lru' = Insert(lru, p)
  /\ slotOf' = [k \in Cached \cup {p} |-> IF k = p THEN slot ELSE slotOf[k]]
  /\ files' = files \cup {p}
  /\ pendingEvict' = None
  /\ UNCHANGED nextSlot

\* Mutant: the evicted entry's file stays on disk.
RegisterKeepsFile(p, slot) ==
  /\ lru' = Insert(Pop(lru, pendingEvict), p)
  /\ slotOf' = [k \in (Cached \ {pendingEvict}) \cup {p} |->
                  IF k = p THEN slot ELSE slotOf[k]]
  /\ files' = files \cup {p}
  /\ pendingEvict' = None
  /\ UNCHANGED nextSlot

\* Evict the pending entry and its file, then register the new one.
Register(p, slot) ==
  /\ lru' = Insert(Pop(lru, pendingEvict), p)
  /\ slotOf' = [k \in (Cached \ {pendingEvict}) \cup {p} |->
                  IF k = p THEN slot ELSE slotOf[k]]
  /\ files' = (files \cup {p}) \ {pendingEvict}
  /\ pendingEvict' = None
  /\ UNCHANGED nextSlot

\* Mutant: every handler unlinks cur_bin before it confirms.
confirmUnlinked(p, slot, unlinked) == CopyFailed

\* A streaming handler has already unlinked cur_bin when it confirms.
confirm_full_snap(p, slot, unlinked) ==
  \/ unlinked /\ CopyFailed
  \/ ~unlinked /\ "copy" \in Faults /\ CopyFailed
  \/ ~unlinked /\ Register(p, slot)

-----------------------------------------------------------------------------
(* The request handlers                                                    *)

\* Under the lock: lookup_full and, on a miss, compression and the
\* reservation.  server_tools.py then releases the lock.
Lookup(c, p, stream) ==
  /\ req[c] = None
  /\ holder = None
  /\ lookup_full(p)
  /\ IF IsHit(p) THEN UNCHANGED <<nextSlot, pendingEvict>> ELSE prepare_full_snap(p)
  /\ req' = [req EXCEPT ![c] =
       [prompt |-> p, stream |-> stream, pc |-> "prepared",
        hit |-> IF IsHit(p) THEN slotOf[p] ELSE None,
        prep |-> IF IsHit(p) THEN None ELSE PreparedSlot(p)]]
  /\ holder' = IF LockGap THEN None ELSE c
  /\ UNCHANGED <<files, slots>>

\* gen_len <= 0, seen by server_tools.py after it has reserved a slot.
TooLong(c) ==
  /\ LockGap
  /\ req[c] # None
  /\ req[c].pc = "prepared"
  /\ req' = [req EXCEPT ![c] = None]
  /\ UNCHANGED <<index, files, slots, holder>>

\* Take the lock if need be, and write the command line.
Send(c) ==
  /\ req[c] # None
  /\ req[c].pc = "prepared"
  /\ holder \in {None, c}
  /\ holder' = c
  /\ req' = [req EXCEPT ![c].pc = "queued"]
  /\ UNCHANGED <<index, files, slots>>

\* The daemon runs the command: RESTORE of the hit, or a prefill whose
\* snapshot at the end of the compressed prompt fills the reserved slot.
Run(c) ==
  /\ req[c] # None
  /\ req[c].pc = "queued"
  /\ req' = [req EXCEPT ![c].pc = "answered"]
  /\ \/ req[c].prep # None /\ slots' = [slots EXCEPT ![req[c].prep] = req[c].prompt]
     \/ req[c].prep # None /\ "oom" \in Faults /\ slots[req[c].prep] = None
        /\ UNCHANGED slots
     \/ req[c].prep = None /\ UNCHANGED slots
  /\ UNCHANGED <<index, files, holder>>

\* The -1 has been read: confirm the reservation and release the lock.
Complete(c) ==
  /\ req[c] # None
  /\ req[c].pc = "answered"
  /\ IF req[c].prep = None THEN UNCHANGED <<index, files>>
     ELSE confirm_full_snap(req[c].prompt, req[c].prep, req[c].stream)
  /\ req' = [req EXCEPT ![c] = None]
  /\ holder' = None
  /\ UNCHANGED slots

\* The client of a stream goes away: nothing is confirmed or aborted.
Abandon(c) ==
  /\ "abandon" \in Faults
  /\ req[c] # None
  /\ req[c].stream
  /\ LockGap \/ req[c].pc # "prepared"
  /\ req' = [req EXCEPT ![c] = None]
  /\ holder' = IF holder = c THEN None ELSE holder
  /\ UNCHANGED <<index, files, slots>>

\* Someone else deletes a file of the cache directory.
DeleteFile(p) ==
  /\ "delete" \in Faults
  /\ p \in files
  /\ files' = files \ {p}
  /\ UNCHANGED <<index, slots, req, holder>>

-----------------------------------------------------------------------------
Init ==
  /\ lru = <<>>
  /\ slotOf = [k \in {} |-> 0]
  /\ nextSlot = 0
  /\ pendingEvict = None
  /\ files = {}
  /\ slots = [s \in Slot |-> None]
  /\ req = [c \in Client |-> None]
  /\ holder = None

Next ==
  \/ \E c \in Client, p \in Prompts, stream \in Streaming : Lookup(c, p, stream)
  \/ \E c \in Client : TooLong(c) \/ Send(c) \/ Run(c) \/ Complete(c) \/ Abandon(c)
  \/ \E p \in Prompts : DeleteFile(p)

Spec == Init /\ [][Next]_vars

-----------------------------------------------------------------------------
(* Properties                                                              *)

\* Every variable stays in its domain.
TypeOK ==
  /\ lru \in Seq(Prompts)
  /\ slotOf \in [ToSet(lru) -> Slot]
  /\ nextSlot \in Slot
  /\ pendingEvict \in Prompts \cup {None}
  /\ files \subseteq Prompts
  /\ slots \in [Slot -> Prompts \cup {None}]
  /\ req \in [Client -> Request \cup {None}]
  /\ holder \in Client \cup {None}

\* full_entries never outgrows _full_cap, though eviction is deferred to the
\* confirm ("Number of daemon slots reserved for full-cache entries").
IndexBounded == IsInjective(lru) /\ Len(lru) <= Cap

\* A RESTORE sent for a hit finds the KV state of that very prompt, so the
\* response continues the prompt that was asked (lookup_full).
HitRunsOnOwnPrompt ==
  \A c \in Client : req[c] # None /\ req[c].pc = "queued" /\ req[c].hit # None =>
    slots[req[c].hit] = req[c].prompt

\* No compressed file outlives its entry: the eviction deferred to the confirm
\* removes the file of the entry it drops, whichever request reserved it.
NoLeakedFiles == files \subseteq Cached

\* Two entries never share a daemon slot.
SlotsNotShared == IsInjective(slotOf)

\* An entry is dropped only as the least recently used one, or because its
\* file was deleted.
EvictsOldest ==
  [][\A k \in Cached \ Cached' : k = Oldest(lru) \/ k \notin files]_vars

\* A compressed prompt whose response completes is in the cache afterwards
\* ("an identical long prompt sent a second time skips BOTH").
CompletedIsCached ==
  [][\A c \in Client : Complete(c) => req[c].prompt \in Cached']_vars
=============================================================================
