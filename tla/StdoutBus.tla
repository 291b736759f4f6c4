----------------------------- MODULE StdoutBus -----------------------------
(***************************************************************************)
(* The acknowledgements of the daemon: class DaemonStdoutBus and the two   *)
(* coroutines of class PrefixCache (scripts/prefix_cache.py) that wait on  *)
(* it, startup_sync, which frees the slots a daemon may still hold, and    *)
(* the out-of-band maybe_snapshot.  The daemon executes its command lines  *)
(* in order and prints a line for most of them; the bus gives a line to    *)
(* the first waiter whose prefix it has, and a waiter gives up after a     *)
(* while.                                                                  *)
(*                                                                         *)
(* A prompt stands for its target prefix, the key of that prefix and the   *)
(* state of the cache after it.                                            *)
(***************************************************************************)
EXTENDS Integers, SequencesExt, FiniteSetsExt, OrderedDict

CONSTANTS
  Calls,      \* calls of maybe_snapshot, one each
  Startup,    \* the call of startup_sync
  Prompts,
  Asked,      \* values of --prefix-cache-slots
  DAEMON_MAX_SLOTS,
  Hazards,    \* sets of faults, of which one set may strike: subsets of
              \* {"slow", "fail", "cancel", "recancel", "die"}
  None

ASSUME SlotsAssumption == DAEMON_MAX_SLOTS \in Nat \ {0} /\ Asked \subseteq Nat
ASSUME StartupAssumption == Startup \notin Calls

VARIABLES
  faults,       \* what may strike
  cap,          \* PrefixCache.cap
  lru, slotOf, nextSlot, pendingEvict,  \* its index, as in PrefixCache
  lock,         \* holder of daemon_lock, or None
  stage,        \* where each coroutine is suspended, or how it ended
  call,         \* prompt of each call, if its tokens are consumed, its slot
  orphans,      \* slots startup_sync has still to free
  waiters,      \* DaemonStdoutBus._waiters: prefix and coroutine
  reply,        \* what fut.set_result left for each coroutine, or None
  reading,      \* the task of the bus runs
  stdin,        \* command lines not read by the daemon
  stdout,       \* lines not read by the bus
  bins,         \* prompt files on disk, by the call that wrote them
  cache,        \* prompt the daemon's cache holds, or None
  slots,        \* prefix_snapshots
  alive         \* the daemon runs

index == <<lru, slotOf, nextSlot, pendingEvict>>
bus == <<waiters, reply, reading>>
daemon == <<cache, slots, alive>>
vars == <<faults, cap, index, lock, stage, call, orphans, bus, stdin, stdout, bins, daemon>>

Tasks == Calls \cup {Startup}
Slot == 0..(DAEMON_MAX_SLOTS - 1)
Cached == DOMAIN slotOf
Ended == {"done", "failed", "dropped"}

\* Lines of stdout that somebody waits for.
Lines == [prefix : {"slots"}, listed : SUBSET Slot] \cup [prefix : {"slot", "freed"}]

\* None is nothing that is cached, nobody who calls and no line.
ASSUME NoneAssumption == None \notin Prompts \cup Tasks \cup Lines

-----------------------------------------------------------------------------
(* PrefixCache                                                             *)

\* cap of __init__
Clamped(asked) == Min({asked, DAEMON_MAX_SLOTS})

PreparedSlot == IF Len(lru) >= cap THEN slotOf[Oldest(lru)] ELSE nextSlot

\* For a prompt that is not cached: reserve a slot.
prepare_inline_snap ==
  /\ IF Len(lru) >= cap
     THEN pendingEvict' = Oldest(lru) /\ UNCHANGED nextSlot
     ELSE pendingEvict' = None /\ nextSlot' = (nextSlot + 1) % cap
  /\ UNCHANGED <<lru, slotOf>>

confirm_inline_snap(slot, p) ==
  /\ lru' = Insert(Pop(lru, pendingEvict), p)
  /\ slotOf' = [k \in (Cached \ {pendingEvict}) \cup {p} |->
                  IF k = p THEN slot ELSE slotOf[k]]
  /\ pendingEvict' = None
  /\ UNCHANGED nextSlot

\* Mutant: the reservation is undone and the old entry kept.
abortKeepsEntry == pendingEvict' = None /\ UNCHANGED <<lru, slotOf, nextSlot>>

\* The entry whose slot was reserved is dropped: the slot may hold the new prompt.
abort_inline_snap ==
  /\ lru' = Pop(lru, pendingEvict)
  /\ slotOf' = Restrict(slotOf, Cached \ {pendingEvict})
  /\ pendingEvict' = None
  /\ UNCHANGED nextSlot

-----------------------------------------------------------------------------
(* DaemonStdoutBus                                                         *)

\* Enter await_reply, and leave it without a reply.
Wait(t, prefix) ==
  /\ waiters' = Append(waiters, [prefix |-> prefix, task |-> t])
  /\ reply' = [reply EXCEPT ![t] = None]
Without(t) == RemoveFirstMatch(waiters, LAMBDA w : w.task = t)
GiveUp(t) ==
  /\ waiters' = Without(t)
  /\ reply' = [reply EXCEPT ![t] = None]
Waits(t, prefix) == \E i \in DOMAIN waiters : waiters[i] = [prefix |-> prefix, task |-> t]

\* The task of the bus reads a line: the first waiter with its prefix gets it;
\* without one it is a log line.
RouteLine ==
  /\ reading /\ stdout # <<>>
  /\ stdout' = Tail(stdout)
  /\ LET fit == {i \in DOMAIN waiters : waiters[i].prefix = Head(stdout).prefix}
     IN  IF fit = {} THEN UNCHANGED <<waiters, reply>>
         ELSE /\ reply' = [reply EXCEPT ![waiters[Min(fit)].task] = Head(stdout)]
              /\ waiters' = RemoveAt(waiters, Min(fit))
  /\ UNCHANGED <<faults, cap, index, lock, stage, call, orphans, reading, stdin, bins,
                 daemon>>

\* End of file: all waiters get an EOFError, and the task returns.
RouteEof ==
  /\ reading /\ stdout = <<>> /\ ~alive
  /\ reading' = FALSE
  /\ waiters' = <<>>
  /\ reply' = [t \in Tasks |-> IF \E i \in DOMAIN waiters : waiters[i].task = t
                               THEN [prefix |-> "EOF"] ELSE reply[t]]
  /\ UNCHANGED <<faults, cap, index, lock, stage, call, orphans, stdin, stdout, bins, daemon>>

\* _send: with a dead daemon the write raises.
Send(lines) == alive /\ stdin' = stdin \o lines

\* A reply is still to come for a waiter of this prefix.
Coming(prefix) ==
  /\ reading
  /\ \/ \E i \in DOMAIN stdout : stdout[i].prefix = prefix
     \/ alive /\ \E i \in DOMAIN stdin : stdin[i].acks = prefix

\* Mutant: only the waits of startup_sync are timed.
ExpiredStartup(t) == t = Startup /\ Waits(t, "slots")

\* The timer of await_reply goes off: without a reply, or before a slow one.
Expired(t) ==
  \E prefix \in {"slots", "slot", "freed"} :
    Waits(t, prefix) /\ (Coming(prefix) => "slow" \in faults)

-----------------------------------------------------------------------------
(* startup_sync                                                            *)

FreeLine(slot) == [op |-> "FREE_SNAPSHOT", slot |-> slot, acks |-> "freed"]

\* The lock is taken, and LIST_SLOTS written.
StartSync ==
  /\ stage[Startup] = "begin" /\ cap > 0
  /\ lock = None
  /\ IF alive
     THEN /\ lock' = Startup
          /\ Send(<<[op |-> "LIST_SLOTS", acks |-> "slots"]>>)
          /\ Wait(Startup, "slots")
          /\ stage' = [stage EXCEPT ![Startup] = "slots"]
     ELSE /\ stage' = [stage EXCEPT ![Startup] = "failed"]
          /\ UNCHANGED <<lock, stdin, waiters, reply>>
  /\ UNCHANGED <<faults, cap, index, call, orphans, reading, stdout, bins, daemon>>

\* With the cache disabled there is nothing to do.
SkipSync ==
  /\ stage[Startup] = "begin" /\ cap = 0
  /\ stage' = [stage EXCEPT ![Startup] = "done"]
  /\ UNCHANGED <<faults, cap, index, lock, call, orphans, bus, stdin, stdout, bins, daemon>>

\* Free the next orphan, or return.
FreeNext(left) ==
  /\ orphans' = left
  /\ IF left = {}
     THEN /\ stage' = [stage EXCEPT ![Startup] = "done"]
          /\ lock' = None
          /\ reply' = [reply EXCEPT ![Startup] = None]
          /\ UNCHANGED <<stdin, waiters>>
     ELSE IF alive
     THEN /\ stage' = [stage EXCEPT ![Startup] = "freed"]
          /\ Send(<<FreeLine(Min(left))>>)
          /\ Wait(Startup, "freed")
          /\ UNCHANGED lock
     ELSE /\ stage' = [stage EXCEPT ![Startup] = "failed"]
          /\ lock' = None
          /\ reply' = [reply EXCEPT ![Startup] = None]
          /\ UNCHANGED <<stdin, waiters>>

SyncReply ==
  /\ stage[Startup] \in {"slots", "freed"}
  /\ reply[Startup] # None /\ reply[Startup].prefix # "EOF"
  /\ FreeNext(IF stage[Startup] = "slots" THEN reply[Startup].listed
              ELSE orphans \ {Min(orphans)})
  /\ UNCHANGED <<faults, cap, index, call, reading, stdout, bins, daemon>>

\* A time-out or the end of the daemon: the server does not come up.
SyncFails ==
  /\ stage[Startup] \in {"slots", "freed"}
  /\ Expired(Startup) \/ (reply[Startup] # None /\ reply[Startup].prefix = "EOF")
  /\ GiveUp(Startup)
  /\ stage' = [stage EXCEPT ![Startup] = "failed"]
  /\ lock' = None
  /\ UNCHANGED <<faults, cap, index, call, orphans, reading, stdin, stdout, bins, daemon>>

-----------------------------------------------------------------------------
(* maybe_snapshot, called with daemon_lock held                            *)

\* The prompt is cached, or the cache disabled: nothing to do.
Skip(c) ==
  /\ stage[c] = "begin" /\ stage[Startup] = "done"
  /\ lock = None
  /\ cap = 0 \/ call[c].prompt \in Cached
  /\ lru' = IF cap = 0 THEN lru ELSE MoveToEnd(lru, call[c].prompt)
  /\ stage' = [stage EXCEPT ![c] = "done"]
  /\ UNCHANGED <<faults, cap, slotOf, nextSlot, pendingEvict, lock, call, orphans, bus, stdin,
                 stdout, bins, daemon>>

\* Reserve a slot, write the prefix to a file and have it prefilled.  A write
\* that raises leads to the `finally`, where the next one does too.
Prefill(c) ==
  /\ stage[c] = "begin" /\ stage[Startup] = "done"
  /\ lock = None
  /\ cap > 0 /\ call[c].prompt \notin Cached
  /\ call' = [call EXCEPT ![c].slot = PreparedSlot]
  /\ prepare_inline_snap
  /\ lock' = c
  /\ IF alive
     THEN /\ Send(<<[op |-> "prefill", from |-> c, acks |-> None]>>)
          /\ stage' = [stage EXCEPT ![c] = "tokens"]
          /\ bins' = bins \cup {c}
     ELSE stage' = [stage EXCEPT ![c] = "abort"] /\ UNCHANGED <<stdin, bins>>
  /\ UNCHANGED <<faults, cap, orphans, bus, stdout, daemon>>

Prefilled(c) == \A i \in DOMAIN stdin : ~(stdin[i].op = "prefill" /\ stdin[i].from = c)

\* The consumer, if there is one, has met the -1.
Snapshot(c) ==
  /\ stage[c] = "tokens"
  /\ call[c].consumed => Prefilled(c) \/ ~alive
  /\ IF alive
     THEN /\ Send(<<[op |-> "SNAPSHOT", slot |-> call[c].slot, acks |-> "slot"]>>)
          /\ Wait(c, "slot")
          /\ stage' = [stage EXCEPT ![c] = "slot"]
          /\ UNCHANGED bins
     ELSE /\ stage' = [stage EXCEPT ![c] = "abort"]
          /\ bins' = bins \ {c}
          /\ UNCHANGED <<stdin, waiters, reply>>
  /\ UNCHANGED <<faults, cap, index, lock, call, orphans, reading, stdout, daemon>>

Confirm(c) ==
  /\ stage[c] = "slot"
  /\ reply[c] # None /\ reply[c].prefix = "slot"
  /\ confirm_inline_snap(call[c].slot, call[c].prompt)
  /\ bins' = bins \ {c}
  /\ reply' = [reply EXCEPT ![c] = None]
  /\ stage' = [stage EXCEPT ![c] = "done"]
  /\ lock' = None
  /\ UNCHANGED <<faults, cap, call, orphans, waiters, reading, stdin, stdout, daemon>>

\* The `finally` of a call that is not confirmed: unlink the file and free the
\* slot.
Undo(c) ==
  /\ bins' = bins \ {c}
  /\ IF alive
     THEN /\ Send(<<FreeLine(call[c].slot)>>)
          /\ waiters' = Append(Without(c), [prefix |-> "freed", task |-> c])
          /\ reply' = [reply EXCEPT ![c] = None]
          /\ stage' = [stage EXCEPT ![c] = "freed"]
     ELSE GiveUp(c) /\ stage' = [stage EXCEPT ![c] = "abort"] /\ UNCHANGED stdin
  /\ UNCHANGED <<faults, cap, index, lock, call, orphans, reading, stdout, daemon>>

\* No acknowledgement.
Recover(c) ==
  /\ stage[c] = "slot"
  /\ Expired(c) \/ (reply[c] # None /\ reply[c].prefix = "EOF")
  /\ Undo(c)

\* The caller is cancelled.
Cancel(c) ==
  /\ "cancel" \in faults
  /\ stage[c] \in {"tokens", "slot"}
  /\ Undo(c)

\* The slot is freed, or nobody says so in two seconds.
Abort(c) ==
  /\ \/ stage[c] = "abort"
     \/ stage[c] = "freed" /\ (Expired(c) \/ reply[c] # None)
  /\ abort_inline_snap
  /\ GiveUp(c)
  /\ stage' = [stage EXCEPT ![c] = "failed"]
  /\ lock' = None
  /\ UNCHANGED <<faults, cap, call, orphans, reading, stdin, stdout, bins, daemon>>

\* Cancelled in the `finally`: CancelledError is no Exception, and the
\* reservation stays.
CancelRecovery(c) ==
  /\ "recancel" \in faults
  /\ stage[c] = "freed"
  /\ GiveUp(c)
  /\ stage' = [stage EXCEPT ![c] = "dropped"]
  /\ lock' = None
  /\ UNCHANGED <<faults, cap, index, call, orphans, reading, stdin, stdout, bins, daemon>>

-----------------------------------------------------------------------------
(* The daemon                                                              *)

\* The next command.  A missing prompt file or a failed snapshot is only
\* reported on stderr.
Execute ==
  /\ alive /\ stdin # <<>>
  /\ stdin' = Tail(stdin)
  /\ LET line == Head(stdin)
         Says(more) == stdout' = Append(stdout, more)
     IN  \/ /\ line.op = "LIST_SLOTS"
            /\ Says([prefix |-> "slots", listed |-> {s \in Slot : slots[s] # None}])
            /\ UNCHANGED <<cache, slots>>
         \/ /\ line.op = "FREE_SNAPSHOT"
            /\ slots' = [slots EXCEPT ![line.slot] = None]
            /\ Says([prefix |-> "freed"])
            /\ UNCHANGED cache
         \/ /\ line.op = "prefill"
            /\ cache' = IF line.from \in bins THEN call[line.from].prompt ELSE cache
            /\ UNCHANGED <<slots, stdout>>
         \/ /\ line.op = "SNAPSHOT"
            /\ slots' = [slots EXCEPT ![line.slot] = cache]
            /\ Says([prefix |-> "slot"])
            /\ UNCHANGED cache
         \/ /\ line.op = "SNAPSHOT"
            /\ "fail" \in faults /\ slots[line.slot] = None
            /\ UNCHANGED <<cache, slots, stdout>>
  /\ UNCHANGED <<faults, cap, index, lock, stage, call, orphans, bus, bins, alive>>

Die ==
  /\ "die" \in faults
  /\ alive
  /\ alive' = FALSE
  /\ stdin' = <<>>
  /\ UNCHANGED <<faults, cap, index, lock, stage, call, orphans, bus, stdout, bins, cache,
                 slots>>

-----------------------------------------------------------------------------
Init ==
  /\ faults \in Hazards
  /\ \E asked \in Asked : cap = Clamped(asked)
  /\ lru = <<>>
  /\ slotOf = [k \in {} |-> 0]
  /\ nextSlot = 0
  /\ pendingEvict = None
  /\ lock = None
  /\ stage = [t \in Tasks |-> "begin"]
  /\ call \in [Calls -> [prompt : Prompts, consumed : BOOLEAN, slot : {None}]]
  /\ orphans = {}
  /\ waiters = <<>>
  /\ reply = [t \in Tasks |-> None]
  /\ reading = TRUE
  /\ stdin = <<>> /\ stdout = <<>>
  /\ bins = {}
  /\ cache \in Prompts \cup {None}
  /\ slots \in [Slot -> {cache, None}]
  /\ alive = TRUE

Sync == StartSync \/ SkipSync \/ SyncReply \/ SyncFails
Maybe(c) == Skip(c) \/ Prefill(c) \/ Snapshot(c) \/ Confirm(c) \/ Recover(c) \/ Abort(c)

\* Nobody waits any more; calls are only made of a server that has come up.
Quiet ==
  /\ stage[Startup] \in Ended
  /\ stage[Startup] = "done" => \A c \in Calls : stage[c] \in Ended
  /\ alive => stdin = <<>>
  /\ UNCHANGED vars

Next ==
  \/ RouteLine \/ RouteEof \/ Sync
  \/ \E c \in Calls : Maybe(c) \/ Cancel(c) \/ CancelRecovery(c)
  \/ Execute \/ Die \/ Quiet

\* The event loop, its timers, the reader thread and the daemon keep going;
\* nobody has to cancel.
Fairness ==
  /\ WF_vars(RouteLine \/ RouteEof) /\ WF_vars(Execute) /\ WF_vars(Sync)
  /\ \A c \in Calls : WF_vars(Maybe(c))

Spec == Init /\ [][Next]_vars /\ Fairness

-----------------------------------------------------------------------------
(* Properties                                                              *)

\* Once the server is up, and whenever nobody has the lock and no command is
\* under way, the index says exactly what the daemon holds ("To keep daemon and
\* Python state consistent").  With one slot this survives snapshots that fail,
\* are cancelled, given up or acknowledged too late, but for a call cancelled
\* in its recovery.  With more slots nothing is said once a call has failed: its
\* slot is not given back to next_slot, which then reaches that of a live entry.
IndexMatchesSlots ==
  /\ cap > 0 /\ stage[Startup] = "done" /\ lock = None /\ stdin = <<>> /\ alive
  /\ \A c \in Calls : stage[c] # "dropped" /\ (cap > 1 => stage[c] # "failed")
  => {<<k, slotOf[k]>> : k \in Cached} = {<<slots[s], s>> : s \in {t \in Slot : slots[t] # None}}

\* Whatever the daemon does, the server comes up or fails to, and every call of
\* a server that is up ends.
EveryCallEnds ==
  <>(/\ stage[Startup] \in Ended
     /\ stage[Startup] = "done" => \A c \in Calls : stage[c] \in Ended)
=============================================================================
