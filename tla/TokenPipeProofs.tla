-------------------------- MODULE TokenPipeProofs --------------------------
(***************************************************************************)
(* Theorems about TokenPipe, for any number of connections and all eight   *)
(* handlers.  With every fault: the pipe has one reader at a time while    *)
(* nobody leaves, what a request leaves in the temporary directory is      *)
(* known, and whoever waits for a sentinel gets one.  With clients that    *)
(* stay, no stop sequences and a daemon that lives: the servers implement  *)
(* Completions, and a generate command finds its weights.                  *)
(***************************************************************************)
EXTENDS TokenPipe, FiniteSetTheorems, SequenceTheorems, WellFoundedInduction, TLAPS

-----------------------------------------------------------------------------
(* The handlers                                                            *)

AllCalls == ServerCalls \cup ToolsCalls
Locking == {"lock", "lock2"}
Waiting == {"squeeze", "read", "scan", "collect"}

\* A handler about to run stage i of h has acquired the lock and not released it.
Locked(h, i) ==
  \E j \in 1..(i - 1) : h[j] \in Locking /\ \A k \in (j + 1)..(i - 1) : h[k] # "unlock"

\* What all handlers have in common: the last stage is "answer", right after
\* "unlink"; they begin with the lock, and wait for the daemon, or release the
\* lock, only while they have it.
Shaped(h) ==
  /\ 1 \in DOMAIN h /\ h[1] = "lock"
  /\ \A i \in DOMAIN h :
       /\ h[i] \in Waiting \cup {"unlock"} => Locked(h, i)
       /\ IF h[i] = "answer" THEN h[i - 1] = "unlink" ELSE i + 1 \in DOMAIN h
       /\ h[i] = "unlink" => h[i + 1] = "answer"
       /\ h[i] = "lock" => i = 1

\* The handlers of the tool server, which are put together from two parts.
LEMMA ToolsStages ==
  /\ /\ DOMAIN ToolsStream = 1..10
     /\ ToolsStream[1] = "lock" /\ ToolsStream[2] = "squeeze" /\ ToolsStream[3] = "unlock"
     /\ ToolsStream[4] = "check" /\ ToolsStream[5] = "lock2" /\ ToolsStream[6] = "send"
     /\ ToolsStream[7] = "head" /\ ToolsStream[8] = "scan" /\ ToolsStream[9] = "unlink"
     /\ ToolsStream[10] = "answer"
  /\ /\ DOMAIN ToolsCollect = 1..10
     /\ ToolsCollect[1] = "lock" /\ ToolsCollect[2] = "squeeze" /\ ToolsCollect[3] = "unlock"
     /\ ToolsCollect[4] = "check" /\ ToolsCollect[5] = "lock2" /\ ToolsCollect[6] = "send"
     /\ ToolsCollect[7] = "collect" /\ ToolsCollect[8] = "unlock" /\ ToolsCollect[9] = "unlink"
     /\ ToolsCollect[10] = "answer"
  /\ /\ DOMAIN ToolsMessagesStream = 1..10
     /\ ToolsMessagesStream[1] = "lock" /\ ToolsMessagesStream[2] = "squeeze"
     /\ ToolsMessagesStream[3] = "unlock"
     /\ ToolsMessagesStream[4] = "check" /\ ToolsMessagesStream[5] = "lock2"
     /\ ToolsMessagesStream[6] = "head"
     /\ ToolsMessagesStream[7] = "send" /\ ToolsMessagesStream[8] = "read"
     /\ ToolsMessagesStream[9] = "unlink"
     /\ ToolsMessagesStream[10] = "answer"
  /\ /\ DOMAIN ToolsMessagesCollect = 1..10
     /\ ToolsMessagesCollect[1] = "lock" /\ ToolsMessagesCollect[2] = "squeeze"
     /\ ToolsMessagesCollect[3] = "unlock"
     /\ ToolsMessagesCollect[4] = "check" /\ ToolsMessagesCollect[5] = "lock2"
     /\ ToolsMessagesCollect[6] = "send"
     /\ ToolsMessagesCollect[7] = "read" /\ ToolsMessagesCollect[8] = "unlock"
     /\ ToolsMessagesCollect[9] = "unlink"
     /\ ToolsMessagesCollect[10] = "answer"
<1>1. /\ DOMAIN ToolsStream = 1..10
      /\ ToolsStream[1] = "lock" /\ ToolsStream[2] = "squeeze" /\ ToolsStream[3] = "unlock"
      /\ ToolsStream[4] = "check" /\ ToolsStream[5] = "lock2" /\ ToolsStream[6] = "send"
      /\ ToolsStream[7] = "head" /\ ToolsStream[8] = "scan" /\ ToolsStream[9] = "unlink"
      /\ ToolsStream[10] = "answer"
  BY DEF ToolsStream, ToolsLookup
<1>2. /\ DOMAIN ToolsCollect = 1..10
      /\ ToolsCollect[1] = "lock" /\ ToolsCollect[2] = "squeeze" /\ ToolsCollect[3] = "unlock"
      /\ ToolsCollect[4] = "check" /\ ToolsCollect[5] = "lock2" /\ ToolsCollect[6] = "send"
      /\ ToolsCollect[7] = "collect" /\ ToolsCollect[8] = "unlock" /\ ToolsCollect[9] = "unlink"
      /\ ToolsCollect[10] = "answer"
  BY DEF ToolsCollect, ToolsLookup
<1>3. /\ DOMAIN ToolsMessagesStream = 1..10
      /\ ToolsMessagesStream[1] = "lock" /\ ToolsMessagesStream[2] = "squeeze"
      /\ ToolsMessagesStream[3] = "unlock"
      /\ ToolsMessagesStream[4] = "check" /\ ToolsMessagesStream[5] = "lock2"
      /\ ToolsMessagesStream[6] = "head"
      /\ ToolsMessagesStream[7] = "send" /\ ToolsMessagesStream[8] = "read"
      /\ ToolsMessagesStream[9] = "unlink"
      /\ ToolsMessagesStream[10] = "answer"
  BY DEF ToolsMessagesStream, ToolsMessagesLookup
<1>4. /\ DOMAIN ToolsMessagesCollect = 1..10
      /\ ToolsMessagesCollect[1] = "lock" /\ ToolsMessagesCollect[2] = "squeeze"
      /\ ToolsMessagesCollect[3] = "unlock"
      /\ ToolsMessagesCollect[4] = "check" /\ ToolsMessagesCollect[5] = "lock2"
      /\ ToolsMessagesCollect[6] = "send"
      /\ ToolsMessagesCollect[7] = "read" /\ ToolsMessagesCollect[8] = "unlock"
      /\ ToolsMessagesCollect[9] = "unlink"
      /\ ToolsMessagesCollect[10] = "answer"
  BY DEF ToolsMessagesCollect, ToolsMessagesLookup
<1>5. QED
  BY <1>1, <1>2, <1>3, <1>4

LEMMA HandlersShaped ==
  ASSUME NEW call \in AllCalls
  PROVE  Shaped(Handler(call)) /\ DOMAIN Handler(call) \subseteq Nat \ {0}
<1> USE DEF Shaped, Locked, Locking, Waiting
<1>1. Shaped(ChatStream) /\ DOMAIN ChatStream \subseteq Nat \ {0}
  BY DEF ChatStream
<1>2. Shaped(ChatCollect) /\ DOMAIN ChatCollect \subseteq Nat \ {0}
  BY DEF ChatCollect
<1>3. Shaped(MessagesStream) /\ DOMAIN MessagesStream \subseteq Nat \ {0}
  BY DEF MessagesStream
<1>4. Shaped(MessagesCollect) /\ DOMAIN MessagesCollect \subseteq Nat \ {0}
  BY DEF MessagesCollect
<1>5. Shaped(ToolsStream) /\ DOMAIN ToolsStream \subseteq Nat \ {0}
  BY ToolsStages
<1>6. Shaped(ToolsCollect) /\ DOMAIN ToolsCollect \subseteq Nat \ {0}
  BY ToolsStages
<1>7. Shaped(ToolsMessagesStream) /\ DOMAIN ToolsMessagesStream \subseteq Nat \ {0}
  BY ToolsStages
<1>8. Shaped(ToolsMessagesCollect) /\ DOMAIN ToolsMessagesCollect \subseteq Nat \ {0}
  BY ToolsStages
<1> HIDE DEF Shaped, Locked, Locking, Waiting
<1>9. QED
  BY <1>1, <1>2, <1>3, <1>4, <1>5, <1>6, <1>7, <1>8
     DEF AllCalls, ServerCalls, ToolsCalls, Handler

-----------------------------------------------------------------------------
(* Who holds the lock                                                      *)

Holding(c) == Locked(Handler(req[c].call), at[c])
Dancing(c) == Writing(c) \/ Draining(c)

Statuses == {"open", "done", "refused", "failed", "gone"}

\* Where the requests stand.
StageTypes ==
  /\ \A c \in Clients : req[c].call \in AllCalls
  /\ at \in [Clients -> Nat \ {0}]
  /\ \A c \in Clients : at[c] \in DOMAIN Handler(req[c].call)
  /\ status \in [Clients -> Statuses]
  /\ worker \in [Clients -> 0..Raised]
  /\ lock \in Clients \cup {None}

\* An open request between its acquisition and its release has daemon_lock, and
\* the worker thread of one that has not left works while its handler waits.
LockInv ==
  /\ StageTypes
  /\ \A c \in Clients : status[c] = "open" /\ Holding(c) => lock = c
  /\ \A c \in Clients : Dancing(c) => In(c, {"squeeze"}) \/ status[c] = "gone"

\* The dance is for a prompt that is to be compressed and was not found.
ThreadInv ==
  /\ hit \in [Clients -> BOOLEAN]
  /\ \A c \in Clients : /\ at[c] = 1 => worker[c] = 0
                        /\ worker[c] # 0 => ~hit[c] /\ Compresses(req[c])

\* A handler that is not at its end can advance, and gains the lock by no stage
\* but those that acquire it.
LEMMA AdvanceHolds ==
  ASSUME StageTypes, NEW c \in Clients, Stage(c) # "answer"
  PROVE  /\ at[c] + 1 \in DOMAIN Handler(req[c].call)
         /\ Stage(c) \notin Locking /\ Locked(Handler(req[c].call), at[c] + 1)
              => Holding(c) /\ Stage(c) # "unlock"
<1> DEFINE h == Handler(req[c].call)
<1>1. Shaped(h) /\ DOMAIN h \subseteq Nat \ {0} /\ at[c] \in DOMAIN h /\ h[at[c]] # "answer"
  BY HandlersShaped DEF StageTypes, Stage
<1>2. at[c] \in Nat \ {0} /\ at[c] + 1 \in DOMAIN h
  BY <1>1 DEF Shaped
<1>3. ASSUME h[at[c]] \notin Locking, Locked(h, at[c] + 1)
      PROVE  Locked(h, at[c]) /\ h[at[c]] # "unlock"
  <2>1. PICK j \in 1..at[c] : /\ h[j] \in Locking
                              /\ \A k \in (j + 1)..at[c] : h[k] # "unlock"
    BY <1>2, <1>3 DEF Locked
  <2>2. j \in 1..(at[c] - 1) /\ at[c] \in (j + 1)..at[c]
    BY <1>2, <1>3, <2>1
  <2>3. \A k \in (j + 1)..(at[c] - 1) : k \in (j + 1)..at[c]
    BY <1>2, <2>2
  <2>4. QED
    BY <2>1, <2>2, <2>3 DEF Locked
<1>4. QED
  BY <1>2, <1>3 DEF Stage, Holding

\* Stages that wait for the daemon or release the lock have it.
LEMMA WaitingHolds ==
  ASSUME StageTypes, NEW c \in Clients, Stage(c) \in Waiting \cup {"unlock"}
  PROVE  Holding(c)
BY HandlersShaped DEF StageTypes, Stage, Holding, Shaped

LEMMA SameThreads ==
  ASSUME UNCHANGED worker, NEW c \in Clients
  PROVE  Dancing(c)' <=> Dancing(c)
BY DEF Dancing, Writing, Draining

\* A step of one handler that leaves the others' variables alone.
LEMMA OneHandlerMoves ==
  ASSUME LockInv, NEW c \in Clients, UNCHANGED req,
         at' \in [Clients -> Nat \ {0}], status' \in [Clients -> Statuses],
         \A d \in Clients \ {c} : at'[d] = at[d] /\ status'[d] = status[d]
                                  /\ (Dancing(d)' => Dancing(d)),
         worker' \in [Clients -> 0..Raised],
         at'[c] \in DOMAIN Handler(req[c].call),
         lock' \in Clients \cup {None},
         status'[c] = "open" /\ Holding(c)' => lock' = c,
         Dancing(c)' => In(c, {"squeeze"})' \/ status'[c] = "gone",
         \A d \in Clients \ {c} : lock = d => lock' = d
  PROVE  LockInv'
<1>1. StageTypes'
  BY DEF LockInv, StageTypes
<1>2. \A d \in Clients \ {c} : /\ status'[d] = "open" /\ Holding(d)' => lock' = d
                               /\ Dancing(d)' => In(d, {"squeeze"})' \/ status'[d] = "gone"
  BY DEF LockInv, Holding, In, Stage
<1>3. QED
  BY <1>1, <1>2 DEF LockInv

\* A handler ends its stage and goes to the next.
LEMMA AdvanceLockInv ==
  ASSUME LockInv, NEW c \in Clients, status[c] = "open", Stage(c) # "answer", ~Dancing(c),
         Advance(c), UNCHANGED <<req, status, worker>>,
         \/ Stage(c) \in Locking /\ lock = None /\ lock' = c
         \/ Stage(c) = "unlock" /\ lock' = None
         \/ Stage(c) \notin Locking \cup {"unlock"} /\ lock' = lock
  PROVE  LockInv'
<1> USE DEF LockInv
<1>1. at' = [at EXCEPT ![c] = at[c] + 1] /\ at[c] \in Nat \ {0} /\ at' \in [Clients -> Nat \ {0}]
      /\ at'[c] = at[c] + 1
  BY DEF Advance, StageTypes
<1>2. at'[c] \in DOMAIN Handler(req[c].call)
  BY <1>1, AdvanceHolds
<1>3. Holding(c)' => lock' = c
  <2>1. Holding(c)' <=> Locked(Handler(req[c].call), at[c] + 1)
    BY <1>1 DEF Holding
  <2>2. CASE Stage(c) \in Locking /\ lock' = c
    BY <2>2
  <2>3. CASE Stage(c) = "unlock"
    BY <2>1, <2>3, AdvanceHolds DEF Locking
  <2>4. CASE Stage(c) \notin Locking \cup {"unlock"} /\ lock' = lock
    BY <2>1, <2>4, AdvanceHolds
  <2>5. QED
    BY <2>2, <2>3, <2>4
<1>4. Stage(c) = "unlock" => lock = c
  BY WaitingHolds
<1>5. lock' \in Clients \cup {None} /\ \A d \in Clients \ {c} : lock = d => lock' = d
  BY <1>4, NoneAssumption DEF StageTypes
<1>6. status' \in [Clients -> Statuses] /\ worker' \in [Clients -> 0..Raised]
      /\ \A d \in Clients : Dancing(d)' <=> Dancing(d)
  BY SameThreads DEF StageTypes
<1>7. QED
  BY <1>1, <1>2, <1>3, <1>5, <1>6, OneHandlerMoves

\* A request ends and gives up the lock if it has it.
LEMMA EndLockInv ==
  ASSUME LockInv, NEW c \in Clients, NEW how \in Statuses \ {"open"},
         End(c, how), lock' = Released(c), UNCHANGED <<req, at, worker>>,
         how = "gone" \/ ~Dancing(c)
  PROVE  LockInv'
<1> USE DEF LockInv
<1>1. status' = [status EXCEPT ![c] = how] /\ status'[c] = how
      /\ status' \in [Clients -> Statuses]
  BY DEF End, StageTypes, Statuses
<1>2. lock' \in Clients \cup {None} /\ \A d \in Clients \ {c} : lock = d => lock' = d
  BY DEF Released, StageTypes
<1>3. at' \in [Clients -> Nat \ {0}] /\ at'[c] \in DOMAIN Handler(req[c].call)
      /\ worker' \in [Clients -> 0..Raised] /\ \A d \in Clients : Dancing(d)' <=> Dancing(d)
  BY SameThreads DEF StageTypes
<1>4. QED
  BY <1>1, <1>2, <1>3, OneHandlerMoves

\* The worker thread of a request that waits for it, or has left, moves.
LEMMA WorkLockInv ==
  ASSUME LockInv, NEW c \in Clients, NEW w \in 0..Raised,
         worker' = [worker EXCEPT ![c] = w], UNCHANGED <<req, at, status, lock>>,
         In(c, {"squeeze"}) \/ status[c] = "gone"
  PROVE  LockInv'
<1> USE DEF LockInv
<1>1. worker' \in [Clients -> 0..Raised] /\ \A d \in Clients \ {c} : worker'[d] = worker[d]
  BY DEF StageTypes
<1>2. \A d \in Clients \ {c} : Dancing(d)' <=> Dancing(d)
  BY <1>1 DEF Dancing, Writing, Draining
<1>3. In(c, {"squeeze"})' <=> In(c, {"squeeze"})
  BY DEF In, Stage
<1>4. at' \in [Clients -> Nat \ {0}] /\ status' \in [Clients -> Statuses]
      /\ at'[c] \in DOMAIN Handler(req[c].call)
      /\ (status'[c] = "open" /\ Holding(c)' => lock' = c)
      /\ lock' \in Clients \cup {None}
  BY DEF StageTypes, Holding
<1>5. QED
  BY <1>1, <1>2, <1>3, <1>4, OneHandlerMoves

LEMMA SameLockInv ==
  ASSUME LockInv, UNCHANGED <<req, at, status, lock, worker>>
  PROVE  LockInv'
<1>1. StageTypes'
  BY DEF LockInv, StageTypes
<1>2. \A c \in Clients : Dancing(c)' <=> Dancing(c)
  BY SameThreads
<1>3. QED
  BY <1>1, <1>2 DEF LockInv, Holding, In, Stage

LEMMA NotDancing ==
  ASSUME LockInv, NEW c \in Clients, status[c] = "open", Stage(c) # "squeeze"
  PROVE  ~Dancing(c)
BY DEF LockInv, In

\* The dance has six commands.
LEMMA DanceLength == Returned = 13 /\ Raised = 14 /\ DOMAIN compress_text_via_daemon = 1..6
BY DEF Returned, Raised, compress_text_via_daemon

LEMMA DancingRange ==
  ASSUME NEW c \in Clients, worker[c] \in 0..Raised
  PROVE  /\ Writing(c) <=> worker[c] \in {1, 3, 5, 7, 9, 11}
         /\ Draining(c) <=> worker[c] \in {2, 4, 6, 8, 10, 12}
BY DanceLength DEF Writing, Draining

-----------------------------------------------------------------------------
(* Every step keeps it                                                     *)

LEMMA InitLockInv == Init => LockInv
<1> SUFFICES ASSUME Init PROVE LockInv
  OBVIOUS
<1>1. \A c \in Clients : req[c].call \in AllCalls
  <2>1. \A c \in Clients : req[c] \in ServerRequests \cup ToolServerRequests
    BY DEF Init
  <2>2. \A r \in ServerRequests \cup ToolServerRequests : r.call \in AllCalls
    BY DEF ServerRequests, ToolServerRequests, ChatRequests, MessagesRequests,
           ToolChatRequests, ToolMessagesRequests, Requests, AllCalls, ServerCalls, ToolsCalls
  <2>3. QED
    BY <2>1, <2>2
<1>2. StageTypes
  BY <1>1, HandlersShaped, DanceLength DEF Init, StageTypes, Statuses, Shaped
<1>3. \A c \in Clients : ~Holding(c) /\ ~Dancing(c)
  <2> SUFFICES ASSUME NEW c \in Clients PROVE ~Holding(c) /\ ~Dancing(c)
    OBVIOUS
  <2>1. at[c] = 1 /\ worker[c] = 0
    BY DEF Init
  <2>2. ~Holding(c)
    BY <2>1 DEF Holding, Locked
  <2>3. ~Dancing(c)
    BY <2>1, DancingRange, DanceLength DEF Dancing
  <2>4. QED
    BY <2>2, <2>3
<1>4. QED
  BY <1>2, <1>3 DEF LockInv

LEMMA HandleLockInv ==
  ASSUME LockInv, ThreadInv, NEW c \in Clients, Handle(c) \/ StopMatch(c)
  PROVE  LockInv'
<1> USE DEF Runs, In, threads
<1>1. CASE Lock(c)
  BY <1>1, NotDancing, AdvanceLockInv DEF Lock, Locking
<1>2. CASE SkipSqueeze(c) \/ (EndSqueeze(c) /\ worker[c] = Returned)
  <2>1. worker[c] \in {0, 13}
    BY <1>2, DanceLength DEF SkipSqueeze, ThreadInv
  <2>2. ~Dancing(c)
    BY <2>1, DancingRange, DanceLength DEF Dancing
  <2>3. QED
    BY <1>2, <2>2, AdvanceLockInv, DanceLength DEF SkipSqueeze, EndSqueeze, Locking
<1>3. CASE StartSqueeze(c)
  <2>1. PICK w \in {1, Raised} : worker' = [worker EXCEPT ![c] = w]
    BY <1>3 DEF StartSqueeze
  <2>2. w \in 0..Raised
    BY DanceLength
  <2>3. QED
    BY <1>3, <2>1, <2>2, WorkLockInv DEF StartSqueeze
<1>4. CASE EndSqueeze(c) /\ worker[c] = Raised
  <2>1. ~Dancing(c)
    BY <1>4, DancingRange, DanceLength DEF Dancing
  <2>2. QED
    BY <1>4, <2>1, EndLockInv, DanceLength DEF EndSqueeze, Statuses
<1>5. CASE Check(c)
  BY <1>5, NotDancing, AdvanceLockInv, EndLockInv DEF Check, Locking, Statuses
<1>6. CASE Send(c)
  BY <1>6, NotDancing, AdvanceLockInv, EndLockInv DEF Send, Locking, Statuses
<1>7. CASE Yield(c) \/ ReadEof(c) \/ Unlink(c) \/ StopMatch(c)
  BY <1>7, NotDancing, AdvanceLockInv DEF Yield, ReadEof, Unlink, StopMatch, Locking
<1>8. CASE Read(c)
  BY <1>8, NotDancing, AdvanceLockInv, SameLockInv DEF Read, Locking
<1>9. CASE Unlock(c)
  BY <1>9, NotDancing, AdvanceLockInv DEF Unlock
<1>10. CASE Answer(c)
  BY <1>10, NotDancing, EndLockInv DEF Answer, Statuses
<1>11. QED
  BY <1>1, <1>2, <1>3, <1>4, <1>5, <1>6, <1>7, <1>8, <1>9, <1>10
     DEF Handle, EndSqueeze

LEMMA WorkKeepsLockInv ==
  ASSUME LockInv, NEW c \in Clients, Work(c)
  PROVE  LockInv'
<1>1. Dancing(c) /\ worker[c] \in 0..Raised
  BY DEF Work, WorkerWrite, WorkerRead, Dancing, LockInv, StageTypes
<1>2. In(c, {"squeeze"}) \/ status[c] = "gone"
  BY <1>1 DEF LockInv
<1>3. worker[c] + 1 \in 0..Raised /\ Raised \in 0..Raised
  BY <1>1, DancingRange, DanceLength DEF Dancing
<1>4. \/ worker' = [worker EXCEPT ![c] = worker[c] + 1]
      \/ worker' = [worker EXCEPT ![c] = Raised]
      \/ worker' = worker
  BY DEF Work, WorkerWrite, WorkerRead
<1>5. UNCHANGED <<req, at, status, lock>>
  BY DEF Work, WorkerWrite, WorkerRead
<1>6. QED
  BY <1>2, <1>3, <1>4, <1>5, WorkLockInv, SameLockInv

\* Only compression, and the lookup before it, matter to ThreadInv.
LEMMA StageThreadInv ==
  ASSUME LockInv, ThreadInv, NEW c \in Clients, at' = at \/ Advance(c),
         UNCHANGED <<mode, req, hit, worker>>
  PROVE  ThreadInv'
<1>1. \A d \in Clients : at'[d] = 1 => at[d] = 1
  <2>1. at[c] \in Nat \ {0} /\ at \in [Clients -> Nat \ {0}]
    BY DEF LockInv, StageTypes
  <2>2. CASE Advance(c)
    BY <2>1, <2>2 DEF Advance
  <2>3. QED
    BY <2>2
<1>2. \A d \in Clients : Compresses(req[d])' <=> Compresses(req[d])
  BY DEF Compresses, _maybe_compress, _maybe_compress_tool_chat, _maybe_compress_anthropic,
         should_compress
<1>3. QED
  BY <1>1, <1>2 DEF ThreadInv

LEMMA WorkerThreadInv ==
  ASSUME LockInv, ThreadInv, NEW c \in Clients, NEW w \in Nat,
         worker' = [worker EXCEPT ![c] = w], UNCHANGED <<mode, req, at, hit>>,
         at[c] # 1, ~hit[c], Compresses(req[c])
  PROVE  ThreadInv'
<1>1. worker'[c] = w /\ \A d \in Clients \ {c} : worker'[d] = worker[d]
  BY DEF LockInv, StageTypes
<1>2. \A d \in Clients : Compresses(req[d])' <=> Compresses(req[d])
  BY DEF Compresses, _maybe_compress, _maybe_compress_tool_chat, _maybe_compress_anthropic,
         should_compress
<1>3. QED
  BY <1>1, <1>2 DEF ThreadInv

LEMMA LockThreadInv ==
  ASSUME LockInv, ThreadInv, NEW c \in Clients, Lock(c)
  PROVE  ThreadInv'
<1>1. at[c] \in Nat \ {0} /\ at' = [at EXCEPT ![c] = at[c] + 1] /\ at \in [Clients -> Nat \ {0}]
  BY DEF Lock, Advance, LockInv, StageTypes
<1>2. CASE hit' = hit
  BY <1>2, StageThreadInv DEF Lock, threads
<1>3. CASE Stage(c) = "lock" /\ hit' = [hit EXCEPT ![c] = TRUE]
  <2>1. at[c] = 1 /\ worker[c] = 0
    BY <1>3, HandlersShaped DEF LockInv, ThreadInv, StageTypes, Stage, Shaped
  <2>2. worker' = worker /\ req' = req /\ mode' = mode
    BY DEF Lock, threads
  <2>3. \A d \in Clients : Compresses(req[d])' <=> Compresses(req[d])
    BY <2>2 DEF Compresses, _maybe_compress, _maybe_compress_tool_chat,
                _maybe_compress_anthropic, should_compress
  <2>4. \A d \in Clients : at'[d] = 1 => at[d] = 1
    BY <1>1
  <2>5. hit' \in [Clients -> BOOLEAN] /\ \A d \in Clients \ {c} : hit'[d] = hit[d]
    BY <1>3 DEF ThreadInv
  <2>6. QED
    BY <2>1, <2>2, <2>3, <2>4, <2>5 DEF ThreadInv
<1>4. QED
  BY <1>2, <1>3 DEF Lock

LEMMA NextThreadInv == LockInv /\ ThreadInv /\ [Next]_vars => ThreadInv'
<1> SUFFICES ASSUME LockInv, ThreadInv, [Next]_vars PROVE ThreadInv'
  OBVIOUS
<1> USE DEF threads
<1>1. ASSUME NEW c \in Clients, Lock(c) PROVE ThreadInv'
  BY <1>1, LockThreadInv
<1>2. ASSUME NEW c \in Clients, StartSqueeze(c) PROVE ThreadInv'
  <2>1. at[c] # 1
    BY <1>2, HandlersShaped DEF StartSqueeze, Runs, In, LockInv, StageTypes, Stage, Shaped
  <2>2. PICK w \in {1, Raised} : worker' = [worker EXCEPT ![c] = w]
    BY <1>2 DEF StartSqueeze
  <2>3. w \in Nat
    BY DanceLength
  <2>4. QED
    BY <1>2, <2>1, <2>2, <2>3, WorkerThreadInv DEF StartSqueeze
<1>3. ASSUME NEW c \in Clients, Work(c) PROVE ThreadInv'
  <2>1. worker[c] \in 1..12
    BY <1>3, DancingRange DEF Work, WorkerWrite, WorkerRead, LockInv, StageTypes
  <2>2. at[c] # 1 /\ ~hit[c] /\ Compresses(req[c])
    BY <2>1 DEF ThreadInv
  <2>3. worker[c] + 1 \in Nat /\ Raised \in Nat
    BY <2>1, DanceLength
  <2>4. QED
    BY <1>3, <2>2, <2>3, WorkerThreadInv, StageThreadInv DEF Work, WorkerWrite, WorkerRead
<1>4. ASSUME NEW c \in Clients,
             \/ Handle(c) /\ ~Lock(c) /\ ~StartSqueeze(c)
             \/ StopMatch(c) \/ Leave(c)
      PROVE  ThreadInv'
  <2>1. (at' = at \/ Advance(c)) /\ UNCHANGED <<mode, req, hit, worker>>
    BY <1>4 DEF Handle, SkipSqueeze, EndSqueeze, Check, Send, Yield, Read, ReadEof, Unlink,
                Unlock, Answer, StopMatch, Leave
  <2>2. QED
    BY <2>1, StageThreadInv
<1>5. CASE StrayRead \/ Daemon \/ Die \/ Idle \/ UNCHANGED vars
  <2>1. UNCHANGED <<mode, req, at, hit, worker>>
    BY <1>5 DEF StrayRead, Daemon, Take, Park, Unpark, FreeDrafter, Compress, Generate,
                GenerateEnd, Die, Idle, vars, handlers
  <2>2. \A d \in Clients : Compresses(req[d])' <=> Compresses(req[d])
    BY <2>1 DEF Compresses, _maybe_compress, _maybe_compress_tool_chat,
                _maybe_compress_anthropic, should_compress
  <2>3. QED
    BY <2>1, <2>2 DEF ThreadInv
<1>6. QED
  BY <1>1, <1>2, <1>3, <1>4, <1>5 DEF Next

LEMMA NextLockInv == LockInv /\ ThreadInv /\ [Next]_vars => LockInv'
<1> SUFFICES ASSUME LockInv, ThreadInv, [Next]_vars PROVE LockInv'
  OBVIOUS
<1>1. ASSUME NEW c \in Clients, Handle(c) \/ StopMatch(c) PROVE LockInv'
  BY <1>1, HandleLockInv
<1>2. ASSUME NEW c \in Clients, Work(c) PROVE LockInv'
  BY <1>2, WorkKeepsLockInv
<1>3. ASSUME NEW c \in Clients, Leave(c) PROVE LockInv'
  BY <1>3, EndLockInv DEF Leave, Statuses
<1>4. CASE StrayRead \/ Daemon \/ Die \/ Idle \/ UNCHANGED vars
  <2>1. UNCHANGED <<req, at, status, lock, worker>>
    BY <1>4 DEF StrayRead, Daemon, Take, Park, Unpark, FreeDrafter, Compress, Generate,
                GenerateEnd, Die, Idle, vars, handlers, threads
  <2>2. QED
    BY <2>1, SameLockInv
<1>5. QED
  BY <1>1, <1>2, <1>3, <1>4 DEF Next

LEMMA AlwaysLockInv == Spec => [](LockInv /\ ThreadInv)
<1>1. Init => LockInv /\ ThreadInv
  BY InitLockInv DEF Init, ThreadInv
<1>2. LockInv /\ ThreadInv /\ [Next]_vars => (LockInv /\ ThreadInv)'
  BY NextLockInv, NextThreadInv
<1>3. QED
  BY <1>1, <1>2, PTL DEF Spec

\* "Caller holds the daemon lock for the full duration": while nobody has left,
\* at most one thread reads the pipe.
THEOREM PipeHasOneReader == Spec => []OneReader
<1>1. LockInv => OneReader
  <2> SUFFICES ASSUME LockInv, \A c \in Clients : status[c] # "gone"
               PROVE  Cardinality({c \in Clients :
                              Draining(c) \/ In(c, {"read", "scan", "collect"})}) <= 1
    BY DEF OneReader
  <2> DEFINE readers == {c \in Clients : Draining(c) \/ In(c, {"read", "scan", "collect"})}
  <2>1. \A c \in readers : In(c, Waiting)
    BY DEF LockInv, Dancing, In, Waiting
  <2>2. \A c \in readers : lock = c
    BY <2>1, WaitingHolds DEF LockInv, In
  <2>3. readers = {} \/ readers = {lock}
    BY <2>2
  <2>4. Cardinality(readers) \in {0, 1}
    BY <2>3, FS_EmptySet, FS_Singleton
  <2>5. QED
    BY <2>4
<1>2. QED
  BY <1>1, AlwaysLockInv, PTL

-----------------------------------------------------------------------------
(* Temporary files                                                         *)

FileNames == {"prompt", "ids", "squeezed"}

\* The handler has run "unlink", or the code like it that refuses a request and
\* that a cancelled token loop still runs.
Cleared(c) ==
  \/ status[c] = "refused"
  \/ /\ Stage(c) = "answer" \/ (status[c] = "gone" /\ Stage(c) \in {"read", "scan"})
     /\ ~(req[c].call = "tools_stream" /\ hit[c])

\* The files of a request: those of a dance while its thread runs, else at most
\* the one its generate command names.
FilesOf(c) ==
  IF Dancing(c) THEN {"prompt", "ids"}
  ELSE IF Cleared(c) THEN {}
  ELSE IF worker[c] = Returned THEN {"squeezed"} ELSE {"prompt"}

FileInvOf(c) ==
  /\ files[c] = FilesOf(c)
  /\ Dancing(c) => Stage(c) = "squeeze"
  /\ status[c] = "done" => Stage(c) = "answer"
  /\ status[c] = "failed" => Stage(c) \notin {"read", "scan"}
FileInv ==
  /\ files \in [Clients -> SUBSET FileNames]
  /\ \A c \in Clients : FileInvOf(c)

Inv == LockInv /\ ThreadInv /\ FileInv

LEMMA OneFileInv ==
  ASSUME Inv, NEW c \in Clients, req' = req,
         files' \in [Clients -> SUBSET FileNames], FileInvOf(c)',
         \A d \in Clients \ {c} :
           /\ at'[d] = at[d] /\ hit'[d] = hit[d] /\ status'[d] = status[d]
           /\ worker'[d] = worker[d] /\ files'[d] = files[d]
  PROVE  FileInv'
<1>1. ASSUME NEW d \in Clients \ {c} PROVE FileInvOf(d)'
  <2>1. FileInvOf(d)
    BY DEF Inv, FileInv
  <2>2. QED
    BY <2>1 DEF FileInvOf, FilesOf, Cleared, Stage, Dancing, Writing, Draining
<1>2. QED
  BY <1>1 DEF FileInv

\* A handler that is open and not waiting for the dance has no ids file, so what
\* it unlinks is all there is.
LEMMA UnlinkedIsAll ==
  ASSUME Inv, NEW c \in Clients, status[c] = "open", Stage(c) # "squeeze"
  PROVE  Unlinked(c) = {}
<1>1. ~Dancing(c) /\ (hit[c] => worker[c] = 0) /\ Returned # 0
  BY NotDancing, DanceLength DEF Inv, ThreadInv
<1>2. files[c] = {} \/ files[c] = {"prompt"} \/ (files[c] = {"squeezed"} /\ ~hit[c])
  BY <1>1 DEF Inv, FileInv, FileInvOf, FilesOf
<1>3. QED
  BY <1>2 DEF Unlinked

\* The streaming chat of the tool server has a token loop of its own.
LEMMA ScanIsToolsStream ==
  ASSUME LockInv, NEW c \in Clients
  PROVE  /\ Stage(c) = "scan" => req[c].call = "tools_stream"
         /\ Stage(c) = "read" => req[c].call # "tools_stream"
<1>1. req[c].call \in AllCalls /\ at[c] \in DOMAIN Handler(req[c].call)
  BY DEF LockInv, StageTypes
<1>2. /\ \A i \in DOMAIN ToolsStream : ToolsStream[i] # "read"
      /\ \A i \in DOMAIN ToolsCollect : ToolsCollect[i] # "scan"
      /\ \A i \in DOMAIN ToolsMessagesStream : ToolsMessagesStream[i] # "scan"
      /\ \A i \in DOMAIN ToolsMessagesCollect : ToolsMessagesCollect[i] # "scan"
  BY ToolsStages
<1>3. /\ \A i \in DOMAIN ChatStream : ChatStream[i] # "scan"
      /\ \A i \in DOMAIN ChatCollect : ChatCollect[i] # "scan"
  BY DEF ChatStream, ChatCollect
<1>4. /\ \A i \in DOMAIN MessagesStream : MessagesStream[i] # "scan"
      /\ \A i \in DOMAIN MessagesCollect : MessagesCollect[i] # "scan"
  BY DEF MessagesStream, MessagesCollect
<1>5. QED
  BY <1>1, <1>2, <1>3, <1>4 DEF Stage, AllCalls, ServerCalls, ToolsCalls, Handler

\* The stage before "answer" is "unlink", and no stage leads back to the first.
LEMMA NextStage ==
  ASSUME LockInv, NEW c \in Clients, Advance(c), req' = req, Stage(c) # "answer"
  PROVE  /\ at'[c] # 1 /\ \A d \in Clients \ {c} : at'[d] = at[d]
         /\ Stage(c)' = "answer" => Stage(c) = "unlink"
<1> DEFINE h == Handler(req[c].call)
<1>1. Shaped(h) /\ DOMAIN h \subseteq Nat \ {0} /\ at[c] \in DOMAIN h /\ h[at[c]] # "answer"
  BY HandlersShaped DEF LockInv, StageTypes, Stage
<1>2. at[c] \in Nat \ {0} /\ at[c] + 1 \in DOMAIN h
  BY <1>1 DEF Shaped
<1>3. at'[c] = at[c] + 1 /\ \A d \in Clients \ {c} : at'[d] = at[d]
  BY DEF Advance, LockInv, StageTypes
<1>4. h[at[c] + 1] = "answer" => h[at[c]] = "unlink"
  <2>1. h[at[c] + 1] = "answer" => h[at[c] + 1 - 1] = "unlink"
    BY <1>1, <1>2 DEF Shaped
  <2>2. at[c] + 1 - 1 = at[c]
    BY <1>2
  <2>3. QED
    BY <2>1, <2>2
<1>5. QED
  BY <1>2, <1>3, <1>4 DEF Stage

\* A stage that touches no file.
LEMMA StageFileInv ==
  ASSUME Inv, NEW c \in Clients, status[c] = "open", Advance(c), ~Dancing(c),
         Stage(c) \notin {"unlink", "answer"}, UNCHANGED <<req, status, worker, files>>,
         hit' = hit \/ hit' = [hit EXCEPT ![c] = TRUE]
  PROVE  FileInv'
<1>1. /\ \A d \in Clients \ {c} : at'[d] = at[d]
      /\ Stage(c)' # "answer"
  BY NextStage DEF Inv
<1>2. \A d \in Clients \ {c} : hit'[d] = hit[d]
  BY DEF Inv, ThreadInv
<1>3. ~Dancing(c)' /\ ~Cleared(c) /\ ~Cleared(c)'
  BY <1>1, SameThreads DEF Cleared
<1>4. FileInvOf(c)'
  BY <1>3 DEF FileInvOf, FilesOf, Inv, FileInv
<1>5. QED
  BY <1>1, <1>2, <1>4, OneFileInv DEF Inv, FileInv

\* A request ends: the code that refuses it and the `finally` of a token loop
\* unlink its files, no other end does.
LEMMA EndFileInv ==
  ASSUME Inv, NEW c \in Clients, status[c] = "open", NEW how \in Statuses \ {"open"},
         End(c, how), UNCHANGED <<req, at, hit, worker>>,
         IF \/ how = "refused"
            \/ how = "gone" /\ (Stage(c) = "read" \/ (Stage(c) = "scan" /\ ~hit[c]))
         THEN Stage(c) # "squeeze" /\ files' = [files EXCEPT ![c] = Unlinked(c)]
         ELSE files' = files,
         how = "done" => Stage(c) = "answer",
         how = "failed" => Stage(c) \notin {"read", "scan"}
  PROVE  FileInv'
<1>1. status'[c] = how /\ \A d \in Clients \ {c} : status'[d] = status[d]
  BY DEF End, Inv, LockInv, StageTypes
<1>2. Dancing(c)' <=> Dancing(c)
  BY SameThreads
<1>3. Stage(c)' = Stage(c)
  BY DEF Stage
<1>4. FileInvOf(c) /\ files \in [Clients -> SUBSET FileNames]
  BY DEF Inv, FileInv
<1>5. CASE \/ how = "refused"
           \/ how = "gone" /\ (Stage(c) = "read" \/ (Stage(c) = "scan" /\ ~hit[c]))
  <2>1. files' = [files EXCEPT ![c] = {}]
    BY <1>5, UnlinkedIsAll
  <2>2. Cleared(c)' /\ ~Dancing(c)'
    BY <1>1, <1>2, <1>3, <1>5, ScanIsToolsStream, NotDancing DEF Cleared, Inv
  <2>3. FileInvOf(c)'
    BY <1>1, <1>3, <1>4, <1>5, <2>1, <2>2 DEF FileInvOf, FilesOf
  <2>4. QED
    BY <1>1, <1>4, <2>1, <2>3, OneFileInv
<1>6. CASE ~(\/ how = "refused"
             \/ how = "gone" /\ (Stage(c) = "read" \/ (Stage(c) = "scan" /\ ~hit[c])))
  <2>1. files' = files
    BY <1>6
  <2>2. Cleared(c)' <=> Cleared(c)
    BY <1>1, <1>3, <1>6, ScanIsToolsStream DEF Cleared, Inv
  <2>3. FileInvOf(c)'
    BY <1>1, <1>2, <1>3, <1>4, <2>1, <2>2 DEF FileInvOf, FilesOf
  <2>4. QED
    BY <1>1, <1>4, <2>1, <2>3, OneFileInv
<1>7. QED
  BY <1>5, <1>6

\* A step of the dance: the ids file is there while it runs, and the compressed
\* prompt takes the place of the prompt when it returns.
LEMMA DanceFileInv ==
  ASSUME Inv, NEW c \in Clients, NEW w \in 0..Raised, NEW f \in SUBSET FileNames,
         worker' = [worker EXCEPT ![c] = w], files' = [files EXCEPT ![c] = f],
         UNCHANGED <<req, at, status, hit>>,
         Stage(c) = "squeeze", status[c] \in {"open", "gone"},
         IF Dancing(c)' THEN f = {"prompt", "ids"}
         ELSE f = IF w = Returned THEN {"squeezed"} ELSE {"prompt"}
  PROVE  FileInv'
<1>1. /\ files' \in [Clients -> SUBSET FileNames] /\ files'[c] = f /\ worker'[c] = w
      /\ \A d \in Clients \ {c} : files'[d] = files[d] /\ worker'[d] = worker[d]
  BY DEF Inv, FileInv, LockInv, StageTypes
<1>2. Stage(c)' = Stage(c) /\ ~Cleared(c)'
  BY DEF Stage, Cleared
<1>3. FileInvOf(c)'
  BY <1>1, <1>2 DEF FileInvOf, FilesOf
<1>4. QED
  BY <1>1, <1>3, OneFileInv

LEMMA SameFileInv ==
  ASSUME Inv, UNCHANGED <<req, at, status, hit, worker, files>>
  PROVE  FileInv'
BY DEF Inv, FileInv, FileInvOf, FilesOf, Cleared, Stage, Dancing, Writing, Draining

LEMMA HandleFileInv ==
  ASSUME Inv, NEW c \in Clients, Handle(c) \/ StopMatch(c)
  PROVE  FileInv'
<1> USE DEF Runs, In, threads
<1>1. CASE Lock(c)
  BY <1>1, StageFileInv, NotDancing DEF Lock, Inv
<1>2. CASE SkipSqueeze(c) \/ (EndSqueeze(c) /\ worker[c] = Returned)
  <2>1. worker[c] = 0 \/ worker[c] = Returned
    BY <1>2 DEF SkipSqueeze, Inv, ThreadInv
  <2>2. ~Dancing(c)
    BY <2>1, DancingRange, DanceLength DEF Dancing
  <2>3. QED
    BY <1>2, <2>2, StageFileInv, DanceLength DEF SkipSqueeze, EndSqueeze
<1>3. CASE StartSqueeze(c)
  <2>1. worker[c] = 0 /\ ~Dancing(c) /\ worker \in [Clients -> 0..Raised] /\ ~Cleared(c)
    BY <1>3, DancingRange, DanceLength DEF StartSqueeze, Dancing, Cleared, Inv, LockInv, StageTypes
  <2>2. files[c] = {"prompt"} /\ files \in [Clients -> SUBSET FileNames]
    BY <2>1, DanceLength DEF Inv, FileInv, FileInvOf, FilesOf
  <2>3. CASE req[c].text = "empty"
    <3>1. worker' = [worker EXCEPT ![c] = Raised] /\ files' = [files EXCEPT ![c] = {"prompt"}]
      BY <1>3, <2>2, <2>3 DEF StartSqueeze
    <3>2. Raised \in 0..Raised /\ Raised # Returned /\ worker'[c] = Raised
      BY <2>1, <3>1, DanceLength
    <3>3. ~Dancing(c)'
      BY <3>2, DanceLength DEF Dancing, Writing, Draining
    <3>4. QED
      BY <1>3, <3>1, <3>2, <3>3, DanceFileInv DEF StartSqueeze, FileNames
  <2>4. CASE req[c].text # "empty"
    <3>1. worker' = [worker EXCEPT ![c] = 1] /\ files' = [files EXCEPT ![c] = {"prompt", "ids"}]
      BY <1>3, <2>2, <2>4 DEF StartSqueeze
    <3>2. worker'[c] = 1 /\ 1 \in 0..Raised
      BY <2>1, <3>1, DanceLength
    <3>3. Dancing(c)'
      BY <3>2, DanceLength DEF Dancing, Writing
    <3>4. QED
      BY <1>3, <3>1, <3>2, <3>3, DanceFileInv DEF StartSqueeze, FileNames
  <2>5. QED
    BY <2>3, <2>4
<1>4. CASE EndSqueeze(c) /\ worker[c] = Raised
  BY <1>4, EndFileInv, DanceLength DEF EndSqueeze, Statuses
<1>5. CASE Check(c)
  BY <1>5, StageFileInv, EndFileInv, NotDancing DEF Check, Statuses, Inv
<1>6. CASE Send(c)
  BY <1>6, StageFileInv, EndFileInv, NotDancing DEF Send, Statuses, Inv
<1>7. CASE Yield(c) \/ ReadEof(c) \/ StopMatch(c) \/ Unlock(c)
  BY <1>7, StageFileInv, NotDancing DEF Yield, ReadEof, StopMatch, Unlock, Inv
<1>8. CASE Read(c)
  BY <1>8, StageFileInv, SameFileInv, NotDancing DEF Read, Inv
<1>9. CASE Unlink(c)
  <2>1. /\ \A d \in Clients \ {c} : at'[d] = at[d]
        /\ Unlinked(c) = {} /\ ~Dancing(c) /\ ~Dancing(c)' /\ ~Cleared(c)
        /\ Stage(c)' = "answer"
    <3>1. Stage(c)' = "answer"
      BY <1>9, HandlersShaped DEF Unlink, Advance, Stage, Inv, LockInv, StageTypes, Shaped
    <3>2. QED
      BY <1>9, <3>1, NextStage, UnlinkedIsAll, NotDancing, SameThreads DEF Unlink, Inv, Cleared
  <2>2. hit[c] => files[c] = {"prompt"}
    BY <2>1, DanceLength DEF Inv, ThreadInv, FileInv, FileInvOf, FilesOf
  <2>3. files' = [files EXCEPT ![c] = IF req[c].call = "tools_stream" /\ hit[c]
                                      THEN {"prompt"} ELSE {}]
    BY <1>9, <2>1, <2>2 DEF Unlink
  <2>4. /\ files' \in [Clients -> SUBSET FileNames]
        /\ files'[c] = IF req[c].call = "tools_stream" /\ hit[c] THEN {"prompt"} ELSE {}
        /\ \A d \in Clients \ {c} : files'[d] = files[d]
    BY <2>3 DEF Inv, FileInv, FileNames
  <2>5. FileInvOf(c)'
    BY <1>9, <2>1, <2>4, DanceLength
       DEF Unlink, FileInvOf, FilesOf, Cleared, Inv, ThreadInv
  <2>6. QED
    BY <1>9, <2>1, <2>4, <2>5, OneFileInv DEF Unlink
<1>10. CASE Answer(c)
  BY <1>10, EndFileInv DEF Answer, Statuses
<1>11. QED
  BY <1>1, <1>2, <1>3, <1>4, <1>5, <1>6, <1>7, <1>8, <1>9, <1>10
     DEF Handle, EndSqueeze

LEMMA WorkFileInv ==
  ASSUME Inv, NEW c \in Clients, Work(c)
  PROVE  FileInv'
<1>1. worker[c] \in 1..12 /\ worker \in [Clients -> 0..Raised] /\ Dancing(c)
  BY DancingRange DEF Work, WorkerWrite, WorkerRead, Inv, LockInv, StageTypes, Dancing
<1>2. /\ Stage(c) = "squeeze" /\ status[c] \in {"open", "gone"}
      /\ files[c] = {"prompt", "ids"} /\ files \in [Clients -> SUBSET FileNames]
  BY <1>1 DEF Inv, LockInv, FileInv, FileInvOf, FilesOf, In
<1>3. UNCHANGED <<req, at, status, hit>>
  BY DEF Work, WorkerWrite, WorkerRead
<1>4. CASE UNCHANGED <<worker, files>>
  BY <1>3, <1>4, SameFileInv
<1>5. CASE /\ worker' = [worker EXCEPT ![c] = Raised]
           /\ files' = [files EXCEPT ![c] = {"prompt"}]
  <2>1. worker'[c] = Raised /\ Raised \in 0..Raised /\ Raised # Returned
    BY <1>1, <1>5, DanceLength
  <2>2. ~Dancing(c)'
    BY <2>1, DanceLength DEF Dancing, Writing, Draining
  <2>3. QED
    BY <1>2, <1>3, <1>5, <2>1, <2>2, DanceFileInv DEF FileNames
<1>6. CASE worker' = [worker EXCEPT ![c] = worker[c] + 1] /\ worker[c] + 1 # Returned
           /\ files' = [files EXCEPT ![c] = {"prompt", "ids"}]
  <2>1. worker'[c] = worker[c] + 1 /\ worker[c] + 1 \in 2..12
    BY <1>1, <1>6, DanceLength
  <2>2. worker'[c] \in {1, 3, 5, 7, 9, 11} \/ worker'[c] \in {2, 4, 6, 8, 10, 12}
    BY <2>1
  <2>3. Dancing(c)'
    BY <2>2, DanceLength DEF Dancing, Writing, Draining
  <2>4. worker[c] + 1 \in 0..Raised
    BY <2>1, DanceLength
  <2>5. QED
    BY <1>2, <1>3, <1>6, <2>3, <2>4, DanceFileInv DEF FileNames
<1>7. CASE worker' = [worker EXCEPT ![c] = worker[c] + 1] /\ worker[c] + 1 = Returned
           /\ files' = [files EXCEPT ![c] = {"squeezed"}]
  <2>1. worker'[c] = Returned /\ worker[c] + 1 \in 0..Raised
    BY <1>1, <1>7, DanceLength
  <2>2. ~Dancing(c)'
    BY <2>1, DanceLength DEF Dancing, Writing, Draining
  <2>3. QED
    BY <1>2, <1>3, <1>7, <2>1, <2>2, DanceFileInv DEF FileNames
<1>8. CASE WorkerWrite(c)
  <2>1. worker[c] + 1 # Returned
    BY <1>1, <1>8, DancingRange, DanceLength DEF WorkerWrite
  <2>2. /\ files = [files EXCEPT ![c] = {"prompt", "ids"}]
        /\ files[c] \ {"ids"} = {"prompt"}
    BY <1>2
  <2>3. QED
    BY <1>5, <1>6, <1>8, <2>1, <2>2 DEF WorkerWrite, HookLeaves
<1>9. CASE WorkerRead(c)
  BY <1>2, <1>4, <1>6, <1>7, <1>9 DEF WorkerRead
<1>10. QED
  BY <1>8, <1>9 DEF Work

LEMMA NextFileInv == Inv /\ [Next]_vars => FileInv'
<1> SUFFICES ASSUME Inv, [Next]_vars PROVE FileInv'
  OBVIOUS
<1>1. ASSUME NEW c \in Clients, Handle(c) \/ StopMatch(c) PROVE FileInv'
  BY <1>1, HandleFileInv
<1>2. ASSUME NEW c \in Clients, Work(c) PROVE FileInv'
  BY <1>2, WorkFileInv
<1>3. ASSUME NEW c \in Clients, Leave(c) PROVE FileInv'
  <2>1. files = [files EXCEPT ![c] = files[c]]
    BY DEF Inv, FileInv
  <2>2. QED
    BY <1>3, <2>1, EndFileInv DEF Leave, Runs, In, Statuses
<1>4. CASE StrayRead \/ Daemon \/ Die \/ Idle \/ UNCHANGED vars
  <2>1. UNCHANGED <<req, at, status, hit, worker, files>>
    BY <1>4 DEF StrayRead, Daemon, Take, Park, Unpark, FreeDrafter, Compress, Generate,
                GenerateEnd, Die, Idle, vars, handlers, threads
  <2>2. QED
    BY <2>1, SameFileInv
<1>5. QED
  BY <1>1, <1>2, <1>3, <1>4 DEF Next

\* Whatever ends a request, what it leaves in the temporary directory is known:
\* nothing after code that unlinks, else the one prompt file its command would
\* have named, and never the ids once its thread is back.
THEOREM LeftFilesAreKnown == Spec => []FilesLeft
<1>1. Init => FileInv
  <2> SUFFICES ASSUME Init PROVE FileInv
    OBVIOUS
  <2>1. \A c \in Clients : /\ at[c] = 1 /\ files[c] = {"prompt"} /\ status[c] = "open"
                           /\ worker[c] = 0
    BY DEF Init
  <2>2. \A c \in Clients : Stage(c) # "answer"
    BY <2>1, InitLockInv, HandlersShaped DEF LockInv, StageTypes, Stage, Shaped
  <2>3. \A c \in Clients : ~Dancing(c) /\ ~Cleared(c) /\ worker[c] # Returned
    BY <2>1, <2>2, DancingRange, DanceLength DEF Dancing, Cleared
  <2>4. files \in [Clients -> SUBSET FileNames]
    BY DEF Init, FileNames
  <2>5. QED
    BY <2>1, <2>3, <2>4 DEF FileInv, FileInvOf, FilesOf
<1>2. Init => Inv
  BY <1>1, InitLockInv DEF Init, Inv, ThreadInv
<1>3. Inv /\ [Next]_vars => Inv'
  BY NextLockInv, NextThreadInv, NextFileInv DEF Inv
<1>4. Inv => FilesLeft
  <2> SUFFICES ASSUME Inv, NEW c \in Clients, status[c] # "open", ~Dancing(c)
               PROVE  files[c] = IF Unlinks(c) THEN {}
                                 ELSE IF worker[c] = Returned THEN {"squeezed"} ELSE {"prompt"}
    BY DEF FilesLeft, Dancing
  <2>1. FileInvOf(c) /\ status[c] \in Statuses
    BY DEF Inv, FileInv, LockInv, StageTypes
  <2>2. Unlinks(c) <=> Cleared(c)
    BY <2>1 DEF Unlinks, Cleared, FileInvOf, Statuses
  <2>3. QED
    BY <2>1, <2>2 DEF FileInvOf, FilesOf
<1>5. QED
  BY <1>2, <1>3, <1>4, PTL DEF Spec

-----------------------------------------------------------------------------
(* Servers that nobody disturbs                                            *)

\* No client leaves, no stop sequence matches, and the daemon lives.
Steady == Faults \cap {"leave", "stop", "die"} = {}

\* Weights that were parked can be loaded again.
Reloads == "reload" \notin Faults

Reads == {"read", "scan", "collect"}

\* A handler about to run stage i of h has one of these stages behind it.
Passed(h, i, stages) == \E j \in 1..(i - 1) : h[j] \in stages

\* In every handler the length of the prompt is checked, then the command is
\* sent, once, then its answer is read, once, all without giving up the lock.
Ordered(h) ==
  \A i \in DOMAIN h :
    /\ h[i] \in {"lock", "lock2", "squeeze", "check", "send"} => ~Passed(h, i, {"send"})
    /\ h[i] = "send" => Passed(h, i, {"check"}) /\ Locked(h, i)
    /\ h[i] \in Reads => Passed(h, i, {"send"}) /\ ~Passed(h, i, Reads)
    /\ Passed(h, i, {"send"}) /\ ~Passed(h, i, Reads) =>
         h[i] \in Reads \cup {"head"} /\ Locked(h, i)
    /\ Passed(h, i, Reads) => Passed(h, i, {"send"})
    /\ Passed(h, i, {"send"}) => Passed(h, i, {"check"})
    /\ h[i] = "answer" => Passed(h, i, Reads)

LEMMA HandlersOrdered ==
  ASSUME NEW call \in AllCalls
  PROVE  Ordered(Handler(call))
<1> USE DEF Ordered, Passed, Locked, Locking, Reads
<1>1. Ordered(ChatStream)
  BY DEF ChatStream
<1>2. Ordered(ChatCollect)
  BY DEF ChatCollect
<1>3. Ordered(MessagesStream)
  BY DEF MessagesStream
<1>4. Ordered(MessagesCollect)
  BY DEF MessagesCollect
<1>5. Ordered(ToolsStream)
  BY ToolsStages
<1>6. Ordered(ToolsCollect)
  BY ToolsStages
<1>7. Ordered(ToolsMessagesStream)
  BY ToolsStages
<1>8. Ordered(ToolsMessagesCollect)
  BY ToolsStages
<1> HIDE DEF Ordered, Passed, Locked, Locking, Reads
<1>9. QED
  BY <1>1, <1>2, <1>3, <1>4, <1>5, <1>6, <1>7, <1>8
     DEF AllCalls, ServerCalls, ToolsCalls, Handler

-----------------------------------------------------------------------------
(* The sequences of the pipe                                               *)

Items == [from : Clients, id : Int]

\* What is left of the tokens m after the first k, followed by e.
Rest(m, k, e) == SubSeq(m, k + 1, Len(m)) \o e

LEMMA RestProperties ==
  ASSUME NEW S, NEW m \in Seq(S), NEW k \in 0..Len(m), NEW e \in Seq(S)
  PROVE  /\ Rest(m, k, e) \in Seq(S)
         /\ Len(Rest(m, k, e)) = Len(m) - k + Len(e)
         /\ \A i \in 1..(Len(m) - k + Len(e)) :
              Rest(m, k, e)[i] = IF i <= Len(m) - k THEN m[k + i] ELSE e[i - (Len(m) - k)]
<1> DEFINE r == SubSeq(m, k + 1, Len(m))
<1>1. /\ Len(m) \in Nat /\ k \in Nat /\ Len(e) \in Nat
      /\ \A i \in (k + 1)..Len(m) : m[i] \in S
  BY LenProperties, ElementOfSeq
<1>2. /\ r \in Seq(S)
      /\ Len(r) = IF k + 1 <= Len(m) THEN Len(m) - (k + 1) + 1 ELSE 0
      /\ \A i \in 1..(Len(m) - (k + 1) + 1) : r[i] = m[k + 1 + i - 1]
  BY <1>1, SubSeqProperties
<1> HIDE DEF r
<1>3. Len(r) = Len(m) - k /\ \A i \in 1..(Len(m) - k) : r[i] = m[k + i]
  <2>1. PICK l \in Nat : l = Len(m)
    BY <1>1
  <2>2. k \in 0..l
    BY <2>1
  <2>3. Len(r) = l - k
    BY <1>1, <1>2, <2>1, <2>2
  <2>4. ASSUME NEW i \in 1..(l - k) PROVE r[i] = m[k + i]
    <3>1. i \in 1..(l - (k + 1) + 1) /\ k + 1 + i - 1 = k + i
      BY <1>1, <2>1, <2>2
    <3>2. QED
      BY <1>2, <2>1, <3>1
  <2>5. QED
    BY <2>1, <2>3, <2>4
<1>4. /\ r \o e \in Seq(S) /\ Len(r \o e) = Len(r) + Len(e)
      /\ \A i \in 1..(Len(r) + Len(e)) :
           (r \o e)[i] = IF i <= Len(r) THEN r[i] ELSE e[i - Len(r)]
  BY <1>2, ConcatProperties
<1>5. Rest(m, k, e) = r \o e
  BY DEF Rest, r
<1>6. Len(r) + Len(e) = Len(m) - k + Len(e)
  BY <1>3
<1>7. ASSUME NEW i \in 1..(Len(m) - k + Len(e))
      PROVE  (r \o e)[i] = IF i <= Len(m) - k THEN m[k + i] ELSE e[i - (Len(m) - k)]
  <2>1. (r \o e)[i] = IF i <= Len(m) - k THEN r[i] ELSE e[i - (Len(m) - k)]
    BY <1>3, <1>4, <1>6
  <2>2. i <= Len(m) - k => i \in 1..(Len(m) - k)
    BY <1>1
  <2>3. QED
    BY <1>3, <2>1, <2>2
<1>8. QED
  BY <1>4, <1>5, <1>6, <1>7

\* Reading one of the tokens.
LEMMA RestStep ==
  ASSUME NEW S, NEW m \in Seq(S), NEW k \in 0..Len(m), k < Len(m), NEW e \in Seq(S)
  PROVE  /\ Rest(m, k, e) # <<>>
         /\ Head(Rest(m, k, e)) = m[k + 1]
         /\ Tail(Rest(m, k, e)) = Rest(m, k + 1, e)
<1> DEFINE s == Rest(m, k, e)
           t == Rest(m, k + 1, e)
<1>1. Len(m) \in Nat /\ Len(e) \in Nat /\ k + 1 \in 0..Len(m)
  BY LenProperties
<1>2. /\ s \in Seq(S) /\ Len(s) = Len(m) - k + Len(e)
      /\ \A i \in 1..(Len(m) - k + Len(e)) :
           s[i] = IF i <= Len(m) - k THEN m[k + i] ELSE e[i - (Len(m) - k)]
  BY RestProperties
<1>3. /\ t \in Seq(S) /\ Len(t) = Len(m) - (k + 1) + Len(e)
      /\ \A i \in 1..(Len(m) - (k + 1) + Len(e)) :
           t[i] = IF i <= Len(m) - (k + 1) THEN m[k + 1 + i] ELSE e[i - (Len(m) - (k + 1))]
  BY <1>1, RestProperties
<1> HIDE DEF s, t
<1>4. s # <<>>
  BY <1>1, <1>2, EmptySeq
<1>5. Head(s) = m[k + 1]
  BY <1>1, <1>2, <1>4
<1>6. /\ Tail(s) \in Seq(S) /\ Len(Tail(s)) = Len(s) - 1
      /\ \A i \in 1..Len(Tail(s)) : Tail(s)[i] = s[i + 1]
  BY <1>2, <1>4, HeadTailProperties
<1>7. ASSUME NEW i \in 1..Len(Tail(s)) PROVE Tail(s)[i] = t[i]
  <2>1. i \in 1..(Len(m) - (k + 1) + Len(e)) /\ i + 1 \in 1..(Len(m) - k + Len(e))
    BY <1>1, <1>2, <1>6, SMTT(20)
  <2>2. Tail(s)[i] = IF i + 1 <= Len(m) - k THEN m[k + (i + 1)] ELSE e[i + 1 - (Len(m) - k)]
    BY <1>2, <1>6, <2>1
  <2>3. t[i] = IF i <= Len(m) - (k + 1) THEN m[k + 1 + i] ELSE e[i - (Len(m) - (k + 1))]
    BY <1>3, <2>1
  <2>4. /\ k + (i + 1) = k + 1 + i /\ i + 1 - (Len(m) - k) = i - (Len(m) - (k + 1))
        /\ i + 1 <= Len(m) - k <=> i <= Len(m) - (k + 1)
    BY <1>1, <2>1
  <2>5. QED
    BY <2>2, <2>3, <2>4
<1>8. Len(Tail(s)) = Len(t)
  BY <1>1, <1>2, <1>3, <1>6
<1>9. Tail(s) = t
  BY <1>3, <1>6, <1>7, <1>8, SeqEqual
<1>10. QED
  BY <1>4, <1>5, <1>9 DEF s, t

\* After the last of them.
LEMMA RestOver ==
  ASSUME NEW S, NEW m \in Seq(S), NEW e \in Seq(S)
  PROVE  Rest(m, Len(m), e) = e
<1>1. Len(m) \in Nat
  BY LenProperties
<1>2. SubSeq(m, Len(m) + 1, Len(m)) = <<>>
  BY <1>1, SubSeqEmpty
<1>3. Rest(m, Len(m), e) = <<>> \o e
  BY <1>2 DEF Rest
<1>4. <<>> \o e = e
  BY ConcatEmptySeq
<1>5. QED
  BY <1>3, <1>4

\* Writing after them, and writing one more.
LEMMA RestWritten ==
  ASSUME NEW S, NEW m \in Seq(S), NEW k \in 0..Len(m), NEW e \in Seq(S)
  PROVE  Rest(m, k, <<>>) \o e = Rest(m, k, e)
<1> DEFINE r == SubSeq(m, k + 1, Len(m))
<1>1. Len(m) \in Nat /\ \A i \in (k + 1)..Len(m) : m[i] \in S
  BY LenProperties, ElementOfSeq
<1>2. r \in Seq(S)
  BY <1>1, SubSeqProperties
<1> HIDE DEF r
<1>3. r \o <<>> = r
  BY <1>2, ConcatEmptySeq
<1>4. QED
  BY <1>3 DEF Rest, r

LEMMA RestGrown ==
  ASSUME NEW S, NEW m \in Seq(S), NEW k \in 0..Len(m), NEW x \in S
  PROVE  Rest(Append(m, x), k, <<>>) = Rest(m, k, <<>>) \o <<x>>
<1> DEFINE n == Append(m, x)
           z == <<>>
           s == Rest(n, k, z)
           e == <<x>>
           t == Rest(m, k, e)
<1>1. Len(m) \in Nat
  BY LenProperties
<1>2. e \in Seq(S) /\ Len(e) = 1 /\ e[1] = x
  OBVIOUS
<1>3. /\ n \in Seq(S) /\ Len(n) = Len(m) + 1 /\ n[Len(m) + 1] = x
      /\ \A i \in 1..Len(m) : n[i] = m[i]
  BY AppendProperties
<1>4. z \in Seq(S) /\ Len(z) = 0 /\ k \in 0..Len(n)
  BY <1>1, <1>3, EmptySeq
<1> HIDE DEF n, e, z
<1>5. /\ s \in Seq(S) /\ Len(s) = Len(n) - k + Len(z)
      /\ \A i \in 1..(Len(n) - k + Len(z)) :
           s[i] = IF i <= Len(n) - k THEN n[k + i] ELSE z[i - (Len(n) - k)]
  <2>1. n \in Seq(S) /\ z \in Seq(S) /\ k \in 0..Len(n)
    BY <1>3, <1>4
  <2>2. QED
    BY <2>1, RestProperties
<1>6. /\ t \in Seq(S) /\ Len(t) = Len(m) - k + Len(e)
      /\ \A i \in 1..(Len(m) - k + Len(e)) :
           t[i] = IF i <= Len(m) - k THEN m[k + i] ELSE e[i - (Len(m) - k)]
  <2>1. m \in Seq(S) /\ e \in Seq(S) /\ k \in 0..Len(m)
    BY <1>2
  <2> HIDE DEF t
  <2>2. t = Rest(m, k, e)
    BY DEF t
  <2>3. /\ Rest(m, k, e) \in Seq(S)
        /\ Len(Rest(m, k, e)) = Len(m) - k + Len(e)
    BY <2>1, RestProperties
  <2>4. \A i \in 1..(Len(m) - k + Len(e)) :
          Rest(m, k, e)[i] = IF i <= Len(m) - k THEN m[k + i] ELSE e[i - (Len(m) - k)]
    BY <2>1, RestProperties
  <2>5. QED
    BY <2>2, <2>3, <2>4
<1> HIDE DEF s, t
<1>7. Len(s) = Len(t) /\ Len(t) = Len(m) - k + 1
  BY <1>1, <1>2, <1>3, <1>4, <1>5, <1>6
<1>8. ASSUME NEW i \in 1..Len(s) PROVE s[i] = t[i]
  <2>1. /\ k \in Nat /\ i \in 1..(Len(m) - k + 1) /\ i \in 1..(Len(n) - k + Len(z))
        /\ i \in 1..(Len(m) - k + Len(e)) /\ i <= Len(n) - k
    BY <1>1, <1>2, <1>3, <1>4, <1>7
  <2>2. s[i] = n[k + i]
    BY <1>5, <2>1
  <2>3. t[i] = IF i <= Len(m) - k THEN m[k + i] ELSE e[i - (Len(m) - k)]
    BY <1>6, <2>1
  <2>4. CASE i <= Len(m) - k
    <3>1. k + i \in 1..Len(m)
      BY <1>1, <2>1, <2>4
    <3>2. QED
      BY <1>3, <2>2, <2>3, <2>4, <3>1
  <2>5. CASE i = Len(m) - k + 1
    <3>1. k + i = Len(m) + 1 /\ i - (Len(m) - k) = 1 /\ ~(i <= Len(m) - k)
      BY <1>1, <2>1, <2>5
    <3>2. QED
      BY <1>2, <1>3, <2>2, <2>3, <3>1
  <2>6. QED
    BY <1>1, <2>1, <2>4, <2>5
<1>9. s = t
  BY <1>5, <1>6, <1>7, <1>8, SeqEqual
<1>10. QED
  BY <1>2, <1>9, RestWritten DEF s, t, n, e, z

LEMMA TwoItems ==
  ASSUME NEW x, NEW y
  PROVE  <<x>> \o <<y>> = <<x, y>>
<1> DEFINE S == {x, y}
           a == <<x>>
           b == <<y>>
           t == <<x, y>>
<1>1. /\ a \in Seq(S) /\ Len(a) = 1 /\ a[1] = x
      /\ b \in Seq(S) /\ Len(b) = 1 /\ b[1] = y
  OBVIOUS
<1>2. t \in Seq(S) /\ Len(t) = 2 /\ t[1] = x /\ t[2] = y
  OBVIOUS
<1> HIDE DEF a, b, t
<1>3. /\ a \o b \in Seq(S) /\ Len(a \o b) = Len(a) + Len(b)
      /\ \A i \in 1..(Len(a) + Len(b)) :
           (a \o b)[i] = IF i <= Len(a) THEN a[i] ELSE b[i - Len(a)]
  BY <1>1, ConcatProperties
<1>4. Len(a \o b) = 2 /\ (a \o b)[1] = x /\ (a \o b)[2] = y
  BY <1>1, <1>3
<1>5. a \o b = t
  <2>1. \A i \in 1..Len(a \o b) : (a \o b)[i] = t[i]
    BY <1>2, <1>4
  <2>2. QED
    BY <1>2, <1>3, <1>4, <2>1, SeqEqual
<1>6. QED
  BY <1>5 DEF a, b, t

-----------------------------------------------------------------------------
(* What is under way for whom                                              *)

Behind(c, stages) == Passed(Handler(req[c].call), at[c], stages)
Asked(c) == Behind(c, {"send"})
Heard(c) == Behind(c, Reads)

\* The daemon owes c an answer to the command written last.
Owed(c) == Draining(c) \/ (Asked(c) /\ ~Heard(c))

Untold(c) == made[c] = <<>> /\ got[c] = <<>> /\ ~mute[c]

\* Of the first k tokens made for c, what is to be shown has been shown.
ShownOf(c, k) ==
  LET g == Len(got[c])
  IN  /\ g <= k /\ got[c] = SubSeq(made[c], 1, g)
      /\ g <= req[c].limit /\ \A j \in 1..g : made[c][j].id # StopId
      /\ IF mute[c] THEN g = req[c].limit \/ (g < k /\ made[c][g + 1].id = StopId)
         ELSE g = k /\ g < req[c].limit

\* The request c, by itself.
TokenInvOf(c) ==
  /\ ~req[c].stops /\ req[c].limit \in Nat
  /\ status[c] # "gone"
  /\ Asked(c) /\ ~Heard(c) => status[c] = "open"
  /\ Behind(c, {"check"}) => req[c].limit > 0
  /\ ~Asked(c) => Untold(c)
  /\ Heard(c) => ShownOf(c, Len(made[c]))
  /\ status[c] = "done" => Heard(c)

TokenInv ==
  /\ made \in [Clients -> Seq(Tokens)] /\ got \in [Clients -> Seq(Tokens)]
  /\ mute \in [Clients -> BOOLEAN]
  /\ alive /\ strays = 0
  /\ \A c \in Clients : TokenInvOf(c)

Line(c, k) ==
  [from |-> c, op |-> compress_text_via_daemon[k][1], arg |-> compress_text_via_daemon[k][2]]
Command(c) ==
  IF Draining(c) THEN Line(c, worker[c] \div 2)
  ELSE [from |-> c, op |-> "generate", arg |-> ""]

\* What is in the pipe of the answer to c: tokens, and then `end`.
Unread(c, end) ==
  IF Draining(c) THEN pipe = end \/ (end # <<>> /\ pipe = <<Item(c, 1), Head(end)>>)
  ELSE \E k \in 0..Len(made[c]) : pipe = Rest(made[c], k, end) /\ ShownOf(c, k)

\* The command of c is written, executed, or answered.
Written(c) == stdin = <<Command(c)>> /\ job = None /\ pipe = <<>> /\ (~Draining(c) => Untold(c))
Executed(c) == stdin = <<>> /\ job = Command(c) /\ Unread(c, <<>>)
Answered(c) == stdin = <<>> /\ job = None /\ Unread(c, <<Item(c, Sentinel)>>)

\* Everything on its way belongs to the one request that is owed an answer.
WireInv ==
  /\ (\A c \in Clients : ~Owed(c)) => stdin = <<>> /\ job = None /\ pipe = <<>>
  /\ \A c \in Clients : Owed(c) => Written(c) \/ Executed(c) \/ Answered(c)

RefInv == LockInv /\ ThreadInv /\ TokenInv /\ WireInv

\* Only the holder of the lock is owed an answer.
LEMMA OwedHolds ==
  ASSUME LockInv, TokenInv, NEW c \in Clients, Owed(c)
  PROVE  lock = c
<1>1. CASE Draining(c)
  <2>1. In(c, {"squeeze"})
    BY <1>1 DEF LockInv, Dancing, TokenInv, TokenInvOf
  <2>2. Holding(c)
    BY <2>1, WaitingHolds DEF LockInv, In, Waiting
  <2>3. QED
    BY <2>1, <2>2 DEF LockInv, In
<1>2. CASE Asked(c) /\ ~Heard(c)
  <2>1. Holding(c)
    BY <1>2, HandlersOrdered DEF Ordered, Asked, Heard, Behind, Holding, LockInv, StageTypes
  <2>2. QED
    BY <1>2, <2>1 DEF LockInv, TokenInv, TokenInvOf
<1>3. QED
  BY <1>1, <1>2 DEF Owed

\* A client in the middle of the dance has not asked for tokens.
LEMMA DrainingNotAsked ==
  ASSUME LockInv, TokenInv, NEW c \in Clients, Dancing(c)
  PROVE  ~Asked(c) /\ ~Heard(c) /\ In(c, {"squeeze"}) /\ lock = c
<1>1. In(c, {"squeeze"})
  BY DEF LockInv, TokenInv, TokenInvOf
<1>2. Holding(c)
  BY <1>1, WaitingHolds DEF LockInv, In, Waiting
<1>3. ~Asked(c) /\ ~Heard(c)
  BY <1>1, HandlersOrdered
     DEF Ordered, Asked, Heard, Behind, In, Stage, LockInv, StageTypes
<1>4. QED
  BY <1>1, <1>2, <1>3 DEF LockInv, In

\* What a handler has behind it after its next stage.
LEMMA PassedNext ==
  ASSUME LockInv, NEW c \in Clients, Advance(c), UNCHANGED req
  PROVE  /\ \A d \in Clients \ {c} : at'[d] = at[d]
         /\ \A stages : Behind(c, stages)' <=> Behind(c, stages) \/ Stage(c) \in stages
<1>1. at[c] \in Nat \ {0} /\ at'[c] = at[c] + 1 /\ \A d \in Clients \ {c} : at'[d] = at[d]
  BY DEF LockInv, StageTypes, Advance
<1>2. ASSUME NEW stages
      PROVE  Behind(c, stages)' <=> Behind(c, stages) \/ Stage(c) \in stages
  <2> DEFINE h == Handler(req[c].call)
  <2>1. Behind(c, stages)' <=> Passed(h, at[c] + 1, stages)
    BY <1>1 DEF Behind
  <2>2. 1..(at[c] + 1 - 1) = 1..(at[c] - 1) \cup {at[c]}
    BY <1>1
  <2>3. QED
    BY <2>1, <2>2 DEF Behind, Passed, Stage
<1>3. QED
  BY <1>1, <1>2

\* A stage that neither asks nor hears nor touches what is under way.
LEMMA SilentWireInv ==
  ASSUME LockInv, WireInv, UNCHANGED <<req, stdin, job, pipe, made, got, mute>>,
         \A d \in Clients :
           /\ Asked(d)' <=> Asked(d)
           /\ Heard(d)' <=> Heard(d)
           /\ Draining(d)' <=> Draining(d)
           /\ Draining(d) => worker'[d] = worker[d]
  PROVE  WireInv'
<1>1. \A d \in Clients : Owed(d)' <=> Owed(d)
  BY DEF Owed
<1>2. ASSUME NEW d \in Clients PROVE Command(d)' = Command(d)
  BY DEF Command, Line
<1>3. ASSUME NEW d \in Clients, NEW end PROVE Unread(d, end)' <=> Unread(d, end)
  BY DEF Unread, ShownOf
<1>4. ASSUME NEW d \in Clients
      PROVE  (Written(d) \/ Executed(d) \/ Answered(d))'
               <=> Written(d) \/ Executed(d) \/ Answered(d)
  <2>1. Written(d)' <=> Written(d)
    BY <1>2 DEF Written, Untold
  <2>2. Executed(d)' <=> Executed(d)
    BY <1>2, <1>3 DEF Executed
  <2>3. Answered(d)' <=> Answered(d)
    BY <1>3 DEF Answered
  <2>4. QED
    BY <2>1, <2>2, <2>3
<1>5. QED
  BY <1>1, <1>4 DEF WireInv

-----------------------------------------------------------------------------
(* Stages that send and read nothing                                       *)

LEMMA SameTokenInvOf ==
  ASSUME NEW d \in Clients, TokenInvOf(d), UNCHANGED req, at'[d] = at[d],
         status'[d] = status[d], made'[d] = made[d], got'[d] = got[d], mute'[d] = mute[d]
  PROVE  TokenInvOf(d)'
BY DEF TokenInvOf, Asked, Heard, Behind, Untold, ShownOf

LEMMA SameBehind ==
  ASSUME NEW d \in Clients, UNCHANGED req, at'[d] = at[d]
  PROVE  (Asked(d)' <=> Asked(d)) /\ (Heard(d)' <=> Heard(d))
BY DEF Asked, Heard, Behind

LEMMA SameDraining ==
  ASSUME NEW d \in Clients, worker'[d] = worker[d]
  PROVE  Draining(d)' <=> Draining(d)
BY DEF Draining

LEMMA AdvanceSilent ==
  ASSUME RefInv, NEW c \in Clients, status[c] = "open", Advance(c),
         UNCHANGED <<req, status, got, mute, made, strays, alive, stdin, job, pipe, worker>>,
         Stage(c) \notin {"send"} \cup Reads, Stage(c) = "check" => req[c].limit > 0
  PROVE  TokenInv' /\ WireInv'
<1>1. /\ \A d \in Clients \ {c} : at'[d] = at[d]
      /\ (Asked(c)' <=> Asked(c)) /\ (Heard(c)' <=> Heard(c))
      /\ Behind(c, {"check"})' <=> Behind(c, {"check"}) \/ Stage(c) = "check"
  BY PassedNext DEF RefInv, Asked, Heard
<1>2. TokenInvOf(c)'
  <2>1. TokenInvOf(c)
    BY DEF RefInv, TokenInv
  <2>2. Untold(c)' <=> Untold(c)
    BY DEF Untold
  <2>3. ShownOf(c, Len(made[c]))' <=> ShownOf(c, Len(made[c]))
    BY DEF ShownOf
  <2>4. QED
    BY <1>1, <2>1, <2>2, <2>3 DEF TokenInvOf
<1>3. \A d \in Clients \ {c} : TokenInvOf(d)'
  BY <1>1, SameTokenInvOf DEF RefInv, TokenInv
<1>4. TokenInv'
  BY <1>2, <1>3 DEF RefInv, TokenInv
<1>5. \A d \in Clients : /\ Asked(d)' <=> Asked(d)
                         /\ Heard(d)' <=> Heard(d)
                         /\ Draining(d)' <=> Draining(d)
                         /\ worker'[d] = worker[d]
  BY <1>1, SameBehind, SameDraining
<1>6. WireInv'
  BY <1>5, SilentWireInv DEF RefInv
<1>7. QED
  BY <1>4, <1>6

LEMMA EndSilent ==
  ASSUME RefInv, NEW c \in Clients, status[c] = "open",
         NEW how \in {"done", "refused", "failed"}, End(c, how),
         UNCHANGED <<req, at, got, mute, made, strays, alive, stdin, job, pipe, worker>>,
         how = "done" => Heard(c), Asked(c) => Heard(c)
  PROVE  TokenInv' /\ WireInv'
<1>1. status'[c] = how /\ \A d \in Clients \ {c} : status'[d] = status[d]
  BY DEF RefInv, LockInv, StageTypes, End
<1>2. \A d \in Clients : /\ Asked(d)' <=> Asked(d)
                         /\ Heard(d)' <=> Heard(d)
                         /\ Draining(d)' <=> Draining(d)
                         /\ worker'[d] = worker[d]
  BY SameBehind, SameDraining
<1>3. TokenInvOf(c)'
  <2>1. TokenInvOf(c)
    BY DEF RefInv, TokenInv
  <2>2. Untold(c)' <=> Untold(c)
    BY DEF Untold
  <2>3. ShownOf(c, Len(made[c]))' <=> ShownOf(c, Len(made[c]))
    BY DEF ShownOf
  <2>4. Behind(c, {"check"})' <=> Behind(c, {"check"})
    BY DEF Behind
  <2>5. QED
    BY <1>1, <1>2, <2>1, <2>2, <2>3, <2>4 DEF TokenInvOf
<1>4. \A d \in Clients \ {c} : TokenInvOf(d)'
  BY <1>1, SameTokenInvOf DEF RefInv, TokenInv
<1>5. TokenInv'
  BY <1>3, <1>4 DEF RefInv, TokenInv
<1>6. WireInv'
  BY <1>2, SilentWireInv DEF RefInv
<1>7. QED
  BY <1>5, <1>6

\* The thread of c starts or moves between two commands.
LEMMA StartRefInv ==
  ASSUME RefInv, NEW c \in Clients, StartSqueeze(c)
  PROVE  TokenInv' /\ WireInv'
<1>1. PICK w \in {1, Raised} : worker' = [worker EXCEPT ![c] = w]
  BY DEF StartSqueeze
<1>2. /\ worker[c] = 0 /\ worker'[c] = w /\ \A d \in Clients \ {c} : worker'[d] = worker[d]
      /\ worker[c] \in 0..Raised /\ worker'[c] \in 0..Raised
  BY <1>1, DanceLength DEF StartSqueeze, RefInv, LockInv, StageTypes
<1>3. ~Draining(c) /\ ~Draining(c)'
  BY <1>2, DanceLength DEF Draining
<1>4. UNCHANGED <<req, at, status, got, mute, made, strays, alive, stdin, job, pipe>>
  BY DEF StartSqueeze, daemon
<1>5. TokenInv'
  BY <1>4, SameTokenInvOf DEF RefInv, TokenInv
<1>6. \A d \in Clients : /\ Asked(d)' <=> Asked(d)
                         /\ Heard(d)' <=> Heard(d)
                         /\ Draining(d)' <=> Draining(d)
                         /\ Draining(d) => worker'[d] = worker[d]
  BY <1>2, <1>3, <1>4, SameBehind, SameDraining
<1>7. WireInv'
  BY <1>4, <1>6, SilentWireInv DEF RefInv
<1>8. QED
  BY <1>5, <1>7

\* What is known of a handler at a stage.
LEMMA AtStage ==
  ASSUME LockInv, NEW c \in Clients
  PROVE  /\ Stage(c) \in {"lock", "lock2", "squeeze", "check", "send"} => ~Asked(c) /\ ~Heard(c)
         /\ Stage(c) = "send" => Behind(c, {"check"}) /\ Holding(c)
         /\ Stage(c) \in Reads => Asked(c) /\ ~Heard(c)
         /\ Asked(c) /\ ~Heard(c) => Stage(c) \in Reads \cup {"head"}
         /\ Asked(c) => Behind(c, {"check"})
         /\ Stage(c) = "answer" => Heard(c)
BY HandlersOrdered
   DEF Ordered, Asked, Heard, Behind, Holding, Stage, LockInv, StageTypes

LEMMA SilentStages ==
  ASSUME RefInv, NEW c \in Clients,
         \/ Lock(c) \/ SkipSqueeze(c) \/ StartSqueeze(c) \/ EndSqueeze(c) \/ Check(c)
         \/ Yield(c) \/ Unlink(c) \/ Unlock(c) \/ Answer(c)
  PROVE  TokenInv' /\ WireInv'
<1> USE DEF Runs, In, threads, daemon
<1>1. CASE Lock(c) \/ SkipSqueeze(c) \/ Yield(c) \/ Unlink(c) \/ Unlock(c)
  <2>1. Stage(c) \notin {"send", "check"} \cup Reads /\ status[c] = "open" /\ Advance(c)
    BY <1>1 DEF Lock, SkipSqueeze, Yield, Unlink, Unlock, Reads
  <2>2. UNCHANGED <<req, status, got, mute, made, strays, alive, stdin, job, pipe, worker>>
    BY <1>1 DEF Lock, SkipSqueeze, Yield, Unlink, Unlock
  <2>3. QED
    BY <2>1, <2>2, AdvanceSilent
<1>2. CASE StartSqueeze(c)
  BY <1>2, StartRefInv
<1>3. CASE EndSqueeze(c)
  <2>1. /\ Stage(c) = "squeeze" /\ status[c] = "open"
        /\ UNCHANGED <<req, got, mute, made, strays, alive, stdin, job, pipe, worker>>
        /\ (Advance(c) /\ status' = status) \/ (End(c, "failed") /\ at' = at)
    BY <1>3 DEF EndSqueeze
  <2>2. ~Asked(c)
    BY <2>1, AtStage DEF RefInv
  <2>3. QED
    BY <2>1, <2>2, AdvanceSilent, EndSilent DEF Reads
<1>4. CASE Check(c)
  <2>1. /\ Stage(c) = "check" /\ status[c] = "open"
        /\ UNCHANGED <<req, got, mute, made, strays, alive, stdin, job, pipe, worker>>
        /\ \/ req[c].limit > 0 /\ Advance(c) /\ status' = status
           \/ End(c, "refused") /\ at' = at
    BY <1>4 DEF Check
  <2>2. ~Asked(c)
    BY <2>1, AtStage DEF RefInv
  <2>3. QED
    BY <2>1, <2>2, AdvanceSilent, EndSilent DEF Reads
<1>5. CASE Answer(c)
  <2>1. /\ Stage(c) = "answer" /\ status[c] = "open" /\ End(c, "done")
        /\ UNCHANGED <<req, at, got, mute, made, strays, alive, stdin, job, pipe, worker>>
    BY <1>5 DEF Answer
  <2>2. Heard(c)
    BY <2>1, AtStage DEF RefInv
  <2>3. QED
    BY <2>1, <2>2, EndSilent
<1>6. QED
  BY <1>1, <1>2, <1>3, <1>4, <1>5

-----------------------------------------------------------------------------
(* Writing a command                                                       *)

LEMMA OnlyHolderOwed ==
  ASSUME RefInv, NEW c \in Clients, lock = c
  PROVE  /\ \A d \in Clients \ {c} : ~Owed(d)
         /\ ~Owed(c) => stdin = <<>> /\ job = None /\ pipe = <<>>
<1>1. \A d \in Clients \ {c} : ~Owed(d)
  BY OwedHolds DEF RefInv
<1>2. QED
  BY <1>1 DEF RefInv, WireInv

LEMMA OwnWireInv ==
  ASSUME NEW c \in Clients, \A d \in Clients \ {c} : ~Owed(d)',
         Owed(c)' => (Written(c) \/ Executed(c) \/ Answered(c))',
         ~Owed(c)' => stdin' = <<>> /\ job' = None /\ pipe' = <<>>
  PROVE  WireInv'
BY DEF WireInv

LEMMA SendRefInv ==
  ASSUME RefInv, NEW c \in Clients, Send(c)
  PROVE  TokenInv' /\ WireInv'
<1>1. /\ Stage(c) = "send" /\ status[c] = "open" /\ alive
      /\ stdin' = Append(stdin, [from |-> c, op |-> "generate", arg |-> ""])
      /\ Advance(c)
      /\ UNCHANGED <<req, status, got, mute, worker, strays, pipe, job, made, alive>>
  BY DEF Send, Runs, In, RefInv, TokenInv, threads, daemon
<1>2. /\ ~Asked(c) /\ ~Heard(c) /\ lock = c /\ Behind(c, {"check"}) /\ ~Draining(c)
  BY <1>1, AtStage, NotDancing DEF RefInv, LockInv, Dancing
<1>3. (\A d \in Clients \ {c} : ~Owed(d)) /\ stdin = <<>> /\ job = None /\ pipe = <<>>
  BY <1>2, OnlyHolderOwed DEF Owed
<1>4. /\ \A d \in Clients \ {c} : at'[d] = at[d]
      /\ Asked(c)' /\ ~Heard(c)' /\ (Behind(c, {"check"})' <=> Behind(c, {"check"}))
  BY <1>1, <1>2, PassedNext DEF RefInv, Asked, Heard, Reads
<1>5. \A d \in Clients : Draining(d)' <=> Draining(d)
  BY <1>1, SameDraining
<1>6. Untold(c) /\ Untold(c)'
  BY <1>1, <1>2 DEF RefInv, TokenInv, TokenInvOf, Untold
<1>7. TokenInv'
  <2>1. TokenInvOf(c)'
    BY <1>1, <1>2, <1>4, <1>6 DEF RefInv, TokenInv, TokenInvOf
  <2>2. \A d \in Clients \ {c} : TokenInvOf(d)'
    BY <1>1, <1>4, SameTokenInvOf DEF RefInv, TokenInv
  <2>3. QED
    BY <1>1, <2>1, <2>2 DEF RefInv, TokenInv
<1>8. \A d \in Clients \ {c} : ~Owed(d)'
  BY <1>1, <1>3, <1>4, <1>5, SameBehind DEF Owed
<1>9. Written(c)' /\ Owed(c)'
  <2>1. ~Draining(c)'
    BY <1>2, <1>5
  <2>2. stdin' = <<[from |-> c, op |-> "generate", arg |-> ""]>>
    <3> DEFINE x == [from |-> c, op |-> "generate", arg |-> ""]
    <3>1. stdin' = Append(<<>>, x)
      BY <1>1, <1>3
    <3> HIDE DEF x
    <3>2. stdin' = <<x>>
      BY <3>1
    <3>3. QED
      BY <3>2 DEF x
  <2>3. QED
    BY <1>1, <1>3, <1>4, <1>6, <2>1, <2>2 DEF Written, Command, Owed
<1>10. QED
  BY <1>7, <1>8, <1>9, OwnWireInv

LEMMA WriteRefInv ==
  ASSUME RefInv, NEW c \in Clients, WorkerWrite(c)
  PROVE  TokenInv' /\ WireInv'
<1>1. /\ Writing(c) /\ Dancing(c) /\ worker[c] \in {1, 3, 5, 7, 9, 11}
      /\ worker \in [Clients -> 0..Raised]
  BY DancingRange DEF WorkerWrite, RefInv, LockInv, StageTypes, Dancing
<1>2. /\ stdin' = Append(stdin, Line(c, (worker[c] + 1) \div 2))
      /\ worker' = [worker EXCEPT ![c] = worker[c] + 1]
      /\ UNCHANGED <<req, at, status, got, mute, strays, pipe, job, made, alive>>
  BY DEF WorkerWrite, RefInv, TokenInv, daemon, Line
<1>3. ~Asked(c) /\ ~Heard(c) /\ lock = c
  BY <1>1, DrainingNotAsked DEF RefInv
<1>4. /\ worker'[c] = worker[c] + 1 /\ worker'[c] \in {2, 4, 6, 8, 10, 12}
      /\ \A d \in Clients \ {c} : worker'[d] = worker[d]
  BY <1>1, <1>2
<1>5. ~Draining(c) /\ Draining(c)'
  <2>1. ~Draining(c)
    BY <1>1, DancingRange, DanceLength
  <2>2. Draining(c)'
    BY <1>4, DanceLength DEF Draining
  <2>3. QED
    BY <2>1, <2>2
<1>6. (\A d \in Clients \ {c} : ~Owed(d)) /\ stdin = <<>> /\ job = None /\ pipe = <<>>
  BY <1>3, <1>5, OnlyHolderOwed DEF Owed
<1>7. TokenInv'
  BY <1>2, SameTokenInvOf DEF RefInv, TokenInv
<1>8. \A d \in Clients \ {c} : ~Owed(d)'
  BY <1>2, <1>4, <1>6, SameBehind, SameDraining DEF Owed
<1>9. Written(c)' /\ Owed(c)'
  <2>1. Command(c)' = Line(c, (worker[c] + 1) \div 2)
    BY <1>4, <1>5 DEF Command, Line
  <2>2. stdin' = <<Line(c, (worker[c] + 1) \div 2)>>
    BY <1>2, <1>6
  <2>3. QED
    BY <1>2, <1>5, <1>6, <2>1, <2>2 DEF Written, Owed
<1>10. QED
  BY <1>7, <1>8, <1>9, OwnWireInv

-----------------------------------------------------------------------------
(* Reading an answer                                                       *)

\* The answer to a command of the dance.
LEMMA AtWorkerRead ==
  ASSUME RefInv, NEW c \in Clients, WorkerRead(c)
  PROVE  /\ ~Asked(c) /\ ~Heard(c) /\ lock = c /\ Owed(c)
         /\ \A d \in Clients \ {c} : ~Owed(d)
         /\ stdin = <<>> /\ job = None
         /\ pipe = <<Item(c, Sentinel)>> \/ pipe = <<Item(c, 1), Item(c, Sentinel)>>
<1> DEFINE end == <<Item(c, Sentinel)>>
<1>1. /\ Draining(c) /\ Dancing(c) /\ worker[c] \in {2, 4, 6, 8, 10, 12}
      /\ worker \in [Clients -> 0..Raised] /\ pipe # <<>>
      /\ pipe' = Tail(pipe)
      /\ UNCHANGED <<req, at, status, got, mute, strays, stdin, job, made, alive>>
  BY DancingRange DEF WorkerRead, RefInv, LockInv, StageTypes, Dancing, TokenInv, daemon
<1>2. ~Asked(c) /\ ~Heard(c) /\ lock = c /\ Owed(c)
  BY <1>1, DrainingNotAsked DEF RefInv, Owed
<1>3. \A d \in Clients \ {c} : ~Owed(d)
  BY <1>2, OnlyHolderOwed
<1>4. stdin = <<>> /\ job = None /\ (pipe = end \/ pipe = <<Item(c, 1), Item(c, Sentinel)>>)
  <2>1. Written(c) \/ Executed(c) \/ Answered(c)
    BY <1>2 DEF RefInv, WireInv
  <2>2. ~Written(c) /\ ~Executed(c)
    BY <1>1 DEF Written, Executed, Unread
  <2>3. stdin = <<>> /\ job = None /\ Unread(c, end)
    BY <2>1, <2>2 DEF Answered
  <2>4. pipe = end \/ pipe = <<Item(c, 1), Head(end)>>
    BY <1>1, <2>3 DEF Unread
  <2>5. Head(end) = Item(c, Sentinel)
    OBVIOUS
  <2>6. QED
    BY <2>3, <2>4, <2>5
<1>5. QED
  BY <1>2, <1>3, <1>4

LEMMA WorkerReadRefInv ==
  ASSUME RefInv, NEW c \in Clients, WorkerRead(c)
  PROVE  TokenInv' /\ WireInv'
<1> DEFINE end == <<Item(c, Sentinel)>>
<1>1. /\ Draining(c) /\ Dancing(c) /\ worker[c] \in {2, 4, 6, 8, 10, 12}
      /\ worker \in [Clients -> 0..Raised] /\ pipe # <<>>
      /\ pipe' = Tail(pipe)
      /\ UNCHANGED <<req, at, status, got, mute, strays, stdin, job, made, alive>>
  BY DancingRange DEF WorkerRead, RefInv, LockInv, StageTypes, Dancing, TokenInv, daemon
<1>2. ~Asked(c) /\ ~Heard(c) /\ lock = c /\ Owed(c)
  BY AtWorkerRead
<1>3. \A d \in Clients \ {c} : ~Owed(d)
  BY AtWorkerRead
<1>4. stdin = <<>> /\ job = None /\ (pipe = end \/ pipe = <<Item(c, 1), Item(c, Sentinel)>>)
  BY AtWorkerRead
<1>5. TokenInv'
  BY <1>1, SameTokenInvOf DEF RefInv, TokenInv
<1>6. ASSUME \A d \in Clients \ {c} : worker'[d] = worker[d]
      PROVE  \A d \in Clients \ {c} : ~Owed(d)'
  BY <1>1, <1>3, <1>6, SameBehind, SameDraining DEF Owed
<1>7. CASE pipe = end
  <2>1. Head(pipe).id = Sentinel /\ pipe' = <<>>
    BY <1>1, <1>7 DEF Item
  <2>2. worker' = [worker EXCEPT ![c] = worker[c] + 1]
    BY <2>1 DEF WorkerRead
  <2>3. worker'[c] = worker[c] + 1 /\ \A d \in Clients \ {c} : worker'[d] = worker[d]
    BY <1>1, <2>2
  <2>4. ~Draining(c)'
    BY <1>1, <2>3, DanceLength DEF Draining
  <2>5. ~Owed(c)'
    BY <1>1, <1>2, <2>4, SameBehind DEF Owed
  <2>6. QED
    BY <1>1, <1>4, <1>5, <1>6, <2>1, <2>3, <2>5, OwnWireInv
<1>8. CASE pipe = <<Item(c, 1), Item(c, Sentinel)>>
  <2>2. Head(pipe).id # Sentinel /\ pipe' = end
    BY <1>1, <1>8 DEF Item, Sentinel
  <2>3. worker' = worker
    BY <1>1, <2>2 DEF WorkerRead
  <2>4. Draining(c)'
    BY <1>1, <2>3, SameDraining
  <2>5. Answered(c)' /\ Owed(c)'
    BY <1>1, <1>4, <2>2, <2>4 DEF Answered, Unread, Owed
  <2>6. QED
    BY <1>5, <1>6, <2>3, <2>5, OwnWireInv
<1>9. QED
  BY <1>4, <1>7, <1>8


LEMMA SubSeqGrown ==
  ASSUME NEW S, NEW m \in Seq(S), NEW k \in 0..Len(m), k < Len(m)
  PROVE  Append(SubSeq(m, 1, k), m[k + 1]) = SubSeq(m, 1, k + 1)
<1>1. Len(m) \in Nat /\ 1 \in 1..Len(m) /\ k + 1 \in 1..Len(m)
  BY LenProperties
<1>2. SubSeq(m, 1, k + 1) = SubSeq(m, 1, k + 1 - 1) \o <<m[k + 1]>>
  BY <1>1, SubSeqRecursiveSecond
<1>3. SubSeq(m, 1, k) \in Seq(S) /\ m[k + 1] \in S
  BY <1>1, ElementOfSeq, SubSeqProperties
<1>4. Append(SubSeq(m, 1, k), m[k + 1]) = SubSeq(m, 1, k) \o <<m[k + 1]>>
  BY <1>3, AppendIsConcat
<1>5. QED
  BY <1>1, <1>2, <1>4

\* A token loop shows what it is to show of the next token.
LEMMA ShownStep ==
  ASSUME RefInv, NEW c \in Clients, Read(c), NEW k \in 0..Len(made[c]), k < Len(made[c]),
         ShownOf(c, k), Head(pipe) = made[c][k + 1]
  PROVE  ShownOf(c, k + 1)' /\ got' \in [Clients -> Seq(Tokens)]
<1> DEFINE m == made[c]
           g == Len(got[c])
           x == m[k + 1]
<1>1. /\ m \in Seq(Tokens) /\ got[c] \in Seq(Tokens) /\ mute[c] \in BOOLEAN
      /\ got \in [Clients -> Seq(Tokens)] /\ mute \in [Clients -> BOOLEAN]
      /\ req[c].limit \in Nat
  BY DEF RefInv, TokenInv, TokenInvOf
<1>2. Len(m) \in Nat /\ k \in Nat /\ g \in Nat /\ x \in Tokens /\ k + 1 \in 1..Len(m)
  BY <1>1, LenProperties, ElementOfSeq
<1>3. x.id # Sentinel
  BY <1>2, BoundAssumption DEF Tokens, Sentinel
<1>4. /\ Head(pipe) = x /\ made' = made /\ req' = req
      /\ got' = IF Shown(c) THEN [got EXCEPT ![c] = Append(@, x)] ELSE got
      /\ mute' = [mute EXCEPT ![c] = @ \/ Muted(c)]
  BY DEF Read, daemon
<1>5. /\ Shown(c) <=> x.id # StopId /\ ~mute[c]
      /\ Muted(c) <=> x.id = StopId \/ (Shown(c) /\ g + 1 >= req[c].limit)
  BY <1>3, <1>4 DEF Shown, Muted
<1>6. /\ g <= k /\ got[c] = SubSeq(m, 1, g)
      /\ g <= req[c].limit /\ \A j \in 1..g : m[j].id # StopId
      /\ IF mute[c] THEN g = req[c].limit \/ (g < k /\ m[g + 1].id = StopId)
         ELSE g = k /\ g < req[c].limit
  BY DEF ShownOf
<1>7. mute'[c] <=> mute[c] \/ Muted(c)
  BY <1>1, <1>4
<1> HIDE DEF g, x
<1>8. CASE mute[c] \/ x.id = StopId
  <2>1. got' = got /\ mute'[c]
    BY <1>4, <1>5, <1>7, <1>8
  <2>2. g = req[c].limit \/ (g < k + 1 /\ m[g + 1].id = StopId)
    BY <1>2, <1>6, <1>8 DEF x
  <2>3. got' = got /\ made' = made /\ req' = req /\ got \in [Clients -> Seq(Tokens)]
    BY <1>1, <1>4, <2>1
  <2>4. /\ g <= k + 1 /\ got[c] = SubSeq(m, 1, g)
        /\ g <= req[c].limit /\ \A j \in 1..g : m[j].id # StopId
    BY <1>2, <1>6
  <2>5. QED
    BY <2>1, <2>2, <2>3, <2>4 DEF ShownOf, g
<1>9. CASE ~mute[c] /\ x.id # StopId
  <2>1. got'[c] = Append(got[c], x) /\ g = k /\ g < req[c].limit
    BY <1>1, <1>4, <1>5, <1>6, <1>9
  <2>2. got'[c] = SubSeq(m, 1, k + 1)
    BY <1>1, <1>2, <1>6, <2>1, SubSeqGrown DEF x
  <2>3. Len(got'[c]) = k + 1 /\ got' \in [Clients -> Seq(Tokens)]
    <3>1. Append(got[c], x) \in Seq(Tokens) /\ Len(Append(got[c], x)) = g + 1
      BY <1>1, <1>2, AppendProperties DEF g
    <3>2. QED
      BY <1>1, <1>4, <1>5, <1>9, <2>1, <3>1
  <2>4. \A j \in 1..(k + 1) : m[j].id # StopId
    BY <1>2, <1>6, <1>9, <2>1 DEF x
  <2>5. mute'[c] <=> k + 1 = req[c].limit
    BY <1>1, <1>2, <1>5, <1>7, <1>9, <2>1
  <2>6. k + 1 <= req[c].limit /\ (k + 1 # req[c].limit => k + 1 < req[c].limit)
    BY <1>1, <1>2, <2>1
  <2>7. QED
    BY <1>2, <1>4, <2>2, <2>3, <2>4, <2>5, <2>6 DEF ShownOf
<1>10. QED
  BY <1>8, <1>9

\* Where a token loop reads, and what.
LEMMA AtRead ==
  ASSUME RefInv, NEW c \in Clients, Read(c)
  PROVE  /\ Asked(c) /\ ~Heard(c) /\ ~Draining(c) /\ status[c] = "open" /\ Stage(c) \in Reads
         /\ \A d \in Clients \ {c} : ~Owed(d)
         /\ stdin = <<>>
         /\ \E k \in 0..Len(made[c]) :
              /\ ShownOf(c, k)
              /\ \/ job = Command(c) /\ pipe = Rest(made[c], k, <<>>)
                 \/ job = None /\ pipe = Rest(made[c], k, <<Item(c, Sentinel)>>)
<1>1. Stage(c) \in Reads /\ status[c] = "open" /\ pipe # <<>>
  BY DEF Read, Runs, In, Reads
<1>2. Asked(c) /\ ~Heard(c)
  BY <1>1, AtStage DEF RefInv
<1>3. ~Draining(c)
  BY <1>1 DEF RefInv, LockInv, Dancing, In, Reads
<1>4. Owed(c)
  BY <1>2 DEF Owed
<1>5. \A d \in Clients \ {c} : ~Owed(d)
  BY <1>4, OwedHolds, OnlyHolderOwed DEF RefInv
<1>6. Executed(c) \/ Answered(c)
  BY <1>1, <1>4 DEF RefInv, WireInv, Written
<1>7. QED
  BY <1>1, <1>2, <1>3, <1>5, <1>6 DEF Executed, Answered, Unread


LEMMA ReadRefInv ==
  ASSUME RefInv, NEW c \in Clients, Read(c)
  PROVE  TokenInv' /\ WireInv'
<1>1. /\ Asked(c) /\ ~Heard(c) /\ ~Draining(c) /\ status[c] = "open" /\ Stage(c) \in Reads
      /\ \A d \in Clients \ {c} : ~Owed(d)
      /\ stdin = <<>>
  BY AtRead
<1>2. PICK k \in 0..Len(made[c]) :
        /\ ShownOf(c, k)
        /\ \/ job = Command(c) /\ pipe = Rest(made[c], k, <<>>)
           \/ job = None /\ pipe = Rest(made[c], k, <<Item(c, Sentinel)>>)
  BY AtRead
<1>3. /\ pipe # <<>> /\ pipe' = Tail(pipe)
      /\ UNCHANGED <<req, status, worker, strays, stdin, job, made, alive>>
  BY DEF Read, threads, daemon
<1>4. /\ made \in [Clients -> Seq(Tokens)] /\ got \in [Clients -> Seq(Tokens)]
      /\ mute \in [Clients -> BOOLEAN] /\ alive /\ strays = 0
      /\ \A d \in Clients : TokenInvOf(d)
      /\ made[c] \in Seq(Tokens) /\ Len(made[c]) \in Nat
  BY LenProperties DEF RefInv, TokenInv
<1>5. /\ \A d \in Clients \ {c} : got'[d] = got[d] /\ mute'[d] = mute[d]
      /\ mute' \in [Clients -> BOOLEAN]
  BY <1>4 DEF Read
<1>6. \A d \in Clients : Draining(d)' <=> Draining(d)
  BY <1>3, SameDraining
<1>7. Command(c)' = Command(c)
  BY <1>1, <1>6 DEF Command
<1>8. CASE k < Len(made[c])
  <2>1. /\ Tokens \subseteq Items /\ <<Item(c, Sentinel)>> \in Seq(Items) /\ <<>> \in Seq(Items)
        /\ made[c] \in Seq(Items)
    <3>1. Tokens \subseteq Items
      BY BoundAssumption DEF Tokens, Items
    <3>2. Item(c, Sentinel) \in Items
      BY DEF Item, Items, Sentinel
    <3>3. QED
      BY <1>4, <3>1, <3>2, EmptySeq, SeqMonotonic
  <2>2. /\ Head(pipe) = made[c][k + 1]
        /\ \/ job = Command(c) /\ pipe' = Rest(made[c], k + 1, <<>>)
           \/ job = None /\ pipe' = Rest(made[c], k + 1, <<Item(c, Sentinel)>>)
    <3>1. ASSUME NEW e \in Seq(Items)
          PROVE  /\ Head(Rest(made[c], k, e)) = made[c][k + 1]
                 /\ Tail(Rest(made[c], k, e)) = Rest(made[c], k + 1, e)
      BY <1>8, <2>1, RestStep
    <3>2. QED
      BY <1>2, <1>3, <2>1, <3>1
  <2>3. ShownOf(c, k + 1)' /\ got' \in [Clients -> Seq(Tokens)]
    BY <1>2, <1>8, <2>2, ShownStep
  <2>4. at' = at
    <3>1. made[c][k + 1] \in Tokens
      BY <1>4, <1>8, ElementOfSeq
    <3>2. Head(pipe).id # Sentinel
      BY <2>2, <3>1, BoundAssumption DEF Tokens, Sentinel
    <3>3. QED
      BY <3>2 DEF Read
  <2>5. \A d \in Clients : (Asked(d)' <=> Asked(d)) /\ (Heard(d)' <=> Heard(d))
    BY <1>3, <2>4, SameBehind
  <2>6. TokenInv'
    <3>1. TokenInvOf(c)'
      BY <1>1, <1>3, <1>4, <2>4, <2>5 DEF TokenInvOf, Behind
    <3>2. \A d \in Clients \ {c} : TokenInvOf(d)'
      BY <1>3, <1>4, <1>5, <2>4, SameTokenInvOf
    <3>3. QED
      BY <1>3, <1>4, <1>5, <2>3, <3>1, <3>2 DEF TokenInv
  <2>7. \A d \in Clients \ {c} : ~Owed(d)'
    BY <1>1, <1>6, <2>5 DEF Owed
  <2>8. Executed(c)' \/ Answered(c)'
    <3>1. k + 1 \in 0..Len(made[c])
      BY <1>4, <1>8
    <3>2. ~Draining(c)'
      BY <1>1, <1>6
    <3>3. CASE job = Command(c) /\ pipe' = Rest(made[c], k + 1, <<>>)
      BY <1>1, <1>3, <1>7, <2>3, <3>1, <3>2, <3>3 DEF Executed, Unread
    <3>4. CASE job = None /\ pipe' = Rest(made[c], k + 1, <<Item(c, Sentinel)>>)
      BY <1>1, <1>3, <2>3, <3>1, <3>2, <3>4 DEF Answered, Unread
    <3>5. QED
      BY <2>2, <3>3, <3>4
  <2>9. Owed(c)'
    BY <1>1, <2>5 DEF Owed
  <2>10. QED
    BY <2>6, <2>7, <2>8, <2>9, OwnWireInv
<1>9. CASE k = Len(made[c])
  <2>1. job = None /\ pipe = <<Item(c, Sentinel)>>
    <3>1. /\ <<Item(c, Sentinel)>> \in Seq({Item(c, Sentinel)} \cup Tokens)
          /\ <<>> \in Seq({Item(c, Sentinel)} \cup Tokens)
          /\ made[c] \in Seq({Item(c, Sentinel)} \cup Tokens)
      BY <1>4, EmptySeq, SeqMonotonic
    <3>2. /\ Rest(made[c], k, <<>>) = <<>>
          /\ Rest(made[c], k, <<Item(c, Sentinel)>>) = <<Item(c, Sentinel)>>
      BY <1>9, <3>1, RestOver
    <3>3. QED
      BY <1>2, <1>3, <3>2
  <2>2. Head(pipe).id = Sentinel /\ pipe' = <<>>
    BY <1>3, <2>1 DEF Item
  <2>3. Advance(c) /\ got' = got /\ mute' = mute
    <3>1. ~Shown(c) /\ ~Muted(c)
      BY <2>2 DEF Shown, Muted, Sentinel, StopId
    <3>2. [mute EXCEPT ![c] = @ \/ Muted(c)] = mute
      BY <1>4, <3>1
    <3>3. QED
      BY <2>2, <3>1, <3>2 DEF Read
  <2>4. /\ \A d \in Clients \ {c} : at'[d] = at[d]
        /\ Asked(c)' /\ Heard(c)' /\ (Behind(c, {"check"})' <=> Behind(c, {"check"}))
    BY <1>1, <1>3, <2>3, PassedNext DEF RefInv, Asked, Heard, Reads
  <2>5. ShownOf(c, Len(made[c]))'
    BY <1>2, <1>3, <1>9, <2>3 DEF ShownOf
  <2>6. TokenInv'
    <3>1. TokenInvOf(c)'
      BY <1>1, <1>3, <1>4, <2>4, <2>5 DEF TokenInvOf
    <3>2. \A d \in Clients \ {c} : TokenInvOf(d)'
      BY <1>3, <1>4, <1>5, <2>4, SameTokenInvOf
    <3>3. QED
      BY <1>3, <1>4, <2>3, <3>1, <3>2 DEF TokenInv
  <2>7. \A d \in Clients \ {c} : ~Owed(d)'
    BY <1>1, <1>3, <1>6, <2>4, SameBehind DEF Owed
  <2>8. ~Owed(c)'
    BY <1>1, <1>6, <2>4 DEF Owed
  <2>9. QED
    BY <1>1, <1>3, <2>1, <2>2, <2>6, <2>7, <2>8, OwnWireInv
<1>10. QED
  BY <1>4, <1>8, <1>9


-----------------------------------------------------------------------------
(* The daemon                                                              *)

\* Whose command is being executed.
LEMMA AtJob ==
  ASSUME RefInv, job # None
  PROVE  \E c \in Clients : /\ Owed(c) /\ Executed(c) /\ job.from = c
                            /\ \A d \in Clients \ {c} : ~Owed(d)
<1>1. PICK c \in Clients : Owed(c)
  BY DEF RefInv, WireInv
<1>2. \A d \in Clients \ {c} : ~Owed(d)
  BY <1>1, OwedHolds, OnlyHolderOwed DEF RefInv
<1>3. Executed(c)
  BY <1>1 DEF RefInv, WireInv, Written, Answered
<1>4. job.from = c
  BY <1>3 DEF Executed, Command, Line
<1>5. QED
  BY <1>1, <1>2, <1>3, <1>4

\* A step of the daemon leaves the handlers where they are.
LEMMA DaemonOwed ==
  ASSUME UNCHANGED <<req, at, worker>>
  PROVE  \A d \in Clients : /\ Draining(d)' <=> Draining(d)
                            /\ Asked(d)' <=> Asked(d)
                            /\ Heard(d)' <=> Heard(d)
                            /\ Owed(d)' <=> Owed(d)
                            /\ Command(d)' = Command(d)
<1>1. \A d \in Clients : /\ Draining(d)' <=> Draining(d)
                         /\ Asked(d)' <=> Asked(d)
                         /\ Heard(d)' <=> Heard(d)
  BY SameBehind, SameDraining
<1>2. QED
  BY <1>1 DEF Owed, Command, Line

LEMMA TakeRefInv ==
  ASSUME RefInv, Take
  PROVE  TokenInv' /\ WireInv'
<1>1. /\ job = None /\ stdin # <<>> /\ job' = Head(stdin) /\ stdin' = Tail(stdin)
      /\ UNCHANGED <<req, at, status, got, mute, worker, strays, pipe, made, alive>>
  BY DEF Take, handlers, threads
<1>2. PICK c \in Clients : Owed(c)
  BY <1>1 DEF RefInv, WireInv
<1>3. \A d \in Clients \ {c} : ~Owed(d)
  BY <1>2, OwedHolds, OnlyHolderOwed DEF RefInv
<1>4. Written(c)
  BY <1>1, <1>2 DEF RefInv, WireInv, Executed, Answered
<1>5. job' = Command(c) /\ stdin' = <<>> /\ pipe' = <<>>
  BY <1>1, <1>4 DEF Written
<1>6. \A d \in Clients : /\ Draining(d)' <=> Draining(d)
                         /\ Owed(d)' <=> Owed(d)
                         /\ Command(d)' = Command(d)
  BY <1>1, DaemonOwed
<1>7. TokenInv'
  BY <1>1, SameTokenInvOf DEF RefInv, TokenInv
<1>8. Unread(c, <<>>)'
  <2>1. CASE Draining(c)
    BY <1>5, <1>6, <2>1 DEF Unread
  <2>2. CASE ~Draining(c)
    <3>1. req[c].limit > 0 /\ req[c].limit \in Nat
      BY <1>2, <2>2, AtStage DEF Owed, RefInv, TokenInv, TokenInvOf
    <3>2. made[c] = <<>> /\ got[c] = <<>> /\ ~mute[c]
      BY <1>4, <2>2 DEF Written, Untold
    <3>3. ShownOf(c, 0)
      BY <3>1, <3>2 DEF ShownOf
    <3>4. ShownOf(c, 0)'
      BY <1>1, <3>3 DEF ShownOf
    <3>5. <<>> \in Seq(Tokens) /\ Len(<<>>) = 0
      BY EmptySeq
    <3>6. Rest(made[c], 0, <<>>) = <<>>
      BY <3>2, <3>5, RestOver
    <3>7. QED
      BY <1>1, <1>5, <1>6, <2>2, <3>2, <3>4, <3>5, <3>6 DEF Unread
  <2>3. QED
    BY <2>1, <2>2
<1>9. Executed(c)'
  BY <1>5, <1>6, <1>8 DEF Executed
<1>10. QED
  BY <1>2, <1>3, <1>6, <1>7, <1>9, OwnWireInv

LEMMA Ended ==
  ASSUME NEW c
  PROVE  [i \in DOMAIN (<<>> \o <<Sentinel>>) |-> Item(c, (<<>> \o <<Sentinel>>)[i])]
           = <<Item(c, Sentinel)>>
<1>1. <<>> \o <<Sentinel>> = <<Sentinel>>
  BY ConcatEmptySeq DEF Sentinel
<1>2. [i \in DOMAIN <<Sentinel>> |-> Item(c, <<Sentinel>>[i])] = <<Item(c, Sentinel)>>
  OBVIOUS
<1>3. QED
  BY <1>1, <1>2

LEMMA Scored ==
  ASSUME NEW c
  PROVE  [i \in DOMAIN (<<1>> \o <<Sentinel>>) |-> Item(c, (<<1>> \o <<Sentinel>>)[i])]
           = <<Item(c, 1), Item(c, Sentinel)>>
<1>1. <<1>> \o <<Sentinel>> = <<1, Sentinel>>
  BY TwoItems
<1>2. [i \in DOMAIN <<1, Sentinel>> |-> Item(c, <<1, Sentinel>>[i])]
        = <<Item(c, 1), Item(c, Sentinel)>>
  OBVIOUS
<1>3. QED
  BY <1>1, <1>2

\* The commands of the dance, and their arguments.
LEMMA DanceLines ==
  /\ compress_text_via_daemon[1][1] = "park" /\ compress_text_via_daemon[1][2] = "target"
  /\ compress_text_via_daemon[2][1] = "park" /\ compress_text_via_daemon[2][2] = "draft"
  /\ compress_text_via_daemon[3][1] = "compress"
  /\ compress_text_via_daemon[4][1] = "free"
  /\ compress_text_via_daemon[5][1] = "unpark" /\ compress_text_via_daemon[5][2] = "target"
  /\ compress_text_via_daemon[6][1] = "unpark" /\ compress_text_via_daemon[6][2] = "draft"
<1>1. compress_text_via_daemon[1][1] = "park" /\ compress_text_via_daemon[1][2] = "target"
  BY DEF compress_text_via_daemon
<1>2. compress_text_via_daemon[2][1] = "park" /\ compress_text_via_daemon[2][2] = "draft"
  BY DEF compress_text_via_daemon
<1>3. compress_text_via_daemon[3][1] = "compress"
  BY DEF compress_text_via_daemon
<1>4. compress_text_via_daemon[4][1] = "free"
  BY DEF compress_text_via_daemon
<1>5. compress_text_via_daemon[5][1] = "unpark" /\ compress_text_via_daemon[5][2] = "target"
  BY DEF compress_text_via_daemon
<1>6. compress_text_via_daemon[6][1] = "unpark" /\ compress_text_via_daemon[6][2] = "draft"
  BY DEF compress_text_via_daemon
<1>7. QED
  BY <1>1, <1>2, <1>3, <1>4, <1>5, <1>6

\* The lines of the dance are not those of a handler.
LEMMA CommandOp ==
  ASSUME LockInv, NEW c \in Clients
  PROVE  Draining(c) <=> Command(c).op # "generate"
<1>1. CASE Draining(c)
  <2>1. worker[c] \div 2 \in 1..6
    BY <1>1, DancingRange DEF LockInv, StageTypes
  <2>2. \A k \in 1..6 : compress_text_via_daemon[k][1] # "generate"
    BY DanceLines
  <2>3. QED
    BY <1>1, <2>1, <2>2 DEF Command, Line
<1>2. CASE ~Draining(c)
  BY <1>2 DEF Command
<1>3. QED
  BY <1>1, <1>2


\* The command that is done has its sentinel written, after a token perhaps if it
\* scored a prompt.
Acks == Finish(<<>>) \/ (job.op = "compress" /\ Finish(<<1>>))

LEMMA AckRefInv ==
  ASSUME RefInv, job # None,
         Acks,
         UNCHANGED <<req, at, status, got, mute, worker, strays, stdin, made, alive>>
  PROVE  TokenInv' /\ WireInv' /\ \A d \in Clients : Owed(d) => Answered(d)'
<1>1. PICK c \in Clients : /\ Owed(c) /\ Executed(c) /\ job.from = c
                           /\ \A d \in Clients \ {c} : ~Owed(d)
  BY AtJob
<1> DEFINE end == <<Item(c, Sentinel)>>
<1>2. \A d \in Clients : /\ Draining(d)' <=> Draining(d)
                         /\ Owed(d)' <=> Owed(d)
  BY DaemonOwed
<1>3. TokenInv'
  BY SameTokenInvOf DEF RefInv, TokenInv
<1>4. job' = None /\ stdin' = <<>>
  BY <1>1 DEF Acks, Finish, Executed
<1>5. \/ pipe' = pipe \o end
      \/ job.op = "compress" /\ pipe' = pipe \o <<Item(c, 1), Item(c, Sentinel)>>
  BY <1>1, Ended, Scored DEF Acks, Finish, Emit
<1>6. Unread(c, end)'
  <2>1. CASE Draining(c)
    <3>1. pipe = <<>>
      BY <1>1, <2>1 DEF Executed, Unread
    <3>2. ASSUME NEW s \in Seq(Items) PROVE <<>> \o s = s
      BY ConcatEmptySeq
    <3>3. end \in Seq(Items) /\ <<Item(c, 1), Item(c, Sentinel)>> \in Seq(Items)
      BY DEF Item, Items, Sentinel
    <3>4. pipe' = end \/ pipe' = <<Item(c, 1), Item(c, Sentinel)>>
      BY <1>5, <3>1, <3>2, <3>3
    <3>5. end # <<>> /\ Head(end) = Item(c, Sentinel)
      OBVIOUS
    <3>6. QED
      BY <1>2, <2>1, <3>4, <3>5 DEF Unread
  <2>2. CASE ~Draining(c)
    <3>1. PICK k \in 0..Len(made[c]) : pipe = Rest(made[c], k, <<>>) /\ ShownOf(c, k)
      BY <1>1, <2>2 DEF Executed, Unread
    <3>2. job.op # "compress"
      BY <1>1, <2>2 DEF Executed, Command
    <3>3. /\ made[c] \in Seq({Item(c, Sentinel)} \cup Tokens)
          /\ end \in Seq({Item(c, Sentinel)} \cup Tokens)
      BY SeqMonotonic DEF RefInv, TokenInv
    <3>4. pipe' = Rest(made[c], k, end)
      BY <1>5, <3>1, <3>2, <3>3, RestWritten
    <3>5. ShownOf(c, k)'
      BY <3>1 DEF ShownOf
    <3>6. QED
      BY <1>2, <2>2, <3>4, <3>5 DEF Unread
  <2>3. QED
    BY <2>1, <2>2
<1>7. Answered(c)'
  BY <1>4, <1>6 DEF Answered
<1>8. QED
  BY <1>1, <1>2, <1>3, <1>7, OwnWireInv

LEMMA SubSeqKept ==
  ASSUME NEW S, NEW m \in Seq(S), NEW x \in S, NEW g \in 0..Len(m)
  PROVE  SubSeq(Append(m, x), 1, g) = SubSeq(m, 1, g)
<1> DEFINE n == Append(m, x)
           s == SubSeq(n, 1, g)
           t == SubSeq(m, 1, g)
<1>1. Len(m) \in Nat /\ g \in Nat
  BY LenProperties
<1>2. \A i \in 1..g : n[i] = m[i] /\ m[i] \in S
  BY <1>1, AppendProperties, ElementOfSeq
<1> HIDE DEF n
<1>3. /\ s \in Seq(S) /\ Len(s) = (IF 1 <= g THEN g - 1 + 1 ELSE 0)
      /\ \A i \in 1..(g - 1 + 1) : s[i] = n[1 + i - 1]
  <2>1. 1 \in Int /\ g \in Int /\ \A i \in 1..g : n[i] \in S
    BY <1>1, <1>2
  <2>2. QED
    BY <2>1, SubSeqProperties
<1>4. /\ t \in Seq(S) /\ Len(t) = (IF 1 <= g THEN g - 1 + 1 ELSE 0)
      /\ \A i \in 1..(g - 1 + 1) : t[i] = m[1 + i - 1]
  BY <1>1, <1>2, SubSeqProperties
<1> HIDE DEF s, t
<1>5. Len(s) = Len(t) /\ \A i \in 1..Len(s) : s[i] = t[i]
  BY <1>1, <1>2, <1>3, <1>4
<1>6. s = t
  BY <1>3, <1>4, <1>5, SeqEqual
<1>7. QED
  BY <1>6 DEF s, t, n

\* What has been shown does not depend on what is generated after it.
LEMMA ShownGrown ==
  ASSUME NEW c \in Clients, NEW k \in 0..Len(made[c]), ShownOf(c, k), NEW x \in Tokens,
         made[c] \in Seq(Tokens), got[c] \in Seq(Tokens), made'[c] = Append(made[c], x),
         UNCHANGED <<req, got, mute>>
  PROVE  ShownOf(c, k)'
<1> DEFINE m == made[c]
           n == Append(m, x)
           g == Len(got[c])
<1>1. Len(m) \in Nat /\ k \in Nat /\ g \in Nat
  BY LenProperties
<1>2. /\ g <= k /\ got[c] = SubSeq(m, 1, g)
      /\ g <= req[c].limit /\ \A j \in 1..g : m[j].id # StopId
      /\ IF mute[c] THEN g = req[c].limit \/ (g < k /\ m[g + 1].id = StopId)
         ELSE g = k /\ g < req[c].limit
  BY DEF ShownOf
<1>3. SubSeq(n, 1, g) = SubSeq(m, 1, g)
  BY <1>1, <1>2, SubSeqKept
<1>4. \A i \in 1..Len(m) : n[i] = m[i]
  BY AppendProperties
<1>5. (\A j \in 1..g : n[j] = m[j]) /\ (g < k => n[g + 1] = m[g + 1])
  BY <1>1, <1>2, <1>4
<1> HIDE DEF m, n, g
<1>6. /\ g <= k /\ got[c] = SubSeq(n, 1, g)
      /\ g <= req[c].limit /\ \A j \in 1..g : n[j].id # StopId
      /\ IF mute[c] THEN g = req[c].limit \/ (g < k /\ n[g + 1].id = StopId)
         ELSE g = k /\ g < req[c].limit
  BY <1>2, <1>3, <1>5
<1>7. made'[c] = n /\ got' = got /\ mute' = mute /\ req' = req
  BY DEF n, m
<1>8. QED
  BY <1>6, <1>7 DEF ShownOf, g


LEMMA GenerateRefInv ==
  ASSUME RefInv, Generate
  PROVE  TokenInv' /\ WireInv'
<1>1. /\ job # None /\ job.op = "generate"
      /\ UNCHANGED <<req, at, status, got, mute, worker, strays, stdin, job, alive>>
  BY DEF Generate, Executes, handlers, threads
<1>2. PICK c \in Clients : /\ Owed(c) /\ Executed(c) /\ job.from = c
                           /\ \A d \in Clients \ {c} : ~Owed(d)
  BY <1>1, AtJob
<1>3. ~Draining(c) /\ Asked(c) /\ ~Heard(c)
  BY <1>1, <1>2, CommandOp DEF RefInv, Executed, Owed
<1>4. /\ made \in [Clients -> Seq(Tokens)] /\ made[c] \in Seq(Tokens)
      /\ got[c] \in Seq(Tokens) /\ Len(made[c]) \in Nat
  BY LenProperties DEF RefInv, TokenInv
<1>5. PICK i \in {StopId, Len(made[c]) + 1} :
        /\ Len(made[c]) < MaxMade
        /\ made' = [made EXCEPT ![c] = Append(@, Item(c, i))]
        /\ Emit(<<i>>)
  BY <1>1, <1>2 DEF Generate
<1> DEFINE x == Item(c, i)
<1>6. x \in Tokens
  BY <1>4, <1>5, BoundAssumption DEF Item, Tokens, StopId
<1>7. pipe' = pipe \o <<x>>
  <2>1. [j \in DOMAIN <<i>> |-> Item(c, <<i>>[j])] = <<x>>
    OBVIOUS
  <2>2. QED
    BY <1>2, <1>5, <2>1 DEF Emit
<1> HIDE DEF x
<1>8. /\ made' \in [Clients -> Seq(Tokens)] /\ made'[c] = Append(made[c], x)
      /\ \A d \in Clients \ {c} : made'[d] = made[d]
      /\ Len(made'[c]) = Len(made[c]) + 1
  BY <1>4, <1>5, <1>6, AppendProperties DEF x
<1>9. \A d \in Clients : /\ Draining(d)' <=> Draining(d)
                         /\ Asked(d)' <=> Asked(d)
                         /\ Heard(d)' <=> Heard(d)
                         /\ Owed(d)' <=> Owed(d)
                         /\ Command(d)' = Command(d)
  BY <1>1, DaemonOwed
<1>10. TokenInv'
  <2>1. TokenInvOf(c)'
    BY <1>1, <1>3, <1>9 DEF RefInv, TokenInv, TokenInvOf, Behind
  <2>2. \A d \in Clients \ {c} : TokenInvOf(d)'
    BY <1>1, <1>8, SameTokenInvOf DEF RefInv, TokenInv
  <2>3. QED
    BY <1>1, <1>8, <2>1, <2>2 DEF RefInv, TokenInv
<1>11. Executed(c)'
  <2>1. PICK k \in 0..Len(made[c]) : pipe = Rest(made[c], k, <<>>) /\ ShownOf(c, k)
    BY <1>2, <1>3 DEF Executed, Unread
  <2>2. pipe' = Rest(made'[c], k, <<>>)
    <3>1. Rest(Append(made[c], x), k, <<>>) = Rest(made[c], k, <<>>) \o <<x>>
      BY <1>4, <1>6, RestGrown
    <3>2. QED
      BY <1>7, <1>8, <2>1, <3>1, Zenon
  <2>3. ShownOf(c, k)'
    BY <1>1, <1>4, <1>6, <1>8, <2>1, ShownGrown
  <2>4. k \in 0..Len(made'[c])
    BY <1>4, <1>8
  <2>5. QED
    BY <1>1, <1>2, <1>3, <1>9, <2>2, <2>3, <2>4 DEF Executed, Unread
<1>12. QED
  BY <1>2, <1>9, <1>10, <1>11, OwnWireInv

LEMMA DaemonRefInv ==
  ASSUME RefInv, Daemon
  PROVE  TokenInv' /\ WireInv'
<1>1. CASE Take
  BY <1>1, TakeRefInv
<1>2. CASE Park \/ Unpark \/ FreeDrafter \/ Compress \/ GenerateEnd
  <2>1. /\ job # None
        /\ UNCHANGED <<req, at, status, got, mute, worker, strays, stdin, made, alive>>
    BY <1>2 DEF Park, Unpark, FreeDrafter, Compress, GenerateEnd, Executes, handlers, threads
  <2>2. Acks
    BY <1>2 DEF Acks, Park, Unpark, FreeDrafter, Compress, GenerateEnd, Executes
  <2>3. QED
    BY <2>1, <2>2, AckRefInv
<1>3. CASE Generate
  BY <1>3, GenerateRefInv
<1>4. QED
  BY <1>1, <1>2, <1>3 DEF Daemon

-----------------------------------------------------------------------------
(* The invariant                                                           *)

LEMMA InitRefInv ==
  ASSUME Steady, Init
  PROVE  RefInv
<1>1. LockInv /\ ThreadInv
  BY InitLockInv DEF Init, ThreadInv
<1>2. \A c \in Clients : ~req[c].stops /\ req[c].limit \in Nat
  <2>1. \A r \in ServerRequests \cup ToolServerRequests : ~r.stops /\ r.limit \in Nat
    BY BoundAssumption
       DEF Steady, ServerRequests, ToolServerRequests, ChatRequests, MessagesRequests,
           ToolChatRequests, ToolMessagesRequests, Requests
  <2>2. \A c \in Clients : req[c] \in ServerRequests \cup ToolServerRequests
    BY DEF Init
  <2>3. QED
    BY <2>1, <2>2
<1>3. \A c \in Clients : ~Asked(c) /\ ~Heard(c) /\ ~Behind(c, {"check"})
  BY DEF Init, Asked, Heard, Behind, Passed
<1>4. \A c \in Clients : ~Draining(c)
  <2>1. \A c \in Clients : worker[c] = 0 /\ worker[c] \in 0..Raised
    BY DanceLength DEF Init
  <2>2. QED
    BY <2>1, DancingRange
<1>5. TokenInv
  BY <1>2, <1>3, EmptySeq DEF Init, TokenInv, TokenInvOf, Untold
<1>6. WireInv
  BY <1>3, <1>4 DEF Init, WireInv, Owed
<1>7. QED
  BY <1>1, <1>5, <1>6 DEF RefInv

LEMMA NextRefInv ==
  ASSUME Steady, RefInv, [Next]_vars
  PROVE  RefInv'
<1>1. LockInv' /\ ThreadInv'
  BY NextLockInv, NextThreadInv DEF RefInv
<1>2. alive /\ strays = 0 /\ \A c \in Clients : ~req[c].stops
  BY DEF RefInv, TokenInv, TokenInvOf
<1>3. CASE UNCHANGED vars
  <2>1. UNCHANGED <<req, at, status, got, mute, made, strays, alive, stdin, job, pipe, worker>>
    BY <1>3 DEF vars, handlers, threads, daemon
  <2>2. TokenInv'
    BY <2>1, SameTokenInvOf DEF RefInv, TokenInv
  <2>3. WireInv'
    BY <2>1, SameBehind, SameDraining, SilentWireInv DEF RefInv
  <2>4. QED
    BY <1>1, <2>2, <2>3 DEF RefInv
<1>4. ASSUME NEW c \in Clients, Handle(c)
      PROVE  TokenInv' /\ WireInv'
  <2>1. ~ReadEof(c)
    BY <1>2 DEF ReadEof
  <2>2. QED
    BY <1>4, <2>1, SilentStages, SendRefInv, ReadRefInv DEF Handle
<1>5. ASSUME NEW c \in Clients, Work(c)
      PROVE  TokenInv' /\ WireInv'
  BY <1>5, WriteRefInv, WorkerReadRefInv DEF Work
<1>6. CASE Daemon
  BY <1>1, <1>6, DaemonRefInv DEF RefInv
<1>7. ~StrayRead /\ ~Die /\ \A c \in Clients : ~StopMatch(c) /\ ~Leave(c)
  BY <1>2 DEF Steady, StrayRead, Die, StopMatch, Leave
<1>8. QED
  BY <1>1, <1>3, <1>4, <1>5, <1>6, <1>7 DEF Next, Idle, RefInv

LEMMA AlwaysRefInv == Steady => (Spec => []RefInv)
<1>1. SUFFICES ASSUME Steady PROVE Spec => []RefInv
  OBVIOUS
<1>2. Init => RefInv
  BY <1>1, InitRefInv
<1>3. RefInv /\ [Next]_vars => RefInv'
  BY <1>1, NextRefInv
<1>4. QED
  BY <1>2, <1>3, PTL DEF Spec


-----------------------------------------------------------------------------
(* The promise                                                             *)

LEMMA Least ==
  ASSUME NEW T, T \subseteq Nat, T # {}
  PROVE  \E x \in T : \A y \in T : x <= y
<1> DEFINE R == OpToRel(<, Nat)
<1>1. IsWellFoundedOn(R, Nat)
  BY NatLessThanWellFounded
<1>2. \A x, y \in Nat : y < x => <<y, x>> \in R
  BY DEF OpToRel
<1> HIDE DEF R
<1>3. PICK x \in T : \A y \in T : <<y, x>> \notin R
  BY <1>1, WFMin
<1>4. \A y \in T : ~(y < x)
  BY <1>2, <1>3
<1>5. QED
  BY <1>4

StopTokens == {t \in Tokens : t.id = StopId}

\* The tokens m may be shown up to the k-th.
Showable(m, n, k) == k <= n /\ \A j \in 1..k : m[j].id # StopId

LEMMA TrimmedIs ==
  ASSUME NEW m \in Seq(Tokens), NEW n \in Nat, NEW g \in 0..Len(m), Showable(m, n, g),
         g < Len(m) => ~Showable(m, n, g + 1)
  PROVE  Promise!Trimmed(m, n) = SubSeq(m, 1, g)
<1>1. Len(m) \in Nat /\ \A j \in 1..Len(m) : m[j] \in Tokens
  BY LenProperties, ElementOfSeq
<1> DEFINE shown(k) == k <= n /\ \A j \in 1..k : m[j] \notin StopTokens
           last(k) == shown(k) /\ (k < Len(m) => ~shown(k + 1))
<1>2. ASSUME NEW k \in 0..Len(m) PROVE shown(k) <=> Showable(m, n, k)
  BY <1>1 DEF Showable, StopTokens
<1>3. last(g)
  <2>1. g < Len(m) => g + 1 \in 0..Len(m)
    BY <1>1
  <2>2. QED
    BY <1>2, <2>1
<1>4. ASSUME NEW k \in 0..Len(m), last(k) PROVE k = g
  <2>1. CASE k < g
    <3>1. g <= n /\ \A j \in 1..g : m[j] \notin StopTokens
      BY <1>3
    <3>2. shown(k + 1)
      BY <1>1, <2>1, <3>1
    <3>3. QED
      BY <1>1, <1>4, <2>1, <3>2
  <2>2. CASE g < k
    <3>1. k <= n /\ \A j \in 1..k : m[j] \notin StopTokens
      BY <1>4
    <3>2. shown(g + 1)
      BY <1>1, <2>2, <3>1
    <3>3. QED
      BY <1>1, <1>3, <2>2, <3>2
  <2>3. QED
    BY <1>1, <2>1, <2>2
<1>5. Promise!Trimmed(m, n) = SubSeq(m, 1, CHOOSE k \in 0..Len(m) : last(k))
  BY DEF Promise!Trimmed, StopTokens
<1> HIDE DEF last
<1>6. (CHOOSE k \in 0..Len(m) : last(k)) = g
  BY <1>3, <1>4
<1>7. QED
  BY <1>5, <1>6

\* What may be shown is a prefix of what is promised.
LEMMA TrimmedExtends ==
  ASSUME NEW m \in Seq(Tokens), NEW n \in Nat, NEW g \in 0..Len(m), Showable(m, n, g)
  PROVE  \E h \in g..Len(m) : Promise!Trimmed(m, n) = SubSeq(m, 1, h)
<1>1. Len(m) \in Nat
  BY LenProperties
<1> DEFINE T == {k \in g..Len(m) : k < Len(m) => ~Showable(m, n, k + 1)}
<1>2. T \subseteq Nat /\ Len(m) \in T
  BY <1>1
<1>3. PICK h \in T : \A k \in T : h <= k
  BY <1>2, Least
<1>4. h \in g..Len(m) /\ (h < Len(m) => ~Showable(m, n, h + 1))
  OBVIOUS
<1>5. Showable(m, n, h)
  <2>1. CASE h = g
    BY <2>1
  <2>2. CASE h > g
    <3>1. h - 1 \in g..Len(m) /\ ~(h <= h - 1) /\ h - 1 < Len(m) /\ h - 1 + 1 = h
      BY <1>1, <1>4, <2>2
    <3>2. h - 1 \notin T
      BY <1>3, <3>1
    <3>3. QED
      BY <3>1, <3>2
  <2>3. QED
    BY <1>1, <1>4, <2>1, <2>2
<1>6. h \in 0..Len(m)
  BY <1>1, <1>4
<1>7. Promise!Trimmed(m, n) = SubSeq(m, 1, h)
  BY <1>4, <1>5, <1>6, TrimmedIs
<1>8. QED
  BY <1>4, <1>7

\* After its sentinel a request has all that is promised.
LEMMA HeardIsPromised ==
  ASSUME RefInv, NEW c \in Clients, Heard(c)
  PROVE  got[c] = Promise!Trimmed(made[c], req[c].limit)
<1> DEFINE m == made[c]
           n == req[c].limit
           g == Len(got[c])
<1>1. /\ m \in Seq(Tokens) /\ got[c] \in Seq(Tokens) /\ n \in Nat /\ Len(m) \in Nat /\ g \in Nat
  BY LenProperties DEF RefInv, TokenInv, TokenInvOf
<1>2. ShownOf(c, Len(m))
  BY DEF RefInv, TokenInv, TokenInvOf
<1>3. /\ g <= Len(m) /\ got[c] = SubSeq(m, 1, g)
      /\ g <= n /\ \A j \in 1..g : m[j].id # StopId
      /\ IF mute[c] THEN g = n \/ (g < Len(m) /\ m[g + 1].id = StopId)
         ELSE g = Len(m) /\ g < n
  BY <1>2 DEF ShownOf
<1> HIDE DEF m, n, g
<1>4. Showable(m, n, g) /\ g \in 0..Len(m)
  BY <1>1, <1>3 DEF Showable
<1>5. g < Len(m) => ~Showable(m, n, g + 1)
  BY <1>1, <1>3 DEF Showable
<1>6. QED
  BY <1>1, <1>3, <1>4, <1>5, TrimmedIs DEF m, n, g


\* The variables of Completions, as TokenPipe has them.
limits == [c \in Clients |-> req[c].limit]
answered == [c \in Clients |-> status[c] = "done"]

\* A step that delivers nothing, generates nothing and ends no response.
LEMMA SilentPromise ==
  ASSUME UNCHANGED <<req, made, got>>,
         \A c \in Clients : (status'[c] = "done") = (status[c] = "done")
  PROVE  UNCHANGED Promise!vars
BY DEF Promise!vars

LEMMA ReadDelivers ==
  ASSUME RefInv, NEW c \in Clients, Read(c)
  PROVE  Promise!Deliver(c) \/ UNCHANGED Promise!vars
<1> DEFINE m == made[c]
           n == req[c].limit
           x == Head(pipe)
           due == Promise!Trimmed(m, n)
<1>1. /\ UNCHANGED <<req, made, status>> /\ pipe # <<>>
      /\ got' = IF Shown(c) THEN [got EXCEPT ![c] = Append(@, x)] ELSE got
  BY DEF Read, daemon
<1>2. CASE ~Shown(c)
  BY <1>1, <1>2, SilentPromise
<1>3. CASE Shown(c)
  <2>1. /\ m \in Seq(Tokens) /\ got[c] \in Seq(Tokens) /\ got \in [Clients -> Seq(Tokens)]
        /\ n \in Nat /\ Len(m) \in Nat
    BY LenProperties DEF RefInv, TokenInv, TokenInvOf
  <2>2. x.id # Sentinel /\ ~mute[c]
    BY <1>3 DEF Shown
  <2>3. PICK k \in 0..Len(m) :
          /\ ShownOf(c, k)
          /\ pipe = Rest(m, k, <<>>) \/ pipe = Rest(m, k, <<Item(c, Sentinel)>>)
    BY AtRead
  <2>4. /\ Tokens \subseteq Items /\ <<Item(c, Sentinel)>> \in Seq(Items) /\ <<>> \in Seq(Items)
        /\ m \in Seq(Items)
    <3>1. Tokens \subseteq Items
      BY BoundAssumption DEF Tokens, Items
    <3>2. Item(c, Sentinel) \in Items
      BY DEF Item, Items, Sentinel
    <3>3. QED
      BY <2>1, <3>1, <3>2, EmptySeq, SeqMonotonic
  <2>5. k < Len(m)
    <3>1. SUFFICES ASSUME k = Len(m) PROVE FALSE
      BY <2>1
    <3>2. ASSUME NEW e \in Seq(Items) PROVE Rest(m, k, e) = e
      BY <2>4, <3>1, RestOver
    <3>3. pipe = <<Item(c, Sentinel)>>
      BY <1>1, <2>3, <2>4, <3>2
    <3>4. QED
      BY <2>2, <3>3 DEF Item
  <2>6. x = m[k + 1]
    <3>1. ASSUME NEW e \in Seq(Items) PROVE Head(Rest(m, k, e)) = m[k + 1]
      BY <2>4, <2>5, RestStep
    <3>2. QED
      BY <2>3, <2>4, <3>1
  <2>7. x \in Tokens
    BY <2>1, <2>5, <2>6, ElementOfSeq
  <2>8. ShownOf(c, k + 1)'
    BY <2>3, <2>5, <2>6, ShownStep
  <2>9. Len(got[c]) = k /\ got'[c] = Append(got[c], x) /\ Len(got'[c]) = k + 1
    BY <1>1, <1>3, <2>1, <2>2, <2>3, <2>7, AppendProperties DEF ShownOf
  <2>10. Showable(m, n, k + 1) /\ got'[c] = SubSeq(m, 1, k + 1)
    BY <1>1, <2>8, <2>9 DEF ShownOf, Showable
  <2>11. PICK h \in (k + 1)..Len(m) : due = SubSeq(m, 1, h)
    <3>1. k + 1 \in 0..Len(m)
      BY <2>1, <2>5
    <3>2. QED
      BY <2>1, <2>10, <3>1, TrimmedExtends
  <2>12. Len(due) = h /\ SubSeq(due, 1, k + 1) = SubSeq(m, 1, k + 1)
    <3>1. /\ h \in 1..Len(m) /\ 1 \in 1..Len(m) /\ k + 1 \in 1..(h - 1 + 1)
          /\ 1 \in 1..(h - 1 + 1) /\ h \in Nat /\ \A i \in 1..h : m[i] \in Tokens
      BY <2>1, <2>5, ElementOfSeq
    <3>2. SubSeq(SubSeq(m, 1, h), 1, k + 1) = SubSeq(m, 1 + 1 - 1, 1 + (k + 1) - 1)
      BY <2>1, <3>1, SubSeqOfSubSeq
    <3>3. Len(SubSeq(m, 1, h)) = h
      BY <3>1, SubSeqProperties
    <3>4. 1 + 1 - 1 = 1 /\ 1 + (k + 1) - 1 = k + 1
      BY <2>1
    <3>5. QED
      BY <2>11, <3>2, <3>3, <3>4
  <2>13. ~answered[c]
    BY AtRead DEF answered
  <2>14. /\ limits[c] = n /\ limits' = limits /\ answered' = answered
    BY <1>1 DEF limits, answered
  <2>15. /\ Len(got[c]) < Len(due) /\ got'[c] = SubSeq(due, 1, Len(got[c]) + 1)
    <3>1. k < h /\ Len(got[c]) + 1 = k + 1
      BY <2>1, <2>5, <2>9
    <3>2. QED
      BY <2>9, <2>10, <2>12, <3>1
  <2>16. \E t \in Tokens : got' = [got EXCEPT ![c] = Append(@, t)]
    BY <1>1, <1>3, <2>7
  <2> HIDE DEF due, m, n, x
  <2>17. Promise!Deliver(c)
    BY <1>1, <2>13, <2>14, <2>15, <2>16 DEF Promise!Deliver, limits, answered, due, m
  <2>18. QED
    BY <2>17
<1>4. QED
  BY <1>2, <1>3

LEMMA AnswerAnswers ==
  ASSUME RefInv, NEW c \in Clients, Answer(c)
  PROVE  Promise!Answer(c)
<1>1. /\ Stage(c) = "answer" /\ status[c] = "open"
      /\ status' = [status EXCEPT ![c] = "done"] /\ UNCHANGED <<req, made, got>>
  BY DEF Answer, Runs, In, End, daemon
<1>2. Heard(c)
  BY <1>1, AtStage DEF RefInv
<1>3. got[c] = Promise!Trimmed(made[c], limits[c])
  BY <1>2, HeardIsPromised DEF limits
<1>4. ~answered[c]
  BY <1>1 DEF answered
<1>5. answered' = [answered EXCEPT ![c] = TRUE]
  BY <1>1 DEF answered, RefInv, LockInv, StageTypes
<1>6. limits' = limits
  BY <1>1 DEF limits
<1>7. QED
  BY <1>1, <1>3, <1>4, <1>5, <1>6 DEF Promise!Answer, limits, answered

LEMMA GenerateGenerates ==
  ASSUME RefInv, Generate
  PROVE  \E c \in Clients : Promise!Generate(c)
<1>1. /\ job # None /\ job.op = "generate" /\ UNCHANGED <<req, status, got>>
  BY DEF Generate, Executes, handlers
<1>2. PICK c \in Clients : Owed(c) /\ Executed(c) /\ job.from = c
  BY <1>1, AtJob
<1>3. status[c] = "open"
  BY <1>1, <1>2, CommandOp DEF Owed, Executed, RefInv, TokenInv, TokenInvOf
<1>4. \E t \in Tokens : made' = [made EXCEPT ![c] = Append(@, t)]
  <2>1. PICK i \in {StopId, Len(made[c]) + 1} :
          /\ Len(made[c]) < MaxMade
          /\ made' = [made EXCEPT ![c] = Append(@, Item(c, i))]
    BY <1>2 DEF Generate
  <2>2. Len(made[c]) \in Nat
    BY LenProperties DEF RefInv, TokenInv
  <2>3. Item(c, i) \in Tokens
    BY <2>1, <2>2, BoundAssumption DEF Item, Tokens, StopId
  <2>4. QED
    BY <2>1, <2>3
<1>5. ~answered[c] /\ answered' = answered /\ limits' = limits
  BY <1>1, <1>3 DEF answered, limits
<1>6. QED
  BY <1>1, <1>4, <1>5 DEF Promise!Generate, answered, limits


LEMMA EndNotDone ==
  ASSUME LockInv, NEW c \in Clients, NEW how \in {"failed", "refused"}, status[c] = "open",
         End(c, how)
  PROVE  \A d \in Clients : (status'[d] = "done") = (status[d] = "done")
BY DEF LockInv, StageTypes, End

LEMMA StepPromised ==
  ASSUME Steady, RefInv, [Next]_vars
  PROVE  [Promise!Next]_Promise!vars
<1>1. alive /\ strays = 0 /\ \A c \in Clients : ~req[c].stops
  BY DEF RefInv, TokenInv, TokenInvOf
<1>2. CASE UNCHANGED vars
  BY <1>2, SilentPromise DEF vars, handlers, daemon
<1>3. ASSUME NEW c \in Clients,
             \/ Lock(c) \/ SkipSqueeze(c) \/ StartSqueeze(c) \/ Send(c) \/ Yield(c)
             \/ Unlink(c) \/ Unlock(c) \/ Work(c)
      PROVE  UNCHANGED Promise!vars
  <2>1. UNCHANGED <<req, made, got, status>>
    BY <1>1, <1>3
       DEF Lock, SkipSqueeze, StartSqueeze, Send, Yield, Unlink, Unlock, Work, WorkerWrite,
           WorkerRead, daemon
  <2>2. QED
    BY <2>1, SilentPromise
<1>4. ASSUME NEW c \in Clients, EndSqueeze(c) \/ Check(c)
      PROVE  UNCHANGED Promise!vars
  <2>1. /\ UNCHANGED <<req, made, got>> /\ status[c] = "open"
        /\ status' = status \/ End(c, "failed") \/ End(c, "refused")
    BY <1>4 DEF EndSqueeze, Check, Runs, In, daemon
  <2>2. \A d \in Clients : (status'[d] = "done") = (status[d] = "done")
    BY <2>1, EndNotDone DEF RefInv
  <2>3. QED
    BY <2>1, <2>2, SilentPromise
<1>5. ASSUME NEW c \in Clients, Handle(c)
      PROVE  [Promise!Next]_Promise!vars
  <2>1. ~ReadEof(c)
    BY <1>1 DEF ReadEof
  <2>2. QED
    BY <1>3, <1>4, <1>5, <2>1, ReadDelivers, AnswerAnswers DEF Handle, Promise!Next
<1>6. CASE Daemon
  <2>1. CASE Generate
    BY <2>1, GenerateGenerates DEF Promise!Next
  <2>2. CASE ~Generate
    <3>1. UNCHANGED <<req, made, got, status>>
      BY <1>6, <2>2
         DEF Daemon, Take, Park, Unpark, FreeDrafter, Compress, GenerateEnd, handlers
    <3>2. QED
      BY <3>1, SilentPromise
  <2>3. QED
    BY <2>1, <2>2
<1>7. ~StrayRead /\ ~Die /\ \A c \in Clients : ~StopMatch(c) /\ ~Leave(c)
  BY <1>1 DEF Steady, StrayRead, Die, StopMatch, Leave
<1>8. QED
  BY <1>2, <1>3, <1>5, <1>6, <1>7 DEF Next, Idle

LEMMA InitPromised ==
  ASSUME Steady, Init
  PROVE  Promise!Init
<1>1. \A c \in Clients : req[c].limit \in Nat
  BY InitRefInv DEF RefInv, TokenInv, TokenInvOf
<1>2. QED
  BY <1>1 DEF Init, Promise!Init

\* With clients that stay, no stop sequences and a daemon that lives, the
\* handlers of both servers implement Completions: each response is the
\* continuation of its own prompt, cut and whole, though any number of requests
\* share one pipe whose items name nobody.
THEOREM ServersKeepThePromise == Steady => (Spec => Promised)
<1>1. SUFFICES ASSUME Steady PROVE Spec => Promised
  OBVIOUS
<1>2. Init => Promise!Init
  BY <1>1, InitPromised
<1>3. RefInv /\ [Next]_vars => [Promise!Next]_Promise!vars
  BY <1>1, StepPromised
<1>4. Spec => []RefInv
  BY <1>1, AlwaysRefInv
<1>5. QED
  BY <1>2, <1>3, <1>4, PTL DEF Spec, Promised, Promise!Spec


-----------------------------------------------------------------------------
(* The weights                                                             *)

\* What is in VRAM when the daemon has executed k commands of a dance.
After(k) ==
  /\ parked = IF k \in {2, 3, 4} THEN Weights
              ELSE IF k = 1 THEN {"target"} ELSE IF k = 5 THEN {"draft"} ELSE {}
  /\ k # 3 => ~drafter

\* The answer to the command written last is in the pipe.
Acknowledged == pipe # <<>>

\* How many it has executed of the dance of c.
Executions(c) ==
  IF Writing(c) THEN (worker[c] - 1) \div 2
  ELSE IF Acknowledged THEN worker[c] \div 2 ELSE (worker[c] \div 2) - 1

\* The weights are where the dance in progress has left them, and all there is
\* when there is none.
WeightInv ==
  /\ (\A c \in Clients : ~Dancing(c)) => After(0)
  /\ \A c \in Clients : Dancing(c) => After(Executions(c))

LEMMA OneDancer ==
  ASSUME LockInv, TokenInv, NEW c \in Clients, lock = c
  PROVE  \A d \in Clients \ {c} : ~Dancing(d)
BY DrainingNotAsked

LEMMA SameWeightInv ==
  ASSUME WeightInv, UNCHANGED <<worker, parked, drafter>>,
         (\E c \in Clients : Draining(c)) => (Acknowledged' <=> Acknowledged)
  PROVE  WeightInv'
<1>1. \A c \in Clients : /\ Writing(c)' <=> Writing(c)
                         /\ Draining(c)' <=> Draining(c)
                         /\ Dancing(c)' <=> Dancing(c)
  BY DEF Writing, Draining, Dancing
<1>2. \A c \in Clients : Dancing(c) => Executions(c)' = Executions(c)
  BY <1>1 DEF Executions, Dancing
<1>3. \A k : After(k)' <=> After(k)
  BY DEF After
<1>4. QED
  BY <1>1, <1>2, <1>3 DEF WeightInv

\* Of the thread of c alone something changes.
LEMMA OwnWeightInv ==
  ASSUME NEW c \in Clients, \A d \in Clients \ {c} : ~Dancing(d)',
         IF Dancing(c)' THEN After(Executions(c))' ELSE After(0)'
  PROVE  WeightInv'
BY DEF WeightInv

LEMMA StartWeightInv ==
  ASSUME RefInv, WeightInv, NEW c \in Clients, StartSqueeze(c)
  PROVE  WeightInv'
<1>1. /\ Stage(c) = "squeeze" /\ status[c] = "open" /\ worker[c] = 0
      /\ UNCHANGED <<parked, drafter>>
  BY DEF StartSqueeze, Runs, In, daemon
<1>2. lock = c
  BY <1>1, WaitingHolds DEF RefInv, LockInv, Waiting
<1>3. PICK w \in {1, Raised} : worker' = [worker EXCEPT ![c] = w]
  BY DEF StartSqueeze
<1>4. /\ worker[c] \in 0..Raised /\ worker'[c] = w /\ w \in 0..Raised
      /\ \A d \in Clients \ {c} : worker'[d] = worker[d]
  BY <1>3, DanceLength DEF RefInv, LockInv, StageTypes
<1>5. (\A d \in Clients : ~Dancing(d)) /\ \A d \in Clients \ {c} : ~Dancing(d)'
  <2>1. ~Dancing(c)
    BY <1>1, <1>4, DancingRange DEF Dancing
  <2>2. \A d \in Clients \ {c} : ~Dancing(d)
    BY <1>2, OneDancer DEF RefInv
  <2>3. QED
    BY <1>4, <2>1, <2>2 DEF Dancing, Writing, Draining
<1>6. After(0)'
  BY <1>1, <1>5 DEF WeightInv, After
<1>7. Dancing(c)' => Executions(c)' = 0
  <2>1. w = 1 \/ (w = 14 /\ ~Dancing(c)')
    BY <1>4, DanceLength DEF Dancing, Writing, Draining
  <2>2. w = 1 => Writing(c)'
    BY <1>4, DanceLength DEF Writing
  <2>3. QED
    BY <1>4, <2>1, <2>2 DEF Executions
<1>8. After(0)' /\ Executions(c)' = 0 => After(Executions(c))'
  BY DEF After
<1>9. QED
  BY <1>5, <1>6, <1>7, <1>8, OwnWeightInv


LEMMA DancingAt ==
  ASSUME RefInv, NEW c \in Clients
  PROVE  /\ worker \in [Clients -> 0..Raised]
         /\ Writing(c) => worker[c] \in {1, 3, 5, 7, 9, 11} /\ ~Draining(c)
         /\ Draining(c) => worker[c] \in {2, 4, 6, 8, 10, 12} /\ ~Writing(c)
<1>1. worker \in [Clients -> 0..Raised] /\ worker[c] \in 0..Raised
  BY DEF RefInv, LockInv, StageTypes
<1>2. QED
  BY <1>1, DancingRange

LEMMA WriteWeightInv ==
  ASSUME RefInv, WeightInv, NEW c \in Clients, WorkerWrite(c)
  PROVE  WeightInv'
<1>1. /\ Writing(c) /\ Dancing(c) /\ worker[c] \in {1, 3, 5, 7, 9, 11} /\ ~Draining(c)
      /\ worker \in [Clients -> 0..Raised]
  BY DancingAt DEF WorkerWrite, Dancing
<1>2. /\ stdin' = Append(stdin, Line(c, (worker[c] + 1) \div 2))
      /\ worker' = [worker EXCEPT ![c] = worker[c] + 1]
      /\ UNCHANGED <<parked, drafter, pipe>>
  BY DEF WorkerWrite, RefInv, TokenInv, daemon, Line
<1>3. lock = c /\ pipe = <<>>
  BY <1>1, DrainingNotAsked, OnlyHolderOwed DEF RefInv, Owed
<1>4. /\ worker'[c] = worker[c] + 1 /\ worker'[c] \in {2, 4, 6, 8, 10, 12}
      /\ \A d \in Clients \ {c} : worker'[d] = worker[d]
  BY <1>1, <1>2
<1>5. \A d \in Clients \ {c} : ~Dancing(d)'
  BY <1>3, <1>4, OneDancer DEF RefInv, Dancing, Writing, Draining
<1>6. Draining(c)' /\ ~Writing(c)' /\ Dancing(c)'
  BY <1>4, DanceLength DEF Dancing, Writing, Draining
<1>7. ~Acknowledged'
  BY <1>2, <1>3 DEF Acknowledged
<1>8. Executions(c)' = Executions(c)
  <2>1. Executions(c) = (worker[c] - 1) \div 2
    BY <1>1 DEF Executions
  <2>2. Executions(c)' = (worker'[c] \div 2) - 1
    BY <1>6, <1>7 DEF Executions
  <2>3. (worker[c] - 1) \div 2 = ((worker[c] + 1) \div 2) - 1
    BY <1>1
  <2>4. QED
    BY <1>4, <2>1, <2>2, <2>3
<1>9. After(Executions(c))'
  BY <1>1, <1>2, <1>8 DEF WeightInv, After
<1>10. QED
  BY <1>5, <1>6, <1>9, OwnWeightInv

LEMMA ReadWeightInv ==
  ASSUME RefInv, WeightInv, NEW c \in Clients, WorkerRead(c)
  PROVE  WeightInv'
<1>1. /\ Draining(c) /\ Dancing(c) /\ ~Writing(c) /\ worker[c] \in {2, 4, 6, 8, 10, 12}
      /\ worker \in [Clients -> 0..Raised]
      /\ UNCHANGED <<parked, drafter>>
  BY DancingAt DEF WorkerRead, Dancing, daemon
<1>2. pipe # <<>> /\ pipe' = Tail(pipe)
  BY DEF WorkerRead, RefInv, TokenInv
<1>3. CASE Head(pipe).id # Sentinel
  <2>1. pipe = <<Item(c, 1), Item(c, Sentinel)>>
    <3>1. pipe # <<Item(c, Sentinel)>>
      BY <1>3 DEF Item
    <3>2. QED
      BY <3>1, AtWorkerRead
  <2>2. pipe' # <<>>
    BY <1>2, <2>1
  <2>3. worker' = worker
    BY <1>2, <1>3 DEF WorkerRead
  <2>4. QED
    BY <1>1, <1>2, <2>2, <2>3, SameWeightInv DEF Acknowledged
<1>4. CASE Head(pipe).id = Sentinel
  <2>1. worker' = [worker EXCEPT ![c] = worker[c] + 1]
    BY <1>4 DEF WorkerRead
  <2>2. /\ worker'[c] = worker[c] + 1 /\ worker'[c] \in {3, 5, 7, 9, 11, 13}
        /\ \A d \in Clients \ {c} : worker'[d] = worker[d]
    BY <1>1, <2>1
  <2>3. \A d \in Clients \ {c} : ~Dancing(d)'
    BY <2>2, AtWorkerRead, OneDancer DEF RefInv, Dancing, Writing, Draining
  <2>4. After(worker[c] \div 2)
    BY <1>1, <1>2 DEF WeightInv, Executions, Acknowledged
  <2>5. CASE worker[c] = 12
    <3>1. ~Dancing(c)'
      BY <2>2, <2>5, DanceLength DEF Dancing, Writing, Draining
    <3>2. After(6)
      BY <2>4, <2>5
    <3>3. After(0)'
      BY <1>1, <3>2 DEF After
    <3>4. QED
      BY <2>3, <3>1, <3>3, OwnWeightInv
  <2>6. CASE worker[c] # 12
    <3>1. Writing(c)' /\ Dancing(c)'
      BY <1>1, <2>2, <2>6, DanceLength DEF Dancing, Writing
    <3>2. Executions(c)' = worker[c] \div 2
      BY <1>1, <2>2, <3>1 DEF Executions
    <3>3. After(Executions(c))'
      BY <1>1, <2>4, <3>2 DEF After
    <3>4. QED
      BY <2>3, <3>1, <3>3, OwnWeightInv
  <2>7. QED
    BY <2>5, <2>6
<1>5. QED
  BY <1>3, <1>4

\* A command of a dance is executed.
LEMMA CommandWeightInv ==
  ASSUME Reloads, RefInv, WeightInv, Park \/ Unpark \/ FreeDrafter \/ Compress
  PROVE  WeightInv'
<1>1. /\ job # None /\ job' = None /\ UNCHANGED <<req, at, worker, stdin>>
      /\ job.op # "generate"
  BY DEF Park, Unpark, FreeDrafter, Compress, Executes, Finish, handlers, threads
<1>2. PICK c \in Clients : Owed(c) /\ Executed(c)
  BY <1>1, AtJob
<1>3. Draining(c) /\ lock = c /\ job = Line(c, worker[c] \div 2) /\ pipe = <<>>
  BY <1>1, <1>2, CommandOp, OwedHolds DEF RefInv, Executed, Unread, Command
<1>4. worker[c] \in {2, 4, 6, 8, 10, 12} /\ ~Writing(c) /\ Dancing(c)
  BY <1>3, DancingAt DEF Dancing
<1>5. PICK k \in 1..6 : worker[c] = 2 * k /\ worker[c] \div 2 = k
  <2>1. worker[c] \div 2 \in 1..6 /\ worker[c] = 2 * (worker[c] \div 2)
    BY <1>4
  <2>2. QED
    BY <2>1
<1>6. \/ k = 1 /\ job.op = "park" /\ job.arg = "target"
      \/ k = 2 /\ job.op = "park" /\ job.arg = "draft"
      \/ k = 3 /\ job.op = "compress"
      \/ k = 4 /\ job.op = "free"
      \/ k = 5 /\ job.op = "unpark" /\ job.arg = "target"
      \/ k = 6 /\ job.op = "unpark" /\ job.arg = "draft"
  <2>1. job.op = compress_text_via_daemon[k][1] /\ job.arg = compress_text_via_daemon[k][2]
    BY <1>3, <1>5 DEF Line
  <2>2. QED
    BY <2>1, DanceLines
<1>7. After(k - 1)
  BY <1>3, <1>4, <1>5 DEF WeightInv, Executions, Acknowledged
<1>8. After(k)'
  <2>1. CASE Park
    <3>1. parked' = parked \cup {job.arg} /\ drafter' = drafter /\ job.op = "park"
      BY <2>1 DEF Park, Executes
    <3>2. (k = 1 /\ job.arg = "target") \/ (k = 2 /\ job.arg = "draft")
      BY <1>6, <3>1
    <3>3. QED
      BY <1>7, <3>1, <3>2 DEF After, Weights
  <2>2. CASE Unpark
    <3>1. parked' = parked \ {job.arg} /\ drafter' = drafter /\ job.op = "unpark"
      BY <2>2 DEF Unpark, Executes, Reloads
    <3>2. (k = 5 /\ job.arg = "target") \/ (k = 6 /\ job.arg = "draft")
      BY <1>6, <3>1
    <3>3. QED
      BY <1>7, <3>1, <3>2 DEF After, Weights
  <2>3. CASE FreeDrafter
    <3>1. parked' = parked /\ drafter' = FALSE /\ k = 4
      BY <1>6, <2>3 DEF FreeDrafter, Executes
    <3>2. QED
      BY <1>7, <3>1 DEF After
  <2>4. CASE Compress
    <3>1. k = 3
      BY <1>6, <2>4 DEF Compress, Executes
    <3>2. parked = Weights
      BY <1>7, <3>1 DEF After
    <3>3. parked' = Weights
      BY <2>4, <3>2 DEF Compress, Reloads
    <3>4. QED
      BY <3>1, <3>3 DEF After
  <2>5. QED
    BY <2>1, <2>2, <2>3, <2>4
<1>9. \A d \in Clients \ {c} : ~Dancing(d)'
  BY <1>1, <1>3, OneDancer DEF RefInv, Dancing, Writing, Draining
<1>10. Dancing(c)' /\ ~Writing(c)' /\ Executions(c)' = k
  <2>1. Dancing(c)' /\ ~Writing(c)'
    BY <1>1, <1>4 DEF Dancing, Writing, Draining
  <2>2. Acknowledged'
    <3>1. Acks
      BY DEF Acks, Park, Unpark, FreeDrafter, Compress, Executes
    <3>2. UNCHANGED <<status, got, mute, strays, made, alive>>
      BY DEF Park, Unpark, FreeDrafter, Compress, handlers, threads
    <3>3. Answered(c)'
      BY <1>1, <1>2, <3>1, <3>2, AckRefInv
    <3>4. Draining(c)'
      BY <1>1, <1>3, SameDraining
    <3>5. QED
      BY <3>3, <3>4 DEF Answered, Unread, Acknowledged
  <2>3. QED
    BY <1>1, <1>5, <2>1, <2>2 DEF Executions
<1>11. After(Executions(c))'
  BY <1>8, <1>10 DEF After
<1>12. QED
  BY <1>9, <1>10, <1>11, OwnWeightInv


\* While a handler has the lock and does not dance, nobody waits for a command.
LEMMA NobodyDancing ==
  ASSUME RefInv, NEW c \in Clients, lock = c, Stage(c) # "squeeze" \/ Asked(c)
  PROVE  \A d \in Clients : ~Dancing(d)
<1>1. ~Dancing(c)
  BY DrainingNotAsked DEF RefInv, In
<1>2. QED
  BY <1>1, OneDancer DEF RefInv

LEMMA NextWeightInv ==
  ASSUME Steady, Reloads, RefInv, WeightInv, [Next]_vars
  PROVE  WeightInv'
<1>1. alive /\ strays = 0 /\ \A c \in Clients : ~req[c].stops
  BY DEF RefInv, TokenInv, TokenInvOf
<1>2. CASE UNCHANGED vars
  BY <1>2, SameWeightInv DEF vars, handlers, threads, daemon, Acknowledged
<1>3. ASSUME NEW c \in Clients, Handle(c)
      PROVE  WeightInv'
  <2>1. CASE StartSqueeze(c)
    BY <2>1, StartWeightInv
  <2>2. CASE Read(c)
    <3>1. UNCHANGED <<worker, parked, drafter>>
      BY <2>2 DEF Read, threads, daemon
    <3>2. \A d \in Clients : ~Draining(d)
      BY <2>2, AtRead DEF Owed
    <3>3. QED
      BY <3>1, <3>2, SameWeightInv
  <2>3. CASE ~StartSqueeze(c) /\ ~Read(c)
    <3>1. UNCHANGED <<worker, parked, drafter, pipe>>
      BY <1>1, <1>3, <2>3
         DEF Handle, Lock, SkipSqueeze, EndSqueeze, Check, Send, Yield, ReadEof, Unlink, Unlock,
             Answer, threads, daemon
    <3>2. QED
      BY <3>1, SameWeightInv DEF Acknowledged
  <2>4. QED
    BY <2>1, <2>2, <2>3
<1>4. ASSUME NEW c \in Clients, Work(c)
      PROVE  WeightInv'
  BY <1>4, WriteWeightInv, ReadWeightInv DEF Work
<1>5. CASE Daemon
  <2>1. CASE Park \/ Unpark \/ FreeDrafter \/ Compress
    BY <2>1, CommandWeightInv
  <2>2. CASE Take
    BY <2>2, SameWeightInv DEF Take, threads, Acknowledged
  <2>3. CASE Generate \/ GenerateEnd
    <3>1. job # None /\ job.op = "generate" /\ UNCHANGED <<worker, parked, drafter>>
      BY <2>3 DEF Generate, GenerateEnd, Executes, threads
    <3>2. \A d \in Clients : ~Draining(d)
      BY <3>1, AtJob, CommandOp DEF Executed, Owed, RefInv
    <3>3. QED
      BY <3>1, <3>2, SameWeightInv
  <2>4. QED
    BY <1>5, <2>1, <2>2, <2>3 DEF Daemon
<1>6. ~StrayRead /\ ~Die /\ \A c \in Clients : ~StopMatch(c) /\ ~Leave(c)
  BY <1>1 DEF Steady, StrayRead, Die, StopMatch, Leave
<1>7. QED
  BY <1>2, <1>3, <1>4, <1>5, <1>6 DEF Next, Idle

LEMMA InitWeightInv ==
  ASSUME Init
  PROVE  WeightInv
<1>1. \A c \in Clients : ~Dancing(c)
  <2>1. \A c \in Clients : worker[c] = 0 /\ worker[c] \in 0..Raised
    BY DanceLength DEF Init
  <2>2. QED
    BY <2>1, DancingRange DEF Dancing
<1>2. QED
  BY <1>1 DEF Init, WeightInv, After

LEMMA WeightsReady ==
  ASSUME RefInv, WeightInv
  PROVE  ReadyForGenerate
<1> SUFFICES ASSUME job # None, job.op = "generate"
             PROVE  parked = {} /\ ~drafter
  BY DEF ReadyForGenerate
<1>1. PICK c \in Clients : Owed(c) /\ Executed(c)
  BY AtJob
<1>2. Asked(c) /\ lock = c
  BY <1>1, CommandOp, OwedHolds DEF Executed, Owed, RefInv
<1>3. \A d \in Clients : ~Dancing(d)
  BY <1>2, NobodyDancing
<1>4. QED
  BY <1>3 DEF WeightInv, After

\* "The daemon has its target + draft restored and is ready for generate": if
\* besides weights that were parked can be loaded again, every generate command
\* finds them loaded and the drafter gone, whether or not the drafter could be
\* loaded for the dances before it.
THEOREM GenerateFindsTheWeights == Steady /\ Reloads => (Spec => []ReadyForGenerate)
<1>1. SUFFICES ASSUME Steady, Reloads PROVE Spec => []ReadyForGenerate
  OBVIOUS
<1>2. Init => WeightInv
  BY InitWeightInv
<1>3. RefInv /\ WeightInv /\ [Next]_vars => WeightInv'
  BY <1>1, NextWeightInv
<1>4. RefInv /\ WeightInv => ReadyForGenerate
  BY WeightsReady
<1>5. Spec => []RefInv
  BY <1>1, AlwaysRefInv
<1>6. QED
  BY <1>2, <1>3, <1>4, <1>5, PTL DEF Spec

-----------------------------------------------------------------------------
(* Sentinels                                                               *)

\* Where the sentinels of the pipe are.
SentinelsIn(p) == {i \in DOMAIN p : p[i].id = Sentinel}

LEMMA SentinelsFinite ==
  ASSUME NEW p \in Seq(Items)
  PROVE  IsFiniteSet(SentinelsIn(p)) /\ Cardinality(SentinelsIn(p)) \in Nat
<1>1. Len(p) \in Nat /\ SentinelsIn(p) \subseteq 1..Len(p)
  BY DEF SentinelsIn
<1>2. IsFiniteSet(1..Len(p))
  BY <1>1, FS_Interval
<1>3. IsFiniteSet(SentinelsIn(p))
  BY <1>1, <1>2, FS_Subset
<1>4. QED
  BY <1>3, FS_CardinalityType

\* An item read takes at most one sentinel with it, and none if it is a token.
LEMMA SentinelsTail ==
  ASSUME NEW p \in Seq(Items), p # <<>>
  PROVE  /\ Tail(p) \in Seq(Items)
         /\ Cardinality(SentinelsIn(Tail(p))) >= Cardinality(SentinelsIn(p)) - 1
         /\ Head(p).id # Sentinel
              => Cardinality(SentinelsIn(Tail(p))) = Cardinality(SentinelsIn(p))
<1> DEFINE q == Tail(p)
           S == SentinelsIn(p) \ {1}
           T == SentinelsIn(q)
           f == [i \in S |-> i - 1]
<1>1. /\ q \in Seq(Items) /\ Len(p) \in Nat \ {0} /\ Len(q) = Len(p) - 1
      /\ \A i \in 1..Len(q) : q[i] = p[i + 1]
      /\ Head(p) = p[1]
  OBVIOUS
<1> HIDE DEF q
<1>2. S = {i \in 2..Len(p) : p[i].id = Sentinel}
  BY <1>1 DEF SentinelsIn
<1>3. T = {i \in 1..(Len(p) - 1) : p[i + 1].id = Sentinel}
  BY <1>1 DEF SentinelsIn
<1> HIDE DEF S, T
<1>4. f \in Bijection(S, T)
  <2>1. f \in [S -> T]
    BY <1>1, <1>2, <1>3
  <2>2. \A a, b \in S : f[a] = f[b] => a = b
    BY <1>1, <1>2
  <2>3. \A t \in T : \E s \in S : f[s] = t
    <3> SUFFICES ASSUME NEW t \in T PROVE \E s \in S : f[s] = t
      OBVIOUS
    <3>1. t + 1 \in S /\ f[t + 1] = t
      BY <1>1, <1>2, <1>3
    <3>2. QED
      BY <3>1
  <2>4. QED
    BY <2>1, <2>2, <2>3 DEF Bijection, Injection, Surjection, IsInjective
<1>5. IsFiniteSet(SentinelsIn(p)) /\ Cardinality(SentinelsIn(p)) \in Nat
  BY SentinelsFinite
<1>6. /\ IsFiniteSet(S)
      /\ Cardinality(S) = IF 1 \in SentinelsIn(p) THEN Cardinality(SentinelsIn(p)) - 1
                         ELSE Cardinality(SentinelsIn(p))
  BY <1>5, FS_RemoveElement DEF S
<1>7. Cardinality(T) = Cardinality(S)
  BY <1>4, <1>6, FS_Bijection DEF ExistsBijection
<1>8. Head(p).id # Sentinel => 1 \notin SentinelsIn(p)
  BY <1>1 DEF SentinelsIn
<1>9. QED
  BY <1>1, <1>5, <1>6, <1>7, <1>8 DEF T, q

\* Items written leave the sentinels where they are; one at the end is one more.
LEMMA SentinelsWritten ==
  ASSUME NEW p \in Seq(Items), NEW q \in Seq(Items)
  PROVE  /\ p \o q \in Seq(Items)
         /\ Cardinality(SentinelsIn(p \o q)) >= Cardinality(SentinelsIn(p))
         /\ q # <<>> /\ q[Len(q)].id = Sentinel
              => Cardinality(SentinelsIn(p \o q)) >= Cardinality(SentinelsIn(p)) + 1
<1> DEFINE r == p \o q
<1>1. /\ r \in Seq(Items) /\ Len(r) = Len(p) + Len(q) /\ Len(p) \in Nat /\ Len(q) \in Nat
      /\ \A i \in 1..Len(p) : r[i] = p[i]
      /\ \A i \in 1..Len(q) : r[Len(p) + i] = q[i]
  BY ConcatProperties
<1> HIDE DEF r
<1>2. DOMAIN r = 1..Len(r) /\ DOMAIN p = 1..Len(p)
  BY <1>1
<1>3. SentinelsIn(p) \subseteq SentinelsIn(r)
  BY <1>1, <1>2 DEF SentinelsIn
<1>4. /\ IsFiniteSet(SentinelsIn(p)) /\ Cardinality(SentinelsIn(p)) \in Nat
      /\ IsFiniteSet(SentinelsIn(r)) /\ Cardinality(SentinelsIn(r)) \in Nat
  BY <1>1, SentinelsFinite
<1>5. Cardinality(SentinelsIn(r)) >= Cardinality(SentinelsIn(p))
  BY <1>3, <1>4, FS_Subset
<1>6. ASSUME q # <<>>, q[Len(q)].id = Sentinel
      PROVE  Cardinality(SentinelsIn(r)) >= Cardinality(SentinelsIn(p)) + 1
  <2>1. Len(q) > 0
    BY <1>6, EmptySeq
  <2>2. Len(r) \in SentinelsIn(r) /\ Len(r) \notin SentinelsIn(p)
    BY <1>1, <1>2, <1>6, <2>1 DEF SentinelsIn
  <2>3. SentinelsIn(p) \cup {Len(r)} \subseteq SentinelsIn(r)
    BY <1>3, <2>2
  <2>4. /\ IsFiniteSet(SentinelsIn(p) \cup {Len(r)})
        /\ Cardinality(SentinelsIn(p) \cup {Len(r)}) = Cardinality(SentinelsIn(p)) + 1
    BY <1>4, <2>2, FS_AddElement
  <2>5. QED
    BY <1>4, <2>3, <2>4, FS_Subset
<1>7. QED
  BY <1>1, <1>5, <1>6 DEF r

-----------------------------------------------------------------------------
(* Who waits for a sentinel                                                *)

Drainers == {c \in Clients : Draining(c)}

\* Open requests whose command is written and whose answer is not read.
Askers == {c \in Clients : status[c] = "open" /\ Asked(c) /\ ~Heard(c)}

Supply == Cardinality(SentinelsIn(pipe)) + Len(stdin) + (IF job = None THEN 0 ELSE 1)

\* Every command written brings a sentinel, and nobody reads more than his own,
\* a stray read more than one, or none but what is there.
SentinelInv ==
  /\ pipe \in Seq(Items) /\ stdin \in Seq(Commands) /\ job \in Commands \cup {None}
  /\ strays \in Nat
  /\ IsFiniteSet(Drainers) /\ IsFiniteSet(Askers)
  /\ alive => Cardinality(Drainers) + Cardinality(Askers) + strays <= Supply

LEMMA OneMore ==
  ASSUME NEW S, NEW T, NEW x, IsFiniteSet(T), S \subseteq T \cup {x}
  PROVE  IsFiniteSet(S) /\ Cardinality(S) \in Nat /\ Cardinality(S) <= Cardinality(T) + 1
<1>1. /\ IsFiniteSet(T \cup {x}) /\ Cardinality(T) \in Nat
      /\ Cardinality(T \cup {x}) <= Cardinality(T) + 1
  BY FS_AddElement, FS_CardinalityType
<1>2. Cardinality(T \cup {x}) \in Nat
  BY <1>1, FS_CardinalityType
<1>3. IsFiniteSet(S) /\ Cardinality(S) <= Cardinality(T \cup {x})
  BY <1>1, FS_Subset
<1>4. Cardinality(S) \in Nat
  BY <1>3, FS_CardinalityType
<1>5. QED
  BY <1>1, <1>2, <1>3, <1>4

LEMMA Fewer ==
  ASSUME NEW S, NEW T, IsFiniteSet(T), S \subseteq T
  PROVE  /\ IsFiniteSet(S) /\ Cardinality(S) \in Nat /\ Cardinality(S) <= Cardinality(T)
         /\ \A x \in T \ S : Cardinality(S) <= Cardinality(T) - 1
<1>1. IsFiniteSet(S) /\ Cardinality(S) <= Cardinality(T)
  BY FS_Subset
<1>2. Cardinality(S) \in Nat
  BY <1>1, FS_CardinalityType
<1>3. ASSUME NEW x \in T \ S PROVE Cardinality(S) <= Cardinality(T) - 1
  <2>1. S \subseteq T \ {x} /\ IsFiniteSet(T \ {x})
        /\ Cardinality(T \ {x}) = Cardinality(T) - 1
    BY <1>3, FS_RemoveElement
  <2>2. QED
    BY <2>1, FS_Subset
<1>4. QED
  BY <1>1, <1>2, <1>3

LEMMA SentinelNumbers ==
  ASSUME SentinelInv
  PROVE  /\ Cardinality(Drainers) \in Nat /\ Cardinality(Askers) \in Nat
         /\ Cardinality(SentinelsIn(pipe)) \in Nat /\ Len(stdin) \in Nat
         /\ strays \in Nat
BY FS_CardinalityType, SentinelsFinite DEF SentinelInv

\* Those who wait may become fewer while what is under way stays.
LEMMA QuietSentinelInv ==
  ASSUME SentinelInv, UNCHANGED <<pipe, stdin, job, strays>>, alive' => alive,
         Drainers' \subseteq Drainers, Askers' \subseteq Askers
  PROVE  SentinelInv'
<1>1. /\ IsFiniteSet(Drainers') /\ Cardinality(Drainers') <= Cardinality(Drainers)
      /\ IsFiniteSet(Askers') /\ Cardinality(Askers') <= Cardinality(Askers)
      /\ Cardinality(Drainers') \in Nat /\ Cardinality(Askers') \in Nat
  BY Fewer DEF SentinelInv
<1>2. Supply' = Supply /\ Supply \in Nat
  BY SentinelNumbers DEF Supply
<1>3. alive' => Cardinality(Drainers') + Cardinality(Askers') + strays' <= Supply'
  BY <1>1, <1>2, SentinelNumbers DEF SentinelInv
<1>4. QED
  BY <1>1, <1>3 DEF SentinelInv

\* The daemon keeps the number of sentinels that are to come, or adds to it.
LEMMA DaemonSentinelInv ==
  ASSUME SentinelInv, UNCHANGED <<Drainers, Askers, strays>>, alive' => alive,
         pipe' \in Seq(Items), stdin' \in Seq(Commands), job' \in Commands \cup {None},
         alive' => Supply' >= Supply
  PROVE  SentinelInv'
<1>1. Supply \in Nat /\ Supply' \in Nat
  <2>1. Cardinality(SentinelsIn(pipe')) \in Nat /\ Len(stdin') \in Nat
    BY SentinelsFinite
  <2>2. QED
    BY <2>1, SentinelNumbers DEF Supply, SentinelsIn
<1>2. QED
  BY <1>1, SentinelNumbers DEF SentinelInv

\* A handler ends its stage, or the request ends.
LEMMA FewerAskers ==
  ASSUME LockInv, NEW c \in Clients, UNCHANGED req,
         \/ at' = at /\ status' = status
         \/ Advance(c) /\ Stage(c) # "send" /\ status' = status
         \/ at' = at /\ \E how : how # "open" /\ End(c, how)
  PROVE  Askers' \subseteq Askers
<1>1. CASE at' = at /\ status' = status
  BY <1>1, SameBehind DEF Askers
<1>2. CASE Advance(c) /\ Stage(c) # "send" /\ status' = status
  <2>1. (Asked(c)' => Asked(c)) /\ (Heard(c) => Heard(c)')
    BY <1>2, PassedNext DEF Asked, Heard
  <2>2. \A d \in Clients \ {c} : (Asked(d)' <=> Asked(d)) /\ (Heard(d)' <=> Heard(d))
    BY <1>2, PassedNext, SameBehind
  <2>3. QED
    BY <1>2, <2>1, <2>2 DEF Askers
<1>3. CASE at' = at /\ \E how : how # "open" /\ End(c, how)
  <2>1. \A d \in Clients : status'[d] = "open" => status[d] = "open"
    BY <1>3 DEF End, LockInv, StageTypes
  <2>2. \A d \in Clients : (Asked(d)' <=> Asked(d)) /\ (Heard(d)' <=> Heard(d))
    BY <1>3, SameBehind
  <2>3. QED
    BY <2>1, <2>2 DEF Askers
<1>4. QED
  BY <1>1, <1>2, <1>3

LEMMA SameDrainers ==
  ASSUME UNCHANGED worker
  PROVE  Drainers' = Drainers
BY SameDraining DEF Drainers

\* The rest of the handlers: no command, no read.
LEMMA StageSentinelInv ==
  ASSUME LockInv, SentinelInv, NEW c \in Clients,
         (Handle(c) /\ ~Send(c) /\ ~Read(c)) \/ StopMatch(c)
  PROVE  SentinelInv'
<1>1. UNCHANGED <<req, pipe, stdin, job, strays, alive>>
  BY DEF Handle, Lock, SkipSqueeze, StartSqueeze, EndSqueeze, Check, Yield, ReadEof, Unlink,
         Unlock, Answer, StopMatch, threads, daemon
<1>2. Askers' \subseteq Askers
  <2>1. \/ at' = at /\ status' = status
        \/ Advance(c) /\ Stage(c) # "send" /\ status' = status
        \/ at' = at /\ \E how : how # "open" /\ End(c, how)
    <3>1. CASE EndSqueeze(c) \/ Check(c) \/ Answer(c) \/ StartSqueeze(c)
      BY <3>1 DEF EndSqueeze, Check, Answer, StartSqueeze, Runs, In
    <3>2. CASE Lock(c) \/ SkipSqueeze(c) \/ Yield(c) \/ ReadEof(c) \/ Unlink(c) \/ Unlock(c)
               \/ StopMatch(c)
      BY <3>2 DEF Lock, SkipSqueeze, Yield, ReadEof, Unlink, Unlock, StopMatch, Runs, In
    <3>3. QED
      BY <3>1, <3>2 DEF Handle
  <2>2. QED
    BY <1>1, <2>1, FewerAskers
<1>3. Drainers' \subseteq Drainers
  <2>1. CASE worker' = worker
    BY <2>1, SameDrainers
  <2>2. CASE StartSqueeze(c)
    <3>1. PICK w \in {1, Raised} : worker' = [worker EXCEPT ![c] = w]
      BY <2>2 DEF StartSqueeze
    <3>2. worker'[c] \in {1, 14} /\ worker'[c] \in 0..Raised
          /\ \A d \in Clients \ {c} : worker'[d] = worker[d]
      BY <3>1, DanceLength DEF LockInv, StageTypes
    <3>3. ~Draining(c)'
      BY <3>2, DanceLength DEF Draining
    <3>4. QED
      BY <3>2, <3>3, SameDraining DEF Drainers
  <2>3. QED
    BY <2>1, <2>2
       DEF Handle, Lock, SkipSqueeze, EndSqueeze, Check, Yield, ReadEof, Unlink, Unlock,
           Answer, StopMatch, threads
<1>4. QED
  BY <1>1, <1>2, <1>3, QuietSentinelInv

\* A command written: one more who waits, one more sentinel to come.
LEMMA MoreSentinelInv ==
  ASSUME SentinelInv, NEW c \in Clients, NEW line \in Commands,
         stdin' = Append(stdin, line), UNCHANGED <<pipe, job, strays, alive>>,
         \/ Drainers' \subseteq Drainers /\ Askers' \subseteq Askers \cup {c}
         \/ Drainers' \subseteq Drainers \cup {c} /\ Askers' \subseteq Askers
  PROVE  SentinelInv'
<1>1. stdin' \in Seq(Commands) /\ Len(stdin') = Len(stdin) + 1
  BY DEF SentinelInv
<1>2. Supply' = Supply + 1 /\ Supply \in Nat
  BY <1>1, SentinelNumbers DEF Supply
<1>3. /\ IsFiniteSet(Drainers') /\ IsFiniteSet(Askers')
      /\ Cardinality(Drainers') \in Nat /\ Cardinality(Askers') \in Nat
      /\ Cardinality(Drainers') + Cardinality(Askers')
           <= Cardinality(Drainers) + Cardinality(Askers) + 1
  <2>1. CASE Drainers' \subseteq Drainers /\ Askers' \subseteq Askers \cup {c}
    <3>1. /\ IsFiniteSet(Drainers') /\ Cardinality(Drainers') \in Nat
          /\ Cardinality(Drainers') <= Cardinality(Drainers)
      BY <2>1, Fewer DEF SentinelInv
    <3>2. /\ IsFiniteSet(Askers') /\ Cardinality(Askers') \in Nat
          /\ Cardinality(Askers') <= Cardinality(Askers) + 1
      BY <2>1, OneMore DEF SentinelInv
    <3>3. QED
      BY <3>1, <3>2, SentinelNumbers
  <2>2. CASE Drainers' \subseteq Drainers \cup {c} /\ Askers' \subseteq Askers
    <3>1. /\ IsFiniteSet(Askers') /\ Cardinality(Askers') \in Nat
          /\ Cardinality(Askers') <= Cardinality(Askers)
      BY <2>2, Fewer DEF SentinelInv
    <3>2. /\ IsFiniteSet(Drainers') /\ Cardinality(Drainers') \in Nat
          /\ Cardinality(Drainers') <= Cardinality(Drainers) + 1
      BY <2>2, OneMore DEF SentinelInv
    <3>3. QED
      BY <3>1, <3>2, SentinelNumbers
  <2>3. QED
    BY <2>1, <2>2
<1>4. alive' => Cardinality(Drainers') + Cardinality(Askers') + strays' <= Supply'
  <2> SUFFICES ASSUME alive'
               PROVE  Cardinality(Drainers') + Cardinality(Askers') + strays' <= Supply'
    OBVIOUS
  <2>1. Cardinality(Drainers) + Cardinality(Askers) + strays <= Supply
    BY DEF SentinelInv
  <2>2. PICK x \in Nat, y \in Nat, x1 \in Nat, y1 \in Nat, w \in Nat :
          /\ x = Cardinality(Drainers) /\ x1 = Cardinality(Drainers')
          /\ y = Cardinality(Askers) /\ y1 = Cardinality(Askers') /\ w = strays
    BY <1>3, SentinelNumbers, Zenon
  <2>3. x + y + w <= Supply /\ x1 + y1 <= x + y + 1 /\ strays' = w
    BY <1>3, <2>1, <2>2, Zenon
  <2>4. x1 + y1 + w <= Supply'
    BY <1>2, <2>3
  <2>5. QED
    BY <2>2, <2>3, <2>4, Zenon
<1>5. QED
  BY <1>1, <1>3, <1>4 DEF SentinelInv

\* A read: a sentinel is for one who waits, anything else for nobody.
LEMMA LessSentinelInv ==
  ASSUME SentinelInv, NEW c, pipe # <<>>, pipe' = Tail(pipe),
         UNCHANGED <<stdin, job, alive>>, strays' \in {strays, strays - 1} \cap Nat,
         Drainers' \subseteq Drainers, Askers' \subseteq Askers,
         Head(pipe).id = Sentinel =>
           \/ strays' = strays - 1
           \/ c \in (Drainers \ Drainers') \cup (Askers \ Askers')
  PROVE  SentinelInv'
<1>1. /\ pipe' \in Seq(Items)
      /\ Cardinality(SentinelsIn(pipe')) >= Cardinality(SentinelsIn(pipe)) - 1
      /\ Head(pipe).id # Sentinel
           => Cardinality(SentinelsIn(pipe')) = Cardinality(SentinelsIn(pipe))
      /\ Cardinality(SentinelsIn(pipe')) \in Nat
  <2>1. pipe' \in Seq(Items)
    BY SentinelsTail DEF SentinelInv
  <2>2. QED
    BY <2>1, SentinelsTail, SentinelsFinite DEF SentinelInv
<1>2. PICK b \in {0, 1} : /\ Supply = Cardinality(SentinelsIn(pipe)) + Len(stdin) + b
                          /\ Supply' = Cardinality(SentinelsIn(pipe')) + Len(stdin) + b
  BY DEF Supply, SentinelsIn
<1>3. /\ Supply \in Nat /\ Supply' \in Nat /\ Supply' >= Supply - 1
      /\ Head(pipe).id # Sentinel => Supply' = Supply
  <2>1. PICK n \in Nat, m \in Nat, k \in Nat :
          /\ n = Cardinality(SentinelsIn(pipe)) /\ m = Cardinality(SentinelsIn(pipe'))
          /\ k = Len(stdin)
    BY <1>1, SentinelNumbers
  <2>2. m >= n - 1 /\ (Head(pipe).id # Sentinel => m = n)
    BY <1>1, <2>1
  <2>3. Supply = n + k + b /\ Supply' = m + k + b
    BY <1>2, <2>1
  <2>4. QED
    BY <2>2, <2>3
<1>4. /\ IsFiniteSet(Drainers') /\ Cardinality(Drainers') \in Nat
      /\ Cardinality(Drainers') <= Cardinality(Drainers)
      /\ c \in Drainers \ Drainers' => Cardinality(Drainers') <= Cardinality(Drainers) - 1
  BY Fewer DEF SentinelInv
<1>5. /\ IsFiniteSet(Askers') /\ Cardinality(Askers') \in Nat
      /\ Cardinality(Askers') <= Cardinality(Askers)
      /\ c \in Askers \ Askers' => Cardinality(Askers') <= Cardinality(Askers) - 1
  BY Fewer DEF SentinelInv
<1>6. alive' => Cardinality(Drainers') + Cardinality(Askers') + strays' <= Supply'
  <2> SUFFICES ASSUME alive'
               PROVE  Cardinality(Drainers') + Cardinality(Askers') + strays' <= Supply'
    OBVIOUS
  <2>1. Cardinality(Drainers) + Cardinality(Askers) + strays <= Supply
    BY DEF SentinelInv
  <2>2. PICK x \in Nat, y \in Nat, x1 \in Nat, y1 \in Nat, s \in Nat, s1 \in Nat :
          /\ x = Cardinality(Drainers) /\ x1 = Cardinality(Drainers')
          /\ y = Cardinality(Askers) /\ y1 = Cardinality(Askers')
          /\ s = Supply /\ s1 = Supply'
    BY <1>3, <1>4, <1>5, SentinelNumbers, Zenon
  <2>3. PICK w \in Nat, w1 \in Nat : w = strays /\ w1 = strays' /\ w1 \in {w, w - 1}
    BY SentinelNumbers
  <2>4. x1 <= x /\ y1 <= y /\ w1 <= w /\ s1 >= s - 1 /\ x + y + w <= s
    <3>1. x1 <= x /\ y1 <= y /\ s1 >= s - 1 /\ x + y + w <= s
      BY <1>3, <1>4, <1>5, <2>1, <2>2, <2>3, Zenon
    <3>2. QED
      BY <2>3, <3>1
  <2>5. s1 = s \/ w1 = w - 1 \/ x1 <= x - 1 \/ y1 <= y - 1
    <3>1. CASE Head(pipe).id # Sentinel
      BY <1>3, <2>2, <3>1, Zenon
    <3>2. CASE strays' = strays - 1
      BY <2>3, <3>2, Zenon
    <3>3. CASE c \in Drainers \ Drainers'
      BY <1>4, <2>2, <3>3, Zenon
    <3>4. CASE c \in Askers \ Askers'
      BY <1>5, <2>2, <3>4, Zenon
    <3>5. QED
      BY <3>1, <3>2, <3>3, <3>4
  <2>6. x1 + y1 + w1 <= s1
    BY <2>4, <2>5
  <2>7. QED
    BY <2>2, <2>3, <2>6, Zenon
<1>7. QED
  BY <1>1, <1>4, <1>5, <1>6 DEF SentinelInv

\* Who reads the answer to its command has asked and not heard.
LEMMA ReaderAsks ==
  ASSUME LockInv, NEW c \in Clients, In(c, Reads)
  PROVE  c \in Askers
BY HandlersOrdered DEF Ordered, Askers, Asked, Heard, Behind, In, Stage, LockInv, StageTypes

LEMMA DanceArguments ==
  \A k \in 1..6 : /\ compress_text_via_daemon[k][1] \in {"park", "compress", "free", "unpark"}
                  /\ compress_text_via_daemon[k][2] \in {"", "target", "draft", "drafter"}
<1>1. compress_text_via_daemon[3][2] = ""
  BY DEF compress_text_via_daemon
<1>2. compress_text_via_daemon[4][2] = "drafter"
  BY DEF compress_text_via_daemon
<1>3. ASSUME NEW k \in 1..6 PROVE k = 1 \/ k = 2 \/ k = 3 \/ k = 4 \/ k = 5 \/ k = 6
  OBVIOUS
<1>4. QED
  BY <1>1, <1>2, <1>3, DanceLines

LEMMA SendSentinelInv ==
  ASSUME LockInv, SentinelInv, NEW c \in Clients, Send(c)
  PROVE  SentinelInv'
<1>1. UNCHANGED <<req, worker, pipe, job, strays, alive>>
  BY DEF Send, threads, daemon
<1>2. Drainers' = Drainers
  BY <1>1, SameDrainers
<1>3. CASE alive
  <2>1. Advance(c) /\ status' = status
    BY <1>3 DEF Send
  <2>2. \A d \in Clients \ {c} : (Asked(d)' <=> Asked(d)) /\ (Heard(d)' <=> Heard(d))
    BY <1>1, <2>1, PassedNext, SameBehind
  <2>3. Askers' \subseteq Askers \cup {c}
    BY <2>1, <2>2 DEF Askers
  <2>4. PICK line : line = [from |-> c, op |-> "generate", arg |-> ""]
    OBVIOUS
  <2>5. line \in Commands /\ stdin' = Append(stdin, line)
    BY <1>3, <2>4 DEF Send, Commands
  <2>6. QED
    BY <1>1, <1>2, <2>3, <2>5, MoreSentinelInv
<1>4. CASE ~alive
  <2>1. at' = at /\ End(c, "failed") /\ stdin' = stdin
    BY <1>4 DEF Send
  <2>2. Askers' \subseteq Askers
    BY <1>1, <2>1, FewerAskers
  <2>3. QED
    BY <1>1, <1>2, <2>1, <2>2, QuietSentinelInv
<1>5. QED
  BY <1>3, <1>4

LEMMA ReadSentinelInv ==
  ASSUME LockInv, SentinelInv, NEW c \in Clients, Read(c)
  PROVE  SentinelInv'
<1>1. /\ pipe # <<>> /\ pipe' = Tail(pipe)
      /\ UNCHANGED <<req, status, worker, stdin, job, strays, alive>>
  BY DEF Read, threads, daemon
<1>2. In(c, Reads)
  BY DEF Read, Runs, Reads
<1>3. Drainers' = Drainers
  BY <1>1, SameDrainers
<1>4. strays' \in {strays, strays - 1} \cap Nat
  BY <1>1 DEF SentinelInv
<1>5. CASE Head(pipe).id = Sentinel
  <2>1. Advance(c) /\ Stage(c) \in Reads
    BY <1>2, <1>5 DEF Read, In
  <2>2. Askers' \subseteq Askers
    BY <1>1, <2>1, FewerAskers DEF Reads
  <2>3. Heard(c)'
    BY <1>1, <2>1, PassedNext DEF Heard
  <2>4. c \in Askers \ Askers'
    BY <1>2, <2>3, ReaderAsks DEF Askers
  <2>5. QED
    BY <1>1, <1>3, <1>4, <2>2, <2>4, LessSentinelInv
<1>6. CASE Head(pipe).id # Sentinel
  <2>1. at' = at
    BY <1>6 DEF Read
  <2>2. Askers' \subseteq Askers
    BY <1>1, <2>1, FewerAskers
  <2>3. QED
    BY <1>1, <1>3, <1>4, <1>6, <2>2, LessSentinelInv
<1>7. QED
  BY <1>5, <1>6

LEMMA LeaveSentinelInv ==
  ASSUME LockInv, SentinelInv, NEW c \in Clients, Leave(c)
  PROVE  SentinelInv'
<1>1. UNCHANGED <<req, at, worker, pipe, stdin, job, alive>> /\ End(c, "gone")
  BY DEF Leave, daemon
<1>2. Drainers' = Drainers
  BY <1>1, SameDrainers
<1>3. Askers' \subseteq Askers
  BY <1>1, FewerAskers
<1>4. CASE strays' = strays
  BY <1>1, <1>2, <1>3, <1>4, QuietSentinelInv
<1>5. CASE strays' = strays + 1 /\ Stage(c) = "read"
  <2>1. status'[c] # "open"
    BY <1>1 DEF End, LockInv, StageTypes
  <2>2. c \in Askers \ Askers'
    BY <1>5, <2>1, ReaderAsks DEF Askers, Leave, Runs, In, Reads
  <2>3. /\ IsFiniteSet(Askers') /\ Cardinality(Askers') \in Nat
        /\ Cardinality(Askers') <= Cardinality(Askers) - 1
    BY <1>3, <2>2, Fewer DEF SentinelInv
  <2>4. Supply' = Supply /\ Supply \in Nat
    BY <1>1, SentinelNumbers DEF Supply
  <2>5. strays' \in Nat /\ (alive' =>
          Cardinality(Drainers') + Cardinality(Askers') + strays' <= Supply')
    BY <1>1, <1>2, <1>5, <2>3, <2>4, SentinelNumbers DEF SentinelInv
  <2>6. QED
    BY <1>1, <1>2, <2>3, <2>5 DEF SentinelInv
<1>6. QED
  BY <1>4, <1>5 DEF Leave

\* The thread of the dance.
LEMMA WorkSentinelInv ==
  ASSUME LockInv, SentinelInv, NEW c \in Clients, Work(c)
  PROVE  SentinelInv'
<1>1. UNCHANGED <<req, at, status, strays, job, alive>>
  BY DEF Work, WorkerWrite, WorkerRead, daemon
<1>2. Askers' \subseteq Askers
  BY <1>1, FewerAskers
<1>3. worker \in [Clients -> 0..Raised] /\ worker[c] \in 0..Raised
  BY DEF LockInv, StageTypes
<1>4. \A d \in Clients \ {c} : worker'[d] = worker[d]
  BY <1>3 DEF Work, WorkerWrite, WorkerRead
<1>5. Drainers' \subseteq Drainers \cup {c}
  BY <1>4, SameDraining DEF Drainers
<1>6. CASE WorkerWrite(c) /\ alive
  <2>1. worker[c] \in {1, 3, 5, 7, 9, 11}
    BY <1>3, <1>6, DancingRange DEF WorkerWrite
  <2>2. (worker[c] + 1) \div 2 \in 1..6
    BY <2>1
  <2>3. PICK k \in 1..6 : k = (worker[c] + 1) \div 2
    BY <2>2
  <2>4. PICK line : line = Line(c, k)
    OBVIOUS
  <2>5. line \in Commands
    BY <2>3, <2>4, DanceArguments DEF Line, Commands
  <2>6. stdin' = Append(stdin, line) /\ pipe' = pipe
    BY <1>6, <2>3, <2>4 DEF WorkerWrite, Line
  <2>7. QED
    BY <1>1, <1>2, <1>5, <2>5, <2>6, MoreSentinelInv
<1>7. CASE WorkerWrite(c) /\ ~alive
  <2>1. worker'[c] = Raised /\ UNCHANGED <<pipe, stdin>>
    BY <1>3, <1>7 DEF WorkerWrite
  <2>2. ~Draining(c)'
    BY <2>1, DanceLength DEF Draining
  <2>3. Drainers' \subseteq Drainers
    BY <1>5, <2>2 DEF Drainers
  <2>4. QED
    BY <1>1, <1>2, <2>1, <2>3, QuietSentinelInv
<1>8. CASE WorkerRead(c)
  <2>1. c \in Drainers /\ Drainers' \subseteq Drainers /\ stdin' = stdin
    BY <1>5, <1>8 DEF WorkerRead, Drainers
  <2>2. CASE pipe = <<>>
    BY <1>1, <1>2, <1>8, <2>1, <2>2, QuietSentinelInv DEF WorkerRead
  <2>3. CASE pipe # <<>>
    <3>1. pipe' = Tail(pipe) /\ strays' \in {strays, strays - 1} \cap Nat
      BY <1>1, <1>8, <2>3 DEF WorkerRead, SentinelInv
    <3>2. ASSUME Head(pipe).id = Sentinel PROVE c \in Drainers \ Drainers'
      <4>1. worker[c] \in {2, 4, 6, 8, 10, 12}
        BY <1>3, <2>1, DancingRange DEF Drainers
      <4>2. worker'[c] = worker[c] + 1
        BY <1>3, <1>8, <3>2 DEF WorkerRead
      <4>3. worker'[c] \in {3, 5, 7, 9, 11, 13}
        BY <4>1, <4>2
      <4>4. ~Draining(c)'
        BY <4>3, DanceLength DEF Draining
      <4>5. QED
        BY <2>1, <4>4 DEF Drainers
    <3>3. QED
      BY <1>1, <1>2, <2>1, <2>3, <3>1, <3>2, LessSentinelInv
  <2>4. QED
    BY <2>2, <2>3
<1>9. QED
  BY <1>6, <1>7, <1>8 DEF Work

\* What the daemon does to no handler.
LEMMA SameWaiting ==
  ASSUME UNCHANGED <<req, at, status, worker>>
  PROVE  Drainers' = Drainers /\ Askers' = Askers
<1>1. \A d \in Clients : (Asked(d)' <=> Asked(d)) /\ (Heard(d)' <=> Heard(d))
  BY SameBehind
<1>2. QED
  BY <1>1, SameDrainers DEF Askers

LEMMA AckSentinelInv ==
  ASSUME SentinelInv, job # None, Acks,
         UNCHANGED <<req, at, status, worker, stdin, strays, alive>>
  PROVE  SentinelInv'
<1>1. job \in Commands /\ job.from \in Clients
  BY DEF SentinelInv, Commands
<1>2. PICK x \in Items, y \in Items :
        x = Item(job.from, 1) /\ y = Item(job.from, Sentinel) /\ y.id = Sentinel
  <2>1. Sentinel \in Int
    BY DEF Sentinel
  <2>2. Item(job.from, 1) \in Items /\ Item(job.from, Sentinel) \in Items
    BY <1>1, <2>1 DEF Items, Item
  <2>3. Item(job.from, Sentinel).id = Sentinel
    BY DEF Item
  <2>4. QED
    BY <2>2, <2>3
<1>3. (pipe' = pipe \o <<y>> \/ pipe' = pipe \o <<x, y>>) /\ job' = None
  BY <1>2, Ended, Scored DEF Acks, Finish, Emit
<1>4. PICK q \in Seq(Items) : q # <<>> /\ q[Len(q)].id = Sentinel /\ pipe' = pipe \o q
  <2>1. <<y>> \in Seq(Items) /\ <<y>> # <<>> /\ Len(<<y>>) = 1 /\ <<y>>[1] = y
    OBVIOUS
  <2>2. <<x, y>> \in Seq(Items) /\ <<x, y>> # <<>> /\ Len(<<x, y>>) = 2 /\ <<x, y>>[2] = y
    OBVIOUS
  <2>3. CASE pipe' = pipe \o <<y>>
    BY <1>2, <2>1, <2>3
  <2>4. CASE pipe' = pipe \o <<x, y>>
    BY <1>2, <2>2, <2>4
  <2>5. QED
    BY <1>3, <2>3, <2>4
<1>5. /\ pipe' \in Seq(Items) /\ Cardinality(SentinelsIn(pipe')) \in Nat
      /\ Cardinality(SentinelsIn(pipe')) >= Cardinality(SentinelsIn(pipe)) + 1
  <2>1. pipe' \in Seq(Items)
    BY <1>4, SentinelsWritten DEF SentinelInv
  <2>2. Cardinality(SentinelsIn(pipe')) >= Cardinality(SentinelsIn(pipe)) + 1
    BY <1>4, SentinelsWritten DEF SentinelInv
  <2>3. QED
    BY <2>1, <2>2, SentinelsFinite
<1>6. Supply = Cardinality(SentinelsIn(pipe)) + Len(stdin) + 1
      /\ Supply' = Cardinality(SentinelsIn(pipe')) + Len(stdin) + 0
  BY <1>3 DEF Supply, SentinelsIn
<1>7. Supply' >= Supply
  BY <1>5, <1>6, SentinelNumbers
<1>8. stdin' \in Seq(Commands) /\ job' \in Commands \cup {None}
  BY <1>3 DEF SentinelInv
<1>9. QED
  BY <1>5, <1>7, <1>8, SameWaiting, DaemonSentinelInv

LEMMA DaemonKeepsSentinelInv ==
  ASSUME SentinelInv, Daemon
  PROVE  SentinelInv'
<1>1. UNCHANGED <<req, at, status, worker, strays, alive>>
  BY DEF Daemon, Take, Park, Unpark, FreeDrafter, Compress, Generate, GenerateEnd, handlers,
         threads
<1>2. CASE Take
  <2>1. /\ job = None /\ stdin # <<>> /\ job' = Head(stdin) /\ stdin' = Tail(stdin)
        /\ pipe' = pipe
    BY <1>2 DEF Take
  <2>2. /\ job' \in Commands /\ stdin' \in Seq(Commands) /\ Len(stdin') = Len(stdin) - 1
    BY <2>1 DEF SentinelInv
  <2>3. job' # None
    BY <2>2, NoneAssumption
  <2>4. /\ Supply = Cardinality(SentinelsIn(pipe)) + Len(stdin) + 0
        /\ Supply' = Cardinality(SentinelsIn(pipe)) + Len(stdin') + 1
    BY <2>1, <2>3 DEF Supply, SentinelsIn
  <2>5. Supply' >= Supply
    BY <2>2, <2>4, SentinelNumbers
  <2>6. pipe' \in Seq(Items)
    BY <2>1 DEF SentinelInv
  <2>7. QED
    BY <1>1, <2>2, <2>5, <2>6, SameWaiting, DaemonSentinelInv
<1>3. CASE Park \/ Unpark \/ FreeDrafter \/ Compress \/ GenerateEnd
  <2>1. job # None /\ Acks /\ stdin' = stdin
    BY <1>3 DEF Park, Unpark, FreeDrafter, Compress, GenerateEnd, Executes, Acks
  <2>2. QED
    BY <1>1, <2>1, AckSentinelInv
<1>4. CASE Generate
  <2>1. job # None /\ job' = job /\ stdin' = stdin
    BY <1>4 DEF Generate, Executes
  <2>2. PICK i \in Nat : Emit(<<i>>)
    BY <1>4 DEF Generate, Executes, StopId
  <2>3. job.from \in Clients
    BY <2>1 DEF SentinelInv, Commands
  <2>4. PICK q \in Seq(Items) : pipe' = pipe \o q
    <3>1. [k \in DOMAIN <<i>> |-> Item(job.from, <<i>>[k])] = <<Item(job.from, i)>>
      OBVIOUS
    <3>2. <<Item(job.from, i)>> \in Seq(Items)
      BY <2>3 DEF Items, Item
    <3>3. QED
      BY <2>2, <3>1, <3>2 DEF Emit
  <2>5. /\ pipe' \in Seq(Items)
        /\ Cardinality(SentinelsIn(pipe')) >= Cardinality(SentinelsIn(pipe))
    BY <2>4, SentinelsWritten DEF SentinelInv
  <2>6. Cardinality(SentinelsIn(pipe')) \in Nat
    BY <2>5, SentinelsFinite
  <2>7. PICK b \in {0, 1} : /\ Supply = Cardinality(SentinelsIn(pipe)) + Len(stdin) + b
                            /\ Supply' = Cardinality(SentinelsIn(pipe')) + Len(stdin) + b
    BY <2>1 DEF Supply, SentinelsIn
  <2>8. Supply' >= Supply
    <3>1. PICK n \in Nat, m \in Nat, k \in Nat :
            /\ n = Cardinality(SentinelsIn(pipe)) /\ m = Cardinality(SentinelsIn(pipe'))
            /\ k = Len(stdin)
      BY <2>6, SentinelNumbers
    <3>2. m >= n /\ Supply = n + k + b /\ Supply' = m + k + b
      BY <2>5, <2>7, <3>1
    <3>3. QED
      BY <3>2
  <2>9. stdin' \in Seq(Commands) /\ job' \in Commands \cup {None}
    BY <2>1 DEF SentinelInv
  <2>10. QED
    BY <1>1, <2>5, <2>8, <2>9, SameWaiting, DaemonSentinelInv
<1>5. QED
  BY <1>2, <1>3, <1>4 DEF Daemon

LEMMA NextSentinelInv == LockInv /\ SentinelInv /\ [Next]_vars => SentinelInv'
<1> SUFFICES ASSUME LockInv, SentinelInv, [Next]_vars PROVE SentinelInv'
  OBVIOUS
<1>1. ASSUME NEW c \in Clients, Handle(c) \/ StopMatch(c) PROVE SentinelInv'
  BY <1>1, StageSentinelInv, SendSentinelInv, ReadSentinelInv
<1>2. ASSUME NEW c \in Clients, Work(c) PROVE SentinelInv'
  BY <1>2, WorkSentinelInv
<1>3. ASSUME NEW c \in Clients, Leave(c) PROVE SentinelInv'
  BY <1>3, LeaveSentinelInv
<1>4. CASE StrayRead
  <2>1. /\ UNCHANGED <<req, at, status, worker, stdin, job, alive>>
        /\ strays > 0 /\ strays' = strays - 1
        /\ pipe # <<>> \/ ~alive
        /\ pipe' = IF pipe = <<>> THEN pipe ELSE Tail(pipe)
    BY <1>4 DEF StrayRead, handlers, daemon
  <2>2. Drainers' = Drainers /\ Askers' = Askers
    BY <2>1, SameWaiting
  <2>3. strays' \in {strays, strays - 1} \cap Nat
    BY <2>1 DEF SentinelInv
  <2>4. CASE pipe # <<>>
    BY <2>1, <2>2, <2>3, <2>4, LessSentinelInv
  <2>5. CASE pipe = <<>>
    BY <2>1, <2>2, <2>3, <2>5 DEF SentinelInv
  <2>6. QED
    BY <2>4, <2>5
<1>5. CASE Daemon
  BY <1>5, DaemonKeepsSentinelInv
<1>6. CASE Die
  <2>1. /\ UNCHANGED <<req, at, status, worker, strays, pipe>>
        /\ stdin' = <<>> /\ job' = None /\ ~alive'
    BY <1>6 DEF Die, handlers, threads
  <2>2. stdin' \in Seq(Commands)
    BY <2>1, EmptySeq
  <2>3. QED
    BY <2>1, <2>2, SameWaiting DEF SentinelInv
<1>7. CASE Idle \/ UNCHANGED vars
  <2>1. UNCHANGED <<req, at, status, worker, strays, pipe, stdin, job, alive>>
    BY <1>7 DEF Idle, vars, handlers, threads, daemon
  <2>2. QED
    BY <2>1, SameWaiting, QuietSentinelInv
<1>8. QED
  BY <1>1, <1>2, <1>3, <1>4, <1>5, <1>6, <1>7 DEF Next

\* Whoever waits for a sentinel gets one while the daemon lives: of those that
\* are written, being answered or in the pipe there is one for each thread and
\* handler at _drain_until_sentinel or a token loop, and for each read left on
\* its thread by a client that went away, with any number of clients.
THEOREM SentinelsForAllWaiting == Spec => []SentinelsSuffice
<1>1. Init => SentinelInv
  <2> SUFFICES ASSUME Init PROVE SentinelInv
    OBVIOUS
  <2>1. LockInv
    BY InitLockInv
  <2>2. Drainers = {}
    BY <2>1, DancingRange, DanceLength DEF Drainers, Init
  <2>3. Askers = {}
    BY DEF Askers, Asked, Behind, Passed, Init
  <2>4. pipe = <<>> /\ stdin = <<>> /\ job = None /\ strays = 0
    BY DEF Init
  <2>5. SentinelsIn(pipe) = {} /\ Len(stdin) = 0
    BY <2>4 DEF SentinelsIn
  <2>6. Supply = 0
    BY <2>4, <2>5, FS_EmptySet DEF Supply
  <2>7. pipe \in Seq(Items) /\ stdin \in Seq(Commands)
    BY <2>4, EmptySeq
  <2>8. QED
    BY <2>2, <2>3, <2>4, <2>6, <2>7, FS_EmptySet DEF SentinelInv
<1>2. LockInv /\ SentinelInv /\ [Next]_vars => SentinelInv'
  BY NextSentinelInv
<1>3. LockInv /\ SentinelInv => SentinelsSuffice
  <2> SUFFICES ASSUME LockInv, SentinelInv, alive
               PROVE  Cardinality(Drainers) + Cardinality({c \in Clients : In(c, Reads)}) + strays
                        <= Supply
    BY DEF SentinelsSuffice, Drainers, Reads, Supply, SentinelsIn
  <2> DEFINE reading == {c \in Clients : In(c, Reads)}
  <2>1. reading \subseteq Askers
    BY ReaderAsks
  <2>2. Cardinality(reading) \in Nat /\ Cardinality(reading) <= Cardinality(Askers)
    BY <2>1, Fewer DEF SentinelInv
  <2>3. Supply \in Nat
    BY SentinelNumbers DEF Supply
  <2> HIDE DEF reading
  <2>4. Cardinality(Drainers) + Cardinality(reading) + strays <= Supply
    BY <2>2, <2>3, SentinelNumbers DEF SentinelInv
  <2>5. QED
    BY <2>4 DEF reading
<1>4. QED
  BY <1>1, <1>2, <1>3, AlwaysLockInv, PTL DEF Spec
=============================================================================
