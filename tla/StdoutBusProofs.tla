--------------------------- MODULE StdoutBusProofs ---------------------------
(***************************************************************************)
(* A theorem about StdoutBus, for any number of calls, prompts and slots:  *)
(* the index of the cache and the slots of the daemon agree whenever       *)
(* nobody is under way.                                                    *)
(***************************************************************************)
EXTENDS StdoutBus, SequenceTheorems, WellFoundedInduction, TLAPS

-----------------------------------------------------------------------------
(* The order of an LRU index, a sequence of distinct keys                  *)

\* pop removes the key and nothing else, whether or not it is there.
LEMMA PopDropsKey ==
  ASSUME NEW S, NEW s \in Seq(S), IsInjective(s), NEW k
  PROVE  /\ Pop(s, k) \in Seq(S) /\ IsInjective(Pop(s, k))
         /\ ToSet(Pop(s, k)) = ToSet(s) \ {k}
         /\ Len(Pop(s, k)) = Len(s) - (IF k \in ToSet(s) THEN 1 ELSE 0)
<1>1. CASE k \notin ToSet(s)
  BY <1>1 DEF Pop
<1>2. CASE k \in ToSet(s)
  <2>1. PICK i \in 1..Len(s) : i = Position(s, k) /\ s[i] = k
    BY <1>2 DEF Position, ToSet
  <2>2. PICK r, a, b : r = Pop(s, k) /\ a = SubSeq(s, 1, i - 1) /\ b = SubSeq(s, i + 1, Len(s))
    OBVIOUS
  <2>3. a \in Seq(S) /\ Len(a) = i - 1 /\ \A j \in 1..(i - 1) : a[j] = s[j]
    BY <2>2, SubSeqProperties
  <2>4. b \in Seq(S) /\ Len(b) = Len(s) - i /\ \A j \in 1..(Len(s) - i) : b[j] = s[i + j]
    BY <2>2, SubSeqProperties
  <2>5. r = a \o b
    BY <1>2, <2>1, <2>2 DEF Pop, RemoveAt
  <2>6. r \in Seq(S) /\ Len(r) = Len(s) - 1 /\ DOMAIN r = 1..(Len(s) - 1) /\ DOMAIN s = 1..Len(s)
    BY <2>3, <2>4, <2>5, ConcatProperties
  <2>7. \A j \in DOMAIN r : r[j] = s[IF j < i THEN j ELSE j + 1]
    <3>1. \A j \in 1..Len(a) : r[j] = a[j]
      BY <2>3, <2>4, <2>5, ConcatProperties
    <3>2. \A j \in (Len(a) + 1)..(Len(a) + Len(b)) : r[j] = b[j - Len(a)]
      BY <2>3, <2>4, <2>5, ConcatProperties
    <3>3. ASSUME NEW j \in DOMAIN r, j < i PROVE r[j] = s[j]
      BY <2>3, <2>6, <3>1, <3>3
    <3>4. ASSUME NEW j \in DOMAIN r, j >= i PROVE r[j] = s[j + 1]
      <4>1. PICK n \in Nat : n = Len(s)
        OBVIOUS
      <4>2. j \in 1..(n - 1) /\ i \in 1..n /\ Len(a) = i - 1 /\ Len(b) = n - i
        BY <2>3, <2>4, <2>6, <4>1
      <4>3. PICK h : h = j - (i - 1)
        OBVIOUS
      <4>4. h \in 1..(n - i) /\ i + h = j + 1 /\ j \in ((i - 1) + 1)..((i - 1) + (n - i))
        BY <3>4, <4>2, <4>3
      <4>5. r[j] = b[h] /\ b[h] = s[i + h]
        BY <2>4, <3>2, <4>1, <4>2, <4>3, <4>4
      <4>6. QED
        BY <4>4, <4>5
    <3>5. QED
      BY <2>6, <3>3, <3>4
  <2>8. PICK from \in [DOMAIN r -> DOMAIN s \ {i}] :
          /\ \A j \in DOMAIN r : r[j] = s[from[j]]
          /\ \A j, h \in DOMAIN r : from[j] = from[h] => j = h
          /\ \A j \in DOMAIN s \ {i} : \E h \in DOMAIN r : from[h] = j
    <3> DEFINE f == [j \in DOMAIN r |-> IF j < i THEN j ELSE j + 1]
    <3>1. f \in [DOMAIN r -> DOMAIN s \ {i}] /\ \A j \in DOMAIN r : r[j] = s[f[j]]
      BY <2>6, <2>7
    <3>2. \A j, h \in DOMAIN r : f[j] = f[h] => j = h
      BY <2>6
    <3>3. ASSUME NEW j \in DOMAIN s \ {i} PROVE \E h \in DOMAIN r : f[h] = j
      <4>1. CASE j < i
        BY <2>6, <3>3, <4>1
      <4>2. CASE j > i
        <5>1. j - 1 \in DOMAIN r /\ f[j - 1] = j
          BY <2>6, <3>3, <4>2
        <5>2. QED
          BY <5>1
      <4>3. QED
        BY <2>6, <3>3, <4>1, <4>2
    <3> HIDE DEF f
    <3>4. QED
      BY <3>1, <3>2, <3>3
  <2>9. IsInjective(r)
    BY <2>8 DEF IsInjective
  <2>10. ToSet(r) = ToSet(s) \ {k}
    BY <2>1, <2>6, <2>8 DEF ToSet, IsInjective
  <2>11. QED
    BY <1>2, <2>2, <2>6, <2>9, <2>10
<1>3. QED
  BY <1>1, <1>2

\* Appending a key that is not in the order.
LEMMA AppendFresh ==
  ASSUME NEW S, NEW s \in Seq(S), IsInjective(s), NEW k \in S, k \notin ToSet(s)
  PROVE  /\ Append(s, k) \in Seq(S)
         /\ IsInjective(Append(s, k))
         /\ ToSet(Append(s, k)) = ToSet(s) \cup {k}
         /\ Len(Append(s, k)) = Len(s) + 1
  BY DEF IsInjective, ToSet

\* Inserting a key keeps the order free of duplicates.
LEMMA InsertAddsKey ==
  ASSUME NEW S, NEW s \in Seq(S), IsInjective(s), NEW k \in S
  PROVE  /\ Insert(s, k) \in Seq(S)
         /\ IsInjective(Insert(s, k))
         /\ ToSet(Insert(s, k)) = ToSet(s) \cup {k}
         /\ Len(Insert(s, k)) = Len(s) + (IF k \in ToSet(s) THEN 0 ELSE 1)
<1>1. CASE k \in ToSet(s)
  BY <1>1 DEF Insert
<1>2. CASE k \notin ToSet(s)
  BY <1>2, AppendFresh DEF Insert
<1>3. QED
  BY <1>1, <1>2

-----------------------------------------------------------------------------
(* The inductive invariant                                                 *)

\* Nothing has happened after which the property says nothing.
Live ==
  /\ alive /\ cap > 0 /\ stage[Startup] # "failed"
  /\ \A c \in Calls : stage[c] # "dropped" /\ (cap > 1 => stage[c] \notin {"freed", "failed"})

StageNames ==
  {"begin", "slots", "tokens", "slot", "freed", "abort", "done", "failed", "dropped"}

\* Acknowledgements come in time, or a call that gives up is the last that counts.
Punctual == "slow" \notin faults \/ cap > 1

Commands ==
  [op : {"LIST_SLOTS"}, acks : {"slots"}] \cup
  [op : {"FREE_SNAPSHOT"}, slot : Slot, acks : {"freed"}] \cup
  [op : {"prefill"}, from : Calls, acks : {None}] \cup
  [op : {"SNAPSHOT"}, slot : Slot, acks : {"slot"}]

TypeOK ==
  /\ cap \in 1..DAEMON_MAX_SLOTS
  /\ lru \in Seq(Prompts) /\ slotOf \in [ToSet(lru) -> 0..(cap - 1)]
  /\ nextSlot \in 0..(cap - 1)
  /\ pendingEvict \in Prompts \cup {None}
  /\ lock \in Tasks \cup {None}
  /\ stage \in [Tasks -> {"begin", "slots", "tokens", "slot", "freed", "done", "failed"}]
  /\ call \in [Calls -> [prompt : Prompts, consumed : BOOLEAN, slot : Slot \cup {None}]]
  /\ orphans \subseteq Slot
  /\ reply \in [Tasks -> Lines \cup {None}]
  /\ reading
  /\ stdin \in Seq(Commands) /\ stdout \in Seq(Lines)
  /\ bins \subseteq Calls
  /\ cache \in Prompts \cup {None} /\ slots \in [Slot -> Prompts \cup {None}]

\* The lock is held by whoever is under way; calls are made of a server that is up.
Busy(t) == stage[t] \in {"slots", "tokens", "slot", "freed"}
LockInv ==
  /\ \A t \in Tasks : Busy(t) <=> lock = t
  /\ stage[Startup] \in {"begin", "slots", "freed", "done"}
  /\ \A c \in Calls : stage[c] \in {"begin", "tokens", "slot", "freed", "done", "failed"}
  /\ stage[Startup] # "done" => \A c \in Calls : stage[c] = "begin"

\* Only the holder of the lock waits, for what its stage is named after, or has a reply.
Waiting(t) == waiters = <<[prefix |-> stage[t], task |-> t]>> /\ reply[t] = None
WaitInv ==
  /\ waiters = <<>> \/ (lock # None /\ Waiting(lock))
  /\ \A t \in Tasks : t # lock => reply[t] = None

\* What is left to a slow daemon is the end of an earlier call.
Ends(last) == stdin # <<>> /\ Last(stdin) = last
SnapCommand(slot) == [op |-> "SNAPSHOT", slot |-> slot, acks |-> "slot"]
PrefillCommand(c) == [op |-> "prefill", from |-> c, acks |-> None]
ListCommand == [op |-> "LIST_SLOTS", acks |-> "slots"]
Quiesced == stdin = <<>> /\ stdout = <<>>

\* Startup: the slots not yet freed are orphans.
InUse == {s \in Slot : slots[s] # None}
SyncInv ==
  /\ stage[Startup] # "done" =>
       lru = <<>> /\ nextSlot = 0 /\ bins = {} /\ pendingEvict = None
  /\ stage[Startup] = "begin" => Quiesced /\ waiters = <<>>
  /\ stage[Startup] = "slots" =>
       \/ Waiting(Startup) /\ stdin = <<ListCommand>> /\ stdout = <<>>
       \/ /\ Waiting(Startup) /\ stdin = <<>>
          /\ stdout = <<[prefix |-> "slots", listed |-> InUse]>>
       \/ Quiesced /\ waiters = <<>> /\ reply[Startup] = [prefix |-> "slots", listed |-> InUse]
  /\ stage[Startup] = "freed" =>
       /\ orphans # {}
       /\ \/ /\ Waiting(Startup) /\ stdin = <<FreeLine(Min(orphans))>> /\ stdout = <<>>
             /\ InUse \subseteq orphans
          \/ /\ Waiting(Startup) /\ stdin = <<>> /\ stdout = <<[prefix |-> "freed"]>>
             /\ InUse \subseteq orphans \ {Min(orphans)}
          \/ /\ Quiesced /\ waiters = <<>> /\ reply[Startup] # None
             /\ InUse \subseteq orphans \ {Min(orphans)}

\* The slots of the index are distinct, and below cap the first ones.
Reserving == lock \in Calls
IndexInv ==
  /\ IsInjective(lru) /\ Len(lru) <= cap
  /\ \A k, l \in Cached : slotOf[k] = slotOf[l] => k = l
  /\ Len(lru) < cap =>
       /\ \A k \in Cached : slotOf[k] < Len(lru)
       /\ nextSlot = IF Reserving THEN (Len(lru) + 1) % cap ELSE Len(lru)
  /\ Reserving =>
       /\ call[lock].prompt \notin Cached
       /\ IF Len(lru) < cap THEN pendingEvict = None /\ call[lock].slot = Len(lru)
          ELSE pendingEvict = Oldest(lru) /\ call[lock].slot = slotOf[Oldest(lru)]

\* A slot holds what the index says.
Agrees(s) ==
  IF slots[s] = None THEN \A k \in Cached : slotOf[k] # s
  ELSE slots[s] \in Cached /\ slotOf[slots[s]] = s

\* The slots that no command under way is about.
Target == IF Reserving THEN call[lock].slot ELSE 0
OthersAgree == \A s \in Slot : s # Target => Agrees(s)

\* Nobody holds the lock.
FreeInv ==
  IF Punctual THEN Quiesced /\ waiters = <<>> /\ Agrees(0)
  ELSE IF lru = <<>> THEN Ends(FreeLine(0)) \/ (stdin = <<>> /\ slots[0] = None)
  ELSE \/ stdin = <<SnapCommand(0)>> /\ cache = lru[1]
       \/ stdin = <<>> /\ slots[0] = lru[1]

\* c waits for its tokens.
TokensInv(c) ==
  /\ c \in bins /\ waiters = <<>> /\ reply[c] = None
  /\ \/ stdin = <<>> /\ cache = call[c].prompt
     \/ Ends(PrefillCommand(c)) /\ (Punctual => stdin = <<PrefillCommand(c)>>)
  /\ Punctual => stdout = <<>> /\ Agrees(call[c].slot)

\* c waits for the acknowledgement of its snapshot.
SlotInv(c) ==
  LET p == call[c].prompt
      s == call[c].slot
  IN  /\ c \in bins
      /\ IF Punctual
         THEN \/ /\ Waiting(c) /\ stdout = <<>>
                 /\ \/ stdin = <<PrefillCommand(c), SnapCommand(s)>>
                    \/ stdin = <<SnapCommand(s)>> /\ cache = p
                    \/ stdin = <<>>
              \/ /\ Waiting(c) /\ stdin = <<>> /\ stdout = <<[prefix |-> "slot"]>>
                 /\ slots[s] = p
              \/ /\ Quiesced /\ waiters = <<>> /\ slots[s] = p
         ELSE /\ cache = p
              /\ stdin = <<SnapCommand(s)>> \/ (stdin = <<>> /\ slots[s] = p)

\* c waits for its slot to be freed.
FreedInv(c) ==
  LET s == call[c].slot
  IN  IF Punctual
      THEN \/ /\ Waiting(c) /\ Ends(FreeLine(s))
              /\ \A i \in 1..(Len(stdin) - 1) : stdin[i].op # "FREE_SNAPSHOT"
              /\ \A i \in DOMAIN stdout : stdout[i].prefix # "freed"
           \/ /\ Waiting(c) /\ stdin = <<>> /\ slots[s] = None
              /\ stdout # <<>> /\ Last(stdout).prefix = "freed"
              /\ \A i \in 1..(Len(stdout) - 1) : stdout[i].prefix # "freed"
           \/ Quiesced /\ waiters = <<>> /\ slots[s] = None
      ELSE Ends(FreeLine(s)) \/ (stdin = <<>> /\ slots[s] = None)

CallInv ==
  stage[Startup] = "done" =>
    /\ OthersAgree
    /\ lock = None => FreeInv
    /\ \A c \in Calls :
         /\ stage[c] = "tokens" => TokensInv(c)
         /\ stage[c] = "slot" => SlotInv(c)
         /\ stage[c] = "freed" => FreedInv(c)

\* Commands in stdin are about the slots there are.
BusInv ==
  /\ "slow" \in faults => "fail" \notin faults /\ \A c \in Calls : call[c].consumed
  /\ stage[Startup] = "done" =>
       \A i \in DOMAIN stdin :
         /\ stdin[i].op # "LIST_SLOTS"
         /\ stdin[i].op \in {"FREE_SNAPSHOT", "SNAPSHOT"} => stdin[i].slot = Target

Good == TypeOK /\ LockInv /\ WaitInv /\ SyncInv /\ IndexInv /\ CallInv /\ BusInv
Inv == stage \in [Tasks -> StageNames] /\ (Live => Good)

-----------------------------------------------------------------------------
(* Sequences                                                               *)

\* A non-empty set of naturals has a minimum.
LEMMA MinOfNaturals ==
  ASSUME NEW S \in SUBSET Nat, S # {}
  PROVE  Min(S) \in S /\ \A x \in S : Min(S) <= x
<1>1. PICK m \in S : \A x \in S : <<x, m>> \notin OpToRel(<, Nat)
  BY WFMin, NatLessThanWellFounded, Zenon
<1>2. \A x \in S : ~(x < m)
  BY <1>1, Zenon DEF OpToRel
<1>3. \A x \in S : m <= x
  BY <1>2
<1>4. QED
  BY <1>3 DEF Min

LEMMA OneMore ==
  ASSUME NEW S, NEW s \in Seq(S), NEW x \in S
  PROVE  /\ s \o <<x>> \in Seq(S) /\ s \o <<x>> # <<>> /\ Len(s \o <<x>>) = Len(s) + 1
         /\ Last(s \o <<x>>) = x
         /\ \A i \in 1..Len(s) : (s \o <<x>>)[i] = s[i]
         /\ Append(s, x) = s \o <<x>>
         /\ s = <<>> => s \o <<x>> = <<x>>
<1>1. s \o <<x>> \in Seq(S) /\ Len(s \o <<x>>) = Len(s) + 1
  OBVIOUS
<1>2. \A i \in 1..Len(s) : (s \o <<x>>)[i] = s[i]
  OBVIOUS
<1>3. (s \o <<x>>)[Len(s) + 1] = x
  OBVIOUS
<1>4. Append(s, x) = s \o <<x>>
  OBVIOUS
<1>5. s = <<>> => s \o <<x>> = <<x>>
  OBVIOUS
<1>6. QED
  BY <1>1, <1>2, <1>3, <1>4, <1>5 DEF Last

LEMMA Appended ==
  ASSUME NEW S, NEW s \in Seq(S), NEW x \in S
  PROVE  /\ Append(s, x) \in Seq(S) /\ Append(s, x) # <<>> /\ Len(Append(s, x)) = Len(s) + 1
         /\ Last(Append(s, x)) = x
         /\ \A i \in 1..Len(s) : Append(s, x)[i] = s[i]
<1>1. PICK t : t = s \o <<x>>
  OBVIOUS
<1>2. /\ t \in Seq(S) /\ t # <<>> /\ Len(t) = Len(s) + 1 /\ Last(t) = x
      /\ \A i \in 1..Len(s) : t[i] = s[i]
      /\ Append(s, x) = t
  BY <1>1, OneMore
<1>3. QED
  BY <1>2

LEMMA OneLess ==
  ASSUME NEW S, NEW s \in Seq(S), s # <<>>
  PROVE  /\ Tail(s) \in Seq(S) /\ Head(s) = s[1] /\ s[1] \in S /\ Last(s) \in S
         /\ Len(s) \in Nat /\ Len(s) >= 1 /\ Len(Tail(s)) = Len(s) - 1
         /\ DOMAIN s = 1..Len(s) /\ DOMAIN Tail(s) = 1..(Len(s) - 1)
         /\ \A i \in 1..(Len(s) - 1) : Tail(s)[i] = s[i + 1]
         /\ Len(s) = 1 => Tail(s) = <<>> /\ Head(s) = Last(s)
         /\ Len(s) > 1 => Tail(s) # <<>> /\ Last(Tail(s)) = Last(s)
<1>1. /\ Tail(s) \in Seq(S) /\ Head(s) = s[1] /\ Len(s) \in Nat /\ Len(s) >= 1
      /\ Len(Tail(s)) = Len(s) - 1
      /\ \A i \in 1..(Len(s) - 1) : Tail(s)[i] = s[i + 1]
      /\ DOMAIN s = 1..Len(s) /\ DOMAIN Tail(s) = 1..(Len(s) - 1)
  OBVIOUS
<1>2. s[1] \in S /\ s[Len(s)] \in S
  BY <1>1
<1>3. Len(s) = 1 => Tail(s) = <<>>
  BY <1>1
<1>4. Len(s) = 1 => Head(s) = s[Len(s)]
  BY <1>1
<1>5. Len(s) > 1 => Tail(s) # <<>> /\ Tail(s)[Len(Tail(s))] = s[Len(s)]
  <2> SUFFICES ASSUME Len(s) > 1 PROVE Tail(s) # <<>> /\ Tail(s)[Len(Tail(s))] = s[Len(s)]
    OBVIOUS
  <2>1. Tail(s) # <<>>
    <3>1. Len(Tail(s)) # 0 /\ Len(<<>>) = 0
      BY <1>1
    <3>2. QED
      BY <3>1
  <2>2. Len(s) - 1 \in 1..(Len(s) - 1) /\ (Len(s) - 1) + 1 = Len(s)
    BY <1>1
  <2>3. Tail(s)[Len(s) - 1] = s[(Len(s) - 1) + 1]
    BY <1>1, <2>2
  <2>4. QED
    BY <1>1, <2>1, <2>2, <2>3
<1>6. QED
  BY <1>1, <1>2, <1>3, <1>4, <1>5 DEF Last

LEMMA TwoItems ==
  ASSUME NEW x, NEW y
  PROVE  <<x>> \o <<y>> = <<x, y>>
<1> DEFINE S == {x, y}
           a == <<x>>
           b == <<y>>
           t == <<x, y>>
<1>1. /\ a \in Seq(S) /\ Len(a) = 1 /\ a[1] = x
      /\ b \in Seq(S) /\ Len(b) = 1 /\ b[1] = y
  OBVIOUS
<1>2. t \in Seq(S) /\ Len(t) = 2 /\ t[1] = x /\ t[2] = y
  OBVIOUS
<1> HIDE DEF a, b, t
<1>3. /\ a \o b \in Seq(S) /\ Len(a \o b) = Len(a) + Len(b)
      /\ \A i \in 1..(Len(a) + Len(b)) :
           (a \o b)[i] = IF i <= Len(a) THEN a[i] ELSE b[i - Len(a)]
  BY <1>1, ConcatProperties
<1>4. Len(a \o b) = 2 /\ (a \o b)[1] = x /\ (a \o b)[2] = y
  BY <1>1, <1>3
<1>5. a \o b = t
  <2>1. \A i \in 1..Len(a \o b) : (a \o b)[i] = t[i]
    BY <1>2, <1>4
  <2>2. QED
    BY <1>2, <1>3, <1>4, <2>1, SeqEqual
<1>6. QED
  BY <1>5 DEF a, b, t

\* A single waiter leaves, or gets its line.
LEMMA NobodyLeft ==
  ASSUME NEW w, NEW t, w.task = t, waiters = <<>> \/ waiters = <<w>>
  PROVE  Without(t) = <<>>
<1>1. CASE waiters = <<>>
  BY <1>1 DEF Without, RemoveFirstMatch
<1>2. CASE waiters = <<w>>
  <2>1. RemoveAt(<<w>>, 1) = <<>>
    BY DEF RemoveAt
  <2>2. {i \in 1..1 : <<w>>[i].task = t} = {1}
    OBVIOUS
  <2>3. Min({1}) = 1
    BY DEF Min
  <2>4. SelectInSeq(<<w>>, LAMBDA x : x.task = t) = 1
    BY <2>2, <2>3 DEF SelectInSeq
  <2>5. QED
    BY <1>2, <2>1, <2>4 DEF Without, RemoveFirstMatch
<1>3. QED
  BY <1>1, <1>2

\* The holder of the lock gives up.
LEMMA LeavesNobody ==
  ASSUME WaitInv, NEW t, lock = t
  PROVE  Without(t) = <<>>
<1> DEFINE w == [prefix |-> stage[t], task |-> t]
<1>1. waiters = <<>> \/ waiters = <<w>>
  BY DEF WaitInv, Waiting
<1>2. w.task = t
  OBVIOUS
<1>3. QED
  BY <1>1, <1>2, NobodyLeft

-----------------------------------------------------------------------------
(* What ends for good                                                      *)
LEMMA StageNext ==
  ASSUME [Next]_vars
  PROVE  \/ UNCHANGED stage
         \/ \E t \in Tasks, to \in StageNames :
              /\ stage' = [stage EXCEPT ![t] = to]
              /\ stage[t] \notin {"failed", "dropped"}
              /\ t \in Calls /\ stage[t] = "freed" => to \in {"failed", "dropped"}
<1> DEFINE Step(t, to) ==
      /\ stage' = [stage EXCEPT ![t] = to]
      /\ stage[t] \notin {"failed", "dropped"}
      /\ t \in Calls /\ stage[t] = "freed" => to \in {"failed", "dropped"}
<1>0. Startup \in Tasks /\ Startup \notin Calls /\ Calls \subseteq Tasks
  BY StartupAssumption DEF Tasks
<1>1. CASE RouteLine \/ RouteEof \/ Execute \/ Die \/ Quiet \/ UNCHANGED vars
  BY <1>1 DEF RouteLine, RouteEof, Execute, Die, Quiet, vars
<1>2. CASE StartSync
  <2>1. Step(Startup, "slots") \/ Step(Startup, "failed")
    BY <1>0, <1>2 DEF StartSync
  <2>2. QED
    BY <1>0, <2>1 DEF StageNames
<1>3. CASE SkipSync
  <2>1. Step(Startup, "done")
    BY <1>0, <1>3 DEF SkipSync
  <2>2. QED
    BY <1>0, <2>1 DEF StageNames
<1>4. CASE SyncReply
  <2>1. Step(Startup, "done") \/ Step(Startup, "freed") \/ Step(Startup, "failed")
    BY <1>0, <1>4 DEF SyncReply, FreeNext
  <2>2. QED
    BY <1>0, <2>1 DEF StageNames
<1>5. CASE SyncFails
  <2>1. Step(Startup, "failed")
    BY <1>0, <1>5 DEF SyncFails
  <2>2. QED
    BY <1>0, <2>1 DEF StageNames
<1>6. ASSUME NEW c \in Calls, Maybe(c) \/ Cancel(c) \/ CancelRecovery(c)
      PROVE  \E to \in StageNames : Step(c, to)
  <2>1. \/ Step(c, "done") \/ Step(c, "tokens") \/ Step(c, "abort") \/ Step(c, "slot")
        \/ Step(c, "freed") \/ Step(c, "failed") \/ Step(c, "dropped")
    BY <1>6 DEF Maybe, Skip, Prefill, Snapshot, Confirm, Recover, Cancel, Undo, Abort, CancelRecovery
  <2>2. QED
    BY <2>1 DEF StageNames
<1>7. QED
  BY <1>0, <1>1, <1>2, <1>3, <1>4, <1>5, <1>6 DEF Next, Sync
LEMMA LiveBefore ==
  ASSUME stage \in [Tasks -> StageNames], [Next]_vars, Live'
  PROVE  Live
<1>0. Startup \in Tasks /\ Startup \notin Calls /\ Calls \subseteq Tasks
  BY StartupAssumption DEF Tasks
<1>1. alive /\ UNCHANGED cap
  BY DEF Next, RouteLine, RouteEof, Sync, StartSync, SkipSync, SyncReply, SyncFails, Maybe, Skip,
         Prefill, Snapshot, Confirm, Recover, Cancel, Undo, Abort, CancelRecovery, Execute, Die,
         Quiet, vars, daemon, Live
<1>2. stage[Startup] # "failed"
  BY <1>0, StageNext DEF Live
<1>3. \A c \in Calls : stage[c] # "dropped" /\ (cap > 1 => stage[c] \notin {"freed", "failed"})
  BY <1>0, <1>1, StageNext DEF Live
<1>4. QED
  BY <1>1, <1>2, <1>3 DEF Live

LEMMA StageTyped ==
  ASSUME stage \in [Tasks -> StageNames], [Next]_vars
  PROVE  stage' \in [Tasks -> StageNames]
BY StageNext

\* Somebody under way has the lock, and nobody else is.
LEMMA Alone ==
  ASSUME TypeOK, LockInv, NEW t \in Tasks, Busy(t)
  PROVE  /\ lock = t
         /\ \A u \in Tasks : u # t => ~Busy(u)
         /\ t \in Calls => stage[Startup] = "done"
BY DEF LockInv, Busy

-----------------------------------------------------------------------------
(* The bus                                                                 *)

\* A line goes to the one waiter, if it has the right prefix.
LEMMA RouteLineIs ==
  ASSUME TypeOK, LockInv, WaitInv, RouteLine
  PROVE  /\ stdout # <<>> /\ stdout' = Tail(stdout)
         /\ UNCHANGED <<faults, cap, index, lock, stage, call, orphans, reading, stdin, bins,
                        daemon>>
         /\ \/ /\ UNCHANGED <<waiters, reply>>
               /\ waiters = <<>> \/ Head(stdout).prefix # stage[lock]
            \/ /\ lock # None /\ Waiting(lock) /\ Head(stdout).prefix = stage[lock]
               /\ waiters' = <<>> /\ reply' = [reply EXCEPT ![lock] = Head(stdout)]
<1> DEFINE fit == {i \in DOMAIN waiters : waiters[i].prefix = Head(stdout).prefix}
           w == [prefix |-> stage[lock], task |-> lock]
<1>1. /\ stdout # <<>> /\ stdout' = Tail(stdout)
      /\ UNCHANGED <<faults, cap, index, lock, stage, call, orphans, reading, stdin, bins, daemon>>
      /\ IF fit = {} THEN UNCHANGED <<waiters, reply>>
         ELSE /\ reply' = [reply EXCEPT ![waiters[Min(fit)].task] = Head(stdout)]
              /\ waiters' = RemoveAt(waiters, Min(fit))
  BY DEF RouteLine
<1>2. CASE waiters = <<>>
  <2>1. fit = {}
    BY <1>2
  <2>2. QED
    BY <1>1, <1>2, <2>1
<1>3. CASE waiters # <<>>
  <2>1. lock # None /\ Waiting(lock) /\ waiters = <<w>>
    BY <1>3 DEF WaitInv, Waiting
  <2>2. CASE Head(stdout).prefix # stage[lock]
    <3>1. fit = {}
      BY <2>1, <2>2
    <3>2. QED
      BY <1>1, <2>2, <3>1
  <2>3. CASE Head(stdout).prefix = stage[lock]
    <3>1. fit = {1}
      BY <2>1, <2>3
    <3>2. Min({1}) = 1
      BY DEF Min
    <3>3. waiters[1].task = lock
      BY <2>1
    <3>4. RemoveAt(waiters, 1) = <<>>
      BY <2>1 DEF RemoveAt
    <3>5. QED
      BY <1>1, <2>1, <2>3, <3>1, <3>2, <3>3, <3>4
  <2>4. QED
    BY <2>2, <2>3
<1>4. QED
  BY <1>2, <1>3

\* What a step leaves of the index as it was.
LEMMA SameIndex ==
  ASSUME IndexInv, UNCHANGED <<cap, index, lock, call>>
  PROVE  IndexInv'
BY DEF IndexInv, index, Cached, Reserving

LEMMA SameAgreement ==
  ASSUME UNCHANGED <<slots, slotOf>>, NEW s
  PROVE  Agrees(s)' <=> Agrees(s)
BY DEF Agrees, Cached

LEMMA RouteLineGood == ASSUME Good, Live, RouteLine PROVE Good'
<1>1. /\ stdout # <<>> /\ stdout' = Tail(stdout)
      /\ UNCHANGED <<faults, cap, index, lock, stage, call, orphans, reading, stdin, bins, daemon>>
      /\ UNCHANGED <<lru, slotOf, nextSlot, pendingEvict, cache, slots, alive>>
      /\ \/ /\ UNCHANGED <<waiters, reply>>
            /\ waiters = <<>> \/ Head(stdout).prefix # stage[lock]
         \/ /\ lock # None /\ Waiting(lock) /\ Head(stdout).prefix = stage[lock]
            /\ waiters' = <<>> /\ reply' = [reply EXCEPT ![lock] = Head(stdout)]
  BY RouteLineIs DEF Good, index, daemon
<1>2. TypeOK /\ LockInv /\ WaitInv /\ SyncInv /\ IndexInv /\ CallInv /\ BusInv
  BY DEF Good
<1>3. stdout' \in Seq(Lines) /\ Head(stdout) \in Lines /\ Len(stdout) >= 1
  BY <1>1, <1>2, OneLess DEF TypeOK
<1>4. reply' \in [Tasks -> Lines \cup {None}]
  BY <1>1, <1>2, <1>3 DEF TypeOK
<1>5. TypeOK'
  BY <1>1, <1>2, <1>3, <1>4 DEF TypeOK
<1>6. LockInv'
  BY <1>1, <1>2 DEF LockInv, Busy
<1>7. WaitInv'
  BY <1>1, <1>2, <1>4 DEF WaitInv, Waiting, TypeOK
<1>8. IndexInv' /\ \A s : Agrees(s)' <=> Agrees(s)
  BY <1>1, <1>2, SameIndex, SameAgreement
<1>9. BusInv'
  BY <1>1, <1>2 DEF BusInv, Target, Reserving
<1>10. SyncInv'
  <2>1. stage[Startup] # "begin"
    BY <1>1, <1>2 DEF SyncInv, Quiesced
  <2>2. stage[Startup] \in {"slots", "freed"} => lock = Startup /\ Startup \in Tasks
    BY <1>2, Alone DEF Busy, Tasks
  <2>3. ASSUME stage[Startup] = "slots"
        PROVE  /\ Quiesced' /\ waiters' = <<>>
               /\ reply'[Startup] = [prefix |-> "slots", listed |-> InUse]
    <3>1. /\ Waiting(Startup) /\ stdin = <<>>
          /\ stdout = <<[prefix |-> "slots", listed |-> InUse]>>
      BY <1>1, <1>2, <2>3 DEF SyncInv, Quiesced
    <3>2. Head(stdout) = [prefix |-> "slots", listed |-> InUse] /\ Tail(stdout) = <<>>
      BY <3>1
    <3>3. waiters # <<>>
      BY <3>1 DEF Waiting
    <3>4. waiters' = <<>> /\ reply' = [reply EXCEPT ![Startup] = Head(stdout)]
      BY <1>1, <2>2, <2>3, <3>2, <3>3
    <3>5. QED
      BY <1>1, <1>2, <2>2, <2>3, <3>1, <3>2, <3>4 DEF Quiesced, TypeOK
  <2>4. ASSUME stage[Startup] = "freed"
        PROVE  /\ Quiesced' /\ waiters' = <<>> /\ reply'[Startup] # None
               /\ InUse \subseteq orphans \ {Min(orphans)}
    <3>1. /\ Waiting(Startup) /\ stdin = <<>> /\ stdout = <<[prefix |-> "freed"]>>
          /\ InUse \subseteq orphans \ {Min(orphans)}
      BY <1>1, <1>2, <2>4 DEF SyncInv, Quiesced
    <3>2. Head(stdout) = [prefix |-> "freed"] /\ Tail(stdout) = <<>>
      BY <3>1
    <3>3. waiters # <<>>
      BY <3>1 DEF Waiting
    <3>4. waiters' = <<>> /\ reply' = [reply EXCEPT ![Startup] = Head(stdout)]
      BY <1>1, <2>2, <2>4, <3>2, <3>3
    <3>5. reply'[Startup] # None
      BY <1>2, <1>3, <2>2, <2>4, <3>4, NoneAssumption DEF TypeOK
    <3>6. QED
      BY <1>1, <3>1, <3>2, <3>4, <3>5 DEF Quiesced
  <2>5. QED
    BY <1>1, <1>2, <2>1, <2>3, <2>4 DEF SyncInv, InUse
<1>11. CallInv'
  <2> SUFFICES ASSUME stage[Startup] = "done" PROVE CallInv'
    BY <1>1 DEF CallInv
  <2>1. OthersAgree'
    BY <1>1, <1>2, <1>8 DEF CallInv, OthersAgree, Target, Reserving
  <2>2. lock = None => FreeInv'
    BY <1>1, <1>2, <1>8 DEF CallInv, FreeInv, Quiesced, Punctual, Ends
  <2>3. ASSUME NEW c \in Calls, stage[c] = "tokens" PROVE TokensInv(c)'
    <3>1. TokensInv(c) /\ UNCHANGED <<waiters, reply>>
      BY <1>1, <1>2, <2>3 DEF CallInv, TokensInv, Waiting
    <3>2. QED
      BY <1>1, <1>2, <1>8, <2>3, <3>1 DEF TokensInv, Punctual, Ends
  <2>4. ASSUME NEW c \in Calls, stage[c] = "slot" PROVE SlotInv(c)'
    <3>1. SlotInv(c)
      BY <1>2, <2>4 DEF CallInv
    <3>2. CASE Punctual
      <4>1. lock = c
        BY <1>2, <2>4, Alone DEF Busy, Tasks
      <4>2. /\ Waiting(c) /\ stdin = <<>> /\ stdout = <<[prefix |-> "slot"]>>
            /\ slots[call[c].slot] = call[c].prompt
        BY <1>1, <3>1, <3>2 DEF SlotInv, Quiesced
      <4>3. Head(stdout) = [prefix |-> "slot"] /\ Tail(stdout) = <<>> /\ waiters # <<>>
        BY <4>2 DEF Waiting
      <4>4. waiters' = <<>>
        BY <1>1, <2>4, <4>1, <4>3
      <4>5. QED
        BY <1>1, <3>1, <3>2, <4>2, <4>3, <4>4 DEF SlotInv, Quiesced, Punctual
    <3>3. CASE ~Punctual
      BY <1>1, <3>1, <3>3 DEF SlotInv, Punctual
    <3>4. QED
      BY <3>2, <3>3
  <2>5. ASSUME NEW c \in Calls, stage[c] = "freed" PROVE FreedInv(c)'
    <3>1. FreedInv(c)
      BY <1>2, <2>5 DEF CallInv
    <3>2. CASE Punctual
      <4>1. lock = c
        BY <1>2, <2>5, Alone DEF Busy, Tasks
      <4>2. /\ Tail(stdout) \in Seq(Lines) /\ Head(stdout) = stdout[1]
            /\ Len(stdout) \in Nat /\ Len(stdout) >= 1 /\ Len(Tail(stdout)) = Len(stdout) - 1
            /\ DOMAIN stdout = 1..Len(stdout) /\ DOMAIN Tail(stdout) = 1..(Len(stdout) - 1)
            /\ \A i \in 1..(Len(stdout) - 1) : Tail(stdout)[i] = stdout[i + 1]
            /\ Len(stdout) = 1 => Tail(stdout) = <<>> /\ Head(stdout) = Last(stdout)
            /\ Len(stdout) > 1 => Tail(stdout) # <<>> /\ Last(Tail(stdout)) = Last(stdout)
        BY <1>1, <1>2, OneLess DEF TypeOK
      <4>3. CASE /\ Waiting(c) /\ Ends(FreeLine(call[c].slot))
                 /\ \A i \in 1..(Len(stdin) - 1) : stdin[i].op # "FREE_SNAPSHOT"
                 /\ \A i \in DOMAIN stdout : stdout[i].prefix # "freed"
        <5>1. UNCHANGED <<waiters, reply>>
          BY <1>1, <2>5, <4>1, <4>2, <4>3
        <5>2. \A i \in DOMAIN stdout' : stdout'[i].prefix # "freed"
          BY <1>1, <4>2, <4>3
        <5>3. QED
          BY <1>1, <3>2, <4>3, <5>1, <5>2 DEF FreedInv, Punctual, Waiting, Ends, FreeLine
      <4>4. CASE /\ Waiting(c) /\ stdin = <<>> /\ slots[call[c].slot] = None
                 /\ stdout # <<>> /\ Last(stdout).prefix = "freed"
                 /\ \A i \in 1..(Len(stdout) - 1) : stdout[i].prefix # "freed"
        <5>1. CASE Len(stdout) = 1
          <6>1. waiters # <<>>
            BY <4>4 DEF Waiting
          <6>2. waiters' = <<>> /\ Tail(stdout) = <<>>
            BY <1>1, <2>5, <4>1, <4>2, <4>4, <5>1, <6>1
          <6>3. QED
            BY <1>1, <3>2, <4>4, <6>2 DEF FreedInv, Punctual, Quiesced
        <5>2. CASE Len(stdout) > 1
          <6>1. UNCHANGED <<waiters, reply>>
            BY <1>1, <2>5, <4>1, <4>2, <4>4, <5>2
          <6>2. /\ stdout' # <<>> /\ Last(stdout').prefix = "freed"
                /\ \A i \in 1..(Len(stdout') - 1) : stdout'[i].prefix # "freed"
            BY <1>1, <4>2, <4>4, <5>2
          <6>3. QED
            BY <1>1, <3>2, <4>4, <6>1, <6>2 DEF FreedInv, Punctual, Waiting
        <5>3. QED
          BY <4>2, <5>1, <5>2
      <4>5. QED
        BY <1>1, <3>1, <3>2, <4>3, <4>4 DEF FreedInv, Quiesced
    <3>3. CASE ~Punctual
      BY <1>1, <3>1, <3>3 DEF FreedInv, Punctual, Ends, FreeLine
    <3>4. QED
      BY <3>2, <3>3
  <2>6. QED
    BY <1>1, <2>1, <2>2, <2>3, <2>4, <2>5 DEF CallInv
<1>12. QED
  BY <1>5, <1>6, <1>7, <1>8, <1>9, <1>10, <1>11 DEF Good

-----------------------------------------------------------------------------
(* startup_sync                                                            *)

LEMMA CommandsTyped ==
  /\ ListCommand \in Commands
  /\ \A s \in Slot : FreeLine(s) \in Commands /\ SnapCommand(s) \in Commands
  /\ \A c \in Calls : PrefillCommand(c) \in Commands
BY DEF Commands, ListCommand, FreeLine, SnapCommand, PrefillCommand

\* The keys of an order.
LEMMA OrderKeys ==
  ASSUME NEW S, NEW s \in Seq(S)
  PROVE  /\ Len(s) \in Nat /\ DOMAIN s = 1..Len(s)
         /\ \A i \in 1..Len(s) : s[i] \in ToSet(s) /\ s[i] \in S
         /\ \A k \in ToSet(s) : k \in S
         /\ s = <<>> => ToSet(s) = {}
         /\ Len(s) = 0 <=> s = <<>>
         /\ Len(s) = 1 => ToSet(s) = {s[1]}
<1>2. /\ Len(s) \in Nat /\ DOMAIN s = 1..Len(s) /\ (Len(s) = 0 <=> s = <<>>)
      /\ \A i \in 1..Len(s) : s[i] \in S
  OBVIOUS
<1>3. \A k : k \in ToSet(s) <=> \E i \in 1..Len(s) : s[i] = k
  BY <1>2 DEF ToSet
<1>5. s = <<>> => ToSet(s) = {}
  BY <1>2, <1>3
<1>6. Len(s) = 1 => ToSet(s) = {s[1]}
  BY <1>2, <1>3
<1>7. QED
  BY <1>2, <1>3, <1>5, <1>6

\* The keys of the index.
LEMMA CachedKeys ==
  ASSUME TypeOK
  PROVE  /\ Cached = ToSet(lru) /\ Len(lru) \in Nat /\ DOMAIN lru = 1..Len(lru)
         /\ \A i \in 1..Len(lru) : lru[i] \in Cached /\ lru[i] \in Prompts
         /\ \A k \in Cached : k \in Prompts /\ slotOf[k] \in 0..(cap - 1)
         /\ lru = <<>> => Cached = {}
         /\ Len(lru) = 0 <=> lru = <<>>
         /\ Len(lru) = 1 => Cached = {lru[1]}
<1>1. lru \in Seq(Prompts) /\ Cached = ToSet(lru)
  BY DEF TypeOK, Cached
<1>2. \A k \in Cached : slotOf[k] \in 0..(cap - 1)
  BY <1>1 DEF TypeOK
<1>3. QED
  BY <1>1, <1>2, OrderKeys

\* The holder of the lock begins to wait, or leaves with nothing to come.
LEMMA WaitBegins ==
  ASSUME TypeOK, WaitInv, NEW t, t # None, lock \in {None, t}, lock' = t, Waiting(t)',
         reply' = [reply EXCEPT ![t] = None]
  PROVE  WaitInv'
<1>1. lock' # None /\ Waiting(lock)'
  <2>1. /\ waiters' = <<[prefix |-> stage'[t], task |-> t]>>
        /\ reply'[t] = None
    BY DEF Waiting
  <2>2. /\ waiters' = <<[prefix |-> stage'[lock'], task |-> lock']>>
        /\ reply'[lock'] = None
    BY <2>1, Zenon
  <2>3. QED
    BY <2>2 DEF Waiting
<1>2. \A u \in Tasks : u # lock' => reply'[u] = None
  BY NoneAssumption DEF WaitInv, TypeOK
<1>3. QED
  BY <1>1, <1>2 DEF WaitInv

LEMMA WaitEnds ==
  ASSUME TypeOK, WaitInv, NEW t, lock = t, waiters' = <<>>, reply' = [reply EXCEPT ![t] = None]
  PROVE  WaitInv'
BY DEF WaitInv, TypeOK

LEMMA UnreservedIndex ==
  ASSUME IndexInv, UNCHANGED <<cap, index>>, ~Reserving, ~Reserving'
  PROVE  IndexInv'
<1>1. UNCHANGED <<lru, slotOf, nextSlot>> /\ Cached' = Cached
  BY DEF index, Cached
<1>2. QED
  BY <1>1 DEF IndexInv

LEMMA StartSyncGood == ASSUME Good, Live, Live', StartSync PROVE Good'
<1>0. Startup \in Tasks /\ Startup \notin Calls /\ Calls \subseteq Tasks /\ Startup # None
  BY StartupAssumption, NoneAssumption DEF Tasks
<1>1. TypeOK /\ LockInv /\ WaitInv /\ SyncInv /\ IndexInv /\ CallInv /\ BusInv
  BY DEF Good
<1>2. /\ stage[Startup] = "begin" /\ lock = None /\ lock' = Startup
      /\ stage' = [stage EXCEPT ![Startup] = "slots"]
      /\ stdin' = stdin \o <<ListCommand>>
      /\ Wait(Startup, "slots")
      /\ UNCHANGED <<faults, cap, index, call, orphans, reading, stdout, bins, daemon>>
  BY DEF StartSync, Live, Send, ListCommand
<1>3. UNCHANGED <<lru, slotOf, nextSlot, pendingEvict, cache, slots, alive>>
  BY <1>2 DEF index, daemon
<1>4. Quiesced /\ waiters = <<>> /\ lru = <<>> /\ nextSlot = 0 /\ bins = {} /\ pendingEvict = None
  BY <1>1, <1>2 DEF SyncInv
<1>5. stdin' = <<ListCommand>> /\ stdout' = <<>>
  BY <1>2, <1>4 DEF Quiesced
<1>6. /\ waiters' = <<[prefix |-> "slots", task |-> Startup]>>
      /\ reply' = [reply EXCEPT ![Startup] = None]
  BY <1>2, <1>4 DEF Wait
<1>7. stage'[Startup] = "slots" /\ \A c \in Calls : stage'[c] = stage[c] /\ stage[c] = "begin"
  BY <1>0, <1>1, <1>2 DEF TypeOK, LockInv
<1>8. TypeOK'
  <2>1. stdin' \in Seq(Commands)
    BY <1>5, CommandsTyped
  <2>2. QED
    BY <1>0, <1>1, <1>2, <1>3, <1>6, <2>1 DEF TypeOK
<1>9. LockInv'
  BY <1>0, <1>2, <1>7 DEF LockInv, Busy, Tasks
<1>10. Waiting(Startup)'
  BY <1>0, <1>1, <1>6, <1>7 DEF Waiting, TypeOK
<1>11. WaitInv'
  BY <1>0, <1>1, <1>2, <1>6, <1>10, WaitBegins
<1>12. SyncInv'
  BY <1>2, <1>3, <1>4, <1>5, <1>7, <1>10 DEF SyncInv
<1>13. IndexInv'
  BY <1>0, <1>1, <1>2, UnreservedIndex, NoneAssumption DEF Reserving
<1>14. CallInv' /\ BusInv'
  BY <1>1, <1>2, <1>7 DEF CallInv, BusInv
<1>15. QED
  BY <1>8, <1>9, <1>11, <1>12, <1>13, <1>14 DEF Good

LEMMA SyncReplyGood == ASSUME Good, Live, Live', SyncReply PROVE Good'
<1>0. Startup \in Tasks /\ Startup \notin Calls /\ Calls \subseteq Tasks /\ Startup # None
  BY StartupAssumption, NoneAssumption DEF Tasks
<1>1. TypeOK /\ LockInv /\ WaitInv /\ SyncInv /\ IndexInv /\ CallInv /\ BusInv
  BY DEF Good
<1>2. PICK left : left = IF stage[Startup] = "slots" THEN reply[Startup].listed
                         ELSE orphans \ {Min(orphans)}
  OBVIOUS
<1>3. /\ stage[Startup] \in {"slots", "freed"} /\ reply[Startup] # None
      /\ FreeNext(left)
      /\ UNCHANGED <<faults, cap, index, call, reading, stdout, bins, daemon>>
  BY <1>2 DEF SyncReply
<1>4. UNCHANGED <<lru, slotOf, nextSlot, pendingEvict, cache, slots, alive>>
  BY <1>3 DEF index, daemon
<1>5. lock = Startup /\ \A c \in Calls : stage[c] = "begin"
  BY <1>0, <1>1, <1>3, Alone DEF Busy, LockInv
<1>6. lru = <<>> /\ nextSlot = 0 /\ bins = {} /\ pendingEvict = None
  BY <1>1, <1>3 DEF SyncInv
<1>7. Quiesced /\ waiters = <<>> /\ InUse \subseteq left /\ left \subseteq Slot
  <2>1. CASE stage[Startup] = "slots"
    <3>1. Quiesced /\ waiters = <<>> /\ reply[Startup] = [prefix |-> "slots", listed |-> InUse]
      BY <1>1, <1>3, <2>1 DEF SyncInv, Waiting
    <3>2. left = InUse
      BY <1>2, <2>1, <3>1
    <3>3. QED
      BY <3>1, <3>2 DEF InUse
  <2>2. CASE stage[Startup] = "freed"
    <3>1. Quiesced /\ waiters = <<>> /\ InUse \subseteq orphans \ {Min(orphans)}
      BY <1>1, <1>3, <2>2 DEF SyncInv, Waiting
    <3>2. left = orphans \ {Min(orphans)}
      BY <1>2, <2>2
    <3>3. QED
      BY <1>1, <3>1, <3>2 DEF TypeOK
  <2>3. QED
    BY <1>3, <2>1, <2>2
<1>8. stdin = <<>> /\ stdout' = <<>>
  BY <1>3, <1>7 DEF Quiesced
<1>9. Cached = {}
  BY <1>1, <1>6, CachedKeys DEF TypeOK
<1>10. CASE left = {}
  <2>1. /\ orphans' = {} /\ stage' = [stage EXCEPT ![Startup] = "done"] /\ lock' = None
        /\ reply' = [reply EXCEPT ![Startup] = None] /\ UNCHANGED <<stdin, waiters>>
    BY <1>3, <1>10 DEF FreeNext
  <2>2. stage'[Startup] = "done" /\ \A c \in Calls : stage'[c] = "begin"
    BY <1>0, <1>1, <1>5, <2>1 DEF TypeOK
  <2>3. \A s \in Slot : slots[s] = None
    BY <1>7, <1>10 DEF InUse
  <2>4. TypeOK'
    BY <1>0, <1>1, <1>3, <1>4, <2>1 DEF TypeOK
  <2>5. LockInv'
    BY <1>0, <2>1, <2>2, NoneAssumption DEF LockInv, Busy, Tasks
  <2>6. WaitInv'
    BY <1>1, <1>5, <1>7, <2>1, WaitEnds
  <2>7. SyncInv'
    BY <2>2 DEF SyncInv
  <2>8. IndexInv'
    BY <1>0, <1>1, <1>3, <1>5, <2>1, UnreservedIndex, NoneAssumption DEF Reserving, Tasks
  <2>9. \A s \in Slot : Agrees(s)'
    BY <1>4, <1>9, <2>3 DEF Agrees, Cached
  <2>10. 0 \in Slot
    BY SlotsAssumption DEF Slot
  <2>11. FreeInv'
    BY <1>3, <1>4, <1>6, <1>7, <1>8, <2>1, <2>3, <2>9, <2>10 DEF FreeInv, Quiesced
  <2>12. CallInv'
    BY <2>2, <2>9, <2>11 DEF CallInv, OthersAgree
  <2>13. BusInv'
    BY <1>1, <1>3, <1>8, <2>1 DEF BusInv
  <2>14. QED
    BY <2>4, <2>5, <2>6, <2>7, <2>8, <2>12, <2>13 DEF Good
<1>11. CASE left # {}
  <2>1. /\ orphans' = left /\ stage' = [stage EXCEPT ![Startup] = "freed"] /\ UNCHANGED lock
        /\ stdin' = stdin \o <<FreeLine(Min(left))>> /\ Wait(Startup, "freed")
    BY <1>3, <1>11 DEF FreeNext, Live, Send
  <2>2. stage'[Startup] = "freed" /\ \A c \in Calls : stage'[c] = "begin"
    BY <1>0, <1>1, <1>5, <2>1 DEF TypeOK
  <2>3. stdin' = <<FreeLine(Min(left))>>
    BY <1>8, <2>1
  <2>4. /\ waiters' = <<[prefix |-> "freed", task |-> Startup]>>
        /\ reply' = [reply EXCEPT ![Startup] = None]
    BY <1>7, <2>1 DEF Wait
  <2>5. Min(left) \in left
    <3>1. left \in SUBSET Nat
      BY <1>7, SlotsAssumption DEF Slot
    <3>2. QED
      BY <1>11, <3>1, MinOfNaturals
  <2>6. TypeOK'
    <3>1. stdin' \in Seq(Commands)
      BY <1>7, <2>3, <2>5, CommandsTyped
    <3>2. QED
      BY <1>0, <1>1, <1>3, <1>4, <1>7, <2>1, <2>4, <3>1 DEF TypeOK
  <2>7. LockInv'
    BY <1>0, <1>5, <2>1, <2>2 DEF LockInv, Busy, Tasks
  <2>8. Waiting(Startup)'
    BY <1>0, <1>1, <2>2, <2>4 DEF Waiting, TypeOK
  <2>9. WaitInv'
    BY <1>0, <1>1, <1>5, <2>1, <2>4, <2>8, WaitBegins
  <2>10. SyncInv'
    <3>1. InUse' = InUse
      BY <1>4 DEF InUse
    <3>2. QED
      BY <1>3, <1>4, <1>6, <1>7, <1>8, <1>11, <2>1, <2>2, <2>3, <2>8, <3>1 DEF SyncInv
  <2>11. IndexInv'
    BY <1>0, <1>1, <1>3, <1>5, <2>1, UnreservedIndex DEF Reserving
  <2>12. CallInv' /\ BusInv'
    BY <1>1, <1>3, <2>2 DEF CallInv, BusInv
  <2>13. QED
    BY <2>6, <2>7, <2>9, <2>10, <2>11, <2>12 DEF Good
<1>12. QED
  BY <1>10, <1>11

-----------------------------------------------------------------------------
(* maybe_snapshot                                                          *)

\* Of one call at a time there is anything to say.
LEMMA OneCall ==
  ASSUME TypeOK, LockInv, NEW c \in Calls, lock = c
  PROVE  /\ \A d \in Calls : d # c => stage[d] \notin {"tokens", "slot", "freed"}
         /\ stage[Startup] = "done" /\ stage[c] \in {"tokens", "slot", "freed"}
         /\ c \in Tasks /\ c # None /\ c # Startup
<1>1. c \in Tasks /\ c # None /\ c # Startup
  BY StartupAssumption, NoneAssumption DEF Tasks
<1>2. Busy(c)
  BY <1>1 DEF LockInv
<1>3. QED
  BY <1>1, <1>2, Alone DEF Busy, Tasks, LockInv

LEMMA SkipGood == ASSUME Good, Live, Live', NEW c \in Calls, Skip(c) PROVE Good'
<1>0. c \in Tasks /\ c # None /\ c # Startup /\ Startup \in Tasks
  BY StartupAssumption, NoneAssumption DEF Tasks
<1>1. TypeOK /\ LockInv /\ WaitInv /\ SyncInv /\ IndexInv /\ CallInv /\ BusInv
  BY DEF Good
<1>2. /\ stage[c] = "begin" /\ stage[Startup] = "done" /\ lock = None /\ cap > 0
      /\ call[c].prompt \in Cached
      /\ lru' = MoveToEnd(lru, call[c].prompt)
      /\ stage' = [stage EXCEPT ![c] = "done"]
      /\ UNCHANGED <<faults, cap, slotOf, nextSlot, pendingEvict, lock, call, orphans, bus, stdin,
                     stdout, bins, daemon>>
  BY <1>1 DEF Skip, TypeOK
<1>3. UNCHANGED <<waiters, reply, reading, cache, slots, alive>>
  BY <1>2 DEF bus, daemon
<1>4. /\ stage'[c] = "done" /\ \A d \in Tasks : d # c => stage'[d] = stage[d]
  BY <1>0, <1>1, <1>2 DEF TypeOK
<1>5. /\ lru' \in Seq(Prompts) /\ IsInjective(lru') /\ ToSet(lru') = Cached /\ Len(lru') = Len(lru)
  <2>1. lru \in Seq(Prompts) /\ IsInjective(lru) /\ Cached = ToSet(lru)
    BY <1>1, CachedKeys DEF TypeOK, IndexInv
  <2>2. call[c].prompt \in Prompts
    BY <1>1 DEF TypeOK
  <2>3. PICK p, q : p = call[c].prompt /\ q = Pop(lru, p)
    OBVIOUS
  <2>4. /\ q \in Seq(Prompts) /\ IsInjective(q) /\ ToSet(q) = ToSet(lru) \ {p}
        /\ Len(q) = Len(lru) - 1 /\ p \in Prompts /\ p \notin ToSet(q)
    <3>1. p \in Prompts /\ p \in ToSet(lru)
      BY <1>2, <2>1, <2>2, <2>3
    <3>2. /\ q \in Seq(Prompts) /\ IsInjective(q) /\ ToSet(q) = ToSet(lru) \ {p}
          /\ Len(q) = Len(lru) - (IF p \in ToSet(lru) THEN 1 ELSE 0)
      <4>1. \A k : /\ Pop(lru, k) \in Seq(Prompts) /\ IsInjective(Pop(lru, k))
                   /\ ToSet(Pop(lru, k)) = ToSet(lru) \ {k}
                   /\ Len(Pop(lru, k)) = Len(lru) - (IF k \in ToSet(lru) THEN 1 ELSE 0)
        BY <2>1, PopDropsKey
      <4>2. q = Pop(lru, p)
        BY <2>3
      <4>3. QED
        BY <4>1, <4>2
    <3>3. Len(q) = Len(lru) - 1
      BY <3>1, <3>2
    <3>4. QED
      BY <3>1, <3>2, <3>3
  <2>5. /\ Append(q, p) \in Seq(Prompts) /\ IsInjective(Append(q, p))
        /\ ToSet(Append(q, p)) = ToSet(q) \cup {p} /\ Len(Append(q, p)) = Len(q) + 1
    BY <2>4, AppendFresh
  <2>6. lru' = Append(q, p) /\ Len(lru) \in Nat
    BY <1>2, <2>1, <2>3 DEF MoveToEnd
  <2>7. ToSet(Append(q, p)) = Cached
    BY <1>2, <2>1, <2>3, <2>4, <2>5
  <2>8. Len(Append(q, p)) = Len(lru)
    BY <2>4, <2>5, <2>6
  <2>9. QED
    BY <2>5, <2>6, <2>7, <2>8
<1>6. TypeOK'
  BY <1>0, <1>1, <1>2, <1>3, <1>5 DEF TypeOK, Cached
<1>7. LockInv'
  BY <1>0, <1>1, <1>2, <1>4 DEF LockInv, Busy, Tasks
<1>8. WaitInv'
  BY <1>1, <1>2, <1>3 DEF WaitInv
<1>9. SyncInv'
  BY <1>0, <1>2, <1>4 DEF SyncInv
<1>10. Cached' = Cached /\ ~Reserving /\ ~Reserving'
  BY <1>2, NoneAssumption DEF Cached, Reserving, Tasks
<1>11. IndexInv'
  BY <1>1, <1>2, <1>5, <1>10 DEF IndexInv
<1>12. BusInv'
  BY <1>0, <1>1, <1>2, <1>4, <1>10 DEF BusInv, Target
<1>13. \A s : Agrees(s)' <=> Agrees(s)
  BY <1>2, <1>3, <1>10 DEF Agrees
<1>14. CallInv'
  <2>1. OthersAgree'
    BY <1>1, <1>2, <1>10, <1>13 DEF CallInv, OthersAgree, Target
  <2>2. FreeInv'
    <3>1. CASE Punctual
      BY <1>1, <1>2, <1>3, <1>13, <3>1 DEF CallInv, FreeInv, Quiesced, Punctual
    <3>2. CASE ~Punctual
      <4>1. Len(lru) = 1
        <5>1. cap = 1
          BY <1>1, <3>2 DEF Punctual, TypeOK
        <5>2. Len(lru) \in Nat /\ Len(lru) # 0
          BY <1>1, <1>2, CachedKeys
        <5>3. Len(lru) <= cap
          BY <1>1 DEF IndexInv
        <5>4. \A n \in Nat : n # 0 /\ n <= 1 => n = 1
          OBVIOUS
        <5>5. QED
          BY <5>1, <5>2, <5>3, <5>4
      <4>2. Cached = {lru[1]} /\ Cached' = {lru'[1]} /\ lru # <<>> /\ lru' # <<>>
        <5>1. ToSet(lru') = {lru'[1]} /\ lru' # <<>>
          BY <1>5, <4>1, OrderKeys
        <5>2. QED
          BY <1>1, <1>5, <1>10, <4>1, <5>1, CachedKeys
      <4>3. lru'[1] = lru[1]
        BY <1>10, <4>2
      <4>4. QED
        BY <1>1, <1>2, <1>3, <3>2, <4>2, <4>3 DEF CallInv, FreeInv, Punctual
    <3>3. QED
      BY <3>1, <3>2
  <2>3. \A d \in Calls : stage'[d] \notin {"tokens", "slot", "freed"}
    <3>1. \A d \in Calls : d \in Tasks /\ d # None
      BY NoneAssumption DEF Tasks
    <3>2. \A d \in Calls : ~Busy(d)
      BY <1>1, <1>2, <3>1 DEF LockInv
    <3>3. \A d \in Calls : stage'[d] = stage[d] \/ stage'[d] = "done"
      BY <1>0, <1>4, <3>1
    <3>4. QED
      BY <3>2, <3>3 DEF Busy
  <2>4. QED
    BY <2>1, <2>2, <2>3 DEF CallInv
<1>15. QED
  BY <1>6, <1>7, <1>8, <1>9, <1>11, <1>12, <1>14 DEF Good

\* The slot that is reserved, and the index with the reservation.
LEMMA Reservation ==
  ASSUME TypeOK, IndexInv, ~Reserving, NEW c \in Calls, call[c].prompt \notin Cached,
         UNCHANGED <<cap, lru, slotOf>>, prepare_inline_snap, lock' = c,
         call' = [call EXCEPT ![c].slot = PreparedSlot]
  PROVE  /\ IndexInv' /\ PreparedSlot \in 0..(cap - 1)
         /\ nextSlot' \in 0..(cap - 1) /\ pendingEvict' \in Prompts \cup {None}
<1>0. /\ Len(lru) \in Nat /\ \A i \in 1..Len(lru) : lru[i] \in Cached /\ lru[i] \in Prompts
      /\ \A k \in Cached : k \in Prompts /\ slotOf[k] \in 0..(cap - 1)
  BY CachedKeys
<1>1. cap \in Nat /\ cap >= 1 /\ nextSlot \in 0..(cap - 1) /\ Len(lru) <= cap
  BY SlotsAssumption DEF TypeOK, IndexInv
<1>2. Cached' = Cached /\ Reserving'
  BY DEF Cached, Reserving
<1>3. call'[c].prompt = call[c].prompt /\ call'[c].slot = PreparedSlot
  BY DEF TypeOK
<1>4. IsInjective(lru) /\ \A k, l \in Cached : slotOf[k] = slotOf[l] => k = l
  BY DEF IndexInv
<1>5. CASE Len(lru) >= cap
  <2>1. PreparedSlot = slotOf[Oldest(lru)] /\ pendingEvict' = Oldest(lru) /\ UNCHANGED nextSlot
    BY <1>5 DEF PreparedSlot, prepare_inline_snap
  <2>2. Oldest(lru) \in Cached /\ Oldest(lru) \in Prompts
    BY <1>0, <1>1, <1>5 DEF Oldest
  <2>3. ~(Len(lru) < cap)
    BY <1>0, <1>1, <1>5
  <2>4. IndexInv'
    BY <1>1, <1>2, <1>3, <1>4, <2>1, <2>3 DEF IndexInv
  <2>5. QED
    BY <1>0, <1>1, <2>1, <2>2, <2>4
<1>6. CASE ~(Len(lru) >= cap)
  <2>1. Len(lru) < cap
    BY <1>0, <1>1, <1>6
  <2>2. nextSlot = Len(lru) /\ \A k \in Cached : slotOf[k] < Len(lru)
    BY <2>1 DEF IndexInv
  <2>3. PreparedSlot = Len(lru) /\ pendingEvict' = None /\ nextSlot' = (Len(lru) + 1) % cap
    BY <1>6, <2>2 DEF PreparedSlot, prepare_inline_snap
  <2>4. (Len(lru) + 1) % cap \in 0..(cap - 1)
    BY <1>0, <1>1
  <2>5. IndexInv'
    BY <1>1, <1>2, <1>3, <1>4, <2>1, <2>2, <2>3 DEF IndexInv
  <2>6. QED
    BY <1>0, <1>1, <2>1, <2>3, <2>4, <2>5
<1>7. QED
  BY <1>5, <1>6

\* A call begins.
LEMMA LockTaken ==
  ASSUME LockInv, lock = None, stage[Startup] = "done", NEW c \in Calls, lock' = c, Busy(c)',
         stage'[c] = "tokens", \A d \in Tasks : d # c => stage'[d] = stage[d]
  PROVE  LockInv'
<1>0. c \in Tasks /\ c # Startup /\ Startup \in Tasks /\ Calls \subseteq Tasks
  BY StartupAssumption DEF Tasks
<1>1. \A d \in Tasks : ~Busy(d)
  BY NoneAssumption DEF LockInv
<1>2. \A d \in Tasks : Busy(d)' <=> lock' = d
  BY <1>0, <1>1 DEF Busy
<1>3. stage'[Startup] = "done" /\ \A d \in Calls : stage'[d] \in {stage[d], "tokens"}
  BY <1>0
<1>4. QED
  BY <1>2, <1>3 DEF LockInv

LEMMA PrefillGood == ASSUME Good, Live, Live', NEW c \in Calls, Prefill(c) PROVE Good'
<1>0. c \in Tasks /\ c # None /\ c # Startup /\ Startup \in Tasks
  BY StartupAssumption, NoneAssumption DEF Tasks
<1>1. TypeOK /\ LockInv /\ WaitInv /\ SyncInv /\ IndexInv /\ CallInv /\ BusInv
  BY DEF Good
<1>2. /\ stage[c] = "begin" /\ stage[Startup] = "done" /\ lock = None
      /\ call[c].prompt \notin Cached
      /\ call' = [call EXCEPT ![c].slot = PreparedSlot]
      /\ prepare_inline_snap /\ UNCHANGED <<lru, slotOf>>
      /\ lock' = c /\ stdin' = stdin \o <<PrefillCommand(c)>>
      /\ stage' = [stage EXCEPT ![c] = "tokens"] /\ bins' = bins \cup {c}
      /\ UNCHANGED <<faults, cap, orphans, bus, stdout, daemon>>
  BY DEF Prefill, Live, Send, PrefillCommand, prepare_inline_snap
<1>3. UNCHANGED <<waiters, reply, reading, cache, slots, alive>>
  BY <1>2 DEF bus, daemon
<1>4. /\ stage'[c] = "tokens" /\ \A d \in Tasks : d # c => stage'[d] = stage[d]
  BY <1>0, <1>1, <1>2 DEF TypeOK
<1>5. ~Reserving /\ Reserving'
  BY <1>2, NoneAssumption DEF Reserving, Tasks
<1>6. /\ IndexInv' /\ PreparedSlot \in 0..(cap - 1)
      /\ nextSlot' \in 0..(cap - 1) /\ pendingEvict' \in Prompts \cup {None}
  BY <1>1, <1>2, <1>5, Reservation
<1>7. PreparedSlot \in Slot
  BY <1>1, <1>6, SlotsAssumption DEF TypeOK, Slot
<1>8. /\ call' \in [Calls -> [prompt : Prompts, consumed : BOOLEAN, slot : Slot \cup {None}]]
      /\ call'[c].prompt = call[c].prompt /\ call'[c].slot = PreparedSlot
      /\ \A d \in Calls : call'[d].consumed = call[d].consumed
  BY <1>1, <1>2, <1>7 DEF TypeOK
<1>9. /\ stdin' \in Seq(Commands) /\ Ends(PrefillCommand(c))' /\ Len(stdin') = Len(stdin) + 1
      /\ \A i \in 1..Len(stdin) : stdin'[i] = stdin[i]
      /\ stdin = <<>> => stdin' = <<PrefillCommand(c)>>
      /\ stdin'[Len(stdin')] = PrefillCommand(c)
  <2>1. stdin \in Seq(Commands) /\ PrefillCommand(c) \in Commands
    BY <1>1, CommandsTyped DEF TypeOK
  <2>2. QED
    BY <1>2, <2>1, OneMore DEF Ends, Last, PrefillCommand
<1>10. TypeOK'
  BY <1>0, <1>1, <1>2, <1>3, <1>6, <1>8, <1>9 DEF TypeOK
<1>11. LockInv'
  BY <1>0, <1>1, <1>2, <1>4, LockTaken DEF Busy
<1>12. waiters = <<>> /\ \A t \in Tasks : t # None /\ reply[t] = None
  BY <1>1, <1>2, NoneAssumption DEF WaitInv
<1>13. WaitInv'
  BY <1>3, <1>12 DEF WaitInv
<1>14. SyncInv'
  BY <1>0, <1>2, <1>4 DEF SyncInv
<1>15. \A s : Agrees(s)' <=> Agrees(s)
  BY <1>2, <1>3, SameAgreement
<1>16. Target = 0 /\ Target' = PreparedSlot
  BY <1>2, <1>5, <1>8 DEF Target
<1>17. /\ Punctual => stdin = <<>> /\ stdout = <<>> /\ \A s \in Slot : Agrees(s)
       /\ ~Punctual => PreparedSlot = 0
  <2>1. OthersAgree /\ FreeInv
    BY <1>1, <1>2 DEF CallInv
  <2>2. ~Punctual => cap = 1
    BY <1>1 DEF Punctual, TypeOK
  <2>3. QED
    BY <1>6, <1>16, <2>1, <2>2 DEF OthersAgree, FreeInv, Quiesced
<1>18. BusInv'
  <2>1. stage'[Startup] = "done"
    BY <1>0, <1>2, <1>4
  <2>2. ASSUME NEW i \in DOMAIN stdin'
        PROVE  /\ stdin'[i].op # "LIST_SLOTS"
               /\ stdin'[i].op \in {"FREE_SNAPSHOT", "SNAPSHOT"} => stdin'[i].slot = Target'
    <3>1. DOMAIN stdin' = 1..Len(stdin') /\ DOMAIN stdin = 1..Len(stdin) /\ Len(stdin) \in Nat
      BY <1>1, <1>9 DEF TypeOK
    <3>2. CASE i = Len(stdin')
      BY <1>9, <3>2 DEF PrefillCommand
    <3>3. CASE i # Len(stdin')
      <4>1. i \in DOMAIN stdin /\ stdin'[i] = stdin[i] /\ stdin # <<>>
        BY <1>9, <2>2, <3>1, <3>3
      <4>2. ~Punctual
        BY <1>17, <4>1
      <4>3. QED
        BY <1>1, <1>2, <1>16, <1>17, <4>1, <4>2 DEF BusInv
    <3>4. QED
      BY <3>2, <3>3
  <2>3. QED
    BY <1>1, <1>2, <1>8, <2>2 DEF BusInv
<1>19. CallInv'
  <2>1. OthersAgree'
    BY <1>1, <1>2, <1>15, <1>16, <1>17 DEF OthersAgree, CallInv
  <2>2. TokensInv(c)'
    BY <1>0, <1>1, <1>2, <1>3, <1>7, <1>8, <1>9, <1>12, <1>15, <1>17
       DEF TokensInv, Punctual, PrefillCommand, WaitInv
  <2>3. \A d \in Calls : d # c => stage'[d] \notin {"tokens", "slot", "freed"}
    BY <1>10, <1>11, <1>2, <1>4, <1>0, <1>1 DEF LockInv, Busy, Tasks
  <2>4. QED
    BY <1>0, <1>2, <1>4, <2>1, <2>2, <2>3 DEF CallInv
<1>20. QED
  BY <1>6, <1>10, <1>11, <1>13, <1>14, <1>18, <1>19 DEF Good
\* The holder of the lock goes on, or lets go of it.
LEMMA LockKept ==
  ASSUME LockInv, NEW c \in Calls, lock = c, lock' = c, stage'[c] \in {"slot", "freed"},
         \A d \in Tasks : d # c => stage'[d] = stage[d], stage[Startup] = "done"
  PROVE  LockInv'
<1>0. c \in Tasks /\ c # Startup /\ Startup \in Tasks /\ Calls \subseteq Tasks
  BY StartupAssumption DEF Tasks
<1>1. \A d \in Tasks : Busy(d)' <=> lock' = d
  BY <1>0 DEF LockInv, Busy
<1>2. stage'[Startup] = "done" /\ \A d \in Calls : stage'[d] \in {stage[d], "slot", "freed"}
  BY <1>0
<1>3. QED
  BY <1>1, <1>2 DEF LockInv

LEMMA LockGiven ==
  ASSUME LockInv, NEW c \in Calls, lock = c, lock' = None, stage'[c] \in {"done", "failed"},
         \A d \in Tasks : d # c => stage'[d] = stage[d], stage[Startup] = "done"
  PROVE  LockInv' /\ \A d \in Calls : stage'[d] \notin {"tokens", "slot", "freed"}
<1>0. c \in Tasks /\ c # Startup /\ Startup \in Tasks /\ Calls \subseteq Tasks
  BY StartupAssumption DEF Tasks
<1>1. \A d \in Tasks : ~Busy(d)'
  BY <1>0 DEF LockInv, Busy
<1>2. \A d \in Tasks : Busy(d)' <=> lock' = d
  BY <1>1, NoneAssumption
<1>3. stage'[Startup] = "done" /\ \A d \in Calls : stage'[d] \in {stage[d], "done", "failed"}
  BY <1>0
<1>4. LockInv'
  BY <1>2, <1>3 DEF LockInv
<1>5. QED
  BY <1>0, <1>1, <1>4 DEF Busy

\* A call sends a line about its slot.
LEMMA SendsLine ==
  ASSUME TypeOK, BusInv, NEW c \in Calls, lock = c, stage[Startup] = "done",
         NEW l \in {SnapCommand(call[c].slot), FreeLine(call[c].slot)}, call[c].slot \in Slot,
         stdin' = stdin \o <<l>>, UNCHANGED <<faults, lock, call>>
  PROVE  /\ BusInv' /\ stdin' \in Seq(Commands) /\ Ends(l)'
         /\ Len(stdin') = Len(stdin) + 1 /\ DOMAIN stdin = 1..Len(stdin) /\ Len(stdin) \in Nat
         /\ \A i \in 1..Len(stdin) : stdin'[i] = stdin[i]
         /\ stdin = <<>> => stdin' = <<l>>
<1>1. stdin \in Seq(Commands) /\ l \in Commands
  BY CommandsTyped DEF TypeOK
<1>2. /\ stdin' \in Seq(Commands) /\ Ends(l)' /\ Len(stdin') = Len(stdin) + 1
      /\ \A i \in 1..Len(stdin) : stdin'[i] = stdin[i]
      /\ stdin = <<>> => stdin' = <<l>>
      /\ stdin'[Len(stdin')] = l
  BY <1>1, OneMore DEF Ends, Last
<1>3. /\ DOMAIN stdin' = 1..Len(stdin') /\ DOMAIN stdin = 1..Len(stdin) /\ Len(stdin) \in Nat
  BY <1>1, <1>2
<1>4. Target = call[c].slot /\ Target' = call[c].slot
  BY DEF Target, Reserving
<1>5. l.op # "LIST_SLOTS" /\ l.slot = call[c].slot
  BY DEF SnapCommand, FreeLine
<1>6. ASSUME NEW i \in DOMAIN stdin'
      PROVE  /\ stdin'[i].op # "LIST_SLOTS"
             /\ stdin'[i].op \in {"FREE_SNAPSHOT", "SNAPSHOT"} => stdin'[i].slot = Target'
  <2>1. CASE i = Len(stdin')
    BY <1>2, <1>4, <1>5, <2>1
  <2>2. CASE i # Len(stdin')
    <3>1. i \in DOMAIN stdin /\ stdin'[i] = stdin[i]
      BY <1>2, <1>3, <1>6, <2>2
    <3>2. QED
      BY <1>4, <3>1 DEF BusInv
  <2>3. QED
    BY <2>1, <2>2
<1>7. BusInv'
  BY <1>6 DEF BusInv
<1>8. QED
  BY <1>2, <1>3, <1>7

\* The slot a call has reserved.
LEMMA ReservedSlot ==
  ASSUME TypeOK, IndexInv, NEW c \in Calls, lock = c
  PROVE  call[c].slot \in 0..(cap - 1) /\ call[c].slot \in Slot
<1>1. Reserving /\ cap \in 1..DAEMON_MAX_SLOTS /\ DAEMON_MAX_SLOTS \in Nat
  BY SlotsAssumption DEF Reserving, TypeOK
<1>2. Len(lru) \in Nat /\ \A i \in 1..Len(lru) : slotOf[lru[i]] \in 0..(cap - 1)
  BY CachedKeys
<1>3. call[c].slot \in 0..(cap - 1)
  <2>1. CASE Len(lru) < cap
    <3>1. call[c].slot = Len(lru)
      BY <1>1, <2>1 DEF IndexInv
    <3>2. QED
      BY <1>1, <1>2, <2>1, <3>1
  <2>2. CASE ~(Len(lru) < cap)
    <3>1. call[c].slot = slotOf[lru[1]]
      BY <1>1, <2>2 DEF IndexInv, Oldest
    <3>2. 1 \in 1..Len(lru)
      BY <1>1, <1>2, <2>2
    <3>3. QED
      BY <1>2, <3>1, <3>2
  <2>3. QED
    BY <2>1, <2>2
<1>4. QED
  BY <1>1, <1>3 DEF Slot

LEMMA SnapshotGood == ASSUME Good, Live, Live', NEW c \in Calls, Snapshot(c) PROVE Good'
<1>0. c \in Tasks /\ c # None /\ c # Startup /\ Startup \in Tasks
  BY StartupAssumption, NoneAssumption DEF Tasks
<1>1. TypeOK /\ LockInv /\ WaitInv /\ SyncInv /\ IndexInv /\ CallInv /\ BusInv
  BY DEF Good
<1>2. PICK l : l = SnapCommand(call[c].slot)
  OBVIOUS
<1>3. /\ stage[c] = "tokens" /\ (call[c].consumed => Prefilled(c))
      /\ stdin' = stdin \o <<l>> /\ Wait(c, "slot")
      /\ stage' = [stage EXCEPT ![c] = "slot"]
      /\ UNCHANGED <<faults, cap, index, lock, call, orphans, reading, stdout, daemon, bins>>
  BY <1>2 DEF Snapshot, Live, Send, SnapCommand
<1>4. UNCHANGED <<lru, slotOf, nextSlot, pendingEvict, cache, slots, alive>>
  BY <1>3 DEF index, daemon
<1>5. lock = c /\ stage[Startup] = "done"
  BY <1>0, <1>1, <1>3, Alone DEF Busy
<1>6. /\ stage'[c] = "slot" /\ \A d \in Tasks : d # c => stage'[d] = stage[d]
  BY <1>0, <1>1, <1>3 DEF TypeOK
<1>7. TokensInv(c) /\ OthersAgree
  BY <1>1, <1>3, <1>5 DEF CallInv
<1>8. /\ waiters' = <<[prefix |-> "slot", task |-> c]>>
      /\ reply' = [reply EXCEPT ![c] = None]
  BY <1>3, <1>7 DEF Wait, TokensInv
<1>9. Waiting(c)'
  BY <1>0, <1>1, <1>6, <1>8 DEF Waiting, TypeOK
<1>10. /\ BusInv' /\ stdin' \in Seq(Commands) /\ Ends(l)'
       /\ stdin = <<>> => stdin' = <<l>>
  BY <1>1, <1>2, <1>3, <1>5, ReservedSlot, SendsLine
<1>11. TypeOK'
  BY <1>0, <1>1, <1>3, <1>4, <1>8, <1>10 DEF TypeOK
<1>12. LockInv'
  BY <1>1, <1>3, <1>5, <1>6, LockKept
<1>13. WaitInv'
  BY <1>0, <1>1, <1>3, <1>5, <1>8, <1>9, WaitBegins
<1>14. SyncInv'
  BY <1>0, <1>5, <1>6 DEF SyncInv
<1>15. IndexInv'
  BY <1>1, <1>3, SameIndex
<1>16. OthersAgree'
  <2>1. Target' = Target
    BY <1>3 DEF Target, Reserving
  <2>2. \A s : Agrees(s)' <=> Agrees(s)
    BY <1>4, SameAgreement
  <2>3. QED
    BY <1>7, <2>1, <2>2 DEF OthersAgree
<1>17. SlotInv(c)'
  <2>1. Punctual' <=> Punctual
    BY <1>3 DEF Punctual
  <2>2. CASE Punctual
    <3>1. CASE stdin = <<>> /\ cache = call[c].prompt
      BY <1>2, <1>3, <1>4, <1>7, <1>9, <1>10, <2>1, <2>2, <3>1 DEF SlotInv, TokensInv, SnapCommand
    <3>2. CASE stdin = <<PrefillCommand(c)>>
      <4>1. stdin' = <<PrefillCommand(c), l>>
        BY <1>3, <3>2, TwoItems
      <4>2. QED
        BY <1>2, <1>3, <1>4, <1>7, <1>9, <2>1, <2>2, <4>1
           DEF SlotInv, TokensInv, SnapCommand, PrefillCommand
    <3>3. QED
      BY <1>7, <2>2, <3>1, <3>2 DEF TokensInv
  <2>3. CASE ~Punctual
    <3>1. Prefilled(c)
      BY <1>1, <1>3, <2>3 DEF BusInv, Punctual
    <3>2. ~Ends(PrefillCommand(c))
      <4>1. SUFFICES ASSUME stdin # <<>>, Last(stdin) = PrefillCommand(c) PROVE FALSE
        BY DEF Ends
      <4>2. Len(stdin) \in DOMAIN stdin
        BY <1>1, <4>1, OneLess DEF TypeOK
      <4>3. stdin[Len(stdin)] = PrefillCommand(c)
        BY <4>1 DEF Last
      <4>4. QED
        BY <3>1, <4>2, <4>3 DEF Prefilled, PrefillCommand
    <3>3. stdin' = <<l>> /\ cache = call[c].prompt
      BY <1>7, <1>10, <3>2 DEF TokensInv
    <3>4. QED
      BY <1>2, <1>3, <1>4, <1>7, <2>1, <2>3, <3>3 DEF SlotInv, TokensInv, SnapCommand
  <2>4. QED
    BY <2>2, <2>3
<1>18. CallInv'
  <2>1. \A d \in Calls : d # c => stage'[d] \notin {"tokens", "slot", "freed"}
    BY <1>1, <1>5, <1>6, OneCall DEF Tasks
  <2>2. lock' # None
    BY <1>0, <1>3, <1>5
  <2>3. QED
    BY <1>6, <1>16, <1>17, <2>1, <2>2 DEF CallInv
<1>19. QED
  BY <1>10, <1>11, <1>12, <1>13, <1>14, <1>15, <1>18 DEF Good
\* The index once a reservation is confirmed.
LEMMA ConfirmedIndex ==
  ASSUME TypeOK, IndexInv, NEW c \in Calls, lock = c, lock' = None,
         UNCHANGED <<cap, call, slots>>, confirm_inline_snap(call[c].slot, call[c].prompt)
  PROVE  /\ IndexInv' /\ lru' \in Seq(Prompts) /\ slotOf' \in [ToSet(lru') -> 0..(cap - 1)]
         /\ nextSlot' = nextSlot /\ pendingEvict' = None /\ Len(lru') \in Nat /\ lru' # <<>>
         /\ call[c].prompt \in ToSet(lru')
         /\ slots[call[c].slot] = call[c].prompt => Agrees(call[c].slot)'
         /\ \A s \in Slot : s # call[c].slot /\ Agrees(s) => Agrees(s)'
<1>1. PICK p, s : p = call[c].prompt /\ s = call[c].slot
  OBVIOUS
<1>2. PICK n : n = Len(lru)
  OBVIOUS
<1>3. /\ n \in Nat /\ DOMAIN lru = 1..n /\ Cached = ToSet(lru)
      /\ \A i \in 1..n : lru[i] \in Cached
      /\ \A k \in Cached : k \in Prompts /\ slotOf[k] \in 0..(cap - 1)
  BY <1>2, CachedKeys
<1>4. /\ cap \in Nat /\ cap >= 1 /\ nextSlot \in 0..(cap - 1) /\ n <= cap
      /\ p \in Prompts /\ s \in 0..(cap - 1) /\ p # None
  BY <1>1, <1>2, SlotsAssumption, NoneAssumption, ReservedSlot DEF TypeOK, IndexInv
<1>5. Reserving /\ ~Reserving'
  BY NoneAssumption DEF Reserving, Tasks
<1>6. lru \in Seq(Prompts) /\ IsInjective(lru) /\ p \notin Cached
  BY <1>1, <1>5 DEF TypeOK, IndexInv
<1>7. PICK e, q : e = pendingEvict /\ q = Pop(lru, e)
  OBVIOUS
<1>8. /\ lru' = Insert(q, p) /\ Cached' = (Cached \ {e}) \cup {p}
      /\ \A k \in Cached' : slotOf'[k] = IF k = p THEN s ELSE slotOf[k]
      /\ slotOf' = [k \in (Cached \ {e}) \cup {p} |-> IF k = p THEN s ELSE slotOf[k]]
      /\ nextSlot' = nextSlot /\ pendingEvict' = None
  BY <1>1, <1>7 DEF confirm_inline_snap, Cached
<1>9. /\ q \in Seq(Prompts) /\ IsInjective(q) /\ ToSet(q) = Cached \ {e}
      /\ Len(q) = n - (IF e \in Cached THEN 1 ELSE 0)
  BY <1>2, <1>3, <1>6, <1>7, PopDropsKey
<1>10. /\ lru' \in Seq(Prompts) /\ IsInjective(lru') /\ ToSet(lru') = Cached'
       /\ Len(lru') = Len(q) + 1
  BY <1>4, <1>6, <1>8, <1>9, InsertAddsKey
<1>11. slotOf' \in [ToSet(lru') -> 0..(cap - 1)]
  BY <1>3, <1>4, <1>8, <1>10
<1>12. \A k \in Cached \ {e} : slotOf[k] # s
  <2>1. CASE n < cap
    <3>1. s = n /\ \A k \in Cached : slotOf[k] < n
      BY <1>1, <1>2, <1>5, <2>1 DEF IndexInv
    <3>2. QED
      BY <1>3, <3>1
  <2>2. CASE ~(n < cap)
    <3>1. e = lru[1] /\ s = slotOf[lru[1]]
      BY <1>1, <1>2, <1>5, <1>7, <2>2 DEF IndexInv, Oldest
    <3>2. lru[1] \in Cached
      BY <1>3, <1>4, <2>2
    <3>3. QED
      BY <3>1, <3>2 DEF IndexInv
  <2>3. QED
    BY <2>1, <2>2
<1>13. e \in Cached => slotOf[e] = s
  <2>1. CASE n < cap
    <3>1. e = None
      BY <1>2, <1>5, <1>7, <2>1 DEF IndexInv
    <3>2. QED
      BY <1>3, <3>1, NoneAssumption
  <2>2. CASE ~(n < cap)
    BY <1>1, <1>2, <1>5, <1>7, <2>2 DEF IndexInv, Oldest
  <2>3. QED
    BY <2>1, <2>2
<1>14. \A k, l \in Cached' : slotOf'[k] = slotOf'[l] => k = l
  <2>1. \A k, l \in Cached : slotOf[k] = slotOf[l] => k = l
    BY DEF IndexInv
  <2>2. QED
    BY <1>8, <1>12, <2>1
<1>15. Len(lru') <= cap /\ (Len(lru') < cap =>
         nextSlot' = Len(lru') /\ \A k \in Cached' : slotOf'[k] < Len(lru'))
  <2>1. CASE n < cap
    <3>1. /\ e = None /\ s = n /\ nextSlot = (n + 1) % cap
          /\ \A k \in Cached : slotOf[k] < n
      BY <1>1, <1>2, <1>5, <1>7, <2>1 DEF IndexInv
    <3>2. e \notin Cached
      BY <1>3, <3>1, NoneAssumption
    <3>3. Len(lru') = n + 1
      BY <1>3, <1>9, <1>10, <3>2
    <3>4. n + 1 < cap => (n + 1) % cap = n + 1
      <4>1. \A x, y \in Nat : x < y => x % y = x
        OBVIOUS
      <4>2. n + 1 \in Nat
        BY <1>3
      <4>3. QED
        BY <1>4, <4>1, <4>2
    <3>5. \A k \in Cached' : slotOf'[k] < n + 1
      BY <1>3, <1>8, <3>1
    <3>6. QED
      BY <1>3, <1>4, <1>8, <2>1, <3>1, <3>3, <3>4, <3>5
  <2>2. CASE ~(n < cap)
    <3>1. e = lru[1]
      BY <1>2, <1>5, <1>7, <2>2 DEF IndexInv, Oldest
    <3>2. e \in Cached
      BY <1>3, <1>4, <2>2, <3>1
    <3>3. Len(lru') = n
      BY <1>3, <1>9, <1>10, <3>2
    <3>4. QED
      BY <1>3, <1>4, <2>2, <3>3
  <2>3. QED
    BY <2>1, <2>2
<1>16. IndexInv'
  BY <1>5, <1>10, <1>14, <1>15 DEF IndexInv
<1>17. slots[s] = p => Agrees(s)'
  BY <1>4, <1>8 DEF Agrees
<1>18. ASSUME NEW x \in Slot, x # s, Agrees(x) PROVE Agrees(x)'
  <2>1. CASE slots[x] = None
    BY <1>8, <1>18, <2>1 DEF Agrees
  <2>2. CASE slots[x] # None
    <3>1. slots[x] \in Cached /\ slotOf[slots[x]] = x
      BY <1>18, <2>2 DEF Agrees
    <3>2. slots[x] # e /\ slots[x] # p
      BY <1>6, <1>13, <1>18, <3>1
    <3>3. QED
      BY <1>8, <2>2, <3>1, <3>2 DEF Agrees
  <2>3. QED
    BY <2>1, <2>2
<1>19. Len(lru') \in Nat /\ lru' # <<>>
  <2>1. Len(lru') \in Nat /\ Len(q) \in Nat
    BY <1>9, <1>10, OrderKeys
  <2>2. Len(lru') # 0
    BY <1>10, <2>1
  <2>3. QED
    BY <1>10, <2>1, <2>2, OrderKeys
<1>20. QED
  BY <1>1, <1>8, <1>10, <1>11, <1>16, <1>17, <1>18, <1>19
\* A call has ended, and the lock is free again.
LEMMA CallEnds ==
  ASSUME TypeOK, BusInv, NEW c \in Calls, lock = c, lock' = None, stage'[Startup] = "done",
         UNCHANGED <<faults, call>>, stdin' = stdin, stage[Startup] = "done",
         stdin # <<>> => call[c].slot = 0
  PROVE  BusInv' /\ SyncInv' /\ Target' = 0 /\ ~Reserving'
<1>1. Reserving /\ ~Reserving' /\ Target = call[c].slot /\ Target' = 0
  BY NoneAssumption DEF Reserving, Tasks, Target
<1>2. DOMAIN stdin # {} => stdin # <<>>
  OBVIOUS
<1>3. \A i \in DOMAIN stdin' :
        /\ stdin'[i].op # "LIST_SLOTS"
        /\ stdin'[i].op \in {"FREE_SNAPSHOT", "SNAPSHOT"} => stdin'[i].slot = Target'
  BY <1>1, <1>2 DEF BusInv
<1>4. BusInv'
  BY <1>3 DEF BusInv
<1>5. SyncInv'
  BY DEF SyncInv
<1>6. QED
  BY <1>1, <1>4, <1>5

LEMMA ConfirmGood == ASSUME Good, Live, Live', NEW c \in Calls, Confirm(c) PROVE Good'
<1>0. c \in Tasks /\ c # None /\ c # Startup /\ Startup \in Tasks
  BY StartupAssumption, NoneAssumption DEF Tasks
<1>1. TypeOK /\ LockInv /\ WaitInv /\ SyncInv /\ IndexInv /\ CallInv /\ BusInv
  BY DEF Good
<1>2. /\ stage[c] = "slot" /\ reply[c] # None
      /\ confirm_inline_snap(call[c].slot, call[c].prompt)
      /\ bins' = bins \ {c} /\ reply' = [reply EXCEPT ![c] = None]
      /\ stage' = [stage EXCEPT ![c] = "done"] /\ lock' = None
      /\ UNCHANGED <<faults, cap, call, orphans, waiters, reading, stdin, stdout, daemon>>
  BY DEF Confirm
<1>3. UNCHANGED <<cache, slots, alive>>
  BY <1>2 DEF daemon
<1>4. lock = c /\ stage[Startup] = "done"
  BY <1>0, <1>1, <1>2, Alone DEF Busy
<1>5. /\ stage'[c] = "done" /\ \A d \in Tasks : d # c => stage'[d] = stage[d]
  BY <1>0, <1>1, <1>2 DEF TypeOK
<1>6. SlotInv(c) /\ OthersAgree
  BY <1>1, <1>2, <1>4 DEF CallInv
<1>7. waiters = <<>>
  BY <1>1, <1>2, <1>4 DEF WaitInv, Waiting
<1>8. PICK s, p : s = call[c].slot /\ p = call[c].prompt
  OBVIOUS
<1>9. /\ IndexInv' /\ lru' \in Seq(Prompts) /\ slotOf' \in [ToSet(lru') -> 0..(cap - 1)]
      /\ nextSlot' = nextSlot /\ pendingEvict' = None /\ Len(lru') \in Nat /\ lru' # <<>>
      /\ p \in ToSet(lru')
      /\ slots[s] = p => Agrees(s)'
      /\ \A x \in Slot : x # s /\ Agrees(x) => Agrees(x)'
  BY <1>1, <1>2, <1>3, <1>4, <1>8, ConfirmedIndex
<1>10. s \in Slot /\ s \in 0..(cap - 1)
  BY <1>1, <1>4, <1>8, ReservedSlot
<1>11. IF Punctual THEN Quiesced /\ slots[s] = p
       ELSE cap = 1 /\ s = 0 /\ (\/ stdin = <<SnapCommand(0)>> /\ cache = p
                                 \/ stdin = <<>> /\ slots[0] = p)
  <2>1. CASE Punctual
    BY <1>6, <1>7, <1>8, <2>1 DEF SlotInv, Waiting
  <2>2. CASE ~Punctual
    <3>1. cap = 1
      BY <1>1, <2>2 DEF Punctual, TypeOK
    <3>2. s = 0
      BY <1>10, <3>1
    <3>3. QED
      BY <1>6, <1>8, <2>2, <3>1, <3>2 DEF SlotInv
  <2>3. QED
    BY <2>1, <2>2
<1>12. stdin # <<>> => s = 0
  BY <1>11 DEF Quiesced
<1>13. BusInv' /\ SyncInv' /\ Target' = 0 /\ ~Reserving'
  BY <1>0, <1>1, <1>2, <1>4, <1>5, <1>8, <1>12, CallEnds
<1>14. TypeOK'
  BY <1>0, <1>1, <1>2, <1>3, <1>9 DEF TypeOK
<1>15. LockInv' /\ \A d \in Calls : stage'[d] \notin {"tokens", "slot", "freed"}
  BY <1>1, <1>2, <1>4, <1>5, LockGiven
<1>16. WaitInv'
  BY <1>1, <1>2, <1>4, <1>7, WaitEnds
<1>17. Punctual => \A x \in Slot : Agrees(x)'
  <2>1. \A x \in Slot : x # s => Agrees(x)
    BY <1>4, <1>6, <1>8 DEF OthersAgree, Target, Reserving
  <2>2. QED
    BY <1>9, <1>11, <2>1
<1>18. ~Punctual => \A x \in Slot : x # 0 => Agrees(x)'
  <2>1. \A x \in Slot : x # s => Agrees(x)
    BY <1>4, <1>6, <1>8 DEF OthersAgree, Target, Reserving
  <2>2. QED
    BY <1>9, <1>11, <2>1
<1>19. OthersAgree'
  BY <1>13, <1>17, <1>18 DEF OthersAgree
<1>20. FreeInv'
  <2>1. Punctual' <=> Punctual
    BY <1>2 DEF Punctual
  <2>2. CASE Punctual
    <3>1. 0 \in Slot
      BY SlotsAssumption DEF Slot
    <3>2. QED
      BY <1>2, <1>7, <1>11, <1>17, <2>1, <2>2, <3>1 DEF FreeInv, Quiesced
  <2>3. CASE ~Punctual
    <3>1. Len(lru') = 1
      <4>1. Len(lru') <= cap' /\ cap' = 1
        BY <1>2, <1>9, <1>11, <2>3 DEF IndexInv
      <4>2. Len(lru') # 0
        BY <1>9, OrderKeys
      <4>3. \A n \in Nat : n # 0 /\ n <= 1 => n = 1
        OBVIOUS
      <4>4. QED
        BY <1>9, <4>1, <4>2, <4>3
    <3>2. lru'[1] = p
      BY <1>9, <3>1, OrderKeys
    <3>3. QED
      BY <1>2, <1>3, <1>9, <1>11, <2>1, <2>3, <3>2 DEF FreeInv, SnapCommand
  <2>4. QED
    BY <2>2, <2>3
<1>21. CallInv'
  BY <1>15, <1>19, <1>20 DEF CallInv
<1>22. QED
  BY <1>9, <1>13, <1>14, <1>15, <1>16, <1>21 DEF Good
\* The index of a cache with one slot, once a reservation is given up.
LEMMA AbortedIndex ==
  ASSUME TypeOK, IndexInv, NEW c \in Calls, lock = c, lock' = None, cap = 1,
         UNCHANGED <<cap, slots>>, abort_inline_snap
  PROVE  /\ IndexInv' /\ lru' = <<>> /\ slotOf' \in [ToSet(lru') -> 0..(cap - 1)]
         /\ nextSlot' = nextSlot /\ pendingEvict' = None /\ call[c].slot = 0
         /\ slots[0] = None => Agrees(0)'
         /\ \A s \in Slot : s # 0 /\ Agrees(s) => Agrees(s)'
<1>1. PICK n, e : n = Len(lru) /\ e = pendingEvict
  OBVIOUS
<1>2. /\ n \in Nat /\ Cached = ToSet(lru) /\ lru \in Seq(Prompts) /\ IsInjective(lru)
      /\ (n = 0 <=> lru = <<>>) /\ (lru = <<>> => Cached = {}) /\ (n = 1 => Cached = {lru[1]})
      /\ \A k \in Cached : slotOf[k] \in 0..0
  BY <1>1, CachedKeys DEF TypeOK, IndexInv
<1>3. n = 0 \/ n = 1
  <2>1. n <= 1
    BY <1>1 DEF IndexInv
  <2>2. QED
    BY <1>2, <2>1
<1>4. Reserving /\ ~Reserving'
  BY NoneAssumption DEF Reserving, Tasks
<1>5. Cached \ {e} = {} /\ (IF e \in Cached THEN 1 ELSE 0) = n
  <2>1. CASE n = 0
    <3>1. Cached = {}
      BY <1>2, <2>1
    <3>2. Cached \ {e} = {} /\ e \notin Cached
      BY <3>1
    <3>3. QED
      BY <2>1, <3>2
  <2>2. CASE n = 1
    <3>1. ~(n < cap)
      BY <2>2
    <3>2. e = lru[1]
      BY <1>1, <1>4, <3>1 DEF IndexInv, Oldest
    <3>3. QED
      BY <1>2, <2>2, <3>2
  <2>3. QED
    BY <1>3, <2>1, <2>2
<1>6. lru' = <<>>
  <2>1. /\ Pop(lru, e) \in Seq(Prompts)
        /\ Len(Pop(lru, e)) = n - (IF e \in Cached THEN 1 ELSE 0)
    BY <1>1, <1>2, PopDropsKey
  <2>2. Pop(lru, e) = <<>>
    BY <1>2, <1>5, <2>1, OrderKeys
  <2>3. QED
    BY <1>1, <2>2 DEF abort_inline_snap
<1>7. slotOf' = [k \in {} |-> slotOf[k]] /\ Cached' = {}
  BY <1>1, <1>5 DEF abort_inline_snap, Restrict, Cached
<1>8. ToSet(lru') = {} /\ Len(lru') = 0 /\ IsInjective(lru')
  BY <1>6 DEF ToSet, IsInjective
<1>9. slotOf' \in [ToSet(lru') -> 0..(cap - 1)]
  BY <1>7, <1>8
<1>10. /\ nextSlot' = nextSlot /\ pendingEvict' = None
  BY DEF abort_inline_snap
<1>11. nextSlot = 0 /\ call[c].slot = 0
  <2>1. nextSlot \in 0..0
    BY DEF TypeOK
  <2>2. call[c].slot \in 0..0
    BY ReservedSlot
  <2>3. QED
    BY <2>1, <2>2
<1>12. IndexInv'
  BY <1>4, <1>7, <1>8, <1>10, <1>11 DEF IndexInv
<1>13. slots[0] = None => Agrees(0)'
  BY <1>7 DEF Agrees
<1>14. ASSUME NEW s \in Slot, s # 0, Agrees(s) PROVE Agrees(s)'
  <2>1. slots[s] = None
    BY <1>2, <1>14 DEF Agrees
  <2>2. QED
    BY <1>7, <2>1 DEF Agrees
<1>15. QED
  BY <1>6, <1>9, <1>10, <1>11, <1>12, <1>13, <1>14

LEMMA AbortGood == ASSUME Good, Live, Live', NEW c \in Calls, Abort(c) PROVE Good'
<1>0. c \in Tasks /\ c # None /\ c # Startup /\ Startup \in Tasks
  BY StartupAssumption, NoneAssumption DEF Tasks
<1>1. TypeOK /\ LockInv /\ WaitInv /\ SyncInv /\ IndexInv /\ CallInv /\ BusInv
  BY DEF Good
<1>2. /\ stage[c] = "freed" /\ (Expired(c) \/ reply[c] # None)
      /\ abort_inline_snap
      /\ waiters' = Without(c) /\ reply' = [reply EXCEPT ![c] = None]
      /\ stage' = [stage EXCEPT ![c] = "failed"] /\ lock' = None
      /\ UNCHANGED <<faults, cap, call, orphans, reading, stdin, stdout, bins, daemon>>
  BY <1>1 DEF Abort, GiveUp, LockInv
<1>3. UNCHANGED <<cache, slots, alive>>
  BY <1>2 DEF daemon
<1>4. lock = c /\ stage[Startup] = "done"
  BY <1>0, <1>1, <1>2, Alone DEF Busy
<1>5. /\ stage'[c] = "failed" /\ \A d \in Tasks : d # c => stage'[d] = stage[d]
  BY <1>0, <1>1, <1>2 DEF TypeOK
<1>6. cap = 1
  BY <1>1, <1>2, <1>5 DEF Live, TypeOK
<1>7. FreedInv(c) /\ OthersAgree
  BY <1>1, <1>2, <1>4 DEF CallInv
<1>8. waiters' = <<>>
  BY <1>1, <1>2, <1>4, LeavesNobody
<1>9. /\ IndexInv' /\ lru' = <<>> /\ slotOf' \in [ToSet(lru') -> 0..(cap - 1)]
      /\ nextSlot' = nextSlot /\ pendingEvict' = None /\ call[c].slot = 0
      /\ slots[0] = None => Agrees(0)'
      /\ \A s \in Slot : s # 0 /\ Agrees(s) => Agrees(s)'
  BY <1>1, <1>2, <1>3, <1>4, <1>6, AbortedIndex
<1>10. Punctual => Quiesced /\ slots[0] = None
  <2> SUFFICES ASSUME Punctual PROVE Quiesced /\ slots[0] = None
    OBVIOUS
  <2>1. "slow" \notin faults
    BY <1>6 DEF Punctual
  <2>2. CASE reply[c] # None
    BY <1>7, <1>9, <2>2 DEF FreedInv, Waiting
  <2>3. CASE Expired(c)
    <3>1. PICK prefix \in {"slots", "slot", "freed"} : Waits(c, prefix) /\ ~Coming(prefix)
      BY <2>1, <2>3 DEF Expired
    <3>2. waiters # <<>>
      BY <3>1 DEF Waits
    <3>3. prefix = "freed"
      <4>1. waiters = <<[prefix |-> "freed", task |-> c]>>
        BY <1>1, <1>2, <1>4, <3>2 DEF WaitInv, Waiting
      <4>2. QED
        BY <3>1, <4>1 DEF Waits
    <3>4. /\ \A i \in DOMAIN stdout : stdout[i].prefix # "freed"
          /\ \A i \in DOMAIN stdin : stdin[i].acks # "freed"
      BY <1>1, <3>1, <3>3 DEF Coming, TypeOK, Live
    <3>5. ~Ends(FreeLine(0))
      <4>1. SUFFICES ASSUME stdin # <<>>, Last(stdin) = FreeLine(0) PROVE FALSE
        BY DEF Ends
      <4>2. Len(stdin) \in DOMAIN stdin
        BY <1>1, <4>1, OneLess DEF TypeOK
      <4>3. stdin[Len(stdin)] = FreeLine(0)
        BY <4>1 DEF Last
      <4>4. QED
        BY <3>4, <4>2, <4>3 DEF FreeLine
    <3>6. ~(stdout # <<>> /\ Last(stdout).prefix = "freed")
      <4>1. SUFFICES ASSUME stdout # <<>>, Last(stdout).prefix = "freed" PROVE FALSE
        OBVIOUS
      <4>2. Len(stdout) \in DOMAIN stdout
        BY <1>1, <4>1, OneLess DEF TypeOK
      <4>3. QED
        BY <3>4, <4>1, <4>2 DEF Last
    <3>7. QED
      BY <1>7, <1>9, <3>5, <3>6 DEF FreedInv
  <2>4. QED
    BY <1>2, <2>2, <2>3
<1>11. BusInv' /\ SyncInv' /\ Target' = 0 /\ ~Reserving'
  BY <1>0, <1>1, <1>2, <1>4, <1>5, <1>9, CallEnds
<1>12. TypeOK'
  <2>1. lru' \in Seq(Prompts)
    BY <1>9
  <2>2. QED
    BY <1>0, <1>1, <1>2, <1>3, <1>9, <2>1 DEF TypeOK
<1>13. LockInv' /\ \A d \in Calls : stage'[d] \notin {"tokens", "slot", "freed"}
  BY <1>1, <1>2, <1>4, <1>5, LockGiven
<1>14. WaitInv'
  BY <1>1, <1>2, <1>4, <1>8, WaitEnds
<1>15. OthersAgree'
  <2>1. \A s \in Slot : s # 0 => Agrees(s)
    BY <1>4, <1>7, <1>9 DEF OthersAgree, Target, Reserving
  <2>2. QED
    BY <1>9, <1>11, <2>1 DEF OthersAgree
<1>16. FreeInv'
  <2>1. Punctual' <=> Punctual
    BY <1>2 DEF Punctual
  <2>2. CASE Punctual
    BY <1>2, <1>8, <1>9, <1>10, <2>1, <2>2 DEF FreeInv, Quiesced
  <2>3. CASE ~Punctual
    BY <1>2, <1>3, <1>7, <1>9, <2>1, <2>3 DEF FreeInv, FreedInv, Ends, FreeLine
  <2>4. QED
    BY <2>2, <2>3
<1>17. CallInv'
  BY <1>13, <1>15, <1>16 DEF CallInv
<1>18. QED
  BY <1>9, <1>11, <1>12, <1>13, <1>14, <1>17 DEF Good

LEMMA UndoGood ==
  ASSUME Good, Live, Live', NEW c \in Calls, stage[c] \in {"tokens", "slot"}, Undo(c)
  PROVE  Good'
<1>0. c \in Tasks /\ c # None /\ c # Startup /\ Startup \in Tasks
  BY StartupAssumption, NoneAssumption DEF Tasks
<1>1. TypeOK /\ LockInv /\ WaitInv /\ SyncInv /\ IndexInv /\ CallInv /\ BusInv
  BY DEF Good
<1>2. PICK l : l = FreeLine(call[c].slot)
  OBVIOUS
<1>3. /\ bins' = bins \ {c} /\ stdin' = stdin \o <<l>>
      /\ waiters' = Append(Without(c), [prefix |-> "freed", task |-> c])
      /\ reply' = [reply EXCEPT ![c] = None]
      /\ stage' = [stage EXCEPT ![c] = "freed"]
      /\ UNCHANGED <<faults, cap, index, lock, call, orphans, reading, stdout, daemon>>
  BY <1>2 DEF Undo, Live, Send
<1>4. UNCHANGED <<lru, slotOf, nextSlot, pendingEvict, cache, slots, alive>>
  BY <1>3 DEF index, daemon
<1>5. lock = c /\ stage[Startup] = "done"
  BY <1>0, <1>1, Alone DEF Busy
<1>6. /\ stage'[c] = "freed" /\ \A d \in Tasks : d # c => stage'[d] = stage[d]
  BY <1>0, <1>1, <1>3 DEF TypeOK
<1>7. OthersAgree /\ (stage[c] = "tokens" => TokensInv(c)) /\ (stage[c] = "slot" => SlotInv(c))
  BY <1>1, <1>5 DEF CallInv
<1>8. waiters' = <<[prefix |-> "freed", task |-> c]>>
  <2>1. Without(c) = <<>>
    BY <1>1, <1>5, LeavesNobody
  <2>2. QED
    BY <1>3, <2>1
<1>9. Waiting(c)'
  BY <1>0, <1>1, <1>3, <1>6, <1>8 DEF Waiting, TypeOK
<1>10. /\ BusInv' /\ stdin' \in Seq(Commands) /\ Ends(l)'
       /\ Len(stdin') = Len(stdin) + 1 /\ DOMAIN stdin = 1..Len(stdin) /\ Len(stdin) \in Nat
       /\ \A i \in 1..Len(stdin) : stdin'[i] = stdin[i]
  BY <1>1, <1>2, <1>3, <1>5, ReservedSlot, SendsLine
<1>11. TypeOK'
  BY <1>0, <1>1, <1>3, <1>4, <1>8, <1>10 DEF TypeOK
<1>12. LockInv'
  BY <1>1, <1>3, <1>5, <1>6, LockKept
<1>13. WaitInv'
  BY <1>0, <1>1, <1>3, <1>5, <1>8, <1>9, WaitBegins
<1>14. SyncInv'
  BY <1>0, <1>5, <1>6 DEF SyncInv
<1>15. IndexInv'
  BY <1>1, <1>3, SameIndex
<1>16. OthersAgree'
  <2>1. Target' = Target
    BY <1>3 DEF Target, Reserving
  <2>2. \A s : Agrees(s)' <=> Agrees(s)
    BY <1>4, SameAgreement
  <2>3. QED
    BY <1>7, <2>1, <2>2 DEF OthersAgree
<1>17. FreedInv(c)'
  <2>1. Punctual' <=> Punctual
    BY <1>3 DEF Punctual
  <2>2. ASSUME Punctual
        PROVE  /\ \A i \in 1..Len(stdin) : stdin[i].op # "FREE_SNAPSHOT"
               /\ \A i \in DOMAIN stdout : stdout[i].prefix # "freed"
    <3>1. PICK P, S : P = PrefillCommand(c) /\ S = SnapCommand(call[c].slot)
      OBVIOUS
    <3>2. P.op # "FREE_SNAPSHOT" /\ S.op # "FREE_SNAPSHOT"
      BY <3>1 DEF PrefillCommand, SnapCommand
    <3>3. stdin \in {<<>>, <<P>>, <<S>>, <<P, S>>} /\ stdout \in {<<>>, <<[prefix |-> "slot"]>>}
      <4>1. CASE stage[c] = "tokens"
        BY <1>7, <2>2, <3>1, <4>1 DEF TokensInv
      <4>2. CASE stage[c] = "slot"
        BY <1>7, <2>2, <3>1, <4>2 DEF SlotInv, Quiesced
      <4>3. QED
        BY <4>1, <4>2
    <3>4. \A i \in 1..Len(stdin) : stdin[i].op # "FREE_SNAPSHOT"
      BY <3>2, <3>3
    <3>5. \A i \in DOMAIN stdout : stdout[i].prefix # "freed"
      BY <3>3
    <3>6. QED
      BY <3>4, <3>5
  <2>3. CASE Punctual
    <3>1. \A i \in 1..(Len(stdin') - 1) : stdin'[i].op # "FREE_SNAPSHOT"
      BY <1>10, <2>2, <2>3
    <3>2. QED
      BY <1>2, <1>3, <1>9, <1>10, <2>1, <2>2, <2>3, <3>1 DEF FreedInv, FreeLine
  <2>4. CASE ~Punctual
    BY <1>2, <1>3, <1>10, <2>1, <2>4 DEF FreedInv, FreeLine
  <2>5. QED
    BY <2>3, <2>4
<1>18. CallInv'
  <2>1. \A d \in Calls : d # c => stage'[d] \notin {"tokens", "slot", "freed"}
    BY <1>1, <1>5, <1>6, OneCall DEF Tasks
  <2>2. lock' # None
    BY <1>0, <1>3, <1>5
  <2>3. QED
    BY <1>6, <1>16, <1>17, <2>1, <2>2 DEF CallInv
<1>19. QED
  BY <1>10, <1>11, <1>12, <1>13, <1>14, <1>15, <1>18 DEF Good
-----------------------------------------------------------------------------
(* The daemon                                                              *)

\* What the daemon does with a line, once the server is up.
LEMMA ExecuteIs ==
  ASSUME Good, Execute, stage[Startup] = "done"
  PROVE  /\ stdin # <<>> /\ stdin[1] \in Commands /\ Target \in Slot
         /\ \/ /\ stdin[1] = FreeLine(Target) /\ slots' = [slots EXCEPT ![Target] = None]
               /\ stdout' = Append(stdout, [prefix |-> "freed"]) /\ cache' = cache
            \/ \E c \in Calls :
                 /\ stdin[1] = PrefillCommand(c) /\ UNCHANGED <<slots, stdout>>
                 /\ cache' = IF c \in bins THEN call[c].prompt ELSE cache
            \/ /\ stdin[1] = SnapCommand(Target) /\ slots' = [slots EXCEPT ![Target] = cache]
               /\ stdout' = Append(stdout, [prefix |-> "slot"]) /\ cache' = cache
            \/ /\ stdin[1] = SnapCommand(Target) /\ "fail" \in faults
               /\ UNCHANGED <<cache, slots, stdout>>
<1>1. TypeOK /\ BusInv /\ IndexInv
  BY DEF Good
<1>2. stdin # <<>> /\ Head(stdin) = stdin[1] /\ stdin[1] \in Commands /\ 1 \in DOMAIN stdin
  BY <1>1, OneLess DEF Execute, TypeOK
<1>3. /\ stdin[1].op # "LIST_SLOTS"
      /\ stdin[1].op \in {"FREE_SNAPSHOT", "SNAPSHOT"} => stdin[1].slot = Target
  BY <1>1, <1>2 DEF BusInv
<1>4. Target \in Slot
  <2>1. CASE Reserving
    BY <1>1, <2>1, ReservedSlot DEF Target, Reserving
  <2>2. CASE ~Reserving
    BY <2>2, SlotsAssumption DEF Target, Slot
  <2>3. QED
    BY <2>1, <2>2
<1>5. PICK l : l = stdin[1]
  OBVIOUS
<1>6. /\ l \in Commands /\ l.op # "LIST_SLOTS"
      /\ l.op \in {"FREE_SNAPSHOT", "SNAPSHOT"} => l.slot = Target
  BY <1>2, <1>3, <1>5
<1>7. \/ l = FreeLine(Target) /\ l.op = "FREE_SNAPSHOT" /\ l.slot = Target
      \/ l = SnapCommand(Target) /\ l.op = "SNAPSHOT" /\ l.slot = Target
      \/ l.op = "prefill" /\ l.from \in Calls /\ l = PrefillCommand(l.from)
  BY <1>6 DEF Commands, FreeLine, SnapCommand, PrefillCommand
<1>8. \/ /\ l.op = "FREE_SNAPSHOT" /\ slots' = [slots EXCEPT ![l.slot] = None]
         /\ stdout' = Append(stdout, [prefix |-> "freed"]) /\ cache' = cache
      \/ /\ l.op = "prefill" /\ UNCHANGED <<slots, stdout>>
         /\ cache' = IF l.from \in bins THEN call[l.from].prompt ELSE cache
      \/ /\ l.op = "SNAPSHOT" /\ slots' = [slots EXCEPT ![l.slot] = cache]
         /\ stdout' = Append(stdout, [prefix |-> "slot"]) /\ cache' = cache
      \/ /\ l.op = "SNAPSHOT" /\ "fail" \in faults
         /\ UNCHANGED <<cache, slots, stdout>>
  BY <1>2, <1>5, <1>6 DEF Execute
<1>9. \/ /\ l = FreeLine(Target) /\ slots' = [slots EXCEPT ![Target] = None]
         /\ stdout' = Append(stdout, [prefix |-> "freed"]) /\ cache' = cache
      \/ \E c \in Calls :
           /\ l = PrefillCommand(c) /\ UNCHANGED <<slots, stdout>>
           /\ cache' = IF c \in bins THEN call[c].prompt ELSE cache
      \/ /\ l = SnapCommand(Target) /\ slots' = [slots EXCEPT ![Target] = cache]
         /\ stdout' = Append(stdout, [prefix |-> "slot"]) /\ cache' = cache
      \/ /\ l = SnapCommand(Target) /\ "fail" \in faults
         /\ UNCHANGED <<cache, slots, stdout>>
  <2>1. CASE l.op = "FREE_SNAPSHOT"
    BY <1>7, <1>8, <2>1
  <2>2. CASE l.op = "SNAPSHOT"
    BY <1>7, <1>8, <2>2
  <2>3. CASE l.op = "prefill"
    BY <1>7, <1>8, <2>3
  <2>4. QED
    BY <1>7, <2>1, <2>2, <2>3
<1>10. QED
  BY <1>2, <1>4, <1>5, <1>9

\* The three kinds of lines differ.
LEMMA LinesDiffer ==
  ASSUME NEW s, NEW t, NEW c
  PROVE  /\ FreeLine(s) # SnapCommand(t) /\ FreeLine(s) # PrefillCommand(c)
         /\ SnapCommand(s) # PrefillCommand(c)
<1>1. /\ FreeLine(s).op = "FREE_SNAPSHOT" /\ SnapCommand(t).op = "SNAPSHOT"
      /\ SnapCommand(s).op = "SNAPSHOT" /\ PrefillCommand(c).op = "prefill"
  BY DEF FreeLine, SnapCommand, PrefillCommand
<1>2. QED
  BY <1>1

\* It does the last of its lines, or keeps it.
LEMMA ExecuteEnds ==
  ASSUME TypeOK, stdin # <<>>, stdin' = Tail(stdin), NEW l, Ends(l)
  PROVE  \/ stdin' = <<>> /\ stdin[1] = l
         \/ /\ Ends(l)' /\ Len(stdin') = Len(stdin) - 1 /\ Len(stdin) > 1
            /\ \A i \in 1..(Len(stdin) - 1) : stdin'[i] = stdin[i + 1]
<1>1. stdin \in Seq(Commands)
  BY DEF TypeOK
<1>2. /\ Len(stdin) \in Nat /\ Len(stdin) >= 1 /\ Len(Tail(stdin)) = Len(stdin) - 1
      /\ \A i \in 1..(Len(stdin) - 1) : Tail(stdin)[i] = stdin[i + 1]
      /\ Len(stdin) = 1 => Tail(stdin) = <<>> /\ Head(stdin) = Last(stdin)
      /\ Head(stdin) = stdin[1]
      /\ Len(stdin) > 1 => Tail(stdin) # <<>> /\ Last(Tail(stdin)) = Last(stdin)
  BY <1>1, OneLess
<1>3. Len(stdin) = 1 \/ Len(stdin) > 1
  BY <1>2
<1>4. QED
  BY <1>2, <1>3 DEF Ends

LEMMA ExecuteStartup ==
  ASSUME Good, Live, Execute, stage[Startup] # "done"
  PROVE  TypeOK' /\ SyncInv'
<1>1. TypeOK /\ LockInv /\ WaitInv /\ SyncInv
  BY DEF Good
<1>2. /\ stdin # <<>> /\ stdin' = Tail(stdin)
      /\ UNCHANGED <<faults, cap, index, lock, stage, call, orphans, bus, bins, alive>>
  BY DEF Execute
<1>3. UNCHANGED <<lru, slotOf, nextSlot, pendingEvict, waiters, reply, reading>>
  BY <1>2 DEF index, bus
<1>4. stage[Startup] \in {"slots", "freed"}
  BY <1>1, <1>2 DEF LockInv, SyncInv, Quiesced
<1>5. CASE stage[Startup] = "slots"
  <2>1. /\ Waiting(Startup) /\ stdin = <<ListCommand>> /\ stdout = <<>>
    BY <1>1, <1>2, <1>5 DEF SyncInv, Quiesced
  <2>2. Head(stdin).op = "LIST_SLOTS" /\ Tail(stdin) = <<>>
    BY <2>1 DEF ListCommand
  <2>3. /\ stdout' = Append(stdout, [prefix |-> "slots", listed |-> InUse])
        /\ UNCHANGED <<cache, slots>>
    BY <2>2 DEF Execute, InUse
  <2>4. stdin' = <<>> /\ stdout' = <<[prefix |-> "slots", listed |-> InUse]>> /\ InUse' = InUse
    BY <1>2, <2>1, <2>2, <2>3 DEF InUse
  <2>5. [prefix |-> "slots", listed |-> InUse] \in Lines
    BY DEF Lines, InUse
  <2>6. TypeOK'
    BY <1>1, <1>2, <1>3, <2>3, <2>4, <2>5 DEF TypeOK
  <2>7. SyncInv'
    BY <1>1, <1>2, <1>3, <1>5, <2>1, <2>4 DEF SyncInv, Waiting
  <2>8. QED
    BY <2>6, <2>7
<1>6. CASE stage[Startup] = "freed"
  <2>1. PICK m : m = Min(orphans)
    OBVIOUS
  <2>2. /\ Waiting(Startup) /\ stdin = <<FreeLine(m)>> /\ stdout = <<>>
        /\ InUse \subseteq orphans
    BY <1>1, <1>2, <1>6, <2>1 DEF SyncInv, Quiesced
  <2>3. Head(stdin).op = "FREE_SNAPSHOT" /\ Head(stdin).slot = m /\ Tail(stdin) = <<>>
    BY <2>2 DEF FreeLine
  <2>4. /\ stdout' = Append(stdout, [prefix |-> "freed"])
        /\ slots' = [slots EXCEPT ![m] = None] /\ UNCHANGED cache
    BY <2>3 DEF Execute
  <2>5. stdin' = <<>> /\ stdout' = <<[prefix |-> "freed"]>>
    BY <1>2, <2>2, <2>3, <2>4
  <2>6. InUse' \subseteq orphans \ {m}
    BY <1>1, <2>2, <2>4 DEF InUse, TypeOK
  <2>7. [prefix |-> "freed"] \in Lines
    BY DEF Lines
  <2>8. TypeOK'
    <3>1. slots' \in [Slot -> Prompts \cup {None}]
      BY <1>1, <2>4 DEF TypeOK
    <3>2. stdin' \in Seq(Commands) /\ stdout' \in Seq(Lines)
      BY <2>5, <2>7
    <3>3. QED
      BY <1>1, <1>2, <1>3, <2>4, <3>1, <3>2 DEF TypeOK
  <2>9. SyncInv'
    BY <1>1, <1>2, <1>3, <1>6, <2>1, <2>2, <2>5, <2>6 DEF SyncInv, Waiting
  <2>10. QED
    BY <2>8, <2>9
<1>7. QED
  BY <1>4, <1>5, <1>6
\* The daemon goes on while nobody holds the lock, ...
LEMMA ExecuteFree ==
  ASSUME Good, Live, Execute, stage[Startup] = "done", lock = None
  PROVE  FreeInv'
<1>1. TypeOK /\ IndexInv /\ CallInv /\ BusInv
  BY DEF Good
<1>2. /\ stdin # <<>> /\ stdin' = Tail(stdin)
      /\ UNCHANGED <<faults, cap, lru>>
  BY DEF Execute, index
<1>3. FreeInv
  BY <1>1 DEF CallInv
<1>4. ~Punctual /\ ~Punctual' /\ "fail" \notin faults
  BY <1>1, <1>2, <1>3 DEF FreeInv, Quiesced, Punctual, BusInv
<1>5. Target = 0 /\ 0 \in Slot
  BY SlotsAssumption, NoneAssumption DEF Target, Reserving, Tasks, Slot
<1>6. CASE lru = <<>>
  <2>1. Ends(FreeLine(0))
    BY <1>2, <1>3, <1>4, <1>6 DEF FreeInv
  <2>2. CASE stdin' = <<>> /\ stdin[1] = FreeLine(0)
    <3>1. slots' = [slots EXCEPT ![0] = None]
      BY <1>5, <2>2, ExecuteIs, LinesDiffer
    <3>2. slots'[0] = None
      BY <1>1, <1>5, <3>1 DEF TypeOK
    <3>3. QED
      BY <1>2, <1>4, <1>6, <2>2, <3>2 DEF FreeInv
  <2>3. CASE Ends(FreeLine(0))'
    BY <1>2, <1>4, <1>6, <2>3 DEF FreeInv, Ends, FreeLine
  <2>4. QED
    BY <1>1, <1>2, <2>1, <2>2, <2>3, ExecuteEnds
<1>7. CASE lru # <<>>
  <2>1. stdin = <<SnapCommand(0)>> /\ cache = lru[1]
    BY <1>2, <1>3, <1>4, <1>7 DEF FreeInv
  <2>2. stdin[1] = SnapCommand(0) /\ stdin' = <<>>
    BY <1>2, <2>1
  <2>3. slots' = [slots EXCEPT ![0] = cache]
    BY <1>4, <1>5, <2>2, ExecuteIs, LinesDiffer
  <2>4. slots'[0] = lru[1]
    BY <1>1, <1>5, <2>1, <2>3 DEF TypeOK
  <2>5. QED
    BY <1>2, <1>4, <1>7, <2>2, <2>4 DEF FreeInv
<1>8. QED
  BY <1>6, <1>7

\* ... while a call waits for its tokens, ...
LEMMA ExecuteTokens ==
  ASSUME Good, Live, Execute, stage[Startup] = "done", NEW c \in Calls, stage[c] = "tokens"
  PROVE  TokensInv(c)'
<1>1. TypeOK /\ CallInv
  BY DEF Good
<1>2. /\ stdin # <<>> /\ stdin' = Tail(stdin)
      /\ UNCHANGED <<faults, cap, slotOf, call, waiters, reply, bins>>
  BY DEF Execute, index, bus
<1>3. TokensInv(c)
  BY <1>1 DEF CallInv
<1>4. Ends(PrefillCommand(c)) /\ (Punctual => stdin = <<PrefillCommand(c)>>)
  BY <1>2, <1>3 DEF TokensInv
<1>5. CASE stdin' = <<>> /\ stdin[1] = PrefillCommand(c)
  <2>1. PICK d \in Calls :
          /\ PrefillCommand(c) = PrefillCommand(d) /\ UNCHANGED <<slots, stdout>>
          /\ cache' = IF d \in bins THEN call[d].prompt ELSE cache
    BY <1>5, ExecuteIs, LinesDiffer
  <2>2. d = c
    <3>1. PrefillCommand(c).from = c /\ PrefillCommand(d).from = d
      BY DEF PrefillCommand
    <3>2. QED
      BY <2>1, <3>1
  <2>3. cache' = call[c].prompt
    BY <1>3, <2>1, <2>2 DEF TokensInv
  <2>4. \A s : Agrees(s)' <=> Agrees(s)
    BY <1>2, <2>1, SameAgreement
  <2>5. QED
    BY <1>2, <1>3, <1>5, <2>1, <2>3, <2>4 DEF TokensInv, Punctual
<1>6. CASE Ends(PrefillCommand(c))' /\ Len(stdin) > 1
  <2>1. ~Punctual
    <3>1. \A l : Len(<<l>>) = 1
      OBVIOUS
    <3>2. Punctual => Len(stdin) = 1
      BY <1>4, <3>1, Zenon
    <3>3. Len(stdin) > 1 /\ ~(1 > 1)
      BY <1>6
    <3>4. QED
      BY <3>2, <3>3, Zenon
  <2>2. QED
    BY <1>2, <1>3, <1>6, <2>1 DEF TokensInv, Punctual, Ends, PrefillCommand
<1>7. QED
  BY <1>1, <1>2, <1>4, <1>5, <1>6, ExecuteEnds

\* ... for the acknowledgement of its snapshot, ...
LEMMA ExecuteSlot ==
  ASSUME Good, Live, Execute, stage[Startup] = "done", NEW c \in Calls, stage[c] = "slot"
  PROVE  SlotInv(c)'
<1>0. c \in Tasks /\ lock = c
  BY Alone DEF Good, Busy, Tasks
<1>1. TypeOK /\ CallInv /\ BusInv
  BY DEF Good
<1>2. /\ stdin # <<>> /\ stdin' = Tail(stdin)
      /\ UNCHANGED <<faults, cap, stage, call, waiters, reply, bins>>
  BY DEF Execute, index, bus
<1>3. SlotInv(c)
  BY <1>1 DEF CallInv
<1>4. PICK p, s : p = call[c].prompt /\ s = call[c].slot
  OBVIOUS
<1>5. Target = s /\ s \in Slot
  BY <1>0, <1>4, ExecuteIs DEF Target, Reserving
<1>6. PICK P, S : P = PrefillCommand(c) /\ S = SnapCommand(s)
  OBVIOUS
<1>7. Punctual' <=> Punctual
  BY <1>2 DEF Punctual
<1>8. CASE Punctual /\ stdin = <<P, S>>
  <2>1. Waiting(c) /\ stdout = <<>>
    BY <1>3, <1>4, <1>6, <1>8 DEF SlotInv, Quiesced
  <2>2. stdin[1] = PrefillCommand(c) /\ stdin' = <<S>>
    BY <1>2, <1>6, <1>8
  <2>3. PICK d \in Calls :
          /\ PrefillCommand(c) = PrefillCommand(d) /\ UNCHANGED <<slots, stdout>>
          /\ cache' = IF d \in bins THEN call[d].prompt ELSE cache
    BY <2>2, ExecuteIs, LinesDiffer
  <2>4. d = c
    <3>1. PrefillCommand(c).from = c /\ PrefillCommand(d).from = d
      BY DEF PrefillCommand
    <3>2. QED
      BY <2>3, <3>1
  <2>5. cache' = p
    BY <1>3, <1>4, <2>3, <2>4 DEF SlotInv
  <2>6. QED
    BY <1>2, <1>3, <1>4, <1>6, <1>7, <1>8, <2>1, <2>2, <2>3, <2>5 DEF SlotInv, Waiting, SnapCommand
<1>9. CASE stdin = <<S>> /\ cache = p
  <2>1. stdin[1] = SnapCommand(s) /\ stdin' = <<>>
    BY <1>2, <1>6, <1>9
  <2>2. \/ /\ slots' = [slots EXCEPT ![s] = cache]
           /\ stdout' = Append(stdout, [prefix |-> "slot"]) /\ cache' = cache
        \/ "fail" \in faults /\ UNCHANGED <<cache, slots, stdout>>
    BY <1>5, <2>1, ExecuteIs, LinesDiffer
  <2>3. CASE Punctual
    <3>1. Waiting(c) /\ stdout = <<>>
      BY <1>2, <1>3, <1>4, <1>6, <1>9, <2>3 DEF SlotInv, Quiesced
    <3>2. CASE slots' = [slots EXCEPT ![s] = cache] /\ stdout' = Append(stdout, [prefix |-> "slot"])
      <4>1. slots'[s] = p /\ stdout' = <<[prefix |-> "slot"]>>
        BY <1>1, <1>5, <1>9, <3>1, <3>2 DEF TypeOK
      <4>2. QED
        BY <1>2, <1>3, <1>4, <1>7, <2>1, <2>3, <3>1, <4>1 DEF SlotInv, Waiting
    <3>3. CASE UNCHANGED <<cache, slots, stdout>>
      BY <1>2, <1>3, <1>4, <1>7, <2>1, <2>3, <3>1, <3>3 DEF SlotInv, Waiting
    <3>4. QED
      BY <2>2, <3>2, <3>3
  <2>4. CASE ~Punctual
    <3>1. slots' = [slots EXCEPT ![s] = cache] /\ cache' = cache
      BY <1>1, <2>2, <2>4 DEF BusInv, Punctual
    <3>2. slots'[s] = p
      BY <1>1, <1>5, <1>9, <3>1 DEF TypeOK
    <3>3. QED
      BY <1>2, <1>3, <1>4, <1>7, <1>9, <2>1, <2>4, <3>1, <3>2 DEF SlotInv
  <2>5. QED
    BY <2>3, <2>4
<1>10. QED
  BY <1>2, <1>3, <1>4, <1>6, <1>8, <1>9 DEF SlotInv, Quiesced
\* ... or for its slot to be freed.
LEMMA ExecuteFreed ==
  ASSUME Good, Live, Execute, stage[Startup] = "done", NEW c \in Calls, stage[c] = "freed"
  PROVE  FreedInv(c)'
<1>0. c \in Tasks /\ lock = c
  BY Alone DEF Good, Busy, Tasks
<1>1. TypeOK /\ CallInv /\ BusInv
  BY DEF Good
<1>2. /\ stdin # <<>> /\ stdin' = Tail(stdin)
      /\ UNCHANGED <<faults, cap, stage, call, waiters, reply, bins>>
  BY DEF Execute, index, bus
<1>3. FreedInv(c)
  BY <1>1 DEF CallInv
<1>4. PICK s : s = call[c].slot
  OBVIOUS
<1>5. Target = s /\ s \in Slot
  BY <1>0, <1>4, ExecuteIs DEF Target, Reserving
<1>6. Punctual' <=> Punctual
  BY <1>2 DEF Punctual
<1>7. Ends(FreeLine(s))
  BY <1>2, <1>3, <1>4 DEF FreedInv, Quiesced
<1>8. stdout \in Seq(Lines) /\ [prefix |-> "freed"] \in Lines /\ [prefix |-> "slot"] \in Lines
  BY <1>1 DEF TypeOK, Lines
<1>9. ASSUME Punctual
      PROVE  /\ Waiting(c)' /\ \A i \in 1..(Len(stdin) - 1) : stdin[i].op # "FREE_SNAPSHOT"
             /\ \A i \in DOMAIN stdout : stdout[i].prefix # "freed"
  <2>1. \/ /\ Waiting(c) /\ \A i \in 1..(Len(stdin) - 1) : stdin[i].op # "FREE_SNAPSHOT"
           /\ \A i \in DOMAIN stdout : stdout[i].prefix # "freed"
        \/ stdin = <<>>
    BY <1>3, <1>9 DEF FreedInv, Quiesced
  <2>2. QED
    BY <1>2, <2>1 DEF Waiting
<1>10. CASE stdin' = <<>> /\ stdin[1] = FreeLine(s)
  <2>1. slots' = [slots EXCEPT ![s] = None] /\ stdout' = Append(stdout, [prefix |-> "freed"])
    BY <1>5, <1>10, ExecuteIs, LinesDiffer
  <2>2. slots'[s] = None
    BY <1>1, <1>5, <2>1 DEF TypeOK
  <2>3. CASE Punctual
    <3>1. PICK l : l = [prefix |-> "freed"]
      OBVIOUS
    <3>2. stdout' = Append(stdout, l) /\ l \in Lines
      BY <1>8, <2>1, <3>1
    <3>3. /\ stdout' # <<>> /\ Last(stdout') = l /\ Len(stdout') = Len(stdout) + 1
          /\ \A i \in 1..Len(stdout) : stdout'[i] = stdout[i]
      BY <1>8, <3>2, Appended
    <3>4. Last(stdout').prefix = "freed"
      BY <3>1, <3>3
    <3>5. Len(stdout) \in Nat /\ DOMAIN stdout = 1..Len(stdout)
      BY <1>8
    <3>6. \A i \in 1..(Len(stdout') - 1) : stdout'[i].prefix # "freed"
      BY <1>9, <2>3, <3>3, <3>5
    <3>7. QED
      BY <1>2, <1>4, <1>6, <1>9, <1>10, <2>2, <2>3, <3>3, <3>4, <3>6 DEF FreedInv
  <2>4. CASE ~Punctual
    BY <1>2, <1>4, <1>6, <1>10, <2>2, <2>4 DEF FreedInv
  <2>5. QED
    BY <2>3, <2>4
<1>11. CASE /\ Ends(FreeLine(s))' /\ Len(stdin') = Len(stdin) - 1 /\ Len(stdin) > 1
            /\ \A i \in 1..(Len(stdin) - 1) : stdin'[i] = stdin[i + 1]
  <2>1. CASE Punctual
    <3>0. Len(stdin) \in Nat
      BY <1>1 DEF TypeOK
    <3>1. \A i \in 1..(Len(stdin') - 1) : stdin'[i].op # "FREE_SNAPSHOT"
      <4>1. ASSUME NEW i \in 1..(Len(stdin') - 1)
            PROVE  i \in 1..(Len(stdin) - 1) /\ i + 1 \in 1..(Len(stdin) - 1)
        BY <1>11, <3>0, <4>1
      <4>2. QED
        BY <1>9, <1>11, <2>1, <4>1
    <3>2. stdin[1].op # "FREE_SNAPSHOT"
      BY <1>9, <1>11, <2>1, <3>0
    <3>3. stdin[1] # FreeLine(Target)
      BY <3>2 DEF FreeLine
    <3>4. UNCHANGED stdout \/ stdout' = Append(stdout, [prefix |-> "slot"])
      BY <3>3, ExecuteIs
    <3>5. \A i \in DOMAIN stdout' : stdout'[i].prefix # "freed"
      <4>1. CASE UNCHANGED stdout
        BY <1>9, <2>1, <4>1
      <4>2. CASE stdout' = Append(stdout, [prefix |-> "slot"])
        <5>1. PICK l : l = [prefix |-> "slot"]
          OBVIOUS
        <5>2. stdout' = Append(stdout, l) /\ l \in Lines /\ l.prefix # "freed"
          BY <1>8, <4>2, <5>1
        <5>3. /\ stdout' \in Seq(Lines) /\ Last(stdout') = l /\ Len(stdout') = Len(stdout) + 1
              /\ \A i \in 1..Len(stdout) : stdout'[i] = stdout[i]
          BY <1>8, <5>2, Appended
        <5>4. /\ Len(stdout) \in Nat /\ DOMAIN stdout = 1..Len(stdout)
              /\ DOMAIN stdout' = 1..Len(stdout')
          BY <1>8, <5>3
        <5>5. stdout'[Len(stdout')] = l
          BY <5>3 DEF Last
        <5>6. ASSUME NEW i \in DOMAIN stdout' PROVE stdout'[i].prefix # "freed"
          <6>1. CASE i = Len(stdout')
            BY <5>2, <5>5, <6>1
          <6>2. CASE i # Len(stdout')
            <7>1. i \in 1..Len(stdout)
              BY <5>3, <5>4, <5>6, <6>2
            <7>2. QED
              BY <1>9, <2>1, <5>3, <5>4, <7>1
          <6>3. QED
            BY <6>1, <6>2
        <5>7. QED
          BY <5>6
      <4>3. QED
        BY <3>4, <4>1, <4>2
    <3>6. QED
      BY <1>2, <1>4, <1>6, <1>9, <1>11, <2>1, <3>1, <3>5 DEF FreedInv, Ends, FreeLine
  <2>2. CASE ~Punctual
    BY <1>2, <1>4, <1>6, <1>11, <2>2 DEF FreedInv, Ends, FreeLine
  <2>3. QED
    BY <2>1, <2>2
<1>12. QED
  BY <1>1, <1>2, <1>7, <1>10, <1>11, ExecuteEnds

LEMMA ExecuteGood == ASSUME Good, Live, Execute PROVE Good'
<1>1. TypeOK /\ LockInv /\ WaitInv /\ SyncInv /\ IndexInv /\ CallInv /\ BusInv
  BY DEF Good
<1>2. /\ stdin # <<>> /\ stdin' = Tail(stdin)
      /\ UNCHANGED <<faults, cap, index, lock, stage, call, orphans, bus, bins, alive>>
  BY DEF Execute
<1>3. UNCHANGED <<lru, slotOf, nextSlot, pendingEvict, waiters, reply, reading>>
  BY <1>2 DEF index, bus
<1>4. LockInv' /\ WaitInv' /\ IndexInv'
  <2>1. LockInv'
    BY <1>1, <1>2 DEF LockInv, Busy
  <2>2. WaitInv'
    BY <1>1, <1>2, <1>3 DEF WaitInv, Waiting
  <2>3. QED
    BY <1>1, <1>2, <2>1, <2>2, SameIndex
<1>5. Target' = Target /\ Cached' = Cached
  BY <1>2, <1>3 DEF Target, Reserving, Cached
<1>6. BusInv'
  <2>1. stdin \in Seq(Commands)
    BY <1>1 DEF TypeOK
  <2>2. /\ DOMAIN stdin = 1..Len(stdin) /\ DOMAIN stdin' = 1..(Len(stdin) - 1)
        /\ Len(stdin) \in Nat /\ \A i \in 1..(Len(stdin) - 1) : stdin'[i] = stdin[i + 1]
    BY <1>2, <2>1, OneLess
  <2>3. ASSUME NEW i \in DOMAIN stdin'
        PROVE  i + 1 \in DOMAIN stdin /\ stdin'[i] = stdin[i + 1]
    BY <2>2, <2>3
  <2>4. QED
    BY <1>1, <1>2, <1>5, <2>3 DEF BusInv
<1>7. CASE stage[Startup] # "done"
  <2>1. TypeOK' /\ SyncInv'
    BY <1>7, ExecuteStartup
  <2>2. CallInv'
    BY <1>2, <1>7 DEF CallInv
  <2>3. QED
    BY <1>4, <1>6, <2>1, <2>2 DEF Good
<1>8. CASE stage[Startup] = "done"
  <2>1. /\ slots' \in [Slot -> Prompts \cup {None}] /\ cache' \in Prompts \cup {None}
        /\ stdout' \in Seq(Lines)
        /\ \A s \in Slot : s # Target => slots'[s] = slots[s]
    <3>1. \/ slots' = [slots EXCEPT ![Target] = None] \/ slots' = [slots EXCEPT ![Target] = cache]
          \/ slots' = slots
      BY <1>8, ExecuteIs
    <3>2. cache' = cache \/ \E c \in Calls : cache' = call[c].prompt
      BY <1>8, ExecuteIs
    <3>3. \/ stdout' = stdout \/ stdout' = Append(stdout, [prefix |-> "freed"])
          \/ stdout' = Append(stdout, [prefix |-> "slot"])
      BY <1>8, ExecuteIs
    <3>4. [prefix |-> "freed"] \in Lines /\ [prefix |-> "slot"] \in Lines
      BY DEF Lines
    <3>5. slots' \in [Slot -> Prompts \cup {None}] /\ \A s \in Slot : s # Target => slots'[s] = slots[s]
      BY <1>1, <3>1 DEF TypeOK
    <3>6. cache' \in Prompts \cup {None}
      BY <1>1, <3>2 DEF TypeOK
    <3>7. stdout' \in Seq(Lines)
      <4>1. stdout \in Seq(Lines)
        BY <1>1 DEF TypeOK
      <4>2. \A l \in Lines : Append(stdout, l) \in Seq(Lines)
        BY <4>1
      <4>3. QED
        BY <3>3, <3>4, <4>1, <4>2
    <3>8. QED
      BY <3>5, <3>6, <3>7
  <2>2. TypeOK'
    <3>1. stdin' \in Seq(Commands)
      BY <1>1, <1>2, OneLess DEF TypeOK
    <3>2. QED
      BY <1>1, <1>2, <1>3, <2>1, <3>1 DEF TypeOK
  <2>3. SyncInv'
    BY <1>2, <1>8 DEF SyncInv
  <2>4. OthersAgree'
    BY <1>1, <1>3, <1>5, <1>8, <2>1 DEF CallInv, OthersAgree, Agrees
  <2>5. lock = None => FreeInv'
    BY <1>8, ExecuteFree
  <2>6. \A c \in Calls : /\ stage[c] = "tokens" => TokensInv(c)'
                         /\ stage[c] = "slot" => SlotInv(c)'
                         /\ stage[c] = "freed" => FreedInv(c)'
    BY <1>8, ExecuteTokens, ExecuteSlot, ExecuteFreed
  <2>7. CallInv'
    BY <1>2, <2>4, <2>5, <2>6 DEF CallInv
  <2>8. QED
    BY <1>4, <1>6, <2>2, <2>3, <2>7 DEF Good
<1>9. QED
  BY <1>7, <1>8
-----------------------------------------------------------------------------
(* The invariant                                                           *)

\* No set of faults has a daemon that is slow and one that fails a snapshot; a
\* caller of a slow daemon consumes the tokens.
OneOrTheOther == \A h \in Hazards : "slow" \in h => "fail" \notin h
Consuming == "slow" \in faults => \A c \in Calls : call[c].consumed

LEMMA InitInv == ASSUME Init, OneOrTheOther, Consuming PROVE Inv
<1>0. Startup \in Tasks /\ \A t \in Tasks : t # None /\ stage[t] = "begin"
  BY NoneAssumption DEF Init, Tasks
<1>1. stage \in [Tasks -> StageNames]
  BY DEF Init, StageNames
<1> SUFFICES ASSUME Live PROVE Good
  BY <1>1 DEF Inv
<1>2. cap \in 1..DAEMON_MAX_SLOTS
  <2>1. PICK asked \in Asked : cap = Min({asked, DAEMON_MAX_SLOTS})
    BY DEF Init, Clamped
  <2>2. asked \in Nat /\ DAEMON_MAX_SLOTS \in Nat
    BY <2>1, SlotsAssumption
  <2>3. {asked, DAEMON_MAX_SLOTS} \in SUBSET Nat /\ {asked, DAEMON_MAX_SLOTS} # {}
    BY <2>2
  <2>4. /\ cap \in {asked, DAEMON_MAX_SLOTS}
        /\ \A x \in {asked, DAEMON_MAX_SLOTS} : cap <= x
    BY <2>1, <2>3, MinOfNaturals
  <2>5. QED
    BY <2>2, <2>4 DEF Live
<1>3. lru = <<>> /\ ToSet(lru) = {} /\ Len(lru) = 0 /\ IsInjective(lru) /\ Cached = {}
  BY DEF Init, ToSet, IsInjective, Cached
<1>4. TypeOK
  <2>1. slotOf \in [ToSet(lru) -> 0..(cap - 1)] /\ nextSlot \in 0..(cap - 1)
    BY <1>2, <1>3, SlotsAssumption DEF Init
  <2>2. stage \in [Tasks -> {"begin", "slots", "tokens", "slot", "freed", "done", "failed"}]
    BY DEF Init
  <2>3. call \in [Calls -> [prompt : Prompts, consumed : BOOLEAN, slot : Slot \cup {None}]]
    BY DEF Init
  <2>4. slots \in [Slot -> Prompts \cup {None}] /\ cache \in Prompts \cup {None}
    BY DEF Init
  <2>5. QED
    BY <1>2, <1>3, <2>1, <2>2, <2>3, <2>4 DEF TypeOK, Init
<1>5. LockInv
  BY <1>0 DEF LockInv, Busy, Init, Tasks
<1>6. WaitInv
  BY <1>0 DEF WaitInv, Init
<1>7. SyncInv
  BY <1>0 DEF SyncInv, Init, Quiesced
<1>8. IndexInv
  <2>1. ~Reserving
    BY NoneAssumption DEF Init, Reserving, Tasks
  <2>2. nextSlot = 0
    BY DEF Init
  <2>3. QED
    BY <1>2, <1>3, <2>1, <2>2 DEF IndexInv
<1>9. CallInv
  BY <1>0 DEF CallInv
<1>10. BusInv
  BY <1>0 DEF BusInv, Init, OneOrTheOther, Consuming
<1>11. QED
  BY <1>4, <1>5, <1>6, <1>7, <1>8, <1>9, <1>10 DEF Good

LEMMA NextInv == ASSUME Inv, [Next]_vars PROVE Inv'
<1>1. stage' \in [Tasks -> StageNames]
  BY StageTyped DEF Inv
<1> SUFFICES ASSUME Live' PROVE Good'
  BY <1>1 DEF Inv
<1>2. Live /\ Good
  BY LiveBefore DEF Inv
<1>3. stage' \in [Tasks -> StageNames] /\ stage \in [Tasks -> StageNames] /\ Startup \in Tasks
  BY <1>1 DEF Inv, Tasks
<1>4. CASE RouteLine
  BY <1>2, <1>4, RouteLineGood
<1>5. CASE RouteEof
  BY <1>2, <1>5 DEF RouteEof, Live
<1>6. CASE StartSync
  BY <1>2, <1>6, StartSyncGood
<1>7. CASE SkipSync
  BY <1>2, <1>7 DEF SkipSync, Live
<1>8. CASE SyncReply
  BY <1>2, <1>8, SyncReplyGood
<1>9. CASE SyncFails
  BY <1>3, <1>9 DEF SyncFails, Live
<1>10. ASSUME NEW c \in Calls, Maybe(c) \/ Cancel(c) \/ CancelRecovery(c) PROVE Good'
  <2>1. CASE Skip(c)
    BY <1>2, <2>1, SkipGood
  <2>2. CASE Prefill(c)
    BY <1>2, <2>2, PrefillGood
  <2>3. CASE Snapshot(c)
    BY <1>2, <2>3, SnapshotGood
  <2>4. CASE Confirm(c)
    BY <1>2, <2>4, ConfirmGood
  <2>5. CASE Recover(c) \/ Cancel(c)
    BY <1>2, <2>5, UndoGood DEF Recover, Cancel
  <2>6. CASE Abort(c)
    BY <1>2, <2>6, AbortGood
  <2>7. CASE CancelRecovery(c)
    <3>1. stage'[c] = "dropped"
      BY <1>3, <2>7 DEF CancelRecovery, Tasks
    <3>2. QED
      BY <3>1 DEF Live
  <2>8. QED
    BY <1>10, <2>1, <2>2, <2>3, <2>4, <2>5, <2>6, <2>7 DEF Maybe
<1>11. CASE Execute
  BY <1>2, <1>11, ExecuteGood
<1>12. CASE Die
  BY <1>12 DEF Die, Live
<1>13. CASE Quiet \/ UNCHANGED vars
  <2>1. UNCHANGED <<faults, cap, lru, slotOf, nextSlot, pendingEvict, lock, stage, call, orphans,
                    waiters, reply, reading, stdin, stdout, bins, cache, slots, alive>>
    BY <1>13 DEF Quiet, vars, index, bus, daemon
  <2>2. TypeOK' /\ LockInv' /\ BusInv' /\ IndexInv'
    BY <1>2, <2>1 DEF Good, TypeOK, LockInv, Busy, BusInv, Target, Reserving, IndexInv, Cached
  <2>3. WaitInv' /\ SyncInv'
    BY <1>2, <2>1 DEF Good, WaitInv, Waiting, SyncInv, Quiesced, InUse
  <2>4. CallInv'
    BY <1>2, <2>1 DEF Good, CallInv, OthersAgree, Target, Reserving, Agrees, Cached, FreeInv,
       TokensInv, SlotInv, FreedInv, Quiesced, Waiting, Punctual, Ends
  <2>5. QED
    BY <2>2, <2>3, <2>4 DEF Good
<1>14. QED
  BY <1>4, <1>5, <1>6, <1>7, <1>8, <1>9, <1>10, <1>11, <1>12, <1>13 DEF Next, Sync

\* Whatever happens, somebody under way has the lock.
UnderWay(t) == stage[t] \in {"slots", "tokens", "slot", "freed", "abort"}
Owned == stage \in [Tasks -> StageNames] /\ \A t \in Tasks : UnderWay(t) => lock = t

LEMMA NextOwned == ASSUME Owned, [Next]_vars PROVE Owned'
<1> DEFINE Step(t, to) ==
      /\ stage' = [stage EXCEPT ![t] = to]
      /\ \/ UNCHANGED lock /\ to \in {"done", "failed"} /\ stage[t] = "begin"
         \/ lock \in {None, t} /\ (to \in {"done", "failed", "dropped"} \/ lock' = t)
<1>0. /\ Startup \in Tasks /\ Startup \notin Calls /\ Calls \subseteq Tasks
      /\ stage' \in [Tasks -> StageNames] /\ stage \in [Tasks -> StageNames]
  BY StartupAssumption, StageTyped DEF Tasks, Owned
<1>1. CASE UNCHANGED <<stage, lock>>
  BY <1>1 DEF Owned, UnderWay
<1>2. ASSUME NEW t \in Tasks, NEW to, Step(t, to) PROVE Owned'
  <2>1. stage'[t] = to /\ \A u \in Tasks : u # t => stage'[u] = stage[u]
    BY <1>0, <1>2
  <2>2. CASE UNCHANGED lock /\ to \in {"done", "failed"}
    BY <1>0, <2>1, <2>2 DEF Owned, UnderWay
  <2>3. CASE lock \in {None, t} /\ (to \in {"done", "failed", "dropped"} \/ lock' = t)
    <3>1. \A u \in Tasks : u # t => ~UnderWay(u)
      BY <2>3, NoneAssumption DEF Owned
    <3>2. QED
      BY <1>0, <2>1, <2>3, <3>1 DEF Owned, UnderWay
  <2>4. QED
    BY <1>2, <2>2, <2>3
<1>3. CASE RouteLine \/ RouteEof \/ Execute \/ Die \/ Quiet \/ UNCHANGED vars
  BY <1>1, <1>3 DEF RouteLine, RouteEof, Execute, Die, Quiet, vars
<1>4. CASE Sync
  <2>1. stage[Startup] \in {"slots", "freed"} => lock = Startup
    BY <1>0 DEF Owned, UnderWay
  <2>2. Step(Startup, "slots") \/ Step(Startup, "freed") \/ Step(Startup, "done")
        \/ Step(Startup, "failed")
    BY <1>4, <2>1 DEF Sync, StartSync, SkipSync, SyncReply, FreeNext, SyncFails
  <2>3. QED
    BY <1>0, <1>2, <2>2
<1>5. ASSUME NEW c \in Calls, Maybe(c) \/ Cancel(c) \/ CancelRecovery(c) PROVE Owned'
  <2>1. UnderWay(c) => lock = c
    BY <1>0 DEF Owned
  <2>2. \/ Step(c, "done") \/ Step(c, "tokens") \/ Step(c, "abort") \/ Step(c, "slot")
        \/ Step(c, "freed") \/ Step(c, "failed") \/ Step(c, "dropped")
    BY <1>5, <2>1 DEF UnderWay, Maybe, Skip, Prefill, Snapshot, Confirm, Recover, Cancel, Undo,
       Abort, CancelRecovery
  <2>3. QED
    BY <1>0, <1>2, <2>2
<1>6. QED
  BY <1>3, <1>4, <1>5 DEF Next

\* The property, from the invariant.
LEMMA AgreementIsSeen == ASSUME Inv, Owned PROVE IndexMatchesSlots
<1> SUFFICES ASSUME cap > 0, stage[Startup] = "done", lock = None, stdin = <<>>, alive,
                    \A c \in Calls : stage[c] # "dropped" /\ (cap > 1 => stage[c] # "failed")
             PROVE  {<<k, slotOf[k]>> : k \in Cached} =
                      {<<slots[s], s>> : s \in {t \in Slot : slots[t] # None}}
  BY DEF IndexMatchesSlots
<1>1. \A c \in Calls : stage[c] # "freed"
  BY NoneAssumption DEF Owned, UnderWay, Tasks
<1>2. Live /\ TypeOK /\ IndexInv /\ CallInv
  BY <1>1 DEF Live, Inv, Good
<1>3. Target = 0 /\ OthersAgree /\ FreeInv
  BY <1>2, NoneAssumption DEF CallInv, Target, Reserving, Tasks
<1>4. Agrees(0)
  <2>1. CASE Punctual
    BY <1>3, <2>1 DEF FreeInv
  <2>2. CASE ~Punctual /\ lru = <<>>
    <3>1. slots[0] = None
      BY <1>3, <2>2 DEF FreeInv, Ends
    <3>2. QED
      BY <1>2, <2>2, <3>1, CachedKeys DEF Agrees
  <2>3. CASE ~Punctual /\ lru # <<>>
    <3>1. slots[0] = lru[1]
      BY <1>3, <2>3 DEF FreeInv
    <3>2. cap = 1
      BY <1>2, <2>3 DEF Punctual, TypeOK
    <3>3. lru[1] \in Cached /\ lru[1] \in Prompts
      <4>1. Len(lru) \in Nat /\ Len(lru) # 0
        BY <1>2, <2>3, CachedKeys
      <4>2. 1 \in 1..Len(lru)
        BY <4>1
      <4>3. QED
        BY <1>2, <4>2, CachedKeys
    <3>4. slotOf[lru[1]] \in 0..0
      BY <1>2, <3>2, <3>3, CachedKeys
    <3>5. QED
      BY <3>1, <3>3, <3>4, NoneAssumption DEF Agrees
  <2>4. QED
    BY <2>1, <2>2, <2>3
<1>5. \A s \in Slot : Agrees(s)
  BY <1>3, <1>4 DEF OthersAgree
<1>6. \A k \in Cached : slotOf[k] \in Slot
  BY <1>2, CachedKeys, SlotsAssumption DEF TypeOK, Slot
<1>7. ASSUME NEW k \in Cached PROVE slots[slotOf[k]] = k /\ k # None
  <2>1. k \in Prompts
    BY <1>2, CachedKeys
  <2>2. slots[slotOf[k]] # None /\ slotOf[slots[slotOf[k]]] = slotOf[k]
        /\ slots[slotOf[k]] \in Cached
    BY <1>5, <1>6 DEF Agrees
  <2>3. QED
    BY <1>2, <2>1, <2>2, NoneAssumption DEF IndexInv
<1>8. ASSUME NEW s \in Slot, slots[s] # None PROVE slots[s] \in Cached /\ slotOf[slots[s]] = s
  BY <1>5, <1>8 DEF Agrees
<1>9. \A x : x \in {<<k, slotOf[k]>> : k \in Cached} <=>
             x \in {<<slots[s], s>> : s \in {t \in Slot : slots[t] # None}}
  BY <1>6, <1>7, <1>8
<1>10. QED
  BY <1>9

\* The index of the prefix cache and the snapshot slots of the daemon say the same
\* whenever nobody holds daemon_lock and no command is under way (class
\* PrefixCache, startup_sync and maybe_snapshot), for every number of calls,
\* prompts and slots.  It does not hold of a slow daemon that may also fail a
\* snapshot, nor of one whose callers leave the tokens to the next reader.
THEOREM Consistent ==
  OneOrTheOther => (Spec /\ Consuming => []IndexMatchesSlots)
<1>1. SUFFICES ASSUME OneOrTheOther PROVE Spec /\ Consuming => []IndexMatchesSlots
  OBVIOUS
<1>2. Init /\ Consuming => Inv /\ Owned
  <2>1. Init => Owned
    BY NoneAssumption DEF Init, Owned, UnderWay, StageNames
  <2>2. QED
    BY <1>1, <2>1, InitInv
<1>3. Inv /\ Owned /\ [Next]_vars => Inv' /\ Owned'
  BY NextInv, NextOwned
<1>4. Inv /\ Owned => IndexMatchesSlots
  BY AgreementIsSeen
<1>5. QED
  BY <1>2, <1>3, <1>4, PTL DEF Spec

=============================================================================
