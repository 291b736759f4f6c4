-------------------------- MODULE FullCacheProofs --------------------------
(***************************************************************************)
(* Theorems about FullCache, for every set of prompts and every cap: what  *)
(* holds for any number of connections and any fault, what holds when a    *)
(* request keeps its reservation to itself, and what server.py guarantees  *)
(* when every response is a complete, non-streaming one.                   *)
(***************************************************************************)
EXTENDS FullCache, SequenceTheorems, TLAPS

-----------------------------------------------------------------------------
(* The order of an LRU index, a sequence of distinct keys                  *)

\* pop removes the key and nothing else, whether or not it is there.
LEMMA PopDropsKey ==
  ASSUME NEW S, NEW s \in Seq(S), IsInjective(s), NEW k
  PROVE  /\ Pop(s, k) \in Seq(S) /\ IsInjective(Pop(s, k))
         /\ ToSet(Pop(s, k)) = ToSet(s) \ {k}
         /\ Len(Pop(s, k)) = Len(s) - (IF k \in ToSet(s) THEN 1 ELSE 0)
<1>1. CASE k \notin ToSet(s)
  BY <1>1 DEF Pop
<1>2. CASE k \in ToSet(s)
  <2>1. PICK i \in 1..Len(s) : i = Position(s, k) /\ s[i] = k
    BY <1>2 DEF Position, ToSet
  <2>2. PICK r, a, b : r = Pop(s, k) /\ a = SubSeq(s, 1, i - 1) /\ b = SubSeq(s, i + 1, Len(s))
    OBVIOUS
  <2>3. a \in Seq(S) /\ Len(a) = i - 1 /\ \A j \in 1..(i - 1) : a[j] = s[j]
    BY <2>2, SubSeqProperties
  <2>4. b \in Seq(S) /\ Len(b) = Len(s) - i /\ \A j \in 1..(Len(s) - i) : b[j] = s[i + j]
    BY <2>2, SubSeqProperties
  <2>5. r = a \o b
    BY <1>2, <2>1, <2>2 DEF Pop, RemoveAt
  <2>6. r \in Seq(S) /\ Len(r) = Len(s) - 1 /\ DOMAIN r = 1..(Len(s) - 1) /\ DOMAIN s = 1..Len(s)
    BY <2>3, <2>4, <2>5, ConcatProperties
  <2>7. \A j \in DOMAIN r : r[j] = s[IF j < i THEN j ELSE j + 1]
    <3>1. \A j \in 1..Len(a) : r[j] = a[j]
      BY <2>3, <2>4, <2>5, ConcatProperties
    <3>2. \A j \in (Len(a) + 1)..(Len(a) + Len(b)) : r[j] = b[j - Len(a)]
      BY <2>3, <2>4, <2>5, ConcatProperties
    <3>3. ASSUME NEW j \in DOMAIN r, j < i PROVE r[j] = s[j]
      BY <2>3, <2>6, <3>1, <3>3
    <3>4. ASSUME NEW j \in DOMAIN r, j >= i PROVE r[j] = s[j + 1]
      <4>1. PICK n \in Nat : n = Len(s)
        OBVIOUS
      <4>2. j \in 1..(n - 1) /\ i \in 1..n /\ Len(a) = i - 1 /\ Len(b) = n - i
        BY <2>3, <2>4, <2>6, <4>1
      <4>3. PICK h : h = j - (i - 1)
        OBVIOUS
      <4>4. h \in 1..(n - i) /\ i + h = j + 1 /\ j \in ((i - 1) + 1)..((i - 1) + (n - i))
        BY <3>4, <4>2, <4>3
      <4>5. r[j] = b[h] /\ b[h] = s[i + h]
        BY <2>4, <3>2, <4>1, <4>2, <4>3, <4>4
      <4>6. QED
        BY <4>4, <4>5
    <3>5. QED
      BY <2>6, <3>3, <3>4
  <2>8. PICK from \in [DOMAIN r -> DOMAIN s \ {i}] :
          /\ \A j \in DOMAIN r : r[j] = s[from[j]]
          /\ \A j, h \in DOMAIN r : from[j] = from[h] => j = h
          /\ \A j \in DOMAIN s \ {i} : \E h \in DOMAIN r : from[h] = j
    <3> DEFINE f == [j \in DOMAIN r |-> IF j < i THEN j ELSE j + 1]
    <3>1. f \in [DOMAIN r -> DOMAIN s \ {i}] /\ \A j \in DOMAIN r : r[j] = s[f[j]]
      BY <2>6, <2>7
    <3>2. \A j, h \in DOMAIN r : f[j] = f[h] => j = h
      BY <2>6
    <3>3. ASSUME NEW j \in DOMAIN s \ {i} PROVE \E h \in DOMAIN r : f[h] = j
      <4>1. CASE j < i
        BY <2>6, <3>3, <4>1
      <4>2. CASE j > i
        <5>1. j - 1 \in DOMAIN r /\ f[j - 1] = j
          BY <2>6, <3>3, <4>2
        <5>2. QED
          BY <5>1
      <4>3. QED
        BY <2>6, <3>3, <4>1, <4>2
    <3> HIDE DEF f
    <3>4. QED
      BY <3>1, <3>2, <3>3
  <2>9. IsInjective(r)
    BY <2>8 DEF IsInjective
  <2>10. ToSet(r) = ToSet(s) \ {k}
    BY <2>1, <2>6, <2>8 DEF ToSet, IsInjective
  <2>11. QED
    BY <1>2, <2>2, <2>6, <2>9, <2>10
<1>3. QED
  BY <1>1, <1>2

\* Appending a key that is not in the order.
LEMMA AppendFresh ==
  ASSUME NEW S, NEW s \in Seq(S), IsInjective(s), NEW k \in S, k \notin ToSet(s)
  PROVE  /\ Append(s, k) \in Seq(S)
         /\ IsInjective(Append(s, k))
         /\ ToSet(Append(s, k)) = ToSet(s) \cup {k}
         /\ Len(Append(s, k)) = Len(s) + 1
  BY DEF IsInjective, ToSet

\* Inserting a key keeps the order free of duplicates.
LEMMA InsertAddsKey ==
  ASSUME NEW S, NEW s \in Seq(S), IsInjective(s), NEW k \in S
  PROVE  /\ Insert(s, k) \in Seq(S)
         /\ IsInjective(Insert(s, k))
         /\ ToSet(Insert(s, k)) = ToSet(s) \cup {k}
         /\ Len(Insert(s, k)) = Len(s) + (IF k \in ToSet(s) THEN 0 ELSE 1)
<1>1. CASE k \in ToSet(s)
  BY <1>1 DEF Insert
<1>2. CASE k \notin ToSet(s)
  BY <1>2, AppendFresh DEF Insert
<1>3. QED
  BY <1>1, <1>2

-----------------------------------------------------------------------------
(* The invariants                                                          *)

TypeInv == TypeOK /\ IsInjective(lru)

\* One request at a time holds a reservation: the lock is kept from lookup to
\* confirm, or there is a single connection.
Serial == ~LockGap \/ \A c, d \in Client : c = d

InTurn == ~LockGap => \A c \in Client : req[c] # None => holder = c

Reserving(c) == req[c] # None /\ req[c].prep # None

\* While a request holds a reservation, its prompt is not cached, and at cap
\* the entry to evict is the oldest one.
Reserved ==
  \A c \in Client : Reserving(c) =>
    /\ req[c].prompt \notin Cached
    /\ IF Len(lru) < Cap THEN pendingEvict = None ELSE pendingEvict = Oldest(lru)

SerialInv == TypeInv /\ Len(lru) <= Cap /\ InTurn /\ Reserved

-----------------------------------------------------------------------------
(* The index                                                               *)

\* What lookup_full leaves of the index.
LEMMA LookupIndex ==
  ASSUME TypeInv, NEW p \in Prompts, lookup_full(p)
  PROVE  /\ lru' \in Seq(Prompts) /\ IsInjective(lru')
         /\ slotOf' \in [ToSet(lru') -> Slot]
         /\ \A k \in Cached' : k \in Cached /\ slotOf'[k] = slotOf[k]
         /\ Cached' = IF IsHit(p) THEN Cached ELSE Cached \ {p}
         /\ IsHit(p) => Len(lru') = Len(lru) /\ slotOf' = slotOf
         /\ ~IsHit(p) => lru' = Pop(lru, p) /\ Len(lru') <= Len(lru)
         /\ ~IsHit(p) /\ p \notin Cached => lru' = lru /\ slotOf' = slotOf
<1> USE DEF TypeInv
<1>1. lru \in Seq(Prompts) /\ IsInjective(lru) /\ Cached = ToSet(lru)
      /\ slotOf \in [ToSet(lru) -> Slot]
  BY DEF TypeOK, Cached
<1>2. /\ Pop(lru, p) \in Seq(Prompts) /\ IsInjective(Pop(lru, p))
      /\ ToSet(Pop(lru, p)) = ToSet(lru) \ {p}
      /\ Len(Pop(lru, p)) = Len(lru) - (IF p \in ToSet(lru) THEN 1 ELSE 0)
  BY <1>1, PopDropsKey
<1>3. CASE IsHit(p)
  <2>1. lru' = Append(Pop(lru, p), p) /\ slotOf' = slotOf /\ p \in ToSet(lru)
    BY <1>1, <1>3 DEF lookup_full, MoveToEnd, IsHit
  <2>2. /\ lru' \in Seq(Prompts) /\ IsInjective(lru')
        /\ ToSet(lru') = ToSet(Pop(lru, p)) \cup {p}
        /\ Len(lru') = Len(Pop(lru, p)) + 1
    BY <1>2, <2>1, AppendFresh
  <2>3. ToSet(lru') = ToSet(lru) /\ Len(lru') = Len(lru)
    BY <1>1, <1>2, <2>1, <2>2
  <2>4. QED
    BY <1>1, <1>3, <2>1, <2>2, <2>3 DEF Cached
<1>4. CASE ~IsHit(p)
  <2>1. lru' = Pop(lru, p) /\ slotOf' = Restrict(slotOf, Cached \ {p})
    BY <1>4 DEF lookup_full
  <2>2. slotOf' = [k \in Cached \ {p} |-> slotOf[k]]
    BY <2>1 DEF Restrict
  <2>3. /\ Cached' = Cached \ {p} /\ \A k \in Cached \ {p} : slotOf'[k] = slotOf[k]
        /\ slotOf' \in [Cached \ {p} -> Slot]
    BY <1>1, <2>2 DEF Cached
  <2>4. p \notin Cached => lru' = lru /\ slotOf' = slotOf
    <3> SUFFICES ASSUME p \notin Cached PROVE lru' = lru /\ slotOf' = slotOf
      OBVIOUS
    <3>1. Cached \ {p} = Cached
      OBVIOUS
    <3>2. slotOf' = slotOf
      BY <1>1, <2>2, <3>1
    <3>3. QED
      BY <1>1, <2>1, <3>2 DEF Pop
  <2>5. Len(lru') <= Len(lru)
    BY <1>1, <1>2, <2>1
  <2>6. QED
    BY <1>1, <1>2, <1>4, <2>1, <2>3, <2>4, <2>5
<1>5. QED
  BY <1>3, <1>4

\* The reservation that follows a miss.
LEMMA ReserveIndex ==
  ASSUME TypeInv, NEW p \in Prompts, ~IsHit(p), lookup_full(p), prepare_full_snap(p)
  PROVE  /\ PreparedSlot(p) \in Slot /\ nextSlot' \in Slot
         /\ pendingEvict' \in Prompts \cup {None}
         /\ IF Len(lru') < Cap
            THEN /\ pendingEvict' = None /\ PreparedSlot(p) = nextSlot
                 /\ nextSlot' = (nextSlot + 1) % Cap
            ELSE /\ pendingEvict' = Oldest(lru') /\ pendingEvict' \in Cached'
                 /\ PreparedSlot(p) = slotOf'[pendingEvict'] /\ nextSlot' = nextSlot
<1>1. /\ lru' = Pop(lru, p) /\ lru' \in Seq(Prompts) /\ Cached' = ToSet(lru')
      /\ slotOf' \in [ToSet(lru') -> Slot]
      /\ \A k \in Cached' : k \in Cached /\ slotOf'[k] = slotOf[k]
  BY LookupIndex DEF Cached
<1>2. nextSlot \in Slot /\ Cap \in Nat /\ Len(lru') \in Nat /\ Cap >= 1
  BY <1>1, CapAssumption DEF TypeInv, TypeOK
<1>3. CASE Len(lru') >= Cap
  <2>1. 1 \in DOMAIN lru' /\ lru'[1] \in Prompts
    BY <1>1, <1>2, <1>3
  <2>2. Oldest(lru') \in Cached' /\ Oldest(lru') \in Prompts
    BY <1>1, <2>1 DEF Oldest, ToSet
  <2>3. pendingEvict' = Oldest(lru') /\ nextSlot' = nextSlot
        /\ PreparedSlot(p) = slotOf[Oldest(lru')]
    BY <1>1, <1>3 DEF prepare_full_snap, PreparedSlot
  <2>4. QED
    BY <1>1, <1>2, <1>3, <2>2, <2>3
<1>4. CASE ~(Len(lru') >= Cap)
  <2>1. (nextSlot + 1) % Cap \in Slot
    BY <1>2 DEF Slot
  <2>2. pendingEvict' = None /\ nextSlot' = (nextSlot + 1) % Cap
        /\ PreparedSlot(p) = nextSlot
    BY <1>1, <1>4 DEF prepare_full_snap, PreparedSlot
  <2>3. QED
    BY <1>2, <1>4, <2>1, <2>2
<1>5. QED
  BY <1>3, <1>4

\* Registering a prompt evicts at most the pending entry.
LEMMA RegisterIndex ==
  ASSUME TypeInv, NEW p \in Prompts, NEW slot \in Slot, Register(p, slot)
  PROVE  /\ lru' \in Seq(Prompts) /\ IsInjective(lru')
         /\ slotOf' \in [ToSet(lru') -> Slot]
         /\ Cached' = (Cached \ {pendingEvict}) \cup {p}
         /\ \A k \in Cached' : slotOf'[k] = IF k = p THEN slot ELSE slotOf[k]
         /\ p \notin Cached =>
              Len(lru') = Len(lru) + (IF pendingEvict \in Cached THEN 0 ELSE 1)
<1> USE DEF TypeInv
<1>1. lru \in Seq(Prompts) /\ IsInjective(lru) /\ Cached = ToSet(lru)
      /\ slotOf \in [Cached -> Slot] /\ Len(lru) \in Nat
  BY DEF TypeOK, Cached
<1> DEFINE kept == Pop(lru, pendingEvict)
<1>2. /\ kept \in Seq(Prompts) /\ IsInjective(kept)
      /\ ToSet(kept) = Cached \ {pendingEvict}
      /\ Len(kept) = Len(lru) - (IF pendingEvict \in Cached THEN 1 ELSE 0)
  BY <1>1, PopDropsKey
<1>3. /\ lru' = Insert(kept, p)
      /\ slotOf' = [k \in (Cached \ {pendingEvict}) \cup {p} |->
                      IF k = p THEN slot ELSE slotOf[k]]
  BY DEF Register
<1> HIDE DEF kept
<1>4. /\ lru' \in Seq(Prompts) /\ IsInjective(lru')
      /\ ToSet(lru') = ToSet(kept) \cup {p}
      /\ Len(lru') = Len(kept) + (IF p \in ToSet(kept) THEN 0 ELSE 1)
  BY <1>2, <1>3, InsertAddsKey
<1>5. ToSet(lru') = (Cached \ {pendingEvict}) \cup {p}
  BY <1>2, <1>4
<1>6. slotOf' \in [ToSet(lru') -> Slot]
  BY <1>1, <1>3, <1>5
<1>7. p \notin Cached => Len(lru') = Len(lru) + (IF pendingEvict \in Cached THEN 0 ELSE 1)
  <2> SUFFICES ASSUME p \notin Cached
               PROVE  Len(lru') = Len(lru) + (IF pendingEvict \in Cached THEN 0 ELSE 1)
    OBVIOUS
  <2>1. p \notin ToSet(kept)
    BY <1>2
  <2>2. Len(lru') = Len(kept) + 1
    BY <1>4, <2>1
  <2>3. QED
    BY <1>1, <1>2, <2>2
<1>8. QED
  BY <1>3, <1>4, <1>5, <1>6, <1>7 DEF Cached

-----------------------------------------------------------------------------
(* Any number of connections, any fault                                    *)

\* The request that Lookup records.
Recorded(p, stream) ==
  [prompt |-> p, stream |-> stream, pc |-> "prepared",
   hit |-> IF IsHit(p) THEN slotOf[p] ELSE None,
   prep |-> IF IsHit(p) THEN None ELSE PreparedSlot(p)]

LEMMA LookupRequest ==
  ASSUME TypeInv, NEW c \in Client, NEW p \in Prompts, NEW stream \in Streaming,
         Lookup(c, p, stream)
  PROVE  Recorded(p, stream) \in Request /\ Recorded(p, stream) # None
<1>1. IsHit(p) => slotOf[p] \in Slot
  BY DEF IsHit, Cached, TypeInv, TypeOK
<1>2. ~IsHit(p) => PreparedSlot(p) \in Slot
  BY ReserveIndex DEF Lookup
<1>3. Recorded(p, stream) \in Request
  BY <1>1, <1>2, SwitchAssumption DEF Request, Recorded
<1>4. QED
  BY <1>3, NoneAssumption

LEMMA LookupTypeInv ==
  ASSUME TypeInv, NEW c \in Client, NEW p \in Prompts, NEW stream \in Streaming,
         Lookup(c, p, stream)
  PROVE  TypeInv'
<1> USE DEF TypeInv
<1> DEFINE r == Recorded(p, stream)
<1>1. lookup_full(p) /\ req' = [req EXCEPT ![c] = r] /\ files' = files /\ slots' = slots
  BY DEF Lookup, Recorded
<1>2. /\ lru' \in Seq(Prompts) /\ IsInjective(lru') /\ slotOf' \in [ToSet(lru') -> Slot]
  BY <1>1, LookupIndex
<1>3. nextSlot' \in Slot /\ pendingEvict' \in Prompts \cup {None}
  BY <1>1, ReserveIndex DEF Lookup, TypeOK
<1>4. holder' \in Client \cup {None}
  BY DEF Lookup, TypeOK
<1>5. req' \in [Client -> Request \cup {None}]
  BY <1>1, LookupRequest DEF TypeOK
<1>6. QED
  BY <1>1, <1>2, <1>3, <1>4, <1>5 DEF TypeOK

LEMMA StepTypeInv ==
  ASSUME TypeInv, NEW c \in Client, TooLong(c) \/ Send(c) \/ Run(c) \/ Abandon(c)
  PROVE  TypeInv'
<1> USE DEF TypeInv
<1>1. UNCHANGED <<lru, slotOf, nextSlot, pendingEvict, files>>
  BY DEF TooLong, Send, Run, Abandon, index
<1>2. req[c] \in Request
  BY DEF TypeOK, TooLong, Send, Run, Abandon
<1>3. req' \in [Client -> Request \cup {None}]
  <2>1. [req[c] EXCEPT !.pc = "queued"] \in Request
        /\ [req[c] EXCEPT !.pc = "answered"] \in Request
    BY <1>2 DEF Request
  <2>2. \/ req' = [req EXCEPT ![c] = None]
        \/ req' = [req EXCEPT ![c] = [req[c] EXCEPT !.pc = "queued"]]
        \/ req' = [req EXCEPT ![c] = [req[c] EXCEPT !.pc = "answered"]]
    BY DEF TooLong, Send, Run, Abandon
  <2>3. QED
    BY <2>1, <2>2 DEF TypeOK
<1>4. slots' \in [Slot -> Prompts \cup {None}]
  BY <1>2 DEF TypeOK, Request, TooLong, Send, Run, Abandon
<1>5. holder' \in Client \cup {None}
  BY DEF TypeOK, TooLong, Send, Run, Abandon
<1>6. QED
  BY <1>1, <1>3, <1>4, <1>5 DEF TypeOK

\* A completed request either registers its prompt or leaves the index alone.
LEMMA CompleteCases ==
  ASSUME TypeInv, NEW c \in Client, Complete(c)
  PROVE  /\ req[c] \in Request
         /\ \/ UNCHANGED <<lru, slotOf, nextSlot, files>> /\ pendingEvict' \in {pendingEvict, None}
            \/ /\ Reserving(c) /\ req[c].prep \in Slot
               /\ Register(req[c].prompt, req[c].prep)
<1>1. req[c] \in Request
  BY DEF Complete, TypeInv, TypeOK
<1>2. QED
  BY <1>1 DEF Complete, confirm_full_snap, CopyFailed, Reserving, index, Request

LEMMA CompleteTypeInv ==
  ASSUME TypeInv, NEW c \in Client, Complete(c)
  PROVE  TypeInv'
<1> USE DEF TypeInv
<1>1. /\ req' = [req EXCEPT ![c] = None] /\ holder' = None /\ slots' = slots
      /\ req[c] \in Request
  BY CompleteCases DEF Complete
<1>2. CASE UNCHANGED <<lru, slotOf, nextSlot, files>> /\ pendingEvict' \in {pendingEvict, None}
  BY <1>1, <1>2 DEF TypeOK
<1>3. CASE req[c].prep \in Slot /\ Register(req[c].prompt, req[c].prep)
  <2>1. req[c].prompt \in Prompts
    BY <1>1 DEF Request
  <2>2. /\ lru' \in Seq(Prompts) /\ IsInjective(lru') /\ slotOf' \in [ToSet(lru') -> Slot]
    BY <1>3, <2>1, RegisterIndex
  <2>3. files' \subseteq Prompts /\ pendingEvict' = None /\ nextSlot' = nextSlot
    BY <1>3, <2>1 DEF Register, TypeOK
  <2>4. QED
    BY <1>1, <2>2, <2>3 DEF TypeOK
<1>4. QED
  BY <1>2, <1>3, CompleteCases

LEMMA NextTypeInv == TypeInv /\ [Next]_vars => TypeInv'
<1> SUFFICES ASSUME TypeInv, [Next]_vars PROVE TypeInv'
  OBVIOUS
<1>1. CASE \E p \in Prompts : DeleteFile(p)
  BY <1>1 DEF DeleteFile, index, TypeInv, TypeOK
<1>2. CASE UNCHANGED vars
  BY <1>2 DEF vars, TypeInv, TypeOK
<1>3. QED
  BY <1>1, <1>2, LookupTypeInv, StepTypeInv, CompleteTypeInv DEF Next

LEMMA InitTypeInv == Init => TypeInv
  BY CapAssumption DEF Init, TypeInv, TypeOK, Slot, IsInjective, ToSet

\* Whatever clients do and whatever fails, the index, the reservation and the
\* daemon's slots stay in their domains.
THEOREM FullCacheTypes == Spec => []TypeOK
<1>1. TypeInv => TypeOK
  BY DEF TypeInv
<1>2. QED
  BY <1>1, InitTypeInv, NextTypeInv, PTL DEF Spec

LEMMA NextNoLeakedFiles == TypeInv /\ NoLeakedFiles /\ [Next]_vars => NoLeakedFiles'
<1> SUFFICES ASSUME TypeInv, NoLeakedFiles, [Next]_vars PROVE NoLeakedFiles'
  OBVIOUS
<1> USE DEF NoLeakedFiles
<1>1. ASSUME NEW c \in Client, NEW p \in Prompts, NEW stream \in Streaming,
             Lookup(c, p, stream)
      PROVE  NoLeakedFiles'
  <2>1. lookup_full(p) /\ files' = files
    BY <1>1 DEF Lookup
  <2>2. Cached' = IF IsHit(p) THEN Cached ELSE Cached \ {p}
    BY <2>1, LookupIndex
  <2>3. QED
    BY <2>1, <2>2 DEF IsHit
<1>2. ASSUME NEW c \in Client, Complete(c) PROVE NoLeakedFiles'
  <2>1. CASE UNCHANGED <<lru, slotOf, nextSlot, files>>
    BY <2>1 DEF Cached
  <2>2. CASE req[c].prep \in Slot /\ Register(req[c].prompt, req[c].prep)
    <3>1. req[c].prompt \in Prompts
      BY <1>2, CompleteCases DEF Request
    <3>2. Cached' = (Cached \ {pendingEvict}) \cup {req[c].prompt}
      BY <2>2, <3>1, RegisterIndex
    <3>3. QED
      BY <2>2, <3>2 DEF Register
  <2>3. QED
    BY <1>2, <2>1, <2>2, CompleteCases
<1>3. ASSUME NEW c \in Client, TooLong(c) \/ Send(c) \/ Run(c) \/ Abandon(c)
      PROVE  NoLeakedFiles'
  BY <1>3 DEF TooLong, Send, Run, Abandon, index, Cached
<1>4. ASSUME NEW p \in Prompts, DeleteFile(p) PROVE NoLeakedFiles'
  BY <1>4 DEF DeleteFile, index, Cached
<1>5. CASE UNCHANGED vars
  BY <1>5 DEF vars, Cached
<1>6. QED
  BY <1>1, <1>2, <1>3, <1>4, <1>5 DEF Next

\* No compressed file outlives its entry, for any number of clients, in or
\* out of the lock, abandoned, rejected or failed.
THEOREM NoFileLeaks == Spec => []NoLeakedFiles
<1>1. Init => NoLeakedFiles
  BY DEF Init, NoLeakedFiles
<1>2. QED
  BY <1>1, InitTypeInv, NextTypeInv, NextNoLeakedFiles, PTL DEF Spec

-----------------------------------------------------------------------------
(* One reservation at a time                                               *)

\* A request that looks up finds nobody in between.
LEMMA LookupAlone ==
  ASSUME Serial, TypeInv, InTurn, NEW c \in Client, req[c] = None, holder = None
  PROVE  \A d \in Client : req[d] = None
<1>1. None \notin Client
  BY NoneAssumption
<1>2. CASE ~LockGap
  BY <1>1, <1>2 DEF InTurn
<1>3. CASE LockGap
  BY <1>3 DEF Serial
<1>4. QED
  BY <1>2, <1>3

\* Two requests in between are the same.
LEMMA InBetweenAlone ==
  ASSUME Serial, InTurn, NEW c \in Client, req[c] # None
  PROVE  \A d \in Client : req[d] # None => d = c
<1>1. CASE ~LockGap
  BY <1>1 DEF InTurn
<1>2. CASE LockGap
  BY <1>2 DEF Serial
<1>3. QED
  BY <1>1, <1>2

LEMMA LookupSerialInv ==
  ASSUME Serial, SerialInv, NEW c \in Client, NEW p \in Prompts, NEW stream \in Streaming,
         Lookup(c, p, stream)
  PROVE  SerialInv'
<1> USE DEF SerialInv
<1>1. TypeInv'
  BY LookupTypeInv
<1>2. /\ lookup_full(p) /\ req[c] = None /\ holder = None
      /\ \A d \in Client : d # c => req'[d] = req[d]
      /\ req'[c] = [prompt |-> p, stream |-> stream, pc |-> "prepared",
                    hit |-> IF IsHit(p) THEN slotOf[p] ELSE None,
                    prep |-> IF IsHit(p) THEN None ELSE PreparedSlot(p)]
      /\ holder' = IF LockGap THEN None ELSE c
  BY DEF Lookup, TypeInv, TypeOK
<1>3. \A d \in Client : d # c => req'[d] = None
  BY <1>2, LookupAlone
<1>4. Len(lru') <= Cap
  <2>1. Len(lru') \in Nat /\ Len(lru) \in Nat /\ Len(lru') <= Len(lru) /\ Cap \in Nat
    BY <1>1, <1>2, LookupIndex, CapAssumption DEF TypeInv, TypeOK
  <2>2. QED
    BY <2>1
<1>5. InTurn'
  BY <1>2, <1>3 DEF InTurn
<1>6. Reserved'
  <2> SUFFICES ASSUME Reserving(c)'
               PROVE  /\ p \notin Cached'
                      /\ IF Len(lru') < Cap THEN pendingEvict' = None
                         ELSE pendingEvict' = Oldest(lru')
    BY <1>2, <1>3 DEF Reserved, Reserving
  <2>1. ~IsHit(p)
    BY <1>2 DEF Reserving
  <2>2. prepare_full_snap(p)
    BY <2>1 DEF Lookup
  <2>3. QED
    BY <1>2, <2>1, <2>2, LookupIndex, ReserveIndex
<1>7. QED
  BY <1>1, <1>4, <1>5, <1>6

LEMMA StepSerialInv ==
  ASSUME Serial, SerialInv, NEW c \in Client,
         TooLong(c) \/ Send(c) \/ Run(c) \/ Abandon(c)
  PROVE  SerialInv'
<1> USE DEF SerialInv
<1>1. TypeInv'
  BY StepTypeInv
<1>2. UNCHANGED <<lru, slotOf, nextSlot, pendingEvict, files>> /\ Cached' = Cached
  BY DEF TooLong, Send, Run, Abandon, index, Cached
<1>3. /\ req[c] # None /\ \A d \in Client : d # c => req[d] = None /\ req'[d] = None
      /\ \/ req'[c] = None
         \/ /\ req'[c] # None /\ req'[c].prep = req[c].prep
            /\ req'[c].prompt = req[c].prompt
            /\ holder' = holder \/ holder' = c
  <2>1. req[c] # None /\ req[c] \in Request
    BY DEF TooLong, Send, Run, Abandon, TypeInv, TypeOK
  <2>2. \A d \in Client : d # c => req[d] = None
    BY <2>1, InBetweenAlone
  <2>3. \/ req' = [req EXCEPT ![c] = None]
        \/ /\ holder' = holder \/ holder' = c
           /\ \/ req' = [req EXCEPT ![c] = [req[c] EXCEPT !.pc = "queued"]]
              \/ req' = [req EXCEPT ![c] = [req[c] EXCEPT !.pc = "answered"]]
    BY DEF TooLong, Send, Run, Abandon
  <2>4. /\ [req[c] EXCEPT !.pc = "queued"] \in Request
        /\ [req[c] EXCEPT !.pc = "answered"] \in Request
    BY <2>1 DEF Request
  <2>5. QED
    BY <2>1, <2>2, <2>3, <2>4, NoneAssumption DEF TypeInv, TypeOK, Request
<1>4. InTurn'
  BY <1>3 DEF InTurn
<1>5. Reserved'
  BY <1>2, <1>3 DEF Reserved, Reserving
<1>6. QED
  BY <1>1, <1>2, <1>4, <1>5

LEMMA CompleteSerialInv ==
  ASSUME Serial, SerialInv, NEW c \in Client, Complete(c)
  PROVE  SerialInv' /\ \A k \in Cached \ Cached' : k = Oldest(lru)
<1> USE DEF SerialInv
<1>1. TypeInv'
  BY CompleteTypeInv
<1>2. req[c] # None /\ \A d \in Client : req'[d] = None
  BY InBetweenAlone DEF Complete, TypeInv, TypeOK
<1>3. InTurn' /\ Reserved'
  BY <1>2 DEF InTurn, Reserved, Reserving
<1>4. Len(lru') <= Cap /\ \A k \in Cached \ Cached' : k = Oldest(lru)
  <2>1. CASE UNCHANGED <<lru, slotOf, nextSlot, files>>
    BY <2>1 DEF Cached
  <2>2. CASE /\ Reserving(c) /\ req[c].prep \in Slot
             /\ Register(req[c].prompt, req[c].prep)
    <3>1. req[c].prompt \in Prompts /\ req[c].prompt \notin Cached
      BY <2>2, CompleteCases DEF Reserved, Request
    <3>2. /\ Cached' = (Cached \ {pendingEvict}) \cup {req[c].prompt}
          /\ Len(lru') = Len(lru) + (IF pendingEvict \in Cached THEN 0 ELSE 1)
      BY <2>2, <3>1, RegisterIndex
    <3>3. Len(lru) \in Nat /\ Cap \in Nat /\ Cap >= 1 /\ Cached = ToSet(lru)
          /\ lru \in Seq(Prompts)
      BY CapAssumption DEF TypeInv, TypeOK, Cached
    <3>4. CASE Len(lru) < Cap
      <4>1. pendingEvict = None
        BY <2>2, <3>4 DEF Reserved
      <4>2. None \notin Cached
        BY <3>3, NoneAssumption DEF ToSet
      <4>3. QED
        BY <3>2, <3>3, <3>4, <4>1, <4>2
    <3>5. CASE ~(Len(lru) < Cap)
      <4>1. pendingEvict = Oldest(lru)
        BY <2>2, <3>5 DEF Reserved
      <4>2. Oldest(lru) \in Cached
        BY <3>3, <3>5 DEF Oldest, ToSet
      <4>3. QED
        BY <3>2, <3>3, <4>1, <4>2
    <3>6. QED
      BY <3>4, <3>5
  <2>3. QED
    BY <2>1, <2>2, CompleteCases
<1>5. QED
  BY <1>1, <1>3, <1>4

LEMMA InitSerialInv == Init => SerialInv
  BY InitTypeInv, CapAssumption DEF Init, SerialInv, InTurn, Reserved, Reserving

LEMMA NextSerialInv == Serial /\ SerialInv /\ [Next]_vars => SerialInv'
<1> SUFFICES ASSUME Serial, SerialInv, [Next]_vars PROVE SerialInv'
  OBVIOUS
<1>1. TypeInv'
  BY NextTypeInv DEF SerialInv
<1>2. CASE \E p \in Prompts : DeleteFile(p)
  BY <1>1, <1>2 DEF DeleteFile, index, SerialInv, InTurn, Reserved, Reserving, Cached
<1>3. CASE UNCHANGED vars
  BY <1>1, <1>3 DEF vars, SerialInv, InTurn, Reserved, Reserving, Cached
<1>4. QED
  BY <1>2, <1>3, LookupSerialInv, StepSerialInv, CompleteSerialInv DEF Next

LEMMA SerialInvariant == Serial => (Spec => []SerialInv)
<1> SUFFICES ASSUME Serial PROVE Spec => []SerialInv
  OBVIOUS
<1>1. SerialInv /\ [Next]_vars => SerialInv'
  BY NextSerialInv
<1>2. QED
  BY <1>1, InitSerialInv, PTL DEF Spec

\* With the lock kept from lookup to confirm, or a single connection, the
\* index never outgrows _full_cap, whatever is abandoned, deleted or not copied.
THEOREM FullNeverOverCap == Serial => (Spec => []IndexBounded)
<1> SUFFICES ASSUME Serial PROVE Spec => []IndexBounded
  OBVIOUS
<1>1. SerialInv => IndexBounded
  BY DEF SerialInv, TypeInv, IndexBounded
<1>2. QED
  BY <1>1, SerialInvariant, PTL

\* Under the same condition only the least recently used entry is evicted,
\* unless its file is gone, although the eviction was decided before the
\* command was sent.
THEOREM FullEvictsOldest == Serial => (Spec => EvictsOldest)
<1> SUFFICES ASSUME Serial PROVE Spec => EvictsOldest
  OBVIOUS
<1> DEFINE A == \A k \in Cached \ Cached' : k = Oldest(lru) \/ k \notin files
<1>1. SerialInv /\ [Next]_vars => [A]_vars
  <2> SUFFICES ASSUME SerialInv, Next PROVE A
    BY DEF A
  <2>1. ASSUME NEW c \in Client, NEW p \in Prompts, NEW stream \in Streaming,
               Lookup(c, p, stream)
        PROVE  A
    <3>1. lookup_full(p) /\ TypeInv
      BY <2>1 DEF Lookup, SerialInv
    <3>2. Cached' = IF IsHit(p) THEN Cached ELSE Cached \ {p}
      BY <3>1, LookupIndex
    <3>3. QED
      BY <3>2 DEF IsHit
  <2>2. ASSUME NEW c \in Client, Complete(c) PROVE A
    BY <2>2, CompleteSerialInv
  <2>3. ASSUME NEW c \in Client, TooLong(c) \/ Send(c) \/ Run(c) \/ Abandon(c) PROVE A
    BY <2>3 DEF TooLong, Send, Run, Abandon, index, Cached
  <2>4. ASSUME NEW p \in Prompts, DeleteFile(p) PROVE A
    BY <2>4 DEF DeleteFile, index, Cached
  <2>5. QED
    BY <2>1, <2>2, <2>3, <2>4 DEF Next
<1>2. QED
  BY <1>1, SerialInvariant, PTL DEF Spec, EvictsOldest

-----------------------------------------------------------------------------
(***************************************************************************)
(* What scripts/server.py gets from the cache while its responses are      *)
(* complete, non-streaming ones and nothing fails: slots are not shared, a *)
(* hit finds its own prompt's state, and a completed prompt is cached.     *)
(* The README names the settings that violate each of the three without    *)
(* one of these conditions.                                                *)
(***************************************************************************)


Clean == Streaming = {FALSE} /\ Faults = {} /\ ~LockGap

-----------------------------------------------------------------------------
(* The inductive invariant                                                 *)

\* Below cap, the slots in use are 0..Len(lru)-1 and the next one follows; at
\* cap, the reserved slot is that of the entry to evict.
SlotsInOrder ==
  /\ Len(lru) < Cap =>
       /\ \A k \in Cached : slotOf[k] < Len(lru)
       /\ nextSlot = IF \E c \in Client : Reserving(c) THEN (Len(lru) + 1) % Cap
                     ELSE Len(lru)
  /\ \A c \in Client : Reserving(c) =>
       req[c].prep = IF Len(lru) < Cap THEN Len(lru) ELSE slotOf[pendingEvict]

\* The daemon has stored the snapshot that the request reserved.
Stored(c) == Reserving(c) /\ req[c].pc = "answered"

\* Every slot holds its prompt, but for the one being overwritten.
SlotsHoldPrompts ==
  /\ \A k \in Cached : \/ slots[slotOf[k]] = k
                       \/ \E c \in Client : Stored(c) /\ slotOf[k] = req[c].prep
  /\ \A c \in Client : Stored(c) => slots[req[c].prep] = req[c].prompt

\* A request has either hit its own entry or reserved a slot.
HitsHold ==
  \A c \in Client : req[c] # None =>
    /\ ~req[c].stream
    /\ req[c].hit = None => req[c].prep # None
    /\ req[c].hit # None => /\ req[c].prep = None /\ req[c].prompt \in Cached
                            /\ req[c].hit = slotOf[req[c].prompt]

CleanInv ==
  /\ SerialInv
  /\ files = Cached
  /\ SlotsNotShared
  /\ SlotsInOrder
  /\ SlotsHoldPrompts
  /\ HitsHold

-----------------------------------------------------------------------------
(* One step at a time                                                      *)

\* The sizes and domains every step needs.
LEMMA CleanTypes ==
  ASSUME CleanInv
  PROVE  /\ TypeInv /\ TypeOK /\ InTurn /\ Reserved
         /\ Len(lru) \in Nat /\ Cap \in Nat /\ Cap >= 1 /\ Len(lru) <= Cap
         /\ Cached = ToSet(lru) /\ lru \in Seq(Prompts) /\ Cached \subseteq Prompts
         /\ \A k \in Cached : slotOf[k] \in Slot /\ slotOf[k] \in Nat
         /\ \A k, l \in Cached : slotOf[k] = slotOf[l] => k = l
<1>1. lru \in Seq(Prompts) /\ Cached = ToSet(lru) /\ TypeInv /\ TypeOK
  BY DEF CleanInv, SerialInv, TypeInv, TypeOK, Cached
<1>2. Cached \subseteq Prompts
  BY <1>1 DEF ToSet
<1>3. \A k \in Cached : slotOf[k] \in Slot
  BY <1>1 DEF TypeOK
<1>4. \A k, l \in Cached : slotOf[k] = slotOf[l] => k = l
  BY DEF CleanInv, SlotsNotShared, IsInjective, Cached
<1>5. QED
  BY <1>1, <1>2, <1>3, <1>4, CapAssumption DEF CleanInv, SerialInv, Slot

LEMMA LookupClean ==
  ASSUME Clean, CleanInv, NEW c \in Client, NEW p \in Prompts, NEW stream \in Streaming,
         Lookup(c, p, stream)
  PROVE  CleanInv'
<1> DEFINE r == Recorded(p, stream)
<1>1. Serial /\ SerialInv /\ SerialInv' /\ TypeInv /\ TypeOK
  BY LookupSerialInv, CleanTypes DEF Clean, Serial, CleanInv
<1>2. /\ lookup_full(p) /\ req[c] = None /\ holder = None
      /\ files' = files /\ slots' = slots
      /\ req'[c] = r
      /\ \A d \in Client : d # c => req'[d] = req[d]
  BY <1>1 DEF Lookup, TypeOK, Recorded
<1>3. /\ \A d \in Client : req[d] = None
      /\ \A d \in Client : d # c => req'[d] = None
  BY <1>1, <1>2, LookupAlone DEF SerialInv
<1>4. IsHit(p) <=> p \in Cached
  BY DEF IsHit, CleanInv
<1>5. slotOf' = slotOf /\ Cached' = Cached /\ Len(lru') = Len(lru)
  <2>1. CASE IsHit(p)
    BY <1>1, <1>2, <2>1, LookupIndex
  <2>2. CASE ~IsHit(p)
    <3>1. lru' = lru /\ slotOf' = slotOf
      BY <1>1, <1>2, <1>4, <2>2, LookupIndex
    <3>2. QED
      BY <3>1 DEF Cached
  <2>3. QED
    BY <2>1, <2>2
<1>6. r # None /\ r.prompt = p /\ r.pc = "prepared" /\ ~r.stream
  <2>1. ~stream
    BY DEF Clean
  <2>2. r # None
    BY <1>1, LookupRequest
  <2>3. QED
    BY <2>1, <2>2 DEF Recorded
<1>7. CASE IsHit(p)
  <2>1. r.hit = slotOf[p] /\ r.prep = None /\ slotOf[p] # None
    BY <1>4, <1>7, CleanTypes, NoneAssumption DEF Recorded
  <2> HIDE DEF r
  <2>2. \A d \in Client : ~Reserving(d) /\ ~Reserving(d)'
    BY <1>2, <1>3, <2>1 DEF Reserving
  <2>3. nextSlot' = nextSlot /\ pendingEvict' = pendingEvict
    BY <1>7 DEF Lookup
  <2>4. SlotsInOrder'
    BY <1>5, <2>2, <2>3 DEF CleanInv, SlotsInOrder
  <2>5. SlotsHoldPrompts'
    BY <1>2, <1>5, <2>2 DEF CleanInv, SlotsHoldPrompts, Stored
  <2>6. HitsHold'
    BY <1>2, <1>3, <1>4, <1>5, <1>6, <1>7, <2>1 DEF HitsHold
  <2>7. QED
    BY <1>1, <1>2, <1>5, <2>4, <2>5, <2>6 DEF CleanInv, SlotsNotShared
<1>8. CASE ~IsHit(p)
  <2>1. prepare_full_snap(p) /\ r.hit = None /\ r.prep = PreparedSlot(p)
    BY <1>8 DEF Lookup, Recorded
  <2>2. /\ PreparedSlot(p) \in Slot
        /\ IF Len(lru') < Cap
           THEN PreparedSlot(p) = nextSlot /\ nextSlot' = (nextSlot + 1) % Cap
           ELSE PreparedSlot(p) = slotOf'[pendingEvict']
    BY <1>1, <1>2, <1>8, <2>1, ReserveIndex
  <2> HIDE DEF r
  <2>3. r.prep # None
    BY <2>1, <2>2, NoneAssumption
  <2>4. /\ \A d \in Client : ~Reserving(d)
        /\ \A d \in Client : Reserving(d)' => d = c
        /\ Reserving(c)'
    BY <1>2, <1>3, <1>6, <2>3 DEF Reserving
  <2>5. SlotsInOrder'
    <3>1. Len(lru) < Cap => nextSlot = Len(lru) /\ \A k \in Cached : slotOf[k] < Len(lru)
      BY <2>4 DEF CleanInv, SlotsInOrder
    <3>2. Len(lru') < Cap => /\ r.prep = Len(lru') /\ nextSlot' = (Len(lru') + 1) % Cap
                             /\ \A k \in Cached' : slotOf'[k] < Len(lru')
      BY <1>5, <2>1, <2>2, <3>1
    <3>3. ~(Len(lru') < Cap) => r.prep = slotOf'[pendingEvict']
      BY <2>1, <2>2
    <3>4. QED
      BY <1>2, <2>4, <3>2, <3>3 DEF SlotsInOrder
  <2>6. SlotsHoldPrompts'
    <3>1. \A d \in Client : ~Stored(d) /\ ~Stored(d)'
      BY <1>2, <1>6, <2>4 DEF Stored
    <3>2. QED
      BY <1>2, <1>5, <3>1 DEF CleanInv, SlotsHoldPrompts
  <2>7. HitsHold'
    BY <1>2, <1>3, <1>6, <2>1, <2>3 DEF HitsHold
  <2>8. QED
    BY <1>1, <1>2, <1>5, <2>5, <2>6, <2>7 DEF CleanInv, SlotsNotShared
<1>9. QED
  BY <1>7, <1>8

\* The command is sent, then run: the index is left alone.
LEMMA StepClean ==
  ASSUME Clean, CleanInv, NEW c \in Client,
         TooLong(c) \/ Send(c) \/ Run(c) \/ Abandon(c)
  PROVE  CleanInv'
<1>1. Serial /\ SerialInv /\ SerialInv' /\ TypeInv /\ TypeOK /\ InTurn
  BY StepSerialInv, CleanTypes DEF Clean, Serial, CleanInv
<1>2. /\ UNCHANGED <<lru, slotOf, nextSlot, pendingEvict, files>> /\ Cached' = Cached
      /\ Send(c) \/ Run(c)
  BY DEF TooLong, Send, Run, Abandon, index, Cached, Clean
<1>3. PICK pc \in {"queued", "answered"} :
        /\ req' = [req EXCEPT ![c].pc = pc]
        /\ pc = "queued" => slots' = slots /\ req[c].pc = "prepared"
        /\ pc = "answered" => Run(c)
  BY <1>2 DEF Send, Run
<1>4. /\ req[c] # None /\ req[c] \in Request
      /\ \A d \in Client : d # c => req[d] = None /\ req'[d] = None
  <2>1. req[c] # None /\ req[c] \in Request
    BY <1>1, <1>2 DEF Send, Run, TypeOK
  <2>2. \A d \in Client : d # c => req[d] = None
    BY <1>1, <2>1, InBetweenAlone
  <2>3. QED
    BY <1>3, <2>1, <2>2 DEF TypeOK
<1>5. /\ req'[c] # None /\ req'[c].pc = pc
      /\ req'[c].prep = req[c].prep /\ req'[c].hit = req[c].hit
      /\ req'[c].prompt = req[c].prompt /\ req'[c].stream = req[c].stream
  <2>1. [req[c] EXCEPT !.pc = pc] \in Request
    BY <1>4 DEF Request
  <2>2. req'[c] = [req[c] EXCEPT !.pc = pc]
    BY <1>1, <1>3 DEF TypeOK
  <2>3. QED
    BY <1>4, <2>1, <2>2, NoneAssumption DEF Request
<1>6. \A d \in Client : Reserving(d)' <=> Reserving(d)
  BY <1>4, <1>5 DEF Reserving
<1>7. SlotsInOrder'
  BY <1>2, <1>4, <1>5, <1>6 DEF CleanInv, SlotsInOrder, Reserving
<1>8. HitsHold'
  BY <1>2, <1>4, <1>5 DEF CleanInv, HitsHold
<1>9. \A d \in Client : ~Stored(d)
  BY <1>2, <1>4 DEF Stored, Reserving, Send, Run
<1>10. SlotsHoldPrompts'
  <2>1. CASE pc = "answered" /\ Reserving(c)
    <3>1. slots' = [slots EXCEPT ![req[c].prep] = req[c].prompt] /\ req[c].prep \in Slot
      BY <1>3, <1>4, <2>1 DEF Run, Reserving, Clean, Request
    <3>2. slots'[req[c].prep] = req[c].prompt
          /\ \A s \in Slot : s # req[c].prep => slots'[s] = slots[s]
      BY <1>1, <3>1 DEF TypeOK
    <3>3. Stored(c)'
      BY <1>5, <1>6, <2>1 DEF Stored
    <3>4. \A d \in Client : Stored(d)' => d = c
      BY <1>4 DEF Stored, Reserving
    <3>5. \A k \in Cached : slots[slotOf[k]] = k
      BY <1>9 DEF CleanInv, SlotsHoldPrompts
    <3>6. \A k \in Cached : slotOf[k] \in Slot
      BY CleanTypes
    <3>7. \A k \in Cached : slots'[slotOf[k]] = k \/ slotOf[k] = req'[c].prep
      BY <1>5, <3>2, <3>5, <3>6
    <3>8. QED
      BY <1>2, <1>5, <3>2, <3>3, <3>4, <3>7 DEF SlotsHoldPrompts
  <2>2. CASE ~(pc = "answered" /\ Reserving(c))
    <3>1. slots' = slots
      BY <1>3, <1>4, <2>2 DEF Run, Reserving
    <3>2. \A d \in Client : ~Stored(d)'
      BY <1>4, <1>5, <1>6, <2>2 DEF Stored, Reserving
    <3>3. QED
      BY <1>2, <1>9, <3>1, <3>2 DEF CleanInv, SlotsHoldPrompts
  <2>3. QED
    BY <2>1, <2>2
<1>11. QED
  BY <1>1, <1>2, <1>7, <1>8, <1>10 DEF CleanInv, SlotsNotShared

\* The response is complete: its prompt is cached from now on.
LEMMA CompleteClean ==
  ASSUME Clean, CleanInv, NEW c \in Client, Complete(c)
  PROVE  CleanInv' /\ req[c].prompt \in Cached'
<1> DEFINE p == req[c].prompt
           slot == req[c].prep
<1>1. Serial /\ SerialInv /\ SerialInv' /\ TypeInv /\ TypeOK /\ InTurn /\ Reserved
  BY CompleteSerialInv, CleanTypes DEF Clean, Serial, CleanInv
<1>2. /\ req[c] # None /\ req[c] \in Request /\ p \in Prompts
      /\ slots' = slots
      /\ \A d \in Client : req'[d] = None
      /\ \A d \in Client : d # c => req[d] = None
  BY <1>1, InBetweenAlone DEF Complete, TypeOK, Request
<1>3. \A d \in Client : ~Reserving(d)' /\ ~Stored(d)'
  BY <1>2 DEF Reserving, Stored
<1>4. HitsHold'
  BY <1>2 DEF HitsHold
<1>5. CASE slot = None
  <2>1. UNCHANGED <<lru, slotOf, nextSlot, pendingEvict, files>> /\ Cached' = Cached
    BY <1>5 DEF Complete, index, Cached
  <2>2. \A d \in Client : ~Reserving(d) /\ ~Stored(d)
    BY <1>2, <1>5 DEF Reserving, Stored
  <2>3. SlotsInOrder' /\ SlotsHoldPrompts'
    BY <1>2, <1>3, <2>1, <2>2 DEF CleanInv, SlotsInOrder, SlotsHoldPrompts
  <2>4. p \in Cached
    BY <1>2, <1>5 DEF CleanInv, HitsHold
  <2>5. QED
    BY <1>1, <1>4, <2>1, <2>3, <2>4 DEF CleanInv, SlotsNotShared
<1>6. CASE slot # None
  <2>1. Register(p, slot) /\ slot \in Slot /\ Reserving(c) /\ Stored(c)
    BY <1>2, <1>6 DEF Complete, confirm_full_snap, Clean, CleanInv, HitsHold, Reserving,
       Stored, Request
  <2>2. /\ Cached' = (Cached \ {pendingEvict}) \cup {p}
        /\ \A k \in Cached' : slotOf'[k] = IF k = p THEN slot ELSE slotOf[k]
        /\ slotOf' \in [Cached' -> Slot]
    <3>1. TypeInv /\ p \in Prompts /\ slot \in Slot /\ Register(p, slot)
      BY <1>1, <1>2, <2>1
    <3> HIDE DEF p, slot
    <3>2. /\ slotOf' \in [ToSet(lru') -> Slot]
          /\ Cached' = (Cached \ {pendingEvict}) \cup {p}
          /\ \A k \in Cached' : slotOf'[k] = IF k = p THEN slot ELSE slotOf[k]
      BY <3>1, RegisterIndex
    <3>3. QED
      BY <3>2 DEF Cached
  <2>3. p \notin Cached
    BY <1>1, <2>1 DEF Reserved
  <2>4. /\ slots[slot] = p
        /\ \A k \in Cached : slots[slotOf[k]] = k \/ slotOf[k] = slot
    BY <1>2, <2>1 DEF CleanInv, SlotsHoldPrompts, Stored, Reserving
  <2>5. slot = IF Len(lru) < Cap THEN Len(lru) ELSE slotOf[pendingEvict]
    BY <2>1 DEF CleanInv, SlotsInOrder
  <2>6. pendingEvict # p /\ files' = Cached'
    <3>1. pendingEvict # p
      BY <1>1, <1>2, <2>1, <2>3, CleanTypes, NoneAssumption DEF Reserved, Oldest, ToSet
    <3>2. files' = (Cached \cup {p}) \ {pendingEvict}
      BY <2>1 DEF Register, CleanInv
    <3>3. QED
      BY <2>2, <3>1, <3>2
  <2>7. /\ \A k \in Cached' : slots'[slotOf'[k]] = k
        /\ \A k \in Cached' : k # p => k \in Cached /\ slotOf[k] # slot
        /\ Len(lru') < Cap => /\ \A k \in Cached' : slotOf'[k] < Len(lru')
                              /\ nextSlot' = Len(lru')
    <3>1. CASE Len(lru) < Cap
      <4>1. pendingEvict = None /\ slot = Len(lru)
        BY <1>1, <2>1, <2>5, <3>1 DEF Reserved
      <4>2. None \notin Cached
        BY CleanTypes, NoneAssumption
      <4>3. Len(lru') = Len(lru) + 1
        BY <1>1, <1>2, <2>1, <2>3, <4>1, <4>2, RegisterIndex
      <4>4. \A k \in Cached : slotOf[k] < Len(lru) /\ slotOf[k] # slot
        BY <3>1, <4>1, CleanTypes DEF CleanInv, SlotsInOrder
      <4>5. nextSlot' = nextSlot /\ nextSlot = (Len(lru) + 1) % Cap
        BY <2>1, <3>1 DEF Register, CleanInv, SlotsInOrder
      <4>6. Len(lru') < Cap => nextSlot' = Len(lru')
        BY <4>3, <4>5, CleanTypes
      <4>7. \A k \in Cached' : slotOf'[k] < Len(lru')
        BY <2>2, <4>1, <4>3, <4>4, CleanTypes
      <4>8. QED
        BY <1>2, <2>2, <2>4, <4>4, <4>6, <4>7
    <3>2. CASE ~(Len(lru) < Cap)
      <4>1. pendingEvict \in Cached /\ slot = slotOf[pendingEvict]
        BY <1>1, <2>1, <2>5, <3>2, CleanTypes DEF Reserved, Oldest, ToSet
      <4>2. Len(lru') = Len(lru)
        BY <1>1, <1>2, <2>1, <2>3, <4>1, RegisterIndex, CleanTypes
      <4>3. \A k \in Cached : k # pendingEvict => slotOf[k] # slot
        BY <4>1, CleanTypes
      <4>4. QED
        BY <1>2, <2>2, <2>4, <3>2, <4>2, <4>3
    <3>3. QED
      BY <3>1, <3>2
  <2>8. SlotsNotShared'
    <3>1. DOMAIN slotOf' = Cached'
      BY DEF Cached
    <3>2. \A k, l \in Cached' : slotOf'[k] = slotOf'[l] => k = l
      BY <2>2, <2>7, CleanTypes
    <3>3. QED
      BY <3>1, <3>2 DEF SlotsNotShared, IsInjective
  <2>9. SlotsInOrder' /\ SlotsHoldPrompts'
    BY <1>3, <2>7 DEF SlotsInOrder, SlotsHoldPrompts
  <2>10. QED
    BY <1>1, <1>4, <2>2, <2>6, <2>8, <2>9 DEF CleanInv
<1>7. QED
  BY <1>5, <1>6

LEMMA InitClean == Init => CleanInv
<1> SUFFICES ASSUME Init PROVE CleanInv
  OBVIOUS
<1>1. SerialInv /\ Cached = {} /\ files = {} /\ \A c \in Client : req[c] = None
  BY InitSerialInv DEF Init, Cached
<1>2. SlotsInOrder /\ SlotsHoldPrompts /\ HitsHold /\ SlotsNotShared
  BY <1>1 DEF Init, SlotsInOrder, SlotsHoldPrompts, HitsHold, SlotsNotShared, Reserving,
     Stored, IsInjective, Cached
<1>3. QED
  BY <1>1, <1>2 DEF CleanInv

LEMMA NextClean == Clean /\ CleanInv /\ [Next]_vars => CleanInv'
<1> SUFFICES ASSUME Clean, CleanInv, [Next]_vars PROVE CleanInv'
  OBVIOUS
<1>1. CASE UNCHANGED vars
  BY <1>1 DEF vars, CleanInv, SerialInv, TypeInv, TypeOK, InTurn, Reserved, Reserving,
     Cached, SlotsNotShared, SlotsInOrder, SlotsHoldPrompts, Stored, HitsHold
<1>2. \A p \in Prompts : ~DeleteFile(p)
  BY DEF DeleteFile, Clean
<1>3. QED
  BY <1>1, <1>2, LookupClean, StepClean, CompleteClean DEF Next

LEMMA CleanInvariant == Clean => (Spec => []CleanInv)
<1> SUFFICES ASSUME Clean PROVE Spec => []CleanInv
  OBVIOUS
<1>1. CleanInv /\ [Next]_vars => CleanInv'
  BY NextClean
<1>2. QED
  BY <1>1, InitClean, PTL DEF Spec

-----------------------------------------------------------------------------
(* The theorems                                                            *)

\* prepare_full_snap never hands out the slot of a live entry, for any cap.
THEOREM FullSlotsNotShared == Clean => (Spec => []SlotsNotShared)
<1> SUFFICES ASSUME Clean PROVE Spec => []SlotsNotShared
  OBVIOUS
<1>1. CleanInv => SlotsNotShared
  BY DEF CleanInv
<1>2. QED
  BY <1>1, CleanInvariant, PTL

\* A RESTORE sent for a full-cache hit finds the state of that very prompt.
THEOREM FullHitOnOwnPrompt == Clean => (Spec => []HitRunsOnOwnPrompt)
<1> SUFFICES ASSUME Clean PROVE Spec => []HitRunsOnOwnPrompt
  OBVIOUS
<1>1. CleanInv => HitRunsOnOwnPrompt
  <2> SUFFICES ASSUME CleanInv, NEW c \in Client, req[c] # None, req[c].hit # None
               PROVE  slots[req[c].hit] = req[c].prompt
    BY DEF HitRunsOnOwnPrompt
  <2>1. /\ req[c].prep = None /\ req[c].prompt \in Cached
        /\ req[c].hit = slotOf[req[c].prompt]
    BY DEF CleanInv, HitsHold
  <2>2. \A d \in Client : ~Stored(d)
    BY <2>1, InBetweenAlone, CleanTypes DEF Stored, Reserving, Clean, Serial
  <2>3. QED
    BY <2>1, <2>2 DEF CleanInv, SlotsHoldPrompts
<1>2. QED
  BY <1>1, CleanInvariant, PTL

\* A long prompt whose response completes is in the cache afterwards.
THEOREM FullCompletedIsCached == Clean => (Spec => CompletedIsCached)
<1> SUFFICES ASSUME Clean PROVE Spec => CompletedIsCached
  OBVIOUS
<1> DEFINE A == \A c \in Client : Complete(c) => req[c].prompt \in Cached'
<1>1. CleanInv /\ [Next]_vars => [A]_vars
  BY CompleteClean
<1>2. QED
  BY <1>1, CleanInvariant, PTL DEF Spec, CompletedIsCached
=============================================================================
