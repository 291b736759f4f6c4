------------------------- MODULE StreamParseProofs -------------------------
(***************************************************************************)
(* Theorems about StreamParse, for any texts, tags, stop sequences and     *)
(* tokens: as long as tags and stop sequences do not overlap, what the     *)
(* stream shows is what a parser shows that sees the whole text.           *)
(***************************************************************************)
EXTENDS StreamParse, FiniteSetTheorems, SequenceTheorems, WellFoundedInduction, TLAPS

-----------------------------------------------------------------------------
(* Strings                                                                 *)

\* A non-empty set of naturals has a least element.
LEMMA MinExists ==
  ASSUME NEW T, T \subseteq Nat, T # {}
  PROVE  \E x \in T : \A y \in T : x <= y
<1>1. PICK x \in T : \A y \in T : <<y, x>> \notin OpToRel(<, Nat)
  BY NatLessThanWellFounded, WFMin, Zenon
<1>2. \A y \in T : ~(y < x)
  BY <1>1, Zenon DEF OpToRel
<1>3. \A y \in T : x <= y
  BY <1>2
<1>4. QED
  BY <1>3

\* Min finds it.
LEMMA MinIs ==
  ASSUME NEW T, T \subseteq Nat, T # {}
  PROVE  Min(T) \in T /\ \A y \in T : Min(T) <= y
<1>1. \E z \in T : \A y \in T : z =< y
  BY MinExists
<1>2. QED
  BY <1>1 DEF Min

\* A slice: its symbols, and how long it is.
LEMMA SliceIs ==
  ASSUME NEW s \in Seq(Symbols), NEW a \in Nat, NEW b \in Nat, 1 <= a, b <= Len(s), a <= b + 1
  PROVE  /\ SubSeq(s, a, b) \in Seq(Symbols) /\ Len(SubSeq(s, a, b)) = b - a + 1
         /\ \A i \in 1..(b - a + 1) : SubSeq(s, a, b)[i] = s[a + i - 1]
<1>1. a \in Int /\ b \in Int
  OBVIOUS
<1>2. Len(s) \in Nat /\ \A i \in 1..Len(s) : s[i] \in Symbols
  BY LenProperties, ElementOfSeq
<1>3. \A i \in a..b : s[i] \in Symbols
  BY <1>2
<1>4. Len(SubSeq(s, a, b)) = IF a <= b THEN b - a + 1 ELSE 0
  BY <1>1, <1>3, SubSeqProperties
<1>5. QED
  BY <1>1, <1>3, <1>4, SubSeqProperties

\* t is at place i of s, symbol for symbol.
LEMMA AtIs ==
  ASSUME NEW s \in Seq(Symbols), NEW t \in Seq(Symbols), NEW i \in Nat, 1 <= i
  PROVE  At(s, t, i) <=> /\ i + Len(t) - 1 <= Len(s)
                         /\ \A j \in 1..Len(t) : s[i + j - 1] = t[j]
<1>1. PICK n \in Nat, m \in Nat : Len(s) = n /\ Len(t) = m
  BY LenProperties
<1>2. CASE i + m - 1 <= n
  <2>1. i + m - 1 \in Nat /\ i <= (i + m - 1) + 1 /\ (i + m - 1) - i + 1 = m
    BY <1>1
  <2>2. PICK u : u = SubSeq(s, i, i + m - 1)
    OBVIOUS
  <2>3. u \in Seq(Symbols) /\ Len(u) = m /\ \A j \in 1..m : u[j] = s[i + j - 1]
    BY <1>1, <1>2, <2>1, <2>2, SliceIs
  <2>4. u = t <=> \A j \in 1..m : u[j] = t[j]
    <3>1. ASSUME \A j \in 1..m : u[j] = t[j] PROVE u = t
      BY <1>1, <2>3, <3>1, SeqEqual
    <3>2. QED
      BY <3>1
  <2>5. (\A j \in 1..m : u[j] = t[j]) <=> \A j \in 1..m : s[i + j - 1] = t[j]
    BY <2>3
  <2>6. At(s, t, i) <=> u = t
    BY <1>1, <1>2, <2>2 DEF At
  <2>7. QED
    BY <1>1, <1>2, <2>4, <2>5, <2>6
<1>3. CASE ~(i + m - 1 <= n)
  BY <1>1, <1>3 DEF At
<1>4. QED
  BY <1>2, <1>3

\* A word ends where it is long, and begins inside.
LEMMA AtEnds ==
  ASSUME NEW s \in Seq(Symbols), NEW t \in Seq(Symbols), t # <<>>, NEW i \in Nat, 1 <= i,
         At(s, t, i)
  PROVE  i \in 1..Len(s) /\ i + Len(t) - 1 <= Len(s) /\ Len(t) \in Nat /\ Len(t) >= 1
<1>1. PICK n \in Nat, m \in Nat : Len(s) = n /\ Len(t) = m
  BY LenProperties
<1>2. m # 0
  BY <1>1, EmptySeq
<1>3. QED
  BY <1>1, <1>2 DEF At

\* What is in a slice is in the text, and the other way round if it ends there.
LEMMA AtSlice ==
  ASSUME NEW s \in Seq(Symbols), NEW t \in Seq(Symbols), NEW a \in Nat, NEW b \in Nat,
         1 <= a, b <= Len(s), a <= b + 1, NEW i \in Nat, 1 <= i
  PROVE  At(SubSeq(s, a, b), t, i) <=> At(s, t, a + i - 1) /\ a + i + Len(t) - 2 <= b
<1>1. PICK n \in Nat, m \in Nat : Len(s) = n /\ Len(t) = m
  BY LenProperties
<1>2. PICK u : u = SubSeq(s, a, b)
  OBVIOUS
<1>3. /\ u \in Seq(Symbols) /\ Len(u) = b - a + 1
      /\ \A j \in 1..(b - a + 1) : u[j] = s[a + j - 1]
  BY <1>2, SliceIs
<1>4. At(u, t, i) <=> i + m - 1 <= b - a + 1 /\ \A j \in 1..m : u[i + j - 1] = t[j]
  <2>1. u \in Seq(Symbols)
    BY <1>3
  <2>2. At(u, t, i) <=> /\ i + Len(t) - 1 <= Len(u)
                        /\ \A j \in 1..Len(t) : u[i + j - 1] = t[j]
    BY <2>1, AtIs
  <2>3. QED
    BY <1>1, <1>3, <2>2
<1>5. PICK k \in Nat : k = a + i - 1 /\ 1 <= k
  OBVIOUS
<1>6. At(s, t, k) <=> k + m - 1 <= n /\ \A j \in 1..m : s[k + j - 1] = t[j]
  <2>1. At(s, t, k) <=> /\ k + Len(t) - 1 <= Len(s)
                        /\ \A j \in 1..Len(t) : s[k + j - 1] = t[j]
    BY <1>5, AtIs
  <2>2. QED
    BY <1>1, <2>1
<1>7. ASSUME i + m - 1 <= b - a + 1, NEW j \in 1..m PROVE u[i + j - 1] = s[k + j - 1]
  <2>1. i + j - 1 \in 1..(b - a + 1) /\ a + (i + j - 1) - 1 = k + j - 1
    BY <1>5, <1>7
  <2>2. QED
    BY <1>3, <2>1
<1>8. i + m - 1 <= b - a + 1 <=> k + m - 1 <= b
  BY <1>5
<1>9. k + m - 1 <= b => k + m - 1 <= n
  BY <1>1
<1>10. At(u, t, i) <=> At(s, t, k) /\ k + m - 1 <= b
  BY <1>4, <1>6, <1>7, <1>8, <1>9
<1>11. k + m - 1 = a + i + m - 2
  BY <1>5
<1>12. QED
  BY <1>1, <1>2, <1>5, <1>10, <1>11

\* str.find: the first place.
LEMMA FindIs ==
  ASSUME NEW s \in Seq(Symbols), NEW t \in Seq(Symbols), t # <<>>, Has(s, t)
  PROVE  /\ Find(s, t) \in 1..Len(s) /\ At(s, t, Find(s, t))
         /\ \A i \in Nat : 1 <= i /\ At(s, t, i) => Find(s, t) <= i
<1> DEFINE T == {i \in DOMAIN s : At(s, t, i)}
<1>1. DOMAIN s = 1..Len(s) /\ Len(s) \in Nat
  BY LenProperties
<1>2. T \subseteq Nat /\ T # {}
  BY <1>1 DEF Has
<1>3. Min(T) \in T /\ \A y \in T : Min(T) <= y
  BY <1>2, MinIs
<1>4. Find(s, t) = Min(T)
  BY DEF Find
<1>5. \A i \in Nat : 1 <= i /\ At(s, t, i) => i \in T
  BY <1>1, AtEnds
<1>6. QED
  BY <1>1, <1>3, <1>4, <1>5

\* A word that is in a text is there at some place.
LEMMA HasIs ==
  ASSUME NEW s \in Seq(Symbols), NEW t \in Seq(Symbols), t # <<>>
  PROVE  Has(s, t) <=> \E i \in Nat : 1 <= i /\ At(s, t, i)
<1>1. DOMAIN s = 1..Len(s) /\ Len(s) \in Nat
  BY LenProperties
<1>2. \A i \in Nat : 1 <= i /\ At(s, t, i) => i \in 1..Len(s)
  BY AtEnds
<1>3. QED
  BY <1>1, <1>2 DEF Has

\* Two words of one text that overlap touch.
LEMMA Overlap ==
  ASSUME NEW s \in Seq(Symbols), NEW t \in Seq(Symbols), NEW u \in Seq(Symbols),
         NEW i \in Nat, NEW j \in Nat, 1 <= i, 1 <= j, At(s, t, i), At(s, u, j),
         i <= j + Len(u) - 1, j <= i + Len(t) - 1
  PROVE  Touch(t, u) /\ Touch(u, t)
<1>1. PICK m \in Nat, k \in Nat :
        Len(t) = m /\ Len(u) = k /\ DOMAIN t = 1..m /\ DOMAIN u = 1..k
  BY LenProperties
<1>2. /\ \A a \in 1..m : s[i + a - 1] = t[a]
      /\ \A b \in 1..k : s[j + b - 1] = u[b]
  <2>1. \A a \in 1..Len(t) : s[i + a - 1] = t[a]
    BY AtIs
  <2>2. \A b \in 1..Len(u) : s[j + b - 1] = u[b]
    BY AtIs
  <2>3. QED
    BY <1>1, <2>1, <2>2
<1>3. \A a \in 1..m, b \in 1..k : a = b + (j - i) => t[a] = u[b]
  <2> SUFFICES ASSUME NEW a \in 1..m, NEW b \in 1..k, a = b + (j - i) PROVE t[a] = u[b]
    OBVIOUS
  <2>1. i + a - 1 = j + b - 1
    OBVIOUS
  <2>2. QED
    BY <1>2, <2>1
<1>4. Touch(t, u)
  <2>1. PICK d \in (1 - k)..(m - 1) : d = j - i
    BY <1>1
  <2>2. \A a \in 1..m, b \in 1..k : a = b + d => t[a] = u[b]
    BY <1>3, <2>1
  <2>3. /\ d \in (1 - Len(u))..(Len(t) - 1)
        /\ \A a \in DOMAIN t, b \in DOMAIN u : a = b + d => t[a] = u[b]
    BY <1>1, <2>2
  <2>4. QED
    BY <2>3, Zenon DEF Touch
<1>5. Touch(u, t)
  <2>1. PICK d \in (1 - m)..(k - 1) : d = i - j
    BY <1>1
  <2>2. \A b \in 1..k, a \in 1..m : b = a + d => u[b] = t[a]
    BY <1>3, <2>1
  <2>3. /\ d \in (1 - Len(t))..(Len(u) - 1)
        /\ \A b \in DOMAIN u, a \in DOMAIN t : b = a + d => u[b] = t[a]
    BY <1>1, <2>2
  <2>4. QED
    BY <2>3, Zenon DEF Touch
<1>6. QED
  BY <1>4, <1>5

\* A word that begins later and ends earlier is inside.
LEMMA Nested ==
  ASSUME NEW s \in Seq(Symbols), NEW t \in Seq(Symbols), NEW u \in Seq(Symbols),
         NEW i \in Nat, NEW j \in Nat, 1 <= i, 1 <= j, At(s, t, i), At(s, u, j),
         i < j, j + Len(u) < i + Len(t)
  PROVE  Inside(t, u)
<1>1. PICK m \in Nat, k \in Nat :
        Len(t) = m /\ Len(u) = k /\ DOMAIN t = 1..m /\ DOMAIN u = 1..k
  BY LenProperties
<1>2. /\ \A a \in 1..m : s[i + a - 1] = t[a]
      /\ \A b \in 1..k : s[j + b - 1] = u[b]
  <2>1. \A a \in 1..Len(t) : s[i + a - 1] = t[a]
    BY AtIs
  <2>2. \A b \in 1..Len(u) : s[j + b - 1] = u[b]
    BY AtIs
  <2>3. QED
    BY <1>1, <2>1, <2>2
<1>3. ASSUME NEW b \in 1..k PROVE t[b + (j - i)] = u[b]
  <2>1. b + (j - i) \in 1..m /\ i + (b + (j - i)) - 1 = j + b - 1
    BY <1>1
  <2>2. QED
    BY <1>2, <2>1
<1>4. j - i \in 1..(m - k - 1)
  BY <1>1
<1>5. QED
  BY <1>1, <1>3, <1>4 DEF Inside

-----------------------------------------------------------------------------
(* The holdback                                                            *)

\* A finite set of numbers has a greatest: the smallest one without would have, but for
\* one of its elements, a greatest.
LEMMA MaxExists ==
  ASSUME NEW T, T \subseteq Nat, IsFiniteSet(T), T # {}
  PROVE  \E x \in T : \A y \in T : y <= x
<1> DEFINE HasMax(S) == \E x \in S : \A y \in S : y <= x
           bad == {n \in Nat : \E S \in SUBSET Nat :
                     IsFiniteSet(S) /\ Cardinality(S) = n /\ S # {} /\ ~HasMax(S)}
<1>1. SUFFICES ASSUME ~HasMax(T) PROVE FALSE
  OBVIOUS
<1>2. Cardinality(T) \in bad
  BY <1>1, FS_CardinalityType
<1>3. PICK n \in bad : \A k \in bad : n <= k
  BY <1>2, MinExists
<1>4. PICK S \in SUBSET Nat : IsFiniteSet(S) /\ Cardinality(S) = n /\ S # {} /\ ~HasMax(S)
  BY <1>3
<1>5. PICK x \in S : TRUE
  BY <1>4
<1>6. IsFiniteSet(S \ {x}) /\ Cardinality(S \ {x}) = n - 1
  BY <1>4, FS_RemoveElement
<1>7. S \ {x} # {}
  BY <1>4
<1>8. n - 1 \notin bad
  BY <1>3
<1>9. Cardinality(S \ {x}) \in Nat
  BY <1>6, FS_CardinalityType
<1>10. HasMax(S \ {x})
  BY <1>6, <1>7, <1>8, <1>9
<1>11. PICK m \in S \ {x} : \A y \in S \ {x} : y <= m
  BY <1>10
<1>12. m \in Nat /\ x \in Nat
  OBVIOUS
<1>13. \A y \in S : y <= m \/ y = x
  BY <1>11
<1>14. CASE x <= m
  BY <1>4, <1>11, <1>13, <1>14
<1>15. CASE m <= x
  <2>1. \A y \in S : y <= x
    BY <1>12, <1>13, <1>15
  <2>2. QED
    BY <1>4, <2>1
<1>16. QED
  BY <1>12, <1>14, <1>15

\* Tags, stop sequences and texts are texts.
LEMMA TagsAre ==
  /\ \A t \in Tags \cup Stops \cup {ToolClose} : t \in Seq(Symbols) /\ t # <<>>
  /\ \A s \in Texts : s \in Seq(Symbols)
BY TextAssumption

\* No tag and no stop sequence is longer than the holdback.
LEMMA HoldbackIs ==
  HOLDBACK \in Nat /\ \A t \in Tags \cup Stops : Len(t) \in Nat /\ Len(t) <= HOLDBACK
<1> DEFINE W == Tags \cup Stops
           T == {Len(t) : t \in W}
           f == [t \in W |-> Len(t)]
<1>1. IsFiniteSet(W)
  <2>1. \A x : IsFiniteSet({x})
    BY FS_Singleton
  <2>2. Tags = ({ThinkOpen} \cup {ThinkClose}) \cup {ToolOpen}
    BY DEF Tags
  <2>3. IsFiniteSet({ThinkOpen} \cup {ThinkClose})
    BY <2>1, FS_Union
  <2>4. IsFiniteSet(Tags)
    BY <2>1, <2>2, <2>3, FS_Union
  <2>5. QED
    BY <2>4, TextAssumption, FS_Union
<1>2. f \in Surjection(W, T)
  BY DEF Surjection
<1>3. IsFiniteSet(T)
  BY <1>1, <1>2, FS_Surjection
<1>4. \A t \in W : t \in Seq(Symbols)
  BY TagsAre
<1>5. \A t \in W : Len(t) \in Nat /\ Len(t) \in T
  BY <1>4, LenProperties
<1>6. T \subseteq Nat /\ T # {}
  <2>1. ThinkOpen \in W
    BY DEF Tags
  <2>2. QED
    BY <1>5, <2>1
<1>7. HOLDBACK = Max(T)
  BY DEF HOLDBACK
<1> HIDE DEF T, f
<1>8. \E x \in T : \A y \in T : y <= x
  BY <1>3, <1>6, MaxExists
<1>9. \E x \in T : \A y \in T : x >= y
  BY <1>6, <1>8
<1>10. Max(T) \in T /\ \A y \in T : Max(T) >= y
  BY <1>9 DEF Max
<1>11. QED
  BY <1>5, <1>6, <1>7, <1>10

-----------------------------------------------------------------------------
(* Deltas                                                                  *)

Modes == {"reasoning", "content"}
Kinds == {"reasoning_content", "content"}
Deltas == [kind : Kinds, symbol : Symbols]

\* One delta for each symbol.
LEMMA DeltaIs ==
  ASSUME NEW s \in Seq(Symbols), NEW k \in Kinds
  PROVE  /\ Delta(s, k) \in Seq(Deltas) /\ Len(Delta(s, k)) = Len(s)
         /\ \A i \in 1..Len(s) : Delta(s, k)[i] = [kind |-> k, symbol |-> s[i]]
<1>1. PICK n \in Nat : Len(s) = n /\ DOMAIN s = 1..n
  BY LenProperties
<1>2. \A i \in 1..n : s[i] \in Symbols
  BY <1>1, ElementOfSeq
<1>3. Delta(s, k) = [i \in 1..n |-> [kind |-> k, symbol |-> s[i]]]
  BY <1>1 DEF Delta
<1>4. \A i \in 1..n : [kind |-> k, symbol |-> s[i]] \in Deltas
  BY <1>2 DEF Deltas
<1>5. Delta(s, k) \in Seq(Deltas) /\ Len(Delta(s, k)) = n
  BY <1>3, <1>4
<1>6. QED
  BY <1>1, <1>3, <1>5

\* The deltas of two texts, one after the other.
LEMMA DeltaConcat ==
  ASSUME NEW s \in Seq(Symbols), NEW t \in Seq(Symbols), NEW k \in Kinds
  PROVE  Delta(s \o t, k) = Delta(s, k) \o Delta(t, k)
<1>1. PICK n \in Nat, m \in Nat : Len(s) = n /\ Len(t) = m
  BY LenProperties
<1>2. PICK u : u = s \o t
  OBVIOUS
<1>3. /\ u \in Seq(Symbols) /\ Len(u) = n + m
      /\ \A i \in 1..(n + m) : u[i] = IF i <= n THEN s[i] ELSE t[i - n]
  BY <1>1, <1>2, ConcatProperties
<1>4. PICK ds, dt, du : ds = Delta(s, k) /\ dt = Delta(t, k) /\ du = Delta(u, k)
  OBVIOUS
<1>5. /\ ds \in Seq(Deltas) /\ Len(ds) = n
      /\ \A i \in 1..n : ds[i] = [kind |-> k, symbol |-> s[i]]
  BY <1>1, <1>4, DeltaIs
<1>6. /\ dt \in Seq(Deltas) /\ Len(dt) = m
      /\ \A i \in 1..m : dt[i] = [kind |-> k, symbol |-> t[i]]
  BY <1>1, <1>4, DeltaIs
<1>7. /\ du \in Seq(Deltas) /\ Len(du) = n + m
      /\ \A i \in 1..(n + m) : du[i] = [kind |-> k, symbol |-> u[i]]
  BY <1>3, <1>4, DeltaIs
<1>8. PICK c : c = ds \o dt
  OBVIOUS
<1>9. /\ c \in Seq(Deltas) /\ Len(c) = n + m
      /\ \A i \in 1..(n + m) : c[i] = IF i <= n THEN ds[i] ELSE dt[i - n]
  <2>1. ds \in Seq(Deltas) /\ dt \in Seq(Deltas)
    BY <1>5, <1>6
  <2>2. /\ ds \o dt \in Seq(Deltas) /\ Len(ds \o dt) = Len(ds) + Len(dt)
        /\ \A i \in 1..(Len(ds) + Len(dt)) :
             (ds \o dt)[i] = IF i <= Len(ds) THEN ds[i] ELSE dt[i - Len(ds)]
    BY <2>1, ConcatProperties
  <2>3. Len(ds) = n /\ Len(dt) = m
    BY <1>5, <1>6
  <2>4. QED
    BY <1>8, <2>2, <2>3
<1>10. \A i \in 1..(n + m) : c[i] = du[i]
  <2> SUFFICES ASSUME NEW i \in 1..(n + m) PROVE c[i] = du[i]
    OBVIOUS
  <2>1. CASE i <= n
    BY <1>3, <1>5, <1>7, <1>9, <2>1
  <2>2. CASE ~(i <= n)
    <3>1. i - n \in 1..m
      BY <1>1, <2>2
    <3>2. QED
      BY <1>3, <1>6, <1>7, <1>9, <2>2, <3>1
  <2>3. QED
    BY <2>1, <2>2
<1>11. c = du
  BY <1>7, <1>9, <1>10, SeqEqual
<1>12. QED
  BY <1>2, <1>4, <1>8, <1>11

\* What is shown in three parts.
LEMMA DeltasJoin ==
  ASSUME NEW x \in Seq(Deltas), NEW y \in Seq(Deltas), NEW z \in Seq(Deltas)
  PROVE  x \o (y \o z) = (x \o y) \o z
<1>1. (x \o y) \o z = x \o (y \o z)
  BY ConcatAssociative, SMTT(20)
<1>2. QED
  BY <1>1

\* Of no text there are none.
LEMMA DeltaEmpty == \A k \in Kinds : Delta(<<>>, k) = <<>>
<1> SUFFICES ASSUME NEW k \in Kinds PROVE Delta(<<>>, k) = <<>>
  OBVIOUS
<1>1. <<>> \in Seq(Symbols) /\ Len(<<>>) = 0
  OBVIOUS
<1>2. Delta(<<>>, k) \in Seq(Deltas) /\ Len(Delta(<<>>, k)) = 0
  BY <1>1, DeltaIs
<1>3. QED
  BY <1>2, EmptySeq

-----------------------------------------------------------------------------
(* What is cut out of a text                                               *)

\* A slice of a slice.
LEMMA SliceSlice ==
  ASSUME NEW s \in Seq(Symbols), NEW a \in Nat, NEW b \in Nat, 1 <= a, b <= Len(s), a <= b + 1,
         NEW c \in Nat, NEW d \in Nat, 1 <= c, d <= b - a + 1, c <= d + 1
  PROVE  SubSeq(SubSeq(s, a, b), c, d) = SubSeq(s, a + c - 1, a + d - 1)
<1>1. PICK u : u = SubSeq(s, a, b)
  OBVIOUS
<1>2. /\ u \in Seq(Symbols) /\ Len(u) = b - a + 1
      /\ \A i \in 1..(b - a + 1) : u[i] = s[a + i - 1]
  BY <1>1, SliceIs
<1>3. PICK v, w : v = SubSeq(u, c, d) /\ w = SubSeq(s, a + c - 1, a + d - 1)
  OBVIOUS
<1>4. /\ v \in Seq(Symbols) /\ Len(v) = d - c + 1
      /\ \A i \in 1..(d - c + 1) : v[i] = u[c + i - 1]
  <2>1. u \in Seq(Symbols) /\ d <= Len(u)
    BY <1>2
  <2>2. QED
    BY <1>3, <2>1, SliceIs
<1>5. PICK e \in Nat, f \in Nat : e = a + c - 1 /\ f = a + d - 1
  OBVIOUS
<1>6. PICK n \in Nat : n = Len(s)
  BY LenProperties
<1>7. 1 <= e /\ f <= n /\ e <= f + 1 /\ f - e + 1 = d - c + 1
  BY <1>5, <1>6
<1>8. w = SubSeq(s, e, f)
  BY <1>3, <1>5
<1>9. /\ w \in Seq(Symbols) /\ Len(w) = d - c + 1
      /\ \A i \in 1..(d - c + 1) : w[i] = s[e + i - 1]
  BY <1>6, <1>7, <1>8, SliceIs
<1>10. ASSUME NEW i \in 1..(d - c + 1) PROVE v[i] = w[i]
  <2>1. c + i - 1 \in 1..(b - a + 1) /\ a + (c + i - 1) - 1 = e + i - 1
    BY <1>5
  <2>2. QED
    BY <1>2, <1>4, <1>9, <2>1
<1>11. v = w
  BY <1>4, <1>9, <1>10, SeqEqual
<1>12. QED
  BY <1>1, <1>3, <1>11

\* A slice is its first symbol and the rest.
LEMMA SliceHead ==
  ASSUME NEW s \in Seq(Symbols), NEW b \in Nat, b <= Len(s), NEW a \in 1..b
  PROVE  /\ <<s[a]>> \in Seq(Symbols) /\ SubSeq(s, a + 1, b) \in Seq(Symbols)
         /\ <<s[a]>> \o SubSeq(s, a + 1, b) = SubSeq(s, a, b)
<1>1. PICK n \in Nat : Len(s) = n
  BY LenProperties
<1>2. PICK h, t, u : h = <<s[a]>> /\ t = SubSeq(s, a + 1, b) /\ u = SubSeq(s, a, b)
  OBVIOUS
<1>3. s[a] \in Symbols
  BY <1>1, ElementOfSeq
<1>4. h \in Seq(Symbols) /\ Len(h) = 1 /\ h[1] = s[a]
  BY <1>2, <1>3
<1>5. /\ t \in Seq(Symbols) /\ Len(t) = b - (a + 1) + 1
      /\ \A i \in 1..(b - (a + 1) + 1) : t[i] = s[(a + 1) + i - 1]
  <2>1. a + 1 \in Nat /\ 1 <= a + 1 /\ a + 1 <= b + 1
    OBVIOUS
  <2>2. QED
    BY <1>1, <1>2, <2>1, SliceIs
<1>6. /\ u \in Seq(Symbols) /\ Len(u) = b - a + 1
      /\ \A i \in 1..(b - a + 1) : u[i] = s[a + i - 1]
  BY <1>1, <1>2, SliceIs
<1>7. PICK c : c = h \o t
  OBVIOUS
<1>8. /\ c \in Seq(Symbols) /\ Len(c) = 1 + Len(t)
      /\ \A i \in 1..(1 + Len(t)) : c[i] = IF i <= 1 THEN h[i] ELSE t[i - 1]
  <2>1. h \in Seq(Symbols) /\ t \in Seq(Symbols)
    BY <1>4, <1>5
  <2>2. /\ c \in Seq(Symbols) /\ Len(c) = Len(h) + Len(t)
        /\ \A i \in 1..(Len(h) + Len(t)) : c[i] = IF i <= Len(h) THEN h[i] ELSE t[i - Len(h)]
    BY <1>7, <2>1, ConcatProperties
  <2>3. QED
    BY <1>4, <2>2
<1>9. ASSUME NEW i \in 1..(b - a + 1) PROVE c[i] = u[i]
  <2>1. CASE i = 1
    BY <1>4, <1>5, <1>6, <1>8, <2>1
  <2>2. CASE i # 1
    <3>1. i - 1 \in 1..(b - (a + 1) + 1) /\ (a + 1) + (i - 1) - 1 = a + i - 1
      BY <2>2
    <3>2. c[i] = t[i - 1]
      BY <1>5, <1>8, <2>2
    <3>3. t[i - 1] = s[a + i - 1]
      BY <1>5, <3>1
    <3>4. QED
      BY <1>6, <3>2, <3>3
  <2>3. QED
    BY <2>1, <2>2
<1>10. Len(c) = Len(u)
  BY <1>5, <1>6, <1>8
<1>11. c = u
  BY <1>6, <1>8, <1>9, <1>10, SeqEqual
<1>12. QED
  BY <1>2, <1>4, <1>5, <1>7, <1>11

\* Before, after and from a word.
LEMMA CutIs ==
  ASSUME NEW s \in Seq(Symbols), NEW t \in Seq(Symbols), t # <<>>, Has(s, t)
  PROVE  /\ Before(s, t) \in Seq(Symbols) /\ Len(Before(s, t)) = Find(s, t) - 1
         /\ After(s, t) \in Seq(Symbols) /\ Len(After(s, t)) = Len(s) - Find(s, t) - Len(t) + 1
         /\ From(s, t) \in Seq(Symbols)
<1>1. PICK n \in Nat, m \in Nat : Len(s) = n /\ Len(t) = m
  BY LenProperties
<1>2. PICK f : f = Find(s, t)
  OBVIOUS
<1>3. f \in 1..n /\ At(s, t, f)
  BY <1>1, <1>2, FindIs
<1>4. f + m - 1 <= n /\ m >= 1
  BY <1>1, <1>3, AtEnds
<1>5. SubSeq(s, 1, f - 1) \in Seq(Symbols) /\ Len(SubSeq(s, 1, f - 1)) = f - 1
  BY <1>1, <1>3, SliceIs
<1>6. /\ SubSeq(s, f + m, n) \in Seq(Symbols) /\ Len(SubSeq(s, f + m, n)) = n - (f + m) + 1
  BY <1>1, <1>3, <1>4, SliceIs
<1>7. SubSeq(s, f, n) \in Seq(Symbols)
  BY <1>1, <1>3, SliceIs
<1>8. QED
  BY <1>1, <1>2, <1>4, <1>5, <1>6, <1>7 DEF Before, After, From

\* The deltas of a slice are that of its first symbol and those of the rest.
LEMMA DeltaSlice ==
  ASSUME NEW s \in Seq(Symbols), NEW b \in Nat, b <= Len(s), NEW a \in 1..b, NEW k \in Kinds
  PROVE  /\ Delta(<<s[a]>>, k) \in Seq(Deltas)
         /\ Delta(SubSeq(s, a + 1, b), k) \in Seq(Deltas)
         /\ Delta(SubSeq(s, a, b), k) = Delta(<<s[a]>>, k) \o Delta(SubSeq(s, a + 1, b), k)
<1>1. PICK h, t : h = <<s[a]>> /\ t = SubSeq(s, a + 1, b)
  OBVIOUS
<1>2. h \in Seq(Symbols) /\ t \in Seq(Symbols) /\ h \o t = SubSeq(s, a, b)
  BY <1>1, SliceHead
<1>3. Delta(h \o t, k) = Delta(h, k) \o Delta(t, k)
  BY <1>2, DeltaConcat
<1>4. Delta(h, k) \in Seq(Deltas) /\ Delta(t, k) \in Seq(Deltas)
  BY <1>2, DeltaIs
<1>5. QED
  BY <1>1, <1>2, <1>3, <1>4

-----------------------------------------------------------------------------
(* The tool calls                                                          *)

\* parse_tool_calls, of the last n symbols, where g is told of fewer.
ToolsBody(s, g, n) ==
  LET rest == SubSeq(s, Len(s) - n + 1, Len(s))
      call == After(rest, ToolOpen)
      body == Before(call, ToolClose)
      next == g[Len(After(call, ToolClose))]
  IN  IF ~Has(rest, ToolOpen) \/ ~Has(call, ToolClose)
      THEN [cleaned |-> rest, calls |-> <<>>]
      ELSE [cleaned |-> Before(rest, ToolOpen) \o next.cleaned,
            calls |-> (IF Has(body, <<FunctionOpen>>) THEN <<body>> ELSE <<>>)
                        \o next.calls]

ToolsOf(s) == CHOOSE g : g = [n \in 0..Len(s) |-> ToolsBody(s, g, n)]

\* parse_tool_calls is this function's value for the whole text.
LEMMA ToolsDef == \A s : parse_tool_calls(s) = ToolsOf(s)[Len(s)]
BY Zenon DEF parse_tool_calls, ToolsOf, ToolsBody

\* What comes after a call is shorter.
LEMMA ToolsNext ==
  ASSUME NEW rest \in Seq(Symbols), NEW n \in Nat, Len(rest) = n,
         Has(rest, ToolOpen), Has(After(rest, ToolOpen), ToolClose)
  PROVE  /\ After(rest, ToolOpen) \in Seq(Symbols)
         /\ Len(After(After(rest, ToolOpen), ToolClose)) \in 0..(n - 1)
<1>1. PICK call, k : call = After(rest, ToolOpen) /\ k = Len(After(call, ToolClose))
  OBVIOUS
<1>2. ToolOpen \in Seq(Symbols) /\ ToolOpen # <<>> /\ ToolClose \in Seq(Symbols) /\ ToolClose # <<>>
  BY TagsAre DEF Tags
<1>3. call \in Seq(Symbols) /\ Len(call) = n - Find(rest, ToolOpen) - Len(ToolOpen) + 1
  BY <1>1, <1>2, CutIs
<1>4. Find(rest, ToolOpen) \in 1..n /\ Len(ToolOpen) \in Nat
  BY <1>2, FindIs, LenProperties
<1>5. k = Len(call) - Find(call, ToolClose) - Len(ToolClose) + 1 /\ k \in Nat
  BY <1>1, <1>2, <1>3, CutIs, LenProperties
<1>6. Find(call, ToolClose) \in 1..Len(call) /\ Len(ToolClose) \in Nat /\ Len(ToolClose) >= 1
  BY <1>1, <1>2, <1>3, FindIs, AtEnds
<1>7. k \in 0..(n - 1)
  <2>1. PICK q, a, b, c, d : /\ q = Len(call) /\ a = Find(rest, ToolOpen) /\ b = Len(ToolOpen)
                             /\ c = Find(call, ToolClose) /\ d = Len(ToolClose)
    OBVIOUS
  <2>2. /\ q = n - a - b + 1 /\ k = q - c - d + 1 /\ a \in 1..n /\ b \in Nat /\ c \in 1..q
        /\ d \in Nat /\ d >= 1 /\ k \in Nat
    BY <1>3, <1>4, <1>5, <1>6, <2>1
  <2>3. QED
    BY <2>2
<1>8. QED
  BY <1>1, <1>3, <1>7

\* It asks g only about fewer symbols.
LEMMA ToolsAsk ==
  ASSUME NEW s \in Seq(Symbols), NEW n \in 0..Len(s), NEW g, NEW h,
         \A k \in 0..(n - 1) : g[k] = h[k]
  PROVE  ToolsBody(s, g, n) = ToolsBody(s, h, n)
<1>1. PICK l \in Nat : Len(s) = l
  BY LenProperties
<1>2. PICK rest : rest = SubSeq(s, l - n + 1, l)
  OBVIOUS
<1>3. rest \in Seq(Symbols) /\ Len(rest) = n /\ n \in Nat
  BY <1>1, <1>2, SliceIs
<1>4. CASE ~Has(rest, ToolOpen) \/ ~Has(After(rest, ToolOpen), ToolClose)
  BY <1>1, <1>2, <1>4, Zenon DEF ToolsBody
<1>5. CASE Has(rest, ToolOpen) /\ Has(After(rest, ToolOpen), ToolClose)
  <2>1. PICK call, k : call = After(rest, ToolOpen) /\ k = Len(After(call, ToolClose))
    OBVIOUS
  <2>2. k \in 0..(n - 1)
    BY <1>3, <1>5, <2>1, ToolsNext
  <2>3. g[k] = h[k]
    BY <2>2
  <2>4. QED
    BY <1>1, <1>2, <1>5, <2>1, <2>3, Zenon DEF ToolsBody
<1>6. QED
  BY <1>4, <1>5

Tools == [cleaned : Seq(Symbols), calls : Seq(Seq(Symbols))]

\* Its value is of the right type if those for fewer symbols are.
LEMMA ToolsBodyType ==
  ASSUME NEW s \in Seq(Symbols), NEW n \in 0..Len(s), NEW g,
         \A k \in 0..(n - 1) : g[k] \in Tools
  PROVE  ToolsBody(s, g, n) \in Tools
<1>1. PICK l \in Nat : Len(s) = l
  BY LenProperties
<1>2. PICK rest : rest = SubSeq(s, l - n + 1, l)
  OBVIOUS
<1>3. rest \in Seq(Symbols) /\ Len(rest) = n /\ n \in Nat
  BY <1>1, <1>2, SliceIs
<1>4. CASE ~Has(rest, ToolOpen) \/ ~Has(After(rest, ToolOpen), ToolClose)
  <2>1. ToolsBody(s, g, n) = [cleaned |-> rest, calls |-> <<>>]
    BY <1>1, <1>2, <1>4, Zenon DEF ToolsBody
  <2>2. <<>> \in Seq(Seq(Symbols))
    OBVIOUS
  <2>3. QED
    BY <1>3, <2>1, <2>2 DEF Tools
<1>5. CASE Has(rest, ToolOpen) /\ Has(After(rest, ToolOpen), ToolClose)
  <2>1. PICK call, k : call = After(rest, ToolOpen) /\ k = Len(After(call, ToolClose))
    OBVIOUS
  <2>2. k \in 0..(n - 1) /\ call \in Seq(Symbols)
    BY <1>3, <1>5, <2>1, ToolsNext
  <2>3. g[k] \in Tools
    BY <2>2
  <2>4. PICK before, body : before = Before(rest, ToolOpen) /\ body = Before(call, ToolClose)
    OBVIOUS
  <2>5. before \in Seq(Symbols) /\ body \in Seq(Symbols)
    <3>1. ToolOpen \in Seq(Symbols) /\ ToolOpen # <<>> /\ ToolClose \in Seq(Symbols) /\ ToolClose # <<>>
      BY TagsAre DEF Tags
    <3>2. QED
      BY <1>3, <1>5, <2>1, <2>2, <2>4, <3>1, CutIs
  <2>6. PICK own : own = IF Has(body, <<FunctionOpen>>) THEN <<body>> ELSE <<>>
    OBVIOUS
  <2>7. own \in Seq(Seq(Symbols))
    BY <2>5, <2>6
  <2>8. g[k].cleaned \in Seq(Symbols) /\ g[k].calls \in Seq(Seq(Symbols))
    BY <2>3 DEF Tools
  <2>9. before \o g[k].cleaned \in Seq(Symbols) /\ own \o g[k].calls \in Seq(Seq(Symbols))
    BY <2>5, <2>7, <2>8, ConcatProperties
  <2>10. ToolsBody(s, g, n) = [cleaned |-> before \o g[k].cleaned, calls |-> own \o g[k].calls]
    BY <1>1, <1>2, <1>5, <2>1, <2>4, <2>6, Zenon DEF ToolsBody
  <2>11. QED
    BY <2>9, <2>10 DEF Tools
<1>6. QED
  BY <1>4, <1>5

\* The recursion has a solution: the smallest n up to which it had none would have one,
\* that for n - 1 and one more value.
LEMMA ToolsExist ==
  ASSUME NEW s \in Seq(Symbols)
  PROVE  \E g : g = [n \in 0..Len(s) |-> ToolsBody(s, g, n)]
<1>1. PICK l \in Nat : Len(s) = l
  BY LenProperties
<1> DEFINE bad == {n \in 0..l : ~\E g : g = [k \in 0..n |-> ToolsBody(s, g, k)]}
<1>2. SUFFICES ASSUME bad # {} PROVE FALSE
  <2>1. l \in 0..l
    OBVIOUS
  <2>2. QED
    BY <1>1, <1>2, <2>1
<1>3. bad \subseteq Nat
  OBVIOUS
<1>4. PICK n \in bad : \A k \in bad : n <= k
  BY <1>2, <1>3, MinExists
<1>5. n \in 0..l
  OBVIOUS
<1>6. PICK g : n = 0 \/ g = [k \in 0..(n - 1) |-> ToolsBody(s, g, k)]
  <2>1. CASE n = 0
    BY <2>1
  <2>2. CASE n # 0
    <3>1. n - 1 \in 0..l /\ ~(n <= n - 1)
      BY <1>5, <2>2
    <3>2. n - 1 \notin bad
      BY <1>4, <3>1
    <3>3. QED
      BY <3>1, <3>2
  <2>3. QED
    BY <2>1, <2>2
<1>7. PICK v : v = ToolsBody(s, g, n)
  OBVIOUS
<1>8. PICK h : h = [k \in 0..n |-> IF k < n THEN g[k] ELSE v]
  OBVIOUS
<1>9. \A k \in 0..(n - 1) : h[k] = g[k]
  BY <1>5, <1>8
<1>10. \A k \in 0..(n - 1) : g[k] = ToolsBody(s, g, k)
  <2>1. CASE n = 0
    BY <2>1
  <2>2. CASE n # 0
    BY <1>6, <2>2
  <2>3. QED
    BY <2>1, <2>2
<1>11. ASSUME NEW k \in 0..n PROVE h[k] = ToolsBody(s, h, k)
  <2>1. k \in 0..Len(s)
    BY <1>1, <1>5
  <2>2. \A j \in 0..(k - 1) : g[j] = h[j]
    BY <1>5, <1>9
  <2>3. ToolsBody(s, g, k) = ToolsBody(s, h, k)
    BY <2>1, <2>2, ToolsAsk
  <2>4. CASE k = n
    <3>1. h[n] = v
      BY <1>5, <1>8
    <3>2. h[k] = ToolsBody(s, g, k)
      BY <1>7, <2>4, <3>1, Zenon
    <3>3. QED
      BY <2>3, <3>2
  <2>5. CASE k # n
    <3>1. k \in 0..(n - 1)
      BY <1>5, <2>5
    <3>2. QED
      BY <1>9, <1>10, <2>3, <3>1
  <2>6. QED
    BY <2>4, <2>5
<1>12. h = [k \in 0..n |-> ToolsBody(s, h, k)]
  <2>1. h = [k \in 0..n |-> h[k]]
    BY <1>8
  <2>2. QED
    BY <1>11, <2>1
<1>13. QED
  BY <1>4, <1>12

\* The recursion, unfolded once.
LEMMA ToolsUnfold ==
  ASSUME NEW s \in Seq(Symbols), NEW n \in 0..Len(s)
  PROVE  ToolsOf(s)[n] = ToolsBody(s, ToolsOf(s), n)
<1>1. PICK g : g = ToolsOf(s)
  OBVIOUS
<1>2. g = [k \in 0..Len(s) |-> ToolsBody(s, g, k)]
  BY <1>1, ToolsExist DEF ToolsOf
<1>3. QED
  BY <1>1, <1>2

\* The tool calls, and the text without them, are texts.
LEMMA ToolsType ==
  ASSUME NEW s \in Seq(Symbols), NEW n \in 0..Len(s)
  PROVE  ToolsOf(s)[n] \in Tools
<1> DEFINE bad == {k \in 0..Len(s) : ToolsOf(s)[k] \notin Tools}
<1>1. SUFFICES ASSUME bad # {} PROVE FALSE
  OBVIOUS
<1>2. PICK l \in Nat : Len(s) = l
  BY LenProperties
<1>3. bad \subseteq Nat
  BY <1>2
<1>4. PICK k \in bad : \A j \in bad : k <= j
  BY <1>1, <1>3, MinExists
<1>5. k \in 0..l
  BY <1>2
<1>6. PICK g : g = ToolsOf(s)
  OBVIOUS
<1>7. \A j \in 0..(k - 1) : g[j] \in Tools
  <2> SUFFICES ASSUME NEW j \in 0..(k - 1), g[j] \notin Tools PROVE FALSE
    OBVIOUS
  <2>1. j \in 0..l /\ ~(k <= j)
    BY <1>5
  <2>2. j \in bad
    BY <1>2, <1>6, <2>1
  <2>3. QED
    BY <1>4, <2>1, <2>2
<1>8. g[k] = ToolsBody(s, g, k)
  BY <1>2, <1>5, <1>6, ToolsUnfold
<1>9. ToolsBody(s, g, k) \in Tools
  BY <1>2, <1>5, <1>7, ToolsBodyType
<1>10. QED
  BY <1>4, <1>6, <1>8, <1>9

\* The same, of a whole text.
LEMMA ToolsAre ==
  ASSUME NEW s \in Seq(Symbols)
  PROVE  parse_tool_calls(s) \in Tools
<1>1. Len(s) \in 0..Len(s)
  BY LenProperties
<1>2. QED
  BY <1>1, ToolsDef, ToolsType

-----------------------------------------------------------------------------
(* What a parser shows that sees everything                                *)

Shows == [out : Seq(Deltas), calls : Seq(Seq(Symbols))]
Nothing == [out |-> <<>>, calls |-> <<>>]

\* What it shows of the tool calls that begin at place i.
Called(s, i) ==
  LET rest == SubSeq(s, i, Len(s))
      tools == parse_tool_calls(rest)
  IN  IF tools.calls = <<>> THEN [out |-> Delta(rest, "content"), calls |-> <<>>]
      ELSE [out |-> Delta(tools.cleaned, "content"), calls |-> tools.calls]

\* Remaining, where g is told of fewer symbols than n.
RemainingOf(s, g, n, m) ==
  LET i == Len(s) - n + 1
  IN  IF n = 0 \/ (\E t \in Stops : At(s, t, i)) THEN Nothing
      ELSE IF m = "reasoning" /\ At(s, ThinkClose, i) THEN g[n - Len(ThinkClose)]["content"]
      ELSE IF m = "content" /\ At(s, ThinkOpen, i) THEN g[n - Len(ThinkOpen)]["reasoning"]
      ELSE IF m = "content" /\ At(s, ToolOpen, i) THEN Called(s, i)
      ELSE [g[n - 1][m] EXCEPT !.out = Delta(<<s[i]>>, Kind(m)) \o @]

Shown(s) ==
  CHOOSE g : g = [n \in 0..Len(s) |-> [m \in {"reasoning", "content"} |-> RemainingOf(s, g, n, m)]]

\* Remaining is a value of this function.
LEMMA RemainingDef == \A s, n : Remaining(s, n) = Shown(s)[n]
BY Zenon DEF Remaining, Shown, RemainingOf, Called, Nothing

\* A tag at the last n symbols leaves fewer of them.
LEMMA TagLeaves ==
  ASSUME NEW s \in Seq(Symbols), NEW n \in 0..Len(s), NEW t \in Tags,
         At(s, t, Len(s) - n + 1)
  PROVE  n - Len(t) \in 0..(n - 1)
<1>1. PICK l \in Nat, k \in Nat : Len(s) = l /\ k = l - n + 1 /\ 1 <= k
  BY LenProperties
<1>2. t \in Seq(Symbols) /\ t # <<>>
  BY TagsAre
<1>3. k + Len(t) - 1 <= l /\ Len(t) \in Nat /\ Len(t) >= 1
  BY <1>1, <1>2, AtEnds
<1>4. QED
  BY <1>1, <1>3

\* It asks g only about fewer symbols.
LEMMA RemainingAsks ==
  ASSUME NEW s \in Seq(Symbols), NEW n \in 0..Len(s), NEW m \in Modes, NEW g, NEW h,
         \A k \in 0..(n - 1) : g[k] = h[k]
  PROVE  RemainingOf(s, g, n, m) = RemainingOf(s, h, n, m)
<1>1. PICK i : i = Len(s) - n + 1
  OBVIOUS
<1>2. n \in Nat
  BY LenProperties
<1>3. n # 0 => g[n - 1] = h[n - 1]
  BY <1>2
<1>4. \A t \in Tags : At(s, t, i) => g[n - Len(t)] = h[n - Len(t)]
  BY <1>1, TagLeaves
<1>5. /\ At(s, ThinkClose, i) => g[n - Len(ThinkClose)] = h[n - Len(ThinkClose)]
      /\ At(s, ThinkOpen, i) => g[n - Len(ThinkOpen)] = h[n - Len(ThinkOpen)]
  BY <1>4 DEF Tags
<1>6. CASE n = 0 \/ \E t \in Stops : At(s, t, i)
  BY <1>1, <1>6 DEF RemainingOf
<1>7. CASE /\ ~(n = 0 \/ \E t \in Stops : At(s, t, i))
           /\ \/ m = "reasoning" /\ At(s, ThinkClose, i)
              \/ m = "content" /\ (At(s, ThinkOpen, i) \/ At(s, ToolOpen, i))
  BY <1>1, <1>5, <1>7 DEF RemainingOf
<1>8. CASE /\ ~(n = 0 \/ \E t \in Stops : At(s, t, i))
           /\ ~(m = "reasoning" /\ At(s, ThinkClose, i))
           /\ ~(m = "content" /\ (At(s, ThinkOpen, i) \/ At(s, ToolOpen, i)))
  <2>1. PICK a, b : a = g[n - 1] /\ b = h[n - 1] /\ a = b
    BY <1>3, <1>8
  <2>2. RemainingOf(s, g, n, m) = [a[m] EXCEPT !.out = Delta(<<s[i]>>, Kind(m)) \o @]
    BY <1>1, <1>8, <2>1 DEF RemainingOf
  <2>3. RemainingOf(s, h, n, m) = [b[m] EXCEPT !.out = Delta(<<s[i]>>, Kind(m)) \o @]
    BY <1>1, <1>8, <2>1 DEF RemainingOf
  <2>4. QED
    BY <2>1, <2>2, <2>3
<1>9. QED
  BY <1>6, <1>7, <1>8, Zenon

\* The recursion has a solution, for the reason ToolsExist has one.
LEMMA ShownExists ==
  ASSUME NEW s \in Seq(Symbols)
  PROVE  \E g : g = [n \in 0..Len(s) |-> [m \in Modes |-> RemainingOf(s, g, n, m)]]
<1>1. PICK l \in Nat : Len(s) = l
  BY LenProperties
<1> DEFINE body(g, n) == [m \in Modes |-> RemainingOf(s, g, n, m)]
           bad == {n \in 0..l : ~\E g : g = [k \in 0..n |-> body(g, k)]}
<1>2. ASSUME NEW n \in 0..l, NEW g, NEW h, \A k \in 0..(n - 1) : g[k] = h[k]
      PROVE  body(g, n) = body(h, n)
  <2>1. \A m \in Modes : RemainingOf(s, g, n, m) = RemainingOf(s, h, n, m)
    BY <1>1, <1>2, RemainingAsks
  <2>2. QED
    BY <2>1
<1> HIDE DEF body
<1>3. SUFFICES ASSUME bad # {} PROVE FALSE
  <2>1. l \in 0..l
    OBVIOUS
  <2>2. \E g : g = [k \in 0..l |-> body(g, k)]
    BY <1>3, <2>1
  <2>3. QED
    BY <1>1, <2>2 DEF body
<1>4. bad \subseteq Nat
  OBVIOUS
<1>5. PICK n \in bad : \A k \in bad : n <= k
  BY <1>3, <1>4, MinExists
<1>6. n \in 0..l
  OBVIOUS
<1>7. PICK g : n = 0 \/ g = [k \in 0..(n - 1) |-> body(g, k)]
  <2>1. CASE n = 0
    BY <2>1
  <2>2. CASE n # 0
    <3>1. n - 1 \in 0..l /\ ~(n <= n - 1)
      BY <1>6, <2>2
    <3>2. n - 1 \notin bad
      BY <1>5, <3>1
    <3>3. QED
      BY <3>1, <3>2
  <2>3. QED
    BY <2>1, <2>2
<1>8. PICK v : v = body(g, n)
  OBVIOUS
<1>9. PICK h : h = [k \in 0..n |-> IF k < n THEN g[k] ELSE v]
  OBVIOUS
<1>10. \A k \in 0..(n - 1) : h[k] = g[k]
  BY <1>6, <1>9
<1>11. \A k \in 0..(n - 1) : g[k] = body(g, k)
  <2>1. CASE n = 0
    BY <2>1
  <2>2. CASE n # 0
    BY <1>7, <2>2
  <2>3. QED
    BY <2>1, <2>2
<1>12. ASSUME NEW k \in 0..n PROVE h[k] = body(h, k)
  <2>1. k \in 0..l
    BY <1>6
  <2>2. \A j \in 0..(k - 1) : g[j] = h[j]
    BY <1>6, <1>10
  <2>3. body(g, k) = body(h, k)
    BY <1>2, <2>1, <2>2
  <2>4. CASE k = n
    <3>1. h[n] = v
      BY <1>6, <1>9
    <3>2. h[k] = body(g, k)
      BY <1>8, <2>4, <3>1, Zenon
    <3>3. QED
      BY <2>3, <3>2
  <2>5. CASE k # n
    <3>1. k \in 0..(n - 1)
      BY <1>6, <2>5
    <3>2. QED
      BY <1>10, <1>11, <2>3, <3>1
  <2>6. QED
    BY <2>4, <2>5
<1>13. h = [k \in 0..n |-> body(h, k)]
  <2>1. h = [k \in 0..n |-> h[k]]
    BY <1>9
  <2>2. QED
    BY <1>12, <2>1
<1>14. QED
  BY <1>5, <1>13

\* What is left, by place: from place i on, in mode m.
Ahead(s, i, m) == Shown(s)[Len(s) - i + 1][m]

\* The recursion, unfolded once.
LEMMA AheadUnfold ==
  ASSUME NEW s \in Seq(Symbols), NEW i \in 1..(Len(s) + 1), NEW m \in Modes
  PROVE  Ahead(s, i, m) = RemainingOf(s, Shown(s), Len(s) - i + 1, m)
<1>1. PICK g : g = Shown(s)
  OBVIOUS
<1>2. g = [n \in 0..Len(s) |-> [q \in Modes |-> RemainingOf(s, g, n, q)]]
  BY <1>1, ShownExists DEF Shown, Modes
<1>3. PICK n : n = Len(s) - i + 1
  OBVIOUS
<1>4. n \in 0..Len(s)
  BY <1>3, LenProperties
<1>5. g[n] = [q \in Modes |-> RemainingOf(s, g, n, q)]
  BY <1>2, <1>4
<1>6. QED
  BY <1>1, <1>3, <1>5 DEF Ahead

StopAt(s, i) == \E t \in Stops : At(s, t, i)
TagsOf(m) == IF m = "reasoning" THEN {ThinkClose} ELSE {ThinkOpen, ToolOpen}

\* Nothing after the end or a stop sequence.
LEMMA AheadStop ==
  ASSUME NEW s \in Seq(Symbols), NEW i \in 1..(Len(s) + 1), NEW m \in Modes,
         i = Len(s) + 1 \/ StopAt(s, i)
  PROVE  Ahead(s, i, m) = Nothing
<1>1. PICK n : n = Len(s) - i + 1
  OBVIOUS
<1>2. Len(s) - n + 1 = i /\ (i = Len(s) + 1 => n = 0)
  BY <1>1, LenProperties
<1>3. Ahead(s, i, m) = RemainingOf(s, Shown(s), n, m)
  BY <1>1, AheadUnfold
<1>4. QED
  BY <1>2, <1>3 DEF RemainingOf, StopAt

\* A tag changes the mode, or the tool calls begin.
LEMMA AheadTag ==
  ASSUME NEW s \in Seq(Symbols), NEW i \in 1..(Len(s) + 1), ~StopAt(s, i)
  PROVE  /\ At(s, ThinkClose, i) =>
              Ahead(s, i, "reasoning") = Ahead(s, i + Len(ThinkClose), "content")
         /\ At(s, ThinkOpen, i) =>
              Ahead(s, i, "content") = Ahead(s, i + Len(ThinkOpen), "reasoning")
         /\ At(s, ToolOpen, i) /\ ~At(s, ThinkOpen, i) => Ahead(s, i, "content") = Called(s, i)
<1>1. PICK l \in Nat, n \in Int : Len(s) = l /\ n = l - i + 1
  BY LenProperties
<1>2. l - n + 1 = i /\ n \in Int
  BY <1>1
<1>3. \A m \in Modes : Ahead(s, i, m) = RemainingOf(s, Shown(s), n, m)
  BY <1>1, AheadUnfold
<1>4. \A t \in Tags : At(s, t, i) => n # 0 /\ l - (i + Len(t)) + 1 = n - Len(t)
  <2> SUFFICES ASSUME NEW t \in Tags, At(s, t, i)
               PROVE  n # 0 /\ l - (i + Len(t)) + 1 = n - Len(t)
    OBVIOUS
  <2>1. t \in Seq(Symbols) /\ t # <<>>
    BY TagsAre
  <2>2. i + Len(t) - 1 <= l /\ Len(t) \in Nat /\ Len(t) >= 1
    BY <1>1, <2>1, AtEnds
  <2>3. QED
    BY <1>1, <2>2
<1>5. ASSUME At(s, ThinkClose, i)
      PROVE  Ahead(s, i, "reasoning") = Ahead(s, i + Len(ThinkClose), "content")
  <2>1. n # 0 /\ l - (i + Len(ThinkClose)) + 1 = n - Len(ThinkClose)
    BY <1>4, <1>5 DEF Tags
  <2>2. RemainingOf(s, Shown(s), n, "reasoning") = Shown(s)[n - Len(ThinkClose)]["content"]
    BY <1>1, <1>2, <1>5, <2>1 DEF RemainingOf, StopAt
  <2>3. QED
    BY <1>1, <1>3, <2>1, <2>2 DEF Ahead, Modes
<1>6. ASSUME At(s, ThinkOpen, i)
      PROVE  Ahead(s, i, "content") = Ahead(s, i + Len(ThinkOpen), "reasoning")
  <2>1. n # 0 /\ l - (i + Len(ThinkOpen)) + 1 = n - Len(ThinkOpen)
    BY <1>4, <1>6 DEF Tags
  <2>2. RemainingOf(s, Shown(s), n, "content") = Shown(s)[n - Len(ThinkOpen)]["reasoning"]
    BY <1>1, <1>2, <1>6, <2>1 DEF RemainingOf, StopAt
  <2>3. QED
    BY <1>1, <1>3, <2>1, <2>2 DEF Ahead, Modes
<1>7. ASSUME At(s, ToolOpen, i), ~At(s, ThinkOpen, i)
      PROVE  Ahead(s, i, "content") = Called(s, i)
  <2>1. n # 0
    BY <1>4, <1>7 DEF Tags
  <2>2. RemainingOf(s, Shown(s), n, "content") = Called(s, i)
    BY <1>1, <1>2, <1>7, <2>1 DEF RemainingOf, StopAt
  <2>3. QED
    BY <1>3, <2>2 DEF Modes
<1>8. QED
  BY <1>5, <1>6, <1>7

\* What is shown of tool calls is a sequence of deltas and one of calls.
LEMMA CalledType ==
  ASSUME NEW s \in Seq(Symbols), NEW i \in 1..(Len(s) + 1)
  PROVE  Called(s, i) \in Shows
<1>1. PICK rest : rest = SubSeq(s, i, Len(s))
  OBVIOUS
<1>2. rest \in Seq(Symbols)
  BY <1>1, SliceIs, LenProperties
<1>3. PICK tools : tools = parse_tool_calls(rest)
  OBVIOUS
<1>4. tools.cleaned \in Seq(Symbols) /\ tools.calls \in Seq(Seq(Symbols))
  BY <1>2, <1>3, ToolsAre DEF Tools
<1>5. Delta(rest, "content") \in Seq(Deltas) /\ Delta(tools.cleaned, "content") \in Seq(Deltas)
  BY <1>2, <1>4, DeltaIs DEF Kinds
<1>6. <<>> \in Seq(Seq(Symbols))
  OBVIOUS
<1>7. QED
  BY <1>1, <1>3, <1>4, <1>5, <1>6 DEF Called, Shows

\* So is what is left.
LEMMA AheadType ==
  ASSUME NEW s \in Seq(Symbols), NEW i \in 1..(Len(s) + 1), NEW m \in Modes
  PROVE  Ahead(s, i, m) \in Shows
<1>1. PICK l \in Nat : Len(s) = l
  BY LenProperties
<1> DEFINE bad == {n \in 0..l : \E q \in Modes : Shown(s)[n][q] \notin Shows}
<1>2. SUFFICES ASSUME bad # {} PROVE FALSE
  <2>1. l - i + 1 \in 0..l
    BY <1>1
  <2>2. QED
    BY <1>1, <1>2, <2>1 DEF Ahead
<1>3. bad \subseteq Nat
  OBVIOUS
<1>4. PICK n \in bad : \A k \in bad : n <= k
  BY <1>2, <1>3, MinExists
<1>5. n \in 0..l
  OBVIOUS
<1>6. PICK g : g = Shown(s)
  OBVIOUS
<1>7. PICK q \in Modes : g[n][q] \notin Shows
  BY <1>6
<1>8. \A k \in 0..(n - 1), r \in Modes : g[k][r] \in Shows
  <2> SUFFICES ASSUME NEW k \in 0..(n - 1), NEW r \in Modes, g[k][r] \notin Shows PROVE FALSE
    OBVIOUS
  <2>1. k \in 0..l /\ ~(n <= k)
    BY <1>5
  <2>2. k \in bad
    BY <1>6, <2>1
  <2>3. QED
    BY <1>4, <2>1, <2>2
<1>9. PICK j : j = l - n + 1
  OBVIOUS
<1>10. j \in 1..(l + 1) /\ l - j + 1 = n
  BY <1>5, <1>9
<1>11. g[n][q] = RemainingOf(s, g, n, q)
  <2>1. Ahead(s, j, q) = RemainingOf(s, g, n, q)
    BY <1>1, <1>6, <1>10, AheadUnfold
  <2>2. QED
    BY <1>1, <1>6, <1>10, <2>1 DEF Ahead
<1>12. \A t \in Tags : At(s, t, j) => n - Len(t) \in 0..(n - 1)
  BY <1>1, <1>5, <1>9, TagLeaves
<1>13. CASE n = 0 \/ StopAt(s, j)
  <2>1. RemainingOf(s, g, n, q) = Nothing
    BY <1>1, <1>9, <1>13 DEF RemainingOf, StopAt
  <2>2. Nothing \in Shows
    BY DEF Nothing, Shows
  <2>3. QED
    BY <1>7, <1>11, <2>1, <2>2
<1>14. CASE ~(n = 0 \/ StopAt(s, j)) /\ q = "reasoning" /\ At(s, ThinkClose, j)
  <2>1. RemainingOf(s, g, n, q) = g[n - Len(ThinkClose)]["content"]
    BY <1>1, <1>9, <1>14 DEF RemainingOf, StopAt
  <2>2. n - Len(ThinkClose) \in 0..(n - 1)
    BY <1>12, <1>14 DEF Tags
  <2>3. QED
    BY <1>7, <1>8, <1>11, <2>1, <2>2 DEF Modes
<1>15. CASE ~(n = 0 \/ StopAt(s, j)) /\ q = "content" /\ At(s, ThinkOpen, j)
  <2>1. RemainingOf(s, g, n, q) = g[n - Len(ThinkOpen)]["reasoning"]
    BY <1>1, <1>9, <1>15 DEF RemainingOf, StopAt
  <2>2. n - Len(ThinkOpen) \in 0..(n - 1)
    BY <1>12, <1>15 DEF Tags
  <2>3. QED
    BY <1>7, <1>8, <1>11, <2>1, <2>2 DEF Modes
<1>16. CASE /\ ~(n = 0 \/ StopAt(s, j)) /\ q = "content" /\ ~At(s, ThinkOpen, j)
            /\ At(s, ToolOpen, j)
  <2>1. RemainingOf(s, g, n, q) = Called(s, j)
    BY <1>1, <1>9, <1>16 DEF RemainingOf, StopAt
  <2>2. Called(s, j) \in Shows
    BY <1>1, <1>10, CalledType
  <2>3. QED
    BY <1>7, <1>11, <2>1, <2>2
<1>17. CASE /\ ~(n = 0 \/ StopAt(s, j)) /\ ~(q = "reasoning" /\ At(s, ThinkClose, j))
            /\ ~(q = "content" /\ (At(s, ThinkOpen, j) \/ At(s, ToolOpen, j)))
  <2>1. RemainingOf(s, g, n, q) = [g[n - 1][q] EXCEPT !.out = Delta(<<s[j]>>, Kind(q)) \o @]
    BY <1>1, <1>9, <1>17 DEF RemainingOf, StopAt
  <2>2. PICK r : r = g[n - 1][q]
    OBVIOUS
  <2>3. r \in Shows
    BY <1>5, <1>8, <1>17, <2>2
  <2>4. <<s[j]>> \in Seq(Symbols)
    BY <1>1, <1>10, <1>17, ElementOfSeq
  <2>5. Delta(<<s[j]>>, Kind(q)) \in Seq(Deltas)
    BY <2>4, DeltaIs DEF Kinds, Kind
  <2>6. r.out \in Seq(Deltas)
    BY <2>3 DEF Shows
  <2>7. Delta(<<s[j]>>, Kind(q)) \o r.out \in Seq(Deltas)
    BY <2>5, <2>6, ConcatProperties
  <2>8. [r EXCEPT !.out = Delta(<<s[j]>>, Kind(q)) \o @] \in Shows
    BY <2>3, <2>7 DEF Shows
  <2>9. QED
    BY <1>7, <1>11, <2>1, <2>2, <2>8
<1>18. QED
  BY <1>13, <1>14, <1>15, <1>16, <1>17 DEF Modes

\* Otherwise the symbol is shown.
LEMMA AheadStep ==
  ASSUME NEW s \in Seq(Symbols), NEW i \in 1..Len(s), NEW m \in Modes,
         ~StopAt(s, i), \A t \in TagsOf(m) : ~At(s, t, i)
  PROVE  /\ Ahead(s, i, m).out = Delta(<<s[i]>>, Kind(m)) \o Ahead(s, i + 1, m).out
         /\ Ahead(s, i, m).calls = Ahead(s, i + 1, m).calls
<1>1. PICK l \in Nat, n \in Int : Len(s) = l /\ n = l - i + 1
  BY LenProperties
<1>2. l - n + 1 = i /\ n # 0 /\ l - (i + 1) + 1 = n - 1 /\ i + 1 \in 1..(l + 1)
  BY <1>1
<1>3. Ahead(s, i, m) = RemainingOf(s, Shown(s), n, m)
  BY <1>1, AheadUnfold
<1>4. PICK r : r = Shown(s)[n - 1][m]
  OBVIOUS
<1>5. r = Ahead(s, i + 1, m) /\ r \in Shows
  <2>1. r = Ahead(s, i + 1, m)
    BY <1>1, <1>2, <1>4 DEF Ahead
  <2>2. QED
    BY <1>1, <1>2, <2>1, AheadType
<1>6. /\ ~(m = "reasoning" /\ At(s, ThinkClose, i))
      /\ ~(m = "content" /\ (At(s, ThinkOpen, i) \/ At(s, ToolOpen, i)))
  BY DEF TagsOf
<1>7. RemainingOf(s, Shown(s), n, m) = [r EXCEPT !.out = Delta(<<s[i]>>, Kind(m)) \o @]
  BY <1>1, <1>2, <1>4, <1>6 DEF RemainingOf, StopAt
<1>8. QED
  BY <1>3, <1>5, <1>7 DEF Shows

\* No stop sequence and no tag of the mode begins at places i to j - 1.
Free(s, i, j, m) ==
  \A k \in i..(j - 1) : ~StopAt(s, k) /\ \A t \in TagsOf(m) : ~At(s, t, k)

\* All of them are shown.
LEMMA Skip ==
  ASSUME NEW s \in Seq(Symbols), NEW i \in Nat, NEW j \in Nat, 1 <= i, i <= j, j <= Len(s) + 1,
         NEW m \in Modes, Free(s, i, j, m)
  PROVE  /\ Ahead(s, i, m).out = Delta(SubSeq(s, i, j - 1), Kind(m)) \o Ahead(s, j, m).out
         /\ Ahead(s, i, m).calls = Ahead(s, j, m).calls
<1>1. PICK l \in Nat : Len(s) = l /\ j - 1 \in Nat
  BY LenProperties
<1> DEFINE all(k) == /\ Ahead(s, k, m).out = Delta(SubSeq(s, k, j - 1), Kind(m)) \o Ahead(s, j, m).out
                     /\ Ahead(s, k, m).calls = Ahead(s, j, m).calls
           bad == {d \in 0..(j - i) : ~all(j - d)}
<1> HIDE DEF all
<1>2. SUFFICES ASSUME bad # {} PROVE FALSE
  <2>1. j - i \in 0..(j - i) /\ j - (j - i) = i
    OBVIOUS
  <2>2. all(i)
    BY <1>2, <2>1
  <2>3. QED
    BY <2>2 DEF all
<1>3. bad \subseteq Nat
  OBVIOUS
<1>4. PICK d \in bad : \A e \in bad : d <= e
  BY <1>2, <1>3, MinExists
<1>5. PICK k : k = j - d
  OBVIOUS
<1>6. k \in i..j /\ k \in 1..(l + 1) /\ ~all(k) /\ d \in 0..(j - i)
  BY <1>1, <1>4, <1>5
<1>7. d # 0 => d - 1 \in 0..(j - i) /\ d - 1 \notin bad
  BY <1>4, <1>6
<1>8. d # 0 => all(j - (d - 1))
  BY <1>7
<1> HIDE DEF bad
<1>9. PICK out, kind : out = Ahead(s, j, m).out /\ kind = Kind(m)
  OBVIOUS
<1>10. out \in Seq(Deltas) /\ kind \in Kinds
  <2>1. Ahead(s, j, m) \in Shows
    BY <1>1, AheadType
  <2>2. QED
    BY <1>9, <2>1 DEF Shows, Kind, Kinds
<1>11. CASE d = 0
  <2>1. k = j /\ k \in Int /\ k - 1 < k
    BY <1>5, <1>6, <1>11
  <2>2. SubSeq(s, k, k - 1) = <<>>
    BY <2>1, SubSeqEmpty
  <2>3. Delta(SubSeq(s, k, k - 1), kind) = <<>>
    BY <1>10, <2>2, DeltaEmpty
  <2>4. <<>> \o out = out
    BY <1>10, ConcatEmptySeq
  <2>5. QED
    BY <1>6, <1>9, <2>1, <2>3, <2>4 DEF all
<1>12. CASE d # 0
  <2>1. j - (d - 1) = k + 1 /\ k \in i..(j - 1) /\ k \in 1..l
    BY <1>1, <1>5, <1>6, <1>12
  <2>2. all(k + 1)
    BY <1>8, <1>12, <2>1
  <2>3. ~StopAt(s, k) /\ \A t \in TagsOf(m) : ~At(s, t, k)
    BY <2>1 DEF Free
  <2>4. PICK a, b : a = Delta(<<s[k]>>, kind) /\ b = Delta(SubSeq(s, k + 1, j - 1), kind)
    OBVIOUS
  <2>5. /\ Ahead(s, k, m).out = a \o Ahead(s, k + 1, m).out
        /\ Ahead(s, k, m).calls = Ahead(s, k + 1, m).calls
    BY <1>1, <1>9, <2>1, <2>3, <2>4, AheadStep
  <2>6. /\ Ahead(s, k + 1, m).out = b \o out
        /\ Ahead(s, k + 1, m).calls = Ahead(s, j, m).calls
    BY <1>9, <2>2, <2>4 DEF all
  <2>7. /\ a \in Seq(Deltas) /\ b \in Seq(Deltas)
        /\ Delta(SubSeq(s, k, j - 1), kind) = a \o b
    <3>1. j - 1 \in Nat /\ j - 1 <= Len(s) /\ k \in 1..(j - 1)
      BY <1>1, <2>1
    <3>2. QED
      BY <1>10, <2>4, <3>1, DeltaSlice
  <2>8. a \o (b \o out) = (a \o b) \o out
    <3>1. a \in Seq(Deltas) /\ b \in Seq(Deltas) /\ out \in Seq(Deltas)
      BY <1>10, <2>7
    <3>2. QED
      BY <3>1, DeltasJoin
  <2>9. Ahead(s, k, m).out = (a \o b) \o out
    BY <2>5, <2>6, <2>8, Zenon
  <2>10. QED
    BY <1>6, <1>9, <2>5, <2>6, <2>7, <2>9, Zenon DEF all
<1>13. QED
  BY <1>11, <1>12

\* What has been shown, and what is still to be: all of it.
Owes(s, full, i, m, out) ==
  full.out = out \o Ahead(s, i, m).out /\ full.calls = Ahead(s, i, m).calls

\* Showing places i to j - 1, at which nothing begins, leaves what is ahead of place j.
LEMMA Advance ==
  ASSUME NEW s \in Seq(Symbols), NEW i \in Nat, NEW j \in Nat, 1 <= i, i <= j, j <= Len(s) + 1,
         NEW m \in Modes, Free(s, i, j, m),
         NEW full, NEW out \in Seq(Deltas), Owes(s, full, i, m, out)
  PROVE  /\ out \o Delta(SubSeq(s, i, j - 1), Kind(m)) \in Seq(Deltas)
         /\ Owes(s, full, j, m, out \o Delta(SubSeq(s, i, j - 1), Kind(m)))
<1>1. PICK d, rest : d = Delta(SubSeq(s, i, j - 1), Kind(m)) /\ rest = Ahead(s, j, m).out
  OBVIOUS
<1>2. d \in Seq(Deltas) /\ rest \in Seq(Deltas)
  <2>1. PICK l \in Nat : Len(s) = l
    BY LenProperties
  <2>2. SubSeq(s, i, j - 1) \in Seq(Symbols)
    BY <2>1, SliceIs
  <2>3. d \in Seq(Deltas)
    BY <1>1, <2>2, DeltaIs DEF Kind, Kinds
  <2>4. Ahead(s, j, m) \in Shows
    BY <2>1, AheadType
  <2>5. QED
    BY <1>1, <2>3, <2>4 DEF Shows
<1>3. Ahead(s, i, m).out = d \o rest /\ Ahead(s, i, m).calls = Ahead(s, j, m).calls
  BY <1>1, Skip
<1>4. out \o (d \o rest) = (out \o d) \o rest /\ out \o d \in Seq(Deltas)
  <2>1. out \o (d \o rest) = (out \o d) \o rest
    BY <1>2, DeltasJoin
  <2>2. out \o d \in Seq(Deltas)
    BY <1>2, ConcatProperties
  <2>3. QED
    BY <2>1, <2>2
<1>5. QED
  BY <1>1, <1>3, <1>4, Zenon DEF Owes

-----------------------------------------------------------------------------
(* The window: places i to f of the text                                   *)

\* Every one of the words that begins at place i or later ends after place b.
EndAfter(s, i, words, b) ==
  \A j \in Nat, t \in words : j >= i /\ At(s, t, j) => j + Len(t) - 1 > b

\* No token ends inside a tag and goes on past it.
Pieces(s, f, e) ==
  \A j \in 1..(e - 1), t \in Tags :
    At(s, t, j) => j + Len(t) - 1 <= f \/ j + Len(t) - 1 >= e

\* The tags of a mode are tags.
LEMMA TagsOfAre ==
  \A m \in Modes : TagsOf(m) \subseteq Tags
BY DEF TagsOf, Tags

\* The window has a word where the text has it, if it ends there.
LEMMA WindowHas ==
  ASSUME NEW s \in Seq(Symbols), NEW f \in Nat, f <= Len(s), NEW i \in 1..(f + 1),
         NEW t \in Seq(Symbols), t # <<>>
  PROVE  Has(SubSeq(s, i, f), t) <=>
           \E j \in Nat : j >= i /\ At(s, t, j) /\ j + Len(t) - 1 <= f
<1>1. PICK w : w = SubSeq(s, i, f)
  OBVIOUS
<1>2. PICK l \in Nat : Len(t) = l
  BY LenProperties
<1>3. w \in Seq(Symbols)
  BY <1>1, SliceIs
<1>4. \A a \in Nat : 1 <= a => (At(w, t, a) <=> At(s, t, i + a - 1) /\ i + a + l - 2 <= f)
  BY <1>1, <1>2, AtSlice
<1>5. ASSUME NEW a \in Nat, 1 <= a, At(w, t, a)
      PROVE  \E j \in Nat : j >= i /\ At(s, t, j) /\ j + l - 1 <= f
  <2>1. i + a - 1 \in Nat /\ i + a - 1 >= i /\ (i + a - 1) + l - 1 <= f
    BY <1>4, <1>5
  <2>2. QED
    BY <1>4, <1>5, <2>1
<1>6. ASSUME NEW j \in Nat, j >= i, At(s, t, j), j + l - 1 <= f
      PROVE  \E a \in Nat : 1 <= a /\ At(w, t, a)
  <2>1. PICK a \in Nat : a = j - i + 1
    BY <1>6
  <2>2. 1 <= a /\ i + a - 1 = j /\ i + a + l - 2 <= f
    BY <1>6, <2>1
  <2>3. QED
    BY <1>4, <1>6, <2>2
<1>7. Has(w, t) <=> \E a \in Nat : 1 <= a /\ At(w, t, a)
  BY <1>3, HasIs
<1>8. QED
  BY <1>1, <1>2, <1>5, <1>6, <1>7

\* The first place of a word in the window, as a place of the text.
FoundAt(s, f, i, t, w, k) ==
  /\ k >= i /\ Find(w, t) = k - i + 1 /\ At(s, t, k) /\ k + Len(t) - 1 <= f /\ k <= f
  /\ \A j \in Nat : j >= i /\ At(s, t, j) /\ j + Len(t) - 1 <= f => k <= j
  /\ Before(w, t) = SubSeq(s, i, k - 1)
  /\ After(w, t) = SubSeq(s, k + Len(t), f)
  /\ From(w, t) = SubSeq(s, k, f)

\* str.find in the window finds the first place there is in the text.
LEMMA WindowFind ==
  ASSUME NEW s \in Seq(Symbols), NEW f \in Nat, f <= Len(s), NEW i \in 1..(f + 1),
         NEW t \in Seq(Symbols), t # <<>>, NEW w, w = SubSeq(s, i, f), Has(w, t)
  PROVE  \E k \in Nat : FoundAt(s, f, i, t, w, k)
<1>1. PICK l \in Nat : Len(t) = l
  BY LenProperties
<1>2. w \in Seq(Symbols) /\ Len(w) = f - i + 1
  BY SliceIs
<1>3. \A a \in Nat : 1 <= a => (At(w, t, a) <=> At(s, t, i + a - 1) /\ i + a + l - 2 <= f)
  BY <1>1, AtSlice
<1>4. PICK a : a = Find(w, t)
  OBVIOUS
<1>5. /\ a \in 1..(f - i + 1) /\ At(w, t, a)
      /\ \A b \in Nat : 1 <= b /\ At(w, t, b) => a <= b
  BY <1>2, <1>4, FindIs
<1>6. a + l - 1 <= f - i + 1 /\ l >= 1
  <2>1. a \in Nat /\ 1 <= a /\ At(w, t, a) /\ w \in Seq(Symbols)
    BY <1>2, <1>5
  <2>2. a + Len(t) - 1 <= Len(w) /\ Len(t) >= 1
    BY <2>1, AtEnds
  <2>3. QED
    BY <1>1, <1>2, <2>2
<1>7. PICK k \in Nat : k = i + a - 1
  BY <1>5
<1>8. k >= i /\ a = k - i + 1 /\ At(s, t, k) /\ k + l - 1 <= f /\ k <= f
  BY <1>3, <1>5, <1>6, <1>7
<1>9. ASSUME NEW j \in Nat, j >= i, At(s, t, j), j + l - 1 <= f PROVE k <= j
  <2>1. PICK b \in Nat : b = j - i + 1
    BY <1>9
  <2>2. 1 <= b /\ i + b - 1 = j /\ i + b + l - 2 <= f
    BY <1>9, <2>1
  <2>3. At(w, t, b)
    BY <1>3, <1>9, <2>2
  <2>4. QED
    BY <1>5, <1>7, <2>1, <2>2, <2>3
<1>10. Before(w, t) = SubSeq(s, i, k - 1)
  <2>1. a - 1 \in Nat /\ a - 1 <= f - i + 1 /\ 1 <= (a - 1) + 1
        /\ i + 1 - 1 = i /\ i + (a - 1) - 1 = k - 1
    BY <1>5, <1>7
  <2>2. PICK c \in Nat, d \in Nat : c = 1 /\ d = a - 1
    BY <2>1
  <2>3. 1 <= c /\ d <= f - i + 1 /\ c <= d + 1 /\ i \in Nat /\ 1 <= i /\ i <= f + 1
    BY <2>1, <2>2
  <2>4. SubSeq(w, c, d) = SubSeq(s, i + c - 1, i + d - 1)
    BY <2>3, SliceSlice
  <2>5. QED
    BY <1>4, <2>1, <2>2, <2>4 DEF Before
<1>11. After(w, t) = SubSeq(s, k + l, f)
  <2>1. PICK c \in Nat, d \in Nat : c = a + l /\ d = f - i + 1
    BY <1>5
  <2>2. 1 <= c /\ d <= f - i + 1 /\ c <= d + 1 /\ i + c - 1 = k + l /\ i + d - 1 = f
    BY <1>5, <1>6, <1>7, <2>1
  <2>3. SubSeq(w, c, d) = SubSeq(s, i + c - 1, i + d - 1)
    BY <2>2, SliceSlice
  <2>4. QED
    BY <1>1, <1>2, <1>4, <2>1, <2>2, <2>3 DEF After
<1>12. From(w, t) = SubSeq(s, k, f)
  <2>1. PICK d \in Nat : d = f - i + 1
    BY <1>5
  <2>2. a \in Nat /\ 1 <= a /\ d <= f - i + 1 /\ a <= d + 1 /\ i + a - 1 = k /\ i + d - 1 = f
    BY <1>5, <1>6, <1>7, <2>1
  <2>3. SubSeq(w, a, d) = SubSeq(s, i + a - 1, i + d - 1)
    BY <2>2, SliceSlice
  <2>4. QED
    BY <1>2, <1>4, <2>1, <2>2, <2>3 DEF From
<1>13. QED
  BY <1>1, <1>4, <1>8, <1>9, <1>10, <1>11, <1>12 DEF FoundAt

\* No stop sequence in the window, none ends there.
LEMMA NoStop ==
  ASSUME NEW s \in Seq(Symbols), NEW f \in Nat, f <= Len(s), NEW i \in 1..(f + 1),
         ~Stopped(SubSeq(s, i, f))
  PROVE  EndAfter(s, i, Stops, f)
<1> SUFFICES ASSUME NEW j \in Nat, NEW t \in Stops, j >= i, At(s, t, j), ~(j + Len(t) - 1 > f)
             PROVE  FALSE
  BY DEF EndAfter
<1>1. t \in Seq(Symbols) /\ t # <<>>
  BY TagsAre
<1>2. PICK l \in Nat : Len(t) = l
  BY <1>1, LenProperties
<1>3. j + l - 1 <= f
  BY <1>2
<1>4. Has(SubSeq(s, i, f), t)
  BY <1>1, <1>2, <1>3, WindowHas
<1>5. QED
  BY <1>4 DEF Stopped

\* With no tag of the mode in the window they end later still.
LEMMA NoTag ==
  ASSUME NEW s \in Seq(Symbols), NEW f \in Nat, f <= Len(s), NEW i \in 1..(f + 1),
         NEW m \in Modes, EndAfter(s, i, TagsOf(m), f - 1),
         \A t \in TagsOf(m) : ~Has(SubSeq(s, i, f), t)
  PROVE  EndAfter(s, i, TagsOf(m), f)
<1> SUFFICES ASSUME NEW j \in Nat, NEW t \in TagsOf(m), j >= i, At(s, t, j), ~(j + Len(t) - 1 > f)
             PROVE  FALSE
  BY DEF EndAfter
<1>1. t \in Seq(Symbols) /\ t # <<>>
  BY TagsAre, TagsOfAre
<1>2. PICK l \in Nat : Len(t) = l
  BY <1>1, LenProperties
<1>3. j + l - 1 <= f
  BY <1>2
<1>4. Has(SubSeq(s, i, f), t)
  BY <1>1, <1>2, <1>3, WindowHas
<1>5. QED
  BY <1>4

\* A token more.
LEMMA MoreTags ==
  ASSUME NEW s \in Seq(Symbols), NEW f \in Nat, NEW e \in Nat, f <= e,
         NEW i \in 1..(f + 1), NEW m \in Modes, Pieces(s, f, e), EndAfter(s, i, TagsOf(m), f)
  PROVE  EndAfter(s, i, TagsOf(m), e - 1)
<1> SUFFICES ASSUME NEW j \in Nat, NEW t \in TagsOf(m), j >= i, At(s, t, j)
             PROVE  j + Len(t) - 1 > e - 1
  BY DEF EndAfter
<1>1. t \in Seq(Symbols) /\ t # <<>> /\ t \in Tags
  BY TagsAre, TagsOfAre
<1>2. PICK l \in Nat : Len(t) = l /\ l >= 1
  BY <1>1, AtEnds
<1>3. j + l - 1 > f
  BY <1>2 DEF EndAfter
<1>4. CASE j >= e
  BY <1>2, <1>4
<1>5. CASE j < e
  <2>1. j \in 1..(e - 1)
    BY <1>5
  <2>2. j + l - 1 <= f \/ j + l - 1 >= e
    BY <1>1, <1>2, <2>1 DEF Pieces
  <2>3. QED
    BY <1>2, <1>3, <2>2
<1>6. QED
  BY <1>4, <1>5

\* Nothing begins in what the holdback releases.
LEMMA ShowFree ==
  ASSUME NEW s \in Seq(Symbols), NEW f \in Nat, f <= Len(s), NEW i \in 1..(f + 1),
         NEW m \in Modes, EndAfter(s, i, Stops, f), EndAfter(s, i, TagsOf(m), f),
         NEW c \in Nat, c = (f - i + 1) - HOLDBACK
  PROVE  Free(s, i, i + c, m)
<1>1. PICK h \in Nat : h = HOLDBACK
  BY HoldbackIs
<1>2. ASSUME NEW k \in i..(i + c - 1), NEW t \in Tags \cup Stops, At(s, t, k), k + Len(t) - 1 > f
      PROVE  FALSE
  <2>1. PICK l \in Nat : l = Len(t) /\ l <= h
    BY <1>1, HoldbackIs
  <2>2. QED
    BY <1>1, <1>2, <2>1
<1>3. ASSUME NEW k \in i..(i + c - 1)
      PROVE  ~StopAt(s, k) /\ \A t \in TagsOf(m) : ~At(s, t, k)
  <2>1. k \in Nat /\ k >= i
    OBVIOUS
  <2>2. \A t \in Stops : At(s, t, k) => k + Len(t) - 1 > f
    BY <2>1 DEF EndAfter
  <2>3. \A t \in TagsOf(m) : At(s, t, k) => k + Len(t) - 1 > f
    BY <2>1 DEF EndAfter
  <2>4. QED
    BY <1>2, <2>2, <2>3, TagsOfAre DEF StopAt
<1>4. QED
  BY <1>3 DEF Free

\* Words that cannot touch do not overlap.
LEMMA Separate ==
  ASSUME NEW s \in Seq(Symbols), NEW t \in Seq(Symbols), NEW u \in Seq(Symbols),
         t # <<>>, u # <<>>, ~Touch(t, u) \/ ~Touch(u, t),
         NEW i \in Nat, NEW j \in Nat, 1 <= i, 1 <= j, At(s, t, i), At(s, u, j)
  PROVE  i > j + Len(u) - 1 \/ j > i + Len(t) - 1
<1>1. PICK a \in Nat, b \in Nat : Len(t) = a /\ Len(u) = b
  BY LenProperties
<1>2. ~(i <= j + b - 1 /\ j <= i + a - 1)
  BY <1>1, Overlap
<1>3. QED
  BY <1>1, <1>2

\* The tags of a mode cannot overlap, nor a tag and a stop sequence.
LEMMA ApartIs ==
  ASSUME Apart
  PROVE  /\ \A m \in Modes : \A t, u \in TagsOf(m) : t # u => ~Touch(t, u) \/ ~Touch(u, t)
         /\ \A t \in Stops, u \in Tags : ~Touch(t, u)
         /\ \A t, u \in Stops : ~Inside(t, u)
BY DEF Apart, TagsOf

\* A tag in the window is at its end, and nothing begins before it.
TagAt(s, f, i, m, t, w, k) ==
  /\ k >= i /\ k <= f /\ k + Len(t) = f + 1 /\ At(s, t, k)
  /\ Free(s, i, k, m) /\ ~StopAt(s, k) /\ \A u \in TagsOf(m) : u # t => ~At(s, u, k)
  /\ Before(w, t) = SubSeq(s, i, k - 1) /\ After(w, t) = <<>>
  /\ From(w, t) = SubSeq(s, k, f)

\* Wherever the window has a tag.
LEMMA TagFound ==
  ASSUME Apart, NEW s \in Seq(Symbols), NEW f \in Nat, f <= Len(s), NEW i \in 1..(f + 1),
         NEW m \in Modes, EndAfter(s, i, Stops, f), EndAfter(s, i, TagsOf(m), f - 1),
         NEW t \in TagsOf(m), NEW w, w = SubSeq(s, i, f), Has(w, t)
  PROVE  \E k \in Nat : TagAt(s, f, i, m, t, w, k)
<1>1. t \in Seq(Symbols) /\ t # <<>> /\ t \in Tags
  BY TagsAre, TagsOfAre
<1>2. PICK k \in Nat :
        /\ k >= i /\ At(s, t, k) /\ k + Len(t) - 1 <= f /\ k <= f
        /\ Before(w, t) = SubSeq(s, i, k - 1) /\ After(w, t) = SubSeq(s, k + Len(t), f)
        /\ From(w, t) = SubSeq(s, k, f)
  <2>1. \E k \in Nat : FoundAt(s, f, i, t, w, k)
    BY <1>1, WindowFind
  <2>2. QED
    BY <2>1 DEF FoundAt
<1>3. PICK l \in Nat : Len(t) = l /\ l >= 1
  BY <1>1, <1>2, AtEnds
<1>4. k + l = f + 1
  <2>1. k + Len(t) - 1 > f - 1
    BY <1>2 DEF EndAfter
  <2>2. QED
    BY <1>2, <1>3, <2>1
<1>5. SubSeq(s, k + l, f) = <<>>
  BY <1>4, SubSeqEmpty
<1>6. ASSUME NEW q \in i..k, NEW u \in Stops, At(s, u, q) PROVE FALSE
  <2>1. u \in Seq(Symbols) /\ u # <<>> /\ ~Touch(u, t)
    BY <1>1, TagsAre, ApartIs
  <2>2. PICK a \in Nat : Len(u) = a
    BY <2>1, LenProperties
  <2>3. q \in Nat /\ q >= i /\ 1 <= q /\ 1 <= k
    BY <1>2
  <2>4. q + a - 1 > f
    BY <1>6, <2>2, <2>3 DEF EndAfter
  <2>5. q > k + l - 1 \/ k > q + a - 1
    BY <1>1, <1>2, <1>3, <1>6, <2>1, <2>2, <2>3, Separate
  <2>6. QED
    BY <1>2, <1>3, <1>4, <2>3, <2>4, <2>5
<1>7. ASSUME NEW q \in i..k, NEW u \in TagsOf(m), u # t, At(s, u, q) PROVE FALSE
  <2>1. u \in Seq(Symbols) /\ u # <<>> /\ (~Touch(u, t) \/ ~Touch(t, u))
    BY <1>7, TagsAre, TagsOfAre, ApartIs
  <2>2. PICK a \in Nat : Len(u) = a
    BY <2>1, LenProperties
  <2>3. q \in Nat /\ q >= i /\ 1 <= q /\ 1 <= k
    BY <1>2
  <2>4. q + a - 1 > f - 1
    BY <1>7, <2>2, <2>3 DEF EndAfter
  <2>5. q > k + l - 1 \/ k > q + a - 1
    BY <1>1, <1>2, <1>3, <1>7, <2>1, <2>2, <2>3, Separate
  <2>6. QED
    BY <1>2, <1>3, <1>4, <2>3, <2>4, <2>5
<1>8. ASSUME NEW q \in i..(k - 1), At(s, t, q) PROVE FALSE
  <2>1. q \in Nat /\ q >= i
    BY <1>2
  <2>2. q + l - 1 > f - 1
    BY <1>3, <1>8, <2>1 DEF EndAfter
  <2>3. QED
    BY <1>2, <1>4, <2>1, <2>2
<1>9. Free(s, i, k, m)
  <2>1. ASSUME NEW q \in i..(k - 1)
        PROVE  ~StopAt(s, q) /\ \A u \in TagsOf(m) : ~At(s, u, q)
    <3>1. q \in i..k
      BY <1>2
    <3>2. QED
      BY <1>6, <1>7, <1>8, <3>1 DEF StopAt
  <2>2. QED
    BY <2>1 DEF Free
<1>10. k \in i..k
  BY <1>2
<1>11. ~StopAt(s, k) /\ \A u \in TagsOf(m) : u # t => ~At(s, u, k)
  BY <1>6, <1>7, <1>10 DEF StopAt
<1>12. QED
  BY <1>2, <1>3, <1>4, <1>5, <1>9, <1>11 DEF TagAt

\* A stop sequence in the window: nothing begins before it.
FirstStop(s, i, e, m, w, k) ==
  /\ k >= i /\ k <= e /\ Free(s, i, k, m) /\ StopAt(s, k)
  /\ SubSeq(w, 1, first_stop_match(w) - 1) = SubSeq(s, i, k - 1)

\* Wherever the window has a stop sequence.
LEMMA StopFound ==
  ASSUME Apart, NEW s \in Seq(Symbols), NEW f \in Nat, NEW e \in Nat, f <= e, e <= Len(s),
         NEW i \in 1..(f + 1), NEW m \in Modes, Pieces(s, f, e),
         EndAfter(s, i, TagsOf(m), f), NEW w, w = SubSeq(s, i, e), Stopped(w)
  PROVE  \E k \in Nat : FirstStop(s, i, e, m, w, k)
<1>1. i \in 1..(e + 1) /\ i \in Nat /\ 1 <= i
  OBVIOUS
<1>2. w \in Seq(Symbols) /\ Len(w) = e - i + 1
  BY <1>1, SliceIs
<1> DEFINE T == {Find(w, t) : t \in {u \in Stops : Has(w, u)}}
<1>3. \A t \in Stops : t \in Seq(Symbols) /\ t # <<>>
  BY TagsAre
<1>4. \A t \in Stops : Has(w, t) => Find(w, t) \in 1..Len(w)
  BY <1>2, <1>3, FindIs
<1>5. T \subseteq Nat /\ T # {}
  BY <1>2, <1>4 DEF Stopped
<1>6. PICK a \in Nat : a = first_stop_match(w) /\ a \in T /\ \A b \in T : a <= b
  BY <1>5, MinIs DEF first_stop_match
<1>7. PICK t \in Stops : Has(w, t) /\ Find(w, t) = a
  BY <1>6
<1>8. PICK k \in Nat :
        /\ k >= i /\ Find(w, t) = k - i + 1 /\ At(s, t, k) /\ k + Len(t) - 1 <= e /\ k <= e
        /\ Before(w, t) = SubSeq(s, i, k - 1)
  <2>1. \E k \in Nat : FoundAt(s, e, i, t, w, k)
    BY <1>1, <1>3, <1>7, WindowFind
  <2>2. QED
    BY <2>1 DEF FoundAt
<1>9. PICK l \in Nat : Len(t) = l /\ l >= 1
  BY <1>1, <1>3, <1>8, AtEnds
<1> HIDE DEF T
<1>10. ASSUME NEW q \in i..(k - 1), NEW u \in Stops, At(s, u, q) PROVE FALSE
  <2>1. q \in Nat /\ q >= i /\ 1 <= q /\ 1 <= k /\ q < k
    BY <1>1, <1>8
  <2>2. PICK b \in Nat : Len(u) = b
    BY <1>3, LenProperties
  <2>3. CASE q + b - 1 <= e
    <3>1. Has(w, u)
      BY <1>1, <1>3, <1>10, <2>1, <2>2, <2>3, WindowHas
    <3>2. PICK j \in Nat : Find(w, u) = j - i + 1 /\ j <= q
      <4>1. PICK j \in Nat : FoundAt(s, e, i, u, w, j)
        BY <1>1, <1>3, <3>1, WindowFind
      <4>2. Find(w, u) = j - i + 1 /\ j <= q
        BY <1>10, <2>1, <2>2, <2>3, <4>1 DEF FoundAt
      <4>3. QED
        BY <4>2
    <3>3. Find(w, u) \in T
      BY <3>1 DEF T
    <3>4. a <= j - i + 1
      BY <1>6, <3>2, <3>3
    <3>5. QED
      BY <1>1, <1>7, <1>8, <2>1, <3>2, <3>4
  <2>4. CASE q + b - 1 > e
    <3>1. k + l < q + b
      BY <1>8, <1>9, <2>1, <2>4
    <3>2. Inside(u, t)
      BY <1>3, <1>8, <1>9, <1>10, <2>1, <2>2, <3>1, Nested
    <3>3. QED
      BY <3>2, ApartIs
  <2>5. QED
    BY <2>1, <2>3, <2>4
<1>11. ASSUME NEW q \in i..(k - 1), NEW u \in TagsOf(m), At(s, u, q) PROVE FALSE
  <2>1. q \in Nat /\ q >= i /\ 1 <= q /\ 1 <= k /\ q < k
    BY <1>1, <1>8
  <2>2. u \in Seq(Symbols) /\ u # <<>> /\ u \in Tags /\ ~Touch(t, u)
    BY TagsAre, TagsOfAre, ApartIs
  <2>3. PICK b \in Nat : Len(u) = b
    BY <2>2, LenProperties
  <2>4. EndAfter(s, i, TagsOf(m), e - 1)
    BY MoreTags
  <2>5. q + b - 1 > e - 1
    BY <1>11, <2>1, <2>3, <2>4 DEF EndAfter
  <2>6. k > q + b - 1 \/ q > k + l - 1
    BY <1>3, <1>8, <1>9, <1>11, <2>1, <2>2, <2>3, Separate
  <2>7. QED
    BY <1>8, <1>9, <2>1, <2>5, <2>6
<1>12. Free(s, i, k, m)
  BY <1>10, <1>11 DEF Free, StopAt
<1>13. StopAt(s, k)
  BY <1>8 DEF StopAt
<1>14. SubSeq(w, 1, a - 1) = SubSeq(s, i, k - 1)
  BY <1>7, <1>8 DEF Before
<1>15. QED
  BY <1>6, <1>8, <1>12, <1>13, <1>14 DEF FirstStop

-----------------------------------------------------------------------------
(* The inductive invariant                                                 *)

Parsers == [mode : Modes \cup {"tool_buffer"}, window : Seq(Symbols), buffer : Seq(Symbols),
            out : Seq(Deltas), calls : Seq(Seq(Symbols))]

\* Outside tool calls the window begins at place i: no stop sequence or tag of the mode
\* that begins there or later has ended (but for a tag at the very end, which is yet to
\* be looked for), and what the reference shows from there on completes what is shown.
Waits(i) ==
  /\ parser.window = SubSeq(text, i, fed)
  /\ EndAfter(text, i, Stops, fed)
  /\ EndAfter(text, i, TagsOf(parser.mode), IF phase = "reading" THEN fed ELSE fed - 1)
  /\ Owes(text, Reference, i, parser.mode, parser.out)

\* In a tool call, which began at place k.
Collects(k) ==
  /\ parser.buffer \o parser.window = SubSeq(text, k, fed)
  /\ phase = "reading" => parser.window = <<>>
  /\ Reference.out = parser.out \o Called(text, k).out
  /\ Reference.calls = Called(text, k).calls

Inv ==
  /\ text \in Texts /\ thinking \in BOOLEAN /\ fed \in 0..Len(text) /\ parser \in Parsers
  /\ phase \in {"reading", "scanning", "stopped", "ended"}
  /\ phase \in {"reading", "scanning"} =>
       /\ parser.calls = <<>>
       /\ parser.mode \in Modes => \E i \in 1..(fed + 1) : Waits(i)
       /\ parser.mode = "tool_buffer" => \E k \in 1..fed : Collects(k)
  /\ phase \in {"stopped", "ended"} =>
       parser.out = Reference.out /\ parser.calls = Reference.calls

\* Two adjacent slices are one.
LEMMA SliceConcat ==
  ASSUME NEW s \in Seq(Symbols), NEW f \in Nat, NEW e \in Nat, f <= e, e <= Len(s),
         NEW i \in 1..(f + 1)
  PROVE  SubSeq(s, i, f) \o SubSeq(s, f + 1, e) = SubSeq(s, i, e)
<1>1. PICK n \in Nat : Len(s) = n
  BY LenProperties
<1>2. PICK a, b, c : a = SubSeq(s, i, f) /\ b = SubSeq(s, f + 1, e) /\ c = SubSeq(s, i, e)
  OBVIOUS
<1>3. /\ a \in Seq(Symbols) /\ Len(a) = f - i + 1
      /\ \A j \in 1..(f - i + 1) : a[j] = s[i + j - 1]
  <2>1. i \in Nat /\ 1 <= i /\ f <= Len(s) /\ i <= f + 1
    BY <1>1
  <2>2. QED
    BY <1>2, <2>1, SliceIs
<1>4. /\ b \in Seq(Symbols) /\ Len(b) = e - (f + 1) + 1
      /\ \A j \in 1..(e - (f + 1) + 1) : b[j] = s[(f + 1) + j - 1]
  <2>1. f + 1 \in Nat /\ 1 <= f + 1 /\ f + 1 <= e + 1
    OBVIOUS
  <2>2. QED
    BY <1>1, <1>2, <2>1, SliceIs
<1>5. /\ c \in Seq(Symbols) /\ Len(c) = e - i + 1
      /\ \A j \in 1..(e - i + 1) : c[j] = s[i + j - 1]
  <2>1. i \in Nat /\ 1 <= i /\ e <= Len(s) /\ i <= e + 1
    BY <1>1
  <2>2. QED
    BY <1>2, <2>1, SliceIs
<1>6. PICK d : d = a \o b
  OBVIOUS
<1>7. /\ d \in Seq(Symbols) /\ Len(d) = Len(a) + Len(b)
      /\ \A j \in 1..(Len(a) + Len(b)) : d[j] = IF j <= Len(a) THEN a[j] ELSE b[j - Len(a)]
  <2>1. a \in Seq(Symbols) /\ b \in Seq(Symbols)
    BY <1>3, <1>4
  <2>2. QED
    BY <1>6, <2>1, ConcatProperties
<1>8. Len(d) = e - i + 1
  BY <1>3, <1>4, <1>7
<1>9. ASSUME NEW j \in 1..(e - i + 1) PROVE d[j] = c[j]
  <2>1. CASE j <= f - i + 1
    <3>1. j \in 1..(f - i + 1) /\ j \in 1..(Len(a) + Len(b)) /\ j <= Len(a)
      BY <1>3, <1>4, <2>1
    <3>2. d[j] = a[j]
      BY <1>7, <3>1
    <3>3. QED
      BY <1>3, <1>5, <3>1, <3>2
  <2>2. CASE j > f - i + 1
    <3>1. PICK h : h = j - (f - i + 1)
      OBVIOUS
    <3>2. h \in 1..(e - (f + 1) + 1) /\ (f + 1) + h - 1 = i + j - 1
      BY <2>2, <3>1
    <3>3. d[j] = b[h]
      BY <1>3, <1>4, <1>7, <2>2, <3>1
    <3>4. QED
      BY <1>4, <1>5, <3>2, <3>3
  <2>3. QED
    BY <2>1, <2>2
<1>10. d = c
  BY <1>5, <1>7, <1>8, <1>9, SeqEqual
<1>11. QED
  BY <1>2, <1>6, <1>10

\* Showing a slice.
LEMMA EmitIs ==
  ASSUME NEW p \in Parsers, NEW x, NEW out, out = p.out \o Delta(x, Kind(p.mode)),
         out \in Seq(Deltas)
  PROVE  Emit(p, x) = [p EXCEPT !.out = out] /\ Emit(p, x) \in Parsers
BY DEF Emit, Parsers

\* What is shown and what is left in the window.
Put(p, out, w) == [[p EXCEPT !.out = out] EXCEPT !.window = w]

\* It changes nothing else.
LEMMA PutIs ==
  ASSUME NEW p \in Parsers, NEW out \in Seq(Deltas), NEW w \in Seq(Symbols)
  PROVE  /\ Put(p, out, w) \in Parsers /\ Put(p, out, w).out = out /\ Put(p, out, w).window = w
         /\ Put(p, out, w).mode = p.mode /\ Put(p, out, w).buffer = p.buffer
         /\ Put(p, out, w).calls = p.calls
BY DEF Parsers, Put

\* Nothing is owed any more.
LEMMA Paid ==
  ASSUME NEW s \in Seq(Symbols), NEW i \in 1..(Len(s) + 1), NEW m \in Modes,
         i = Len(s) + 1 \/ StopAt(s, i), NEW full, NEW out \in Seq(Deltas),
         Owes(s, full, i, m, out)
  PROVE  full.out = out /\ full.calls = <<>>
<1>1. Ahead(s, i, m).out = <<>> /\ Ahead(s, i, m).calls = <<>>
  BY AheadStop DEF Nothing
<1>2. out \o <<>> = out
  BY ConcatEmptySeq
<1>3. QED
  BY <1>1, <1>2, Zenon DEF Owes

\* Nothing is shown at first, and everything is ahead.
LEMMA InitInv ==
  ASSUME Init PROVE Inv
<1>1. text \in Seq(Symbols) /\ text \in Texts
  BY TagsAre DEF Init
<1>2. PICK l \in Nat : Len(text) = l
  BY <1>1, LenProperties
<1>3. PICK m \in Modes : parser.mode = m /\ m = IF thinking THEN "reasoning" ELSE "content"
  BY DEF Init, Modes
<1>4. /\ fed = 0 /\ parser.window = <<>> /\ parser.out = <<>> /\ parser.calls = <<>>
      /\ phase = "reading" /\ thinking \in BOOLEAN
  BY DEF Init
<1>5. parser \in Parsers
  BY DEF Init, Parsers, Modes
<1>6. Reference = Ahead(text, 1, m)
  <2>1. l - 1 + 1 = l
    OBVIOUS
  <2>2. QED
    BY <1>2, <1>3, <2>1, RemainingDef DEF Reference, Ahead
<1>7. Ahead(text, 1, m).out \in Seq(Deltas)
  <2>1. 1 \in 1..(Len(text) + 1)
    BY <1>2
  <2>2. QED
    BY <1>1, <2>1, AheadType DEF Shows
<1>8. Owes(text, Reference, 1, m, <<>>)
  <2>1. <<>> \o Ahead(text, 1, m).out = Ahead(text, 1, m).out
    BY <1>7, ConcatEmptySeq
  <2>2. QED
    BY <1>6, <2>1 DEF Owes
<1>9. \A t \in Tags \cup Stops : t \in Seq(Symbols) /\ t # <<>>
  BY TagsAre
<1>10. \A words \in {Stops, TagsOf(m)} : EndAfter(text, 1, words, 0)
  <2> SUFFICES ASSUME NEW j \in Nat, NEW t \in Tags \cup Stops, j >= 1, At(text, t, j)
               PROVE  j + Len(t) - 1 > 0
    BY TagsOfAre DEF EndAfter
  <2>1. PICK k \in Nat : Len(t) = k /\ k >= 1
    BY <1>1, <1>9, AtEnds
  <2>2. QED
    BY <2>1
<1>11. SubSeq(text, 1, 0) = <<>>
  BY SubSeqEmpty
<1>12. Waits(1)
  BY <1>3, <1>4, <1>8, <1>10, <1>11 DEF Waits
<1>13. parser.mode # "tool_buffer"
  BY <1>3 DEF Modes
<1>14. QED
  BY <1>1, <1>2, <1>4, <1>5, <1>12, <1>13 DEF Inv

\* The reference stays while the text does.
LEMMA ReferenceStays ==
  ASSUME text' = text, thinking' = thinking
  PROVE  Reference' = Reference
BY DEF Reference

\* A token: a stop sequence ends the response, or the window grows.
LEMMA TokenKeeps ==
  ASSUME Apart, Inv, NEW n \in 1..MaxPiece, Token(n)
  PROVE  Inv'
<1>1. PICK s, f, e, r : s = text /\ f = fed /\ e = fed + n /\ r = Reference
  OBVIOUS
<1>2. /\ s \in Seq(Symbols) /\ s \in Texts /\ thinking \in BOOLEAN /\ parser \in Parsers
      /\ phase = "reading" /\ parser.calls = <<>>
  BY <1>1, TagsAre DEF Inv, Token
<1>3. f \in Nat /\ e \in Nat /\ f <= e /\ e <= Len(s) /\ f <= Len(s) /\ e \in 1..Len(s) /\ n >= 1
  <2>1. n \in Nat /\ n >= 1
    BY TextAssumption
  <2>2. Len(s) \in Nat
    BY <1>2, LenProperties
  <2>3. f \in 0..Len(s) /\ e <= Len(s)
    BY <1>1 DEF Inv, Token, IsPiece
  <2>4. QED
    BY <1>1, <2>1, <2>2, <2>3
<1>4. Pieces(s, f, e)
  <2>1. Pieces(text, fed, fed + n)
    <3>1. IsPiece(n)
      BY Zenon DEF Token
    <3>2. (fed + n) - 1 = fed + n - 1
      BY <1>1, <1>3, TextAssumption
    <3>3. QED
      BY <3>1, <3>2 DEF IsPiece, Pieces
  <2>2. QED
    BY <1>1, <2>1, Zenon
<1>5. text' = s /\ fed' = e /\ thinking' = thinking /\ Reference' = r
  BY <1>1, ReferenceStays DEF Token
<1>6. PICK w, p : /\ w = parser.window \o SubSeq(s, f + 1, e)
                  /\ p = [parser EXCEPT !.window = w]
  OBVIOUS
<1>7. IF p.mode # "tool_buffer" /\ Stopped(p.window)
      THEN /\ parser' = [Emit(p, SubSeq(p.window, 1, first_stop_match(p.window) - 1))
                           EXCEPT !.window = <<>>]
           /\ phase' = "stopped"
      ELSE parser' = p /\ phase' = "scanning"
  BY <1>1, <1>6 DEF Token
<1>8. w \in Seq(Symbols)
  <2>1. SubSeq(s, f + 1, e) \in Seq(Symbols)
    BY <1>2, <1>3, SliceIs
  <2>2. parser.window \in Seq(Symbols)
    BY <1>2 DEF Parsers
  <2>3. QED
    BY <1>6, <2>1, <2>2, ConcatProperties
<1>9. /\ p \in Parsers /\ p.mode = parser.mode /\ p.window = w /\ p.out = parser.out
      /\ p.calls = parser.calls /\ p.buffer = parser.buffer
  BY <1>2, <1>6, <1>8 DEF Parsers
<1>10. CASE parser.mode \in Modes
  <2>1. PICK m \in Modes, out \in Seq(Deltas) : m = parser.mode /\ out = parser.out
    BY <1>2, <1>10 DEF Parsers
  <2>2. PICK i \in 1..(f + 1) : Waits(i)
    BY <1>1, <1>2, <1>10 DEF Inv
  <2>3. /\ parser.window = SubSeq(s, i, f) /\ EndAfter(s, i, TagsOf(m), f)
        /\ Owes(s, r, i, m, out)
    BY <1>1, <1>2, <2>1, <2>2 DEF Waits
  <2>4. w = SubSeq(s, i, e)
    BY <1>2, <1>3, <1>6, <2>3, SliceConcat
  <2>5. m # "tool_buffer"
    BY DEF Modes
  <2>6. CASE Stopped(w)
    <3>1. PICK k \in Nat :
            /\ k >= i /\ k <= e /\ Free(s, i, k, m) /\ StopAt(s, k)
            /\ SubSeq(w, 1, first_stop_match(w) - 1) = SubSeq(s, i, k - 1)
      <4>1. \E k \in Nat : FirstStop(s, i, e, m, w, k)
        BY <1>2, <1>3, <1>4, <2>3, <2>4, <2>6, StopFound
      <4>2. QED
        BY <4>1 DEF FirstStop
    <3>2. PICK d : d = out \o Delta(SubSeq(s, i, k - 1), Kind(m))
      OBVIOUS
    <3>3. d \in Seq(Deltas) /\ Owes(s, r, k, m, d)
      <4>1. i \in Nat /\ 1 <= i /\ i <= k /\ k <= Len(s) + 1
        BY <1>3, <3>1
      <4>2. QED
        BY <1>2, <2>3, <3>1, <3>2, <4>1, Advance
    <3>4. k \in 1..(Len(s) + 1)
      BY <1>3, <3>1
    <3>5. r.out = d /\ r.calls = <<>>
      BY <1>2, <3>1, <3>3, <3>4, Paid
    <3>6. Emit(p, SubSeq(s, i, k - 1)) = [p EXCEPT !.out = d] /\ [p EXCEPT !.out = d] \in Parsers
      BY <1>9, <2>1, <3>2, <3>3, EmitIs
    <3>7. parser' = Put(p, d, <<>>) /\ phase' = "stopped"
      BY <1>7, <1>9, <2>1, <2>5, <2>6, <3>1, <3>6 DEF Put
    <3>8. parser' \in Parsers /\ parser'.out = d /\ parser'.calls = <<>>
      <4>1. <<>> \in Seq(Symbols)
        OBVIOUS
      <4>2. QED
        BY <1>2, <1>9, <3>3, <3>7, <4>1, PutIs
    <3>9. QED
      BY <1>2, <1>3, <1>5, <3>5, <3>7, <3>8 DEF Inv
  <2>7. CASE ~Stopped(w)
    <3>1. parser' = p /\ phase' = "scanning"
      BY <1>7, <1>9, <2>1, <2>5, <2>7
    <3>2. EndAfter(s, i, Stops, e)
      <4>1. i \in 1..(e + 1)
        BY <1>3
      <4>2. QED
        BY <1>2, <1>3, <2>4, <2>7, <4>1, NoStop
    <3>3. EndAfter(s, i, TagsOf(m), e - 1)
      BY <1>2, <1>3, <1>4, <2>3, MoreTags
    <3>4. Waits(i)'
      BY <1>5, <1>9, <2>1, <2>3, <2>4, <3>1, <3>2, <3>3 DEF Waits
    <3>5. i \in 1..(e + 1) /\ parser'.mode # "tool_buffer" /\ parser'.calls = <<>>
      BY <1>2, <1>3, <1>9, <2>1, <2>5, <3>1
    <3>6. QED
      BY <1>2, <1>3, <1>5, <1>9, <3>1, <3>4, <3>5 DEF Inv
  <2>8. QED
    BY <2>6, <2>7
<1>11. CASE parser.mode = "tool_buffer"
  <2>1. parser' = p /\ phase' = "scanning"
    BY <1>7, <1>9, <1>11
  <2>2. PICK k \in 1..f : Collects(k)
    BY <1>1, <1>2, <1>11 DEF Inv
  <2>3. /\ parser.buffer \o parser.window = SubSeq(s, k, f) /\ parser.window = <<>>
        /\ r.out = parser.out \o Called(s, k).out /\ r.calls = Called(s, k).calls
    BY <1>1, <1>2, <2>2 DEF Collects
  <2>4. parser.buffer \o w = SubSeq(s, k, e)
    <3>1. PICK a, b : a = parser.buffer /\ b = SubSeq(s, f + 1, e)
      OBVIOUS
    <3>2. a \in Seq(Symbols) /\ b \in Seq(Symbols)
      BY <1>2, <1>3, <3>1, SliceIs DEF Parsers
    <3>3. <<>> \o b = b /\ a \o <<>> = a
      BY <3>2, ConcatEmptySeq
    <3>4. w = b /\ a = SubSeq(s, k, f)
      BY <1>6, <2>3, <3>1, <3>3
    <3>5. k \in 1..(f + 1)
      BY <1>3
    <3>6. SubSeq(s, k, f) \o SubSeq(s, f + 1, e) = SubSeq(s, k, e)
      BY <1>2, <1>3, <3>5, SliceConcat
    <3>7. QED
      BY <3>1, <3>4, <3>6
  <2>5. Collects(k)'
    BY <1>5, <1>9, <2>1, <2>3, <2>4 DEF Collects
  <2>6. k \in 1..e /\ parser'.mode = "tool_buffer" /\ parser'.calls = <<>>
    BY <1>2, <1>3, <1>9, <1>11, <2>1
  <2>7. parser'.mode \notin Modes
    BY <2>6 DEF Modes
  <2>8. QED
    BY <1>2, <1>3, <1>5, <1>9, <2>1, <2>5, <2>6, <2>7 DEF Inv
<1>12. QED
  BY <1>2, <1>10, <1>11 DEF Parsers

\* What begins after place f ends after it.
LEMMA LaterEnds ==
  ASSUME NEW s \in Seq(Symbols), NEW f \in Nat, NEW words, words \subseteq Tags \cup Stops,
         NEW b \in Int, b <= f
  PROVE  EndAfter(s, f + 1, words, b)
<1> SUFFICES ASSUME NEW j \in Nat, NEW t \in words, j >= f + 1, At(s, t, j)
             PROVE  j + Len(t) - 1 > b
  BY DEF EndAfter
<1>1. t \in Seq(Symbols) /\ t # <<>>
  BY TagsAre
<1>2. PICK l \in Nat : Len(t) = l /\ l >= 1
  BY <1>1, AtEnds
<1>3. QED
  BY <1>2

\* Up to a tag in the window everything is shown.
UpTo(i, m, t, k, d) ==
  /\ TagAt(text, fed, i, m, t, parser.window, k)
  /\ Owes(text, Reference, k, m, d)
  /\ Emit(parser, Before(parser.window, t)) = [parser EXCEPT !.out = d]

\* It is, whenever the window has a tag of the mode.
LEMMA TagShown ==
  ASSUME Apart, Inv, phase = "scanning", NEW m \in Modes, parser.mode = m,
         NEW i \in 1..(fed + 1), Waits(i), NEW t \in TagsOf(m), Has(parser.window, t)
  PROVE  \E k \in Nat, d \in Seq(Deltas) : UpTo(i, m, t, k, d)
<1>1. PICK s, f, r, w : s = text /\ f = fed /\ r = Reference /\ w = parser.window
  OBVIOUS
<1>2. s \in Seq(Symbols) /\ f \in Nat /\ f <= Len(s) /\ parser \in Parsers /\ i \in 1..(f + 1)
  <2>1. s \in Seq(Symbols)
    BY <1>1, TagsAre DEF Inv
  <2>2. Len(s) \in Nat
    BY <2>1, LenProperties
  <2>3. QED
    BY <1>1, <2>1, <2>2 DEF Inv
<1>3. /\ w = SubSeq(s, i, f) /\ EndAfter(s, i, Stops, f) /\ EndAfter(s, i, TagsOf(m), f - 1)
      /\ Owes(s, r, i, m, parser.out)
  BY <1>1 DEF Waits
<1>4. PICK k \in Nat : TagAt(s, f, i, m, t, w, k)
  BY <1>1, <1>2, <1>3, TagFound
<1>5. PICK out \in Seq(Deltas) : out = parser.out
  BY <1>2 DEF Parsers
<1>6. PICK d : d = out \o Delta(SubSeq(s, i, k - 1), Kind(m))
  OBVIOUS
<1>7. d \in Seq(Deltas) /\ Owes(s, r, k, m, d)
  <2>1. i \in Nat /\ 1 <= i /\ i <= k /\ k <= Len(s) + 1 /\ Free(s, i, k, m)
    <3>1. Len(s) \in Nat
      BY <1>2, LenProperties
    <3>2. QED
      BY <1>2, <1>4, <3>1 DEF TagAt
  <2>2. Owes(s, r, i, m, out)
    BY <1>3, <1>5
  <2>3. QED
    BY <1>2, <1>6, <2>1, <2>2, Advance
<1>8. Before(w, t) = SubSeq(s, i, k - 1)
  BY <1>4 DEF TagAt
<1>9. Emit(parser, Before(w, t)) = [parser EXCEPT !.out = d]
  <2>1. Emit(parser, Before(w, t)) =
          [parser EXCEPT !.out = parser.out \o Delta(Before(w, t), Kind(parser.mode))]
    BY DEF Emit
  <2>2. d = parser.out \o Delta(Before(w, t), Kind(parser.mode))
    BY <1>5, <1>6, <1>8
  <2>3. QED
    BY <2>1, <2>2, Zenon
<1>10. QED
  BY <1>1, <1>4, <1>7, <1>9 DEF UpTo

\* The parser after a tag of reasoning, and after the tag of a tool call.
Turn(p, out, w, m) == [[p EXCEPT !.out = out] EXCEPT !.window = w, !.mode = m]
Collect(p, out, b) ==
  [[p EXCEPT !.out = out] EXCEPT !.window = <<>>, !.buffer = b, !.mode = "tool_buffer"]

\* What is in the parser after a tag of reasoning.
LEMMA TurnIs ==
  ASSUME NEW p \in Parsers, NEW out \in Seq(Deltas), NEW w \in Seq(Symbols), NEW m \in Modes
  PROVE  /\ Turn(p, out, w, m) \in Parsers /\ Turn(p, out, w, m).out = out
         /\ Turn(p, out, w, m).window = w /\ Turn(p, out, w, m).mode = m
         /\ Turn(p, out, w, m).calls = p.calls
BY DEF Parsers, Turn

\* What is in the parser after the tag of a tool call.
LEMMA CollectIs ==
  ASSUME NEW p \in Parsers, NEW out \in Seq(Deltas), NEW b \in Seq(Symbols)
  PROVE  /\ Collect(p, out, b) \in Parsers /\ Collect(p, out, b).out = out
         /\ Collect(p, out, b).window = <<>> /\ Collect(p, out, b).mode = "tool_buffer"
         /\ Collect(p, out, b).buffer = b /\ Collect(p, out, b).calls = p.calls
<1>1. <<>> \in Seq(Symbols)
  OBVIOUS
<1>2. QED
  BY <1>1 DEF Parsers, Collect

\* Tags that are apart are different.
LEMMA TagsDiffer ==
  ASSUME Apart PROVE ThinkClose # ToolOpen /\ ThinkOpen # ToolOpen /\ ThinkOpen # ThinkClose
<1>1. ASSUME NEW t \in Tags PROVE Touch(t, t)
  <2>1. t \in Seq(Symbols) /\ t # <<>>
    BY TagsAre
  <2>2. PICK n \in Nat : Len(t) = n /\ DOMAIN t = 1..n
    BY <2>1, LenProperties
  <2>3. n # 0
    BY <2>1, <2>2, EmptySeq
  <2>4. 0 \in (1 - n)..(n - 1) /\ \A i, j \in 1..n : i = j + 0 => t[i] = t[j]
    BY <2>3
  <2>5. QED
    BY <2>2, <2>4 DEF Touch
<1>2. QED
  BY <1>1 DEF Apart, Tags

\* A tag that changes the mode.
Other(m) == IF m = "reasoning" THEN "content" ELSE "reasoning"
Turned(t, q) ==
  parser' = [Emit(parser, Before(parser.window, t)) EXCEPT
               !.window = After(parser.window, t), !.mode = q]

\* It keeps the invariant.
LEMMA TurnKeeps ==
  ASSUME Apart, Inv, phase = "scanning", phase' = "scanning",
         text' = text, thinking' = thinking, fed' = fed,
         NEW m \in Modes, NEW q \in Modes, parser.mode = m,
         NEW t \in TagsOf(m), t \in {ThinkOpen, ThinkClose}, Has(parser.window, t),
         q = Other(m), Turned(t, q)
  PROVE  Inv'
<1>1. PICK s, f, r, w : s = text /\ f = fed /\ r = Reference /\ w = parser.window
  OBVIOUS
<1>2. /\ s \in Seq(Symbols) /\ f \in Nat /\ f <= Len(s) /\ parser \in Parsers
      /\ f \in 0..Len(s) /\ parser.calls = <<>> /\ Len(s) \in Nat
  <2>1. s \in Seq(Symbols)
    BY <1>1, TagsAre DEF Inv
  <2>2. Len(s) \in Nat
    BY <2>1, LenProperties
  <2>3. QED
    BY <1>1, <2>1, <2>2 DEF Inv
<1>3. PICK i \in 1..(fed + 1) : Waits(i)
  BY DEF Inv
<1>4. PICK k \in Nat, d \in Seq(Deltas) :
        /\ TagAt(s, f, i, m, t, w, k) /\ Owes(s, r, k, m, d)
        /\ Emit(parser, Before(w, t)) = [parser EXCEPT !.out = d]
  <2>1. PICK k \in Nat, d \in Seq(Deltas) : UpTo(i, m, t, k, d)
    BY <1>3, TagShown
  <2>2. QED
    BY <1>1, <2>1 DEF UpTo
<1>5. k + Len(t) = f + 1 /\ k \in 1..(Len(s) + 1)
  BY <1>1, <1>2, <1>4 DEF TagAt
<1>6. Ahead(s, k, m) = Ahead(s, f + 1, q)
  <2>1. ~StopAt(s, k) /\ At(s, t, k)
    BY <1>4 DEF TagAt
  <2>2. /\ At(s, ThinkClose, k) =>
             Ahead(s, k, "reasoning") = Ahead(s, k + Len(ThinkClose), "content")
        /\ At(s, ThinkOpen, k) =>
             Ahead(s, k, "content") = Ahead(s, k + Len(ThinkOpen), "reasoning")
    BY <1>2, <1>5, <2>1, AheadTag
  <2>3. CASE m = "reasoning"
    <3>1. t = ThinkClose
      BY <2>3 DEF TagsOf
    <3>2. QED
      BY <1>5, <2>1, <2>2, <2>3, <3>1 DEF Other
  <2>4. CASE m = "content"
    <3>1. t \in {ThinkOpen, ToolOpen}
      BY <2>4 DEF TagsOf
    <3>2. ThinkClose # ToolOpen
      BY TagsDiffer
    <3>3. t = ThinkOpen
      BY <3>1, <3>2
    <3>4. QED
      BY <1>5, <2>1, <2>2, <2>4, <3>3 DEF Other
  <2>5. QED
    BY <2>3, <2>4 DEF Modes
<1>7. Owes(s, r, f + 1, q, d)
  BY <1>4, <1>6 DEF Owes
<1>8. After(w, t) = <<>>
  BY <1>4 DEF TagAt
<1>9. PICK x : x = After(w, t)
  OBVIOUS
<1>10. x \in Seq(Symbols) /\ d \in Seq(Deltas) /\ parser' = Turn(parser, d, x, q)
  <2>1. <<>> \in Seq(Symbols)
    OBVIOUS
  <2>2. QED
    BY <1>1, <1>4, <1>8, <1>9, <2>1 DEF Turn, Turned
<1>11. /\ parser' \in Parsers /\ parser'.out = d /\ parser'.window = <<>> /\ parser'.mode = q
       /\ parser'.calls = <<>>
  <2>1. /\ parser' \in Parsers /\ parser'.out = d /\ parser'.window = x /\ parser'.mode = q
        /\ parser'.calls = parser.calls
    BY <1>2, <1>10, TurnIs
  <2>2. QED
    BY <1>2, <1>8, <1>9, <2>1, Zenon
<1>12. EndAfter(s, f + 1, Stops, f)
  BY <1>2, LaterEnds
<1>13. EndAfter(s, f + 1, TagsOf(q), f - 1)
  BY <1>2, LaterEnds, TagsOfAre
<1>14. SubSeq(s, f + 1, f) = <<>>
  BY <1>2, SubSeqEmpty
<1>15. Reference' = r
  BY <1>1, ReferenceStays
<1>16. Waits(f + 1)'
  BY <1>1, <1>7, <1>11, <1>12, <1>13, <1>14, <1>15 DEF Waits
<1>17. q # "tool_buffer" /\ f + 1 \in 1..(f + 1)
  BY <1>2 DEF Modes
<1>18. QED
  BY <1>1, <1>2, <1>11, <1>16, <1>17 DEF Inv

\* The tool calls begin: what has come of them is collected.
Collected ==
  parser' = [Emit(parser, Before(parser.window, ToolOpen)) EXCEPT
               !.window = <<>>, !.buffer = From(parser.window, ToolOpen), !.mode = "tool_buffer"]

\* It keeps the invariant.
LEMMA CollectKeeps ==
  ASSUME Apart, Inv, phase = "scanning", phase' = "scanning",
         text' = text, thinking' = thinking, fed' = fed,
         parser.mode = "content", Has(parser.window, ToolOpen), Collected
  PROVE  Inv'
<1>1. PICK s, f, r, w, m : /\ s = text /\ f = fed /\ r = Reference /\ w = parser.window
                           /\ m = "content"
  OBVIOUS
<1>2. /\ s \in Seq(Symbols) /\ f \in Nat /\ f <= Len(s) /\ parser \in Parsers
      /\ f \in 0..Len(s) /\ parser.calls = <<>> /\ Len(s) \in Nat
  <2>1. s \in Seq(Symbols)
    BY <1>1, TagsAre DEF Inv
  <2>2. Len(s) \in Nat
    BY <2>1, LenProperties
  <2>3. QED
    BY <1>1, <2>1, <2>2 DEF Inv
<1>3. m \in Modes /\ ToolOpen \in TagsOf(m) /\ ThinkOpen \in TagsOf(m)
  BY <1>1 DEF Modes, TagsOf
<1>4. PICK i \in 1..(fed + 1) : Waits(i)
  BY <1>1, <1>3 DEF Inv
<1>5. PICK k \in Nat, d \in Seq(Deltas) :
        /\ TagAt(s, f, i, m, ToolOpen, w, k) /\ Owes(s, r, k, m, d)
        /\ Emit(parser, Before(w, ToolOpen)) = [parser EXCEPT !.out = d]
  <2>1. PICK k \in Nat, d \in Seq(Deltas) : UpTo(i, m, ToolOpen, k, d)
    BY <1>1, <1>3, <1>4, TagShown
  <2>2. QED
    BY <1>1, <2>1 DEF UpTo
<1>6. k \in 1..f /\ k \in 1..(Len(s) + 1)
  BY <1>1, <1>2, <1>5 DEF TagAt
<1>7. Ahead(s, k, m) = Called(s, k)
  <2>1. ThinkOpen # ToolOpen
    BY TagsDiffer
  <2>2. ~StopAt(s, k) /\ At(s, ToolOpen, k) /\ ~At(s, ThinkOpen, k)
    BY <1>3, <1>5, <2>1 DEF TagAt
  <2>3. Ahead(s, k, "content") = Called(s, k)
    BY <1>2, <1>6, <2>2, AheadTag
  <2>4. QED
    BY <1>1, <2>3, Zenon
<1>8. r.out = d \o Called(s, k).out /\ r.calls = Called(s, k).calls
  BY <1>5, <1>7 DEF Owes
<1>9. PICK b : b = SubSeq(s, k, f)
  OBVIOUS
<1>10. b \in Seq(Symbols) /\ From(w, ToolOpen) = b
  BY <1>2, <1>5, <1>6, <1>9, SliceIs DEF TagAt
<1>11. parser' = Collect(parser, d, b) /\ d \in Seq(Deltas)
  BY <1>1, <1>5, <1>10 DEF Collect, Collected
<1>12. /\ parser' \in Parsers /\ parser'.out = d /\ parser'.window = <<>>
       /\ parser'.mode = "tool_buffer" /\ parser'.buffer = b /\ parser'.calls = parser.calls
  BY <1>2, <1>10, <1>11, CollectIs
<1>13. b \o <<>> = b
  BY <1>10, ConcatEmptySeq
<1>14. Reference' = r
  BY <1>1, ReferenceStays
<1>15. Collects(k)'
  BY <1>1, <1>8, <1>9, <1>12, <1>13, <1>14 DEF Collects
<1>16. parser'.mode \notin Modes
  BY <1>12 DEF Modes
<1>17. QED
  BY <1>1, <1>2, <1>6, <1>12, <1>15, <1>16 DEF Inv

\* In a tool call.
LEMMA BufferKeeps ==
  ASSUME Inv, phase = "scanning", phase' = "reading",
         text' = text, thinking' = thinking, fed' = fed,
         parser.mode = "tool_buffer",
         parser' = [parser EXCEPT !.buffer = @ \o parser.window, !.window = <<>>]
  PROVE  Inv'
<1>1. PICK k \in 1..fed : Collects(k)
  BY DEF Inv
<1>2. parser \in Parsers /\ parser.calls = <<>>
  BY DEF Inv
<1>3. PICK b : b = parser.buffer \o parser.window
  OBVIOUS
<1>4. b \in Seq(Symbols)
  <2>1. parser.buffer \in Seq(Symbols) /\ parser.window \in Seq(Symbols)
    BY <1>2 DEF Parsers
  <2>2. QED
    BY <1>3, <2>1, ConcatProperties
<1>5. b \o <<>> = b
  BY <1>4, ConcatEmptySeq
<1>6. parser' = [[parser EXCEPT !.buffer = b] EXCEPT !.window = <<>>]
  BY <1>3
<1>7. /\ parser' \in Parsers /\ parser'.out = parser.out /\ parser'.window = <<>>
      /\ parser'.mode = "tool_buffer" /\ parser'.buffer = b /\ parser'.calls = <<>>
  <2>1. <<>> \in Seq(Symbols)
    OBVIOUS
  <2>2. QED
    BY <1>2, <1>4, <1>6, <2>1 DEF Parsers
<1>8. Reference' = Reference
  BY ReferenceStays
<1>9. Collects(k)'
  BY <1>1, <1>3, <1>5, <1>7, <1>8 DEF Collects
<1>10. parser'.mode \notin Modes
  BY <1>7 DEF Modes
<1>11. QED
  BY <1>7, <1>9, <1>10 DEF Inv

\* No tag: all but the holdback is shown.
LEMMA ShowKeeps ==
  ASSUME Apart, Inv, phase = "scanning", phase' = "reading",
         text' = text, thinking' = thinking, fed' = fed,
         NEW m \in Modes, parser.mode = m, \A t \in TagsOf(m) : ~Has(parser.window, t),
         parser' = Show(parser)
  PROVE  Inv'
<1>1. PICK s, f, r, w : s = text /\ f = fed /\ r = Reference /\ w = parser.window
  OBVIOUS
<1>2. /\ s \in Seq(Symbols) /\ f \in Nat /\ f <= Len(s) /\ parser \in Parsers
      /\ f \in 0..Len(s) /\ parser.calls = <<>> /\ Len(s) \in Nat
  <2>1. s \in Seq(Symbols)
    BY <1>1, TagsAre DEF Inv
  <2>2. Len(s) \in Nat
    BY <2>1, LenProperties
  <2>3. QED
    BY <1>1, <2>1, <2>2 DEF Inv
<1>3. PICK i \in 1..(f + 1) : Waits(i)
  BY <1>1 DEF Inv
<1>4. /\ w = SubSeq(s, i, f) /\ EndAfter(s, i, Stops, f) /\ EndAfter(s, i, TagsOf(m), f - 1)
      /\ Owes(s, r, i, m, parser.out)
  BY <1>1, <1>3 DEF Waits
<1>5. EndAfter(s, i, TagsOf(m), f)
  BY <1>1, <1>2, <1>4, NoTag
<1>6. w \in Seq(Symbols) /\ Len(w) = f - i + 1
  BY <1>2, <1>4, SliceIs
<1>7. PICK h \in Nat : h = HOLDBACK
  BY HoldbackIs
<1>8. Reference' = r
  BY <1>1, ReferenceStays
<1>9. m # "tool_buffer"
  BY DEF Modes
<1>10. CASE (f - i + 1) - h <= 0
  <2>1. parser' = parser
    BY <1>1, <1>6, <1>7, <1>10 DEF Show
  <2>2. Waits(i)'
    BY <1>1, <1>4, <1>5, <1>8, <2>1 DEF Waits
  <2>3. QED
    BY <1>1, <1>2, <1>9, <2>1, <2>2 DEF Inv
<1>11. CASE ~((f - i + 1) - h <= 0)
  <2>1. PICK c \in Nat : c = (f - i + 1) - h /\ c >= 1
    BY <1>2, <1>3, <1>7, <1>11
  <2>2. i + c \in 1..(f + 1) /\ i + c \in Nat /\ c <= f - i + 1 /\ i \in Nat
    BY <1>2, <1>3, <1>7, <2>1
  <2>3. PICK a, b : a = SubSeq(w, 1, c) /\ b = SubSeq(w, c + 1, Len(w))
    OBVIOUS
  <2>4. a = SubSeq(s, i, (i + c) - 1)
    <3>1. PICK g \in Nat : g = 1
      OBVIOUS
    <3>2. /\ 1 <= g /\ c <= f - i + 1 /\ g <= c + 1 /\ i \in Nat /\ 1 <= i /\ i <= f + 1
          /\ i + g - 1 = i /\ i + c - 1 = (i + c) - 1
      BY <1>2, <2>1, <2>2, <3>1
    <3>3. SubSeq(SubSeq(s, i, f), g, c) = SubSeq(s, i + g - 1, i + c - 1)
      BY <1>2, <3>2, SliceSlice
    <3>4. QED
      BY <1>4, <2>3, <3>1, <3>2, <3>3
  <2>5. b = SubSeq(s, i + c, f) /\ b \in Seq(Symbols)
    <3>1. PICK n \in Nat : n = f - i + 1
      BY <1>2, <2>1, <2>2
    <3>2. c + 1 \in Nat /\ 1 <= c + 1 /\ n <= f - i + 1 /\ c + 1 <= n + 1
      BY <2>1, <2>2, <3>1
    <3>3. SubSeq(w, c + 1, n) = SubSeq(s, i + (c + 1) - 1, i + n - 1)
      BY <1>2, <1>4, <3>2, SliceSlice
    <3>4. i + (c + 1) - 1 = i + c /\ i + n - 1 = f
      BY <1>2, <2>1, <2>2, <3>1
    <3>5. SubSeq(s, i + c, f) \in Seq(Symbols)
      BY <1>2, <2>2, SliceIs
    <3>6. QED
      BY <1>6, <2>3, <3>1, <3>3, <3>4, <3>5
  <2>6. PICK out \in Seq(Deltas) : out = parser.out
    BY <1>2 DEF Parsers
  <2>7. PICK d : d = out \o Delta(SubSeq(s, i, (i + c) - 1), Kind(m))
    OBVIOUS
  <2>8. d \in Seq(Deltas) /\ Owes(s, r, i + c, m, d)
    <3>1. Free(s, i, i + c, m)
      BY <1>2, <1>4, <1>5, <1>7, <2>1, ShowFree
    <3>2. i \in Nat /\ 1 <= i /\ i <= i + c /\ i + c <= Len(s) + 1
      BY <1>2, <2>2
    <3>3. Owes(s, r, i, m, out)
      BY <1>4, <2>6
    <3>4. QED
      BY <1>2, <2>2, <2>7, <3>1, <3>2, <3>3, Advance
  <2>9. parser' = Put(parser, d, b)
    <3>1. parser' = [Emit(parser, a) EXCEPT !.window = b]
      <4>1. Len(parser.window) - HOLDBACK = c
        BY <1>1, <1>6, <1>7, <2>1
      <4>2. ~(c <= 0)
        BY <2>1
      <4>3. a = SubSeq(parser.window, 1, c) /\ b = SubSeq(parser.window, c + 1, Len(parser.window))
        BY <1>1, <2>3
      <4>4. QED
        BY <4>1, <4>2, <4>3, Zenon DEF Show
    <3>2. Emit(parser, a) = [parser EXCEPT !.out = parser.out \o Delta(a, Kind(parser.mode))]
      BY DEF Emit
    <3>3. parser.out \o Delta(a, Kind(parser.mode)) = d
      BY <2>4, <2>6, <2>7
    <3>4. QED
      BY <3>1, <3>2, <3>3, Zenon DEF Put
  <2>10. /\ parser' \in Parsers /\ parser'.out = d /\ parser'.window = b
         /\ parser'.mode = m /\ parser'.calls = <<>>
    <3>1. PICK o \in Seq(Deltas), v \in Seq(Symbols) : o = d /\ v = b
      BY <2>5, <2>8
    <3>2. parser \in Parsers /\ parser.mode = m
      BY <1>2
    <3>3. /\ Put(parser, o, v) \in Parsers /\ Put(parser, o, v).out = o
          /\ Put(parser, o, v).window = v /\ Put(parser, o, v).mode = m
          /\ Put(parser, o, v).calls = parser.calls
      BY <3>1, <3>2, PutIs
    <3>4. parser' = Put(parser, o, v)
      BY <2>9, <3>1, Zenon
    <3>5. QED
      BY <1>2, <3>1, <3>3, <3>4, Zenon
  <2>11. EndAfter(s, i + c, Stops, f) /\ EndAfter(s, i + c, TagsOf(m), f)
    BY <1>4, <1>5, <2>2 DEF EndAfter
  <2>12. Waits(i + c)'
    BY <1>1, <1>8, <2>5, <2>8, <2>10, <2>11 DEF Waits
  <2>13. QED
    BY <1>1, <1>2, <1>9, <2>2, <2>10, <2>12 DEF Inv
<1>12. QED
  BY <1>10, <1>11

\* A turn of the inner loop.
LEMMA ScanKeeps ==
  ASSUME Apart, Inv, Scan PROVE Inv'
<1>1. PICK w : w = parser.window
  OBVIOUS
<1>2. PICK think \in BOOLEAN, tool \in BOOLEAN :
        /\ think = (Has(w, ThinkOpen) /\ (Has(w, ToolOpen) => Find(w, ThinkOpen) <= Find(w, ToolOpen)))
        /\ tool = (Has(w, ToolOpen) /\ ~think)
  <2>1. \A p, q : (p /\ q) \in BOOLEAN
    OBVIOUS
  <2>2. QED
    BY <2>1, Zenon
<1>3. /\ phase = "scanning" /\ text' = text /\ thinking' = thinking /\ fed' = fed
  BY DEF Scan
<1>4. \/ /\ parser.mode = "tool_buffer"
         /\ parser' = [parser EXCEPT !.buffer = @ \o w, !.window = <<>>]
         /\ phase' = "reading"
      \/ /\ parser.mode = "reasoning" /\ Has(w, ThinkClose)
         /\ Turned(ThinkClose, "content")
         /\ UNCHANGED phase
      \/ /\ parser.mode = "content" /\ think
         /\ Turned(ThinkOpen, "reasoning")
         /\ UNCHANGED phase
      \/ /\ parser.mode = "content" /\ tool
         /\ Collected
         /\ UNCHANGED phase
      \/ /\ \/ parser.mode = "reasoning" /\ ~Has(w, ThinkClose)
            \/ parser.mode = "content" /\ ~think /\ ~tool
         /\ parser' = Show(parser)
         /\ phase' = "reading"
  BY <1>1, <1>2, Zenon DEF Scan, Turned, Collected
<1>5. /\ "reasoning" \in Modes /\ "content" \in Modes
      /\ Other("reasoning") = "content" /\ Other("content") = "reasoning"
      /\ TagsOf("reasoning") = {ThinkClose} /\ TagsOf("content") = {ThinkOpen, ToolOpen}
  BY DEF Modes, Other, TagsOf
<1>6. CASE /\ parser.mode = "tool_buffer"
           /\ parser' = [parser EXCEPT !.buffer = @ \o w, !.window = <<>>]
           /\ phase' = "reading"
  BY <1>1, <1>3, <1>6, BufferKeeps
<1>7. CASE /\ parser.mode = "reasoning" /\ Has(w, ThinkClose)
           /\ Turned(ThinkClose, "content") /\ UNCHANGED phase
  BY <1>1, <1>3, <1>5, <1>7, TurnKeeps
<1>8. CASE /\ parser.mode = "content" /\ think
           /\ Turned(ThinkOpen, "reasoning") /\ UNCHANGED phase
  BY <1>1, <1>2, <1>3, <1>5, <1>8, TurnKeeps
<1>9. CASE parser.mode = "content" /\ tool /\ Collected /\ UNCHANGED phase
  BY <1>1, <1>2, <1>3, <1>9, CollectKeeps
<1>10. CASE parser.mode = "reasoning" /\ ~Has(w, ThinkClose) /\ parser' = Show(parser)
              /\ phase' = "reading"
  BY <1>1, <1>3, <1>5, <1>10, ShowKeeps
<1>11. CASE parser.mode = "content" /\ ~think /\ ~tool /\ parser' = Show(parser)
              /\ phase' = "reading"
  <2>1. ~Has(w, ToolOpen) /\ ~Has(w, ThinkOpen)
    BY <1>2, <1>11
  <2>2. QED
    BY <1>1, <1>3, <1>5, <1>11, <2>1, ShowKeeps
<1>12. QED
  BY <1>4, <1>6, <1>7, <1>8, <1>9, <1>10, <1>11

\* What has not ended at the end of the text does not begin in it.
LEMMA AllFree ==
  ASSUME NEW s \in Seq(Symbols), NEW i \in Nat, NEW m \in Modes,
         EndAfter(s, i, Stops, Len(s)), EndAfter(s, i, TagsOf(m), Len(s))
  PROVE  Free(s, i, Len(s) + 1, m)
<1>1. PICK l \in Nat : Len(s) = l
  BY LenProperties
<1>2. \A k \in Int, t \in Tags \cup Stops : At(s, t, k) => ~(k + Len(t) - 1 > l)
  <2> SUFFICES ASSUME NEW k \in Int, NEW t \in Tags \cup Stops, At(s, t, k)
               PROVE  ~(k + Len(t) - 1 > l)
    OBVIOUS
  <2>1. PICK n \in Nat : Len(t) = n
    BY TagsAre, LenProperties
  <2>2. k + n - 1 <= l
    BY <1>1, <2>1 DEF At
  <2>3. QED
    BY <2>1, <2>2
<1>3. ASSUME NEW k \in i..((l + 1) - 1)
      PROVE  ~StopAt(s, k) /\ \A t \in TagsOf(m) : ~At(s, t, k)
  <2>1. k \in Nat /\ k >= i /\ k \in Int
    OBVIOUS
  <2>2. QED
    BY <1>1, <1>2, <2>1, TagsOfAre DEF EndAfter, StopAt
<1>4. QED
  BY <1>1, <1>3 DEF Free

\* The end: what is held back is flushed, the collected tool calls are parsed.
LEMMA EndKeeps ==
  ASSUME Inv, End PROVE Inv'
<1>1. PICK s, r, l : s = text /\ r = Reference /\ l = Len(text)
  OBVIOUS
<1>2. /\ s \in Seq(Symbols) /\ s \in Texts /\ thinking \in BOOLEAN /\ parser \in Parsers
      /\ phase = "reading" /\ parser.calls = <<>> /\ fed = l /\ l \in Nat /\ fed \in 0..l
  <2>1. s \in Seq(Symbols)
    BY <1>1, TagsAre DEF Inv
  <2>2. QED
    BY <1>1, <2>1, LenProperties DEF Inv, End
<1>3. text' = s /\ fed' = l /\ thinking' = thinking /\ Reference' = r /\ phase' = "ended"
  BY <1>1, <1>2, ReferenceStays DEF End
<1>4. SUFFICES parser' \in Parsers /\ parser'.out = r.out /\ parser'.calls = r.calls
  BY <1>1, <1>2, <1>3 DEF Inv
<1>5. CASE parser.mode \in Modes
  <2>1. PICK m \in Modes, out \in Seq(Deltas) : m = parser.mode /\ out = parser.out
    BY <1>2, <1>5 DEF Parsers
  <2>2. PICK i \in 1..(l + 1) : Waits(i)
    BY <1>1, <1>2, <1>5 DEF Inv
  <2>3. /\ parser.window = SubSeq(s, i, l) /\ EndAfter(s, i, Stops, l)
        /\ EndAfter(s, i, TagsOf(m), l) /\ Owes(s, r, i, m, out)
    BY <1>1, <1>2, <2>1, <2>2 DEF Waits
  <2>4. i \in Nat /\ 1 <= i /\ i <= l + 1 /\ l + 1 \in Nat /\ (l + 1) - 1 = l
        /\ l + 1 \in 1..(l + 1)
    BY <1>2, <2>2
  <2>5. Free(s, i, l + 1, m)
    BY <1>1, <1>2, <2>3, <2>4, AllFree
  <2>6. PICK d : d = out \o Delta(SubSeq(s, i, (l + 1) - 1), Kind(m))
    OBVIOUS
  <2>7. d \in Seq(Deltas) /\ Owes(s, r, l + 1, m, d)
    <3>1. l + 1 <= Len(s) + 1
      BY <1>1, <2>4
    <3>2. QED
      BY <1>2, <2>3, <2>4, <2>5, <2>6, <3>1, Advance
  <2>8. r.out = d /\ r.calls = <<>>
    BY <1>1, <1>2, <2>4, <2>7, Paid
  <2>9. d = parser.out \o Delta(parser.window, Kind(parser.mode))
    BY <2>1, <2>3, <2>4, <2>6
  <2>10. Emit(parser, parser.window) = [parser EXCEPT !.out = d]
    BY <1>2, <2>7, <2>9, EmitIs
  <2>11. PICK x : x = <<>> /\ x \in Seq(Symbols)
    <3>1. <<>> \in Seq(Symbols)
      OBVIOUS
    <3>2. QED
      BY <3>1, Zenon
  <2>12. parser' = Put(parser, d, x)
    <3>1. parser.mode # "tool_buffer"
      BY <1>5 DEF Modes
    <3>2. QED
      BY <2>10, <2>11, <3>1 DEF End, Put
  <2>13. PICK o \in Seq(Deltas) : o = d
    BY <2>7
  <2>14. /\ Put(parser, o, x) \in Parsers /\ Put(parser, o, x).out = o
         /\ Put(parser, o, x).calls = parser.calls
    <3>1. parser \in Parsers
      BY <1>2
    <3>2. QED
      BY <2>11, <2>13, <3>1 DEF Parsers, Put
  <2>15. QED
    BY <1>2, <2>8, <2>12, <2>13, <2>14, Zenon
<1>6. CASE parser.mode = "tool_buffer"
  <2>1. PICK k \in 1..l : Collects(k)
    BY <1>1, <1>2, <1>6 DEF Inv
  <2>2. PICK b, o, tools : b = parser.buffer /\ o = parser.out /\ tools = parse_tool_calls(b)
    OBVIOUS
  <2>3. b \in Seq(Symbols) /\ o \in Seq(Deltas)
    BY <1>2, <2>2 DEF Parsers
  <2>4. b = SubSeq(s, k, l) /\ r.out = o \o Called(s, k).out /\ r.calls = Called(s, k).calls
    <3>1. b \o <<>> = SubSeq(s, k, l)
      BY <1>1, <1>2, <2>1, <2>2 DEF Collects
    <3>2. b \o <<>> = b
      BY <2>3, ConcatEmptySeq
    <3>3. QED
      BY <1>1, <1>2, <2>1, <2>2, <3>1, <3>2 DEF Collects
  <2>5. tools.cleaned \in Seq(Symbols) /\ tools.calls \in Seq(Seq(Symbols))
    BY <2>2, <2>3, ToolsAre DEF Tools
  <2>6. Called(s, k) =
          IF tools.calls = <<>> THEN [out |-> Delta(b, "content"), calls |-> <<>>]
          ELSE [out |-> Delta(tools.cleaned, "content"), calls |-> tools.calls]
    BY <1>1, <2>2, <2>4 DEF Called
  <2>7. parser' = IF tools.calls = <<>> THEN Emit(parser, b)
                  ELSE [Emit(parser, tools.cleaned) EXCEPT !.calls = tools.calls]
    BY <1>6, <2>2 DEF End
  <2>8. Kind("tool_buffer") = "content"
    BY DEF Kind
  <2>9. ASSUME NEW x \in Seq(Symbols)
        PROVE  /\ Emit(parser, x) = [parser EXCEPT !.out = o \o Delta(x, "content")]
               /\ o \o Delta(x, "content") \in Seq(Deltas)
    <3>1. Delta(x, "content") \in Seq(Deltas)
      BY DeltaIs DEF Kinds
    <3>2. o \o Delta(x, "content") \in Seq(Deltas)
      BY <2>3, <3>1, ConcatProperties
    <3>3. QED
      BY <1>6, <2>2, <2>8, <3>2 DEF Emit
  <2>10. CASE tools.calls = <<>>
    <3>1. PICK d \in Seq(Deltas) : d = o \o Delta(b, "content")
      BY <2>3, <2>9
    <3>2. parser' = [parser EXCEPT !.out = d]
      BY <2>3, <2>7, <2>9, <2>10, <3>1
    <3>3. r.out = d /\ r.calls = <<>>
      BY <2>4, <2>6, <2>10, <3>1
    <3>4. QED
      BY <1>2, <3>2, <3>3 DEF Parsers
  <2>11. CASE tools.calls # <<>>
    <3>1. PICK d \in Seq(Deltas) : d = o \o Delta(tools.cleaned, "content")
      BY <2>5, <2>9
    <3>2. PICK c \in Seq(Seq(Symbols)) : c = tools.calls
      BY <2>5
    <3>3. parser' = [[parser EXCEPT !.out = d] EXCEPT !.calls = c]
      BY <2>5, <2>7, <2>9, <2>11, <3>1, <3>2
    <3>4. r.out = d /\ r.calls = c
      BY <2>4, <2>6, <2>11, <3>1, <3>2
    <3>5. QED
      BY <1>2, <3>3, <3>4 DEF Parsers
  <2>12. QED
    BY <2>10, <2>11
<1>7. QED
  BY <1>2, <1>5, <1>6 DEF Parsers

\* Every step keeps the invariant.
LEMMA NextKeeps ==
  ASSUME Apart, Inv, [Next]_vars PROVE Inv'
<1>1. CASE \E n \in 1..MaxPiece : Token(n)
  BY <1>1, TokenKeeps
<1>2. CASE Scan
  BY <1>2, ScanKeeps
<1>3. CASE End
  BY <1>3, EndKeeps
<1>4. CASE UNCHANGED vars
  <2>1. /\ text' = text /\ thinking' = thinking /\ fed' = fed /\ parser' = parser
        /\ phase' = phase
    BY <1>4 DEF vars
  <2>2. Reference' = Reference
    BY <2>1, ReferenceStays
  <2>3. \A i : Waits(i)' <=> Waits(i)
    BY <2>1, <2>2 DEF Waits
  <2>4. \A k : Collects(k)' <=> Collects(k)
    BY <2>1, <2>2 DEF Collects
  <2>5. QED
    BY <2>1, <2>2, <2>3, <2>4 DEF Inv
<1>5. QED
  BY <1>1, <1>2, <1>3, <1>4 DEF Next

-----------------------------------------------------------------------------
(* The theorems                                                            *)

\* What comes first is a prefix.
LEMMA PrefixIs ==
  ASSUME NEW S, NEW s \in Seq(S), NEW t \in Seq(S)
  PROVE  IsPrefix(s, s \o t)
<1>1. PICK n \in Nat, m \in Nat : Len(s) = n /\ DOMAIN s = 1..n /\ Len(t) = m
  BY LenProperties
<1>2. PICK u : u = s \o t
  OBVIOUS
<1>3. u \in Seq(S) /\ Len(u) = n + m /\ \A i \in 1..n : u[i] = s[i]
  <2>1. /\ u \in Seq(S) /\ Len(u) = Len(s) + Len(t)
        /\ \A i \in 1..(Len(s) + Len(t)) : u[i] = IF i <= Len(s) THEN s[i] ELSE t[i - Len(s)]
    BY <1>2, ConcatProperties
  <2>2. QED
    BY <1>1, <2>1
<1>4. SubSeq(s, 1, n) = [i \in 1..n |-> s[i]] /\ SubSeq(u, 1, n) = [i \in 1..n |-> u[i]]
  BY <1>1, <1>3
<1>5. SubSeq(s, 1, n) = SubSeq(u, 1, n)
  BY <1>3, <1>4
<1>6. QED
  BY <1>1, <1>2, <1>3, <1>5 DEF IsPrefix

\* The invariant implies the two properties.
LEMMA InvMeans ==
  ASSUME Inv PROVE ShownIsFinal /\ WholeAtEnd
<1>1. PICK s, f, o : s = text /\ f = fed /\ o = parser.out
  OBVIOUS
<1>2. /\ s \in Seq(Symbols) /\ o \in Seq(Deltas) /\ parser \in Parsers /\ f \in 0..Len(s)
      /\ Len(s) \in Nat
  BY <1>1, TagsAre, LenProperties DEF Inv, Parsers
<1>3. WholeAtEnd
  BY DEF Inv, WholeAtEnd
<1>4. ASSUME NEW rest \in Seq(Deltas), Reference.out = o \o rest
      PROVE  ShownIsFinal
  BY <1>1, <1>2, <1>4, PrefixIs DEF ShownIsFinal
<1>5. CASE phase \in {"stopped", "ended"}
  <2>1. <<>> \in Seq(Deltas)
    OBVIOUS
  <2>2. o \o <<>> = o
    BY <1>2, ConcatEmptySeq
  <2>3. Reference.out = o \o <<>>
    BY <1>1, <1>5, <2>2 DEF Inv
  <2>4. QED
    BY <1>3, <1>4, <2>1, <2>3
<1>6. CASE phase \in {"reading", "scanning"} /\ parser.mode \in Modes
  <2>1. PICK i \in 1..(f + 1) : Waits(i)
    BY <1>1, <1>6 DEF Inv
  <2>2. i \in 1..(Len(s) + 1)
    BY <1>2
  <2>3. Ahead(s, i, parser.mode) \in Shows
    BY <1>2, <1>6, <2>2, AheadType
  <2>4. Reference.out = o \o Ahead(s, i, parser.mode).out
    BY <1>1, <2>1 DEF Waits, Owes
  <2>5. QED
    BY <1>3, <1>4, <2>3, <2>4 DEF Shows
<1>7. CASE phase \in {"reading", "scanning"} /\ parser.mode = "tool_buffer"
  <2>1. PICK k \in 1..f : Collects(k)
    BY <1>1, <1>7 DEF Inv
  <2>2. k \in 1..(Len(s) + 1)
    BY <1>2
  <2>3. Called(s, k) \in Shows
    BY <1>2, <2>2, CalledType
  <2>4. Reference.out = o \o Called(s, k).out
    BY <1>1, <2>1 DEF Collects
  <2>5. QED
    BY <1>3, <1>4, <2>3, <2>4 DEF Shows
<1>8. ShownIsFinal
  BY <1>2, <1>5, <1>6, <1>7 DEF Inv, Parsers
<1>9. QED
  BY <1>3, <1>8

\* The invariant, for every text, every set of stop sequences and every way the
\* text is cut into tokens.
THEOREM StreamInvariant ==
  ASSUME Apart
  PROVE  Spec => []Inv
<1>1. Init => Inv
  BY InitInv
<1>2. Inv /\ [Next]_vars => Inv'
  BY NextKeeps
<1>3. QED
  BY <1>1, <1>2, PTL DEF Spec

\* Whatever a stream has shown is the beginning of what a parser that sees all of the
\* text shows: server_tools.py never shows a part of a tag or a stop sequence, and
\* nothing under the wrong kind.
THEOREM ShownStaysFinal ==
  ASSUME Apart
  PROVE  Spec => []ShownIsFinal
<1>1. Inv => ShownIsFinal
  BY InvMeans
<1>2. QED
  BY <1>1, StreamInvariant, PTL

\* At the end of a response nothing is missing: what the holdback kept has been
\* flushed, and the tool calls are those of the whole text.
THEOREM EndIsWhole ==
  ASSUME Apart
  PROVE  Spec => []WholeAtEnd
<1>1. Inv => WholeAtEnd
  BY InvMeans
<1>2. QED
  BY <1>1, StreamInvariant, PTL

-----------------------------------------------------------------------------
(* The batch parsers                                                       *)

\* The slice of all symbols.
LEMMA Whole ==
  ASSUME NEW s \in Seq(Symbols)
  PROVE  SubSeq(s, 1, Len(s)) = s
<1>1. PICK n \in Nat : Len(s) = n
  BY LenProperties
<1>2. PICK u : u = SubSeq(s, 1, n)
  OBVIOUS
<1>3. 1 \in Nat /\ 1 <= n + 1 /\ n - 1 + 1 = n
  OBVIOUS
<1>4. u \in Seq(Symbols) /\ Len(u) = n /\ \A i \in 1..n : u[i] = s[1 + i - 1]
  BY <1>1, <1>2, <1>3, SliceIs
<1>5. \A i \in 1..n : u[i] = s[i]
  BY <1>4
<1>6. u = s
  BY <1>1, <1>4, <1>5, SeqEqual
<1>7. QED
  BY <1>1, <1>2, <1>6

\* The last n symbols of a text are those of its rest.
LEMMA ToolsTail ==
  ASSUME NEW s \in Seq(Symbols), NEW o \in 1..Len(s), NEW r, r = SubSeq(s, o, Len(s)),
         NEW n \in 0..(Len(s) - o + 1)
  PROVE  ToolsOf(s)[n] = ToolsOf(r)[n]
<1>1. PICK l \in Nat, q \in Nat : Len(s) = l /\ q = l - o + 1 /\ o \in Nat
  BY LenProperties
<1>2. r \in Seq(Symbols) /\ Len(r) = q
  BY <1>1, SliceIs
<1>3. PICK g, h : g = ToolsOf(s) /\ h = ToolsOf(r)
  OBVIOUS
<1> DEFINE bad == {k \in 0..q : g[k] # h[k]}
<1>4. SUFFICES ASSUME bad # {} PROVE FALSE
  BY <1>1, <1>3
<1>5. bad \subseteq Nat
  OBVIOUS
<1>6. PICK k \in bad : \A j \in bad : k <= j
  BY <1>4, <1>5, MinExists
<1>7. k \in 0..q /\ k \in 0..l
  BY <1>1
<1>8. \A j \in 0..(k - 1) : g[j] = h[j]
  <2> SUFFICES ASSUME NEW j \in 0..(k - 1), g[j] # h[j] PROVE FALSE
    OBVIOUS
  <2>1. j \in 0..q /\ ~(k <= j)
    BY <1>7
  <2>2. j \in bad
    BY <2>1
  <2>3. QED
    BY <1>6, <2>1, <2>2
<1>9. g[k] = ToolsBody(s, g, k) /\ h[k] = ToolsBody(r, h, k)
  BY <1>1, <1>2, <1>3, <1>7, ToolsUnfold
<1>10. ToolsBody(s, g, k) = ToolsBody(s, h, k)
  BY <1>1, <1>7, <1>8, ToolsAsk
<1>11. SubSeq(s, l - k + 1, l) = SubSeq(r, q - k + 1, q)
  <2>1. PICK c \in Nat : c = q - k + 1
    BY <1>7
  <2>2. 1 <= c /\ q <= l - o + 1 /\ c <= q + 1 /\ 1 <= o /\ o <= l + 1
    BY <1>1, <1>7, <2>1
  <2>3. SubSeq(SubSeq(s, o, l), c, q) = SubSeq(s, o + c - 1, o + q - 1)
    BY <1>1, <2>2, SliceSlice
  <2>4. o + c - 1 = l - k + 1 /\ o + q - 1 = l
    BY <1>1, <1>7, <2>1
  <2>5. QED
    BY <1>1, <2>1, <2>3, <2>4
<1>12. ToolsBody(s, h, k) = ToolsBody(r, h, k)
  BY <1>1, <1>2, <1>11, Zenon DEF ToolsBody
<1>13. QED
  BY <1>6, <1>9, <1>10, <1>12

\* Without a tool call the text is left as it is.
LEMMA NoCalls ==
  ASSUME NEW s \in Seq(Symbols), ~Has(s, ToolOpen)
  PROVE  parse_tool_calls(s) = [cleaned |-> s, calls |-> <<>>]
<1>1. PICK l \in Nat : Len(s) = l /\ l - l + 1 = 1 /\ l \in 0..l
  BY LenProperties
<1>2. parse_tool_calls(s) = ToolsBody(s, ToolsOf(s), l)
  BY <1>1, ToolsDef, ToolsUnfold
<1>3. SubSeq(s, l - l + 1, l) = s
  BY <1>1, Whole
<1>4. QED
  BY <1>1, <1>2, <1>3 DEF ToolsBody

\* With a complete tool call: what comes before the first one is kept, the others are in
\* what comes from there on.
LEMMA CallsSplit ==
  ASSUME NEW s \in Seq(Symbols), Has(s, ToolOpen), parse_tool_calls(s).calls # <<>>,
         NEW r, r = From(s, ToolOpen)
  PROVE  /\ parse_tool_calls(s).cleaned = Before(s, ToolOpen) \o parse_tool_calls(r).cleaned
         /\ parse_tool_calls(s).calls = parse_tool_calls(r).calls
<1>1. PICK l \in Nat : Len(s) = l /\ l - l + 1 = 1 /\ l \in 0..l
  BY LenProperties
<1>2. ToolOpen \in Seq(Symbols) /\ ToolOpen # <<>>
  BY TagsAre DEF Tags
<1>3. PICK o \in 1..l : o = Find(s, ToolOpen) /\ At(s, ToolOpen, o) /\ o \in Nat
  BY <1>1, <1>2, FindIs
<1>4. PICK q \in Nat : q = l - o + 1 /\ q - q + 1 = 1 /\ q \in 0..q
  BY <1>3
<1>5. r = SubSeq(s, o, l) /\ r \in Seq(Symbols) /\ Len(r) = q
  BY <1>1, <1>3, <1>4, SliceIs DEF From
<1>6. /\ Has(r, ToolOpen) /\ Before(r, ToolOpen) = <<>>
      /\ After(r, ToolOpen) = After(s, ToolOpen)
  <2>1. PICK m \in Nat : Len(ToolOpen) = m /\ o + m - 1 <= l
    BY <1>1, <1>2, <1>3, AtEnds
  <2>2. o \in 1..(l + 1) /\ l <= Len(s) /\ o >= o
    BY <1>1, <1>3
  <2>3. Has(r, ToolOpen)
    BY <1>2, <1>3, <1>5, <2>1, <2>2, WindowHas
  <2>4. PICK k \in Nat : FoundAt(s, l, o, ToolOpen, r, k)
    BY <1>2, <1>5, <2>2, <2>3, WindowFind
  <2>5. k = o
    BY <1>3, <2>1, <2>4 DEF FoundAt
  <2>6. Before(r, ToolOpen) = SubSeq(s, o, o - 1) /\ After(r, ToolOpen) = SubSeq(s, o + m, l)
    BY <2>1, <2>4, <2>5 DEF FoundAt
  <2>7. SubSeq(s, o, o - 1) = <<>>
    BY <1>3, SubSeqEmpty
  <2>8. After(s, ToolOpen) = SubSeq(s, o + m, l)
    BY <1>1, <1>3, <2>1 DEF After
  <2>9. QED
    BY <2>3, <2>6, <2>7, <2>8
<1>7. PICK g, h : g = ToolsOf(s) /\ h = ToolsOf(r)
  OBVIOUS
<1>8. /\ parse_tool_calls(s) = ToolsBody(s, g, l) /\ parse_tool_calls(r) = ToolsBody(r, h, q)
  BY <1>1, <1>4, <1>5, <1>7, ToolsDef, ToolsUnfold
<1>9. SubSeq(s, l - l + 1, l) = s /\ SubSeq(r, q - q + 1, q) = r
  BY <1>1, <1>4, <1>5, Whole
<1>10. PICK call, k : call = After(s, ToolOpen) /\ k = Len(After(call, ToolClose))
  OBVIOUS
<1>11. Has(call, ToolClose)
  <2> SUFFICES ASSUME ~Has(call, ToolClose) PROVE FALSE
    OBVIOUS
  <2>1. ToolsBody(s, g, l) = [cleaned |-> s, calls |-> <<>>]
    BY <1>1, <1>9, <1>10 DEF ToolsBody
  <2>2. QED
    BY <1>8, <2>1
<1>12. k \in 0..(q - 1)
  BY <1>4, <1>5, <1>6, <1>10, <1>11, ToolsNext
<1>13. g[k] = h[k] /\ h[k] \in Tools
  <2>1. k \in 0..(l - o + 1) /\ k \in 0..q
    BY <1>4, <1>12
  <2>2. QED
    BY <1>1, <1>3, <1>5, <1>7, <2>1, ToolsTail, ToolsType
<1>14. PICK c : c = IF Has(Before(call, ToolClose), <<FunctionOpen>>)
                    THEN <<Before(call, ToolClose)>> ELSE <<>>
  OBVIOUS
<1>15. ToolsBody(s, g, l) = [cleaned |-> Before(s, ToolOpen) \o g[k].cleaned,
                             calls |-> c \o g[k].calls]
  BY <1>1, <1>9, <1>10, <1>11, <1>14, Zenon DEF ToolsBody
<1>16. ToolsBody(r, h, q) = [cleaned |-> <<>> \o h[k].cleaned, calls |-> c \o h[k].calls]
  BY <1>5, <1>6, <1>9, <1>10, <1>11, <1>14, Zenon DEF ToolsBody
<1>17. <<>> \o h[k].cleaned = h[k].cleaned
  BY <1>13, ConcatEmptySeq DEF Tools
<1>18. QED
  BY <1>8, <1>13, <1>15, <1>16, <1>17

\* A word that is in the first part of a text is cut out there.
LEMMA CutFirst ==
  ASSUME NEW a \in Seq(Symbols), NEW b \in Seq(Symbols), NEW t \in Seq(Symbols), t # <<>>,
         Has(a, t)
  PROVE  /\ Has(a \o b, t) /\ Before(a \o b, t) = Before(a, t)
         /\ After(a \o b, t) = After(a, t) \o b
<1>1. PICK n \in Nat, m \in Nat, l \in Nat : Len(a) = n /\ Len(b) = m /\ Len(t) = l
  BY LenProperties
<1>2. PICK u : u = a \o b
  OBVIOUS
<1>3. /\ u \in Seq(Symbols) /\ Len(u) = n + m
      /\ \A i \in 1..(n + m) : u[i] = IF i <= n THEN a[i] ELSE b[i - n]
  BY <1>1, <1>2, ConcatProperties
<1>4. n + m \in Nat /\ n <= n + m /\ 1 \in 1..(n + 1) /\ n + 1 \in Nat
  OBVIOUS
<1>5. SubSeq(u, 1, n) = a
  <2>1. PICK v : v = SubSeq(u, 1, n)
    OBVIOUS
  <2>2. v \in Seq(Symbols) /\ Len(v) = n - 1 + 1 /\ \A i \in 1..(n - 1 + 1) : v[i] = u[1 + i - 1]
    BY <1>3, <1>4, <2>1, SliceIs
  <2>3. Len(v) = n /\ \A i \in 1..n : v[i] = a[i]
    BY <1>3, <2>2
  <2>4. v = a
    BY <1>1, <2>2, <2>3, SeqEqual
  <2>5. QED
    BY <2>1, <2>4
<1>6. SubSeq(u, n + 1, n + m) = b
  <2>1. PICK v : v = SubSeq(u, n + 1, n + m)
    OBVIOUS
  <2>2. n + 1 \in Nat /\ 1 <= n + 1 /\ n + 1 <= (n + m) + 1
    OBVIOUS
  <2>3. /\ v \in Seq(Symbols) /\ Len(v) = (n + m) - (n + 1) + 1
        /\ \A i \in 1..((n + m) - (n + 1) + 1) : v[i] = u[(n + 1) + i - 1]
    BY <1>3, <1>4, <2>1, <2>2, SliceIs
  <2>4. Len(v) = m
    BY <2>3
  <2>5. ASSUME NEW i \in 1..m PROVE v[i] = b[i]
    <3>1. i \in 1..((n + m) - (n + 1) + 1) /\ (n + 1) + i - 1 = n + i /\ n + i \in 1..(n + m)
          /\ ~(n + i <= n) /\ n + i - n = i
      OBVIOUS
    <3>2. v[i] = u[n + i]
      BY <2>3, <3>1
    <3>3. PICK j \in 1..(n + m) : j = n + i
      BY <3>1
    <3>4. u[j] = b[j - n]
      BY <1>3, <3>1, <3>3
    <3>5. QED
      BY <3>1, <3>2, <3>3, <3>4
  <2>6. v = b
    BY <1>1, <2>3, <2>4, <2>5, SeqEqual
  <2>7. QED
    BY <2>1, <2>6
<1>7. PICK k \in Nat : FoundAt(u, n, 1, t, a, k)
  <2>1. n <= Len(u)
    BY <1>3, <1>4
  <2>2. QED
    BY <1>3, <1>4, <1>5, <2>1, WindowFind
<1>8. /\ k >= 1 /\ At(u, t, k) /\ k + l - 1 <= n /\ k <= n
      /\ \A j \in Nat : j >= 1 /\ At(u, t, j) /\ j + l - 1 <= n => k <= j
      /\ Before(a, t) = SubSeq(u, 1, k - 1) /\ After(a, t) = SubSeq(u, k + l, n)
  BY <1>1, <1>7 DEF FoundAt
<1>9. Has(u, t)
  BY <1>3, <1>8, HasIs
<1>10. Find(u, t) = k
  <2>1. PICK q \in Nat : q = Find(u, t) /\ q >= 1 /\ At(u, t, q) /\ q <= k
    BY <1>3, <1>8, <1>9, FindIs
  <2>2. QED
    BY <1>8, <2>1
<1>11. SubSeq(u, k + l, n) \o SubSeq(u, n + 1, n + m) = SubSeq(u, k + l, n + m)
  <2>1. k + l \in 1..(n + 1) /\ n + m <= Len(u)
    BY <1>3, <1>4, <1>8
  <2>2. QED
    BY <1>3, <1>4, <2>1, SliceConcat
<1>12. Before(u, t) = SubSeq(u, 1, k - 1) /\ After(u, t) = SubSeq(u, k + l, n + m)
  BY <1>1, <1>3, <1>10 DEF Before, After
<1>13. QED
  BY <1>2, <1>6, <1>8, <1>9, <1>11, <1>12

-----------------------------------------------------------------------------
(* What the two endpoints show of a text                                   *)

\* The response ends before place e.
Limit(s, e) ==
  /\ e \in Nat /\ 1 <= e /\ e <= Len(s) + 1 /\ (e = Len(s) + 1 \/ StopAt(s, e))
  /\ \A k \in Nat : 1 <= k /\ k < e => ~StopAt(s, k)

\* What Batch parses.
Trimmed(s) == IF Stopped(s) THEN SubSeq(s, 1, first_stop_match(s) - 1) ELSE s

\* The batch parser trims a text to such a place.
LEMMA TrimIs ==
  ASSUME NEW s \in Seq(Symbols)
  PROVE  \E e : Limit(s, e) /\ Trimmed(s) = SubSeq(s, 1, e - 1)
<1>1. PICK l \in Nat : Len(s) = l
  BY LenProperties
<1>2. \A t \in Stops : t \in Seq(Symbols) /\ t # <<>>
  BY TagsAre
<1>3. \A t \in Stops, k \in Nat : 1 <= k /\ At(s, t, k) => Has(s, t)
  BY <1>2, HasIs
<1>4. CASE ~Stopped(s)
  <2>1. \A k \in Nat : 1 <= k => ~StopAt(s, k)
    BY <1>3, <1>4 DEF Stopped, StopAt
  <2>2. Limit(s, l + 1)
    BY <1>1, <2>1 DEF Limit
  <2>3. SubSeq(s, 1, (l + 1) - 1) = s
    <3>1. (l + 1) - 1 = l
      OBVIOUS
    <3>2. QED
      BY <1>1, <3>1, Whole
  <2>4. QED
    BY <1>4, <2>2, <2>3 DEF Trimmed
<1>5. CASE Stopped(s)
  <2> DEFINE T == {Find(s, t) : t \in {u \in Stops : Has(s, u)}}
  <2>1. \A t \in Stops : Has(s, t) =>
          /\ Find(s, t) \in 1..l /\ At(s, t, Find(s, t))
          /\ \A k \in Nat : 1 <= k /\ At(s, t, k) => Find(s, t) <= k
    BY <1>1, <1>2, FindIs
  <2>2. T \subseteq Nat /\ T # {}
    BY <1>5, <2>1 DEF Stopped
  <2>3. first_stop_match(s) \in T /\ \A y \in T : first_stop_match(s) <= y
    BY <2>2, MinIs DEF first_stop_match
  <2>4. PICK e : e = first_stop_match(s)
    OBVIOUS
  <2>5. PICK t \in Stops : Has(s, t) /\ e = Find(s, t)
    BY <2>3, <2>4
  <2>6. e \in 1..l /\ StopAt(s, e)
    BY <2>1, <2>5 DEF StopAt
  <2>7. ASSUME NEW k \in Nat, 1 <= k, k < e, StopAt(s, k) PROVE FALSE
    <3>1. PICK u \in Stops : At(s, u, k)
      BY <2>7 DEF StopAt
    <3>2. Has(s, u)
      BY <1>3, <2>7, <3>1
    <3>3. Find(s, u) <= k /\ Find(s, u) \in T /\ Find(s, u) \in 1..l
      BY <2>1, <2>7, <3>1, <3>2
    <3>4. e <= Find(s, u)
      BY <2>3, <2>4, <3>3
    <3>5. QED
      BY <2>6, <2>7, <3>3, <3>4
  <2>8. Limit(s, e)
    BY <1>1, <2>6, <2>7 DEF Limit
  <2>9. QED
    BY <1>5, <2>4, <2>8 DEF Trimmed
<1>6. QED
  BY <1>4, <1>5

\* A tag that begins before the end of the response ends there too.
LEMMA EndsBefore ==
  ASSUME Apart, NEW s \in Seq(Symbols), NEW e, Limit(s, e), NEW t \in Tags,
         NEW k \in Nat, 1 <= k, k < e, At(s, t, k)
  PROVE  k + Len(t) - 1 <= e - 1
<1>1. t \in Seq(Symbols) /\ t # <<>>
  BY TagsAre
<1>2. PICK n \in Nat : Len(t) = n
  BY <1>1, LenProperties
<1>3. PICK l \in Nat : Len(s) = l
  BY LenProperties
<1>4. k + n - 1 <= l
  BY <1>1, <1>2, <1>3, AtEnds
<1>5. e \in Nat /\ 1 <= e /\ (e = l + 1 \/ StopAt(s, e))
  BY <1>3 DEF Limit
<1>6. CASE e = l + 1
  BY <1>2, <1>4, <1>6
<1>7. CASE StopAt(s, e)
  <2>1. PICK u \in Stops : At(s, u, e)
    BY <1>7 DEF StopAt
  <2>2. u \in Seq(Symbols) /\ u # <<>> /\ ~Touch(u, t)
    BY TagsAre, ApartIs
  <2>3. PICK m \in Nat : Len(u) = m /\ m >= 1
    BY <1>5, <2>1, <2>2, AtEnds
  <2>4. k > e + m - 1 \/ e > k + n - 1
    BY <1>1, <1>2, <1>5, <2>1, <2>2, <2>3, Separate
  <2>5. QED
    BY <1>2, <1>5, <2>3, <2>4
<1>8. QED
  BY <1>5, <1>6, <1>7

\* The trimmed text has a tag where the text has it.
LEMMA TrimmedHas ==
  ASSUME Apart, NEW s \in Seq(Symbols), NEW e, Limit(s, e), NEW t \in Tags
  PROVE  Has(SubSeq(s, 1, e - 1), t) <=> \E k \in Nat : 1 <= k /\ k < e /\ At(s, t, k)
<1>1. t \in Seq(Symbols) /\ t # <<>>
  BY TagsAre
<1>2. PICK n \in Nat : Len(t) = n
  BY <1>1, LenProperties
<1>3. PICK f \in Nat : f = e - 1 /\ f <= Len(s) /\ 1 \in 1..(f + 1) /\ e \in Nat
  <2>1. Len(s) \in Nat
    BY LenProperties
  <2>2. QED
    BY <2>1 DEF Limit
<1>4. Has(SubSeq(s, 1, f), t) <=> \E k \in Nat : k >= 1 /\ At(s, t, k) /\ k + n - 1 <= f
  BY <1>1, <1>2, <1>3, WindowHas
<1>5. \A k \in Nat : 1 <= k /\ At(s, t, k) => (k < e <=> k + n - 1 <= f)
  <2> SUFFICES ASSUME NEW k \in Nat, 1 <= k, At(s, t, k)
               PROVE  k < e <=> k + n - 1 <= f
    OBVIOUS
  <2>1. n >= 1
    BY <1>1, <1>2, AtEnds
  <2>2. k < e => k + n - 1 <= e - 1
    BY <1>2, EndsBefore
  <2>3. QED
    BY <1>3, <2>1, <2>2
<1>6. QED
  BY <1>3, <1>4, <1>5

\* Without tags everything up to the end is shown.
LEMMA AheadPlain ==
  ASSUME NEW s \in Seq(Symbols), NEW e, Limit(s, e), NEW m \in Modes,
         NEW i \in Nat, 1 <= i, i <= e,
         \A k \in Nat, t \in TagsOf(m) : i <= k /\ k < e => ~At(s, t, k)
  PROVE  /\ Ahead(s, i, m).out = Delta(SubSeq(s, i, e - 1), Kind(m))
         /\ Ahead(s, i, m).calls = <<>>
<1>1. PICK l \in Nat : Len(s) = l
  BY LenProperties
<1>2. /\ e \in Nat /\ 1 <= e /\ e <= l + 1 /\ (e = l + 1 \/ StopAt(s, e)) /\ e \in 1..(l + 1)
      /\ \A k \in Nat : 1 <= k /\ k < e => ~StopAt(s, k)
  BY <1>1 DEF Limit
<1>3. Free(s, i, e, m)
  BY <1>2 DEF Free
<1>4. /\ Ahead(s, i, m).out = Delta(SubSeq(s, i, e - 1), Kind(m)) \o Ahead(s, e, m).out
      /\ Ahead(s, i, m).calls = Ahead(s, e, m).calls
  BY <1>1, <1>2, <1>3, Skip
<1>5. Ahead(s, e, m).out = <<>> /\ Ahead(s, e, m).calls = <<>>
  BY <1>1, <1>2, AheadStop DEF Nothing
<1>6. SubSeq(s, i, e - 1) \in Seq(Symbols)
  BY <1>1, <1>2, SliceIs
<1>7. PICK d \in Seq(Deltas) : d = Delta(SubSeq(s, i, e - 1), Kind(m))
  BY <1>6, DeltaIs DEF Kind, Kinds
<1>8. d \o <<>> = d
  BY ConcatEmptySeq
<1>9. QED
  BY <1>4, <1>5, <1>7, <1>8, Zenon

\* The reasoning is shown, then what comes after it.
ThinkShown(s, w, c) ==
  /\ Ahead(s, 1, "reasoning").out =
       Delta(Before(w, ThinkClose), "reasoning_content")
         \o Ahead(s, c + Len(ThinkClose), "content").out
  /\ Ahead(s, 1, "reasoning").calls = Ahead(s, c + Len(ThinkClose), "content").calls

\* It is, if no stop sequence begins before the tag has ended.
LEMMA AheadThink ==
  ASSUME NEW s \in Seq(Symbols), NEW e, Limit(s, e), NEW f \in Nat, f < e, NEW w, NEW c \in Nat,
         FoundAt(s, f, 1, ThinkClose, w, c)
  PROVE  ThinkShown(s, w, c)
<1>1. PICK l \in Nat : Len(s) = l
  BY LenProperties
<1>2. /\ e \in Nat /\ e <= l + 1 /\ \A k \in Nat : 1 <= k /\ k < e => ~StopAt(s, k)
  BY <1>1 DEF Limit
<1>3. PICK n \in Nat : Len(ThinkClose) = n
  BY TagsAre, LenProperties DEF Tags
<1>4. /\ c >= 1 /\ At(s, ThinkClose, c) /\ c + n - 1 <= f /\ c <= f
      /\ \A j \in Nat : j >= 1 /\ At(s, ThinkClose, j) /\ j + n - 1 <= f => c <= j
      /\ Before(w, ThinkClose) = SubSeq(s, 1, c - 1)
  BY <1>3 DEF FoundAt
<1>5. Free(s, 1, c, "reasoning")
  BY <1>2, <1>3, <1>4 DEF Free, TagsOf
<1>6. /\ Ahead(s, 1, "reasoning").out =
           Delta(SubSeq(s, 1, c - 1), Kind("reasoning")) \o Ahead(s, c, "reasoning").out
      /\ Ahead(s, 1, "reasoning").calls = Ahead(s, c, "reasoning").calls
  <2>1. PICK m, i : m = "reasoning" /\ i = 1
    OBVIOUS
  <2>2. m \in Modes /\ i \in Nat /\ 1 <= i /\ i <= c /\ c <= Len(s) + 1
    BY <1>1, <1>2, <1>4, <2>1 DEF Modes
  <2>3. Free(s, i, c, m)
    BY <1>5, <2>1
  <2>4. /\ Ahead(s, i, m).out = Delta(SubSeq(s, i, c - 1), Kind(m)) \o Ahead(s, c, m).out
        /\ Ahead(s, i, m).calls = Ahead(s, c, m).calls
    BY <2>2, <2>3, Skip
  <2>5. QED
    BY <2>1, <2>4
<1>7. Ahead(s, c, "reasoning") = Ahead(s, c + n, "content")
  <2>1. c \in 1..(l + 1) /\ ~StopAt(s, c)
    BY <1>2, <1>4
  <2>2. QED
    BY <1>1, <1>3, <1>4, <2>1, AheadTag
<1>8. QED
  BY <1>3, <1>4, <1>6, <1>7 DEF Kind, ThinkShown

\* Regular, of any text.
RegularText(s, th) ==
  /\ ~Has(s, ThinkOpen)
  /\ IF th THEN ~Has(IF Has(s, ThinkClose) THEN Before(s, ThinkClose) ELSE s, ToolOpen)
     ELSE ~Has(s, ThinkClose)
  /\ Has(s, ToolOpen) =>
       /\ parse_tool_calls(s).calls # <<>> /\ ~Stopped(From(s, ToolOpen))
       /\ ~Has(parse_tool_calls(s).cleaned, ThinkOpen)
       /\ ~th => ~Has(parse_tool_calls(s).cleaned, ThinkClose)

\* What the two show is the same.
Agree(shown, content, reasoning, calls) ==
  /\ shown.out = Delta(reasoning, "reasoning_content") \o Delta(content, "content")
  /\ shown.calls = calls

FirstMode(th) == IF th THEN "reasoning" ELSE "content"

\* Nothing is concatenated with something.
LEMMA OneKind ==
  ASSUME NEW s \in Seq(Symbols), NEW e, e = <<>>
  PROVE  /\ Delta(s, "reasoning_content") \o Delta(e, "content") = Delta(s, "reasoning_content")
         /\ Delta(e, "reasoning_content") \o Delta(s, "content") = Delta(s, "content")
<1>1. Delta(e, "content") = <<>> /\ Delta(e, "reasoning_content") = <<>>
  BY DeltaEmpty DEF Kinds
<1>2. /\ Delta(s, "reasoning_content") \in Seq(Deltas)
      /\ Delta(s, "content") \in Seq(Deltas)
  BY DeltaIs DEF Kinds
<1>3. QED
  BY <1>1, <1>2, ConcatEmptySeq

\* No tool call before the end of the response.
LEMMA AgreePlain ==
  ASSUME Apart, NEW s \in Seq(Symbols), NEW th \in BOOLEAN, RegularText(s, th),
         NEW e, Limit(s, e), NEW x, x = SubSeq(s, 1, e - 1), ~Has(x, ToolOpen),
         NEW parts, parts = parse_reasoning(x, th)
  PROVE  Agree(Ahead(s, 1, FirstMode(th)), parts.content, parts.reasoning, <<>>)
<1>1. PICK l \in Nat : Len(s) = l
  BY LenProperties
<1>2. e \in Nat /\ 1 <= e /\ e <= l + 1
  BY <1>1 DEF Limit
<1>3. x \in Seq(Symbols)
  BY <1>1, <1>2, SliceIs
<1>4. \A t \in Tags : t \in Seq(Symbols) /\ t # <<>>
  BY TagsAre
<1>5. ThinkOpen \in Tags /\ ThinkClose \in Tags /\ ToolOpen \in Tags
  BY DEF Tags
<1>6. \A k \in Nat : 1 <= k => ~At(s, ThinkOpen, k)
  BY <1>4, <1>5, HasIs DEF RegularText
<1>7. \A k \in Nat : 1 <= k /\ k < e => ~At(s, ToolOpen, k)
  BY <1>5, TrimmedHas
<1>8. ~Has(x, ThinkOpen)
  BY <1>5, <1>6, TrimmedHas
<1>9. parts = IF Has(x, ThinkClose)
              THEN [content |-> After(x, ThinkClose), reasoning |-> Before(x, ThinkClose)]
              ELSE IF th THEN [content |-> <<>>, reasoning |-> x]
              ELSE [content |-> x, reasoning |-> <<>>]
  BY <1>8 DEF parse_reasoning
<1>10. PICK m, i : m = FirstMode(th) /\ i = 1
  OBVIOUS
<1>11. m \in Modes /\ i \in Nat /\ 1 <= i /\ i <= e
  BY <1>2, <1>10 DEF FirstMode, Modes
<1>12. CASE ~Has(x, ThinkClose)
  <2>1. \A k \in Nat : 1 <= k /\ k < e => ~At(s, ThinkClose, k)
    BY <1>5, <1>12, TrimmedHas
  <2>2. \A k \in Nat, t \in TagsOf(m) : i <= k /\ k < e => ~At(s, t, k)
    BY <1>6, <1>7, <1>10, <2>1 DEF TagsOf
  <2>3. Ahead(s, i, m).out = Delta(SubSeq(s, i, e - 1), Kind(m)) /\ Ahead(s, i, m).calls = <<>>
    BY <1>11, <2>2, AheadPlain
  <2>4. Ahead(s, 1, m).out = Delta(x, Kind(m)) /\ Ahead(s, 1, m).calls = <<>>
    BY <1>10, <2>3
  <2>5. PICK n : n = <<>>
    OBVIOUS
  <2>6. CASE th
    <3>1. Kind(m) = "reasoning_content"
      BY <1>10, <2>6 DEF FirstMode, Kind
    <3>2. parts.content = n /\ parts.reasoning = x
      <4>1. parts = [content |-> n, reasoning |-> x]
        BY <1>9, <1>12, <2>5, <2>6, Zenon
      <4>2. QED
        BY <4>1
    <3>3. Delta(x, "reasoning_content") \o Delta(n, "content") = Delta(x, "reasoning_content")
      BY <1>3, <2>5, OneKind
    <3>4. QED
      BY <1>10, <2>4, <3>1, <3>2, <3>3 DEF Agree
  <2>7. CASE ~th
    <3>1. Kind(m) = "content"
      BY <1>10, <2>7 DEF FirstMode, Kind
    <3>2. parts.content = x /\ parts.reasoning = n
      <4>1. parts = [content |-> x, reasoning |-> n]
        BY <1>9, <1>12, <2>5, <2>7, Zenon
      <4>2. QED
        BY <4>1
    <3>3. Delta(n, "reasoning_content") \o Delta(x, "content") = Delta(x, "content")
      BY <1>3, <2>5, OneKind
    <3>4. QED
      BY <1>10, <2>4, <3>1, <3>2, <3>3 DEF Agree
  <2>8. QED
    BY <2>6, <2>7
<1>13. CASE Has(x, ThinkClose)
  <2>1. th
    <3>1. Has(s, ThinkClose)
      BY <1>4, <1>5, <1>13, TrimmedHas, HasIs
    <3>2. QED
      BY <3>1 DEF RegularText
  <2>2. PICK f \in Nat : f = e - 1 /\ f < e /\ f <= Len(s) /\ 1 \in 1..(f + 1)
    BY <1>1, <1>2
  <2>3. PICK c \in Nat : FoundAt(s, f, 1, ThinkClose, x, c)
    <3>1. x = SubSeq(s, 1, f)
      BY <2>2
    <3>2. QED
      BY <1>4, <1>5, <1>13, <2>2, <3>1, WindowFind
  <2>4. PICK p \in Nat : p = c + Len(ThinkClose) /\ p <= e /\ 1 <= p
    <3>1. Len(ThinkClose) \in Nat
      BY <1>4, <1>5, LenProperties
    <3>2. QED
      BY <1>2, <2>2, <2>3, <3>1 DEF FoundAt
  <2>5. Before(x, ThinkClose) = SubSeq(s, 1, c - 1) /\ After(x, ThinkClose) = SubSeq(s, p, e - 1)
    BY <2>2, <2>3, <2>4 DEF FoundAt
  <2>6. /\ Ahead(s, 1, "reasoning").out =
             Delta(Before(x, ThinkClose), "reasoning_content") \o Ahead(s, p, "content").out
        /\ Ahead(s, 1, "reasoning").calls = Ahead(s, p, "content").calls
    <3>1. ThinkShown(s, x, c)
      BY <2>2, <2>3, AheadThink
    <3>2. QED
      BY <2>4, <3>1, Zenon DEF ThinkShown
  <2>7. PICK q \in Modes : q = "content"
    BY DEF Modes
  <2>8. \A k \in Nat, t \in TagsOf(q) : p <= k /\ k < e => ~At(s, t, k)
    BY <1>6, <1>7, <2>4, <2>7 DEF TagsOf
  <2>9. Ahead(s, p, q).out = Delta(SubSeq(s, p, e - 1), Kind(q)) /\ Ahead(s, p, q).calls = <<>>
    BY <2>4, <2>8, AheadPlain
  <2>10. Kind(q) = "content" /\ FirstMode(th) = "reasoning"
    BY <2>1, <2>7 DEF Kind, FirstMode
  <2>11. parts.content = After(x, ThinkClose) /\ parts.reasoning = Before(x, ThinkClose)
    BY <1>9, <1>13
  <2>12. QED
    BY <2>5, <2>6, <2>7, <2>9, <2>10, <2>11 DEF Agree
<1>14. QED
  BY <1>12, <1>13

\* Tool calls from place o on: the response does not end before them, and they are
\* shown as those of the text from there on.
Calling(s, e, o, a, r) ==
  /\ o \in Nat /\ 1 <= o /\ o < e /\ e = Len(s) + 1 /\ At(s, ToolOpen, o)
  /\ \A k \in Nat : 1 <= k /\ k < o => ~At(s, ToolOpen, k)
  /\ a = SubSeq(s, 1, o - 1) /\ r = SubSeq(s, o, Len(s))
  /\ parse_tool_calls(s).cleaned = a \o parse_tool_calls(r).cleaned
  /\ parse_tool_calls(s).calls = parse_tool_calls(r).calls
  /\ Ahead(s, o, "content") = [out |-> Delta(parse_tool_calls(r).cleaned, "content"),
                               calls |-> parse_tool_calls(r).calls]

\* A regular text has such calls if one begins before the response ends.
LEMMA CallingIs ==
  ASSUME NEW s \in Seq(Symbols), NEW th \in BOOLEAN, RegularText(s, th),
         NEW e, Limit(s, e), Has(SubSeq(s, 1, e - 1), ToolOpen)
  PROVE  \E o, a, r : Calling(s, e, o, a, r)
<1>1. PICK l \in Nat : Len(s) = l
  BY LenProperties
<1>2. PICK f \in Nat : f = e - 1 /\ f <= l /\ 1 \in 1..(f + 1) /\ e = f + 1
  BY <1>1 DEF Limit
<1>3. ToolOpen \in Seq(Symbols) /\ ToolOpen # <<>>
  BY TagsAre DEF Tags
<1>4. PICK n \in Nat : Len(ToolOpen) = n
  BY <1>3, LenProperties
<1>5. PICK j \in Nat : j >= 1 /\ At(s, ToolOpen, j) /\ j + n - 1 <= f
  <2>1. Has(SubSeq(s, 1, f), ToolOpen)
    BY <1>2
  <2>2. QED
    BY <1>1, <1>2, <1>3, <1>4, <2>1, WindowHas
<1>6. n >= 1
  BY <1>3, <1>4, <1>5, AtEnds
<1>7. Has(s, ToolOpen)
  BY <1>3, <1>5, HasIs
<1>8. PICK o \in 1..l : /\ o = Find(s, ToolOpen) /\ At(s, ToolOpen, o) /\ o <= j
                        /\ \A k \in Nat : 1 <= k /\ At(s, ToolOpen, k) => o <= k
  BY <1>1, <1>3, <1>5, <1>7, FindIs
<1>9. PICK a, r : a = SubSeq(s, 1, o - 1) /\ r = SubSeq(s, o, l)
  OBVIOUS
<1>10. From(s, ToolOpen) = r /\ Before(s, ToolOpen) = a
  BY <1>1, <1>8, <1>9 DEF From, Before
<1>11. parse_tool_calls(s).calls # <<>> /\ ~Stopped(r)
  BY <1>7, <1>10 DEF RegularText
<1>12. o \in Nat /\ 1 <= o /\ o < e /\ o \in 1..(l + 1)
  BY <1>2, <1>5, <1>6, <1>8
<1>13. e = l + 1
  <2> SUFFICES ASSUME e # l + 1 PROVE FALSE
    OBVIOUS
  <2>1. StopAt(s, e)
    BY <1>1 DEF Limit
  <2>2. PICK t \in Stops : At(s, t, e)
    BY <2>1 DEF StopAt
  <2>3. t \in Seq(Symbols) /\ t # <<>>
    BY TagsAre
  <2>4. PICK m \in Nat : Len(t) = m /\ e + m - 1 <= l
    BY <1>1, <1>2, <2>2, <2>3, AtEnds
  <2>5. e >= o /\ e \in Nat /\ l <= Len(s)
    BY <1>1, <1>2, <1>12
  <2>6. Has(SubSeq(s, o, l), t)
    BY <1>12, <2>2, <2>3, <2>4, <2>5, WindowHas
  <2>7. QED
    BY <1>9, <1>11, <2>6 DEF Stopped
<1>14. /\ parse_tool_calls(s).cleaned = a \o parse_tool_calls(r).cleaned
       /\ parse_tool_calls(s).calls = parse_tool_calls(r).calls
  BY <1>7, <1>10, <1>11, CallsSplit
<1>15. Ahead(s, o, "content") = Called(s, o)
  <2>1. ~StopAt(s, o)
    BY <1>12 DEF Limit
  <2>2. ~At(s, ThinkOpen, o)
    <3>1. ThinkOpen \in Seq(Symbols) /\ ThinkOpen # <<>>
      BY TagsAre DEF Tags
    <3>2. QED
      BY <1>12, <3>1, HasIs DEF RegularText
  <2>3. QED
    BY <1>1, <1>8, <1>12, <2>1, <2>2, AheadTag
<1>16. Called(s, o) = [out |-> Delta(parse_tool_calls(r).cleaned, "content"),
                       calls |-> parse_tool_calls(r).calls]
  BY <1>1, <1>9, <1>11, <1>14 DEF Called
<1>17. \A k \in Nat : 1 <= k /\ k < o => ~At(s, ToolOpen, k)
  BY <1>8
<1>18. Calling(s, e, o, a, r)
  BY <1>1, <1>8, <1>9, <1>12, <1>13, <1>14, <1>15, <1>16, <1>17, Zenon DEF Calling
<1>19. QED
  BY <1>18

\* Two parts of the content are one.
LEMMA ContentJoins ==
  ASSUME NEW s \in Seq(Symbols), NEW t \in Seq(Symbols)
  PROVE  /\ Delta(s, "content") \o Delta(t, "content") = Delta(s \o t, "content")
         /\ Delta(s, "content") \in Seq(Deltas) /\ Delta(t, "content") \in Seq(Deltas)
BY DeltaConcat, DeltaIs DEF Kinds

\* Tool calls.
LEMMA AgreeCalls ==
  ASSUME Apart, NEW s \in Seq(Symbols), NEW th \in BOOLEAN, RegularText(s, th),
         NEW e, Limit(s, e), NEW o, NEW a, NEW r, Calling(s, e, o, a, r),
         NEW parts, parts = parse_reasoning(parse_tool_calls(s).cleaned, th)
  PROVE  Agree(Ahead(s, 1, FirstMode(th)), parts.content, parts.reasoning,
               parse_tool_calls(s).calls)
<1>1. PICK l \in Nat : Len(s) = l /\ e = l + 1
  BY LenProperties DEF Calling
<1>2. PICK b, calls : b = parse_tool_calls(r).cleaned /\ calls = parse_tool_calls(r).calls
  OBVIOUS
<1>3. /\ o \in Nat /\ 1 <= o /\ o <= l /\ At(s, ToolOpen, o)
      /\ \A k \in Nat : 1 <= k /\ k < o => ~At(s, ToolOpen, k)
      /\ a = SubSeq(s, 1, o - 1) /\ r = SubSeq(s, o, l)
      /\ parse_tool_calls(s).cleaned = a \o b /\ parse_tool_calls(s).calls = calls
      /\ Ahead(s, o, "content").out = Delta(b, "content")
      /\ Ahead(s, o, "content").calls = calls
  <2>1. /\ o \in Nat /\ 1 <= o /\ o < e /\ At(s, ToolOpen, o)
        /\ \A k \in Nat : 1 <= k /\ k < o => ~At(s, ToolOpen, k)
        /\ a = SubSeq(s, 1, o - 1) /\ r = SubSeq(s, o, l)
        /\ parse_tool_calls(s).cleaned = a \o b /\ parse_tool_calls(s).calls = calls
        /\ Ahead(s, o, "content") = [out |-> Delta(b, "content"), calls |-> calls]
    BY <1>1, <1>2, Zenon DEF Calling
  <2>2. o <= l
    BY <1>1, <2>1
  <2>3. Ahead(s, o, "content").out = Delta(b, "content") /\ Ahead(s, o, "content").calls = calls
    BY <2>1
  <2>4. QED
    BY <2>1, <2>2, <2>3, Zenon
<1>4. a \in Seq(Symbols) /\ r \in Seq(Symbols)
  BY <1>1, <1>3, SliceIs
<1>5. b \in Seq(Symbols)
  BY <1>2, <1>4, ToolsAre DEF Tools
<1>6. \A t \in Tags : t \in Seq(Symbols) /\ t # <<>>
  BY TagsAre
<1>7. ThinkOpen \in Tags /\ ThinkClose \in Tags /\ ToolOpen \in Tags
  BY DEF Tags
<1>8. \A k \in Nat : 1 <= k => ~At(s, ThinkOpen, k)
  BY <1>6, <1>7, HasIs DEF RegularText
<1>9. Has(s, ToolOpen)
  BY <1>3, <1>6, <1>7, HasIs
<1>10. ~Has(a \o b, ThinkOpen) /\ (~th => ~Has(a \o b, ThinkClose))
  BY <1>3, <1>9, Zenon DEF RegularText
<1>11. parts = IF Has(a \o b, ThinkClose)
               THEN [content |-> After(a \o b, ThinkClose), reasoning |-> Before(a \o b, ThinkClose)]
               ELSE IF th THEN [content |-> <<>>, reasoning |-> a \o b]
               ELSE [content |-> a \o b, reasoning |-> <<>>]
  BY <1>3, <1>10 DEF parse_reasoning
<1>12. PICK m \in Modes : m = "content"
  BY DEF Modes
<1>13. Kind(m) = "content"
  BY <1>12 DEF Kind
<1>14. ASSUME NEW i \in Nat, 1 <= i, i <= o
       PROVE  /\ Ahead(s, i, m).out = Delta(SubSeq(s, i, o - 1) \o b, "content")
              /\ Ahead(s, i, m).calls = calls
  <2>1. Free(s, i, o, m)
    <3>1. \A k \in Nat : 1 <= k /\ k < o => ~StopAt(s, k)
      BY <1>1, <1>3 DEF Limit
    <3>2. QED
      <4> SUFFICES ASSUME NEW k \in i..(o - 1)
                   PROVE  ~StopAt(s, k) /\ \A t \in TagsOf(m) : ~At(s, t, k)
        BY DEF Free
      <4>1. k \in Nat /\ 1 <= k /\ k < o
        BY <1>3, <1>14
      <4>2. TagsOf(m) = {ThinkOpen, ToolOpen}
        BY <1>12 DEF TagsOf
      <4>3. ~At(s, ThinkOpen, k) /\ ~At(s, ToolOpen, k)
        BY <1>3, <1>8, <4>1
      <4>4. QED
        BY <3>1, <4>1, <4>2, <4>3
  <2>2. /\ Ahead(s, i, m).out = Delta(SubSeq(s, i, o - 1), Kind(m)) \o Ahead(s, o, m).out
        /\ Ahead(s, i, m).calls = Ahead(s, o, m).calls
    <3>1. o <= Len(s) + 1
      BY <1>1, <1>3
    <3>2. QED
      BY <1>3, <1>14, <2>1, <3>1, Skip
  <2>3. SubSeq(s, i, o - 1) \in Seq(Symbols)
    BY <1>1, <1>3, <1>14, SliceIs
  <2>4. QED
    BY <1>3, <1>5, <1>12, <1>13, <2>2, <2>3, ContentJoins
<1>15. CASE ~th
  <2>1. PICK n, x : n = <<>> /\ x = a \o b
    OBVIOUS
  <2>2. x \in Seq(Symbols)
    BY <1>4, <1>5, <2>1, ConcatProperties
  <2>3. parts.content = x /\ parts.reasoning = n
    <3>1. parts = [content |-> x, reasoning |-> n]
      BY <1>10, <1>11, <1>15, <2>1, Zenon
    <3>2. QED
      BY <3>1
  <2>4. Ahead(s, 1, m).out = Delta(x, "content") /\ Ahead(s, 1, m).calls = calls
    BY <1>3, <1>14, <2>1
  <2>5. Delta(n, "reasoning_content") \o Delta(x, "content") = Delta(x, "content")
    BY <2>1, <2>2, OneKind
  <2>6. FirstMode(th) = m
    BY <1>12, <1>15 DEF FirstMode
  <2>7. QED
    BY <1>3, <2>3, <2>4, <2>5, <2>6 DEF Agree
<1>16. CASE th
  <2>1. Has(s, ThinkClose) /\ ~Has(Before(s, ThinkClose), ToolOpen)
    BY <1>9, <1>16 DEF RegularText
  <2>2. PICK n \in Nat, h \in Nat : /\ n = Len(ThinkClose) /\ n >= 1 /\ h = Len(ToolOpen)
                                    /\ h >= 1 /\ o + h - 1 <= l
    <3>1. PICK j \in Nat : 1 <= j /\ At(s, ThinkClose, j)
      BY <1>6, <1>7, <2>1, HasIs
    <3>2. Len(ThinkClose) \in Nat /\ Len(ThinkClose) >= 1
      BY <1>6, <1>7, <3>1, AtEnds
    <3>3. QED
      BY <1>1, <1>3, <1>6, <1>7, <3>2, AtEnds
  <2>3. PICK d \in 1..l : d = Find(s, ThinkClose) /\ At(s, ThinkClose, d) /\ d + n - 1 <= l
    <3>1. Find(s, ThinkClose) \in 1..l /\ At(s, ThinkClose, Find(s, ThinkClose))
      BY <1>1, <1>6, <1>7, <2>1, FindIs
    <3>2. QED
      BY <1>1, <1>6, <1>7, <2>2, <3>1, AtEnds
  <2>4. d + n - 1 < o
    <3>1. ~(o + h - 1 < d)
      <4> SUFFICES ASSUME o + h - 1 < d PROVE FALSE
        OBVIOUS
      <4>1. PICK f \in Nat : f = d - 1 /\ f <= Len(s) /\ 1 \in 1..(f + 1) /\ o + h - 1 <= f
        <5>1. PICK f \in Nat : f = d - 1 /\ f <= l /\ 1 \in 1..(f + 1)
          BY <1>1, <2>3
        <5>2. o + h - 1 <= f
          BY <1>3, <2>2, <5>1
        <5>3. QED
          BY <1>1, <5>1, <5>2
      <4>2. Before(s, ThinkClose) = SubSeq(s, 1, f)
        BY <2>3, <4>1 DEF Before
      <4>3. Has(SubSeq(s, 1, f), ToolOpen)
        BY <1>3, <1>6, <1>7, <2>2, <4>1, WindowHas
      <4>4. QED
        BY <2>1, <4>2, <4>3
    <3>2. d > o + h - 1 \/ o > d + n - 1
      <4>1. ~Touch(ThinkClose, ToolOpen)
        BY DEF Apart
      <4>2. d \in Nat /\ 1 <= d
        BY <2>3
      <4>3. QED
        BY <1>3, <1>6, <1>7, <2>2, <2>3, <4>1, <4>2, Separate
    <3>3. QED
      BY <1>3, <2>2, <2>3, <3>1, <3>2
  <2>5. PICK f \in Nat : f = o - 1 /\ f < e /\ f <= Len(s) /\ 1 \in 1..(f + 1) /\ d + n - 1 <= f
    BY <1>1, <1>3, <2>2, <2>3, <2>4
  <2>6. a = SubSeq(s, 1, f) /\ Has(a, ThinkClose)
    <3>1. d \in Nat /\ d >= 1
      BY <2>3
    <3>2. QED
      BY <1>3, <1>6, <1>7, <2>2, <2>3, <2>5, <3>1, WindowHas
  <2>7. PICK c \in Nat : FoundAt(s, f, 1, ThinkClose, a, c)
    BY <1>6, <1>7, <2>5, <2>6, WindowFind
  <2>8. PICK p \in Nat : p = c + n /\ 1 <= p /\ p <= o
    BY <1>3, <2>2, <2>5, <2>7 DEF FoundAt
  <2>9. After(a, ThinkClose) = SubSeq(s, p, o - 1)
    BY <2>2, <2>5, <2>7, <2>8 DEF FoundAt
  <2>10. /\ Ahead(s, 1, "reasoning").out =
              Delta(Before(a, ThinkClose), "reasoning_content") \o Ahead(s, p, "content").out
         /\ Ahead(s, 1, "reasoning").calls = Ahead(s, p, "content").calls
    <3>1. ThinkShown(s, a, c)
      BY <2>5, <2>7, AheadThink
    <3>2. QED
      BY <2>2, <2>8, <3>1, Zenon DEF ThinkShown
  <2>11. /\ Has(a \o b, ThinkClose) /\ Before(a \o b, ThinkClose) = Before(a, ThinkClose)
         /\ After(a \o b, ThinkClose) = After(a, ThinkClose) \o b
    <3>1. PICK t \in Seq(Symbols) : t = ThinkClose /\ t # <<>>
      BY <1>6, <1>7
    <3>2. Has(a, t)
      BY <2>6, <3>1
    <3>3. /\ Has(a \o b, t) /\ Before(a \o b, t) = Before(a, t)
          /\ After(a \o b, t) = After(a, t) \o b
      BY <1>4, <1>5, <3>1, <3>2, CutFirst
    <3>4. QED
      BY <3>1, <3>3, Zenon
  <2>12. /\ parts.content = SubSeq(s, p, o - 1) \o b
         /\ parts.reasoning = Before(a, ThinkClose)
    <3>1. PICK x, y : x = SubSeq(s, p, o - 1) \o b /\ y = Before(a, ThinkClose)
      OBVIOUS
    <3>2. parts = [content |-> x, reasoning |-> y]
      BY <1>11, <2>9, <2>11, <3>1, Zenon
    <3>3. parts.content = x /\ parts.reasoning = y
      BY <3>2
    <3>4. QED
      BY <3>1, <3>3
  <2>13. /\ Ahead(s, p, m).out = Delta(SubSeq(s, p, o - 1) \o b, "content")
         /\ Ahead(s, p, m).calls = calls
    BY <1>14, <2>8
  <2>14. FirstMode(th) = "reasoning"
    BY <1>16 DEF FirstMode
  <2>15. QED
    <3>1. /\ Ahead(s, p, "content").out = Delta(parts.content, "content")
          /\ Ahead(s, p, "content").calls = calls
      BY <1>12, <2>12, <2>13, Zenon
    <3>2. Ahead(s, 1, "reasoning").out =
            Delta(parts.reasoning, "reasoning_content") \o Delta(parts.content, "content")
      BY <2>10, <2>12, <3>1, Zenon
    <3>3. Ahead(s, 1, "reasoning").calls = parse_tool_calls(s).calls
      BY <1>3, <2>10, <3>1, Zenon
    <3>4. QED
      BY <2>14, <3>2, <3>3, Zenon DEF Agree
<1>17. QED
  BY <1>15, <1>16

\* On a regular text the reference and the batch parsers agree.
LEMMA ReferenceIsBatch ==
  ASSUME Apart, Inv, Regular
  PROVE  Agree(Reference, Batch(text, thinking).content, Batch(text, thinking).reasoning,
               Batch(text, thinking).calls)
<1>1. PICK s, th : s = text /\ th = thinking
  OBVIOUS
<1>2. s \in Seq(Symbols) /\ th \in BOOLEAN
  BY <1>1, TagsAre DEF Inv
<1>3. RegularText(s, th)
  BY <1>1, Zenon DEF Regular, RegularText
<1>4. PICK e : Limit(s, e) /\ Trimmed(s) = SubSeq(s, 1, e - 1)
  BY <1>2, TrimIs
<1>5. PICK x : x = SubSeq(s, 1, e - 1)
  OBVIOUS
<1>6. PICK parts, calls : /\ parts = parse_reasoning(parse_tool_calls(x).cleaned, th)
                          /\ calls = parse_tool_calls(x).calls
  OBVIOUS
<1>7. Batch(s, th) = [content |-> parts.content, reasoning |-> parts.reasoning, calls |-> calls]
  BY <1>4, <1>5, <1>6, Zenon DEF Batch, Trimmed
<1>8. Reference = Ahead(s, 1, FirstMode(th))
  <2>1. PICK l \in Nat : Len(s) = l
    BY <1>2, LenProperties
  <2>2. l - 1 + 1 = l
    OBVIOUS
  <2>3. QED
    BY <1>1, <2>1, <2>2, RemainingDef DEF Reference, Ahead, FirstMode
<1>9. SUFFICES Agree(Ahead(s, 1, FirstMode(th)), parts.content, parts.reasoning, calls)
  BY <1>1, <1>7, <1>8
<1>10. CASE ~Has(x, ToolOpen)
  <2>1. x \in Seq(Symbols)
    <3>1. e \in Nat /\ 1 <= e /\ e <= Len(s) + 1 /\ Len(s) \in Nat
      BY <1>2, <1>4, LenProperties DEF Limit
    <3>2. QED
      BY <1>2, <1>5, <3>1, SliceIs
  <2>2. parse_tool_calls(x) = [cleaned |-> x, calls |-> <<>>]
    BY <1>10, <2>1, NoCalls
  <2>3. parts = parse_reasoning(x, th) /\ calls = <<>>
    BY <1>6, <2>2
  <2>4. QED
    BY <1>2, <1>3, <1>4, <1>5, <1>10, <2>3, AgreePlain
<1>11. CASE Has(x, ToolOpen)
  <2>1. PICK o, a, r : Calling(s, e, o, a, r)
    BY <1>2, <1>3, <1>4, <1>5, <1>11, CallingIs
  <2>2. x = s
    <3>1. e = Len(s) + 1 /\ Len(s) \in Nat
      BY <1>2, <2>1, LenProperties DEF Calling
    <3>2. e - 1 = Len(s)
      BY <3>1
    <3>3. QED
      BY <1>2, <1>5, <3>2, Whole
  <2>3. parts = parse_reasoning(parse_tool_calls(s).cleaned, th)
        /\ calls = parse_tool_calls(s).calls
    BY <1>6, <2>2, Zenon
  <2>4. QED
    BY <1>2, <1>3, <1>4, <2>1, <2>3, AgreeCalls
<1>12. QED
  BY <1>10, <1>11

\* A streamed and a collected response of a regular text say the same: the same
\* reasoning, the same content and the same tool calls from _stream_response and from
\* the branch of chat_completions that waits for all of the text.
THEOREM StreamAgreesWithBatch ==
  ASSUME Apart
  PROVE  Spec => []BatchAgrees
<1>1. Inv => BatchAgrees
  <2> SUFFICES ASSUME Inv, phase \in {"stopped", "ended"}, Regular
               PROVE  /\ parser.out =
                           Delta(Batch(text, thinking).reasoning, "reasoning_content")
                             \o Delta(Batch(text, thinking).content, "content")
                      /\ parser.calls = Batch(text, thinking).calls
    BY Zenon DEF BatchAgrees
  <2>1. parser.out = Reference.out /\ parser.calls = Reference.calls
    BY DEF Inv
  <2>2. QED
    BY <2>1, ReferenceIsBatch, Zenon DEF Agree
<1>2. QED
  BY <1>1, StreamInvariant, PTL
=============================================================================
