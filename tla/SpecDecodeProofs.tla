------------------------- MODULE SpecDecodeProofs -------------------------
(***************************************************************************)
(* Theorems about SpecDecode, chains and trees, for every vocabulary,      *)
(* block length, tree budget, generation budget and set of prompts, and    *)
(* against every draft: what is emitted is the target's greedy             *)
(* continuation, and attention, recurrent and convolution state stand at   *)
(* its end, whether the block was rolled back, replayed, cut or a path was *)
(* compacted.                                                              *)
(***************************************************************************)
EXTENDS SpecDecode, SequenceTheorems, WellFoundedInduction, TLAPS

-----------------------------------------------------------------------------
(* Hypotheses                                                              *)

\* A choice of the target is a token.
TargetChooses == \A s \in Seq(Token) : Target(s) \in Token

-----------------------------------------------------------------------------
(* Sequences                                                               *)

LEMMA Take ==
  ASSUME NEW S, NEW t \in Seq(S), NEW n \in 0..Len(t)
  PROVE  /\ SubSeq(t, 1, n) \in Seq(S) /\ Len(SubSeq(t, 1, n)) = n
         /\ \A i \in 1..n : SubSeq(t, 1, n)[i] = t[i]
BY SubSeqProperties

LEMMA TakeAll ==
  ASSUME NEW S, NEW t \in Seq(S)
  PROVE  SubSeq(t, 1, Len(t)) = t
OBVIOUS

LEMMA TakeTake ==
  ASSUME NEW S, NEW t \in Seq(S), NEW n \in 0..Len(t), NEW m \in 0..n
  PROVE  SubSeq(SubSeq(t, 1, n), 1, m) = SubSeq(t, 1, m)
<1> DEFINE u == SubSeq(t, 1, n)
<1>1. u \in Seq(S) /\ Len(u) = n /\ \A i \in 1..n : u[i] = t[i]
  BY Take
<1> HIDE DEF u
<1>2. /\ SubSeq(u, 1, m) \in Seq(S) /\ Len(SubSeq(u, 1, m)) = m
      /\ \A i \in 1..m : SubSeq(u, 1, m)[i] = u[i]
  BY <1>1, Take
<1>3. /\ SubSeq(t, 1, m) \in Seq(S) /\ Len(SubSeq(t, 1, m)) = m
      /\ \A i \in 1..m : SubSeq(t, 1, m)[i] = t[i]
  BY Take
<1>4. SubSeq(u, 1, m) = SubSeq(t, 1, m)
  BY <1>1, <1>2, <1>3, SeqEqual
<1>5. QED
  BY <1>4 DEF u

\* A prefix of a concatenation that reaches into its second part.
LEMMA TakeConcat ==
  ASSUME NEW S, NEW s \in Seq(S), NEW t \in Seq(S), NEW n \in 0..Len(t)
  PROVE  SubSeq(s \o t, 1, Len(s) + n) = s \o SubSeq(t, 1, n)
<1> DEFINE u == SubSeq(t, 1, n)
           w == s \o t
<1>1. u \in Seq(S) /\ Len(u) = n /\ \A i \in 1..n : u[i] = t[i]
  BY Take
<1>2. /\ w \in Seq(S) /\ Len(w) = Len(s) + Len(t)
      /\ \A i \in 1..(Len(s) + Len(t)) : w[i] = IF i <= Len(s) THEN s[i] ELSE t[i - Len(s)]
  BY ConcatProperties
<1> HIDE DEF u, w
<1>3. /\ s \o u \in Seq(S) /\ Len(s \o u) = Len(s) + n
      /\ \A i \in 1..(Len(s) + n) : (s \o u)[i] = IF i <= Len(s) THEN s[i] ELSE u[i - Len(s)]
  BY <1>1, ConcatProperties
<1>4. Len(s) + n \in 0..Len(w)
  BY <1>2
<1>5. /\ SubSeq(w, 1, Len(s) + n) \in Seq(S) /\ Len(SubSeq(w, 1, Len(s) + n)) = Len(s) + n
      /\ \A i \in 1..(Len(s) + n) : SubSeq(w, 1, Len(s) + n)[i] = w[i]
  BY <1>2, <1>4, Take
<1>6. \A i \in 1..(Len(s) + n) : SubSeq(w, 1, Len(s) + n)[i] = (s \o u)[i]
  <2> SUFFICES ASSUME NEW i \in 1..(Len(s) + n)
               PROVE  w[i] = (s \o u)[i]
    BY <1>5
  <2>1. i \in 1..(Len(s) + Len(t)) /\ (i > Len(s) => i - Len(s) \in 1..n)
    OBVIOUS
  <2>2. QED
    BY <1>1, <1>2, <1>3, <2>1
<1>7. SubSeq(w, 1, Len(s) + n) = s \o u
  BY <1>3, <1>5, <1>6, SeqEqual
<1>8. QED
  BY <1>7 DEF u, w

\* A prefix of a concatenation that stays in its first part.
LEMMA TakeFirst ==
  ASSUME NEW S, NEW s \in Seq(S), NEW t \in Seq(S), NEW n \in 0..Len(s)
  PROVE  SubSeq(s \o t, 1, n) = SubSeq(s, 1, n)
<1> DEFINE w == s \o t
<1>2. /\ w \in Seq(S) /\ Len(w) = Len(s) + Len(t)
      /\ \A i \in 1..(Len(s) + Len(t)) : w[i] = IF i <= Len(s) THEN s[i] ELSE t[i - Len(s)]
  BY ConcatProperties
<1> HIDE DEF w
<1>3. /\ SubSeq(s, 1, n) \in Seq(S) /\ Len(SubSeq(s, 1, n)) = n
      /\ \A i \in 1..n : SubSeq(s, 1, n)[i] = s[i]
  BY Take
<1>4. n \in 0..Len(w)
  BY <1>2
<1>5. /\ SubSeq(w, 1, n) \in Seq(S) /\ Len(SubSeq(w, 1, n)) = n
      /\ \A i \in 1..n : SubSeq(w, 1, n)[i] = w[i]
  BY <1>2, <1>4, Take
<1>6. \A i \in 1..n : w[i] = s[i]
  BY <1>2
<1>7. SubSeq(w, 1, n) = SubSeq(s, 1, n)
  BY <1>3, <1>5, <1>6, SeqEqual
<1>8. QED
  BY <1>7 DEF w

LEMMA PrefixedFacts ==
  ASSUME NEW S, NEW s \in Seq(S)
  PROVE  /\ Prefixed(s) \in Seq(Seq(S)) /\ Len(Prefixed(s)) = Len(s)
         /\ \A i \in 1..Len(s) : Prefixed(s)[i] = SubSeq(s, 1, i)
<1>1. \A i \in 1..Len(s) : SubSeq(s, 1, i) \in Seq(S)
  BY Take
<1>2. QED
  BY <1>1 DEF Prefixed

\* The slots of a context's prefix are the first slots of the context.
LEMMA PrefixedTake ==
  ASSUME NEW S, NEW s \in Seq(S), NEW n \in 0..Len(s)
  PROVE  SubSeq(Prefixed(s), 1, n) = Prefixed(SubSeq(s, 1, n))
<1> DEFINE u == SubSeq(s, 1, n)
           P == Prefixed(s)
           Q == Prefixed(u)
<1>1. u \in Seq(S) /\ Len(u) = n /\ \A i \in 1..n : SubSeq(u, 1, i) = SubSeq(s, 1, i)
  BY Take, TakeTake
<1> HIDE DEF u
<1>2. P \in Seq(Seq(S)) /\ Len(P) = Len(s) /\ \A i \in 1..Len(s) : P[i] = SubSeq(s, 1, i)
  BY PrefixedFacts
<1>3. Q \in Seq(Seq(S)) /\ Len(Q) = n /\ \A i \in 1..n : Q[i] = SubSeq(u, 1, i)
  BY <1>1, PrefixedFacts
<1> HIDE DEF P, Q
<1>4. /\ SubSeq(P, 1, n) \in Seq(Seq(S)) /\ Len(SubSeq(P, 1, n)) = n
      /\ \A i \in 1..n : SubSeq(P, 1, n)[i] = P[i]
  BY <1>2, Take
<1>5. \A i \in 1..n : SubSeq(P, 1, n)[i] = Q[i]
  <2> SUFFICES ASSUME NEW i \in 1..n PROVE SubSeq(P, 1, n)[i] = Q[i]
    OBVIOUS
  <2>1. i \in 1..Len(s) /\ SubSeq(P, 1, n)[i] = P[i]
    BY <1>4
  <2>2. P[i] = SubSeq(s, 1, i) /\ Q[i] = SubSeq(u, 1, i) /\ SubSeq(u, 1, i) = SubSeq(s, 1, i)
    BY <1>1, <1>2, <1>3, <2>1
  <2>3. QED
    BY <2>1, <2>2
<1>6. SubSeq(P, 1, n) = Q
  BY <1>3, <1>4, <1>5, SeqEqual
<1>7. QED
  BY <1>6 DEF P, Q, u

\* A sequence in two pieces.
LEMMA Pieces ==
  ASSUME NEW S, NEW p \in Seq(S), NEW c \in Seq(S), NEW q \in Seq(S), Len(q) = Len(p) + Len(c),
         \A i \in 1..Len(p) : q[i] = p[i],
         \A i \in 1..Len(c) : q[Len(p) + i] = c[i]
  PROVE  p \o c = q
<1> DEFINE x == p \o c
<1>1. /\ x \in Seq(S) /\ Len(x) = Len(p) + Len(c)
      /\ \A i \in 1..(Len(p) + Len(c)) : x[i] = IF i <= Len(p) THEN p[i] ELSE c[i - Len(p)]
  BY ConcatProperties
<1> HIDE DEF x
<1>2. PICK a \in Nat, b \in Nat : a = Len(p) /\ b = Len(c)
  BY LenProperties
<1>3. ASSUME NEW i \in 1..(a + b) PROVE x[i] = q[i]
  <2>1. CASE i <= a
    BY <1>1, <1>2, <2>1
  <2>2. CASE i > a
    <3>1. i - a \in 1..b /\ a + (i - a) = i /\ ~(i <= a)
      BY <2>2
    <3>2. x[i] = c[i - a]
      BY <1>1, <1>2, <3>1
    <3>3. q[a + (i - a)] = c[i - a]
      BY <1>2, <3>1
    <3>4. QED
      BY <3>1, <3>2, <3>3
  <2>3. QED
    BY <2>1, <2>2
<1>4. x = q
  BY <1>1, <1>2, <1>3, SeqEqual
<1>5. QED
  BY <1>4 DEF x

\* The slots a block adds after a context.
LEMMA PrefixedConcat ==
  ASSUME NEW S, NEW s \in Seq(S), NEW t \in Seq(S),
         NEW c \in Seq(Seq(S)), Len(c) = Len(t),
         \A n \in 1..Len(t) : c[n] = s \o SubSeq(t, 1, n)
  PROVE  Prefixed(s) \o c = Prefixed(s \o t)
<1> DEFINE w == s \o t
           P == Prefixed(s)
           Q == Prefixed(w)
<1>1. w \in Seq(S) /\ Len(w) = Len(s) + Len(t)
  BY ConcatProperties
<1>2. /\ \A i \in 1..Len(s) : SubSeq(w, 1, i) = SubSeq(s, 1, i)
      /\ \A n \in 1..Len(t) : SubSeq(w, 1, Len(s) + n) = s \o SubSeq(t, 1, n)
  <2>1. ASSUME NEW i \in 1..Len(s) PROVE SubSeq(s \o t, 1, i) = SubSeq(s, 1, i)
    <3>1. i \in 0..Len(s)
      OBVIOUS
    <3>2. QED
      BY <3>1, TakeFirst
  <2>2. ASSUME NEW n \in 1..Len(t)
        PROVE  SubSeq(s \o t, 1, Len(s) + n) = s \o SubSeq(t, 1, n)
    <3>1. n \in 0..Len(t)
      OBVIOUS
    <3>2. QED
      BY <3>1, TakeConcat
  <2>3. QED
    BY <2>1, <2>2
<1> HIDE DEF w
<1>3. P \in Seq(Seq(S)) /\ Len(P) = Len(s) /\ \A i \in 1..Len(s) : P[i] = SubSeq(s, 1, i)
  BY PrefixedFacts
<1>4. Q \in Seq(Seq(S)) /\ Len(Q) = Len(w) /\ \A i \in 1..Len(w) : Q[i] = SubSeq(w, 1, i)
  BY <1>1, PrefixedFacts
<1> HIDE DEF P, Q
<1>5. \A i \in 1..Len(P) : Q[i] = P[i]
  BY <1>1, <1>2, <1>3, <1>4
<1>6. \A i \in 1..Len(c) : Q[Len(P) + i] = c[i]
  <2> SUFFICES ASSUME NEW i \in 1..Len(t) PROVE Q[Len(s) + i] = c[i]
    BY <1>3
  <2>1. Len(s) + i \in 1..Len(w)
    BY <1>1
  <2>2. QED
    BY <1>2, <1>4, <2>1
<1>7. Len(Q) = Len(P) + Len(c)
  BY <1>1, <1>3, <1>4
<1>8. P \o c = Q
  BY <1>3, <1>4, <1>5, <1>6, <1>7, Pieces
<1>9. QED
  BY <1>8 DEF P, Q, w

-----------------------------------------------------------------------------
(* The convolution window                                                  *)

Column == Token \cup {Pad}

LEMMA WindowFacts ==
  ASSUME NEW s \in Seq(Token)
  PROVE  /\ s \in Seq(Column)
         /\ Window(s) \in Seq(Column) /\ Len(Window(s)) = 3
         /\ \A j \in 1..3 :
              Window(s)[j] = IF Len(s) + j <= 3 THEN Pad ELSE s[Len(s) + j - 3]
<1> DEFINE zeros == <<Pad, Pad, Pad>>
           padded == zeros \o s
<1>1. s \in Seq(Column)
  BY DEF Column
<1>2. zeros \in Seq(Column) /\ Len(zeros) = 3 /\ \A i \in 1..3 : zeros[i] = Pad
  BY DEF Column
<1> HIDE DEF zeros
<1>3. /\ padded \in Seq(Column) /\ Len(padded) = 3 + Len(s)
      /\ \A i \in 1..(3 + Len(s)) : padded[i] = IF i <= 3 THEN zeros[i] ELSE s[i - 3]
  <2>1. /\ padded \in Seq(Column) /\ Len(padded) = Len(zeros) + Len(s)
        /\ \A i \in 1..(Len(zeros) + Len(s)) :
             padded[i] = IF i <= Len(zeros) THEN zeros[i] ELSE s[i - Len(zeros)]
    BY <1>1, <1>2, ConcatProperties
  <2>2. QED
    BY <1>2, <2>1
<1>4. Window(s) = SubSeq(padded, Len(s) + 1, Len(s) + 3)
  BY DEF Window, ConvWidth, zeros
<1> HIDE DEF padded
<1>5. \A i \in (Len(s) + 1)..(Len(s) + 3) : padded[i] \in Column
  BY <1>3
<1>6. /\ Window(s) \in Seq(Column) /\ Len(Window(s)) = 3
      /\ \A j \in 1..3 : Window(s)[j] = padded[Len(s) + j]
  <2>1. Len(s) + 1 \in Int /\ Len(s) + 3 \in Int /\ Len(s) \in Nat
    OBVIOUS
  <2> DEFINE W == SubSeq(padded, Len(s) + 1, Len(s) + 3)
  <2>2. /\ W \in Seq(Column)
        /\ Len(W) = IF Len(s) + 1 <= Len(s) + 3 THEN Len(s) + 3 - (Len(s) + 1) + 1 ELSE 0
        /\ \A j \in 1..(Len(s) + 3 - (Len(s) + 1) + 1) : W[j] = padded[Len(s) + 1 + j - 1]
    BY <1>5, <2>1, SubSeqProperties
  <2> HIDE DEF W
  <2>3. \A j \in 1..3 : W[j] = padded[Len(s) + j]
    <3> SUFFICES ASSUME NEW j \in 1..3 PROVE W[j] = padded[Len(s) + j]
      OBVIOUS
    <3>1. j \in 1..(Len(s) + 3 - (Len(s) + 1) + 1) /\ Len(s) + 1 + j - 1 = Len(s) + j
      BY <2>1
    <3>2. QED
      BY <2>2, <3>1
  <2>4. W \in Seq(Column) /\ Len(W) = 3
    BY <2>1, <2>2
  <2>5. QED
    BY <1>4, <2>3, <2>4 DEF W
<1>7. \A j \in 1..3 : Window(s)[j] = IF Len(s) + j <= 3 THEN Pad ELSE s[Len(s) + j - 3]
  <2> SUFFICES ASSUME NEW j \in 1..3
               PROVE  padded[Len(s) + j] = IF Len(s) + j <= 3 THEN Pad ELSE s[Len(s) + j - 3]
    BY <1>6
  <2>1. Len(s) + j \in 1..(3 + Len(s))
    OBVIOUS
  <2>2. CASE Len(s) + j <= 3
    BY <1>2, <1>3, <2>1, <2>2
  <2>3. CASE Len(s) + j > 3
    BY <1>3, <2>1, <2>3
  <2>4. QED
    BY <2>2, <2>3
<1>8. QED
  BY <1>1, <1>6, <1>7

\* Three columns of an input.
LEMMA ThreeFrom ==
  ASSUME NEW S, NEW w \in Seq(S), NEW n \in Nat, n + 3 <= Len(w)
  PROVE  /\ SubSeq(w, n + 1, n + 3) \in Seq(S) /\ Len(SubSeq(w, n + 1, n + 3)) = 3
         /\ \A j \in 1..3 : SubSeq(w, n + 1, n + 3)[j] = w[n + j]
<1> DEFINE lo == n + 1
           hi == n + 3
           x == SubSeq(w, lo, hi)
<1>1. /\ lo \in Nat /\ hi \in Nat /\ lo <= hi /\ hi - lo + 1 = 3
      /\ \A i \in lo..hi : w[i] \in S
      /\ \A j \in 1..3 : lo + j - 1 = n + j
  OBVIOUS
<1> HIDE DEF lo, hi
<1>2. /\ x \in Seq(S) /\ Len(x) = IF lo <= hi THEN hi - lo + 1 ELSE 0
      /\ \A j \in 1..(hi - lo + 1) : x[j] = w[lo + j - 1]
  BY <1>1, SubSeqProperties
<1> HIDE DEF x
<1>3. x \in Seq(S) /\ Len(x) = 3 /\ \A j \in 1..3 : x[j] = w[n + j]
  BY <1>1, <1>2
<1>4. QED
  BY <1>3 DEF x, lo, hi

\* Three columns of the old window and a block: the window after n of its tokens.
LEMMA WindowSlides ==
  ASSUME NEW s \in Seq(Token), NEW t \in Seq(Token), NEW n \in 0..Len(t)
  PROVE  SubSeq(Window(s) \o t, n + 1, n + ConvWidth) = Window(s \o SubSeq(t, 1, n))
<1> DEFINE u == SubSeq(t, 1, n)
           v == s \o u
           a == Window(s)
           w == a \o t
           z == Window(v)
<1>1. u \in Seq(Token) /\ Len(u) = n /\ \A i \in 1..n : u[i] = t[i]
  BY Take
<1> HIDE DEF u
<1>2. /\ v \in Seq(Token) /\ Len(v) = Len(s) + n
      /\ \A i \in 1..(Len(s) + n) : v[i] = IF i <= Len(s) THEN s[i] ELSE u[i - Len(s)]
  BY <1>1, ConcatProperties
<1> HIDE DEF v
<1>3. /\ t \in Seq(Column) /\ a \in Seq(Column) /\ Len(a) = 3
      /\ \A j \in 1..3 : a[j] = IF Len(s) + j <= 3 THEN Pad ELSE s[Len(s) + j - 3]
  BY WindowFacts
<1>4. /\ z \in Seq(Column) /\ Len(z) = 3
      /\ \A j \in 1..3 : z[j] = IF Len(v) + j <= 3 THEN Pad ELSE v[Len(v) + j - 3]
  BY <1>2, WindowFacts
<1> HIDE DEF a, z
<1>5. /\ w \in Seq(Column) /\ Len(w) = 3 + Len(t)
      /\ \A i \in 1..(3 + Len(t)) : w[i] = IF i <= 3 THEN a[i] ELSE t[i - 3]
  <2>1. /\ w \in Seq(Column) /\ Len(w) = Len(a) + Len(t)
        /\ \A i \in 1..(Len(a) + Len(t)) : w[i] = IF i <= Len(a) THEN a[i] ELSE t[i - Len(a)]
    BY <1>3, ConcatProperties
  <2>2. QED
    BY <1>3, <2>1
<1> HIDE DEF w
<1> DEFINE x == SubSeq(w, n + 1, n + 3)
<1>6. /\ x \in Seq(Column) /\ Len(x) = 3
      /\ \A j \in 1..3 : x[j] = w[n + j]
  BY <1>5, ThreeFrom
<1> HIDE DEF x
<1>7. \A j \in 1..3 : x[j] = z[j]
  <2> SUFFICES ASSUME NEW j \in 1..3 PROVE w[n + j] = z[j]
    BY <1>6
  <2>1. n + j \in 1..(3 + Len(t)) /\ Len(v) + j = Len(s) + (n + j)
    BY <1>2
  <2>2. CASE n + j <= 3
    <3>1. w[n + j] = IF Len(s) + (n + j) <= 3 THEN Pad ELSE s[Len(s) + (n + j) - 3]
      <4>1. n + j \in 1..3
        BY <2>1, <2>2
      <4>2. w[n + j] = a[n + j]
        BY <1>5, <2>1, <2>2
      <4>3. QED
        BY <1>3, <4>1, <4>2
    <3>2. Len(s) + (n + j) > 3 => v[Len(v) + j - 3] = s[Len(s) + (n + j) - 3]
      BY <1>2, <2>1, <2>2
    <3>3. z[j] = IF Len(s) + (n + j) <= 3 THEN Pad ELSE v[Len(v) + j - 3]
      BY <1>4, <2>1
    <3>4. CASE Len(s) + (n + j) <= 3
      BY <3>1, <3>3, <3>4
    <3>5. CASE Len(s) + (n + j) > 3
      <4>1. ~(Len(s) + (n + j) <= 3)
        BY <3>5
      <4>2. QED
        BY <3>1, <3>2, <3>3, <3>5, <4>1
    <3>6. QED
      BY <3>4, <3>5
  <2>3. CASE n + j > 3
    <3>1. w[n + j] = t[n + j - 3]
      BY <1>5, <2>1, <2>3
    <3>2. n + j - 3 \in 1..n /\ Len(v) + j - 3 = Len(s) + (n + j - 3)
      BY <2>1, <2>3
    <3>3. Len(s) + (n + j - 3) \in 1..(Len(s) + n) /\ ~(Len(s) + (n + j - 3) <= Len(s))
          /\ Len(s) + (n + j - 3) - Len(s) = n + j - 3
      BY <3>2
    <3>4. v[Len(s) + (n + j - 3)] = u[n + j - 3]
      BY <1>2, <3>3
    <3>5. z[j] = v[Len(s) + (n + j - 3)]
      <4>1. ~(Len(v) + j <= 3)
        BY <1>2, <2>3
      <4>2. z[j] = v[Len(v) + j - 3]
        BY <1>4, <4>1
      <4>3. QED
        BY <3>2, <4>2
    <3>6. QED
      BY <1>1, <3>1, <3>2, <3>4, <3>5
  <2>4. QED
    BY <2>2, <2>3
<1>8. x = z
  <2>1. x \in Seq(Column) /\ z \in Seq(Column) /\ Len(x) = Len(z)
        /\ \A j \in 1..Len(x) : x[j] = z[j]
    BY <1>4, <1>6, <1>7
  <2>2. QED
    BY <2>1, SeqEqual
<1>9. QED
  BY <1>8 DEF x, z, w, a, v, u, ConvWidth

-----------------------------------------------------------------------------
(* A pass over a chain                                                     *)

LEMMA ChainFacts ==
  ASSUME NEW t \in Seq(Token)
  PROVE  /\ Len(Chain(t)) = Len(t) /\ DOMAIN Chain(t) = 1..Len(t)
         /\ \A i \in 1..Len(t) :
              /\ Chain(t)[i].tok = t[i] /\ Chain(t)[i].path = SubSeq(t, 1, i)
              /\ Chain(t)[i].sees = 1..i /\ Chain(t)[i].depth = i - 1
         /\ Tokens(Chain(t)) = t
<1>1. /\ Len(Chain(t)) = Len(t) /\ DOMAIN Chain(t) = 1..Len(t)
      /\ \A i \in 1..Len(t) : Chain(t)[i] = ChainNode(t, i)
  BY DEF Chain
<1>2. \A i \in 1..Len(t) :
        /\ Chain(t)[i].tok = t[i] /\ Chain(t)[i].path = SubSeq(t, 1, i)
        /\ Chain(t)[i].sees = 1..i /\ Chain(t)[i].depth = i - 1
  BY <1>1 DEF ChainNode
<1>3. Tokens(Chain(t)) = [i \in 1..Len(t) |-> t[i]]
  BY <1>1, <1>2 DEF Tokens
<1>4. QED
  BY <1>1, <1>2, <1>3

\* A slot of a chain sees its own context.
LEMMA ChainAttends ==
  ASSUME NEW t \in Seq(Token), NEW n \in 1..Len(t)
  PROVE  Attends(Chain(t), n)
<1> DEFINE b == Chain(t)
           u == SubSeq(t, 1, n)
<1>1. \A i \in 1..Len(t) :
        b[i].path = SubSeq(t, 1, i) /\ b[i].sees = 1..i /\ b[i].depth = i - 1
  BY ChainFacts
<1> HIDE DEF b
<1>2. \A j \in b[n].sees : j \in 1..n /\ j \in 1..Len(t)
  BY <1>1
<1>3. ToSet(Prefixed(u)) = {SubSeq(u, 1, j) : j \in 1..n}
  <2>1. Len(u) = n
    BY Take
  <2> HIDE DEF u
  <2>2. QED
    BY <2>1 DEF Prefixed, ToSet
<1>4. \A j \in 1..n : SubSeq(u, 1, j) = SubSeq(t, 1, j) /\ Len(SubSeq(t, 1, j)) = j
  BY Take, TakeTake
<1> HIDE DEF u
<1>5. {b[j].path : j \in b[n].sees} = {SubSeq(t, 1, j) : j \in 1..n}
  BY <1>1, <1>2
<1>6. {SubSeq(u, 1, j) : j \in 1..n} = {SubSeq(t, 1, j) : j \in 1..n}
  BY <1>4
<1>7. b[n].path = u
  BY <1>1 DEF u
<1>8. \A j \in b[n].sees : b[j].depth = Len(b[j].path) - 1
  BY <1>1, <1>2, <1>4
<1>9. QED
  BY <1>3, <1>5, <1>6, <1>7, <1>8 DEF Attends, b

\* From the state after s, a chain t is judged by the target itself and leaves
\* the state after s and t.
LEMMA ChainPass ==
  ASSUME NEW s \in Seq(Token), NEW t \in Seq(Token), t # <<>>,
         SubSeq(kv, 1, committed) = Prefixed(s)
  PROVE  /\ \A n \in 1..Len(t) :
              Choice(s, Window(s), Chain(t), n) = Target(s \o SubSeq(t, 1, n))
         /\ Contexts(s, Chain(t)) = [n \in 1..Len(t) |-> s \o SubSeq(t, 1, n)]
         /\ Forward(s, Window(s), Chain(t)) =>
              kv' = Prefixed(s \o t) /\ ssm' = s \o t /\ conv' = Window(s \o t)
<1> DEFINE b == Chain(t)
           c == Contexts(s, b)
<1>1. /\ Len(b) = Len(t) /\ Tokens(b) = t
      /\ \A i \in 1..Len(t) : b[i].path = SubSeq(t, 1, i)
  BY ChainFacts
<1>2. \A n \in 1..Len(t) : Attends(b, n)
  BY ChainAttends
<1> HIDE DEF b
<1>3. \A n \in 1..Len(t) : Choice(s, Window(s), b, n) = Target(s \o SubSeq(t, 1, n))
  BY <1>1, <1>2 DEF Choice
<1>4. c = [n \in 1..Len(t) |-> s \o SubSeq(t, 1, n)]
  BY <1>1 DEF Contexts
<1>5. Prefixed(s) \o c = Prefixed(s \o t)
  <2>1. ASSUME NEW n \in 1..Len(t) PROVE s \o SubSeq(t, 1, n) \in Seq(Token)
    <3> DEFINE u == SubSeq(t, 1, n)
    <3>1. n \in 0..Len(t)
      OBVIOUS
    <3>2. u \in Seq(Token)
      BY <3>1, Take
    <3> HIDE DEF u
    <3>3. s \o u \in Seq(Token)
      BY <3>2, ConcatProperties
    <3>4. QED
      BY <3>3 DEF u
  <2>2. /\ c \in Seq(Seq(Token)) /\ Len(c) = Len(t)
        /\ \A n \in 1..Len(t) : c[n] = s \o SubSeq(t, 1, n)
    BY <1>4, <2>1
  <2> HIDE DEF c
  <2>3. QED
    BY <2>2, PrefixedConcat
<1>6. Last(b).path = t
  <2>1. Len(t) \in 1..Len(t)
    BY EmptySeq
  <2>2. b[Len(t)].path = t
    BY <1>1, <2>1, TakeAll
  <2>3. QED
    BY <1>1, <2>2 DEF Last
<1>7. SubSeq(Window(s) \o t, Len(t) + 1, Len(t) + ConvWidth) = Window(s \o t)
  <2>1. Len(t) \in 0..Len(t)
    OBVIOUS
  <2>2. QED
    <3>1. SubSeq(Window(s) \o t, Len(t) + 1, Len(t) + ConvWidth)
            = Window(s \o SubSeq(t, 1, Len(t)))
      BY <2>1, WindowSlides, Zenon
    <3>2. QED
      BY <3>1, TakeAll, Zenon
<1>8. Forward(s, Window(s), b) =>
        kv' = Prefixed(s \o t) /\ ssm' = s \o t /\ conv' = Window(s \o t)
  BY <1>1, <1>5, <1>6, <1>7 DEF Forward
<1>9. QED
  BY <1>3, <1>4, <1>8 DEF b

-----------------------------------------------------------------------------
(* Acceptance                                                              *)

LEMMA MinTwo ==
  ASSUME NEW a \in Int, NEW b \in Int
  PROVE  Min({a, b}) = IF a <= b THEN a ELSE b
<1>1. \E x \in {a, b} : \A y \in {a, b} : x <= y
  OBVIOUS
<1>2. Min({a, b}) \in {a, b} /\ \A y \in {a, b} : Min({a, b}) <= y
  BY <1>1 DEF Min
<1>3. QED
  BY <1>2

\* A nonempty set of naturals under a bound has a greatest element.
LEMMA MaxExists ==
  ASSUME NEW q \in Nat, NEW S \in SUBSET (0..q), S # {}
  PROVE  Max(S) \in S
<1> DEFINE T == {q - n : n \in S}
<1>1. \A n \in S : n \in 0..q /\ q - n \in Nat
  OBVIOUS
<1>2. T \subseteq Nat /\ T # {}
  BY <1>1
<1> HIDE DEF T
<1>3. PICK x \in T : \A y \in T : <<y, x>> \notin OpToRel(<, Nat)
  BY <1>2, NatLessThanWellFounded, WFMin, Zenon
<1>4. \A y \in T : ~(y < x)
  BY <1>2, <1>3, Zenon DEF OpToRel
<1>5. \A y \in T : x <= y
  BY <1>2, <1>4
<1>6. PICK m \in S : x = q - m
  BY DEF T
<1>7. \A n \in S : m >= n
  <2> SUFFICES ASSUME NEW n \in S PROVE m >= n
    OBVIOUS
  <2>1. q - n \in T
    BY DEF T
  <2>2. q - m <= q - n /\ m \in 0..q /\ n \in 0..q
    BY <1>1, <1>5, <1>6, <2>1
  <2>3. QED
    BY <2>2
<1>8. QED
  BY <1>7 DEF Max

\* Each token of t is the target's choice after s and the tokens before it.
Follows(s, t) == \A i \in 1..Len(t) : t[i] = Target(s \o SubSeq(t, 1, i - 1))

\* A greedy stream and tokens that follow it are a greedy stream.
LEMMA GreedyExtends ==
  ASSUME NEW s \in Seq(Token), NEW t \in Seq(Token), Greedy(s), Follows(s, t),
         prompt \in Seq(Token)
  PROVE  Greedy(s \o t)
<1> DEFINE w == s \o t
<1>1. /\ Len(w) = Len(s) + Len(t)
      /\ \A i \in 1..(Len(s) + Len(t)) : w[i] = IF i <= Len(s) THEN s[i] ELSE t[i - Len(s)]
  BY ConcatProperties
<1>2. SUFFICES ASSUME NEW i \in (Len(prompt) + 1)..Len(w)
               PROVE  w[i] = Target(SubSeq(w, 1, i - 1))
  BY DEF Greedy
<1>3. CASE i <= Len(s)
  <2>1. i \in (Len(prompt) + 1)..Len(s) /\ i - 1 \in 0..Len(s) /\ i \in 1..(Len(s) + Len(t))
    BY <1>3
  <2>2. SubSeq(w, 1, i - 1) = SubSeq(s, 1, i - 1)
    BY <2>1, TakeFirst
  <2>3. w[i] = s[i]
    BY <1>1, <1>3, <2>1
  <2>4. QED
    BY <2>1, <2>2, <2>3 DEF Greedy
<1>4. CASE i > Len(s)
  <2> DEFINE k == i - Len(s)
  <2>1. k \in 1..Len(t) /\ k - 1 \in 0..Len(t) /\ i - 1 = Len(s) + (k - 1)
        /\ i \in 1..(Len(s) + Len(t)) /\ ~(i <= Len(s))
    BY <1>1, <1>4
  <2>2. SubSeq(w, 1, Len(s) + (k - 1)) = s \o SubSeq(t, 1, k - 1)
    <3>1. PICK e \in 0..Len(t) : e = k - 1
      BY <2>1
    <3>2. SubSeq(w, 1, Len(s) + e) = s \o SubSeq(t, 1, e)
      BY TakeConcat
    <3>3. QED
      BY <3>1, <3>2, Zenon
  <2>3. w[i] = t[k]
    BY <1>1, <2>1
  <2>4. QED
    BY <2>1, <2>2, <2>3 DEF Follows
<1>5. i <= Len(s) \/ i > Len(s)
  BY <1>1
<1>6. QED
  BY <1>3, <1>4, <1>5

LEMMA FollowsTake ==
  ASSUME NEW s \in Seq(Token), NEW t \in Seq(Token), Follows(s, t), NEW n \in 0..Len(t)
  PROVE  Follows(s, SubSeq(t, 1, n))
<1> DEFINE u == SubSeq(t, 1, n)
<1>1. Len(u) = n /\ \A i \in 1..n : u[i] = t[i]
  BY Take
<1>2. ASSUME NEW i \in 1..n PROVE SubSeq(u, 1, i - 1) = SubSeq(t, 1, i - 1)
  <2>1. i - 1 \in 0..n
    OBVIOUS
  <2>2. QED
    BY <2>1, TakeTake
<1> HIDE DEF u
<1>3. Follows(s, u)
  <2> SUFFICES ASSUME NEW i \in 1..n PROVE u[i] = Target(s \o SubSeq(u, 1, i - 1))
    BY <1>1 DEF Follows
  <2>1. i \in 1..Len(t)
    OBVIOUS
  <2>2. QED
    BY <1>1, <1>2, <2>1 DEF Follows
<1>4. QED
  BY <1>3 DEF u

LEMMA FollowsAppend ==
  ASSUME NEW s \in Seq(Token), NEW t \in Seq(Token), Follows(s, t), TargetChooses
  PROVE  Follows(s, Append(t, Target(s \o t)))
<1> DEFINE x == Target(s \o t)
           u == Append(t, x)
<1>1. x \in Token
  BY ConcatProperties DEF TargetChooses
<1> HIDE DEF x
<1>2. /\ u \in Seq(Token) /\ Len(u) = Len(t) + 1 /\ u[Len(t) + 1] = x
      /\ \A i \in 1..Len(t) : u[i] = t[i]
  BY <1>1, AppendProperties
<1> HIDE DEF u
<1>3. ASSUME NEW k \in 0..Len(t) PROVE SubSeq(u, 1, k) = SubSeq(t, 1, k)
  <2>1. /\ SubSeq(t, 1, k) \in Seq(Token) /\ Len(SubSeq(t, 1, k)) = k
        /\ \A i \in 1..k : SubSeq(t, 1, k)[i] = t[i]
    BY Take
  <2>2. k \in 0..Len(u)
    BY <1>2
  <2>3. /\ SubSeq(u, 1, k) \in Seq(Token) /\ Len(SubSeq(u, 1, k)) = k
        /\ \A i \in 1..k : SubSeq(u, 1, k)[i] = u[i]
    BY <1>2, <2>2, Take
  <2>4. QED
    BY <1>2, <2>1, <2>3, SeqEqual
<1>4. Follows(s, u)
  <2> SUFFICES ASSUME NEW i \in 1..Len(u) PROVE u[i] = Target(s \o SubSeq(u, 1, i - 1))
    BY DEF Follows
  <2>1. CASE i <= Len(t)
    <3>1. i \in 1..Len(t) /\ i - 1 \in 0..Len(t)
      BY <2>1
    <3>2. QED
      BY <1>2, <1>3, <3>1 DEF Follows
  <2>2. CASE i = Len(t) + 1
    <3>1. SubSeq(u, 1, Len(t)) = t
      BY <1>3, TakeAll
    <3>2. i - 1 = Len(t)
      BY <2>2
    <3>3. QED
      BY <1>2, <2>2, <3>1, <3>2 DEF x
  <2>3. QED
    BY <1>2, <2>1, <2>2
<1>5. QED
  BY <1>4 DEF u, x

-----------------------------------------------------------------------------
(* A tree of drafted tokens                                                *)

\* A slot attends to its own context and stands at its depth.
SlotOK(b, n) ==
  /\ b[n].path # <<>> /\ b[n].depth = Len(b[n].path) - 1 /\ b[n].depth <= L
  /\ b[n].sees \subseteq 1..n /\ Attends(b, n)

\* It comes after its parent and extends its parent's path.
ChildOK(b, n) ==
  b[n].parent \in 1..(n - 1) /\ b[n].path = Append(b[b[n].parent].path, b[n].tok)

\* A tree with token x in its root.
TreeOK(b, x) ==
  /\ b \in Seq(Slots) /\ b # <<>>
  /\ b[1].tok = x /\ b[1].parent = 0 /\ b[1].path = <<x>>
  /\ \A n \in 1..Len(b) : SlotOK(b, n)
  /\ \A n \in 2..Len(b) : ChildOK(b, n)

\* The paths a slot attends to depend on the slots it sees only.
LEMMA AttendsLocal ==
  ASSUME NEW b, NEW c, NEW n, c[n] = b[n], \A j \in b[n].sees : c[j] = b[j], Attends(b, n)
  PROVE  Attends(c, n)
<1>1. {c[j].path : j \in c[n].sees} = {b[j].path : j \in b[n].sees}
  OBVIOUS
<1>2. QED
  BY <1>1 DEF Attends

LEMMA PrefixedAppend ==
  ASSUME NEW s \in Seq(Token), NEW x \in Token
  PROVE  ToSet(Prefixed(Append(s, x))) = ToSet(Prefixed(s)) \cup {Append(s, x)}
<1> DEFINE u == Append(s, x)
<1>1. u \in Seq(Token) /\ Len(u) = Len(s) + 1 /\ Len(s) \in Nat
  BY AppendProperties
<1>2. \A i \in 1..Len(s) : SubSeq(u, 1, i) = SubSeq(s, 1, i)
  <2>1. u = s \o <<x>> /\ <<x>> \in Seq(Token)
    BY AppendIsConcat
  <2>2. ASSUME NEW i \in 1..Len(s) PROVE SubSeq(s \o <<x>>, 1, i) = SubSeq(s, 1, i)
    <3>1. i \in 0..Len(s)
      OBVIOUS
    <3>2. QED
      BY <2>1, <3>1, TakeFirst
  <2>3. QED
    BY <2>1, <2>2
<1>3. SubSeq(u, 1, Len(s) + 1) = u
  BY <1>1, TakeAll
<1>4. ToSet(Prefixed(s)) = {SubSeq(s, 1, i) : i \in 1..Len(s)}
  BY DEF Prefixed, ToSet
<1> HIDE DEF u
<1>5. ToSet(Prefixed(u)) = {SubSeq(u, 1, i) : i \in 1..(Len(s) + 1)}
  BY <1>1 DEF Prefixed, ToSet
<1>6. \A i : i \in 1..(Len(s) + 1) <=> i \in 1..Len(s) \/ i = Len(s) + 1
  BY <1>1
<1>7. {SubSeq(u, 1, i) : i \in 1..(Len(s) + 1)} = {SubSeq(s, 1, i) : i \in 1..Len(s)} \cup {u}
  BY <1>2, <1>3, <1>6
<1>8. QED
  BY <1>4, <1>5, <1>7 DEF u

\* A token under slot p of a tree.
Sprout(b, p, t) ==
  [tok |-> t, parent |-> p, depth |-> b[p].depth + 1, sees |-> b[p].sees \cup {Len(b) + 1},
   path |-> Append(b[p].path, t)]

\* A tree grown by one token is a tree.
LEMMA TreeGrows ==
  ASSUME NEW b, NEW x, TreeOK(b, x), NEW p \in 1..Len(b), NEW t \in Token, b[p].depth + 1 <= L
  PROVE  TreeOK(Append(b, Sprout(b, p, t)), x)
<1> DEFINE m == Len(b) + 1
           nd == Sprout(b, p, t)
           c == Append(b, nd)
<1>1. b \in Seq(Slots) /\ b # <<>> /\ Len(b) \in Nat \ {0} /\ b[p] \in Slots /\ SlotOK(b, p)
  BY ElementOfSeq, EmptySeq DEF TreeOK
<1>2. /\ b[p].path \in Seq(Token) /\ b[p].depth \in Nat /\ b[p].sees \in SUBSET Nat
      /\ b[p].sees \subseteq 1..p
  BY <1>1 DEF Slots, SlotOK
<1>3. Append(b[p].path, t) \in Seq(Token) /\ Len(Append(b[p].path, t)) = Len(b[p].path) + 1
      /\ Len(b[p].path) \in Nat
  BY <1>2, AppendProperties
<1>4. nd \in Slots
  <2>1. m \in Nat /\ p \in Nat
    BY <1>1
  <2>2. b[p].depth + 1 \in Nat /\ b[p].sees \cup {m} \in SUBSET Nat
    BY <1>2, <2>1
  <2>3. QED
    BY <1>3, <2>1, <2>2 DEF Slots, Sprout
<1>5. /\ nd.tok = t /\ nd.parent = p /\ nd.depth = b[p].depth + 1
      /\ nd.sees = b[p].sees \cup {m} /\ nd.path = Append(b[p].path, t)
  BY DEF Sprout
<1> HIDE DEF nd
<1>6. /\ c \in Seq(Slots) /\ c # <<>> /\ Len(c) = m /\ c[m] = nd
      /\ \A i \in 1..Len(b) : c[i] = b[i]
  BY <1>1, <1>4, AppendProperties
<1> HIDE DEF c
<1>7. ASSUME NEW n \in 1..Len(b) PROVE SlotOK(c, n)
  <2>1. SlotOK(b, n) /\ c[n] = b[n] /\ n \in 1..Len(b)
    BY <1>6 DEF TreeOK
  <2>2. \A j \in b[n].sees : c[j] = b[j]
    <3>1. b[n].sees \subseteq 1..n /\ n <= Len(b) /\ n \in Nat /\ Len(b) \in Nat
      BY <1>1, <2>1 DEF SlotOK
    <3>2. \A j \in 1..n : j \in 1..Len(b)
      BY <3>1
    <3>3. QED
      BY <1>6, <3>1, <3>2
  <2>3. Attends(b, n)
    BY <2>1 DEF SlotOK
  <2>4. Attends(c, n)
    BY <2>1, <2>2, <2>3, AttendsLocal
  <2>5. QED
    BY <2>1, <2>4 DEF SlotOK
<1>8. SlotOK(c, m)
  <2>1. c[m].path # <<>> /\ c[m].depth = Len(c[m].path) - 1 /\ c[m].depth <= L
    <3>1. b[p].depth = Len(b[p].path) - 1
      BY <1>1 DEF SlotOK
    <3>2. /\ c[m].path = Append(b[p].path, t) /\ c[m].depth = b[p].depth + 1
          /\ Len(c[m].path) = Len(b[p].path) + 1
      BY <1>3, <1>5, <1>6
    <3>3. Len(c[m].path) # 0
      BY <1>3, <3>2
    <3>4. c[m].path # <<>>
      BY <3>3, EmptySeq
    <3>5. c[m].depth = Len(c[m].path) - 1
      BY <1>2, <1>3, <3>1, <3>2
    <3>6. QED
      BY <3>2, <3>4, <3>5
  <2>2. c[m].sees \subseteq 1..m
    <3>1. \A j \in 1..p : j \in 1..m
      BY <1>1
    <3>2. m \in 1..m
      BY <1>1
    <3>3. QED
      BY <1>2, <1>5, <1>6, <3>1, <3>2
  <2>3. Attends(c, m)
    <3>1. Attends(b, p)
      BY <1>1 DEF SlotOK
    <3>2. \A j \in b[p].sees : c[j] = b[j]
      <4>1. \A j \in 1..p : j \in 1..Len(b)
        BY <1>1
      <4>2. QED
        BY <1>2, <1>6, <4>1
    <3>3. {c[j].path : j \in c[m].sees} = {b[j].path : j \in b[p].sees} \cup {c[m].path}
      <4>1. c[m].sees = b[p].sees \cup {m}
        BY <1>5, <1>6
      <4>2. {c[j].path : j \in c[m].sees} = {c[j].path : j \in b[p].sees} \cup {c[m].path}
        BY <4>1, Zenon
      <4>3. {c[j].path : j \in b[p].sees} = {b[j].path : j \in b[p].sees}
        BY <3>2
      <4>4. QED
        BY <4>2, <4>3
    <3>4. {b[j].path : j \in b[p].sees} = ToSet(Prefixed(b[p].path))
      BY <3>1 DEF Attends
    <3>5. ToSet(Prefixed(c[m].path)) = ToSet(Prefixed(b[p].path)) \cup {c[m].path}
      <4>1. c[m].path = Append(b[p].path, t)
        BY <1>5, <1>6
      <4>2. ToSet(Prefixed(Append(b[p].path, t)))
              = ToSet(Prefixed(b[p].path)) \cup {Append(b[p].path, t)}
        BY <1>2, PrefixedAppend
      <4>3. QED
        BY <4>1, <4>2, Zenon
    <3>6. \A j \in c[m].sees : c[j].depth = Len(c[j].path) - 1
      <4>1. \A j \in b[p].sees : b[j].depth = Len(b[j].path) - 1
        BY <3>1 DEF Attends
      <4>2. QED
        BY <1>5, <1>6, <2>1, <3>2, <4>1
    <3>7. QED
      BY <3>3, <3>4, <3>5, <3>6 DEF Attends
  <2>4. QED
    BY <2>1, <2>2, <2>3 DEF SlotOK
<1>9. ASSUME NEW n \in 2..m PROVE ChildOK(c, n)
  <2>1. CASE n = m
    <3>1. c[p] = b[p] /\ p \in 1..(m - 1)
      BY <1>1, <1>6
    <3>2. QED
      BY <1>5, <1>6, <2>1, <3>1 DEF ChildOK
  <2>2. CASE n # m
    <3>1. n \in 2..Len(b) /\ n \in 1..Len(b)
      BY <1>1, <2>2
    <3>2. ChildOK(b, n) /\ c[n] = b[n]
      BY <1>6, <3>1 DEF TreeOK
    <3>3. b[n].parent \in 1..(n - 1)
      BY <3>2 DEF ChildOK
    <3>4. b[n].parent \in 1..Len(b)
      BY <1>1, <3>1, <3>3
    <3>5. QED
      BY <1>6, <3>2, <3>4 DEF ChildOK
  <2>3. QED
    BY <2>1, <2>2
<1>10. \A n \in 1..m : SlotOK(c, n)
  <2>1. \A n \in 1..m : n \in 1..Len(b) \/ n = m
    BY <1>1
  <2>2. QED
    BY <1>7, <1>8, <2>1
<1>11. c[1] = b[1]
  <2>1. 1 \in 1..Len(b)
    BY <1>1
  <2>2. QED
    BY <1>6, <2>1
<1>12. QED
  BY <1>6, <1>9, <1>10, <1>11 DEF TreeOK, c, nd

\* A chain that fits the draft block is a tree.
LEMMA TreeChain ==
  ASSUME NEW t \in Seq(Token), t # <<>>, Len(t) <= QLen
  PROVE  TreeOK(Chain(t), t[1])
<1> DEFINE b == Chain(t)
<1>1. /\ Len(b) = Len(t) /\ DOMAIN b = 1..Len(t) /\ Len(t) \in Nat \ {0}
      /\ b = [i \in 1..Len(t) |-> ChainNode(t, i)]
      /\ \A i \in 1..Len(t) :
           /\ b[i].tok = t[i] /\ b[i].path = SubSeq(t, 1, i)
           /\ b[i].sees = 1..i /\ b[i].depth = i - 1 /\ b[i].parent = i - 1
  <2>1. b = [i \in 1..Len(t) |-> ChainNode(t, i)]
    BY DEF Chain
  <2>2. \A i \in 1..Len(t) : b[i].parent = i - 1
    BY <2>1 DEF ChainNode
  <2>3. Len(t) \in Nat \ {0}
    BY EmptySeq
  <2>4. QED
    BY <2>1, <2>2, <2>3, ChainFacts
<1>2. \A i \in 1..Len(t) : SubSeq(t, 1, i) \in Seq(Token) /\ Len(SubSeq(t, 1, i)) = i
  BY Take
<1>3. \A i \in 1..Len(t) : ChainNode(t, i) \in Slots
  <2> SUFFICES ASSUME NEW i \in 1..Len(t) PROVE ChainNode(t, i) \in Slots
    OBVIOUS
  <2>1. t[i] \in Token /\ i - 1 \in Nat /\ 1..i \in SUBSET Nat
    BY ElementOfSeq
  <2>2. QED
    BY <1>2, <2>1 DEF Slots, ChainNode
<1>4. b \in Seq(Slots) /\ b # <<>>
  <2>1. b \in [1..Len(t) -> Slots]
    BY <1>1, <1>3
  <2>2. b \in Seq(Slots)
    BY <1>1, <2>1, IsASeq
  <2>3. QED
    BY <1>1, <2>2, EmptySeq
<1>5. \A n \in 1..Len(t) : Attends(b, n)
  BY ChainAttends
<1> HIDE DEF b
<1>6. ASSUME NEW n \in 1..Len(t) PROVE SlotOK(b, n)
  <2>1. b[n].path # <<>>
    <3>1. Len(b[n].path) # 0
      BY <1>1, <1>2
    <3>2. QED
      BY <3>1, EmptySeq
  <2>2. b[n].depth = Len(b[n].path) - 1 /\ b[n].depth <= L
    BY <1>1, <1>2, SizeAssumption DEF L
  <2>3. QED
    BY <1>1, <1>5, <2>1, <2>2 DEF SlotOK
<1>7. ASSUME NEW n \in 2..Len(t) PROVE ChildOK(b, n)
  <2>1. n \in 1..Len(t) /\ n - 1 \in 1..Len(t) /\ n - 1 \in 1..(n - 1)
    BY <1>1
  <2>2. SubSeq(t, 1, n) = Append(SubSeq(t, 1, n - 1), t[n])
    <3> DEFINE u == SubSeq(t, 1, n)
               v == SubSeq(t, 1, n - 1)
    <3>1. u \in Seq(Token) /\ Len(u) = n /\ \A i \in 1..n : u[i] = t[i]
      BY <2>1, Take
    <3>2. v \in Seq(Token) /\ Len(v) = n - 1 /\ \A i \in 1..(n - 1) : v[i] = t[i]
      BY <2>1, Take
    <3>3. t[n] \in Token
      BY <2>1, ElementOfSeq
    <3> HIDE DEF u, v
    <3>4. /\ Append(v, t[n]) \in Seq(Token) /\ Len(Append(v, t[n])) = n
          /\ \A i \in 1..(n - 1) : Append(v, t[n])[i] = v[i] /\ Append(v, t[n])[n] = t[n]
      BY <3>2, <3>3, AppendProperties
    <3>5. \A i \in 1..n : Append(v, t[n])[i] = u[i]
      BY <3>1, <3>2, <3>4
    <3>6. Append(v, t[n]) = u
      BY <3>1, <3>4, <3>5, SeqEqual
    <3>7. QED
      BY <3>6 DEF u, v
  <2>3. b[n].parent = n - 1 /\ b[n - 1].path = SubSeq(t, 1, n - 1) /\ b[n].tok = t[n]
        /\ b[n].path = SubSeq(t, 1, n)
    BY <1>1, <2>1
  <2>4. QED
    BY <2>1, <2>2, <2>3 DEF ChildOK
<1>8. b[1].tok = t[1] /\ b[1].parent = 0 /\ b[1].path = <<t[1]>>
  <2>1. 1 \in 1..Len(t)
    BY <1>1
  <2>2. SubSeq(t, 1, 1) = <<t[1]>>
    <3>1. SubSeq(t, 1, 1) \in Seq(Token) /\ Len(SubSeq(t, 1, 1)) = 1 /\ SubSeq(t, 1, 1)[1] = t[1]
      BY <2>1, Take
    <3> DEFINE u == SubSeq(t, 1, 1)
               v == <<t[1]>>
    <3>2. v \in Seq(Token) /\ Len(v) = 1 /\ v[1] = t[1]
      BY <2>1, ElementOfSeq
    <3>3. u \in Seq(Token) /\ Len(u) = 1 /\ u[1] = t[1]
      BY <3>1
    <3> HIDE DEF u, v
    <3>4. \A i \in 1..1 : u[i] = v[i]
      BY <3>2, <3>3
    <3>5. u = v
      BY <3>2, <3>3, <3>4, SeqEqual
    <3>6. QED
      BY <3>5 DEF u, v
  <2>3. QED
    BY <1>1, <2>1, <2>2
<1>9. QED
  BY <1>1, <1>4, <1>6, <1>7, <1>8 DEF TreeOK, b

-----------------------------------------------------------------------------
(* Siblings and candidates                                                 *)

\* Siblings carry different tokens.
Distinct(b) ==
  \A m, n \in 2..Len(b) : b[m].parent = b[n].parent /\ b[m].tok = b[n].tok => m = n

Cand(p, d, r, w) == [parent |-> p, depth |-> d, rank |-> r, logw |-> w]
Restamped(e, r, w) == [e EXCEPT !.rank = r, !.logw = w]

\* A candidate stands under a slot whose children came from better ranks.
CandOK(b, e) ==
  /\ e = Cand(e.parent, e.depth, e.rank, e.logw)
  /\ e.parent \in 1..Len(b) /\ e.depth = b[e.parent].depth + 1 /\ e.depth <= L
  /\ e.rank \in 1..K
  /\ \A n \in 2..Len(b) : b[n].parent = e.parent =>
        \E r \in 1..(e.rank - 1) : b[n].tok = top[e.depth][r].tok

\* One candidate under a slot.
HeapOK(b, h) ==
  /\ \A e \in h : CandOK(b, e)
  /\ \A e, f \in h : e.parent = f.parent => e = f

\* The draft names K different tokens at each depth.
LEMMA RowFacts ==
  ASSUME top \in [1..L -> Row], NEW d \in 1..L
  PROVE  /\ K \in Nat \ {0}
         /\ \A r \in 1..K : top[d][r].tok \in Token
         /\ \A r, s \in 1..K : r # s => top[d][r].tok # top[d][s].tok
<1>1. K \in Nat \ {0}
  BY SizeAssumption DEF K
<1>2. top[d] \in Row
  OBVIOUS
<1>3. CASE K = 1
  <2>1. PICK t \in Token : top[d] = <<[tok |-> t, lp |-> 0]>>
    BY <1>2, <1>3 DEF Row
  <2>2. top[d][1].tok = t
    BY <2>1
  <2>3. \A r \in 1..K : r = 1
    BY <1>3
  <2>4. QED
    BY <1>1, <2>2, <2>3
<1>4. CASE K # 1
  <2> DEFINE w == top[d]
  <2>1. /\ w \in [1..K -> Candidate]
        /\ \A i, j \in 1..K : i < j => w[i].lp >= w[j].lp /\ w[i].tok # w[j].tok
    BY <1>2, <1>4 DEF Row
  <2> HIDE DEF w
  <2>2. \A r \in 1..K : w[r].tok \in Token
    BY <2>1 DEF Candidate
  <2>3. \A r, s \in 1..K : r # s => w[r].tok # w[s].tok
    <3> SUFFICES ASSUME NEW r \in 1..K, NEW s \in 1..K, r # s PROVE w[r].tok # w[s].tok
      OBVIOUS
    <3>1. r < s \/ s < r
      BY <1>1
    <3>2. r < s => w[r].tok # w[s].tok
      BY <2>1
    <3>3. s < r => w[s].tok # w[r].tok
      BY <2>1
    <3>4. QED
      BY <3>1, <3>2, <3>3
  <2>4. QED
    BY <1>1, <2>2, <2>3 DEF w
<1>5. QED
  BY <1>3, <1>4

LEMMA CandFields ==
  ASSUME NEW p, NEW d, NEW r, NEW w
  PROVE  LET e == Cand(p, d, r, w)
         IN  /\ e.parent = p /\ e.depth = d /\ e.rank = r /\ e.logw = w
             /\ e = Cand(e.parent, e.depth, e.rank, e.logw)
BY DEF Cand

LEMMA Restamp ==
  ASSUME NEW e, e = Cand(e.parent, e.depth, e.rank, e.logw), NEW r, NEW w
  PROVE  Restamped(e, r, w) = Cand(e.parent, e.depth, r, w)
<1>1. PICK p, d, q, v : e = [parent |-> p, depth |-> d, rank |-> q, logw |-> v]
  BY DEF Cand
<1>2. e.parent = p /\ e.depth = d
  BY <1>1
<1> DEFINE f == [e EXCEPT !.rank = r]
           g == [parent |-> p, depth |-> d, rank |-> r, logw |-> v]
<1>3. f = g
  BY <1>1
<1>4. [g EXCEPT !.logw = w] = [parent |-> p, depth |-> d, rank |-> r, logw |-> w]
  OBVIOUS
<1> HIDE DEF g
<1>5. [f EXCEPT !.logw = w] = [g EXCEPT !.logw = w]
  BY <1>3, Zenon
<1>6. QED
  BY <1>2, <1>4, <1>5 DEF Restamped, Cand

\* What is left when a candidate is popped and its successors are pushed.
Popped(b, h, e, h2, w1, w2) ==
  \A f \in h2 :
    \/ f \in h /\ f # e
    \/ e.rank # K /\ f = Restamped(e, e.rank + 1, w1)
    \/ e.depth # L /\ f = Cand(Len(b) + 1, e.depth + 1, 1, w2)

\* Tree c is tree b and one slot more.
Sprouted(b, c, x, h2) ==
  /\ TreeOK(c, x) /\ Distinct(c) /\ HeapOK(c, h2)
  /\ Len(c) = Len(b) + 1 /\ \A i \in 1..Len(b) : c[i] = b[i]

\* A popped candidate gives a token its parent has no child for yet, and the
\* candidates pushed stand under slots without another.
LEMMA SiblingsGrow ==
  ASSUME NEW b, NEW x, TreeOK(b, x), Distinct(b), NEW h, HeapOK(b, h), NEW e \in h,
         top \in [1..L -> Row], NEW w1, NEW w2, NEW h2, Popped(b, h, e, h2, w1, w2)
  PROVE  Sprouted(b, Append(b, Sprout(b, e.parent, top[e.depth][e.rank].tok)), x, h2)
<1> DEFINE m == Len(b) + 1
           t == top[e.depth][e.rank].tok
           nd == Sprout(b, e.parent, t)
           c == Append(b, nd)
<1>1. /\ e = Cand(e.parent, e.depth, e.rank, e.logw)
      /\ e.parent \in 1..Len(b) /\ e.depth = b[e.parent].depth + 1 /\ e.depth <= L
      /\ e.rank \in 1..K
  BY DEF HeapOK, CandOK
<1>2. \A n \in 2..Len(b) : b[n].parent = e.parent =>
        \E r \in 1..(e.rank - 1) : b[n].tok = top[e.depth][r].tok
  BY DEF HeapOK, CandOK
<1>3. b \in Seq(Slots) /\ Len(b) \in Nat \ {0} /\ L \in Nat \ {0}
  BY EmptySeq, SizeAssumption DEF TreeOK, L
<1>4. e.depth \in 1..L
  <2>1. b[e.parent] \in Slots
    BY <1>1, <1>3, ElementOfSeq
  <2>2. b[e.parent].depth \in Nat
    BY <2>1 DEF Slots
  <2>3. QED
    BY <1>1, <1>3, <2>2
<1>5. /\ K \in Nat \ {0} /\ t \in Token
      /\ \A r, s \in 1..K : r # s => top[e.depth][r].tok # top[e.depth][s].tok
  BY <1>1, <1>4, RowFacts
<1>6. TreeOK(c, x)
  BY <1>1, <1>5, TreeGrows
<1>7. /\ nd.tok = t /\ nd.parent = e.parent /\ nd.depth = e.depth
  BY <1>1 DEF Sprout
<1>8. nd \in Slots
  <2>1. c \in Seq(Slots)
    BY <1>6 DEF TreeOK
  <2>2. b[e.parent] \in Slots
    BY <1>1, <1>3, ElementOfSeq
  <2>3. /\ b[e.parent].path \in Seq(Token) /\ b[e.parent].depth \in Nat
        /\ b[e.parent].sees \in SUBSET Nat /\ e.parent \in Nat /\ m \in Nat
    <3>1. e.parent \in Nat /\ m \in Nat
      BY <1>1, <1>3
    <3>2. QED
      BY <2>2, <3>1 DEF Slots
  <2>4. /\ Append(b[e.parent].path, t) \in Seq(Token) /\ b[e.parent].depth + 1 \in Nat
        /\ b[e.parent].sees \cup {m} \in SUBSET Nat
    BY <1>5, <2>3, AppendProperties
  <2>5. QED
    BY <1>5, <2>3, <2>4 DEF Slots, Sprout
<1> HIDE DEF t, nd
<1>9. Len(c) = m /\ c[m] = nd /\ \A i \in 1..Len(b) : c[i] = b[i]
  BY <1>3, <1>8, AppendProperties
<1> HIDE DEF c
\* Which slots stand under the parent.
<1>10. ASSUME NEW n \in 2..m, n # m PROVE n \in 2..Len(b) /\ c[n] = b[n]
  BY <1>3, <1>9, <1>10
<1>11. ASSUME NEW n \in 2..Len(b), b[n].parent = e.parent PROVE b[n].tok # t
  <2>1. PICK r \in 1..(e.rank - 1) : b[n].tok = top[e.depth][r].tok
    BY <1>2, <1>11
  <2>2. r \in 1..K /\ r # e.rank
    BY <1>1, <1>5
  <2>3. QED
    BY <1>1, <1>5, <2>1, <2>2 DEF t
<1>12. Distinct(c)
  <2> SUFFICES ASSUME NEW i \in 2..m, NEW n \in 2..m,
                      c[i].parent = c[n].parent, c[i].tok = c[n].tok, i # n
               PROVE  FALSE
    BY <1>9 DEF Distinct
  <2>1. CASE i = m
    <3>1. n \in 2..Len(b) /\ c[n] = b[n]
      BY <1>10, <2>1
    <3>2. b[n].parent = e.parent /\ b[n].tok = t
      BY <1>7, <1>9, <2>1, <3>1
    <3>3. QED
      BY <1>11, <3>1, <3>2
  <2>2. CASE n = m
    <3>1. i \in 2..Len(b) /\ c[i] = b[i]
      BY <1>10, <2>2
    <3>2. b[i].parent = e.parent /\ b[i].tok = t
      BY <1>7, <1>9, <2>2, <3>1
    <3>3. QED
      BY <1>11, <3>1, <3>2
  <2>3. CASE i # m /\ n # m
    <3>1. i \in 2..Len(b) /\ c[i] = b[i] /\ n \in 2..Len(b) /\ c[n] = b[n]
      BY <1>10, <2>3
    <3>2. QED
      BY <3>1 DEF Distinct
  <2>4. QED
    BY <2>1, <2>2, <2>3
\* The candidates.
<1>13. ASSUME NEW f \in h, f # e PROVE CandOK(c, f) /\ f.parent \in 1..Len(b) /\ f.parent # e.parent
  <2>1. CandOK(b, f) /\ f.parent # e.parent
    BY <1>13 DEF HeapOK
  <2>2. f.parent \in 1..Len(b) /\ f.parent \in 1..m /\ c[f.parent] = b[f.parent]
    BY <1>3, <1>9, <2>1 DEF CandOK
  <2>3. \A n \in 2..m : c[n].parent = f.parent =>
          \E r \in 1..(f.rank - 1) : c[n].tok = top[f.depth][r].tok
    <3> SUFFICES ASSUME NEW n \in 2..m, c[n].parent = f.parent
                 PROVE  \E r \in 1..(f.rank - 1) : c[n].tok = top[f.depth][r].tok
      OBVIOUS
    <3>1. n # m
      BY <1>7, <1>9, <2>1
    <3>2. n \in 2..Len(b) /\ c[n] = b[n]
      BY <1>10, <3>1
    <3>3. QED
      BY <2>1, <3>2 DEF CandOK
  <2>4. QED
    BY <1>9, <2>1, <2>2, <2>3 DEF CandOK
<1> DEFINE f1 == Restamped(e, e.rank + 1, w1)
           f2 == Cand(Len(b) + 1, e.depth + 1, 1, w2)
<1>14. ASSUME e.rank # K PROVE CandOK(c, f1) /\ f1.parent = e.parent
  <2>1. f1 = Cand(e.parent, e.depth, e.rank + 1, w1)
    BY <1>1, Restamp
  <2>2. f1.parent = e.parent /\ f1.depth = e.depth /\ f1.rank = e.rank + 1 /\ f1.logw = w1
    BY <2>1, CandFields
  <2>3. f1 = Cand(f1.parent, f1.depth, f1.rank, f1.logw)
    BY <2>1, <2>2
  <2> HIDE DEF f1
  <2>4. /\ f1.parent \in 1..m /\ f1.depth = c[f1.parent].depth + 1 /\ f1.depth <= L
        /\ f1.rank \in 1..K
    BY <1>1, <1>3, <1>5, <1>9, <1>14, <2>2
  <2>5. \A n \in 2..m : c[n].parent = f1.parent =>
          \E r \in 1..(f1.rank - 1) : c[n].tok = top[f1.depth][r].tok
    <3> SUFFICES ASSUME NEW n \in 2..m, c[n].parent = e.parent
                 PROVE  \E r \in 1..e.rank : c[n].tok = top[e.depth][r].tok
      <4>1. (e.rank + 1) - 1 = e.rank
        BY <1>1
      <4>2. QED
        BY <2>2, <4>1
    <3>1. CASE n = m
      <4>1. e.rank \in 1..e.rank
        BY <1>1
      <4>2. c[n].tok = top[e.depth][e.rank].tok
        BY <1>7, <1>9, <3>1 DEF t
      <4>3. QED
        BY <4>1, <4>2
    <3>2. CASE n # m
      <4>1. n \in 2..Len(b) /\ c[n] = b[n]
        BY <1>10, <3>2
      <4>2. PICK r \in 1..(e.rank - 1) : b[n].tok = top[e.depth][r].tok
        BY <1>2, <4>1
      <4>3. r \in 1..e.rank
        BY <1>1
      <4>4. QED
        BY <4>1, <4>2, <4>3
    <3>3. QED
      BY <3>1, <3>2
  <2>6. QED
    BY <1>9, <2>2, <2>3, <2>4, <2>5 DEF CandOK
<1>15. ASSUME e.depth # L PROVE CandOK(c, f2) /\ f2.parent = m
  <2>1. f2.parent = m /\ f2.depth = e.depth + 1 /\ f2.rank = 1 /\ f2.logw = w2
    BY CandFields
  <2>2. f2 = Cand(f2.parent, f2.depth, f2.rank, f2.logw)
    BY CandFields
  <2> HIDE DEF f2
  <2>3. m \in 1..m /\ e.depth + 1 <= L /\ 1 \in 1..K
    BY <1>3, <1>4, <1>5, <1>15
  <2>4. /\ f2.parent \in 1..m /\ f2.depth = c[f2.parent].depth + 1 /\ f2.depth <= L
        /\ f2.rank \in 1..K
    BY <1>7, <1>9, <2>1, <2>3
  <2>5. ASSUME NEW n \in 2..m PROVE c[n].parent # f2.parent
    <3>1. ChildOK(c, n)
      BY <1>6, <1>9 DEF TreeOK
    <3>2. c[n].parent \in 1..(n - 1) /\ n \in 2..m /\ m \in Nat
      BY <1>3, <3>1 DEF ChildOK
    <3>3. c[n].parent # m
      BY <3>2
    <3>4. QED
      BY <2>1, <3>3
  <2>6. QED
    BY <1>9, <2>1, <2>2, <2>4, <2>5 DEF CandOK
<1>16. \A f \in h2 : \/ f \in h /\ f # e
                     \/ e.rank # K /\ f = f1
                     \/ e.depth # L /\ f = f2
  BY DEF Popped
<1> HIDE DEF f1, f2
<1>17. \A f \in h2 : CandOK(c, f)
  BY <1>13, <1>14, <1>15, <1>16
<1>18. ASSUME NEW f \in h2, NEW g \in h2, f.parent = g.parent PROVE f = g
  <2>1. m \notin 1..Len(b)
    BY <1>3
  <2>2. CASE f \in h /\ f # e
    <3>1. f.parent \in 1..Len(b) /\ f.parent # e.parent
      BY <1>13, <2>2
    <3>2. ~(e.rank # K /\ g = f1) /\ ~(e.depth # L /\ g = f2)
      BY <1>14, <1>15, <1>18, <2>1, <3>1
    <3>3. g \in h
      BY <1>16, <3>2
    <3>4. QED
      BY <1>18, <2>2, <3>3 DEF HeapOK
  <2>3. CASE e.rank # K /\ f = f1
    <3>1. f.parent = e.parent /\ f.parent # m
      BY <1>1, <1>14, <2>1, <2>3
    <3>2. ~(g \in h /\ g # e) /\ ~(e.depth # L /\ g = f2)
      BY <1>13, <1>15, <1>18, <3>1
    <3>3. QED
      BY <1>16, <2>3, <3>2
  <2>4. CASE e.depth # L /\ f = f2
    <3>1. f.parent = m /\ e.parent # m
      BY <1>1, <1>15, <2>1, <2>4
    <3>2. ~(g \in h /\ g # e) /\ ~(e.rank # K /\ g = f1)
      BY <1>13, <1>14, <1>18, <2>1, <3>1
    <3>3. QED
      BY <1>16, <2>4, <3>2
  <2>5. QED
    BY <1>16, <2>2, <2>3, <2>4
<1>19. HeapOK(c, h2)
  BY <1>17, <1>18 DEF HeapOK
<1>20. QED
  BY <1>6, <1>9, <1>12, <1>19 DEF Sprouted, c, nd, t

\* The first slots of a chain are a chain.
LEMMA ChainTake ==
  ASSUME NEW t \in Seq(Token), NEW n \in 1..Len(t)
  PROVE  /\ SubSeq(Chain(t), 1, n) = Chain(SubSeq(t, 1, n))
         /\ \A i \in 1..n : Chain(SubSeq(t, 1, n))[i] = ChainNode(t, i)
<1> DEFINE u == SubSeq(t, 1, n)
           c == Chain(t)
           b == Chain(u)
<1>1. n \in 0..Len(t) /\ n \in Nat \ {0} /\ Len(t) \in Nat \ {0}
  OBVIOUS
<1>2. u \in Seq(Token) /\ Len(u) = n /\ \A i \in 1..n : u[i] = t[i]
  BY <1>1, Take
<1>3. \A i \in 1..n : SubSeq(u, 1, i) = SubSeq(t, 1, i)
  BY <1>1, TakeTake
<1> HIDE DEF u
<1>4. Len(b) = n /\ \A i \in 1..n : b[i] = ChainNode(u, i)
  BY <1>2 DEF Chain
<1>5. \A i \in 1..n : ChainNode(u, i) = ChainNode(t, i)
  BY <1>2, <1>3 DEF ChainNode
<1>6. Len(c) = Len(t) /\ \A i \in 1..Len(t) : c[i] = ChainNode(t, i)
  BY DEF Chain
<1>7. c \in Seq(Slots)
  <2>1. \A i \in 1..Len(t) : ChainNode(t, i) \in Slots
    <3> SUFFICES ASSUME NEW i \in 1..Len(t) PROVE ChainNode(t, i) \in Slots
      OBVIOUS
    <3>1. t[i] \in Token /\ i - 1 \in Nat /\ 1..i \in SUBSET Nat /\ SubSeq(t, 1, i) \in Seq(Token)
      BY ElementOfSeq, Take
    <3>2. QED
      BY <3>1 DEF Slots, ChainNode
  <2>2. c \in [1..Len(t) -> Slots]
    BY <2>1 DEF Chain
  <2>3. QED
    BY <1>1, <2>2, IsASeq
<1>8. b \in Seq(Slots)
  <2>1. \A i \in 1..n : i \in 1..Len(t)
    BY <1>1
  <2>2. \A i \in 1..n : ChainNode(u, i) \in Slots
    BY <1>5, <1>6, <1>7, <2>1, ElementOfSeq
  <2>3. b \in [1..n -> Slots]
    BY <1>2, <2>2 DEF Chain
  <2>4. QED
    BY <1>1, <2>3, IsASeq
<1> HIDE DEF b, c
<1>9. SubSeq(c, 1, n) \in Seq(Slots) /\ Len(SubSeq(c, 1, n)) = n
      /\ \A i \in 1..n : SubSeq(c, 1, n)[i] = c[i]
  BY <1>1, <1>6, <1>7, Take
<1>10. \A i \in 1..n : SubSeq(c, 1, n)[i] = b[i]
  <2>1. \A i \in 1..n : i \in 1..Len(t)
    BY <1>1
  <2>2. QED
    BY <1>4, <1>5, <1>6, <1>9, <2>1
<1>11. SubSeq(c, 1, n) = b
  BY <1>4, <1>8, <1>9, <1>10, SeqEqual
<1>12. QED
  BY <1>4, <1>5, <1>11 DEF b, c, u

\* The chain a tree starts from.
LEMMA SeedTree ==
  ASSUME NEW t \in Seq(Token), Len(t) = QLen, NEW n \in 1..QLen
  PROVE  LET b == SubSeq(Chain(t), 1, n)
         IN  /\ TreeOK(b, t[1]) /\ Distinct(b) /\ Len(b) = n
             /\ \A i \in 1..n : b[i] = ChainNode(t, i)
<1> DEFINE u == SubSeq(t, 1, n)
           b == Chain(u)
<1>1. n \in 0..Len(t) /\ n \in 1..Len(t) /\ n \in Nat \ {0}
  BY SizeAssumption
<1>2. u \in Seq(Token) /\ Len(u) = n /\ u[1] = t[1] /\ u # <<>>
  <2>1. u \in Seq(Token) /\ Len(u) = n /\ \A i \in 1..n : u[i] = t[i]
    BY <1>1, Take
  <2>2. 1 \in 1..n /\ n # 0
    BY <1>1
  <2>3. QED
    BY <2>1, <2>2, EmptySeq
<1>3. SubSeq(Chain(t), 1, n) = b /\ \A i \in 1..n : b[i] = ChainNode(t, i)
  BY <1>1, ChainTake
<1> HIDE DEF u
<1>4. TreeOK(b, t[1]) /\ Len(b) = n
  <2>1. Len(u) <= QLen
    BY <1>1, <1>2, SizeAssumption
  <2>2. QED
    BY <1>2, <2>1, TreeChain, ChainFacts
<1> HIDE DEF b
<1>5. Distinct(b)
  <2> SUFFICES ASSUME NEW i \in 2..n, NEW k \in 2..n, b[i].parent = b[k].parent
               PROVE  i = k
    BY <1>4 DEF Distinct
  <2>1. b[i].parent = i - 1 /\ b[k].parent = k - 1
    <3>1. i \in 1..n /\ k \in 1..n
      BY <1>1
    <3>2. QED
      BY <1>3, <3>1 DEF ChainNode
  <2>2. i \in Nat /\ k \in Nat
    BY <1>1
  <2>3. i - 1 = k - 1
    BY <2>1
  <2>4. QED
    BY <2>2, <2>3
<1>6. QED
  BY <1>3, <1>4, <1>5

\* The candidates a tree starts with.
LEMMA SeedHeap ==
  ASSUME NEW t \in Seq(Token), Len(t) = QLen, \A i \in 1..L : t[i + 1] = TopTok(i),
         NEW d \in 1..L, K # 1, K \in Nat \ {0},
         NEW h, \A e \in h : \E p \in 1..d : \E w : e = Cand(p, p, 2, w),
         \A e, f \in h : e.parent = f.parent => e = f
  PROVE  HeapOK(SubSeq(Chain(t), 1, d + 1), h)
<1> DEFINE b == SubSeq(Chain(t), 1, d + 1)
<1>1. d + 1 \in 1..QLen /\ L \in Nat /\ d \in Nat \ {0}
  BY SizeAssumption DEF L
<1>2. Len(b) = d + 1 /\ \A i \in 1..(d + 1) : b[i] = ChainNode(t, i)
  BY <1>1, SeedTree
<1>3. \A i \in 1..(d + 1) : b[i].parent = i - 1 /\ b[i].tok = t[i] /\ b[i].depth = i - 1
  <2> HIDE DEF b
  <2> SUFFICES ASSUME NEW i \in 1..(d + 1)
               PROVE  b[i].parent = i - 1 /\ b[i].tok = t[i] /\ b[i].depth = i - 1
    OBVIOUS
  <2>1. b[i] = ChainNode(t, i)
    BY <1>2
  <2>2. QED
    BY <2>1 DEF ChainNode
<1> HIDE DEF b
<1>5. ASSUME NEW e \in h PROVE CandOK(b, e)
  <2>1. PICK p \in 1..d : \E w : e = Cand(p, p, 2, w)
    OBVIOUS
  <2>2. e.parent = p /\ e.depth = p /\ e.rank = 2 /\ e = Cand(e.parent, e.depth, e.rank, e.logw)
    BY <2>1, CandFields
  <2>3. p \in 1..(d + 1) /\ p <= L /\ 2 \in 1..K /\ p = (p - 1) + 1
    BY <1>1
  <2>4. b[p].depth = p - 1
    BY <1>3, <2>3
  <2>5. \A n \in 2..(d + 1) : b[n].parent = p => \E r \in 1..(2 - 1) : b[n].tok = top[p][r].tok
    <3> SUFFICES ASSUME NEW n \in 2..(d + 1), b[n].parent = p
                 PROVE  b[n].tok = top[p][1].tok
      <4>1. 1 \in 1..(2 - 1)
        OBVIOUS
      <4>2. QED
        BY <4>1, Zenon
    <3>1. n = p + 1 /\ b[n].tok = t[n]
      <4>1. n \in 1..(d + 1)
        BY <1>1
      <4>2. n - 1 = p /\ b[n].tok = t[n]
        BY <1>3, <4>1
      <4>3. QED
        BY <4>1, <4>2
    <3>2. p \in 1..L
      BY <1>1
    <3>3. QED
      BY <3>1, <3>2 DEF TopTok
  <2>6. QED
    BY <1>2, <2>2, <2>3, <2>4, <2>5 DEF CandOK
<1>6. QED
  BY <1>5 DEF HeapOK, b

-----------------------------------------------------------------------------
(* A pass over a tree and the walk through it                              *)

\* All state stands at the end of what was emitted.
Settled == kv = Prefixed(out) /\ ssm = out /\ conv = Window(out)

\* The tree was verified: the target has chosen after every slot's own path.
TreeVerified ==
  /\ posterior = [n \in 1..Len(block) |-> Target(out \o block[n].path)]
  /\ inter = Contexts(out, block)
  /\ convIn = Window(out) \o Tokens(block)
  /\ kv = Prefixed(out) \o Contexts(out, block)

\* A path from the root, each token the target's choice after those before it.
WalkOK(b, acc) ==
  /\ acc \in Seq(1..Len(b)) /\ acc # <<>> /\ acc[1] = 1
  /\ \A i \in 2..Len(acc) : b[acc[i]].parent = acc[i - 1]
  /\ \A i, j \in 1..Len(acc) : i < j => acc[i] < acc[j]
  /\ \A i \in 1..Len(acc) :
        /\ acc[i] >= i
        /\ b[acc[i]].path = [j \in 1..i |-> b[acc[j]].tok]
        /\ Follows(out, b[acc[i]].path)

LEMMA TreeSlots ==
  ASSUME NEW b, NEW x, TreeOK(b, x), NEW n \in 1..Len(b)
  PROVE  /\ Len(b) \in Nat \ {0} /\ DOMAIN b = 1..Len(b)
         /\ b[n].tok \in Token /\ b[n].path \in Seq(Token) /\ b[n].path # <<>>
         /\ n # 1 => n \in 2..Len(b) /\ ChildOK(b, n)
<1>1. b \in Seq(Slots) /\ b # <<>>
  BY DEF TreeOK
<1>2. Len(b) \in Nat \ {0} /\ DOMAIN b = 1..Len(b) /\ b[n] \in Slots
  BY <1>1, EmptySeq, LenProperties, ElementOfSeq
<1>3. b[n].tok \in Token /\ b[n].path \in Seq(Token)
  BY <1>2 DEF Slots
<1>4. b[n].path # <<>>
  BY DEF TreeOK, SlotOK
<1>5. n # 1 => n \in 2..Len(b)
  BY <1>2
<1>6. QED
  BY <1>2, <1>3, <1>4, <1>5 DEF TreeOK

\* The target judges every slot of a tree after its own path.
LEMMA TreePass ==
  ASSUME out \in Seq(Token), committed = Len(out), Settled,
         NEW x, TreeOK(block, x), Verify(block)
  PROVE  /\ posterior' = [n \in 1..Len(block) |-> Target(out \o block[n].path)]
         /\ inter' = Contexts(out, block)
         /\ convIn' = Window(out) \o Tokens(block)
         /\ kv' = Prefixed(out) \o Contexts(out, block)
<1>1. SubSeq(kv, 1, committed) = Prefixed(out)
  <2>1. Prefixed(out) \in Seq(Seq(Token)) /\ Len(Prefixed(out)) = Len(out)
    BY PrefixedFacts
  <2>2. QED
    BY <2>1, TakeAll DEF Settled
<1>2. ssm = out /\ conv = Window(out)
  BY DEF Settled
<1>3. \A n \in 1..Len(block) : Choice(out, Window(out), block, n) = Target(out \o block[n].path)
  BY <1>1 DEF Choice, TreeOK, SlotOK
<1>4. QED
  BY <1>1, <1>2, <1>3 DEF Verify, Forward

LEMMA FollowsRoot ==
  ASSUME out \in Seq(Token)
  PROVE  Follows(out, <<Target(out)>>)
<1> DEFINE x == Target(out)
<1>1. SubSeq(<<x>>, 1, 0) = <<>> /\ Len(<<x>>) = 1 /\ <<x>>[1] = x
  OBVIOUS
<1>2. out \o <<>> = out
  BY ConcatEmptySeq
<1>3. \A i \in 1..1 : i = 1 /\ i - 1 = 0
  OBVIOUS
<1>4. QED
  BY <1>1, <1>2, <1>3 DEF Follows

LEMMA WalkStarts ==
  ASSUME out \in Seq(Token), NEW b, TreeOK(b, Target(out))
  PROVE  WalkOK(b, <<1>>)
<1> DEFINE acc == <<1>>
<1>1. Len(b) \in Nat \ {0} /\ 1 \in 1..Len(b)
  BY EmptySeq DEF TreeOK
<1>2. b[1].tok = Target(out) /\ b[1].path = <<Target(out)>>
  BY DEF TreeOK
<1>3. acc \in Seq(1..Len(b)) /\ acc # <<>> /\ acc[1] = 1 /\ Len(acc) = 1
  BY <1>1
<1> HIDE DEF acc
<1>4. \A i \in 1..1 : i = 1
  OBVIOUS
<1>5. b[1].path = [j \in 1..1 |-> b[acc[j]].tok]
  <2>1. <<Target(out)>> = [j \in 1..1 |-> Target(out)]
    OBVIOUS
  <2>2. \A j \in 1..1 : b[acc[j]].tok = Target(out)
    BY <1>2, <1>3, <1>4
  <2>3. QED
    BY <1>2, <2>1, <2>2
<1>6. Follows(out, b[1].path)
  BY <1>2, FollowsRoot
<1>7. \A i \in 1..1 : /\ acc[i] >= i
                      /\ b[acc[i]].path = [j \in 1..i |-> b[acc[j]].tok]
                      /\ Follows(out, b[acc[i]].path)
  BY <1>3, <1>4, <1>5, <1>6
<1>8. /\ \A i \in 2..1 : b[acc[i]].parent = acc[i - 1]
      /\ \A i, j \in 1..1 : i < j => acc[i] < acc[j]
  OBVIOUS
<1>9. QED
  BY <1>3, <1>7, <1>8 DEF WalkOK, acc

\* follow_verified_tree takes one step.
LEMMA WalkGrows ==
  ASSUME out \in Seq(Token), TargetChooses, NEW b, NEW x, TreeOK(b, x),
         NEW acc, WalkOK(b, acc), NEW n \in 1..Len(b),
         b[n].parent = Last(acc), b[n].tok = Target(out \o b[Last(acc)].path)
  PROVE  WalkOK(b, Append(acc, n)) /\ n \in 2..Len(b)
<1> DEFINE k == Len(acc)
           p == acc[k]
           c == Append(acc, n)
<1>1. acc \in Seq(1..Len(b)) /\ k \in Nat \ {0} /\ Last(acc) = p /\ p \in 1..Len(b) /\ p >= k
  <2>1. acc \in Seq(1..Len(b)) /\ acc # <<>>
    BY DEF WalkOK
  <2>2. k \in Nat \ {0} /\ k \in 1..Len(acc)
    BY <2>1, EmptySeq
  <2>3. QED
    BY <2>1, <2>2, ElementOfSeq DEF WalkOK, Last
<1>2. c \in Seq(1..Len(b)) /\ Len(c) = k + 1 /\ c[k + 1] = n /\ \A i \in 1..k : c[i] = acc[i]
  BY <1>1, AppendProperties
<1>3. Len(b) \in Nat \ {0} /\ n # 1
  BY <1>1, TreeSlots DEF TreeOK
<1>4. n \in 2..Len(b) /\ ChildOK(b, n)
  BY <1>3, TreeSlots
<1>5. n > p /\ b[n].path = Append(b[p].path, b[n].tok)
  <2>1. b[n].parent \in 1..(n - 1) /\ b[n].path = Append(b[b[n].parent].path, b[n].tok)
    BY <1>4 DEF ChildOK
  <2>2. b[n].parent = p
    BY <1>1
  <2>3. QED
    BY <1>1, <2>1, <2>2
<1>6. b[p].path \in Seq(Token) /\ Follows(out, b[p].path)
      /\ b[p].path = [j \in 1..k |-> b[acc[j]].tok]
  <2>1. k \in 1..Len(acc)
    BY <1>1
  <2>2. QED
    BY <1>1, <2>1, TreeSlots DEF WalkOK
<1>7. Follows(out, b[n].path)
  <2> DEFINE s == b[p].path
  <2>1. s \in Seq(Token) /\ Follows(out, s)
    BY <1>6
  <2>2. b[n].tok = Target(out \o s) /\ b[n].path = Append(s, b[n].tok)
    BY <1>1, <1>5
  <2> HIDE DEF s
  <2>3. Follows(out, Append(s, Target(out \o s)))
    BY <2>1, FollowsAppend
  <2>4. QED
    BY <2>2, <2>3
<1>8. b[n].path = [j \in 1..(k + 1) |-> b[c[j]].tok]
  <2> DEFINE s == [j \in 1..k |-> b[acc[j]].tok]
             t == b[n].tok
             u == [j \in 1..(k + 1) |-> b[c[j]].tok]
  <2>1. t \in Token
    BY TreeSlots
  <2>2. s \in Seq(Token) /\ Len(s) = k
    BY <1>1, <1>6
  <2>3. \A j \in 1..(k + 1) : b[c[j]].tok = IF j <= k THEN s[j] ELSE t
    <3> SUFFICES ASSUME NEW j \in 1..(k + 1)
                 PROVE  b[c[j]].tok = IF j <= k THEN s[j] ELSE t
      OBVIOUS
    <3>1. CASE j <= k
      <4>1. j \in 1..k
        BY <1>1, <3>1
      <4>2. QED
        BY <1>2, <3>1, <4>1
    <3>2. CASE ~(j <= k)
      <4>1. j = k + 1
        BY <1>1, <3>2
      <4>2. QED
        BY <1>2, <3>2, <4>1
    <3>3. QED
      BY <3>1, <3>2
  <2> HIDE DEF s, t
  <2>4. Append(s, t) \in Seq(Token) /\ Len(Append(s, t)) = k + 1
        /\ \A j \in 1..k : Append(s, t)[j] = s[j] /\ Append(s, t)[k + 1] = t
    BY <2>1, <2>2, AppendProperties
  <2>5. \A j \in 1..(k + 1) : Append(s, t)[j] = IF j <= k THEN s[j] ELSE t
    BY <1>1, <2>4
  <2>6. Append(s, t) = u
    <3>1. Append(s, t) = [j \in 1..(k + 1) |-> Append(s, t)[j]]
      BY <2>4, LenProperties
    <3>2. QED
      BY <2>3, <2>5, <3>1
  <2>7. b[n].path = Append(s, t)
    BY <1>5, <1>6 DEF s, t
  <2>8. QED
    BY <2>6, <2>7
<1> HIDE DEF c, k, p
<1>9. /\ \A i \in 2..k : acc[i - 1] \in 1..Len(b) /\ b[acc[i]].parent = acc[i - 1]
      /\ \A i, j \in 1..k : i < j => acc[i] < acc[j]
      /\ \A i \in 1..k : /\ acc[i] >= i
                         /\ b[acc[i]].path = [j \in 1..i |-> b[acc[j]].tok]
                         /\ Follows(out, b[acc[i]].path)
  <2>1. \A i \in 2..k : i - 1 \in 1..Len(acc)
    BY <1>1 DEF k
  <2>2. QED
    BY <1>1, <2>1, ElementOfSeq DEF WalkOK, k
<1>10. \A i \in 1..k : acc[i] <= p /\ acc[i] \in Nat
  <2> SUFFICES ASSUME NEW i \in 1..k PROVE acc[i] <= p /\ acc[i] \in Nat
    OBVIOUS
  <2>1. acc[i] \in 1..Len(b)
    BY <1>1, ElementOfSeq DEF k
  <2>2. i < k \/ i = k
    BY <1>1
  <2>3. k \in 1..k
    BY <1>1
  <2>4. i < k => acc[i] < acc[k]
    BY <1>9, <2>3
  <2>5. QED
    BY <1>1, <1>3, <2>1, <2>2, <2>4 DEF p
<1>11. ASSUME NEW i \in 2..(k + 1) PROVE b[c[i]].parent = c[i - 1]
  <2>1. i - 1 \in 1..k /\ c[i - 1] = acc[i - 1]
    BY <1>1, <1>2
  <2>2. CASE i = k + 1
    <3>1. c[i] = n /\ acc[i - 1] = p
      BY <1>1, <1>2, <2>2 DEF p
    <3>2. QED
      BY <1>1, <2>1, <3>1
  <2>3. CASE i # k + 1
    <3>1. i \in 2..k /\ i \in 1..k
      BY <1>1, <2>3
    <3>2. QED
      BY <1>2, <1>9, <2>1, <3>1
  <2>4. QED
    BY <2>2, <2>3
<1>12. ASSUME NEW i \in 1..(k + 1), NEW j \in 1..(k + 1), i < j PROVE c[i] < c[j]
  <2>1. i \in 1..k /\ c[i] = acc[i]
    <3>1. i \in 1..k
      BY <1>1, <1>12
    <3>2. QED
      BY <1>2, <3>1
  <2>2. CASE j = k + 1
    <3>1. c[j] = n /\ n \in Nat /\ p \in Nat
      BY <1>1, <1>2, <1>3, <2>2
    <3>2. QED
      BY <1>5, <1>10, <2>1, <3>1
  <2>3. CASE j # k + 1
    <3>1. j \in 1..k
      BY <1>1, <2>3
    <3>2. QED
      BY <1>2, <1>9, <1>12, <2>1, <3>1
  <2>4. QED
    BY <2>2, <2>3
<1>13. ASSUME NEW i \in 1..(k + 1)
       PROVE  /\ c[i] >= i
              /\ b[c[i]].path = [j \in 1..i |-> b[c[j]].tok]
              /\ Follows(out, b[c[i]].path)
  <2>1. CASE i = k + 1
    <3>1. c[i] = n /\ n >= k + 1
      BY <1>1, <1>2, <1>3, <1>5, <2>1
    <3>2. QED
      BY <1>7, <1>8, <2>1, <3>1
  <2>2. CASE i # k + 1
    <3>1. i \in 1..k
      BY <1>1, <2>2
    <3>2. \A j \in 1..i : c[j] = acc[j]
      <4>1. \A j \in 1..i : j \in 1..k
        BY <1>1, <3>1
      <4>2. QED
        BY <1>2, <4>1
    <3>3. [j \in 1..i |-> b[acc[j]].tok] = [j \in 1..i |-> b[c[j]].tok]
      BY <3>2
    <3>4. c[i] = acc[i]
      BY <1>2, <3>1
    <3>5. QED
      BY <1>9, <3>1, <3>3, <3>4
  <2>3. QED
    BY <2>1, <2>2
<1>14. c # <<>> /\ c[1] = 1
  <2>1. 1 \in 1..k /\ acc[1] = 1
    BY <1>1 DEF WalkOK
  <2>2. QED
    BY <1>1, <1>2, <2>1, EmptySeq
<1>15. WalkOK(b, c)
  BY <1>2, <1>11, <1>12, <1>13, <1>14 DEF WalkOK
<1>16. QED
  BY <1>4, <1>15 DEF c

\* The part of a walk that is committed, and the tokens along it.
LEMMA WalkTake ==
  ASSUME out \in Seq(Token), NEW b, NEW x, TreeOK(b, x), NEW acc, WalkOK(b, acc),
         NEW m \in 1..Len(acc)
  PROVE  LET t == b[acc[m]].path
         IN  /\ acc[m] \in 1..Len(b) /\ t \in Seq(Token) /\ Len(t) = m /\ Follows(out, t)
             /\ \A i \in 1..m : t[i] = b[acc[i]].tok
             /\ \A d \in 1..m : b[acc[d]].path = SubSeq(t, 1, d)
<1> DEFINE t == b[acc[m]].path
<1>1. acc \in Seq(1..Len(b)) /\ Len(acc) \in Nat
  BY DEF WalkOK
<1>2. \A i \in 1..Len(acc) : acc[i] \in 1..Len(b)
  BY <1>1, ElementOfSeq
<1>3. \A i \in 1..Len(acc) : b[acc[i]].path \in Seq(Token)
  BY <1>2, TreeSlots
<1>4. \A i \in 1..Len(acc) : b[acc[i]].path = [j \in 1..i |-> b[acc[j]].tok]
  BY DEF WalkOK
<1>5. t \in Seq(Token) /\ t = [i \in 1..m |-> b[acc[i]].tok] /\ Follows(out, t)
  BY <1>3, <1>4 DEF WalkOK
<1>6. Len(t) = m /\ \A i \in 1..m : t[i] = b[acc[i]].tok
  BY <1>5
<1>7. ASSUME NEW d \in 1..m PROVE b[acc[d]].path = SubSeq(t, 1, d)
  <2> DEFINE u == b[acc[d]].path
             v == SubSeq(t, 1, d)
  <2>1. d \in 1..Len(acc) /\ d \in 0..Len(t) /\ \A i \in 1..d : i \in 1..m
    BY <1>1, <1>6
  <2>2. u \in Seq(Token) /\ u = [i \in 1..d |-> b[acc[i]].tok]
    BY <1>3, <1>4, <2>1
  <2> HIDE DEF u, t
  <2>3. Len(u) = d /\ \A i \in 1..d : u[i] = b[acc[i]].tok
    BY <2>2
  <2>4. v \in Seq(Token) /\ Len(v) = d /\ \A i \in 1..d : v[i] = t[i]
    BY <1>5, <2>1, Take
  <2> HIDE DEF v
  <2>5. \A i \in 1..d : u[i] = v[i]
    BY <1>6, <2>1, <2>3, <2>4
  <2>6. u = v
    BY <2>2, <2>3, <2>4, <2>5, SeqEqual
  <2>7. QED
    BY <2>6 DEF u, v, t
<1>8. QED
  BY <1>2, <1>5, <1>6, <1>7

\* The three columns along a slot's ancestry are the window after its path,
\* also for a path shorter than the window.
LEMMA ConvFollows ==
  ASSUME out \in Seq(Token), NEW x, TreeOK(block, x), NEW acc, WalkOK(block, acc),
         NEW m \in 1..Len(acc), convIn = Window(out) \o Tokens(block)
  PROVE  ConvAfter(acc[m]) = Window(out \o block[acc[m]].path)
<1> DEFINE t == block[acc[m]].path
           W == Window(out)
           T == Tokens(block)
           y == W \o t
           z == Window(out \o t)
<1>1. /\ t \in Seq(Token) /\ Len(t) = m /\ m \in Nat \ {0} /\ Len(acc) \in Nat
      /\ \A i \in 1..m : t[i] = block[acc[i]].tok
  <2>1. Len(acc) \in Nat
    BY DEF WalkOK
  <2>2. QED
    BY <2>1, WalkTake
<1>2. \A i \in 1..m : t[i] = block[acc[i]].tok /\ acc[i] \in 1..Len(block)
  <2>1. acc \in Seq(1..Len(block))
    BY DEF WalkOK
  <2>2. QED
    BY <1>1, <2>1, ElementOfSeq
<1>3. /\ T \in Seq(Token) /\ Len(T) = Len(block) /\ Len(block) \in Nat
      /\ \A n \in 1..Len(block) : T[n] = block[n].tok
  <2>1. Len(block) \in Nat
    BY DEF TreeOK
  <2>2. \A n \in 1..Len(block) : block[n].tok \in Token
    BY TreeSlots
  <2>3. QED
    BY <2>1, <2>2 DEF Tokens
<1> HIDE DEF t, T
<1>4. out \o t \in Seq(Token) /\ SubSeq(t, 1, m) = t
  BY <1>1, ConcatProperties, TakeAll
<1>5. W \in Seq(Column) /\ Len(W) = 3 /\ t \in Seq(Column) /\ T \in Seq(Column)
  BY <1>1, <1>3, WindowFacts
<1>6. z \in Seq(Column) /\ Len(z) = 3 /\ z = SubSeq(y, m + 1, m + 3)
  <2>1. m \in 0..Len(t)
    BY <1>1
  <2>2. SubSeq(W \o t, m + 1, m + ConvWidth) = Window(out \o SubSeq(t, 1, m))
    BY <1>1, <2>1, WindowSlides
  <2>3. QED
    BY <1>4, <2>2, WindowFacts DEF ConvWidth
<1> HIDE DEF W, z
<1>7. y \in Seq(Column) /\ Len(y) = 3 + m
      /\ \A i \in 1..(3 + m) : y[i] = IF i <= 3 THEN W[i] ELSE t[i - 3]
  <2>1. /\ y \in Seq(Column) /\ Len(y) = Len(W) + Len(t)
        /\ \A i \in 1..(Len(W) + Len(t)) : y[i] = IF i <= Len(W) THEN W[i] ELSE t[i - Len(W)]
    BY <1>5, ConcatProperties
  <2>2. QED
    BY <1>1, <1>5, <2>1
<1>8. /\ Len(convIn) = 3 + Len(block)
      /\ \A i \in 1..(3 + Len(block)) : convIn[i] = IF i <= 3 THEN W[i] ELSE T[i - 3]
  <2>1. convIn = W \o T
    BY DEF W, T
  <2>2. /\ Len(W \o T) = Len(W) + Len(T)
        /\ \A i \in 1..(Len(W) + Len(T)) :
             (W \o T)[i] = IF i <= Len(W) THEN W[i] ELSE T[i - Len(W)]
    BY <1>5, ConcatProperties
  <2>3. QED
    BY <1>3, <1>5, <2>1, <2>2
<1> HIDE DEF y
<1>9. \A j \in 1..3 : z[j] = y[m + j]
  <2>1. \A i \in (m + 1)..(m + 3) : y[i] \in Column
    <3> SUFFICES ASSUME NEW i \in (m + 1)..(m + 3) PROVE y[i] \in Column
      OBVIOUS
    <3>1. i \in 1..Len(y)
      BY <1>1, <1>7
    <3>2. QED
      BY <1>7, <3>1, ElementOfSeq
  <2> DEFINE v == SubSeq(y, m + 1, m + 3)
  <2>2. \A j \in 1..(m + 3 - (m + 1) + 1) : v[j] = y[m + 1 + j - 1]
    BY <1>1, <2>1, SubSeqProperties
  <2> HIDE DEF v
  <2>3. \A j \in 1..3 : j \in 1..(m + 3 - (m + 1) + 1) /\ m + 1 + j - 1 = m + j
    BY <1>1
  <2>4. \A j \in 1..3 : v[j] = y[m + j]
    BY <2>2, <2>3
  <2>5. QED
    BY <1>6, <2>4 DEF v
\* Columns of the tree and of the old state.
<1>10. ASSUME NEW i \in 1..m PROVE convIn[3 + acc[i]] = y[3 + i]
  <2>1. acc[i] \in 1..Len(block) /\ t[i] = block[acc[i]].tok
    BY <1>2
  <2>2. 3 + acc[i] \in 1..(3 + Len(block)) /\ ~(3 + acc[i] <= 3) /\ (3 + acc[i]) - 3 = acc[i]
    BY <1>3, <2>1
  <2>3. convIn[3 + acc[i]] = T[acc[i]]
    BY <1>8, <2>2
  <2>4. 3 + i \in 1..(3 + m) /\ ~(3 + i <= 3) /\ (3 + i) - 3 = i
    BY <1>1
  <2>5. y[3 + i] = t[i]
    BY <1>7, <2>4
  <2>6. QED
    BY <1>3, <2>1, <2>3, <2>5
<1>11. \A i \in 1..3 : convIn[i] = y[i]
  <2> SUFFICES ASSUME NEW i \in 1..3 PROVE convIn[i] = y[i]
    OBVIOUS
  <2>1. i \in 1..(3 + Len(block)) /\ i \in 1..(3 + m) /\ i <= 3
    BY <1>1, <1>3
  <2>2. QED
    BY <1>7, <1>8, <2>1
<1>12. acc[1] = 1 /\ block[1].parent = 0 /\ \A i \in 2..m : block[acc[i]].parent = acc[i - 1]
  <2>1. \A i \in 2..m : i \in 2..Len(acc)
    BY <1>1
  <2>2. QED
    BY <2>1 DEF WalkOK, TreeOK
<1>13. /\ \A i \in 2..m : Up(acc[i]) = acc[i - 1]
       /\ Up(acc[1]) = 0 /\ Up(0) = -1
  <2>1. ASSUME NEW i \in 1..m PROVE acc[i] >= 1
    BY <1>2
  <2>2. \A i \in 2..m : i \in 1..m
    BY <1>1
  <2>3. ASSUME NEW i \in 2..m PROVE Up(acc[i]) = acc[i - 1]
    BY <1>12, <2>1, <2>2 DEF Up
  <2>4. Up(acc[1]) = 0 /\ Up(0) = -1
    BY <1>12 DEF Up
  <2>5. QED
    BY <2>3, <2>4
<1>14. m \in 1..m
  BY <1>1
<1> DEFINE a3 == convIn[3 + acc[m]]
           a2 == convIn[3 + Up(acc[m])]
           a1 == convIn[3 + Up(Up(acc[m]))]
<1>15. a3 = y[m + 3]
  <2>1. 3 + m = m + 3
    BY <1>1
  <2>2. QED
    BY <1>10, <1>14, <2>1
<1>16. a2 = y[m + 2]
  <2>1. CASE m = 1
    <3>1. 3 + Up(acc[m]) = 3 /\ m + 2 = 3 /\ 3 \in 1..3
      BY <1>13, <2>1
    <3>2. QED
      BY <1>11, <3>1
  <2>2. CASE m # 1
    <3>1. m \in 2..m /\ m - 1 \in 1..m /\ 3 + (m - 1) = m + 2
      BY <1>1, <2>2
    <3>2. Up(acc[m]) = acc[m - 1]
      BY <1>13, <3>1
    <3>3. QED
      BY <1>10, <3>1, <3>2
  <2>3. QED
    BY <2>1, <2>2
<1>17. a1 = y[m + 1]
  <2>1. CASE m = 1
    <3>1. Up(Up(acc[m])) = -1
      BY <1>13, <2>1
    <3>2. 3 + Up(Up(acc[m])) = 2 /\ m + 1 = 2 /\ 2 \in 1..3
      BY <2>1, <3>1
    <3>3. QED
      BY <1>11, <3>2
  <2>2. CASE m = 2
    <3>1. 2 \in 2..m
      BY <2>2
    <3>2. Up(acc[2]) = acc[1]
      BY <1>13, <3>1
    <3>3. Up(Up(acc[m])) = 0
      BY <1>13, <2>2, <3>2
    <3>4. 3 + Up(Up(acc[m])) = 3 /\ m + 1 = 3 /\ 3 \in 1..3
      BY <2>2, <3>3
    <3>5. QED
      BY <1>11, <3>4
  <2>3. CASE m > 2
    <3>1. m \in 2..m /\ m - 1 \in 2..m /\ m - 2 \in 1..m /\ 3 + (m - 2) = m + 1
          /\ (m - 1) - 1 = m - 2
      BY <1>1, <2>3
    <3>2. Up(acc[m]) = acc[m - 1] /\ Up(acc[m - 1]) = acc[m - 2]
      BY <1>13, <3>1
    <3>3. Up(Up(acc[m])) = acc[m - 2]
      BY <3>2
    <3>4. QED
      BY <1>10, <3>1, <3>3
  <2>4. m = 1 \/ m = 2 \/ m > 2
    BY <1>1
  <2>5. QED
    BY <2>1, <2>2, <2>3, <2>4
<1>18. z = <<a1, a2, a3>>
  <2> HIDE DEF a1, a2, a3
  <2>1. z[1] = a1 /\ z[2] = a2 /\ z[3] = a3
    <3>1. 1 \in 1..3 /\ 2 \in 1..3 /\ 3 \in 1..3
      OBVIOUS
    <3>2. QED
      BY <1>9, <1>15, <1>16, <1>17, <3>1
  <2> DEFINE v == <<a1, a2, a3>>
  <2>2. \A j \in 1..3 : j = 1 \/ j = 2 \/ j = 3
    OBVIOUS
  <2>3. \A j \in 1..3 : z[j] \in Column
    BY <1>6, ElementOfSeq
  <2>4. v \in Seq(Column) /\ Len(v) = 3 /\ v[1] = a1 /\ v[2] = a2 /\ v[3] = a3
    <3>1. 1 \in 1..3 /\ 2 \in 1..3 /\ 3 \in 1..3
      OBVIOUS
    <3>2. a1 \in Column /\ a2 \in Column /\ a3 \in Column
      BY <2>1, <2>3, <3>1
    <3>3. QED
      BY <3>2
  <2> HIDE DEF v
  <2>5. \A j \in 1..3 : z[j] = v[j]
    BY <2>1, <2>2, <2>4
  <2>6. z = v
    BY <1>6, <2>4, <2>5, SeqEqual
  <2>7. QED
    BY <2>6 DEF v
<1>19. QED
  BY <1>18 DEF ConvAfter, z, t

-----------------------------------------------------------------------------
(* The invariant                                                           *)

\* The stream so far.
Emitted ==
  /\ prompt \in Prompts
  /\ out \in Seq(Token)
  /\ Greedy(out) /\ Len(out) <= Len(prompt) + NGen

\* A block was drafted, and the rollback can be undone.
Drafted ==
  /\ Room > 0
  /\ top \in [1..L -> Row]
  /\ lastTok = Target(out)
  /\ strategy = "legacy" => backup = <<out, Window(out)>>

\* The chain was verified: all state stands at its end, and what a rollback
\* needs is at hand for each of its slots.
Verified ==
  /\ block = Chain(DraftTok)
  /\ posterior = [n \in 1..QLen |-> Target(out \o SubSeq(DraftTok, 1, n))]
  /\ inter = [n \in 1..QLen |-> out \o SubSeq(DraftTok, 1, n)]
  /\ convIn = Window(out) \o DraftTok
  /\ kv = Prefixed(out \o DraftTok)
  /\ ssm = out \o DraftTok
  /\ conv = Window(out \o DraftTok)

\* The draft's own chain stands in the first slots of a seeded tree.
Covers == strategy = "seeded" /\ Budget >= L
SpineIn(b) == Len(b) >= QLen /\ \A i \in 1..QLen : b[i] = ChainNode(DraftTok, i)

\* A tree of drafted tokens under last_tok, within the budget.
Grown ==
  /\ TreeOK(block, lastTok) /\ Distinct(block) /\ Len(block) <= Budget + 1
  /\ Covers => SpineIn(block)

\* A walk keeps to the draft's chain as long as the target does.
FollowsDraft(k) == \A i \in 1..(k - 1) : DraftTok[i + 1] = Target(out \o SubSeq(DraftTok, 1, i))
SpineWalked(acc) ==
  Covers => \A k \in 1..Len(acc) : k <= QLen /\ FollowsDraft(k) => acc[k] = k

\* The path is being compacted: the slots up to copied hold it, those still to
\* be copied have not been overwritten.
Compacting ==
  /\ accepted \in Seq(Nat) /\ copied \in 1..Len(accepted)
  /\ committed \in Nat /\ Len(out) = committed + Len(accepted)
  /\ ssm = out /\ conv = Window(out)
  /\ Len(out) < Len(prompt) + NGen => lastTok = Target(out)
  /\ kv \in Seq(Seq(Token))
  /\ \A d \in 1..Len(accepted) : accepted[d] >= d /\ committed + accepted[d] <= Len(kv)
  /\ \A d, e \in 1..Len(accepted) : d < e => accepted[d] < accepted[e]
  /\ \A i \in 1..(committed + copied) : kv[i] = SubSeq(out, 1, i)
  /\ \A d \in (copied + 1)..Len(accepted) :
       kv[committed + accepted[d]] = SubSeq(out, 1, committed + d)

Drafting == {"seed", "grow", "chain", "tree", "accept", "walk"}

Inv ==
  /\ phase \in Drafting \cup {"loop", "compact", "break", "done", "undefined"}
  /\ phase # "undefined" => Emitted
  /\ phase \in {"seed", "grow", "tree", "walk", "compact", "undefined"} => Tree
  /\ phase \in Drafting \cup {"loop"} => committed = Len(out)
  /\ phase \in {"loop", "seed", "grow", "chain", "tree"} => Settled
  /\ phase = "loop" /\ Room > 0 => lastTok = Target(out)
  /\ phase \in {"loop", "break", "done"} /\ ~Tree => Settled /\ lastTok = Target(out)
  /\ phase \in Drafting => Drafted
  /\ phase \in {"grow", "tree", "walk"} => Grown
  /\ phase = "grow" => HeapOK(block, heap)
  /\ phase = "accept" => Verified
  /\ phase = "walk" => TreeVerified /\ WalkOK(block, accepted) /\ SpineWalked(accepted)
  /\ phase = "compact" => Compacting
  /\ phase = "done" => curPos = Len(out) /\ curTok = lastTok

\* What the draft proposes, its first token pinned to last_tok.
LEMMA DraftFacts ==
  ASSUME top \in [1..L -> Row], lastTok \in Token
  PROVE  /\ DraftTok \in Seq(Token) /\ Len(DraftTok) = QLen /\ DraftTok[1] = lastTok
         /\ \A i \in 1..L : DraftTok[i + 1] = TopTok(i)
<1>1. L \in Nat \ {0} /\ QLen = L + 1
  BY SizeAssumption DEF L
<1>2. \A d \in 1..L : TopTok(d) \in Token
  <2> SUFFICES ASSUME NEW d \in 1..L PROVE top[d][1].tok \in Token
    BY DEF TopTok
  <2>1. K \in Nat \ {0} /\ \A r \in 1..K : top[d][r].tok \in Token
    BY RowFacts
  <2>2. 1 \in 1..K
    BY <2>1
  <2>3. QED
    BY <2>1, <2>2
<1>3. \A i \in 1..QLen : i # 1 => i - 1 \in 1..L
  BY <1>1
<1>4. \A i \in 1..QLen : DraftTok[i] \in Token
  BY <1>2, <1>3 DEF DraftTok
<1>5. \A i \in 1..L : DraftTok[i + 1] = TopTok(i)
  <2> SUFFICES ASSUME NEW i \in 1..L PROVE DraftTok[i + 1] = TopTok(i)
    OBVIOUS
  <2>1. i + 1 \in 1..QLen /\ i + 1 # 1 /\ (i + 1) - 1 = i
    BY <1>1
  <2>2. QED
    BY <2>1 DEF DraftTok
<1>6. QED
  BY <1>1, <1>4, <1>5 DEF DraftTok

-----------------------------------------------------------------------------
(* What a step leaves alone                                                *)

LEMMA EmittedStays ==
  ASSUME Emitted, UNCHANGED <<prompt, out>>
  PROVE  Emitted'
BY DEF Emitted, Greedy

LEMMA SettledStays ==
  ASSUME Settled, UNCHANGED <<kv, ssm, conv, out>>
  PROVE  Settled'
BY DEF Settled

LEMMA DraftedStays ==
  ASSUME Drafted, UNCHANGED <<strategy, prompt, out, committed, lastTok, backup, top>>
  PROVE  Drafted' /\ DraftTok' = DraftTok /\ K' = K
<1>1. Row' = Row /\ Room' = Room /\ L' = L /\ K' = K
  BY DEF Row, K, Tree, L, Room
<1>2. DraftTok' = DraftTok
  BY DEF DraftTok, TopTok
<1>3. QED
  BY <1>1, <1>2 DEF Drafted

LEMMA GrownStays ==
  ASSUME Grown, UNCHANGED <<strategy, lastTok, block>>, DraftTok' = DraftTok
  PROVE  Grown'
<1>1. TreeOK(block, lastTok)' /\ Distinct(block)' /\ Len(block') <= Budget + 1
  <2>1. block' = block /\ lastTok' = lastTok
    OBVIOUS
  <2>2. TreeOK(block, lastTok)'
    <3>1. L' = L
      BY DEF L
    <3>2. ASSUME NEW n \in 1..Len(block) PROVE SlotOK(block, n)'
      <4>1. SlotOK(block, n)
        BY DEF Grown, TreeOK
      <4>2. QED
        BY <2>1, <3>1, <4>1, Zenon DEF SlotOK, Attends
    <3>3. \A n \in 2..Len(block) : ChildOK(block, n)'
      BY <2>1 DEF Grown, TreeOK, ChildOK
    <3>4. QED
      BY <2>1, <3>2, <3>3 DEF Grown, TreeOK
  <2>3. Distinct(block)' /\ Len(block') <= Budget + 1
    BY <2>1 DEF Grown, Distinct
  <2>4. QED
    BY <2>2, <2>3
<1>2. Covers' => Covers
  BY DEF Covers, L
<1>3. SpineIn(block) => SpineIn(block)'
  BY DEF SpineIn
<1>4. QED
  BY <1>1, <1>2, <1>3 DEF Grown

LEMMA InitInv ==
  ASSUME TargetChooses, Init
  PROVE  Inv
<1>1. prompt \in Seq(Token) /\ out = prompt /\ prompt \in Prompts /\ phase = "loop"
  BY AdmittedAssumption DEF Init
<1>2. Emitted
  BY <1>1, SizeAssumption DEF Emitted, Greedy
<1>3. Settled /\ lastTok = Target(out) /\ committed = Len(out)
  BY DEF Init, Settled
<1>4. QED
  BY <1>1, <1>2, <1>3 DEF Inv, Drafting

LEMMA DraftInv ==
  ASSUME Inv, Draft
  PROVE  Inv'
<1>1. /\ phase = "loop" /\ Room > 0 /\ Settled /\ Emitted /\ committed = Len(out)
      /\ lastTok = Target(out)
  BY DEF Inv, Draft
<1>2. UNCHANGED <<strategy, prompt, out, committed, lastTok, kv, ssm, conv>>
  BY DEF Draft
<1>3. Row' = Row /\ L' = L /\ Room' = Room /\ Tree' = Tree
  BY <1>2 DEF Row, K, Tree, L, Room
<1>4. Drafted'
  <2>1. Room' > 0 /\ lastTok' = Target(out)' /\ top' \in [1..L -> Row]
    BY <1>1, <1>2, <1>3 DEF Draft
  <2>2. strategy' = "legacy" => backup' = <<out', Window(out')>>
    BY <1>1, <1>2 DEF Draft, Settled
  <2>3. QED
    BY <1>3, <2>1, <2>2 DEF Drafted
<1>5. Settled' /\ Emitted' /\ committed' = Len(out')
  BY <1>1, <1>2, SettledStays, EmittedStays
<1>6. \/ phase' = "seed" /\ Tree'
      \/ phase' = "chain"
  BY <1>3 DEF Draft
<1>7. QED
  BY <1>4, <1>5, <1>6 DEF Inv, Drafting

LEMMA SeedInv ==
  ASSUME Inv, TargetChooses, Seed
  PROVE  Inv'
<1> DEFINE d == DraftTok
           n == Min({L, Budget})
<1>1. /\ phase = "seed" /\ Settled /\ Emitted /\ committed = Len(out) /\ Drafted /\ Tree
      /\ out \in Seq(Token) /\ phase' = "grow"
  BY DEF Inv, Seed, Drafting, Emitted
<1>2. /\ UNCHANGED <<strategy, prompt, out, committed, lastTok, kv, ssm, conv, backup, top>>
      /\ Tree' = Tree
  BY DEF Seed, cache, Tree
<1>3. lastTok \in Token /\ top \in [1..L -> Row]
  BY <1>1 DEF Drafted, TargetChooses
<1>4. /\ d \in Seq(Token) /\ Len(d) = QLen /\ d[1] = lastTok
      /\ \A i \in 1..L : d[i + 1] = TopTok(i)
  BY <1>3, DraftFacts
<1>5. Drafted' /\ d' = d /\ K' = K
  BY <1>1, <1>2, DraftedStays
<1>6. /\ L \in Nat \ {0} /\ QLen = L + 1 /\ Budget \in Nat \ {0}
      /\ n \in 1..L /\ n <= Budget /\ (Budget >= L => n = L)
  <2>1. L \in Nat \ {0} /\ QLen = L + 1 /\ Budget \in Nat \ {0}
    BY SizeAssumption DEF L
  <2>2. Min({L, Budget}) = IF L <= Budget THEN L ELSE Budget
    BY <2>1, MinTwo
  <2>3. QED
    BY <2>1, <2>2
<1>7. K \in Nat \ {0}
  BY SizeAssumption DEF K
<1> DEFINE seeded ==
      /\ block' = SubSeq(Chain(d), 1, n + 1)
      /\ heap' = IF K = 1 THEN {} ELSE
           {[parent |-> i, depth |-> i, rank |-> 2,
             logw |-> ChainLp(i) - top[i][1].lp + top[i][2].lp] : i \in 1..n}
           alone ==
      /\ block' = SubSeq(Chain(d), 1, 1)
      /\ heap' = {[parent |-> 1, depth |-> 1, rank |-> 1, logw |-> ChainLp(1)]}
<1>8. IF strategy = "seeded" THEN seeded ELSE alone
  BY DEF Seed
<1>9. /\ TreeOK(block', lastTok) /\ Distinct(block') /\ Len(block') <= Budget + 1
      /\ Covers => SpineIn(block')
      /\ HeapOK(block', heap')
  <2> HIDE DEF d, n
  <2>1. CASE strategy = "seeded"
    <3>1. seeded
      BY <1>8, <2>1
    <3>2. n + 1 \in 1..QLen
      BY <1>6
    <3>3. /\ TreeOK(block', d[1]) /\ Distinct(block') /\ Len(block') = n + 1
          /\ \A i \in 1..(n + 1) : block'[i] = ChainNode(d, i)
      BY <1>4, <3>1, <3>2, SeedTree
    <3>4. Len(block') <= Budget + 1
      BY <1>6, <3>3
    <3>5. Covers => SpineIn(block')
      <4>1. SUFFICES ASSUME Budget >= L PROVE SpineIn(block')
        BY DEF Covers
      <4>2. n + 1 = QLen
        BY <1>6, <4>1
      <4>3. Len(block') >= QLen /\ \A i \in 1..QLen : block'[i] = ChainNode(d, i)
        BY <3>3, <4>2, SizeAssumption
      <4>4. QED
        BY <4>3 DEF SpineIn, d
    <3>6. HeapOK(block', heap')
      <4>1. CASE K = 1
        BY <3>1, <4>1 DEF HeapOK
      <4>2. CASE K # 1
        <5> DEFINE h == {[parent |-> i, depth |-> i, rank |-> 2,
                          logw |-> ChainLp(i) - top[i][1].lp + top[i][2].lp] : i \in 1..n}
        <5>1. heap' = h
          BY <3>1, <4>2
        <5>2. \A e \in h : \E p \in 1..n : \E w : e = Cand(p, p, 2, w)
          BY DEF Cand
        <5>3. \A e, f \in h : e.parent = f.parent => e = f
          OBVIOUS
        <5> HIDE DEF h
        <5>4. HeapOK(SubSeq(Chain(d), 1, n + 1), h)
          BY <1>4, <1>6, <1>7, <4>2, <5>2, <5>3, SeedHeap
        <5>5. QED
          BY <3>1, <5>1, <5>4
      <4>3. QED
        BY <4>1, <4>2
    <3>7. QED
      BY <1>4, <3>3, <3>4, <3>5, <3>6
  <2>2. CASE strategy # "seeded"
    <3>1. alone
      BY <1>8, <2>2
    <3>2. 1 \in 1..QLen
      BY <1>6
    <3>3. /\ TreeOK(block', d[1]) /\ Distinct(block') /\ Len(block') = 1
          /\ \A i \in 1..1 : block'[i] = ChainNode(d, i)
      BY <1>4, <3>1, <3>2, SeedTree
    <3>4. block'[1].depth = 0
      <4>1. block'[1] = ChainNode(d, 1)
        BY <3>3
      <4>2. QED
        BY <4>1 DEF ChainNode
    <3>5. HeapOK(block', heap')
      <4> DEFINE e == Cand(1, 1, 1, ChainLp(1))
      <4>1. heap' = {e}
        BY <3>1 DEF Cand
      <4>2. e.parent = 1 /\ e.depth = 1 /\ e.rank = 1 /\ e = Cand(e.parent, e.depth, e.rank, e.logw)
        BY CandFields
      <4> HIDE DEF e
      <4>3. 1 \in 1..1 /\ 1 = 0 + 1 /\ 1 <= L /\ 1 \in 1..K
        BY <1>6, <1>7
      <4>4. \A i \in 2..1 : FALSE
        OBVIOUS
      <4>5. CandOK(block', e)
        BY <3>3, <3>4, <4>2, <4>3, <4>4 DEF CandOK
      <4>6. QED
        BY <4>1, <4>5 DEF HeapOK
    <3>6. ~Covers /\ 1 <= Budget + 1
      BY <1>6, <2>2 DEF Covers
    <3>7. QED
      BY <1>4, <3>3, <3>5, <3>6
  <2>3. QED
    BY <2>1, <2>2
<1>10. Grown'
  <2>1. TreeOK(block, lastTok)' /\ Distinct(block)'
    BY <1>2, <1>9 DEF TreeOK, SlotOK, ChildOK, Distinct, L, Attends
  <2>2. Covers' => SpineIn(block)'
    BY <1>2, <1>5, <1>9 DEF Covers, SpineIn, L, d
  <2>3. QED
    BY <1>9, <2>1, <2>2 DEF Grown
<1>11. HeapOK(block, heap)'
  BY <1>2, <1>5, <1>9 DEF HeapOK, CandOK, L
<1>12. Settled' /\ Emitted'
  BY <1>1, <1>2, SettledStays, EmittedStays
<1>13. QED
  BY <1>1, <1>2, <1>5, <1>10, <1>11, <1>12 DEF Inv, Drafting

-----------------------------------------------------------------------------
(* Drafting and verifying                                                  *)

LEMMA GrowInv ==
  ASSUME Inv, Grow
  PROVE  Inv'
<1>1. /\ phase = "grow" /\ phase' = "grow" /\ Settled /\ Emitted /\ committed = Len(out)
      /\ Drafted /\ Tree /\ Grown /\ HeapOK(block, heap)
  BY DEF Inv, Grow, Drafting
<1>2. /\ UNCHANGED <<strategy, prompt, out, committed, lastTok, kv, ssm, conv, backup, top>>
      /\ Tree' = Tree
  BY DEF Grow, cache, Tree
<1>3. Drafted' /\ DraftTok' = DraftTok /\ K' = K
  BY <1>1, <1>2, DraftedStays
<1>4. PICK e \in heap :
        /\ block' = Append(block, Node(e))
        /\ heap' = (heap \ {e})
            \cup (IF e.rank = K THEN {} ELSE
                   {[e EXCEPT !.rank = e.rank + 1,
                      !.logw = e.logw - top[e.depth][e.rank].lp + top[e.depth][e.rank + 1].lp]})
            \cup (IF e.depth = L THEN {} ELSE
                   {[parent |-> Len(block) + 1, depth |-> e.depth + 1, rank |-> 1,
                     logw |-> e.logw + top[e.depth + 1][1].lp]})
  BY DEF Grow
<1> DEFINE t == top[e.depth][e.rank].tok
           nd == Sprout(block, e.parent, t)
           w1 == e.logw - top[e.depth][e.rank].lp + top[e.depth][e.rank + 1].lp
           w2 == e.logw + top[e.depth + 1][1].lp
<1>5. Node(e) = nd
  <2>1. e.depth = block[e.parent].depth + 1
    BY <1>1 DEF HeapOK, CandOK
  <2>2. QED
    BY <2>1 DEF Node, Sprout
<1>6. Popped(block, heap, e, heap', w1, w2)
  BY <1>4 DEF Popped, Restamped, Cand
<1> HIDE DEF w1, w2
<1>7. Sprouted(block, Append(block, nd), lastTok, heap')
  <2>1. TreeOK(block, lastTok) /\ Distinct(block) /\ HeapOK(block, heap) /\ top \in [1..L -> Row]
    BY <1>1 DEF Grown, Drafted
  <2>2. QED
    BY <1>6, <2>1, SiblingsGrow
<1> HIDE DEF nd
<1>8. /\ TreeOK(block', lastTok) /\ Distinct(block') /\ HeapOK(block', heap')
      /\ Len(block') = Len(block) + 1 /\ \A i \in 1..Len(block) : block'[i] = block[i]
  BY <1>4, <1>5, <1>7 DEF Sprouted
<1>9. Len(block) \in Nat /\ Len(block') <= Budget + 1
  <2>1. Len(block) \in Nat
    BY <1>1 DEF Grown, TreeOK
  <2>2. Len(block) - 1 < Budget
    BY DEF Grow, Growing
  <2>3. QED
    BY <1>8, <2>1, <2>2, SizeAssumption
<1>10. Covers => SpineIn(block')
  <2>1. SUFFICES ASSUME SpineIn(block) PROVE SpineIn(block')
    BY <1>1 DEF Grown
  <2>2. \A i \in 1..QLen : i \in 1..Len(block)
    BY <1>9, <2>1, SizeAssumption DEF SpineIn
  <2>3. Len(block') >= QLen
    BY <1>8, <1>9, <2>1, SizeAssumption DEF SpineIn
  <2>4. QED
    BY <1>8, <2>1, <2>2, <2>3 DEF SpineIn
<1>11. Grown'
  <2>1. TreeOK(block, lastTok)' /\ Distinct(block)'
    BY <1>2, <1>8 DEF TreeOK, SlotOK, ChildOK, Distinct, L, Attends
  <2>2. Covers' => SpineIn(block)'
    BY <1>2, <1>3, <1>10 DEF Covers, SpineIn, L
  <2>3. QED
    BY <1>9, <2>1, <2>2 DEF Grown
<1>12. HeapOK(block, heap)'
  BY <1>2, <1>3, <1>8 DEF HeapOK, CandOK, L
<1>13. Settled' /\ Emitted'
  BY <1>1, <1>2, SettledStays, EmittedStays
<1>14. QED
  BY <1>1, <1>2, <1>3, <1>11, <1>12, <1>13 DEF Inv, Drafting

LEMMA GuardInv ==
  ASSUME Inv, Guard
  PROVE  Inv'
<1>1. /\ phase = "grow" /\ phase' \in {"chain", "tree"} /\ Settled /\ Emitted
      /\ committed = Len(out) /\ Drafted /\ Tree /\ Grown
  BY DEF Inv, Guard, Drafting
<1>2. /\ UNCHANGED <<strategy, prompt, out, committed, lastTok, kv, ssm, conv, backup, top, block>>
      /\ Tree' = Tree
  BY DEF Guard, cache, tree, Tree
<1>3. Drafted' /\ DraftTok' = DraftTok
  BY <1>1, <1>2, DraftedStays
<1>4. Grown' /\ Settled' /\ Emitted'
  BY <1>1, <1>2, <1>3, GrownStays, SettledStays, EmittedStays
<1>5. QED
  BY <1>1, <1>2, <1>3, <1>4 DEF Inv, Drafting

LEMMA VerifyChainInv ==
  ASSUME Inv, TargetChooses, VerifyChain
  PROVE  Inv'
<1> DEFINE d == DraftTok
           b == Chain(d)
<1>1. /\ phase = "chain" /\ phase' = "accept" /\ Settled /\ Drafted /\ Emitted
      /\ out \in Seq(Token) /\ committed = Len(out)
  BY DEF Inv, VerifyChain, Drafting, Emitted
<1>2. d \in Seq(Token) /\ Len(d) = QLen
  BY <1>1, DraftFacts DEF Drafted, TargetChooses
<1>3. d # <<>>
  BY <1>2, SizeAssumption
<1>4. SubSeq(kv, 1, committed) = Prefixed(out)
  <2>1. Prefixed(out) \in Seq(Seq(Token)) /\ Len(Prefixed(out)) = Len(out)
    BY <1>1, PrefixedFacts
  <2>2. QED
    BY <1>1, <2>1, TakeAll DEF Settled
<1>5. UNCHANGED <<strategy, prompt, out, committed, lastTok, backup, top>>
  BY DEF VerifyChain, Verify
<1>6. Verify(b) /\ ssm = out /\ conv = Window(out)
  BY <1>1 DEF VerifyChain, Settled
<1>7. Len(b) = QLen /\ Tokens(b) = d
  BY <1>2, ChainFacts
<1>8. Drafted' /\ d' = d /\ Emitted'
  BY <1>1, <1>5, DraftedStays, EmittedStays
<1> HIDE DEF d
<1>9. /\ \A n \in 1..QLen : Choice(out, Window(out), b, n) = Target(out \o SubSeq(d, 1, n))
      /\ Contexts(out, b) = [n \in 1..QLen |-> out \o SubSeq(d, 1, n)]
      /\ Forward(out, Window(out), b) =>
           kv' = Prefixed(out \o d) /\ ssm' = out \o d /\ conv' = Window(out \o d)
  BY <1>1, <1>2, <1>3, <1>4, ChainPass
<1>10. /\ kv' = Prefixed(out \o d) /\ ssm' = out \o d /\ conv' = Window(out \o d)
       /\ block' = b /\ convIn' = Window(out) \o d
       /\ inter' = [n \in 1..QLen |-> out \o SubSeq(d, 1, n)]
       /\ posterior' = [n \in 1..QLen |-> Target(out \o SubSeq(d, 1, n))]
  BY <1>6, <1>7, <1>9 DEF Verify
<1>11. Verified'
  <2>1. DraftTok' = d /\ out' = out
    BY <1>5, <1>8 DEF d
  <2>2. QED
    BY <1>10, <2>1 DEF Verified
<1>12. QED
  BY <1>1, <1>5, <1>8, <1>11 DEF Inv, Drafting

LEMMA VerifyTreeInv ==
  ASSUME Inv, VerifyTree
  PROVE  Inv'
<1>1. /\ phase = "tree" /\ phase' = "walk" /\ Settled /\ Drafted /\ Emitted /\ Grown /\ Tree
      /\ out \in Seq(Token) /\ committed = Len(out) /\ accepted' = <<1>>
      /\ lastTok = Target(out)
  BY DEF Inv, VerifyTree, Drafting, Emitted, Drafted
<1>2. /\ Verify(block)
      /\ UNCHANGED <<strategy, prompt, out, committed, lastTok, backup, top, block>>
      /\ Tree' = Tree
  BY DEF VerifyTree, Verify, Tree
<1>3. TreeOK(block, lastTok)
  BY <1>1 DEF Grown
<1>4. Drafted' /\ DraftTok' = DraftTok /\ Emitted'
  BY <1>1, <1>2, DraftedStays, EmittedStays
<1>5. Grown'
  BY <1>1, <1>2, <1>4, GrownStays
<1>6. TreeVerified'
  <2>1. /\ posterior' = [n \in 1..Len(block) |-> Target(out \o block[n].path)]
        /\ inter' = Contexts(out, block)
        /\ convIn' = Window(out) \o Tokens(block)
        /\ kv' = Prefixed(out) \o Contexts(out, block)
    BY <1>1, <1>2, <1>3, TreePass
  <2>2. QED
    BY <1>2, <2>1 DEF TreeVerified
<1>7. WalkOK(block, accepted)'
  <2>1. WalkOK(block, <<1>>)
    BY <1>1, <1>3, WalkStarts
  <2>2. QED
    BY <1>1, <1>2, <2>1 DEF WalkOK, Follows
<1>8. SpineWalked(accepted)'
  BY <1>1 DEF SpineWalked
<1>9. QED
  BY <1>1, <1>2, <1>4, <1>5, <1>6, <1>7, <1>8 DEF Inv, Drafting

\* Where a walk stands.
LEMMA AtWalk ==
  ASSUME Inv, phase = "walk"
  PROVE  /\ out \in Seq(Token) /\ TreeOK(block, lastTok) /\ WalkOK(block, accepted)
         /\ Len(accepted) \in Nat \ {0} /\ Last(accepted) = accepted[Len(accepted)]
         /\ Last(accepted) \in 1..Len(block) /\ DOMAIN block = 1..Len(block)
         /\ posterior[Last(accepted)] = Target(out \o block[Last(accepted)].path)
         /\ \A i \in 1..Len(accepted) : accepted[i] \in 1..Len(block)
<1>1. /\ out \in Seq(Token) /\ TreeOK(block, lastTok) /\ WalkOK(block, accepted) /\ TreeVerified
  BY DEF Inv, Emitted, Grown
<1>2. accepted \in Seq(1..Len(block)) /\ accepted # <<>>
  BY <1>1 DEF WalkOK
<1>3. Len(accepted) \in Nat \ {0} /\ \A i \in 1..Len(accepted) : accepted[i] \in 1..Len(block)
  BY <1>2, EmptySeq, ElementOfSeq
<1>4. Last(accepted) = accepted[Len(accepted)] /\ Last(accepted) \in 1..Len(block)
  BY <1>3 DEF Last
<1>5. DOMAIN block = 1..Len(block)
  BY <1>1 DEF TreeOK
<1>6. QED
  BY <1>1, <1>3, <1>4, <1>5 DEF TreeVerified

LEMMA WalkInv ==
  ASSUME Inv, TargetChooses, Walk
  PROVE  Inv'
<1>1. /\ phase = "walk" /\ phase' = "walk" /\ Drafted /\ Emitted /\ Grown /\ Tree
      /\ committed = Len(out) /\ TreeVerified /\ SpineWalked(accepted)
  BY DEF Inv, Walk, Drafting
<1>2. /\ UNCHANGED <<strategy, prompt, out, committed, lastTok, kv, backup, top, block,
                      posterior, inter, convIn>>
      /\ Tree' = Tree
  BY DEF Walk, cache, tree, verified, Tree
<1>3. Drafted' /\ DraftTok' = DraftTok /\ Emitted'
  BY <1>1, <1>2, DraftedStays, EmittedStays
<1>4. Grown'
  BY <1>1, <1>2, <1>3, GrownStays
<1>5. TreeVerified'
  BY <1>1, <1>2 DEF TreeVerified
<1> DEFINE k == Len(accepted)
           p == Last(accepted)
<1>6. /\ out \in Seq(Token) /\ TreeOK(block, lastTok) /\ WalkOK(block, accepted)
      /\ k \in Nat \ {0} /\ p = accepted[k] /\ p \in 1..Len(block)
      /\ DOMAIN block = 1..Len(block)
      /\ posterior[p] = Target(out \o block[p].path)
  BY <1>1, AtWalk
<1>7. PICK n \in 1..Len(block) :
        /\ block[n].parent = p /\ block[n].tok = posterior[p]
        /\ accepted' = Append(accepted, n)
  BY <1>6 DEF Walk, Matching
<1>8. WalkOK(block, accepted') /\ n \in 2..Len(block)
  BY <1>6, <1>7, WalkGrows
<1>9. WalkOK(block, accepted)'
  BY <1>2, <1>8 DEF WalkOK, Follows
<1>10. SpineWalked(accepted')
  <2>1. SUFFICES ASSUME Covers, NEW i \in 1..Len(accepted'), i <= QLen, FollowsDraft(i)
                 PROVE  accepted'[i] = i
    BY DEF SpineWalked
  <2>2. accepted \in Seq(1..Len(block))
    BY <1>6 DEF WalkOK
  <2>3. Len(accepted') = k + 1 /\ accepted'[k + 1] = n
        /\ \A j \in 1..k : accepted'[j] = accepted[j]
    BY <1>7, <2>2, AppendProperties
  <2>4. SpineIn(block) /\ Distinct(block) /\ QLen \in Nat
    BY <1>1, <2>1, SizeAssumption DEF Grown
  <2>5. CASE i \in 1..k
    BY <1>1, <2>1, <2>3, <2>5 DEF SpineWalked
  <2>6. CASE i \notin 1..k
    <3>1. i = k + 1 /\ k <= QLen /\ k \in 1..k /\ k + 1 \in 1..QLen /\ k \in 1..QLen
      BY <1>6, <2>1, <2>3, <2>4, <2>6
    <3>2. FollowsDraft(k)
      <4>1. \A j \in 1..(k - 1) : j \in 1..(i - 1)
        BY <1>6, <3>1
      <4>2. QED
        BY <2>1, <4>1 DEF FollowsDraft
    <3>3. p = k
      BY <1>1, <1>6, <2>1, <3>1, <3>2 DEF SpineWalked
    <3>4. block[k] = ChainNode(DraftTok, k) /\ block[k + 1] = ChainNode(DraftTok, k + 1)
      BY <2>4, <3>1 DEF SpineIn
    <3>5. block[k].path = SubSeq(DraftTok, 1, k)
          /\ block[k + 1].parent = (k + 1) - 1 /\ block[k + 1].tok = DraftTok[k + 1]
      BY <3>4 DEF ChainNode
    <3>6. DraftTok[k + 1] = Target(out \o SubSeq(DraftTok, 1, k))
      <4>1. k \in 1..(i - 1)
        BY <1>6, <3>1
      <4>2. QED
        BY <2>1, <4>1 DEF FollowsDraft
    <3>7. block[n].parent = block[k + 1].parent /\ block[n].tok = block[k + 1].tok
      <4>1. (k + 1) - 1 = k
        BY <1>6
      <4>2. QED
        BY <1>6, <1>7, <3>3, <3>5, <3>6, <4>1
    <3>8. k + 1 \in 2..Len(block)
      BY <1>6, <2>4, <3>1 DEF SpineIn
    <3>9. n = k + 1
      BY <1>8, <2>4, <3>7, <3>8 DEF Distinct
    <3>10. QED
      BY <2>3, <3>1, <3>9
  <2>7. QED
    BY <2>5, <2>6
<1>11. SpineWalked(accepted)'
  BY <1>2, <1>3, <1>10 DEF SpineWalked, FollowsDraft, Covers, L
<1>12. QED
  BY <1>1, <1>2, <1>3, <1>4, <1>5, <1>9, <1>11 DEF Inv, Drafting

-----------------------------------------------------------------------------
(* Commits of a chain                                                      *)

\* The accepted part of a verified block is the target's own choice.
LEMMA AcceptFacts ==
  ASSUME out \in Seq(Token), NEW d \in Seq(Token), Len(d) = QLen, d[1] = Target(out),
         block = Chain(d),
         posterior = [n \in 1..QLen |-> Target(out \o SubSeq(d, 1, n))]
  PROVE  AcceptN \in 1..QLen /\ Follows(out, SubSeq(d, 1, AcceptN))
<1> DEFINE S == {n \in 1..QLen : \A i \in 1..(n - 1) : block[i + 1].tok = posterior[i]}
<1>1. 1 \in S
  BY SizeAssumption
<1>2. AcceptN \in S
  <2>1. S \in SUBSET (0..QLen) /\ QLen \in Nat /\ S # {}
    <3>1. \A n \in S : n \in 0..QLen
      BY SizeAssumption
    <3>2. QED
      BY <1>1, <3>1, SizeAssumption
  <2> HIDE DEF S
  <2>2. Max(S) \in S
    BY <2>1, MaxExists
  <2>3. QED
    BY <2>2 DEF AcceptN, S
<1> DEFINE a == AcceptN
           u == SubSeq(d, 1, a)
<1>3. a \in 1..QLen /\ \A i \in 1..(a - 1) : block[i + 1].tok = posterior[i]
  BY <1>2
<1> HIDE DEF a, S
<1>4. Len(u) = a /\ \A i \in 1..a : u[i] = d[i]
  BY <1>3, Take
<1>5. ASSUME NEW i \in 1..a PROVE SubSeq(u, 1, i - 1) = SubSeq(d, 1, i - 1)
  <2>1. i - 1 \in 0..a /\ a \in 0..Len(d)
    BY <1>3
  <2>2. QED
    BY <2>1, TakeTake
<1> HIDE DEF u
<1>6. ASSUME NEW i \in 1..a PROVE d[i] = Target(out \o SubSeq(d, 1, i - 1))
  <2>1. CASE i = 1
    <3>1. SubSeq(d, 1, 0) = <<>>
      OBVIOUS
    <3>2. out \o <<>> = out
      BY ConcatEmptySeq
    <3>3. SubSeq(d, 1, i - 1) = <<>> /\ d[i] = Target(out)
      BY <2>1, <3>1
    <3>4. QED
      BY <3>2, <3>3
  <2>2. CASE i # 1
    <3>1. i - 1 \in 1..(a - 1) /\ i - 1 \in 1..QLen /\ (i - 1) + 1 = i /\ i \in 1..Len(d)
      BY <1>3, <2>2, SizeAssumption
    <3>2. block[i].tok = posterior[i - 1]
      BY <1>3, <3>1
    <3>3. block[i].tok = d[i]
      BY <3>1, ChainFacts
    <3>4. QED
      BY <3>1, <3>2, <3>3
  <2>3. QED
    BY <2>1, <2>2
<1>7. Follows(out, u)
  BY <1>4, <1>5, <1>6 DEF Follows
<1>8. QED
  BY <1>3, <1>7 DEF a, u

\* Tokens that follow the stream are emitted, and all state is moved to their end.
LEMMA EmitInv ==
  ASSUME Inv, phase = "accept", UNCHANGED <<strategy, prompt>>,
         NEW t \in Seq(Token), Len(t) <= Room, Follows(out, t), Emit(t), Advance(t),
         kv' = Prefixed(out \o t), ssm' = out \o t, conv' = Window(out \o t),
         lastTok' = Target(out \o t)
  PROVE  Inv'
<1> DEFINE w == out \o t
<1>1. /\ out \in Seq(Token) /\ prompt \in Prompts /\ prompt \in Seq(Token)
      /\ committed = Len(out) /\ Greedy(out)
  BY AdmittedAssumption DEF Inv, Drafting, Emitted
<1>2. w \in Seq(Token) /\ Len(w) = Len(out) + Len(t) /\ out' = w
  BY <1>1, ConcatProperties DEF Emit
<1>3. Greedy(w)
  BY <1>1, GreedyExtends
<1>4. kv' = Prefixed(w) /\ ssm' = w /\ conv' = Window(w) /\ lastTok' = Target(w)
  OBVIOUS
<1> HIDE DEF w
<1>5. Settled' /\ lastTok' = Target(out')
  BY <1>2, <1>4 DEF Settled
<1>6. Len(w) <= Len(prompt) + NGen
  BY <1>1, <1>2, SizeAssumption DEF Room
<1>7. Emitted'
  BY <1>1, <1>2, <1>3, <1>6 DEF Emitted, Greedy
<1>8. \/ phase' = "break"
      \/ phase' = "loop" /\ committed' = committed + Len(t)
  BY DEF Advance
<1>9. phase' = "loop" => committed' = Len(out)'
  BY <1>1, <1>2, <1>8
<1>10. QED
  BY <1>5, <1>7, <1>8, <1>9 DEF Inv, Drafting

\* What a commit may rely on.
LEMMA AtAccept ==
  ASSUME Inv, TargetChooses, phase = "accept"
  PROVE  /\ out \in Seq(Token) /\ committed = Len(out) /\ Room \in Nat \ {0}
         /\ DraftTok \in Seq(Token) /\ Len(DraftTok) = QLen
         /\ AcceptN \in 1..QLen /\ Follows(out, SubSeq(DraftTok, 1, AcceptN))
<1>1. /\ Drafted /\ Verified /\ out \in Seq(Token) /\ committed = Len(out)
      /\ prompt \in Seq(Token)
  BY AdmittedAssumption DEF Inv, Drafting, Emitted
<1>2. DraftTok \in Seq(Token) /\ Len(DraftTok) = QLen /\ DraftTok[1] = Target(out)
  BY <1>1, DraftFacts DEF Drafted, TargetChooses
<1>3. AcceptN \in 1..QLen /\ Follows(out, SubSeq(DraftTok, 1, AcceptN))
  <2> DEFINE d == DraftTok
  <2>1. /\ d \in Seq(Token) /\ Len(d) = QLen /\ d[1] = Target(out) /\ block = Chain(d)
        /\ posterior = [n \in 1..QLen |-> Target(out \o SubSeq(d, 1, n))]
    BY <1>1, <1>2 DEF Verified
  <2> HIDE DEF d
  <2>2. AcceptN \in 1..QLen /\ Follows(out, SubSeq(d, 1, AcceptN))
    BY <1>1, <2>1, AcceptFacts
  <2>3. QED
    BY <2>2 DEF d
<1>4. Room \in Nat \ {0}
  BY <1>1, SizeAssumption DEF Room, Drafted
<1>5. QED
  BY <1>1, <1>2, <1>3, <1>4

LEMMA CommitFastInv ==
  ASSUME Inv, TargetChooses, CommitFast
  PROVE  Inv'
<1> DEFINE d == DraftTok
           a == AcceptN
           n == Min({a, Room})
           t == SubSeq(d, 1, n)
<1>1. /\ out \in Seq(Token) /\ committed = Len(out) /\ Room \in Nat \ {0}
      /\ d \in Seq(Token) /\ Len(d) = QLen /\ a \in 1..QLen /\ Follows(out, SubSeq(d, 1, a))
  BY AtAccept DEF CommitFast
<1>2. Verified /\ phase = "accept" /\ UNCHANGED <<strategy, prompt>>
  BY DEF Inv, CommitFast
<1>3. /\ inter = [i \in 1..QLen |-> out \o SubSeq(d, 1, i)]
      /\ posterior = [i \in 1..QLen |-> Target(out \o SubSeq(d, 1, i))]
      /\ convIn = Window(out) \o d /\ kv = Prefixed(out \o d)
      /\ ssm = out \o d /\ conv = Window(out \o d)
  BY <1>2 DEF Verified
<1>4. /\ IF n < QLen
         THEN ssm' = inter[n] /\ conv' = SubSeq(convIn, n + 1, n + ConvWidth)
         ELSE UNCHANGED <<ssm, conv>>
      /\ lastTok' = posterior[n] /\ kv' = SubSeq(kv, 1, committed + n)
      /\ Emit(t) /\ Advance(t)
  BY DEF CommitFast
<1> HIDE DEF d, a
<1>5. n \in 1..QLen /\ n <= a /\ n <= Room
  BY <1>1, MinTwo
<1> HIDE DEF n
<1>6. t \in Seq(Token) /\ Len(t) = n
  BY <1>1, <1>5, Take
<1>7. Follows(out, t)
  <2> DEFINE u == SubSeq(d, 1, a)
  <2>1. u \in Seq(Token) /\ Len(u) = a /\ SubSeq(u, 1, n) = t
    <3>1. a \in 0..Len(d) /\ n \in 0..a
      BY <1>1, <1>5
    <3>2. QED
      BY <1>1, <3>1, Take, TakeTake
  <2>2. Follows(out, u)
    BY <1>1
  <2> HIDE DEF u, t
  <2>3. n \in 0..Len(u)
    BY <1>1, <1>5, <2>1
  <2>4. QED
    BY <1>1, <2>1, <2>2, <2>3, FollowsTake
<1>8. kv' = Prefixed(out \o t)
  <2> DEFINE w == out \o d
  <2>1. w \in Seq(Token) /\ Len(w) = Len(out) + QLen
    BY <1>1, ConcatProperties
  <2>2. SubSeq(w, 1, Len(out) + n) = out \o t
    <3>1. n \in 0..Len(d)
      BY <1>1, <1>5, SizeAssumption
    <3>2. QED
      BY <1>1, <3>1, TakeConcat
  <2>3. kv = Prefixed(w)
    BY <1>3
  <2> HIDE DEF w, t
  <2>4. Len(out) + n \in 0..Len(w)
    BY <1>1, <1>5, <2>1
  <2>5. SubSeq(Prefixed(w), 1, Len(out) + n) = Prefixed(SubSeq(w, 1, Len(out) + n))
    BY <2>1, <2>4, PrefixedTake
  <2>6. QED
    BY <1>1, <1>4, <2>2, <2>3, <2>5
<1>9. ssm' = out \o t /\ conv' = Window(out \o t)
  <2>1. CASE n < QLen
    <3>1. n \in 0..Len(d)
      BY <1>1, <1>5, SizeAssumption
    <3>2. SubSeq(convIn, n + 1, n + ConvWidth) = Window(out \o t)
      BY <1>1, <1>3, <3>1, WindowSlides
    <3>3. QED
      BY <1>3, <1>4, <1>5, <2>1, <3>2
  <2>2. CASE n = QLen
    <3>1. t = d
      BY <1>1, <2>2, TakeAll
    <3>2. ~(n < QLen)
      BY <2>2, SizeAssumption
    <3>3. ssm' = ssm /\ conv' = conv
      BY <1>4, <3>2
    <3> HIDE DEF t
    <3>4. QED
      BY <1>3, <3>1, <3>3
  <2>3. n < QLen \/ n = QLen
    BY <1>5, SizeAssumption
  <2>4. QED
    BY <2>1, <2>2, <2>3
<1>10. lastTok' = Target(out \o t)
  BY <1>3, <1>4, <1>5
<1> HIDE DEF t
<1>11. QED
  BY <1>2, <1>4, <1>5, <1>6, <1>7, <1>8, <1>9, <1>10, EmitInv

\* The tokens legacy mode replays follow the stream and fit the budget.
LEMMA ReplayFacts ==
  ASSUME Inv, TargetChooses, phase = "accept"
  PROVE  Replay \in Seq(Token) /\ Replay # <<>> /\ Len(Replay) <= Room /\ Follows(out, Replay)
<1> DEFINE d == DraftTok
           a == AcceptN
           u == SubSeq(d, 1, a)
<1>1. /\ out \in Seq(Token) /\ Room \in Nat \ {0}
      /\ d \in Seq(Token) /\ Len(d) = QLen /\ a \in 1..QLen /\ Follows(out, u)
  BY AtAccept
<1>2. posterior = [i \in 1..QLen |-> Target(out \o SubSeq(d, 1, i))]
  BY DEF Inv, Verified
<1>3. Replay = IF a < QLen /\ a < Room THEN Append(u, posterior[a])
               ELSE SubSeq(d, 1, Min({a, Room}))
  BY DEF Replay
<1> HIDE DEF a, d
<1>4. u \in Seq(Token) /\ Len(u) = a
  BY <1>1, Take
<1>5. CASE a < QLen /\ a < Room
  <2>1. posterior[a] = Target(out \o u)
    BY <1>1, <1>2
  <2> HIDE DEF u
  <2>2. Target(out \o u) \in Token
    BY <1>1, <1>4, ConcatProperties DEF TargetChooses
  <2> DEFINE v == Append(u, Target(out \o u))
  <2>3. v \in Seq(Token) /\ v # <<>> /\ Len(v) = a + 1
    BY <1>4, <2>2, AppendProperties
  <2>4. Follows(out, v)
    BY <1>1, <1>4, FollowsAppend
  <2>5. Replay = v
    BY <1>3, <1>5, <2>1
  <2> HIDE DEF v
  <2>6. QED
    BY <1>1, <1>5, <2>3, <2>4, <2>5
<1>6. CASE ~(a < QLen /\ a < Room)
  <2> DEFINE n == Min({a, Room})
             t == SubSeq(d, 1, n)
  <2>1. n \in 1..QLen /\ n \in 0..a /\ n <= Room
    BY <1>1, MinTwo
  <2>2. Replay = t
    BY <1>3, <1>6
  <2> HIDE DEF n
  <2>3. t \in Seq(Token) /\ Len(t) = n /\ t = SubSeq(u, 1, n)
    <3>1. n \in 0..Len(d) /\ a \in 0..Len(d)
      BY <1>1, <2>1
    <3>2. QED
      BY <1>1, <2>1, <3>1, Take, TakeTake
  <2> HIDE DEF u, t
  <2>4. Follows(out, t)
    BY <1>1, <1>4, <2>1, <2>3, FollowsTake
  <2>5. t # <<>>
    <3>1. n > 0
      BY <2>1, SizeAssumption
    <3>2. Len(t) # 0
      BY <2>3, <3>1
    <3>3. Len(<<>>) = 0
      OBVIOUS
    <3>4. QED
      BY <3>2, <3>3, Zenon
  <2>6. QED
    BY <2>1, <2>2, <2>3, <2>4, <2>5
<1>7. QED
  BY <1>5, <1>6

LEMMA CommitLegacyInv ==
  ASSUME Inv, TargetChooses, CommitLegacy
  PROVE  Inv'
<1> DEFINE t == Replay
           b == Chain(t)
<1>1. /\ phase = "accept" /\ strategy = "legacy" /\ UNCHANGED <<strategy, prompt>>
      /\ Forward(backup[1], backup[2], b)
      /\ lastTok' = Choice(backup[1], backup[2], b, Len(b))
      /\ Emit(t) /\ Advance(t)
  BY DEF CommitLegacy
<1>2. t \in Seq(Token) /\ t # <<>> /\ Len(t) <= Room /\ Follows(out, t)
  BY <1>1, ReplayFacts
<1>3. Verified /\ backup = <<out, Window(out)>>
  BY <1>1 DEF Inv, Drafted
<1>4. /\ out \in Seq(Token) /\ committed = Len(out)
      /\ DraftTok \in Seq(Token) /\ Len(DraftTok) = QLen
  BY <1>1, AtAccept
<1>5. Len(b) = Len(t)
  BY <1>2, ChainFacts
<1> HIDE DEF t
<1>6. SubSeq(kv, 1, committed) = Prefixed(out)
  <2> DEFINE w == out \o DraftTok
  <2>1. w \in Seq(Token) /\ Len(w) = Len(out) + QLen
    BY <1>4, ConcatProperties
  <2>2. SubSeq(w, 1, Len(out)) = out
    <3>1. Len(out) \in 0..Len(out)
      BY <1>4
    <3>2. QED
      BY <1>4, <3>1, TakeFirst, TakeAll
  <2>3. kv = Prefixed(w)
    BY <1>3 DEF Verified
  <2> HIDE DEF w
  <2>4. Len(out) \in 0..Len(w)
    BY <1>4, <2>1, SizeAssumption
  <2>5. QED
    BY <1>4, <2>1, <2>2, <2>3, <2>4, PrefixedTake
<1>7. backup[1] = out /\ backup[2] = Window(out)
  BY <1>3
<1>8. /\ \A n \in 1..Len(t) :
           Choice(out, Window(out), b, n) = Target(out \o SubSeq(t, 1, n))
      /\ Forward(out, Window(out), b) =>
           kv' = Prefixed(out \o t) /\ ssm' = out \o t /\ conv' = Window(out \o t)
  BY <1>2, <1>4, <1>6, ChainPass
<1>9. lastTok' = Target(out \o t)
  <2>1. Len(t) \in 1..Len(t)
    BY <1>2, EmptySeq
  <2>2. SubSeq(t, 1, Len(t)) = t
    BY <1>2, TakeAll
  <2>3. QED
    BY <1>1, <1>5, <1>7, <1>8, <2>1, <2>2
<1>10. kv' = Prefixed(out \o t) /\ ssm' = out \o t /\ conv' = Window(out \o t)
  BY <1>1, <1>7, <1>8
<1>11. QED
  BY <1>1, <1>2, <1>9, <1>10, EmitInv

-----------------------------------------------------------------------------
(* Commits of a path                                                       *)

LEMMA TruncatedFacts ==
  ASSUME Inv, phase = "walk"
  PROVE  Truncated \in 1..Len(accepted)
<1> DEFINE S == {n \in 1..Len(accepted) : \A i \in 1..n :
                   /\ accepted[i] <= QLen
                   /\ i > 1 => top[block[accepted[i]].depth][1].lp >= -4}
<1>1. Len(accepted) \in Nat \ {0} /\ accepted[1] = 1
  BY AtWalk DEF WalkOK
<1>2. 1 \in S
  <2>1. \A i \in 1..1 : i = 1 /\ ~(i > 1)
    OBVIOUS
  <2>2. 1 \in 1..Len(accepted) /\ accepted[1] <= QLen
    BY <1>1, SizeAssumption
  <2>3. QED
    BY <2>1, <2>2
<1>3. S \in SUBSET (0..Len(accepted)) /\ S # {}
  <2>1. \A n \in 1..Len(accepted) : n \in 0..Len(accepted)
    BY <1>1
  <2>2. QED
    BY <1>2, <2>1
<1>4. Truncated = Max(S)
  BY DEF Truncated
<1>5. \A n \in S : n \in 1..Len(accepted)
  OBVIOUS
<1> HIDE DEF S
<1>6. Max(S) \in S
  BY <1>1, <1>3, MaxExists
<1>7. QED
  BY <1>4, <1>5, <1>6

\* What a tree commits when no guard has cut the path before its end.
LEMMA CommitFacts ==
  ASSUME Inv, phase = "walk", NEW path \in CommitPaths
  PROVE  LET n == Len(path)
             t == block[accepted[n]].path
             toks == [i \in 1..Len(path) |-> block[path[i]].tok]
         IN  /\ n \in 1..Len(accepted) /\ n <= Room /\ (n < Room => n = Len(accepted))
             /\ n <= Truncated =>
                  /\ path \in Seq(1..Len(block)) /\ \A i \in 1..n : path[i] = accepted[i]
                  /\ toks = t /\ t \in Seq(Token) /\ Len(t) = n /\ Follows(out, t)
                  /\ \A d \in 1..n : block[accepted[d]].path = SubSeq(t, 1, d)
<1> DEFINE k == Len(accepted)
           n == Min({k, Room})
<1>1. /\ out \in Seq(Token) /\ TreeOK(block, lastTok) /\ WalkOK(block, accepted)
      /\ k \in Nat \ {0} /\ DOMAIN block = 1..Len(block)
  BY AtWalk
<1>2. Room \in Nat \ {0}
  <2>1. Room > 0 /\ committed = Len(out) /\ prompt \in Seq(Token)
    BY AdmittedAssumption DEF Inv, Drafting, Drafted, Emitted
  <2>2. Room \in Int
    BY <1>1, <2>1, SizeAssumption DEF Room
  <2>3. QED
    BY <2>1, <2>2
<1>3. n \in 1..k /\ n <= Room /\ (n < Room => n = k) /\ n \in Nat
  <2>1. Min({k, Room}) = IF k <= Room THEN k ELSE Room
    BY <1>1, <1>2, MinTwo
  <2>2. QED
    BY <1>1, <1>2, <2>1
<1>4. /\ path \in [1..n -> 1..Len(block)]
      /\ \A i \in 1..n : i <= Truncated => path[i] = accepted[i]
  BY <1>1 DEF CommitPaths
<1> HIDE DEF n
<1>5. path \in Seq(1..Len(block)) /\ Len(path) = n
  BY <1>3, <1>4
<1>6. ASSUME n <= Truncated
      PROVE  /\ \A i \in 1..n : path[i] = accepted[i]
             /\ [i \in 1..n |-> block[path[i]].tok] = block[accepted[n]].path
  <2>1. Truncated \in Nat
    BY <1>1, TruncatedFacts
  <2>2. \A i \in 1..n : path[i] = accepted[i]
    BY <1>3, <1>4, <1>6, <2>1
  <2>3. block[accepted[n]].path = [i \in 1..n |-> block[accepted[i]].tok]
    BY <1>1, <1>3 DEF WalkOK
  <2>4. QED
    BY <2>2, <2>3
<1>7. /\ block[accepted[n]].path \in Seq(Token) /\ Len(block[accepted[n]].path) = n
      /\ Follows(out, block[accepted[n]].path)
      /\ \A d \in 1..n : block[accepted[d]].path = SubSeq(block[accepted[n]].path, 1, d)
  <2>1. /\ out \in Seq(Token) /\ TreeOK(block, lastTok) /\ WalkOK(block, accepted)
        /\ n \in 1..Len(accepted)
    BY <1>1, <1>3
  <2>2. /\ block[accepted[n]].path \in Seq(Token) /\ Len(block[accepted[n]].path) = n
        /\ Follows(out, block[accepted[n]].path)
    BY <2>1, WalkTake
  <2>3. ASSUME NEW d \in 1..n
        PROVE  block[accepted[d]].path = SubSeq(block[accepted[n]].path, 1, d)
    BY <2>1, WalkTake
  <2>4. QED
    BY <2>2, <2>3
<1>8. QED
  BY <1>3, <1>5, <1>6, <1>7

LEMMA CommitTreeInv ==
  ASSUME Inv, TargetChooses, CommitTree
  PROVE  Inv'
<1>1. /\ phase = "walk" /\ Drafted /\ Emitted /\ Tree /\ committed = Len(out) /\ TreeVerified
      /\ UNCHANGED <<strategy, prompt, committed, kv>>
      /\ lastTok' = posterior[accepted[Truncated]] /\ copied' = 1
  BY DEF Inv, CommitTree, Drafting
<1>2. Tree'
  BY <1>1 DEF Tree
<1>3. PICK path \in CommitPaths :
        LET toks == [i \in 1..Len(path) |-> block[path[i]].tok]
        IN  /\ Emit(toks)
            /\ accepted' = path
            /\ phase' = IF Len(path) > Truncated THEN "undefined"
                        ELSE IF HasEos(toks) THEN "break" ELSE "compact"
            /\ IF HasEos(toks) THEN UNCHANGED <<ssm, conv>>
               ELSE ssm' = inter[Last(path)] /\ conv' = ConvAfter(Last(path))
  BY DEF CommitTree
<1> DEFINE n == Len(path)
           t == block[accepted[n]].path
           toks == [i \in 1..Len(path) |-> block[path[i]].tok]
           w == out \o t
<1>4. /\ n \in 1..Len(accepted) /\ n <= Room /\ (n < Room => n = Len(accepted))
      /\ n <= Truncated =>
           /\ path \in Seq(1..Len(block)) /\ \A i \in 1..n : path[i] = accepted[i]
           /\ toks = t /\ t \in Seq(Token) /\ Len(t) = n /\ Follows(out, t)
           /\ \A d \in 1..n : block[accepted[d]].path = SubSeq(t, 1, d)
  BY <1>1, CommitFacts
<1>5. Truncated \in 1..Len(accepted) /\ Len(accepted) \in Nat \ {0} /\ n \in Nat \ {0}
  BY <1>1, <1>4, TruncatedFacts, AtWalk
<1>6. CASE n > Truncated
  <2>1. phase' = "undefined"
    BY <1>3, <1>6
  <2>2. QED
    BY <1>2, <2>1 DEF Inv, Drafting
<1>7. CASE n <= Truncated
  <2>1. /\ path \in Seq(1..Len(block)) /\ \A i \in 1..n : path[i] = accepted[i]
        /\ toks = t /\ t \in Seq(Token) /\ Len(t) = n /\ Follows(out, t)
        /\ \A d \in 1..n : block[accepted[d]].path = SubSeq(t, 1, d)
    BY <1>4, <1>7
  <2>2. /\ out \in Seq(Token) /\ prompt \in Prompts /\ prompt \in Seq(Token) /\ Greedy(out)
        /\ TreeOK(block, lastTok) /\ WalkOK(block, accepted)
        /\ \A i \in 1..Len(accepted) : accepted[i] \in 1..Len(block)
    BY <1>1, AdmittedAssumption, AtWalk DEF Emitted
  <2>3. /\ Emit(t)
        /\ phase' = IF HasEos(t) THEN "break" ELSE "compact"
        /\ ~HasEos(t) => ssm' = inter[Last(path)] /\ conv' = ConvAfter(Last(path))
        /\ accepted' = path
    <3>1. ~(n > Truncated)
      BY <1>5, <1>7
    <3> HIDE DEF n, t
    <3>2. QED
      BY <1>3, <2>1, <3>1 DEF n
  <2> HIDE DEF t, toks
  <2>4. w \in Seq(Token) /\ Len(w) = committed + n /\ out' = w /\ Len(out) \in Nat
    <3>1. out' = w
      BY <2>3 DEF Emit
    <3>2. out \in Seq(Token) /\ t \in Seq(Token)
      BY <2>1, <2>2
    <3>3. w \in Seq(Token) /\ Len(w) = Len(out) + Len(t) /\ Len(out) \in Nat
      BY <3>2, ConcatProperties
    <3> HIDE DEF w
    <3>4. QED
      BY <1>1, <2>1, <3>1, <3>3
  <2>5. Emitted'
    <3>1. Greedy(w)
      BY <2>1, <2>2, GreedyExtends
    <3>2. Len(w) <= Len(prompt) + NGen
      BY <1>1, <1>4, <1>5, <2>2, <2>4, SizeAssumption DEF Room
    <3> HIDE DEF w
    <3>3. QED
      BY <1>1, <2>2, <2>4, <3>1, <3>2 DEF Emitted, Greedy
  <2>6. CASE HasEos(t)
    <3>1. phase' = "break"
      BY <2>3, <2>6
    <3>2. QED
      BY <1>2, <2>5, <3>1 DEF Inv, Drafting
  <2>7. CASE ~HasEos(t)
    <3>1. phase' = "compact" /\ ssm' = inter[Last(path)] /\ conv' = ConvAfter(Last(path))
      BY <2>3, <2>7
    <3>2. Last(path) = accepted[n]
      <4>1. n \in 1..n
        BY <1>5
      <4>2. QED
        BY <2>1, <4>1 DEF Last
    <3>3. inter[accepted[n]] = w
      BY <1>1, <1>4, <2>2 DEF TreeVerified, Contexts, t
    <3>4. ConvAfter(accepted[n]) = Window(w)
      BY <1>1, <1>4, <2>2, ConvFollows DEF TreeVerified, t
    <3>5. ssm' = w /\ conv' = Window(w)
      BY <3>1, <3>2, <3>3, <3>4
    <3>6. Len(w) < Len(prompt) + NGen => lastTok' = Target(w)
      <4>1. SUFFICES ASSUME Len(w) < Len(prompt) + NGen PROVE lastTok' = Target(w)
        OBVIOUS
      <4>2. n < Room
        BY <1>1, <1>5, <2>2, <2>4, <4>1, SizeAssumption DEF Room
      <4>3. Truncated = n
        BY <1>4, <1>5, <1>7, <4>2
      <4>4. posterior[accepted[n]] = Target(w)
        BY <1>1, <1>4, <2>2 DEF TreeVerified, t
      <4>5. QED
        BY <1>1, <4>3, <4>4
    \* The slots before the block and the slots of the path.
    <3> DEFINE P == Prefixed(out)
               C == Contexts(out, block)
    <3>7. /\ P \in Seq(Seq(Token)) /\ Len(P) = committed
          /\ \A i \in 1..committed : P[i] = SubSeq(out, 1, i)
      BY <1>1, <2>2, PrefixedFacts
    <3>8. /\ C \in Seq(Seq(Token)) /\ Len(C) = Len(block) /\ Len(block) \in Nat
          /\ \A i \in 1..Len(block) : C[i] = out \o block[i].path
      <4>1. Len(block) \in Nat
        BY <2>2 DEF TreeOK
      <4>2. \A i \in 1..Len(block) : out \o block[i].path \in Seq(Token)
        BY <2>2, TreeSlots, ConcatProperties
      <4>3. QED
        BY <4>1, <4>2 DEF Contexts
    <3>9. kv = P \o C
      BY <1>1 DEF TreeVerified
    <3> HIDE DEF P, C
    <3>10. /\ kv \in Seq(Seq(Token)) /\ Len(kv) = committed + Len(block)
           /\ \A i \in 1..(committed + Len(block)) :
                kv[i] = IF i <= committed THEN P[i] ELSE C[i - committed]
      <4>1. P \in Seq(Seq(Token)) /\ C \in Seq(Seq(Token))
        BY <3>7, <3>8
      <4>2. /\ P \o C \in Seq(Seq(Token)) /\ Len(P \o C) = Len(P) + Len(C)
            /\ \A i \in 1..(Len(P) + Len(C)) :
                 (P \o C)[i] = IF i <= Len(P) THEN P[i] ELSE C[i - Len(P)]
        BY <4>1, ConcatProperties
      <4>3. Len(P) = committed /\ Len(C) = Len(block)
        BY <3>7, <3>8
      <4>4. QED
        BY <3>9, <4>2, <4>3
    <3>11. ASSUME NEW i \in 1..committed PROVE kv[i] = SubSeq(w, 1, i)
      <4>1. i \in 0..Len(out) /\ i \in 1..(committed + Len(block)) /\ i <= committed
        BY <1>1, <2>4, <3>8
      <4>2. SubSeq(w, 1, i) = SubSeq(out, 1, i)
        BY <2>1, <2>2, <4>1, TakeFirst
      <4>3. kv[i] = P[i]
        BY <3>10, <4>1
      <4>4. QED
        BY <3>7, <4>2, <4>3
    <3>12. ASSUME NEW d \in 1..n PROVE kv[committed + accepted[d]] = SubSeq(w, 1, committed + d)
      <4>1. d \in 1..Len(accepted) /\ d \in 0..Len(t)
        BY <1>4, <1>5, <2>1
      <4>2. accepted[d] \in 1..Len(block)
        BY <2>2, <4>1
      <4>3. /\ committed + accepted[d] \in 1..(committed + Len(block))
            /\ ~(committed + accepted[d] <= committed)
            /\ (committed + accepted[d]) - committed = accepted[d]
        <5>1. PICK c \in Nat : c = accepted[d]
          BY <3>8, <4>2
        <5>2. committed \in Nat /\ Len(block) \in Nat /\ c \in 1..Len(block)
          BY <1>1, <2>1, <3>8, <4>2, <5>1
        <5>3. /\ committed + c \in 1..(committed + Len(block)) /\ ~(committed + c <= committed)
              /\ (committed + c) - committed = c
          BY <5>2
        <5>4. QED
          BY <5>1, <5>3, Zenon
      <4>4. kv[committed + accepted[d]] = C[accepted[d]]
        BY <3>10, <4>3
      <4>5. C[accepted[d]] = out \o SubSeq(t, 1, d)
        BY <2>1, <3>8, <4>2
      <4>6. SubSeq(w, 1, Len(out) + d) = out \o SubSeq(t, 1, d)
        BY <2>1, <2>2, <4>1, TakeConcat
      <4>7. QED
        BY <1>1, <4>4, <4>5, <4>6
    <3>13. \A d \in 1..n : path[d] >= d /\ committed + path[d] <= Len(kv)
      <4> SUFFICES ASSUME NEW d \in 1..n PROVE path[d] >= d /\ committed + path[d] <= Len(kv)
        OBVIOUS
      <4>1. d \in 1..Len(accepted) /\ path[d] = accepted[d]
        BY <1>4, <1>5, <2>1
      <4>2. accepted[d] >= d /\ accepted[d] \in 1..Len(block)
        BY <2>2, <4>1 DEF WalkOK
      <4>3. committed \in Nat /\ Len(block) \in Nat /\ Len(kv) = committed + Len(block)
        BY <1>1, <2>1, <3>8, <3>10
      <4>4. PICK c \in Nat : c = path[d] /\ c >= d /\ c <= Len(block)
        BY <3>8, <4>1, <4>2
      <4>5. committed + c <= Len(kv)
        BY <4>3, <4>4
      <4>6. QED
        BY <4>4, <4>5, Zenon
    <3>14. \A d, e \in 1..n : d < e => path[d] < path[e]
      <4>1. \A d \in 1..n : d \in 1..Len(accepted) /\ path[d] = accepted[d]
        BY <1>4, <1>5, <2>1
      <4>2. QED
        BY <2>2, <4>1 DEF WalkOK
    <3>15. \A i \in 1..(committed + 1) : kv[i] = SubSeq(w, 1, i)
      <4>1. 1 \in 1..n /\ accepted[1] = 1
        BY <1>5, <2>2 DEF WalkOK
      <4>2. kv[committed + 1] = SubSeq(w, 1, committed + 1)
        BY <3>12, <4>1
      <4>3. \A i \in 1..(committed + 1) : i \in 1..committed \/ i = committed + 1
        BY <1>1, <2>4
      <4>4. QED
        BY <3>11, <4>2, <4>3
    <3>16. \A d \in (1 + 1)..n : kv[committed + path[d]] = SubSeq(w, 1, committed + d)
      <4>1. \A d \in (1 + 1)..n : d \in 1..n /\ path[d] = accepted[d]
        BY <1>5, <2>1
      <4>2. QED
        BY <3>12, <4>1
    <3>17. path \in Seq(Nat) /\ 1 \in 1..n
      <4>1. \A i \in 1..n : path[i] \in Nat
        BY <2>1, ElementOfSeq
      <4>2. 1 \in 1..n
        BY <1>5
      <4>3. QED
        BY <2>1, <4>1, <4>2
    <3> HIDE DEF w
    <3>18. Compacting'
      BY <1>1, <2>3, <2>4, <3>5, <3>6, <3>10, <3>13, <3>14, <3>15, <3>16, <3>17 DEF Compacting
    <3>19. QED
      BY <1>2, <2>5, <3>1, <3>18 DEF Inv, Drafting
  <2>8. QED
    BY <2>6, <2>7
<1>8. QED
  BY <1>5, <1>6, <1>7

-----------------------------------------------------------------------------
(* Compaction, the end of a request, every step                            *)

LEMMA CompactInv ==
  ASSUME Inv, Compact
  PROVE  Inv'
<1> DEFINE k == Len(accepted)
           d == copied + 1
           x == kv[committed + accepted[d]]
<1>1. /\ phase = "compact" /\ phase' = "compact" /\ Emitted /\ Tree /\ Compacting
      /\ copied < k /\ copied' = d /\ kv' = [kv EXCEPT ![committed + d] = x]
      /\ UNCHANGED <<strategy, prompt, out, committed, lastTok, ssm, conv, accepted>>
  BY DEF Inv, Compact
<1>2. Tree' /\ Emitted'
  BY <1>1, EmittedStays DEF Tree
<1>3. /\ accepted \in Seq(Nat) /\ k \in Nat /\ copied \in 1..k /\ d \in 1..k /\ d \in (copied + 1)..k
      /\ committed \in Nat /\ kv \in Seq(Seq(Token)) /\ Len(kv) \in Nat
  <2>1. accepted \in Seq(Nat) /\ copied \in 1..k /\ committed \in Nat /\ kv \in Seq(Seq(Token))
    BY <1>1 DEF Compacting
  <2>2. k \in Nat /\ Len(kv) \in Nat
    BY <2>1, LenProperties
  <2>3. d \in 1..k /\ d \in (copied + 1)..k
    BY <1>1, <2>1, <2>2
  <2>4. QED
    BY <2>1, <2>2, <2>3
<1>4. /\ \A i \in 1..k : accepted[i] \in Nat /\ accepted[i] >= i /\ committed + accepted[i] <= Len(kv)
      /\ \A i, j \in 1..k : i < j => accepted[i] < accepted[j]
      /\ \A i \in 1..(committed + copied) : kv[i] = SubSeq(out, 1, i)
      /\ \A i \in (copied + 1)..k : kv[committed + accepted[i]] = SubSeq(out, 1, committed + i)
  <2>1. \A i \in 1..k : accepted[i] \in Nat
    BY <1>3, ElementOfSeq
  <2>2. QED
    BY <1>1, <2>1 DEF Compacting
<1>5. x = SubSeq(out, 1, committed + d)
  BY <1>3, <1>4
<1>6. committed + accepted[d] \in 1..Len(kv) /\ committed + d \in 1..Len(kv)
  <2>1. PICK a \in Nat : a = accepted[d]
    BY <1>3, <1>4
  <2>2. d \in Nat \ {0} /\ d <= a /\ committed + a <= Len(kv)
    BY <1>3, <1>4, <2>1
  <2> HIDE DEF d
  <2>3. committed + a \in 1..Len(kv) /\ committed + d \in 1..Len(kv)
    BY <1>3, <2>2
  <2>4. QED
    BY <2>1, <2>3, Zenon
<1>7. x \in Seq(Token)
  BY <1>3, <1>6, ElementOfSeq
<1> HIDE DEF x
<1>8. /\ kv' \in Seq(Seq(Token)) /\ Len(kv') = Len(kv)
      /\ \A i \in 1..Len(kv) : kv'[i] = IF i = committed + d THEN x ELSE kv[i]
  <2>1. kv' \in Seq(Seq(Token)) /\ Len(kv') = Len(kv)
    BY <1>1, <1>3, <1>6, <1>7, ExceptSeq
  <2>2. DOMAIN kv = 1..Len(kv)
    BY <1>3, LenProperties
  <2>3. QED
    BY <1>1, <2>1, <2>2
<1>9. ASSUME NEW i \in 1..(committed + d) PROVE kv'[i] = SubSeq(out, 1, i)
  <2>1. i \in 1..Len(kv)
    BY <1>3, <1>6
  <2>2. CASE i = committed + d
    BY <1>5, <1>8, <2>1, <2>2
  <2>3. CASE i # committed + d
    <3>1. i \in 1..(committed + copied)
      BY <1>3, <2>3
    <3>2. QED
      BY <1>4, <1>8, <2>1, <2>3, <3>1
  <2>4. QED
    BY <2>2, <2>3
<1>10. ASSUME NEW i \in (d + 1)..k PROVE kv'[committed + accepted[i]] = SubSeq(out, 1, committed + i)
  <2>1. i \in 1..k /\ d \in 1..k /\ d < i /\ i \in (copied + 1)..k
    BY <1>3
  <2>2. accepted[i] \in Nat /\ accepted[i] >= i /\ committed + accepted[i] <= Len(kv)
    BY <1>4, <2>1
  <2>3. committed + accepted[i] \in 1..Len(kv) /\ committed + accepted[i] # committed + d
    <3>1. PICK a \in Nat : a = accepted[i]
      BY <2>2
    <3>2. committed \in Nat /\ Len(kv) \in Nat /\ d \in Nat \ {0} /\ i \in Nat
      BY <1>3, <2>1
    <3>3. i <= a /\ committed + a <= Len(kv)
      BY <2>2, <3>1
    <3> HIDE DEF d
    <3>4. committed + a \in 1..Len(kv) /\ committed + a # committed + d
      BY <2>1, <3>1, <3>2, <3>3
    <3>5. QED
      BY <3>1, <3>4, Zenon
  <2>4. kv'[committed + accepted[i]] = kv[committed + accepted[i]]
    BY <1>8, <2>3
  <2>5. QED
    BY <1>4, <2>1, <2>4
<1>11. Compacting'
  <2>1. /\ accepted' \in Seq(Nat) /\ copied' \in 1..Len(accepted')
        /\ committed' \in Nat /\ Len(out') = committed' + Len(accepted')
        /\ ssm' = out' /\ conv' = Window(out')
        /\ Len(out') < Len(prompt') + NGen => lastTok' = Target(out')
    BY <1>1, <1>3 DEF Compacting
  <2>2. /\ \A i \in 1..k : accepted[i] >= i /\ committed + accepted[i] <= Len(kv')
        /\ \A i, j \in 1..k : i < j => accepted[i] < accepted[j]
    BY <1>4, <1>8
  <2> HIDE DEF d, k
  <2>3. /\ kv' \in Seq(Seq(Token))
        /\ \A i \in 1..(committed + copied') : kv'[i] = SubSeq(out, 1, i)
        /\ \A i \in (copied' + 1)..k : kv'[committed + accepted[i]] = SubSeq(out, 1, committed + i)
    BY <1>1, <1>8, <1>9, <1>10
  <2>4. QED
    BY <1>1, <2>1, <2>2, <2>3 DEF Compacting, k
<1>12. QED
  BY <1>1, <1>2, <1>11 DEF Inv, Drafting

LEMMA CompactedInv ==
  ASSUME Inv, Compacted
  PROVE  Inv'
<1>1. /\ phase = "compact" /\ phase' = "loop" /\ Emitted /\ Tree /\ Compacting
      /\ copied = Len(accepted) /\ committed' = committed + Len(accepted)
      /\ kv' = SubSeq(kv, 1, committed')
      /\ UNCHANGED <<strategy, prompt, out, lastTok, ssm, conv>>
  BY DEF Inv, Compacted
<1>2. Tree' /\ Emitted'
  BY <1>1, EmittedStays DEF Tree
<1> DEFINE n == Len(out)
<1>3. /\ out \in Seq(Token) /\ prompt \in Seq(Token) /\ n \in Nat \ {0} /\ committed' = n
      /\ ssm' = out' /\ conv' = Window(out') /\ kv \in Seq(Seq(Token)) /\ Len(kv) \in Nat
      /\ \A i \in 1..n : kv[i] = SubSeq(out, 1, i)
      /\ n <= Len(kv)
  <2>1. out \in Seq(Token) /\ prompt \in Seq(Token)
    BY <1>1, AdmittedAssumption DEF Emitted
  <2>2. /\ committed \in Nat /\ n = committed + Len(accepted) /\ copied \in 1..Len(accepted)
        /\ accepted \in Seq(Nat) /\ kv \in Seq(Seq(Token))
        /\ ssm' = out' /\ conv' = Window(out')
        /\ \A i \in 1..(committed + copied) : kv[i] = SubSeq(out, 1, i)
    BY <1>1 DEF Compacting
  <2>3. Len(accepted) \in Nat \ {0} /\ Len(accepted) \in 1..Len(accepted)
    BY <2>2
  <2>4. /\ accepted[Len(accepted)] >= Len(accepted)
        /\ committed + accepted[Len(accepted)] <= Len(kv)
        /\ accepted[Len(accepted)] \in Nat
    BY <1>1, <2>2, <2>3, ElementOfSeq DEF Compacting
  <2>5. Len(kv) \in Nat
    BY <2>2
  <2>6. n <= Len(kv) /\ n \in Nat \ {0}
    <3>1. PICK a \in Nat : a >= Len(accepted) /\ committed + a <= Len(kv)
      BY <2>4, Zenon
    <3>2. PICK m \in Nat \ {0} : m = Len(accepted)
      BY <2>3
    <3>3. committed \in Nat /\ n = committed + m
      BY <2>2, <3>2
    <3> HIDE DEF n
    <3>4. QED
      BY <2>5, <3>1, <3>2, <3>3
  <2>7. QED
    BY <1>1, <2>1, <2>2, <2>5, <2>6
<1>4. kv' = Prefixed(out)
  <2> DEFINE u == SubSeq(kv, 1, n)
             P == Prefixed(out)
  <2>1. n \in 0..Len(kv)
    BY <1>3
  <2>2. u \in Seq(Seq(Token)) /\ Len(u) = n /\ \A i \in 1..n : u[i] = kv[i]
    BY <1>3, <2>1, Take
  <2>3. P \in Seq(Seq(Token)) /\ Len(P) = n /\ \A i \in 1..n : P[i] = SubSeq(out, 1, i)
    BY <1>3, PrefixedFacts
  <2>4. kv' = u
    BY <1>1, <1>3
  <2> HIDE DEF u, P, n
  <2>5. \A i \in 1..n : u[i] = P[i]
    BY <1>3, <2>2, <2>3
  <2>6. u = P
    BY <2>2, <2>3, <2>5, SeqEqual
  <2>7. QED
    BY <2>4, <2>6 DEF P
<1>5. Settled' /\ committed' = Len(out')
  BY <1>1, <1>3, <1>4 DEF Settled
<1>6. Room' > 0 => lastTok' = Target(out')
  <2>1. SUFFICES ASSUME Room' > 0 PROVE lastTok = Target(out)
    BY <1>1
  <2>2. NGen - (n - Len(prompt)) > 0
    BY <1>1, <1>3, <2>1 DEF Room
  <2>3. n < Len(prompt) + NGen
    BY <1>3, <2>2, SizeAssumption
  <2>4. QED
    BY <1>1, <2>3 DEF Compacting
<1>7. QED
  BY <1>1, <1>2, <1>5, <1>6 DEF Inv, Drafting

LEMMA FinishInv ==
  ASSUME Inv, Finish
  PROVE  Inv'
<1>1. /\ phase \in {"loop", "break"} /\ phase' = "done" /\ Emitted
      /\ curPos' = Len(out) /\ curTok' = lastTok
      /\ UNCHANGED <<strategy, prompt, out, committed, lastTok, kv, ssm, conv>>
  BY DEF Inv, Finish, cache
<1>2. Tree' = Tree /\ Emitted'
  BY <1>1, EmittedStays DEF Tree
<1>3. ~Tree => Settled' /\ lastTok' = Target(out')
  <2>1. SUFFICES ASSUME ~Tree PROVE Settled' /\ lastTok' = Target(out')
    OBVIOUS
  <2>2. Settled /\ lastTok = Target(out)
    BY <1>1, <2>1 DEF Inv
  <2>3. QED
    BY <1>1, <2>2, SettledStays
<1>4. QED
  BY <1>1, <1>2, <1>3 DEF Inv, Drafting

LEMMA StutterInv ==
  ASSUME Inv, UNCHANGED vars
  PROVE  Inv'
<1>1. UNCHANGED <<strategy, prompt, phase, out, committed, lastTok, kv, ssm, conv, backup,
                  top, block, heap, posterior, inter, convIn, accepted, copied, curPos, curTok>>
  BY DEF vars, cache, tree, verified, walk, final
<1>2. /\ Tree' = Tree /\ Room' = Room /\ L' = L /\ K' = K /\ DraftTok' = DraftTok
      /\ Row' = Row
  BY <1>1 DEF Tree, Room, L, K, DraftTok, TopTok, Row
<1>3. Emitted => Emitted'
  BY <1>1, EmittedStays
<1>4. Settled => Settled'
  BY <1>1, SettledStays
<1>5. Drafted => Drafted'
  BY <1>1, <1>2 DEF Drafted
<1>6. Grown => Grown'
  BY <1>1, <1>2, GrownStays
<1>7. HeapOK(block, heap) => HeapOK(block, heap)'
  BY <1>1, <1>2 DEF HeapOK, CandOK
<1>8. Verified => Verified'
  BY <1>1, <1>2 DEF Verified
<1>9. TreeVerified => TreeVerified'
  BY <1>1 DEF TreeVerified
<1>10. WalkOK(block, accepted) => WalkOK(block, accepted)'
  BY <1>1 DEF WalkOK, Follows
<1>11. SpineWalked(accepted) => SpineWalked(accepted)'
  BY <1>1, <1>2 DEF SpineWalked, FollowsDraft, Covers
<1>12. Compacting => Compacting'
  BY <1>1 DEF Compacting
<1>13. QED
  BY <1>1, <1>2, <1>3, <1>4, <1>5, <1>6, <1>7, <1>8, <1>9, <1>10, <1>11, <1>12, Zenon
     DEF Inv, Drafting

LEMMA StepInv ==
  ASSUME Inv, TargetChooses, [Next]_vars
  PROVE  Inv'
BY DraftInv, SeedInv, GrowInv, GuardInv, VerifyChainInv, CommitFastInv, CommitLegacyInv,
   VerifyTreeInv, WalkInv, CommitTreeInv, CompactInv, CompactedInv, FinishInv, StutterInv, Zenon
   DEF Next

LEMMA AlwaysInv ==
  ASSUME TargetChooses
  PROVE  Spec => []Inv
<1>1. Init => Inv
  BY InitInv
<1>2. Inv /\ [Next]_vars => Inv'
  BY StepInv
<1>3. QED
  BY <1>1, <1>2, PTL DEF Spec

-----------------------------------------------------------------------------
(* Theorems                                                                *)

\* Every strategy emits the target's own greedy continuation and no more than
\* n_gen tokens of it, whatever is drafted, as long as no guard has cut a path
\* (test_dflash.cpp, the loop from the draft to the commit, in all modes).
THEOREM GreedyStream ==
  ASSUME TargetChooses
  PROVE  Spec => []StreamIsGreedy
<1>1. Inv => StreamIsGreedy
  BY DEF Inv, Emitted, StreamIsGreedy
<1>2. QED
  BY <1>1, AlwaysInv, PTL

\* At the head of every round attention, recurrent and convolution state stand
\* at the end of the stream: rollback, replay and KV compaction agree.
THEOREM StateMatches ==
  ASSUME TargetChooses
  PROVE  Spec => []StateMatchesStream
<1>1. Inv => StateMatchesStream
  <2> SUFFICES ASSUME Inv, phase = "loop" PROVE StateMatchesStream
    BY DEF StateMatchesStream
  <2>1. Settled /\ committed = Len(out) /\ out \in Seq(Token) /\ (Room > 0 => lastTok = Target(out))
    BY DEF Inv, Emitted
  <2>2. SubSeq(Prefixed(out), 1, Len(out)) = Prefixed(out)
    BY <2>1, PrefixedFacts, TakeAll
  <2>3. QED
    BY <2>1, <2>2 DEF Settled, StateMatchesStream
<1>2. QED
  BY <1>1, AlwaysInv, PTL

\* What a SNAPSHOT after the request of a chain strategy would store is the
\* state at cur_pos, also when an end-of-sequence token left the loop before
\* committed was advanced.
THEOREM ChainEnds ==
  ASSUME TargetChooses
  PROVE  Spec => []ChainEndConsistent
<1>1. Inv => ChainEndConsistent
  <2> SUFFICES ASSUME Inv, ~Tree, phase = "done" PROVE EndConsistent
    BY DEF ChainEndConsistent, EndConsistent
  <2>1. /\ Settled /\ lastTok = Target(out) /\ curPos = Len(out) /\ curTok = lastTok
        /\ out \in Seq(Token)
    BY DEF Inv, Emitted
  <2>2. SubSeq(Prefixed(out), 1, Len(out)) = Prefixed(out)
    BY <2>1, PrefixedFacts, TakeAll
  <2>3. QED
    BY <2>1, <2>2 DEF Settled, EndConsistent
<1>2. QED
  BY <1>1, AlwaysInv, PTL

\* A tree whose siblings differ and that holds the draft's own chain is walked
\* along that chain for as long as the target agrees with it.
THEOREM SeededTreeCovers ==
  ASSUME TargetChooses
  PROVE  Spec => []SeededCoversChain
<1>1. Inv => SeededCoversChain
  <2> SUFFICES ASSUME Inv, phase = "walk", strategy = "seeded", Matching = {}, Budget >= L,
                      NEW n \in 1..QLen,
                      \A i \in 1..(n - 1) :
                        DraftTok[i + 1] = Target(out \o SubSeq(DraftTok, 1, i)),
                      ~(Len(accepted) >= n)
               PROVE  FALSE
    BY DEF SeededCoversChain
  <2> DEFINE k == Len(accepted)
             p == Last(accepted)
  <2>1. /\ k \in Nat \ {0} /\ p = accepted[k] /\ p \in 1..Len(block)
        /\ DOMAIN block = 1..Len(block) /\ posterior[p] = Target(out \o block[p].path)
    BY AtWalk
  <2>2. /\ k \in 1..k /\ k \in 1..(n - 1) /\ k <= QLen /\ k \in 1..QLen /\ k + 1 \in 1..QLen
        /\ (k + 1) - 1 = k /\ QLen \in Nat
    BY <2>1, SizeAssumption
  <2>3. Covers /\ FollowsDraft(k) /\ SpineWalked(accepted) /\ SpineIn(block)
    <3>1. Covers
      BY DEF Covers
    <3>2. \A i \in 1..(k - 1) : i \in 1..(n - 1)
      BY <2>2
    <3>3. FollowsDraft(k)
      BY <3>2 DEF FollowsDraft
    <3>4. QED
      BY <3>1, <3>3 DEF Inv, Grown
  <2>4. p = k
    BY <2>1, <2>2, <2>3 DEF SpineWalked
  <2>5. block[k] = ChainNode(DraftTok, k) /\ block[k + 1] = ChainNode(DraftTok, k + 1)
    BY <2>2, <2>3 DEF SpineIn
  <2>6. /\ block[k].path = SubSeq(DraftTok, 1, k)
        /\ block[k + 1].parent = (k + 1) - 1 /\ block[k + 1].tok = DraftTok[k + 1]
    BY <2>5 DEF ChainNode
  <2>7. block[k + 1].parent = p /\ block[k + 1].tok = posterior[p]
    BY <2>1, <2>2, <2>4, <2>6
  <2>8. k + 1 \in DOMAIN block
    BY <2>1, <2>2, <2>3 DEF SpineIn
  <2>9. k + 1 \in Matching
    BY <2>7, <2>8 DEF Matching
  <2>10. QED
    BY <2>9
<1>2. QED
  BY <1>1, AlwaysInv, PTL

\* A verified chain lies within the KV cache, and a tree ends past it by no more
\* than the slots its budget has beyond q_len, which the admission test
\* (test_dflash.cpp 1967) does not count.
THEOREM OverrunIsBounded ==
  ASSUME TargetChooses
  PROVE  Spec => []OverrunBounded
<1>1. Inv => OverrunBounded
  <2> SUFFICES ASSUME Inv, phase \in {"seed", "grow", "chain", "tree"}
               PROVE  OverrunBounded
    BY DEF OverrunBounded
  <2>1. /\ prompt \in Prompts /\ Len(prompt) \in Nat /\ committed = Len(out) /\ Len(out) \in Nat
        /\ Room > 0 /\ Len(prompt) + NGen + QLen <= MaxCtx
    BY AdmittedAssumption DEF Inv, Drafting, Emitted, Drafted
  <2>2. committed + 1 <= Len(prompt) + NGen
    BY <2>1, SizeAssumption DEF Room
  <2>3. committed + QLen <= MaxCtx
    BY <2>1, <2>2, SizeAssumption
  <2>4. CASE phase = "tree"
    <3>1. Len(block) \in Nat /\ Len(block) <= Budget + 1
      BY <2>4 DEF Inv, Grown, TreeOK
    <3>2. Excess \in Nat /\ Budget <= QLen + Excess
      BY SizeAssumption DEF Excess
    <3>3. committed + Len(block) <= MaxCtx + Excess
      BY <2>1, <2>2, <3>1, <3>2, SizeAssumption
    <3>4. QED
      BY <2>4, <3>3 DEF OverrunBounded
  <2>5. CASE phase # "tree"
    BY <2>3, <2>5 DEF OverrunBounded
  <2>6. QED
    BY <2>4, <2>5
<1>2. QED
  BY <1>1, AlwaysInv, PTL
=============================================================================
