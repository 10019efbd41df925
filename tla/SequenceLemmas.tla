--------------------------- MODULE SequenceLemmas ---------------------------
(***************************************************************************)
(* Lemmas about sequences that the proofs about several components need:   *)
(* what SubSeq cuts out of a sequence and how the parts fit together, what *)
(* RemoveFirst removes, and what FlattenSeq makes of a sequence that gets  *)
(* longer.                                                                 *)
(***************************************************************************)
EXTENDS SequencesExt, SequenceTheorems, WellFoundedInduction, TLAPS

(* A set of numbers that is not empty has a least element.                 *)
LEMMA LeastNatural ==
  ASSUME NEW T \in SUBSET Nat, T # {}
  PROVE  \E x \in T : \A y \in T : x <= y
<1> DEFINE R == {ss \in Nat \X Nat : ss[1] < ss[2]}
<1>1. IsWellFoundedOn(R, Nat)
  BY NatLessThanWellFounded DEF OpToRel
<1> HIDE DEF R
<1>2. \E x \in T : \A y \in T : ~ (<<y, x>> \in R)
  BY <1>1, WFMin
<1>3. \A x, y \in Nat : y < x => <<y, x>> \in R
  BY DEF R
<1>4. PICK x \in T : \A y \in T : ~ (<<y, x>> \in R)
  BY <1>2
<1>5. \A y \in T : ~ (y < x)
  BY <1>3, <1>4
<1> QED
  BY <1>5

-----------------------------------------------------------------------------
(* Parts.  The buffers of the deserializer, of the client and of the       *)
(* connections are all cut this way.                                       *)

(* A part is a sequence, of the elements in their places.                  *)
LEMMA PartType ==
  ASSUME NEW S, NEW s \in Seq(S), NEW a \in 0..Len(s), NEW b \in 0..Len(s)
  PROVE  /\ SubSeq(s, a + 1, b) \in Seq(S)
         /\ Len(SubSeq(s, a + 1, b)) = IF a < b THEN b - a ELSE 0
         /\ \A i \in 1..(b - a) : SubSeq(s, a + 1, b)[i] = s[a + i]
<1>1. \A i \in (a + 1)..b : s[i] \in S
  BY ElementOfSeq
<1>2. /\ SubSeq(s, a + 1, b) \in Seq(S)
      /\ Len(SubSeq(s, a + 1, b)) = IF a + 1 <= b THEN b - (a + 1) + 1 ELSE 0
      /\ \A i \in 1..(b - (a + 1) + 1) : SubSeq(s, a + 1, b)[i] = s[(a + 1) + i - 1]
  BY <1>1, SubSeqProperties
<1> QED
  BY <1>2

(* Two parts that meet.                                                    *)
LEMMA PartsMeet ==
  ASSUME NEW S, NEW s \in Seq(S), NEW a \in 0..Len(s), NEW b \in a..Len(s),
         NEW c \in b..Len(s)
  PROVE  SubSeq(s, a + 1, b) \o SubSeq(s, b + 1, c) = SubSeq(s, a + 1, c)
<1> DEFINE u == SubSeq(s, a + 1, b)
           v == SubSeq(s, b + 1, c)
           w == SubSeq(s, a + 1, c)
<1>1. /\ u \in Seq(S) /\ Len(u) = b - a
      /\ \A i \in 1..(b - a) : u[i] = s[a + i]
  <2>1. a \in 0..Len(s) /\ b \in 0..Len(s)
    OBVIOUS
  <2>2. /\ u \in Seq(S) /\ Len(u) = IF a < b THEN b - a ELSE 0
        /\ \A i \in 1..(b - a) : u[i] = s[a + i]
    BY <2>1, PartType, Zenon
  <2> QED
    BY <2>1, <2>2
<1>2. /\ v \in Seq(S) /\ Len(v) = c - b
      /\ \A i \in 1..(c - b) : v[i] = s[b + i]
  BY PartType
<1>3. /\ w \in Seq(S) /\ Len(w) = c - a
      /\ \A i \in 1..(c - a) : w[i] = s[a + i]
  BY PartType
<1>4. /\ u \o v \in Seq(S)
      /\ Len(u \o v) = c - a
      /\ \A i \in 1..(c - a) : (u \o v)[i] = IF i <= b - a THEN u[i] ELSE v[i - (b - a)]
  BY <1>1, <1>2, ConcatProperties
<1>5. \A i \in 1..(c - a) : (u \o v)[i] = w[i]
  BY <1>1, <1>2, <1>3, <1>4
<1> HIDE DEF u, v, w
<1>6. u \o v = w
  BY <1>3, <1>4, <1>5, SeqEqual
<1> QED
  BY <1>6 DEF u, v, w

(* A part of a part.                                                       *)
LEMMA PartOfPart ==
  ASSUME NEW S, NEW s \in Seq(S), NEW a \in 0..Len(s), NEW b \in a..Len(s),
         NEW n \in 0..(b - a)
  PROVE  SubSeq(SubSeq(s, a + 1, b), n + 1, b - a) = SubSeq(s, a + n + 1, b)
<1> DEFINE u == SubSeq(s, a + 1, b)
           v == SubSeq(u, n + 1, b - a)
           w == SubSeq(s, (a + n) + 1, b)
<1>1. /\ u \in Seq(S) /\ Len(u) = b - a
      /\ \A i \in 1..(b - a) : u[i] = s[a + i]
  BY PartType
<1> HIDE DEF u
<1>2. /\ v \in Seq(S) /\ Len(v) = b - a - n
      /\ \A i \in 1..(b - a - n) : v[i] = u[n + i]
  <2>1. n \in 0..Len(u) /\ b - a \in 0..Len(u)
    BY <1>1
  <2>2. (b - a) - n = b - a - n /\ (n < b - a \/ b - a - n = 0)
    OBVIOUS
  <2> QED
    BY <1>1, <2>1, <2>2, PartType
<1>3. /\ w \in Seq(S) /\ Len(w) = b - a - n
      /\ \A i \in 1..(b - (a + n)) : w[i] = s[(a + n) + i]
  <2>1. a + n \in 0..Len(s) /\ b \in 0..Len(s) /\ a + n <= b
    OBVIOUS
  <2> HIDE DEF v
  <2> QED
    BY <2>1, PartType
<1>4. \A i \in 1..(b - a - n) : v[i] = w[i]
  BY <1>1, <1>2, <1>3
<1> HIDE DEF v, w
<1>5. v = w
  BY <1>2, <1>3, <1>4, SeqEqual
<1> QED
  BY <1>5 DEF u, v, w

(* What is behind the first k elements.                                    *)
LEMMA RestOf ==
  ASSUME NEW S, NEW s \in Seq(S), NEW k \in Nat
  PROVE  /\ SubSeq(s, k + 1, Len(s)) \in Seq(S)
         /\ Len(SubSeq(s, k + 1, Len(s))) = IF k < Len(s) THEN Len(s) - k ELSE 0
         /\ \A i \in 1..(Len(s) - k) : SubSeq(s, k + 1, Len(s))[i] = s[k + i]
<1>1. CASE k <= Len(s)
  <2>1. k \in 0..Len(s) /\ Len(s) \in 0..Len(s)
    BY <1>1
  <2> QED
    BY <2>1, PartType
<1>2. CASE k > Len(s)
  <2>1. SubSeq(s, k + 1, Len(s)) = <<>>
    BY <1>2
  <2> QED
    BY <1>2, <2>1
<1> QED
  BY <1>1, <1>2

(* The first k elements.                                                   *)
LEMMA FirstOf ==
  ASSUME NEW S, NEW s \in Seq(S), NEW k \in 0..Len(s)
  PROVE  /\ SubSeq(s, 1, k) \in Seq(S)
         /\ Len(SubSeq(s, 1, k)) = k
         /\ \A i \in 1..k : SubSeq(s, 1, k)[i] = s[i]
<1>1. 0 \in 0..Len(s) /\ 0 + 1 = 1 /\ k - 0 = k /\ (\A i \in 1..k : 0 + i = i)
  OBVIOUS
<1> QED
  BY <1>1, PartType

(* The first k elements and the rest make up the sequence.                 *)
LEMMA FirstAndRest ==
  ASSUME NEW S, NEW s \in Seq(S), NEW k \in 0..Len(s)
  PROVE  SubSeq(s, 1, k) \o SubSeq(s, k + 1, Len(s)) = s
<1>1. 0 \in 0..Len(s) /\ k \in 0..Len(s) /\ Len(s) \in k..Len(s) /\ 0 + 1 = 1
  OBVIOUS
<1>2. SubSeq(s, 1, k) \o SubSeq(s, k + 1, Len(s)) = SubSeq(s, 1, Len(s))
  BY <1>1, PartsMeet
<1>3. SubSeq(s, 1, Len(s)) = s
  <2> DEFINE u == SubSeq(s, 1, Len(s))
  <2>1. u \in Seq(S) /\ Len(u) = Len(s) /\ \A i \in 1..Len(s) : u[i] = s[i]
    BY FirstOf
  <2> HIDE DEF u
  <2>2. u = s
    BY <2>1, SeqEqual
  <2> QED
    BY <2>2 DEF u
<1> QED
  BY <1>2, <1>3

(* The first k elements of two sequences, and what is left of each.        *)
LEMMA FirstOfFirst ==
  ASSUME NEW S, NEW s \in Seq(S), NEW t \in Seq(S), NEW k \in 0..Len(s)
  PROVE  SubSeq(s \o t, 1, k) \o SubSeq(s, k + 1, Len(s)) = s
<1> DEFINE u == s \o t
           f == SubSeq(u, 1, k)
           g == SubSeq(s, 1, k)
<1>1. /\ u \in Seq(S) /\ k \in 0..Len(u) /\ k <= Len(s)
      /\ \A i \in 1..Len(u) : u[i] = IF i <= Len(s) THEN s[i] ELSE t[i - Len(s)]
  BY ConcatProperties
<1> HIDE DEF u
<1>2. f \in Seq(S) /\ Len(f) = k /\ \A i \in 1..k : f[i] = u[i]
  BY <1>1, FirstOf
<1>3. g \in Seq(S) /\ Len(g) = k /\ \A i \in 1..k : g[i] = s[i]
  BY FirstOf
<1> HIDE DEF f, g
<1>4. \A i \in 1..k : f[i] = g[i]
  BY <1>1, <1>2, <1>3
<1>5. f = g
  BY <1>2, <1>3, <1>4, SeqEqual
<1>6. g \o SubSeq(s, k + 1, Len(s)) = s
  BY FirstAndRest DEF g
<1> QED
  BY <1>5, <1>6 DEF f, u

LEMMA FirstOfBoth ==
  ASSUME NEW S, NEW s \in Seq(S), NEW t \in Seq(S),
         NEW k \in Len(s)..(Len(s) + Len(t))
  PROVE  SubSeq(s \o t, 1, k) \o SubSeq(t, (k - Len(s)) + 1, Len(t)) = s \o t
<1> DEFINE u == s \o t
           f == SubSeq(u, 1, k)
           j == k - Len(s)
           r == SubSeq(t, j + 1, Len(t))
           q == SubSeq(u, k + 1, Len(u))
<1>1. /\ u \in Seq(S) /\ Len(u) = Len(s) + Len(t) /\ Len(s) \in Nat /\ Len(t) \in Nat
      /\ \A i \in 1..Len(u) : u[i] = IF i <= Len(s) THEN s[i] ELSE t[i - Len(s)]
  BY ConcatProperties
<1> HIDE DEF u
<1>2. /\ j \in Nat /\ k \in Nat /\ j <= Len(t) /\ k <= Len(u)
      /\ Len(t) - j = Len(u) - k /\ k >= Len(s)
  BY <1>1
<1>3. /\ r \in Seq(S) /\ Len(r) = Len(t) - j
      /\ \A i \in 1..(Len(t) - j) : r[i] = t[j + i]
  <2>1. (IF j < Len(t) THEN Len(t) - j ELSE 0) = Len(t) - j
    BY <1>1, <1>2
  <2> HIDE DEF j
  <2> QED
    BY <1>2, <2>1, RestOf
<1>4. /\ q \in Seq(S) /\ Len(q) = Len(u) - k
      /\ \A i \in 1..(Len(u) - k) : q[i] = u[k + i]
  <2>1. (IF k < Len(u) THEN Len(u) - k ELSE 0) = Len(u) - k
    <3>1. Len(u) \in Nat
      BY <1>1
    <3> QED
      BY <1>2, <3>1
  <2> QED
    BY <1>1, <1>2, <2>1, RestOf
<1> HIDE DEF q, r
<1>5. \A i \in 1..(Len(u) - k) : r[i] = q[i]
  <2> SUFFICES ASSUME NEW i \in 1..(Len(u) - k)
               PROVE  r[i] = q[i]
    OBVIOUS
  <2>1. u[k + i] = IF k + i <= Len(s) THEN s[k + i] ELSE t[(k + i) - Len(s)]
    <3>1. k + i \in 1..Len(u)
      BY <1>1, <1>2
    <3> QED
      BY <1>1, <3>1
  <2>2. ~(k + i <= Len(s)) /\ (k + i) - Len(s) = j + i
    BY <1>1, <1>2
  <2>3. u[k + i] = t[j + i]
    BY <2>1, <2>2
  <2> QED
    BY <1>2, <1>3, <1>4, <2>3
<1>6. r = q
  BY <1>2, <1>3, <1>4, <1>5, SeqEqual
<1>7. f \o q = u
  <2>1. k \in 0..Len(u)
    BY <1>2
  <2> QED
    BY <1>1, <2>1, FirstAndRest DEF q
<1> QED
  BY <1>6, <1>7 DEF r, u

(* Two sequences without the first k elements of the first one.            *)
LEMMA RestOfTwo ==
  ASSUME NEW S, NEW s \in Seq(S), NEW t \in Seq(S), NEW k \in 0..Len(s)
  PROVE  LET u == s \o t
             v == SubSeq(s, k + 1, Len(s)) \o t
         IN  /\ u \in Seq(S) /\ v \in Seq(S)
             /\ Len(v) = Len(u) - k
             /\ \A i \in 1..Len(v) : k + i \in 1..Len(u) /\ v[i] = u[k + i]
<1> DEFINE u == s \o t
           r == SubSeq(s, k + 1, Len(s))
           v == r \o t
<1>1. /\ u \in Seq(S) /\ Len(u) = Len(s) + Len(t) /\ Len(s) \in Nat /\ Len(t) \in Nat
      /\ \A i \in 1..(Len(s) + Len(t)) :
           u[i] = IF i <= Len(s) THEN s[i] ELSE t[i - Len(s)]
  BY ConcatProperties
<1>2. /\ r \in Seq(S) /\ Len(r) = Len(s) - k
      /\ \A i \in 1..(Len(s) - k) : r[i] = s[k + i]
  <2>1. k \in Nat /\ (IF k < Len(s) THEN Len(s) - k ELSE 0) = Len(s) - k
    BY <1>1
  <2> QED
    BY <2>1, RestOf
<1> HIDE DEF u, r
<1>3. /\ v \in Seq(S) /\ Len(v) = Len(r) + Len(t)
      /\ \A i \in 1..(Len(r) + Len(t)) :
           v[i] = IF i <= Len(r) THEN r[i] ELSE t[i - Len(r)]
  BY <1>2, ConcatProperties
<1> HIDE DEF v
<1>4. Len(v) = Len(u) - k
  BY <1>1, <1>2, <1>3
<1>5. ASSUME NEW i \in 1..Len(v)
      PROVE  k + i \in 1..Len(u) /\ v[i] = u[k + i]
  <2>1. /\ k + i \in 1..(Len(s) + Len(t)) /\ i \in 1..(Len(r) + Len(t))
        /\ i <= Len(r) <=> k + i <= Len(s)
        /\ i - Len(r) = (k + i) - Len(s)
    BY <1>1, <1>2, <1>3
  <2>2. i <= Len(r) => r[i] = s[k + i]
    BY <1>1, <1>2
  <2>3. u[k + i] = IF k + i <= Len(s) THEN s[k + i] ELSE t[(k + i) - Len(s)]
    BY <1>1, <2>1
  <2>4. v[i] = IF i <= Len(r) THEN r[i] ELSE t[i - Len(r)]
    BY <1>3, <2>1
  <2> QED
    BY <1>1, <2>1, <2>2, <2>3, <2>4
<1> QED
  BY <1>1, <1>3, <1>4, <1>5 DEF u, v, r

(* Concatenation of sequences of numbers.                                 *)
LEMMA Joined ==
  ASSUME NEW s \in Seq(Nat), NEW t \in Seq(Nat)
  PROVE  s \o t \in Seq(Nat) /\ s \o <<>> = s /\ <<>> \o s = s
BY ConcatProperties, ConcatEmptySeq

(* It does not matter which two of three sequences are joined first.  The  *)
(* definition lets the provers take the set S at its word.                 *)
Associative(S) == \A s, t, u \in Seq(S) : (s \o t) \o u = s \o (t \o u)

LEMMA ConcatIsAssociative == \A S : Associative(S)
<1> SUFFICES ASSUME NEW S
             PROVE  \A s, t, u \in Seq(S) : (s \o t) \o u = s \o (t \o u)
  BY DEF Associative
<1> QED
  OBVIOUS

LEMMA JoinedThree ==
  ASSUME NEW s \in Seq(Nat), NEW t \in Seq(Nat), NEW u \in Seq(Nat)
  PROVE  (s \o t) \o u = s \o (t \o u)
<1>1. Associative(Nat)
  BY ConcatIsAssociative
<1> QED
  BY <1>1, Zenon DEF Associative

-----------------------------------------------------------------------------
(* Elements.                                                               *)

(* Of the elements equal to e RemoveFirst removes the first, if any.       *)
LEMMA RemoveFirstIs ==
  ASSUME NEW v, NEW e, Len(v) \in Nat
  PROVE  \/ (\A i \in 1..Len(v) : v[i] # e) /\ RemoveFirst(v, e) = v
         \/ \E i \in 1..Len(v) : /\ v[i] = e /\ \A j \in 1..(i - 1) : v[j] # e
                                 /\ RemoveFirst(v, e) = RemoveAt(v, i)
<1>1. CASE \A i \in 1..Len(v) : v[i] # e
  BY <1>1 DEF RemoveFirst
<1>2. CASE \E i \in 1..Len(v) : v[i] = e
  <2> DEFINE I == {i \in 1..Len(v) : v[i] = e}
  <2>1. RemoveFirst(v, e) = RemoveAt(v, Min(I))
    BY <1>2 DEF RemoveFirst, SelectInSeq
  <2>2. I \in SUBSET Nat /\ I # {}
    BY <1>2
  <2> HIDE DEF I
  <2>3. \E x \in I : \A y \in I : x <= y
    BY <2>2, LeastNatural
  <2>4. Min(I) \in I /\ \A y \in I : Min(I) <= y
    BY <2>3 DEF Min
  <2>5. Min(I) \in 1..Len(v) /\ v[Min(I)] = e
    BY <2>4 DEF I
  <2>6. ASSUME NEW j \in 1..(Min(I) - 1)
        PROVE  v[j] # e
    <3>1. j \in 1..Len(v) /\ j < Min(I) /\ Min(I) \in Nat
      BY <2>5, <2>6
    <3>2. j \notin I
      BY <2>4, <3>1
    <3> QED
      BY <3>1, <3>2 DEF I
  <2> QED
    BY <2>1, <2>5, <2>6
<1> QED
  BY <1>1, <1>2

-----------------------------------------------------------------------------
(* FlattenSeq, by which Server's properties say what a client is sent.  It *)
(* chooses a recursive function.  That there is one, and that two of them  *)
(* agree where their sequences do, is proved by the least number for which *)
(* it is not so.                                                           *)

(* The function FlattenSeq is defined by.                                  *)
IsFlattening(f, s, n) ==
  f = [i \in 1..n |-> IF i = 1 THEN s[i] ELSE f[i - 1] \o s[i]]

(* There is one for every sequence.                                        *)
LEMMA FlatteningExists ==
  ASSUME NEW s, NEW n \in Nat
  PROVE  \E f : IsFlattening(f, s, n)
<1> DEFINE T == {m \in Nat : ~\E f : IsFlattening(f, s, m)}
<1> SUFFICES ASSUME T # {}
             PROVE  FALSE
  OBVIOUS
<1>1. PICK m \in T : \A k \in T : m <= k
  <2>1. T \in SUBSET Nat
    OBVIOUS
  <2> HIDE DEF T
  <2> QED
    BY <2>1, LeastNatural
<1>2. m # 0
  <2> SUFFICES ASSUME m = 0
               PROVE  FALSE
    OBVIOUS
  <2>1. IsFlattening([i \in 1..0 |-> s[i]], s, 0)
    BY DEF IsFlattening
  <2> QED
    BY <2>1
<1>3. m \in Nat /\ m - 1 \in Nat /\ m - 1 \notin T
  BY <1>1, <1>2
<1>4. PICK f : IsFlattening(f, s, m - 1)
  BY <1>3
<1> DEFINE g == [i \in 1..m |-> IF i < m THEN f[i]
                               ELSE IF i = 1 THEN s[i] ELSE f[i - 1] \o s[i]]
<1>5. ASSUME NEW i \in 1..m
      PROVE  g[i] = IF i = 1 THEN s[i] ELSE g[i - 1] \o s[i]
  <2>1. CASE i = m
    BY <1>3, <2>1
  <2>2. CASE i < m
    <3>1. i \in 1..(m - 1) /\ g[i] = f[i]
      BY <1>3, <2>2
    <3>2. f[i] = IF i = 1 THEN s[i] ELSE f[i - 1] \o s[i]
      BY <1>4, <3>1 DEF IsFlattening
    <3>3. i # 1 => g[i - 1] = f[i - 1]
      BY <1>3, <2>2
    <3> QED
      BY <3>1, <3>2, <3>3
  <2> QED
    BY <1>3, <2>1, <2>2
<1>6. g = [i \in 1..m |-> g[i]]
  OBVIOUS
<1> HIDE DEF g
<1>7. g = [i \in 1..m |-> IF i = 1 THEN s[i] ELSE g[i - 1] \o s[i]]
  BY <1>5, <1>6
<1>8. IsFlattening(g, s, m)
  BY <1>7 DEF IsFlattening
<1> QED
  BY <1>1, <1>8

(* FlattenSeq is the last value of one.                                    *)
LEMMA FlatteningOf ==
  ASSUME NEW s, NEW n \in Nat, n # 0, Len(s) = n
  PROVE  \E f : IsFlattening(f, s, n) /\ FlattenSeq(s) = f[n]
<1> DEFINE f == CHOOSE f : f = [i \in 1..n |-> IF i = 1 THEN s[i] ELSE f[i - 1] \o s[i]]
<1>1. FlattenSeq(s) = f[n]
  BY DEF FlattenSeq
<1>2. \E g : g = [i \in 1..n |-> IF i = 1 THEN s[i] ELSE g[i - 1] \o s[i]]
  BY FlatteningExists DEF IsFlattening
<1>3. f = [i \in 1..n |-> IF i = 1 THEN s[i] ELSE f[i - 1] \o s[i]]
  BY <1>2, Zenon
<1> HIDE DEF f
<1> QED
  BY <1>1, <1>3 DEF IsFlattening

-----------------------------------------------------------------------------

(* The first n elements are the same.                                      *)
Agree(f, g, n) == \A i \in 1..n : f[i] = g[i]

(* Where the sequences agree, their flattenings do.                        *)
LEMMA FlatteningUnique ==
  ASSUME NEW s, NEW t, NEW n \in Nat,
         NEW f, NEW g, IsFlattening(f, s, n), IsFlattening(g, t, n + 1),
         Agree(s, t, n)
  PROVE  Agree(f, g, n)
<1> DEFINE T == {i \in 1..n : f[i] # g[i]}
<1> SUFFICES ASSUME T # {}
             PROVE  FALSE
  BY DEF Agree
<1>1. PICK i \in T : \A k \in T : i <= k
  <2>1. T \in SUBSET Nat
    OBVIOUS
  <2> HIDE DEF T
  <2> QED
    BY <2>1, LeastNatural
<1>2. /\ i \in 1..n /\ i \in 1..(n + 1) /\ f[i] # g[i]
      /\ i # 1 => i - 1 \in 1..n /\ f[i - 1] = g[i - 1]
  BY <1>1
<1>3. /\ f[i] = IF i = 1 THEN s[i] ELSE f[i - 1] \o s[i]
      /\ g[i] = IF i = 1 THEN t[i] ELSE g[i - 1] \o t[i]
  BY <1>2, Zenon DEF IsFlattening
<1> QED
  BY <1>2, <1>3 DEF Agree

(* What FlattenSeq makes of a sequence and one more element.               *)
LEMMA FlattenOneMore ==
  ASSUME NEW S, NEW n \in Nat, NEW s, NEW t,
         Len(s) = n, Len(t) = n + 1, n = 0 => s = <<>>,
         Agree(s, t, n),
         t[n + 1] \in Seq(S)
  PROVE  FlattenSeq(t) = FlattenSeq(s) \o t[n + 1]
<1>1. n + 1 \in Nat /\ n + 1 # 0 /\ n <= n + 1
  OBVIOUS
<1>2. PICK g : IsFlattening(g, t, n + 1) /\ FlattenSeq(t) = g[n + 1]
  BY <1>1, FlatteningOf, Zenon
<1>3. CASE n = 0
  <2>1. FlattenSeq(s) = <<>>
    BY <1>1, <1>3 DEF FlattenSeq
  <2>2. FlattenSeq(t) = t[n + 1]
    BY <1>2, <1>3 DEF IsFlattening
  <2>3. <<>> \o t[n + 1] = t[n + 1]
    BY ConcatEmptySeq
  <2> QED
    BY <2>1, <2>2, <2>3
<1>4. CASE n # 0
  <2>1. PICK f : IsFlattening(f, s, n) /\ FlattenSeq(s) = f[n]
    BY <1>4, FlatteningOf, Zenon
  <2>2. f[n] = g[n]
    <3>1. n \in 1..n
      BY <1>4
    <3>2. Agree(f, g, n)
      BY <1>2, <2>1, FlatteningUnique, Zenon
    <3> QED
      BY <3>1, <3>2 DEF Agree
  <2>3. g[n + 1] = g[n] \o t[n + 1]
    <3>1. n + 1 \in 1..(n + 1) /\ n + 1 # 1 /\ (n + 1) - 1 = n
      BY <1>4
    <3>2. \A i \in 1..(n + 1) : g[i] = IF i = 1 THEN t[i] ELSE g[i - 1] \o t[i]
      BY <1>2, Zenon DEF IsFlattening
    <3> QED
      BY <3>1, <3>2
  <2> QED
    BY <1>2, <2>1, <2>2, <2>3
<1> QED
  BY <1>3, <1>4

(* The same, of a sequence of sequences.                                   *)
LEMMA FlattenAppended ==
  ASSUME NEW S, NEW s \in Seq(Seq(S)), NEW e \in Seq(S)
  PROVE  FlattenSeq(Append(s, e)) = FlattenSeq(s) \o e
<1> DEFINE n == Len(s)
           t == Append(s, e)
<1>1. n \in Nat /\ (n = 0 => s = <<>>)
  BY EmptySeq
<1>2. t[n + 1] = e /\ \A i \in 1..n : t[i] = s[i]
  BY AppendProperties
<1>3. Len(t) = n + 1
  BY AppendProperties
<1>4. Agree(s, t, n)
  BY <1>2 DEF Agree
<1>5. Len(s) = n /\ t[n + 1] \in Seq(S)
  BY <1>2
<1> HIDE DEF n, t
<1>6. FlattenSeq(t) = FlattenSeq(s) \o t[n + 1]
  BY <1>1, <1>3, <1>4, <1>5, FlattenOneMore
<1> QED
  BY <1>2, <1>6 DEF t

-----------------------------------------------------------------------------
(* A sequence is reached from the empty one element by element.            *)
LEMMA FrontOneMore ==
  ASSUME NEW S, NEW t \in Seq(S), NEW n \in 1..Len(t)
  PROVE  /\ n - 1 \in 0..Len(t)
         /\ SubSeq(t, 1, n - 1) \in Seq(S)
         /\ t[n] \in S
         /\ SubSeq(t, 1, n) = Append(SubSeq(t, 1, n - 1), t[n])
<1> DEFINE u == SubSeq(t, 1, n - 1)
           v == SubSeq(t, 1, n)
           w == Append(u, t[n])
<1>1. n \in 0..Len(t) /\ n - 1 \in 0..Len(t) /\ n \in Nat
  OBVIOUS
<1>2. u \in Seq(S) /\ Len(u) = n - 1 /\ \A i \in 1..(n - 1) : u[i] = t[i]
  BY <1>1, FirstOf
<1>3. v \in Seq(S) /\ Len(v) = n /\ \A i \in 1..n : v[i] = t[i]
  BY <1>1, FirstOf
<1>4. t[n] \in S
  BY ElementOfSeq
<1> HIDE DEF u, v
<1>5. /\ w \in Seq(S) /\ Len(w) = n /\ w[n] = t[n]
      /\ \A i \in 1..(n - 1) : w[i] = u[i]
  BY <1>1, <1>2, <1>4, AppendProperties
<1>6. \A i \in 1..n : v[i] = w[i]
  BY <1>1, <1>2, <1>3, <1>5
<1> HIDE DEF w
<1>7. v = w
  BY <1>3, <1>5, <1>6, SeqEqual
<1> QED
  BY <1>1, <1>2, <1>4, <1>7 DEF u, v, w

LEMMA WholeFront ==
  ASSUME NEW S, NEW t \in Seq(S)
  PROVE  SubSeq(t, 1, Len(t)) = t /\ Len(t) \in 0..Len(t) /\ SubSeq(t, 1, 0) = <<>>
<1>1. Len(t) \in 0..Len(t)
  OBVIOUS
<1> DEFINE u == SubSeq(t, 1, Len(t))
<1>2. u \in Seq(S) /\ Len(u) = Len(t) /\ \A i \in 1..Len(t) : u[i] = t[i]
  BY <1>1, FirstOf
<1> HIDE DEF u
<1>3. u = t
  BY <1>2, SeqEqual
<1> QED
  BY <1>1, <1>3 DEF u

(* FlattenSeq makes a sequence of elements.                                *)
LEMMA FlattenType ==
  ASSUME NEW S, NEW t \in Seq(Seq(S))
  PROVE  FlattenSeq(t) \in Seq(S)
<1> DEFINE F(n) == FlattenSeq(SubSeq(t, 1, n))
           T == {n \in 0..Len(t) : F(n) \notin Seq(S)}
<1>1. T = {}
  <2> SUFFICES ASSUME T # {}
               PROVE  FALSE
    OBVIOUS
  <2>1. PICK n \in T : \A k \in T : n <= k
    <3>1. T \in SUBSET Nat
      OBVIOUS
    <3> HIDE DEF T
    <3> QED
      BY <3>1, LeastNatural
  <2>2. n \in 0..Len(t) /\ F(n) \notin Seq(S)
    OBVIOUS
  <2>3. n \in 1..Len(t) /\ n - 1 \in 0..Len(t) /\ n - 1 \notin T
    <3>1. n # 0
      <4>1. SubSeq(t, 1, 0) = <<>>
        BY WholeFront
      <4>2. F(0) = <<>>
        BY <4>1 DEF FlattenSeq
      <4>3. <<>> \in Seq(S)
        OBVIOUS
      <4> HIDE DEF F
      <4> QED
        BY <2>2, <4>2, <4>3
    <3> HIDE DEF T, F
    <3> QED
      BY <2>1, <2>2, <3>1
  <2>4. F(n - 1) \in Seq(S)
    BY <2>3
  <2> DEFINE u == SubSeq(t, 1, n - 1)
             e == t[n]
  <2>5. SubSeq(t, 1, n) = Append(u, e) /\ u \in Seq(Seq(S)) /\ e \in Seq(S)
    BY <2>3, FrontOneMore
  <2>6. F(n - 1) = FlattenSeq(u)
    OBVIOUS
  <2> HIDE DEF u, e
  <2>7. F(n) = FlattenSeq(u) \o e
    BY <2>5, FlattenAppended
  <2> HIDE DEF F
  <2>8. F(n) \in Seq(S)
    BY <2>4, <2>5, <2>6, <2>7, ConcatProperties
  <2> QED
    BY <2>2, <2>8
<1> QED
  BY <1>1, WholeFront

(* FlattenSeq of two sequences one after the other.                        *)
LEMMA FlattenBothMore ==
  ASSUME NEW S, NEW s \in Seq(Seq(S)), NEW u \in Seq(Seq(S)), NEW e \in Seq(S),
         FlattenSeq(s \o u) = FlattenSeq(s) \o FlattenSeq(u)
  PROVE  FlattenSeq(s \o Append(u, e)) = FlattenSeq(s) \o FlattenSeq(Append(u, e))
<1> DEFINE Q == Seq(S)
           a == FlattenSeq(s)
           b == FlattenSeq(u)
           c == <<e>>
<1>1. FlattenSeq(Append(u, e)) = b \o e
  BY FlattenAppended
<1>2. s \in Seq(Q) /\ u \in Seq(Q) /\ e \in Q /\ c \in Seq(Q)
  OBVIOUS
<1>3. s \o u \in Seq(Q)
  BY ConcatProperties
<1>4. FlattenSeq(Append(s \o u, e)) = FlattenSeq(s \o u) \o e
  BY <1>3, FlattenAppended
<1>5. a \in Seq(S) /\ b \in Seq(S)
  BY FlattenType
<1> HIDE DEF a, b, Q
<1>6. Append(u, e) = u \o c /\ Append(s \o u, e) = (s \o u) \o c
  BY <1>2, <1>3, AppendIsConcat
<1> HIDE DEF c
<1>7. Associative(S) /\ Associative(Q)
  BY ConcatIsAssociative
<1>8. (a \o b) \o e = a \o (b \o e)
  BY <1>5, <1>7, Zenon DEF Associative
<1>9. (s \o u) \o c = s \o (u \o c)
  BY <1>2, <1>7, Zenon DEF Associative
<1> QED
  BY <1>1, <1>4, <1>6, <1>8, <1>9 DEF a, b

LEMMA FlattenBoth ==
  ASSUME NEW S, NEW s \in Seq(Seq(S)), NEW t \in Seq(Seq(S))
  PROVE  FlattenSeq(s \o t) = FlattenSeq(s) \o FlattenSeq(t)
<1> DEFINE Holds(u) == FlattenSeq(s \o u) = FlattenSeq(s) \o FlattenSeq(u)
           T == {n \in 0..Len(t) : ~Holds(SubSeq(t, 1, n))}
<1>1. Holds(<<>>)
  <2>1. FlattenSeq(<<>>) = <<>>
    BY DEF FlattenSeq
  <2>2. s \o <<>> = s
    BY ConcatEmptySeq
  <2>3. FlattenSeq(s) \o <<>> = FlattenSeq(s)
    BY FlattenType, ConcatEmptySeq
  <2> QED
    BY <2>1, <2>2, <2>3
<1>2. ASSUME NEW u \in Seq(Seq(S)), NEW e \in Seq(S), Holds(u)
      PROVE  Holds(Append(u, e))
  BY <1>2, FlattenBothMore
<1> HIDE DEF Holds
<1>3. T = {}
  <2> SUFFICES ASSUME T # {}
               PROVE  FALSE
    OBVIOUS
  <2>1. PICK n \in T : \A k \in T : n <= k
    <3>1. T \in SUBSET Nat
      OBVIOUS
    <3> HIDE DEF T
    <3> QED
      BY <3>1, LeastNatural
  <2>2. n \in 0..Len(t) /\ ~Holds(SubSeq(t, 1, n))
    OBVIOUS
  <2>3. n # 0
    BY <1>1, <2>2, WholeFront
  <2>4. n \in 1..Len(t) /\ n - 1 \in 0..Len(t) /\ n - 1 \notin T
    <3> HIDE DEF T
    <3> QED
      BY <2>1, <2>2, <2>3
  <2> DEFINE u == SubSeq(t, 1, n - 1)
  <2>5. Holds(u)
    BY <2>4
  <2>6. SubSeq(t, 1, n) = Append(u, t[n]) /\ u \in Seq(Seq(S)) /\ t[n] \in Seq(S)
    BY <2>4, FrontOneMore
  <2> HIDE DEF u
  <2> QED
    BY <1>2, <2>2, <2>5, <2>6
<1>4. Len(t) \in 0..Len(t) /\ SubSeq(t, 1, Len(t)) = t
  BY WholeFront
<1>5. Holds(t)
  BY <1>3, <1>4
<1> QED
  BY <1>5 DEF Holds

=============================================================================
