---------------------------- MODULE AudioProofs ----------------------------
(***************************************************************************)
(* Proofs about AudioPath, for any ratios a filter can follow, any frames, *)
(* chunks and bounds, and a conversation of any length.                    *)
(*                                                                         *)
(* What was captured, what is on its way and what was dropped make up the  *)
(* caller's sound resampled in one piece: each frame keeps that true,      *)
(* hence so does a chunk, which is cut into frames, hence so does the      *)
(* flush, which forwards chunks.  The folds of the model are inductions    *)
(* here.  The opening of the conversation is a matter of counting frames,  *)
(* and the codec one of its eight segments.                                *)
(***************************************************************************)
EXTENDS AudioPath, MuLaw, ResamplerProofs

-----------------------------------------------------------------------------
(* The latest, and frames. *)

LEMMA LatestIs ==
    ASSUME NEW S, NEW s \in Seq(S), NEW n \in Nat
    PROVE  /\ Latest(s, n) \in Seq(S)
           /\ Len(Latest(s, n)) <= n
           /\ Len(s) <= n => Latest(s, n) = s
           /\ \E old \in Seq(S) : s = old \o Latest(s, n)
           /\ Len(s) = n + 1 => /\ Latest(s, n) = Tail(s)
                                /\ Latest(s, n) # s
<1>1. CASE Len(s) <= n
  <2>1. Latest(s, n) = s
    <3>1. (IF Len(s) > n THEN Len(s) - n + 1 ELSE 1) = 1
      BY <1>1
    <3>2. SubSeq(s, 1, Len(s)) = s
      BY SubSeqFull
    <3> QED
      BY <3>1, <3>2, Zenon DEF Latest
  <2>2. << >> \in Seq(S) /\ s = << >> \o s
    BY ConcatEmptySeq, EmptySeq
  <2>3. Len(s) # n + 1
    BY <1>1
  <2> QED
    BY <1>1, <2>1, <2>2, <2>3
<1>2. CASE ~(Len(s) <= n)
  <2> DEFINE m == Len(s) - n
  <2>1. m \in 1..Len(s) /\ Len(s) \in Nat /\ Len(s) - n + 1 = m + 1
    BY <1>2
  <2>2. Latest(s, n) = SubSeq(s, m + 1, Len(s))
    <3>1. (IF Len(s) > n THEN Len(s) - n + 1 ELSE 1) = m + 1
      BY <1>2, <2>1
    <3> QED
      BY <3>1, Zenon DEF Latest
  <2> HIDE DEF m
  <2>3. /\ SubSeq(s, m + 1, Len(s)) \in Seq(S)
        /\ Len(SubSeq(s, m + 1, Len(s))) = IF m + 1 <= Len(s) THEN Len(s) - (m + 1) + 1 ELSE 0
    <3>1. \A i \in (m + 1)..Len(s) : s[i] \in S
      BY <2>1
    <3>2. m + 1 \in Int /\ Len(s) \in Int
      BY <2>1
    <3> QED
      BY <3>1, <3>2, SubSeqProperties
  <2>4. SubSeq(s, 1, m) \in Seq(S) /\ SubSeq(s, 1, m) \o SubSeq(s, m + 1, Len(s)) = s
    <3>1. 1 \in 1..(Len(s) + 1) /\ m \in (1 - 1)..Len(s) /\ Len(s) \in m..Len(s)
      BY <2>1
    <3>2. SubSeq(s, 1, m) \o SubSeq(s, m + 1, Len(s)) = SubSeq(s, 1, Len(s))
      BY <3>1, ConcatAdjacentSubSeq
    <3> QED
      BY <2>1, <3>2, SubSeqFull, Beginning
  <2>5. Len(Latest(s, n)) <= n /\ Len(Latest(s, n)) < Len(s)
    BY <2>1, <2>2, <2>3 DEF m
  <2>6. ASSUME Len(s) = n + 1 PROVE Latest(s, n) = Tail(s)
    <3>1. m + 1 = 2 /\ s # << >>
      BY <2>6 DEF m
    <3> QED
      BY <2>2, <3>1, TailIsSubSeq
  <2> QED
    BY <1>2, <2>2, <2>3, <2>4, <2>5, <2>6
<1> QED
  BY <1>1, <1>2

LEMMA Assoc ==
    ASSUME NEW S
    PROVE  \A a, b, c \in Seq(S) : (a \o b) \o c = a \o (b \o c) /\ a \o b \in Seq(S)
BY ConcatAssociative, ConcatProperties

LEMMA SamplesAssoc ==
    \A a, b, c \in Seq(Sample) :
        /\ (a \o b) \o c = a \o (b \o c) /\ a \o (b \o c) = (a \o b) \o c
        /\ a \o b \in Seq(Sample)
<1>1. \A a, b, c \in Seq(Sample) : (a \o b) \o c = a \o (b \o c) /\ a \o b \in Seq(Sample)
  BY Assoc
<1> QED
  BY <1>1

LEMMA IntsAssoc ==
    \A a, b, c \in Seq(Int) : (a \o b) \o c = a \o (b \o c) /\ a \o b \in Seq(Int)
BY Assoc

\* A sequence is its frames and what is left over.
LEMMA Frames ==
    ASSUME NEW S, NEW s \in Seq(S), NEW size \in Nat \ {0}
    PROVE  /\ FramesIn(s, size) \in Seq(Seq(S))
           /\ Len(FramesIn(s, size)) = Len(s) \div size
           /\ \A i \in 1..(Len(s) \div size) : Len(FramesIn(s, size)[i]) = size
           /\ Leftover(s, size) \in Seq(S) /\ Len(Leftover(s, size)) < size
           /\ \A k \in 0..(Len(s) \div size) :
                  /\ k * size \in 0..Len(s)
                  /\ FlattenSeq(SubSeq(FramesIn(s, size), 1, k)) = SubSeq(s, 1, k * size)
           /\ FlattenSeq(FramesIn(s, size)) \o Leftover(s, size) = s
           /\ Len(FlattenSeq(FramesIn(s, size))) = (Len(s) \div size) * size
<1> DEFINE n == Len(s) \div size
           f == FramesIn(s, size)
<1>1. n \in Nat /\ n * size \in Nat /\ n * size <= Len(s) /\ Len(s) < n * size + size
      /\ Len(s) \in Nat
  BY DEF n
<1>2. f = [i \in 1..n |-> SubSeq(s, (i - 1) * size + 1, i * size)]
  BY DEF FramesIn
<1>3. Leftover(s, size) = SubSeq(s, n * size + 1, Len(s))
  BY DEF Leftover
<1> HIDE DEF n, f
<1>4. ASSUME NEW k \in 0..n PROVE k * size \in 0..Len(s)
  <2>1. k * size <= n * size /\ k * size \in Int /\ 0 * size <= k * size
    BY <1>1, Products
  <2> QED
    BY <1>1, <2>1
<1>5. ASSUME NEW k \in 0..(n - 1)
      PROVE  /\ (k + 1) * size = k * size + size
             /\ k * size \in 0..Len(s) /\ (k + 1) * size \in 0..Len(s)
             /\ f[k + 1] = SubSeq(s, k * size + 1, (k + 1) * size)
             /\ f[k + 1] \in Seq(S) /\ Len(f[k + 1]) = size
  <2>1. k \in 0..n /\ k + 1 \in 0..n /\ k + 1 \in 1..n /\ (k + 1) - 1 = k
    BY <1>1
  <2>2. /\ (k + 1) * size = k * size + size
        /\ k * size \in 0..Len(s) /\ (k + 1) * size \in 0..Len(s)
    BY <1>4, <2>1
  <2>3. f[k + 1] = SubSeq(s, k * size + 1, (k + 1) * size)
    BY <1>2, <2>1
  <2> DEFINE a == k * size + 1
             b == (k + 1) * size
  <2>4. a \in 1..Len(s) /\ b \in 0..Len(s) /\ a \in Int /\ b \in Int /\ b - a + 1 = size
        /\ a <= b
    BY <1>1, <2>2
  <2>5. \A i \in a..b : s[i] \in S
    <3>1. \A i \in a..b : i \in 1..Len(s)
      <4> HIDE DEF a, b
      <4> QED
        BY <1>1, <2>4
    <3> QED
      BY <3>1
  <2> HIDE DEF a, b
  <2>6. SubSeq(s, a, b) \in Seq(S) /\ Len(SubSeq(s, a, b)) = size
    BY <2>4, <2>5, SubSeqProperties
  <2> QED
    BY <2>2, <2>3, <2>6 DEF a, b
<1>6. f \in Seq(Seq(S)) /\ Len(f) = n /\ \A i \in 1..n : Len(f[i]) = size
  <2>1. ASSUME NEW i \in 1..n PROVE f[i] \in Seq(S) /\ Len(f[i]) = size
    <3>1. i - 1 \in 0..(n - 1) /\ (i - 1) + 1 = i
      BY <1>1
    <3> QED
      BY <1>5, <3>1
  <2>2. f \in [1..n -> Seq(S)]
    BY <1>2, <2>1
  <2>3. f \in Seq(Seq(S)) /\ Len(f) = n
    BY <1>1, <2>2
  <2> QED
    BY <2>1, <2>3
<1> DEFINE T == {k \in Nat : k \in 0..n => FlattenSeq(SubSeq(f, 1, k)) = SubSeq(s, 1, k * size)}
<1>7. 0 \in T
  <2>1. SubSeq(f, 1, 0) = << >> /\ SubSeq(s, 1, 0) = << >> /\ 0 * size = 0
    BY <1>6, Beginning
  <2> QED
    BY <2>1, FlattenEmpty
<1>8. ASSUME NEW k \in Nat, k \in T PROVE k + 1 \in T
  <2> SUFFICES ASSUME k + 1 \in 0..n
               PROVE  FlattenSeq(SubSeq(f, 1, k + 1)) = SubSeq(s, 1, (k + 1) * size)
    OBVIOUS
  <2>1. k \in 0..(n - 1) /\ k \in 0..n /\ k \in 0..(Len(f) - 1) /\ k \in 0..Len(f)
    BY <1>1, <1>6
  <2>2. /\ SubSeq(f, 1, k + 1) = Append(SubSeq(f, 1, k), f[k + 1])
        /\ SubSeq(f, 1, k) \in Seq(Seq(S))
    BY <1>6, <2>1, Beginning
  <2>3. FlattenSeq(SubSeq(f, 1, k + 1)) = FlattenSeq(SubSeq(f, 1, k)) \o f[k + 1]
    BY <1>5, <2>1, <2>2, FlattenAppend
  <2>4. FlattenSeq(SubSeq(f, 1, k)) = SubSeq(s, 1, k * size)
    BY <1>8, <2>1
  <2> DEFINE a == k * size
             b == (k + 1) * size
  <2>5. a \in 0..Len(s) /\ b \in a..Len(s) /\ f[k + 1] = SubSeq(s, a + 1, b)
    BY <1>1, <1>5, <2>1
  <2> HIDE DEF a, b
  <2>6. SubSeq(s, 1, a) \o SubSeq(s, a + 1, b) = SubSeq(s, 1, b)
    <3>1. 1 \in 1..(Len(s) + 1) /\ a \in (1 - 1)..Len(s)
      BY <1>1, <2>5
    <3> QED
      BY <2>5, <3>1, ConcatAdjacentSubSeq
  <2> QED
    BY <2>3, <2>4, <2>5, <2>6 DEF a, b
<1>9. ASSUME NEW k \in 0..n PROVE FlattenSeq(SubSeq(f, 1, k)) = SubSeq(s, 1, k * size)
  <2>1. k \in T
    <3> HIDE DEF T
    <3>1. k \in Nat
      OBVIOUS
    <3> QED
      BY <1>7, <1>8, <3>1, Induction
  <2> QED
    BY <2>1
<1>10. FlattenSeq(f) = SubSeq(s, 1, n * size)
  <2>1. n \in 0..n /\ SubSeq(f, 1, n) = f
    BY <1>1, <1>6, Beginning
  <2> QED
    BY <1>9, <2>1
<1> DEFINE e == n * size
<1>11. e \in 0..Len(s) /\ Len(s) < e + size
  BY <1>1
<1> HIDE DEF e
<1>12. /\ SubSeq(s, e + 1, Len(s)) \in Seq(S) /\ Len(SubSeq(s, e + 1, Len(s))) < size
  <2>1. \A i \in (e + 1)..Len(s) : s[i] \in S
    BY <1>1, <1>11
  <2>2. e + 1 \in Int /\ Len(s) \in Int
    BY <1>1, <1>11
  <2>3. /\ SubSeq(s, e + 1, Len(s)) \in Seq(S)
        /\ Len(SubSeq(s, e + 1, Len(s)))
               = IF e + 1 <= Len(s) THEN Len(s) - (e + 1) + 1 ELSE 0
    BY <2>1, <2>2, SubSeqProperties
  <2> QED
    BY <1>1, <1>11, <2>3
<1>13. SubSeq(s, 1, e) \o SubSeq(s, e + 1, Len(s)) = s /\ Len(SubSeq(s, 1, e)) = e
  <2>1. 1 \in 1..(Len(s) + 1) /\ e \in (1 - 1)..Len(s) /\ Len(s) \in e..Len(s)
    BY <1>1, <1>11
  <2>2. SubSeq(s, 1, e) \o SubSeq(s, e + 1, Len(s)) = SubSeq(s, 1, Len(s))
    BY <2>1, ConcatAdjacentSubSeq
  <2> QED
    BY <1>11, <2>2, Beginning
<1> QED
  BY <1>3, <1>4, <1>6, <1>9, <1>10, <1>12, <1>13 DEF n, f, e

-----------------------------------------------------------------------------
(* What is left of a sequence. *)

\* Sequences are reached from the empty one, element by element.
LEMMA SequenceInduction ==
    ASSUME NEW S, NEW T, << >> \in T,
           \A s \in Seq(S), x \in S : s \in T => Append(s, x) \in T
    PROVE  Seq(S) \subseteq T
<1> DEFINE U == {n \in Nat : \A s \in Seq(S) : Len(s) = n => s \in T}
<1>1. 0 \in U
  BY EmptySeq
<1>2. ASSUME NEW n \in Nat, n \in U PROVE n + 1 \in U
  <2> SUFFICES ASSUME NEW s \in Seq(S), Len(s) = n + 1 PROVE s \in T
    OBVIOUS
  <2>1. s # << >>
    OBVIOUS
  <2>2. PICK t \in Seq(S), x \in S : s = Append(t, x)
    BY <2>1, SequenceEmptyOrAppend
  <2>3. Len(t) = n
    BY <2>2, AppendProperties
  <2> QED
    BY <1>2, <2>2, <2>3
<1>3. Nat \subseteq U
  <2> HIDE DEF U
  <2> QED
    BY <1>1, <1>2, Induction
<1>4. ASSUME NEW s \in Seq(S) PROVE s \in T
  <2>1. Len(s) \in Nat
    OBVIOUS
  <2> QED
    BY <1>3, <2>1
<1> QED
  BY <1>4

LEMMA WithoutEmpty == \A gone : Without(<< >>, gone) = << >>
<1>1. \A gone : [i \in 1..Len(<< >>) |-> IF << >>[i] \in gone THEN << >> ELSE << <<>>[i] >>]
                    = << >>
  OBVIOUS
<1> QED
  BY <1>1, FlattenEmpty DEF Without

LEMMA WithoutAppend ==
    ASSUME NEW S, NEW gone
    PROVE  \A s \in Seq(S), x \in S :
               /\ Without(s, gone) \in Seq(S)
               /\ x \in gone => Without(Append(s, x), gone) = Without(s, gone)
               /\ x \notin gone => Without(Append(s, x), gone) = Append(Without(s, gone), x)
<1> SUFFICES ASSUME NEW s \in Seq(S), NEW x \in S
             PROVE  /\ Without(s, gone) \in Seq(S)
                    /\ x \in gone => Without(Append(s, x), gone) = Without(s, gone)
                    /\ x \notin gone =>
                           Without(Append(s, x), gone) = Append(Without(s, gone), x)
  OBVIOUS
<1> DEFINE Part(y) == IF y \in gone THEN << >> ELSE <<y>>
           f == [i \in 1..Len(s) |-> Part(s[i])]
           t == Append(s, x)
           g == [i \in 1..Len(t) |-> Part(t[i])]
           px == Part(x)
<1>1. \A y \in S : Part(y) \in Seq(S)
  OBVIOUS
<1>2. f \in Seq(Seq(S)) /\ Len(f) = Len(s)
  <2>1. \A i \in 1..Len(s) : Part(s[i]) \in Seq(S)
    BY <1>1
  <2>2. Len(s) \in Nat
    OBVIOUS
  <2>3. f \in [1..Len(s) -> Seq(S)]
    <3> HIDE DEF Part
    <3> QED
      BY <2>1
  <2> HIDE DEF f
  <2> QED
    BY <2>2, <2>3
<1>3. Len(t) = Len(s) + 1 /\ t[Len(s) + 1] = x /\ \A i \in 1..Len(s) : t[i] = s[i]
  BY AppendProperties
<1>4. px \in Seq(S)
  BY <1>1
<1>5. g = Append(f, px)
  <2> HIDE DEF t
  <2>1. g \in Seq(Seq(S)) /\ Len(g) = Len(s) + 1
    <3>1. \A i \in 1..Len(t) : Part(t[i]) \in Seq(S)
      <4>1. t \in Seq(S)
        BY DEF t
      <4> QED
        BY <1>1, <4>1
    <3>2. Len(t) \in Nat
      BY <1>3
    <3>3. g \in [1..Len(t) -> Seq(S)]
      <4> HIDE DEF Part
      <4> QED
        BY <3>1
    <3> HIDE DEF g
    <3> QED
      BY <1>3, <3>2, <3>3
  <2>2. /\ Append(f, px) \in Seq(Seq(S)) /\ Len(Append(f, px)) = Len(s) + 1
        /\ \A i \in 1..Len(s) : Append(f, px)[i] = f[i]
        /\ Append(f, px)[Len(s) + 1] = px
    <3> DEFINE Q == Seq(S)
    <3>1. f \in Seq(Q) /\ px \in Q /\ Len(f) = Len(s)
      BY <1>2, <1>4
    <3> HIDE DEF f, px, Q
    <3>2. /\ Append(f, px) \in Seq(Q) /\ Len(Append(f, px)) = Len(f) + 1
          /\ \A i \in 1..Len(f) : Append(f, px)[i] = f[i]
          /\ Append(f, px)[Len(f) + 1] = px
      BY <3>1, AppendProperties
    <3> QED
      BY <3>1, <3>2 DEF Q
  <2>3. ASSUME NEW i \in 1..(Len(s) + 1) PROVE g[i] = Append(f, px)[i]
    <3>1. CASE i = Len(s) + 1
      <4>1. g[i] = px
        BY <1>3, <3>1
      <4> QED
        BY <2>2, <3>1, <4>1
    <3>2. CASE i # Len(s) + 1
      <4>1. i \in 1..Len(s)
        BY <3>2
      <4>2. g[i] = f[i]
        BY <1>3, <4>1
      <4> QED
        BY <2>2, <4>1, <4>2
    <3> QED
      BY <3>1, <3>2
  <2> HIDE DEF f, g, px
  <2> QED
    BY <2>1, <2>2, <2>3, SeqEqual
<1>6. FlattenSeq(Append(f, px)) = FlattenSeq(f) \o px /\ FlattenSeq(f) \in Seq(S)
  <2> HIDE DEF f, px
  <2> QED
    BY <1>2, <1>4, FlattenAppend, FlattenType
<1>7. Without(s, gone) = FlattenSeq(f) /\ Without(t, gone) = FlattenSeq(g)
  BY DEF Without
<1>8. x \in gone => px = << >>
  OBVIOUS
<1>9. x \notin gone => px = <<x>>
  OBVIOUS
<1> HIDE DEF f, g, px, Part, t
<1>10. Without(s, gone) \in Seq(S)
  BY <1>6, <1>7
<1>11. Without(t, gone) = Without(s, gone) \o px
  BY <1>5, <1>6, <1>7
<1>12. ASSUME x \in gone PROVE Without(t, gone) = Without(s, gone)
  BY <1>8, <1>10, <1>11, <1>12, ConcatEmptySeq
<1>13. ASSUME x \notin gone PROVE Without(t, gone) = Append(Without(s, gone), x)
  BY <1>9, <1>10, <1>11, <1>13, AppendIsConcat
<1> QED
  BY <1>10, <1>12, <1>13 DEF t

LEMMA WithoutType ==
    ASSUME NEW S, NEW gone
    PROVE  \A s \in Seq(S) : Without(s, gone) \in Seq(S)
<1> SUFFICES ASSUME NEW s \in Seq(S) PROVE Without(s, gone) \in Seq(S)
  OBVIOUS
<1>1. CASE s = << >>
  BY <1>1, WithoutEmpty, EmptySeq
<1>2. CASE s # << >>
  <2>1. PICK t \in Seq(S), x \in S : s = Append(t, x)
    BY <1>2, SequenceEmptyOrAppend
  <2>2. s[Len(s)] \in S
    BY <1>2
  <2> QED
    BY <2>2, WithoutAppend
<1> QED
  BY <1>1, <1>2

LEMMA ConcatAppend ==
    ASSUME NEW S, NEW x \in S
    PROVE  \A u, v \in Seq(S) : Append(u \o v, x) = u \o Append(v, x)
OBVIOUS

LEMMA WithoutConcat ==
    ASSUME NEW S, NEW gone
    PROVE  \A s, t \in Seq(S) :
               Without(s \o t, gone) = Without(s, gone) \o Without(t, gone)
<1> SUFFICES ASSUME NEW s \in Seq(S), NEW t \in Seq(S)
             PROVE  Without(s \o t, gone) = Without(s, gone) \o Without(t, gone)
  OBVIOUS
<1> DEFINE T == {a \in Seq(S) : Without(s \o a, gone) = Without(s, gone) \o Without(a, gone)}
<1>1. << >> \in T
  <2>1. Without(s, gone) \in Seq(S)
    BY WithoutType
  <2>2. Without(s, gone) \o << >> = Without(s, gone) /\ s \o << >> = s
    BY <2>1, ConcatEmptySeq
  <2>3. << >> \in Seq(S)
    BY EmptySeq
  <2> QED
    BY <2>2, <2>3, WithoutEmpty
<1>2. ASSUME NEW a \in Seq(S), NEW x \in S, a \in T PROVE Append(a, x) \in T
  <2> DEFINE c == s \o a
  <2>1. /\ s \o Append(a, x) = Append(c, x) /\ c \in Seq(S)
        /\ Append(a, x) \in Seq(S)
    OBVIOUS
  <2>2. Without(c, gone) = Without(s, gone) \o Without(a, gone)
    BY <1>2
  <2>3. Without(s, gone) \in Seq(S) /\ Without(a, gone) \in Seq(S)
    BY WithoutType
  <2> HIDE DEF c
  <2>4. Without(Append(c, x), gone) = Without(s, gone) \o Without(Append(a, x), gone)
    <3>1. CASE x \in gone
      <4>1. Without(Append(c, x), gone) = Without(c, gone)
        BY <2>1, <3>1, WithoutAppend
      <4>2. Without(Append(a, x), gone) = Without(a, gone)
        BY <3>1, WithoutAppend
      <4> QED
        BY <2>2, <4>1, <4>2
    <3>2. CASE x \notin gone
      <4>1. Without(Append(c, x), gone) = Append(Without(c, gone), x)
        BY <2>1, <3>2, WithoutAppend
      <4>2. Without(Append(a, x), gone) = Append(Without(a, gone), x)
        BY <3>2, WithoutAppend
      <4>3. Append(Without(s, gone) \o Without(a, gone), x)
                = Without(s, gone) \o Append(Without(a, gone), x)
        BY <2>3, ConcatAppend
      <4> QED
        BY <2>2, <4>1, <4>2, <4>3
    <3> QED
      BY <3>1, <3>2
  <2> QED
    BY <2>1, <2>4
<1>3. Seq(S) \subseteq T
  <2> HIDE DEF T
  <2> QED
    BY <1>1, <1>2, SequenceInduction
<1> QED
  BY <1>3

\* What is in a sequence.
LEMMA InAppend ==
    ASSUME NEW S, NEW s \in Seq(S), NEW x \in S
    PROVE  ToSet(Append(s, x)) = ToSet(s) \cup {x}
<1>1. /\ Append(s, x) \in Seq(S) /\ Len(Append(s, x)) = Len(s) + 1
      /\ \A i \in 1..Len(s) : Append(s, x)[i] = s[i]
      /\ Append(s, x)[Len(s) + 1] = x
  BY AppendProperties
<1>2. DOMAIN Append(s, x) = 1..(Len(s) + 1) /\ DOMAIN s = 1..Len(s)
  BY <1>1, LenProperties
<1>3. 1..(Len(s) + 1) = (1..Len(s)) \cup {Len(s) + 1}
  OBVIOUS
<1> QED
  BY <1>1, <1>2, <1>3 DEF ToSet

LEMMA InSeq ==
    ASSUME NEW S
    PROVE  \A s \in Seq(S) : /\ ToSet(s) \subseteq S
                             /\ \A i \in 1..Len(s) : s[i] \in ToSet(s)
                             /\ \A x \in ToSet(s) : \E i \in 1..Len(s) : x = s[i]
BY DEF ToSet

LEMMA InEmpty == ToSet(<< >>) = {}
BY DEF ToSet

LEMMA InConcat ==
    ASSUME NEW S
    PROVE  \A s, t \in Seq(S) : ToSet(s \o t) = ToSet(s) \cup ToSet(t)
<1> SUFFICES ASSUME NEW s \in Seq(S), NEW t \in Seq(S)
             PROVE  ToSet(s \o t) = ToSet(s) \cup ToSet(t)
  OBVIOUS
<1> DEFINE T == {a \in Seq(S) : ToSet(s \o a) = ToSet(s) \cup ToSet(a)}
<1>1. << >> \in T
  BY EmptySeq, ConcatEmptySeq, InEmpty
<1>2. ASSUME NEW a \in Seq(S), NEW x \in S, a \in T PROVE Append(a, x) \in T
  <2> DEFINE c == s \o a
  <2>1. s \o Append(a, x) = Append(c, x) /\ c \in Seq(S) /\ Append(a, x) \in Seq(S)
    OBVIOUS
  <2>2. ToSet(c) = ToSet(s) \cup ToSet(a)
    BY <1>2
  <2> HIDE DEF c
  <2>3. ToSet(Append(c, x)) = ToSet(c) \cup {x}
    BY <2>1, InAppend
  <2>4. ToSet(Append(a, x)) = ToSet(a) \cup {x}
    BY InAppend
  <2>5. ToSet(s \o Append(a, x)) = ToSet(s) \cup ToSet(Append(a, x))
    BY <2>1, <2>2, <2>3, <2>4
  <2> QED
    BY <2>1, <2>5
<1>3. Seq(S) \subseteq T
  <2> HIDE DEF T
  <2> QED
    BY <1>1, <1>2, SequenceInduction
<1> QED
  BY <1>3

LEMMA InWithout ==
    ASSUME NEW S, NEW gone
    PROVE  \A s \in Seq(S) : ToSet(Without(s, gone)) = ToSet(s) \ gone
<1> DEFINE T == {a \in Seq(S) : ToSet(Without(a, gone)) = ToSet(a) \ gone}
<1>1. << >> \in T
  BY EmptySeq, WithoutEmpty, InEmpty
<1>2. ASSUME NEW a \in Seq(S), NEW x \in S, a \in T PROVE Append(a, x) \in T
  <2>1. Append(a, x) \in Seq(S) /\ Without(a, gone) \in Seq(S)
    BY WithoutType
  <2>2. ToSet(Append(a, x)) = ToSet(a) \cup {x}
    BY InAppend
  <2>3. ToSet(Without(a, gone)) = ToSet(a) \ gone
    BY <1>2
  <2>4. CASE x \in gone
    <3>1. Without(Append(a, x), gone) = Without(a, gone)
      BY <2>4, WithoutAppend
    <3> QED
      BY <2>1, <2>2, <2>3, <2>4, <3>1
  <2>5. CASE x \notin gone
    <3>1. Without(Append(a, x), gone) = Append(Without(a, gone), x)
      BY <2>5, WithoutAppend
    <3>2. ToSet(Append(Without(a, gone), x)) = ToSet(Without(a, gone)) \cup {x}
      BY <2>1, InAppend
    <3> QED
      BY <2>1, <2>2, <2>3, <2>5, <3>1, <3>2
  <2> QED
    BY <2>4, <2>5
<1>3. Seq(S) \subseteq T
  <2> HIDE DEF T
  <2> QED
    BY <1>1, <1>2, SequenceInduction
<1> QED
  BY <1>3

\* A sequence that has none of them, and one that has no others.
LEMMA WithoutNone ==
    ASSUME NEW S, NEW gone
    PROVE  \A s \in Seq(S) : ToSet(s) \cap gone = {} => Without(s, gone) = s
<1> DEFINE T == {a \in Seq(S) : ToSet(a) \cap gone = {} => Without(a, gone) = a}
<1>1. << >> \in T
  BY EmptySeq, WithoutEmpty
<1>2. ASSUME NEW a \in Seq(S), NEW x \in S, a \in T PROVE Append(a, x) \in T
  <2>1. Append(a, x) \in Seq(S) /\ ToSet(Append(a, x)) = ToSet(a) \cup {x}
    BY InAppend
  <2>2. x \notin gone => Without(Append(a, x), gone) = Append(Without(a, gone), x)
    BY WithoutAppend
  <2> QED
    BY <1>2, <2>1, <2>2
<1>3. Seq(S) \subseteq T
  <2> HIDE DEF T
  <2> QED
    BY <1>1, <1>2, SequenceInduction
<1> QED
  BY <1>3

LEMMA WithoutAll ==
    ASSUME NEW S, NEW gone
    PROVE  \A s \in Seq(S) : ToSet(s) \subseteq gone => Without(s, gone) = << >>
<1> DEFINE T == {a \in Seq(S) : ToSet(a) \subseteq gone => Without(a, gone) = << >>}
<1>1. << >> \in T
  BY EmptySeq, WithoutEmpty
<1>2. ASSUME NEW a \in Seq(S), NEW x \in S, a \in T PROVE Append(a, x) \in T
  <2>1. Append(a, x) \in Seq(S) /\ ToSet(Append(a, x)) = ToSet(a) \cup {x}
    BY InAppend
  <2>2. x \in gone => Without(Append(a, x), gone) = Without(a, gone)
    BY WithoutAppend
  <2> QED
    BY <1>2, <2>1, <2>2
<1>3. Seq(S) \subseteq T
  <2> HIDE DEF T
  <2> QED
    BY <1>1, <1>2, SequenceInduction
<1> QED
  BY <1>3

LEMMA WithoutBoth ==
    ASSUME NEW S, NEW a, NEW b
    PROVE  \A s \in Seq(S) : Without(s, a \cup b) = Without(Without(s, a), b)
<1> DEFINE T == {s \in Seq(S) : Without(s, a \cup b) = Without(Without(s, a), b)}
<1>1. << >> \in T
  BY EmptySeq, WithoutEmpty
<1>2. ASSUME NEW s \in Seq(S), NEW x \in S, s \in T PROVE Append(s, x) \in T
  <2>1. Append(s, x) \in Seq(S) /\ Without(s, a) \in Seq(S)
    BY WithoutType
  <2>2. Without(s, a \cup b) = Without(Without(s, a), b)
    BY <1>2
  <2>3. CASE x \in a
    <3>1. Without(Append(s, x), a) = Without(s, a)
      BY <2>3, WithoutAppend
    <3>2. Without(Append(s, x), a \cup b) = Without(s, a \cup b)
      BY <2>3, WithoutAppend
    <3> QED
      BY <2>1, <2>2, <3>1, <3>2
  <2>4. CASE x \notin a /\ x \in b
    <3>1. Without(Append(s, x), a) = Append(Without(s, a), x)
      BY <2>4, WithoutAppend
    <3>2. Without(Append(Without(s, a), x), b) = Without(Without(s, a), b)
      BY <2>1, <2>4, WithoutAppend
    <3>3. Without(Append(s, x), a \cup b) = Without(s, a \cup b)
      BY <2>4, WithoutAppend
    <3> QED
      BY <2>1, <2>2, <3>1, <3>2, <3>3
  <2>5. CASE x \notin a /\ x \notin b
    <3>1. Without(Append(s, x), a) = Append(Without(s, a), x)
      BY <2>5, WithoutAppend
    <3>2. Without(Append(Without(s, a), x), b) = Append(Without(Without(s, a), b), x)
      BY <2>1, <2>5, WithoutAppend
    <3>3. Without(Append(s, x), a \cup b) = Append(Without(s, a \cup b), x)
      BY <2>5, WithoutAppend
    <3> QED
      BY <2>1, <2>2, <3>1, <3>2, <3>3
  <2> QED
    BY <2>3, <2>4, <2>5
<1>3. Seq(S) \subseteq T
  <2> HIDE DEF T
  <2> QED
    BY <1>1, <1>2, SequenceInduction
<1> QED
  BY <1>3

-----------------------------------------------------------------------------
(* The order of samples. *)

Before(A, B) == \A x \in A, y \in B : x.n < y.n

Rising(s) == \A i, j \in 1..Len(s) : i < j => s[i].n < s[j].n

\* A sample is numbered by its place.
Numbered(s) == \A i \in 1..Len(s) : s[i].n = i - 1

LEMMA SampleNumbers == \A x \in Sample : x.n \in Int
BY DEF Sample

LEMMA RisingConcat ==
    \A s, t \in Seq(Sample) :
        Rising(s \o t) <=> Rising(s) /\ Rising(t) /\ Before(ToSet(s), ToSet(t))
<1> SUFFICES ASSUME NEW s \in Seq(Sample), NEW t \in Seq(Sample)
             PROVE  Rising(s \o t) <=>
                        Rising(s) /\ Rising(t) /\ Before(ToSet(s), ToSet(t))
  OBVIOUS
<1> DEFINE c == s \o t
           m == Len(s)
           n == Len(t)
<1>1. /\ Len(c) = m + n /\ m \in Nat /\ n \in Nat
      /\ \A i \in 1..m : c[i] = s[i]
      /\ \A i \in 1..n : c[m + i] = t[i]
  <2>1. /\ Len(c) = m + n
        /\ \A i \in 1..(m + n) : c[i] = IF i <= m THEN s[i] ELSE t[i - m]
    BY ConcatProperties
  <2>2. m \in Nat /\ n \in Nat
    OBVIOUS
  <2> HIDE DEF c, m, n
  <2>3. ASSUME NEW i \in 1..m PROVE c[i] = s[i]
    BY <2>1, <2>2
  <2>4. ASSUME NEW i \in 1..n PROVE c[m + i] = t[i]
    <3>1. m + i \in 1..(m + n) /\ ~(m + i <= m) /\ (m + i) - m = i
      BY <2>2
    <3> QED
      BY <2>1, <3>1
  <2> QED
    BY <2>1, <2>2, <2>3, <2>4
<1>2. /\ \A i \in 1..m : s[i] \in ToSet(s)
      /\ \A x \in ToSet(s) : \E i \in 1..m : x = s[i]
      /\ \A i \in 1..n : t[i] \in ToSet(t)
      /\ \A x \in ToSet(t) : \E i \in 1..n : x = t[i]
  BY InSeq
<1>3. Rising(c) <=> \A i, j \in 1..Len(c) : i < j => c[i].n < c[j].n
  BY DEF Rising
<1>4. Rising(s) <=> \A i, j \in 1..m : i < j => s[i].n < s[j].n
  BY DEF Rising
<1>5. Rising(t) <=> \A i, j \in 1..n : i < j => t[i].n < t[j].n
  BY DEF Rising
<1> HIDE DEF c, m, n
<1>6. ASSUME Rising(c) PROVE Rising(s) /\ Rising(t) /\ Before(ToSet(s), ToSet(t))
  <2>1. Rising(s)
    BY <1>1, <1>3, <1>4, <1>6
  <2>2. ASSUME NEW i \in 1..n, NEW j \in 1..n, i < j PROVE t[i].n < t[j].n
    <3>1. m + i \in 1..Len(c) /\ m + j \in 1..Len(c) /\ m + i < m + j
      BY <1>1, <2>2
    <3> QED
      BY <1>1, <1>3, <1>6, <3>1
  <2>3. ASSUME NEW i \in 1..m, NEW j \in 1..n PROVE s[i].n < t[j].n
    <3>1. i \in 1..Len(c) /\ m + j \in 1..Len(c) /\ i < m + j
      BY <1>1
    <3> QED
      BY <1>1, <1>3, <1>6, <3>1
  <2> QED
    BY <1>2, <1>5, <2>1, <2>2, <2>3 DEF Before
<1>7. ASSUME Rising(s), Rising(t), Before(ToSet(s), ToSet(t)) PROVE Rising(c)
  <2>1. ASSUME NEW i \in 1..Len(c), NEW j \in 1..Len(c), i < j PROVE c[i].n < c[j].n
    <3>1. CASE j \in 1..m
      <4>1. i \in 1..m
        BY <1>1, <2>1, <3>1
      <4> QED
        BY <1>1, <1>4, <1>7, <2>1, <3>1, <4>1
    <3>2. CASE i \notin 1..m
      <4>1. i - m \in 1..n /\ j - m \in 1..n /\ i - m < j - m /\ m + (i - m) = i
            /\ m + (j - m) = j
        BY <1>1, <2>1, <3>2
      <4> QED
        BY <1>1, <1>5, <1>7, <4>1
    <3>3. CASE i \in 1..m /\ j \notin 1..m
      <4>1. j - m \in 1..n /\ m + (j - m) = j
        BY <1>1, <3>3
      <4>2. s[i].n < t[j - m].n
        BY <1>2, <1>7, <3>3, <4>1 DEF Before
      <4> QED
        BY <1>1, <3>3, <4>1, <4>2
    <3> QED
      BY <3>1, <3>2, <3>3
  <2> QED
    BY <1>3, <2>1
<1> QED
  BY <1>6, <1>7 DEF c

LEMMA RisingWithout ==
    ASSUME NEW gone
    PROVE  \A s \in Seq(Sample) : Rising(s) => Rising(Without(s, gone))
<1> DEFINE T == {s \in Seq(Sample) : Rising(s) => Rising(Without(s, gone))}
<1>1. << >> \in T
  BY EmptySeq, WithoutEmpty
<1>2. ASSUME NEW s \in Seq(Sample), NEW x \in Sample, s \in T PROVE Append(s, x) \in T
  <2>1. /\ Append(s, x) \in Seq(Sample) /\ Without(s, gone) \in Seq(Sample)
        /\ <<x>> \in Seq(Sample)
    BY WithoutType
  <2>2. Append(s, x) = s \o <<x>>
    BY AppendIsConcat
  <2> SUFFICES ASSUME Rising(Append(s, x)) PROVE Rising(Without(Append(s, x), gone))
    BY <2>1
  <2>3. Rising(s) /\ Rising(<<x>>) /\ Before(ToSet(s), ToSet(<<x>>))
    BY <2>1, <2>2, RisingConcat
  <2>4. Rising(Without(s, gone))
    BY <1>2, <2>3
  <2>5. CASE x \in gone
    <3>1. Without(Append(s, x), gone) = Without(s, gone)
      BY <2>5, WithoutAppend
    <3> QED
      BY <2>4, <3>1
  <2>6. CASE x \notin gone
    <3>1. Without(Append(s, x), gone) = Append(Without(s, gone), x)
      BY <2>6, WithoutAppend
    <3>2. Append(Without(s, gone), x) = Without(s, gone) \o <<x>>
      BY <2>1, AppendIsConcat
    <3>3. ToSet(Without(s, gone)) \subseteq ToSet(s)
      BY InWithout
    <3>4. Before(ToSet(Without(s, gone)), ToSet(<<x>>))
      BY <2>3, <3>3 DEF Before
    <3>5. Rising(Without(s, gone) \o <<x>>)
      BY <2>1, <2>3, <2>4, <3>4, RisingConcat
    <3> QED
      BY <3>1, <3>2, <3>5
  <2> QED
    BY <2>5, <2>6
<1>3. Seq(Sample) \subseteq T
  <2> HIDE DEF T
  <2> QED
    BY <1>1, <1>2, SequenceInduction
<1> QED
  BY <1>3

LEMMA NumberedConcat ==
    ASSUME NEW s \in Seq(Sample), NEW t \in Seq(Sample), Numbered(s \o t)
    PROVE  /\ Numbered(s) /\ Rising(s \o t)
           /\ \A x \in ToSet(s) : x.n < Len(s)
           /\ \A x \in ToSet(t) : Len(s) <= x.n
<1> DEFINE c == s \o t
           m == Len(s)
           n == Len(t)
<1>1. /\ Len(c) = m + n /\ m \in Nat /\ n \in Nat
      /\ \A i \in 1..(m + n) : c[i] = IF i <= m THEN s[i] ELSE t[i - m]
  BY ConcatProperties
<1>2. \A i \in 1..(m + n) : c[i].n = i - 1
  BY <1>1 DEF Numbered
<1>3. /\ \A x \in ToSet(s) : \E i \in 1..m : x = s[i]
      /\ \A x \in ToSet(t) : \E i \in 1..n : x = t[i]
  BY InSeq
<1>4. Numbered(s) <=> \A i \in 1..m : s[i].n = i - 1
  BY DEF Numbered
<1>5. Rising(c) <=> \A i, j \in 1..Len(c) : i < j => c[i].n < c[j].n
  BY DEF Rising
<1> HIDE DEF c, m, n
<1>6. ASSUME NEW i \in 1..m PROVE s[i].n = i - 1
  <2>1. i \in 1..(m + n) /\ i <= m
    BY <1>1
  <2> QED
    BY <1>1, <1>2, <2>1
<1>7. ASSUME NEW i \in 1..n PROVE t[i].n = m + i - 1
  <2> DEFINE k == m + i
  <2>1. k \in 1..(m + n) /\ ~(k <= m) /\ k - m = i /\ k - 1 = m + i - 1
    BY <1>1
  <2> HIDE DEF k
  <2>2. c[k] = t[i]
    BY <1>1, <2>1
  <2>3. c[k].n = m + i - 1
    BY <1>2, <2>1
  <2> QED
    BY <2>2, <2>3
<1>8. Rising(c)
  BY <1>1, <1>2, <1>5
<1>9. ASSUME NEW x \in ToSet(s) PROVE x.n < m
  <2>1. PICK i \in 1..m : x = s[i]
    BY <1>3, <1>9
  <2>2. x.n = i - 1
    BY <1>6, <2>1
  <2> QED
    BY <1>1, <2>2
<1>10. ASSUME NEW x \in ToSet(t) PROVE m <= x.n
  <2>1. PICK i \in 1..n : x = t[i]
    BY <1>3, <1>10
  <2>2. x.n = m + i - 1
    BY <1>7, <2>1
  <2> QED
    BY <1>1, <2>2
<1> QED
  BY <1>4, <1>6, <1>8, <1>9, <1>10 DEF c, m

LEMMA ResampledNumbered ==
    ASSUME NEW ratio, Followed(ratio), NEW signal \in Seq(Int)
    PROVE  Numbered(Resampled(ratio, signal))
<1>1. /\ Len(Resampled(ratio, signal)) = Reach(ratio, Len(signal))
      /\ \A i \in 1..Reach(ratio, Len(signal)) :
             Resampled(ratio, signal)[i] = OutputAt(ratio, signal, i)
  BY ResampledIs
<1>2. \A i : OutputAt(ratio, signal, i).n = i - 1
  BY DEF OutputAt
<1> QED
  BY <1>1, <1>2 DEF Numbered

-----------------------------------------------------------------------------
(* The folds, step by step. *)

LEMMA LargestIs ==
    ASSUME NEW k \in Nat, NEW s, s \subseteq 1..(k + 1), k + 1 \in s
    PROVE  Max(s) = k + 1
<1>1. \A y \in s : k + 1 >= y
  OBVIOUS
<1>2. \A x \in s : (\A y \in s : x >= y) => x = k + 1
  OBVIOUS
<1> QED
  BY <1>1, <1>2 DEF Max

LEMMA FoldingEnqueue ==
    ASSUME NEW line, NEW frames, Len(frames) \in Nat, DOMAIN frames = 1..Len(frames)
    PROVE  \E g : /\ g[0] = line
                  /\ \A k \in 0..(Len(frames) - 1) : g[k + 1] = Enqueue(g[k], frames[k + 1])
                  /\ FoldLeft(Enqueue, line, frames) = g[Len(frames)]
<1> DEFINE n == Len(frames)
           T == {k \in Nat : \E g : g = [s \in SUBSET (1..k) |->
                     IF s = {} THEN line ELSE Enqueue(g[s \ {Max(s)}], frames[Max(s)])]}
<1>1. 0 \in T
  <2> DEFINE g == [s \in SUBSET (1..0) |-> line]
  <2>1. g = [s \in SUBSET (1..0) |->
                IF s = {} THEN line ELSE Enqueue(g[s \ {Max(s)}], frames[Max(s)])]
    <3>1. \A s \in SUBSET (1..0) : s = {}
      OBVIOUS
    <3> QED
      BY <3>1, Zenon
  <2>2. \E h : h = [s \in SUBSET (1..0) |->
                IF s = {} THEN line ELSE Enqueue(h[s \ {Max(s)}], frames[Max(s)])]
    <3> HIDE DEF g
    <3> QED
      BY <2>1, Zenon
  <2>3. 0 \in Nat
    OBVIOUS
  <2> QED
    BY <2>2, <2>3, Zenon
<1>2. ASSUME NEW k \in Nat, k \in T PROVE k + 1 \in T
  <2> DEFINE l == k + 1
  <2>1. PICK g : g = [s \in SUBSET (1..k) |->
                     IF s = {} THEN line ELSE Enqueue(g[s \ {Max(s)}], frames[Max(s)])]
    BY <1>2, Zenon
  <2> DEFINE h == [s \in SUBSET (1..l) |-> IF l \in s THEN Enqueue(g[s \ {l}], frames[l])
                                                      ELSE g[s]]
  <2>2. ASSUME NEW s \in SUBSET (1..l), l \in s
        PROVE  h[s] = IF s = {} THEN line ELSE Enqueue(h[s \ {Max(s)}], frames[Max(s)])
    <3>1. s # {} /\ Max(s) = l
      BY <2>2, LargestIs
    <3>2. l \notin s \ {l} /\ s \ {l} \in SUBSET (1..l)
      OBVIOUS
    <3>3. h[s \ {l}] = g[s \ {l}]
      BY <3>2, Zenon
    <3>4. h[s] = Enqueue(g[s \ {l}], frames[l])
      BY <2>2, Zenon
    <3> HIDE DEF h, l
    <3> QED
      BY <3>1, <3>3, <3>4, Zenon
  <2>3. ASSUME NEW s \in SUBSET (1..l), l \notin s
        PROVE  h[s] = IF s = {} THEN line ELSE Enqueue(h[s \ {Max(s)}], frames[Max(s)])
    <3>1. s \in SUBSET (1..k)
      BY <2>3
    <3>2. s \ {Max(s)} \in SUBSET (1..l) /\ l \notin s \ {Max(s)}
      BY <2>3, Zenon
    <3>3. h[s] = g[s]
      BY <2>3, Zenon
    <3>4. h[s \ {Max(s)}] = g[s \ {Max(s)}]
      BY <3>2, Zenon
    <3> HIDE DEF h, l
    <3>5. g[s] = IF s = {} THEN line ELSE Enqueue(g[s \ {Max(s)}], frames[Max(s)])
      BY <2>1, <3>1, Zenon
    <3> QED
      BY <3>3, <3>4, <3>5, Zenon
  <2>4. h = [s \in SUBSET (1..l) |->
                IF s = {} THEN line ELSE Enqueue(h[s \ {Max(s)}], frames[Max(s)])]
    <3>1. DOMAIN h = SUBSET (1..l) /\ h = [s \in SUBSET (1..l) |-> h[s]]
      OBVIOUS
    <3>2. \A s \in SUBSET (1..l) :
              h[s] = IF s = {} THEN line ELSE Enqueue(h[s \ {Max(s)}], frames[Max(s)])
      BY <2>2, <2>3, Zenon
    <3> HIDE DEF h, l
    <3> QED
      BY <3>1, <3>2, Zenon
  <2>5. l \in Nat
    OBVIOUS
  <2> HIDE DEF h, l
  <2>6. \E f : f = [s \in SUBSET (1..l) |->
                IF s = {} THEN line ELSE Enqueue(f[s \ {Max(s)}], frames[Max(s)])]
    BY <2>4, Zenon
  <2>7. l \in T
    BY <2>5, <2>6, Zenon
  <2> QED
    BY <2>7 DEF l
<1>3. n \in T
  <2> HIDE DEF T
  <2> QED
    BY <1>1, <1>2, Induction
<1>4. PICK h : /\ h = [s \in SUBSET (DOMAIN frames) |->
                          IF s = {} THEN line ELSE Enqueue(h[s \ {Max(s)}], frames[Max(s)])]
               /\ FoldLeft(Enqueue, line, frames) = h[DOMAIN frames]
  <2>1. PICK g : g = [s \in SUBSET (DOMAIN frames) |->
                         IF s = {} THEN line ELSE Enqueue(g[s \ {Max(s)}], frames[Max(s)])]
    BY <1>3, Zenon
  <2> QED
    BY <2>1 DEF FoldLeft, MapThenFoldSet
<1> DEFINE g == [k \in 0..n |-> h[1..k]]
<1>5. g[0] = line
  <2>1. 1..0 = {} /\ 0 \in 0..n /\ {} \in SUBSET (DOMAIN frames)
    OBVIOUS
  <2>2. h[{}] = line
    BY <1>4, <2>1, Zenon
  <2> QED
    BY <2>1, <2>2
<1>6. ASSUME NEW k \in 0..(n - 1) PROVE g[k + 1] = Enqueue(g[k], frames[k + 1])
  <2> DEFINE s == 1..(k + 1)
  <2>1. /\ k \in 0..n /\ k + 1 \in 0..n /\ k \in Nat /\ k + 1 \in s /\ s \subseteq 1..(k + 1)
        /\ s \in SUBSET (DOMAIN frames) /\ s # {} /\ s \ {k + 1} = 1..k
    <3>1. k \in Nat /\ k \in 0..n /\ k + 1 \in 0..n /\ k + 1 <= Len(frames)
      OBVIOUS
    <3>2. 1..(k + 1) \subseteq 1..Len(frames)
      BY <3>1
    <3>3. (1..(k + 1)) \ {k + 1} = 1..k
      BY <3>1
    <3>4. k + 1 \in 1..(k + 1)
      BY <3>1
    <3> QED
      BY <3>1, <3>2, <3>3, <3>4
  <2>2. Max(s) = k + 1
    <3> HIDE DEF s
    <3> QED
      BY <2>1, LargestIs
  <2>3. g[k + 1] = h[s] /\ g[k] = h[1..k]
    BY <2>1
  <2> HIDE DEF s, g
  <2>4. h[s] = Enqueue(h[s \ {Max(s)}], frames[Max(s)])
    BY <1>4, <2>1, Zenon
  <2> QED
    BY <2>1, <2>2, <2>3, <2>4, Zenon
<1>7. FoldLeft(Enqueue, line, frames) = g[n]
  BY <1>4
<1> HIDE DEF g
<1> QED
  BY <1>5, <1>6, <1>7

LEMMA FoldingForward ==
    ASSUME NEW line, NEW chunks, Len(chunks) \in Nat, DOMAIN chunks = 1..Len(chunks)
    PROVE  \E g : /\ g[0] = line
                  /\ \A k \in 0..(Len(chunks) - 1) : g[k + 1] = Forward(g[k], chunks[k + 1])
                  /\ FoldLeft(Forward, line, chunks) = g[Len(chunks)]
<1> DEFINE n == Len(chunks)
           T == {k \in Nat : \E g : g = [s \in SUBSET (1..k) |->
                     IF s = {} THEN line ELSE Forward(g[s \ {Max(s)}], chunks[Max(s)])]}
<1>1. 0 \in T
  <2> DEFINE g == [s \in SUBSET (1..0) |-> line]
  <2>1. g = [s \in SUBSET (1..0) |->
                IF s = {} THEN line ELSE Forward(g[s \ {Max(s)}], chunks[Max(s)])]
    <3>1. \A s \in SUBSET (1..0) : s = {}
      OBVIOUS
    <3> QED
      BY <3>1, Zenon
  <2>2. \E h : h = [s \in SUBSET (1..0) |->
                IF s = {} THEN line ELSE Forward(h[s \ {Max(s)}], chunks[Max(s)])]
    <3> HIDE DEF g
    <3> QED
      BY <2>1, Zenon
  <2>3. 0 \in Nat
    OBVIOUS
  <2> QED
    BY <2>2, <2>3, Zenon
<1>2. ASSUME NEW k \in Nat, k \in T PROVE k + 1 \in T
  <2> DEFINE l == k + 1
  <2>1. PICK g : g = [s \in SUBSET (1..k) |->
                     IF s = {} THEN line ELSE Forward(g[s \ {Max(s)}], chunks[Max(s)])]
    BY <1>2, Zenon
  <2> DEFINE h == [s \in SUBSET (1..l) |-> IF l \in s THEN Forward(g[s \ {l}], chunks[l])
                                                      ELSE g[s]]
  <2>2. ASSUME NEW s \in SUBSET (1..l), l \in s
        PROVE  h[s] = IF s = {} THEN line ELSE Forward(h[s \ {Max(s)}], chunks[Max(s)])
    <3>1. s # {} /\ Max(s) = l
      BY <2>2, LargestIs
    <3>2. l \notin s \ {l} /\ s \ {l} \in SUBSET (1..l)
      OBVIOUS
    <3>3. h[s \ {l}] = g[s \ {l}]
      BY <3>2, Zenon
    <3>4. h[s] = Forward(g[s \ {l}], chunks[l])
      BY <2>2, Zenon
    <3> HIDE DEF h, l
    <3> QED
      BY <3>1, <3>3, <3>4, Zenon
  <2>3. ASSUME NEW s \in SUBSET (1..l), l \notin s
        PROVE  h[s] = IF s = {} THEN line ELSE Forward(h[s \ {Max(s)}], chunks[Max(s)])
    <3>1. s \in SUBSET (1..k)
      BY <2>3
    <3>2. s \ {Max(s)} \in SUBSET (1..l) /\ l \notin s \ {Max(s)}
      BY <2>3, Zenon
    <3>3. h[s] = g[s]
      BY <2>3, Zenon
    <3>4. h[s \ {Max(s)}] = g[s \ {Max(s)}]
      BY <3>2, Zenon
    <3> HIDE DEF h, l
    <3>5. g[s] = IF s = {} THEN line ELSE Forward(g[s \ {Max(s)}], chunks[Max(s)])
      BY <2>1, <3>1, Zenon
    <3> QED
      BY <3>3, <3>4, <3>5, Zenon
  <2>4. h = [s \in SUBSET (1..l) |->
                IF s = {} THEN line ELSE Forward(h[s \ {Max(s)}], chunks[Max(s)])]
    <3>1. DOMAIN h = SUBSET (1..l) /\ h = [s \in SUBSET (1..l) |-> h[s]]
      OBVIOUS
    <3>2. \A s \in SUBSET (1..l) :
              h[s] = IF s = {} THEN line ELSE Forward(h[s \ {Max(s)}], chunks[Max(s)])
      BY <2>2, <2>3, Zenon
    <3> HIDE DEF h, l
    <3> QED
      BY <3>1, <3>2, Zenon
  <2>5. l \in Nat
    OBVIOUS
  <2> HIDE DEF h, l
  <2>6. \E f : f = [s \in SUBSET (1..l) |->
                IF s = {} THEN line ELSE Forward(f[s \ {Max(s)}], chunks[Max(s)])]
    BY <2>4, Zenon
  <2>7. l \in T
    BY <2>5, <2>6, Zenon
  <2> QED
    BY <2>7 DEF l
<1>3. n \in T
  <2> HIDE DEF T
  <2> QED
    BY <1>1, <1>2, Induction
<1>4. PICK h : /\ h = [s \in SUBSET (DOMAIN chunks) |->
                          IF s = {} THEN line ELSE Forward(h[s \ {Max(s)}], chunks[Max(s)])]
               /\ FoldLeft(Forward, line, chunks) = h[DOMAIN chunks]
  <2>1. PICK g : g = [s \in SUBSET (DOMAIN chunks) |->
                         IF s = {} THEN line ELSE Forward(g[s \ {Max(s)}], chunks[Max(s)])]
    BY <1>3, Zenon
  <2> QED
    BY <2>1 DEF FoldLeft, MapThenFoldSet
<1> DEFINE g == [k \in 0..n |-> h[1..k]]
<1>5. g[0] = line
  <2>1. 1..0 = {} /\ 0 \in 0..n /\ {} \in SUBSET (DOMAIN chunks)
    OBVIOUS
  <2>2. h[{}] = line
    BY <1>4, <2>1, Zenon
  <2> QED
    BY <2>1, <2>2
<1>6. ASSUME NEW k \in 0..(n - 1) PROVE g[k + 1] = Forward(g[k], chunks[k + 1])
  <2> DEFINE s == 1..(k + 1)
  <2>1. /\ k \in 0..n /\ k + 1 \in 0..n /\ k \in Nat /\ k + 1 \in s /\ s \subseteq 1..(k + 1)
        /\ s \in SUBSET (DOMAIN chunks) /\ s # {} /\ s \ {k + 1} = 1..k
    <3>1. k \in Nat /\ k \in 0..n /\ k + 1 \in 0..n /\ k + 1 <= Len(chunks)
      OBVIOUS
    <3>2. 1..(k + 1) \subseteq 1..Len(chunks)
      BY <3>1
    <3>3. (1..(k + 1)) \ {k + 1} = 1..k
      BY <3>1
    <3>4. k + 1 \in 1..(k + 1)
      BY <3>1
    <3> QED
      BY <3>1, <3>2, <3>3, <3>4
  <2>2. Max(s) = k + 1
    <3> HIDE DEF s
    <3> QED
      BY <2>1, LargestIs
  <2>3. g[k + 1] = h[s] /\ g[k] = h[1..k]
    BY <2>1
  <2> HIDE DEF s, g
  <2>4. h[s] = Forward(h[s \ {Max(s)}], chunks[Max(s)])
    BY <1>4, <2>1, Zenon
  <2> QED
    BY <2>1, <2>2, <2>3, <2>4, Zenon
<1>7. FoldLeft(Forward, line, chunks) = g[n]
  BY <1>4
<1> HIDE DEF g
<1> QED
  BY <1>5, <1>6, <1>7

-----------------------------------------------------------------------------
(* One frame. *)

Frame == Seq(Sample) \ {<< >>}

Lines == [upsampler : [ratio : {ToAgent}, history : Seq(Int), inBase : Int, outIndex : Nat],
          pending : Seq(Sample), queue : Seq(Frame), capturing : Seq(Sample),
          forwarded : Seq(Int), lost : SUBSET Sample]

LEMMA QueueIsFrames == Seq(Frame) \subseteq Seq(Seq(Sample))
<1>1. Frame \subseteq Seq(Sample)
  BY DEF Frame
<1>2. ASSUME NEW q \in Seq(Frame) PROVE q \in Seq(Seq(Sample))
  BY <1>1, SeqMonotonic
<1> QED
  BY <1>2

\* Either the frame is captured, or it waits, or it waits in the place of the
\* oldest.
LEMMA EnqueueIs ==
    ASSUME NEW line \in Lines, NEW frame \in Frame, Len(line.queue) <= Backlog,
           line.queue # << >> => line.capturing # << >>
    PROVE  LET next == Enqueue(line, frame)
           IN  /\ next \in Lines
               /\ next.upsampler = line.upsampler
               /\ next.pending = line.pending
               /\ next.forwarded = line.forwarded
               /\ \/ /\ line.capturing = << >> /\ line.queue = << >>
                     /\ next.capturing = frame /\ next.queue = << >>
                     /\ next.lost = line.lost
                  \/ /\ line.capturing # << >> /\ Len(line.queue) < Backlog
                     /\ next.capturing = line.capturing
                     /\ next.queue = Append(line.queue, frame)
                     /\ next.lost = line.lost
                  \/ /\ line.capturing # << >> /\ Len(line.queue) = Backlog
                     /\ line.queue # << >>
                     /\ next.capturing = line.capturing
                     /\ next.queue = Append(Tail(line.queue), frame)
                     /\ next.lost = line.lost \cup ToSet(Head(line.queue))
<1> DEFINE next    == Enqueue(line, frame)
           q       == line.queue
           waiting == Append(q, frame)
           kept    == Latest(waiting, Backlog)
           dropped == IF kept = waiting THEN {} ELSE ToSet(Head(waiting))
<1>1. /\ q \in Seq(Frame) /\ waiting \in Seq(Frame) /\ Len(waiting) = Len(q) + 1
      /\ Len(q) \in Nat /\ Backlog \in Nat \ {0} /\ waiting # << >>
  <2>1. q \in Seq(Frame)
    BY DEF Lines
  <2> HIDE DEF q
  <2> QED
    BY <2>1, AppendProperties, AudioAssumption
<1>2. next = IF line.capturing = << >>
               THEN [line EXCEPT !.capturing = Head(kept), !.queue = Tail(kept),
                                 !.lost = @ \cup dropped]
               ELSE [line EXCEPT !.queue = kept, !.lost = @ \cup dropped]
  BY Zenon DEF Enqueue
<1>3. /\ kept \in Seq(Frame)
      /\ Len(waiting) <= Backlog => kept = waiting
      /\ Len(waiting) = Backlog + 1 => kept = Tail(waiting) /\ kept # waiting
  <2> HIDE DEF waiting
  <2> QED
    BY <1>1, LatestIs
<1>4. dropped \in SUBSET Sample
  <2>1. Head(waiting) \in Seq(Sample)
    <3> HIDE DEF waiting
    <3> QED
      BY <1>1, HeadTailProperties DEF Frame
  <2>2. ToSet(Head(waiting)) \subseteq Sample
    BY <2>1, InSeq
  <2> QED
    BY <2>2
<1>5. CASE line.capturing = << >>
  <2>1. q = << >>
    BY <1>5
  <2>2. waiting = <<frame>> /\ Len(waiting) <= Backlog
    <3>1. Len(q) = 0
      BY <2>1, EmptySeq
    <3> QED
      BY <1>1, <2>1, <3>1
  <2>3. kept = <<frame>> /\ dropped = {} /\ Head(kept) = frame /\ Tail(kept) = << >>
    <3>1. kept = waiting
      BY <1>3, <2>2
    <3>2. dropped = {}
      BY <3>1, Zenon
    <3>3. Head(<<frame>>) = frame /\ Tail(<<frame>>) = << >>
      OBVIOUS
    <3> HIDE DEF kept, waiting, q, dropped
    <3> QED
      BY <2>2, <3>1, <3>2, <3>3, Zenon
  <2> HIDE DEF kept, dropped, q
  <2>4. next = [line EXCEPT !.capturing = frame, !.queue = << >>,
                            !.lost = line.lost \cup {}]
    BY <1>2, <1>5, <2>3
  <2> HIDE DEF next
  <2>5. << >> \in Seq(Frame) /\ frame \in Seq(Sample)
    BY EmptySeq DEF Frame
  <2> QED
    BY <1>5, <2>1, <2>4, <2>5 DEF Lines, next, q
<1>6. CASE line.capturing # << >> /\ Len(q) < Backlog
  <2>1. kept = waiting /\ dropped = {}
    BY <1>1, <1>3, <1>6
  <2> HIDE DEF kept, dropped, waiting, q
  <2>2. next = [line EXCEPT !.queue = waiting, !.lost = line.lost \cup {}]
    BY <1>2, <1>6, <2>1
  <2> HIDE DEF next
  <2> QED
    BY <1>1, <1>6, <2>2 DEF Lines, next, q, waiting
<1>7. CASE line.capturing # << >> /\ Len(q) = Backlog
  <2>1. q # << >>
    BY <1>1, <1>7, EmptySeq
  <2>2. Head(waiting) = Head(q) /\ Tail(waiting) = Append(Tail(q), frame)
    <3> HIDE DEF q
    <3> QED
      BY <1>1, <2>1, HeadTailAppend
  <2>3. kept = Append(Tail(q), frame) /\ dropped = ToSet(Head(q))
    <3>1. kept = Tail(waiting) /\ kept # waiting
      BY <1>1, <1>3, <1>7
    <3>2. dropped = ToSet(Head(waiting))
      BY <3>1, Zenon
    <3> HIDE DEF kept, waiting, q, dropped
    <3> QED
      BY <2>2, <3>1, <3>2, Zenon
  <2> HIDE DEF kept, dropped, waiting, q
  <2>4. next = [line EXCEPT !.queue = kept, !.lost = line.lost \cup dropped]
    BY <1>2, <1>7
  <2> HIDE DEF next
  <2> QED
    BY <1>3, <1>4, <1>7, <2>1, <2>3, <2>4 DEF Lines, next, q
<1> QED
  BY <1>1, <1>5, <1>6, <1>7

LEMMA FlattenHead ==
    ASSUME NEW S, NEW seqs \in Seq(Seq(S)), seqs # << >>
    PROVE  /\ Head(seqs) \in Seq(S) /\ Tail(seqs) \in Seq(Seq(S))
           /\ FlattenSeq(seqs) = Head(seqs) \o FlattenSeq(Tail(seqs))
<1> DEFINE Q == Seq(S)
           h == Head(seqs)
           r == Tail(seqs)
<1>1. h \in Q /\ r \in Seq(Q) /\ <<h>> \in Seq(Q) /\ seqs = <<h>> \o r /\ << >> \in Seq(Q)
  <2>1. seqs \in Seq(Q)
    OBVIOUS
  <2> HIDE DEF Q
  <2> QED
    BY <2>1
<1>2. Append(<< >>, h) = <<h>>
  OBVIOUS
<1> HIDE DEF h, r
<1>3. FlattenSeq(<<h>>) = h
  <2>1. FlattenSeq(Append(<< >>, h)) = FlattenSeq(<< >>) \o h
    BY <1>1, FlattenAppend
  <2> QED
    BY <1>1, <1>2, <2>1, FlattenEmpty, ConcatEmptySeq
<1>4. FlattenSeq(<<h>> \o r) = FlattenSeq(<<h>>) \o FlattenSeq(r)
  BY <1>1, FlattenConcat
<1> QED
  BY <1>1, <1>3, <1>4 DEF h, r

\* What was taken, what is captured and what waits are what came in, without
\* what was lost; and that is older than what waits.
Framed(got, line, whole) ==
    /\ line \in Lines /\ got \in Seq(Sample) /\ whole \in Seq(Sample)
    /\ Len(line.queue) <= Backlog
    /\ line.queue # << >> => line.capturing # << >>
    /\ (got \o line.capturing) \o FlattenSeq(line.queue) = Without(whole, line.lost)
    /\ \A x \in line.lost : x.n < Len(whole)
    /\ Before(line.lost, ToSet(FlattenSeq(line.queue)))

LEMMA EnqueueKeeps ==
    ASSUME NEW got, NEW line, NEW whole, Framed(got, line, whole),
           NEW frame \in Frame, Numbered(whole \o frame)
    PROVE  /\ Framed(got, Enqueue(line, frame), whole \o frame)
           /\ Enqueue(line, frame).upsampler = line.upsampler
           /\ Enqueue(line, frame).pending = line.pending
           /\ Enqueue(line, frame).forwarded = line.forwarded
<1> DEFINE next == Enqueue(line, frame)
           g    == got \o line.capturing
           q    == line.queue
           gone == line.lost
           more == whole \o frame
<1>1. /\ line \in Lines /\ Len(q) <= Backlog /\ (q # << >> => line.capturing # << >>)
      /\ got \in Seq(Sample) /\ whole \in Seq(Sample) /\ frame \in Seq(Sample)
      /\ line.capturing \in Seq(Sample) /\ gone \subseteq Sample
      /\ q \in Seq(Frame) /\ q \in Seq(Seq(Sample))
      /\ g \o FlattenSeq(q) = Without(whole, gone)
      /\ \A x \in gone : x.n < Len(whole)
      /\ Before(gone, ToSet(FlattenSeq(q)))
  BY QueueIsFrames DEF Framed, Lines, Frame
<1>2. g \in Seq(Sample) /\ FlattenSeq(q) \in Seq(Sample)
  BY <1>1, FlattenType, Assoc
<1>3. /\ \A x \in ToSet(whole) : x.n < Len(whole)
      /\ \A x \in ToSet(frame) : Len(whole) <= x.n
      /\ Numbered(whole) /\ Rising(more)
  BY <1>1, NumberedConcat
<1>4. /\ more \in Seq(Sample) /\ Len(more) = Len(whole) + Len(frame)
      /\ Len(whole) \in Nat /\ Len(frame) \in Nat
  BY <1>1, ConcatProperties
<1>5. ToSet(frame) \subseteq Sample /\ ToSet(whole) \subseteq Sample
  BY <1>1, InSeq
<1>6. ASSUME NEW out, out \subseteq Sample, \A x \in out : x.n < Len(whole)
      PROVE  /\ Without(more, out) = Without(whole, out) \o frame
             /\ Before(out, ToSet(frame))
  <2>1. \A x \in out, y \in ToSet(frame) : x.n < y.n
    BY <1>3, <1>4, <1>5, <1>6, SampleNumbers
  <2>2. ToSet(frame) \cap out = {}
    <3>1. ASSUME NEW x \in out, x \in ToSet(frame) PROVE FALSE
      <4>1. x.n \in Int /\ x.n < x.n
        BY <1>6, <2>1, <3>1, SampleNumbers
      <4> QED
        BY <4>1
    <3> QED
      BY <3>1
  <2>3. Without(frame, out) = frame
    BY <1>1, <2>2, WithoutNone
  <2>4. Without(more, out) = Without(whole, out) \o Without(frame, out)
    BY <1>1, WithoutConcat
  <2> QED
    BY <2>1, <2>3, <2>4 DEF Before
<1>7. \A x \in gone : x.n < Len(more)
  <2>1. \A x \in gone : x.n \in Int /\ x.n < Len(whole)
    BY <1>1, SampleNumbers
  <2> HIDE DEF gone, more
  <2> QED
    BY <1>4, <2>1
<1>8. Without(more, gone) = (g \o FlattenSeq(q)) \o frame /\ Before(gone, ToSet(frame))
  BY <1>1, <1>6
<1>9. /\ next \in Lines
      /\ next.upsampler = line.upsampler
      /\ next.pending = line.pending
      /\ next.forwarded = line.forwarded
      /\ \/ /\ line.capturing = << >> /\ q = << >>
            /\ next.capturing = frame /\ next.queue = << >> /\ next.lost = gone
         \/ /\ line.capturing # << >> /\ Len(q) < Backlog
            /\ next.capturing = line.capturing
            /\ next.queue = Append(q, frame) /\ next.lost = gone
         \/ /\ line.capturing # << >> /\ Len(q) = Backlog /\ q # << >>
            /\ next.capturing = line.capturing
            /\ next.queue = Append(Tail(q), frame)
            /\ next.lost = gone \cup ToSet(Head(q))
  <2> HIDE DEF Enqueue
  <2> QED
    BY <1>1, EnqueueIs
<1> HIDE DEF next, gone, q, more, g
<1>10. \A a, b, c \in Seq(Sample) : a \o (b \o c) = (a \o b) \o c
  BY SamplesAssoc
<1>11. \A a, b \in Seq(Sample) : ToSet(a \o b) = ToSet(a) \cup ToSet(b)
  BY InConcat
<1>12. CASE /\ line.capturing = << >> /\ q = << >>
            /\ next.capturing = frame /\ next.queue = << >> /\ next.lost = gone
  <2>1. g = got /\ FlattenSeq(q) = << >> /\ g \o << >> = g
    BY <1>1, <1>12, FlattenEmpty, ConcatEmptySeq DEF g
  <2>2. (got \o frame) \o << >> = got \o frame
    <3>1. got \o frame \in Seq(Sample)
      BY <1>1, Assoc
    <3> QED
      BY <3>1, ConcatEmptySeq
  <2>3. (got \o next.capturing) \o FlattenSeq(next.queue) = Without(more, next.lost)
    BY <1>8, <1>12, <2>1, <2>2, FlattenEmpty
  <2>4. Before(next.lost, ToSet(FlattenSeq(next.queue)))
    BY <1>12, FlattenEmpty, InEmpty DEF Before
  <2>5. Len(next.queue) <= Backlog
    BY <1>12, AudioAssumption, EmptySeq
  <2>6. Framed(got, next, more)
    BY <1>1, <1>4, <1>7, <1>9, <1>12, <2>3, <2>4, <2>5 DEF Framed
  <2> QED
    BY <1>9, <2>6 DEF next, more
<1>13. CASE /\ line.capturing # << >> /\ Len(q) < Backlog
            /\ next.capturing = line.capturing
            /\ next.queue = Append(q, frame) /\ next.lost = gone
  <2>1. FlattenSeq(Append(q, frame)) = FlattenSeq(q) \o frame
    BY <1>1, FlattenAppend
  <2>2. (got \o next.capturing) \o FlattenSeq(next.queue) = Without(more, next.lost)
    <3>1. g \o (FlattenSeq(q) \o frame) = (g \o FlattenSeq(q)) \o frame
      BY <1>1, <1>2, <1>10
    <3> QED
      BY <1>8, <1>13, <2>1, <3>1 DEF g
  <2>3. ToSet(FlattenSeq(q) \o frame) = ToSet(FlattenSeq(q)) \cup ToSet(frame)
    BY <1>1, <1>2, InConcat
  <2>4. Before(next.lost, ToSet(FlattenSeq(next.queue)))
    BY <1>1, <1>8, <1>13, <2>1, <2>3 DEF Before
  <2>5. Len(next.queue) <= Backlog
    BY <1>1, <1>13, AppendProperties, AudioAssumption
  <2>6. Framed(got, next, more)
    BY <1>1, <1>4, <1>7, <1>9, <1>13, <2>2, <2>4, <2>5 DEF Framed
  <2> QED
    BY <1>9, <2>6 DEF next, more
<1>14. CASE /\ line.capturing # << >> /\ Len(q) = Backlog /\ q # << >>
            /\ next.capturing = line.capturing
            /\ next.queue = Append(Tail(q), frame)
            /\ next.lost = gone \cup ToSet(Head(q))
  <2> DEFINE h == Head(q)
             r == Tail(q)
             f == FlattenSeq(r)
             H == ToSet(h)
  <2>1. /\ h \in Seq(Sample) /\ r \in Seq(Seq(Sample)) /\ FlattenSeq(q) = h \o f
        /\ f \in Seq(Sample) /\ h \o f \in Seq(Sample)
    BY <1>1, <1>14, FlattenHead, FlattenType, Assoc
  <2>2. Tail(q) \in Seq(Frame) /\ Len(Tail(q)) = Len(q) - 1
    BY <1>1, <1>14, HeadTailProperties
  <2> HIDE DEF h, r, f, H
  <2>3. Rising(g \o (h \o f))
    <3>1. Rising(whole)
      BY <1>1, <1>3, RisingConcat DEF more
    <3> QED
      BY <1>1, <2>1, <3>1, RisingWithout
  <2>4. /\ Before(ToSet(g), ToSet(h \o f)) /\ Before(ToSet(h), ToSet(f))
    BY <1>2, <2>1, <2>3, RisingConcat
  <2>5. ToSet(h \o f) = H \cup ToSet(f)
    BY <2>1, InConcat DEF H
  <2>6. /\ H \subseteq Sample /\ ToSet(f) \subseteq Sample /\ ToSet(g) \subseteq Sample
    BY <1>2, <2>1, InSeq DEF H
  <2>7. ToSet(g) \cap H = {} /\ ToSet(f) \cap H = {}
    <3>1. ASSUME NEW x \in H, x \in ToSet(g) \cup ToSet(f) PROVE FALSE
      <4>1. x.n < x.n
        BY <2>4, <2>5, <3>1 DEF Before, H
      <4>2. x.n \in Int
        BY <2>6, <3>1, SampleNumbers
      <4> QED
        BY <4>1, <4>2
    <3> QED
      BY <3>1
  <2>8. Without(g \o (h \o f), H) = g \o f
    <3>1. Without(g \o (h \o f), H) = Without(g, H) \o Without(h \o f, H)
      BY <1>2, <2>1, WithoutConcat
    <3>2. Without(h \o f, H) = Without(h, H) \o Without(f, H)
      BY <2>1, WithoutConcat
    <3>3. Without(g, H) = g /\ Without(f, H) = f
      BY <1>2, <2>1, <2>7, WithoutNone
    <3>4. Without(h, H) = << >>
      BY <2>1, WithoutAll DEF H
    <3>5. << >> \o f = f
      BY <2>1, ConcatEmptySeq
    <3> QED
      BY <3>1, <3>2, <3>3, <3>4, <3>5
  <2>9. Without(whole, gone \cup H) = g \o f
    <3>1. Without(whole, gone \cup H) = Without(Without(whole, gone), H)
      BY <1>1, WithoutBoth
    <3> QED
      BY <1>1, <2>1, <2>8, <3>1
  <2>10. H \subseteq ToSet(whole)
    <3>1. ToSet(Without(whole, gone)) \subseteq ToSet(whole)
      BY <1>1, InWithout
    <3>2. ToSet(g \o (h \o f)) = ToSet(g) \cup ToSet(h \o f)
      BY <1>2, <2>1, <1>11
    <3> QED
      BY <1>1, <2>1, <2>5, <3>1, <3>2
  <2>11. gone \cup H \subseteq Sample /\ \A x \in gone \cup H : x.n < Len(whole)
    BY <1>1, <1>3, <2>6, <2>10
  <2>12. /\ Without(more, gone \cup H) = (g \o f) \o frame
         /\ Before(gone \cup H, ToSet(frame))
    BY <1>6, <2>9, <2>11
  <2>13. FlattenSeq(Append(r, frame)) = f \o frame
    BY <1>1, <2>1, FlattenAppend DEF f
  <2>14. next.queue = Append(r, frame) /\ next.lost = gone \cup H
    BY <1>14 DEF r, h, H
  <2>15. (got \o next.capturing) \o FlattenSeq(next.queue) = Without(more, next.lost)
    <3>1. g \o (f \o frame) = (g \o f) \o frame
      BY <1>1, <1>2, <2>1, <1>10, SMTT(30)
    <3> QED
      BY <1>14, <2>12, <2>13, <2>14, <3>1 DEF g
  <2>16. ToSet(f \o frame) = ToSet(f) \cup ToSet(frame)
    BY <1>1, <2>1, InConcat
  <2>17. Before(gone \cup H, ToSet(f))
    BY <1>1, <2>1, <2>4, <2>5 DEF Before, H
  <2>18. Before(next.lost, ToSet(FlattenSeq(next.queue)))
    BY <2>12, <2>13, <2>14, <2>16, <2>17 DEF Before
  <2>19. Len(next.queue) <= Backlog
    <3>1. Len(Append(Tail(q), frame)) = Len(Tail(q)) + 1
      BY <2>2, AppendProperties
    <3> QED
      BY <1>1, <1>14, <2>2, <3>1, AudioAssumption
  <2>20. \A x \in next.lost : x.n < Len(more)
    <3>1. \A x \in gone \cup H : x.n \in Int /\ x.n < Len(whole)
      BY <2>11, SampleNumbers
    <3> QED
      BY <1>4, <2>14, <3>1
  <2>21. Framed(got, next, more)
    BY <1>1, <1>4, <1>9, <1>14, <2>15, <2>18, <2>19, <2>20 DEF Framed
  <2> QED
    BY <1>9, <2>21 DEF next, more
<1> QED
  BY <1>9, <1>12, <1>13, <1>14

-----------------------------------------------------------------------------
(* A chunk, and the flush. *)

LEMMA Splits ==
    ASSUME NEW S, NEW s \in Seq(S), NEW e \in 0..Len(s)
    PROVE  /\ SubSeq(s, 1, e) \in Seq(S)
           /\ \E rest \in Seq(S) : s = SubSeq(s, 1, e) \o rest
<1>1. 1 \in 1..(Len(s) + 1) /\ e \in (1 - 1)..Len(s) /\ Len(s) \in e..Len(s)
  OBVIOUS
<1>2. SubSeq(s, 1, e) \o SubSeq(s, e + 1, Len(s)) = SubSeq(s, 1, Len(s))
  BY <1>1, ConcatAdjacentSubSeq
<1>3. SubSeq(s, e + 1, Len(s)) \in Seq(S)
  <2>1. \A i \in (e + 1)..Len(s) : s[i] \in S
    OBVIOUS
  <2>2. e + 1 \in Int /\ Len(s) \in Int
    OBVIOUS
  <2> QED
    BY <2>1, <2>2, SubSeqProperties
<1> QED
  BY <1>2, <1>3, SubSeqFull, Beginning

LEMMA CaptureKeeps ==
    ASSUME NEW got, NEW line, NEW whole, Framed(got, line, whole),
           NEW samples \in Seq(Sample), Numbered(whole \o (line.pending \o samples))
    PROVE  LET next == Capture(line, samples)
           IN  /\ \E w : /\ Framed(got, next, w)
                         /\ w \o next.pending = whole \o (line.pending \o samples)
               /\ Len(next.pending) < FrameSamples
               /\ next.upsampler = line.upsampler
               /\ next.forwarded = line.forwarded
<1> DEFINE next == Capture(line, samples)
           c    == line.pending \o samples
           F    == FramesIn(c, FrameSamples)
           n    == Len(F)
           Part(k) == FlattenSeq(SubSeq(F, 1, k))
           left == Leftover(c, FrameSamples)
<1>1. /\ line \in Lines /\ whole \in Seq(Sample) /\ line.pending \in Seq(Sample)
      /\ c \in Seq(Sample) /\ FrameSamples \in Nat \ {0}
  <2>1. line \in Lines /\ whole \in Seq(Sample)
    BY DEF Framed
  <2>2. line.pending \in Seq(Sample)
    BY <2>1 DEF Lines
  <2> QED
    BY <2>1, <2>2, Assoc, AudioAssumption
<1> HIDE DEF c
<1>2. /\ F \in Seq(Seq(Sample)) /\ n \in Nat /\ DOMAIN F = 1..n
      /\ \A i \in 1..n : Len(F[i]) = FrameSamples
      /\ left \in Seq(Sample) /\ Len(left) < FrameSamples
      /\ FlattenSeq(F) \o left = c
  <2>1. /\ F \in Seq(Seq(Sample)) /\ n = Len(c) \div FrameSamples
        /\ \A i \in 1..(Len(c) \div FrameSamples) : Len(F[i]) = FrameSamples
        /\ left \in Seq(Sample) /\ Len(left) < FrameSamples
        /\ FlattenSeq(F) \o left = c
    BY <1>1, Frames
  <2> HIDE DEF F, left
  <2> QED
    BY <2>1
<1>3. \A k \in 0..n : /\ Part(k) \in Seq(Sample)
                      /\ \E rest \in Seq(Sample) : c = Part(k) \o rest
  <2>1. \A k \in 0..(Len(c) \div FrameSamples) :
            k * FrameSamples \in 0..Len(c) /\ Part(k) = SubSeq(c, 1, k * FrameSamples)
    BY <1>1, Frames
  <2>2. n = Len(c) \div FrameSamples
    BY <1>1, Frames
  <2> SUFFICES ASSUME NEW k \in 0..n
               PROVE  /\ Part(k) \in Seq(Sample)
                      /\ \E rest \in Seq(Sample) : c = Part(k) \o rest
    OBVIOUS
  <2>3. k * FrameSamples \in 0..Len(c) /\ Part(k) = SubSeq(c, 1, k * FrameSamples)
    BY <2>1, <2>2
  <2> DEFINE e == k * FrameSamples
             p == Part(k)
  <2> HIDE DEF e, p
  <2>4. e \in 0..Len(c) /\ p = SubSeq(c, 1, e)
    BY <2>3 DEF e, p
  <2>5. /\ SubSeq(c, 1, e) \in Seq(Sample)
        /\ \E rest \in Seq(Sample) : c = SubSeq(c, 1, e) \o rest
    BY <1>1, <2>4, Splits
  <2>6. p \in Seq(Sample) /\ \E rest \in Seq(Sample) : c = p \o rest
    BY <2>4, <2>5
  <2> QED
    BY <2>6 DEF p
<1> HIDE DEF F, left, n
<1>4. ASSUME NEW k \in 0..(n - 1)
      PROVE  /\ F[k + 1] \in Frame
             /\ Part(k + 1) = Part(k) \o F[k + 1]
  <2>1. k + 1 \in 1..n /\ k \in 0..n /\ k \in 0..(Len(F) - 1)
    BY <1>2 DEF n
  <2>2. F[k + 1] \in Seq(Sample) /\ Len(F[k + 1]) = FrameSamples
    BY <1>2, <2>1 DEF n
  <2>3. F[k + 1] # << >>
    BY <1>1, <2>2, EmptySeq
  <2>4. SubSeq(F, 1, k + 1) = Append(SubSeq(F, 1, k), F[k + 1])
        /\ SubSeq(F, 1, k) \in Seq(Seq(Sample))
    BY <1>2, <2>1, Beginning DEF n
  <2>5. FlattenSeq(Append(SubSeq(F, 1, k), F[k + 1]))
            = FlattenSeq(SubSeq(F, 1, k)) \o F[k + 1]
    BY <2>2, <2>4, FlattenAppend
  <2> QED
    BY <2>2, <2>3, <2>4, <2>5 DEF Frame
<1>5. Part(0) = << >> /\ Part(n) = FlattenSeq(F)
  BY <1>2, Beginning, FlattenEmpty DEF n
<1>6. PICK g : /\ g[0] = line
               /\ \A k \in 0..(n - 1) : g[k + 1] = Enqueue(g[k], F[k + 1])
               /\ FoldLeft(Enqueue, line, F) = g[n]
  BY <1>2, FoldingEnqueue, ZenonT(40) DEF n
<1> HIDE DEF Part
<1> DEFINE T == {k \in Nat : k \in 0..n => /\ Framed(got, g[k], whole \o Part(k))
                                            /\ g[k].upsampler = line.upsampler
                                            /\ g[k].forwarded = line.forwarded}
<1>7. 0 \in T
  <2>1. whole \o << >> = whole
    BY <1>1, ConcatEmptySeq
  <2> QED
    BY <1>5, <1>6, <2>1
<1>8. ASSUME NEW k \in Nat, k \in T PROVE k + 1 \in T
  <2> SUFFICES ASSUME k + 1 \in 0..n
               PROVE  /\ Framed(got, g[k + 1], whole \o Part(k + 1))
                      /\ g[k + 1].upsampler = line.upsampler
                      /\ g[k + 1].forwarded = line.forwarded
    OBVIOUS
  <2> DEFINE f == F[k + 1]
             w == whole \o Part(k)
  <2>1. k \in 0..n /\ k \in 0..(n - 1) /\ k + 1 \in 0..n
    BY <1>2
  <2>2. /\ Framed(got, g[k], w)
        /\ g[k].upsampler = line.upsampler /\ g[k].forwarded = line.forwarded
    BY <1>8, <2>1
  <2>3. f \in Frame /\ f \in Seq(Sample) /\ Part(k + 1) = Part(k) \o f
    BY <1>4, <2>1 DEF Frame
  <2>4. g[k + 1] = Enqueue(g[k], f)
    BY <1>6, <2>1
  <2>5. \A a, b, d \in Seq(Sample) : a \o (b \o d) = (a \o b) \o d /\ a \o b \in Seq(Sample)
    BY SamplesAssoc
  <2> HIDE DEF f
  <2>6. whole \o Part(k + 1) = w \o f /\ w \o f \in Seq(Sample)
    <3>1. Part(k) \in Seq(Sample)
      BY <1>3, <2>1
    <3>2. whole \o (Part(k) \o f) = (whole \o Part(k)) \o f
      BY <1>1, <2>3, <2>5, <3>1, SMTT(30)
    <3>3. (whole \o Part(k)) \o f \in Seq(Sample)
      BY <1>1, <2>3, <2>5, <3>1
    <3> QED
      BY <2>3, <3>2, <3>3
  <2>7. Numbered(w \o f)
    <3>1. PICK rest \in Seq(Sample) : c = Part(k + 1) \o rest
      BY <1>3, <2>1
    <3>2. whole \o c = (whole \o Part(k + 1)) \o rest
      <4>1. Part(k + 1) \in Seq(Sample)
        BY <1>3, <2>1
      <4>2. whole \o (Part(k + 1) \o rest) = (whole \o Part(k + 1)) \o rest
        BY <1>1, <2>5, <4>1
      <4> QED
        BY <3>1, <4>2
    <3>3. Numbered(whole \o c)
      BY DEF c
    <3>4. Numbered((w \o f) \o rest)
      BY <2>6, <3>2, <3>3
    <3> HIDE DEF w
    <3> QED
      BY <2>6, <3>4, NumberedConcat
  <2> HIDE DEF w
  <2>8. /\ Framed(got, Enqueue(g[k], f), w \o f)
        /\ Enqueue(g[k], f).upsampler = g[k].upsampler
        /\ Enqueue(g[k], f).forwarded = g[k].forwarded
    BY <2>2, <2>3, <2>7, EnqueueKeeps
  <2> QED
    BY <2>2, <2>4, <2>6, <2>8
<1>9. n \in T
  <2> HIDE DEF T
  <2> QED
    BY <1>2, <1>7, <1>8, Induction
<1> DEFINE queued == g[n]
           w == whole \o Part(n)
<1>10. /\ Framed(got, queued, w)
       /\ queued.upsampler = line.upsampler /\ queued.forwarded = line.forwarded
  BY <1>2, <1>9
<1>11. next = [queued EXCEPT !.pending = left]
  BY <1>6 DEF Capture, c, F, left
<1>12. w \o left = whole \o c
  <2>1. Part(n) \in Seq(Sample)
    BY <1>2, <1>3
  <2>2. \A a, b, d \in Seq(Sample) : a \o (b \o d) = (a \o b) \o d
    BY SamplesAssoc
  <2>3. Part(n) \o left = c
    BY <1>2, <1>5
  <2>4. whole \o (Part(n) \o left) = (whole \o Part(n)) \o left
    BY <1>1, <1>2, <2>1, <2>2, SMTT(30)
  <2> QED
    BY <2>3, <2>4
<1> HIDE DEF queued, w, next
<1>13. /\ next \in Lines /\ next.pending = left
       /\ next.queue = queued.queue /\ next.capturing = queued.capturing
       /\ next.lost = queued.lost
       /\ next.upsampler = queued.upsampler /\ next.forwarded = queued.forwarded
  <2>1. queued \in Lines
    BY <1>10 DEF Framed
  <2> QED
    BY <1>2, <1>11, <2>1 DEF Lines
<1>14. Framed(got, next, w)
  BY <1>10, <1>13 DEF Framed
<1> QED
  BY <1>2, <1>10, <1>12, <1>13, <1>14 DEF next, c

\* What was taken, what is on its way and what was lost are what was forwarded,
\* resampled in one piece.
Carries(got, line) ==
    /\ Follows(line.upsampler, ToAgent, line.forwarded)
    /\ Len(line.pending) < FrameSamples
    /\ \E whole : /\ Framed(got, line, whole)
                  /\ whole \o line.pending = Resampled(ToAgent, line.forwarded)

LEMMA ForwardKeeps ==
    ASSUME NEW got, NEW line, Carries(got, line), NEW samples \in Seq(Int), roomOpen
    PROVE  /\ Carries(got, Forward(line, samples))
           /\ Forward(line, samples).forwarded = line.forwarded \o samples
<1> DEFINE r    == Process(line.upsampler, samples)
           more == line.forwarded \o samples
           l2   == [line EXCEPT !.upsampler = r.left, !.forwarded = more]
           out  == r.out
           next == Forward(line, samples)
<1>1. PICK whole : /\ Framed(got, line, whole)
                   /\ whole \o line.pending = Resampled(ToAgent, line.forwarded)
  BY DEF Carries
<1>2. /\ line \in Lines /\ whole \in Seq(Sample) /\ line.pending \in Seq(Sample)
      /\ line.forwarded \in Seq(Int) /\ more \in Seq(Int) /\ Followed(ToAgent)
  <2>1. line \in Lines /\ whole \in Seq(Sample)
    BY <1>1 DEF Framed
  <2>2. line.pending \in Seq(Sample) /\ line.forwarded \in Seq(Int)
    BY <2>1 DEF Lines
  <2> QED
    BY <2>1, <2>2, Assoc, AudioAssumption
<1>3. /\ Follows(r.left, ToAgent, more) /\ out \in Seq(Sample)
      /\ Resampled(ToAgent, more) = Resampled(ToAgent, line.forwarded) \o out
  <2> DEFINE up == line.upsampler
             fw == line.forwarded
  <2>1. Follows(up, ToAgent, fw) /\ fw \in Seq(Int)
    BY <1>2 DEF Carries
  <2> HIDE DEF up, fw
  <2>2. /\ Follows(Process(up, samples).left, ToAgent, fw \o samples)
        /\ Process(up, samples).out \in Seq(Sample)
        /\ Resampled(ToAgent, fw \o samples)
               = Resampled(ToAgent, fw) \o Process(up, samples).out
    BY <1>2, <2>1, Processed
  <2> QED
    BY <2>2 DEF up, fw
<1>4. next = Capture(l2, out)
  BY DEF Forward
<1> HIDE DEF r, out, more, next
<1>5. /\ l2 \in Lines /\ l2.upsampler = r.left /\ l2.forwarded = more
      /\ l2.pending = line.pending /\ l2.queue = line.queue
      /\ l2.capturing = line.capturing /\ l2.lost = line.lost
  <2>1. r.left \in [ratio : {ToAgent}, history : Seq(Int), inBase : Int, outIndex : Nat]
    BY <1>3 DEF Follows
  <2> QED
    BY <1>2, <2>1 DEF Lines
<1> HIDE DEF l2
<1>6. Framed(got, l2, whole)
  BY <1>1, <1>5 DEF Framed
<1>7. whole \o (l2.pending \o out) = Resampled(ToAgent, more)
  <2>1. \A a, b, d \in Seq(Sample) : a \o (b \o d) = (a \o b) \o d
    BY SamplesAssoc
  <2>2. whole \o (line.pending \o out) = (whole \o line.pending) \o out
    BY <1>2, <1>3, <2>1
  <2> QED
    BY <1>1, <1>3, <1>5, <2>2
<1>8. Numbered(whole \o (l2.pending \o out))
  BY <1>2, <1>7, ResampledNumbered
<1>9. /\ \E w : Framed(got, next, w) /\ w \o next.pending = Resampled(ToAgent, more)
      /\ Len(next.pending) < FrameSamples
      /\ next.upsampler = r.left /\ next.forwarded = more
  <2>1. /\ \E w : /\ Framed(got, Capture(l2, out), w)
                  /\ w \o Capture(l2, out).pending = whole \o (l2.pending \o out)
        /\ Len(Capture(l2, out).pending) < FrameSamples
        /\ Capture(l2, out).upsampler = l2.upsampler
        /\ Capture(l2, out).forwarded = l2.forwarded
    BY <1>3, <1>6, <1>8, CaptureKeeps
  <2> QED
    BY <1>4, <1>5, <1>7, <2>1
<1>10. Carries(got, next)
  BY <1>3, <1>9 DEF Carries
<1> QED
  BY <1>9, <1>10 DEF next, more

LEMMA FlushKeeps ==
    ASSUME NEW got, NEW line, Carries(got, line), NEW chunks \in Seq(Seq(Int)), roomOpen
    PROVE  /\ Carries(got, FoldLeft(Forward, line, chunks))
           /\ FoldLeft(Forward, line, chunks).forwarded
                  = line.forwarded \o FlattenSeq(chunks)
<1> DEFINE n == Len(chunks)
           Part(k) == FlattenSeq(SubSeq(chunks, 1, k))
<1>1. n \in Nat /\ DOMAIN chunks = 1..n
  OBVIOUS
<1>2. PICK g : /\ g[0] = line
               /\ \A k \in 0..(n - 1) : g[k + 1] = Forward(g[k], chunks[k + 1])
               /\ FoldLeft(Forward, line, chunks) = g[n]
  BY <1>1, FoldingForward, ZenonT(40)
<1>3. line.forwarded \in Seq(Int)
  <2>1. line \in Lines
    BY DEF Carries, Framed
  <2> QED
    BY <2>1 DEF Lines
<1> DEFINE Kept(k) == Carries(got, g[k]) /\ g[k].forwarded = line.forwarded \o Part(k)
           T == {k \in Nat : k \in 0..n => Kept(k)}
<1>4. 0 \in T
  <2>1. Part(0) = << >>
    BY Beginning, FlattenEmpty
  <2>2. line.forwarded \o << >> = line.forwarded
    BY <1>3, ConcatEmptySeq
  <2> QED
    BY <1>2, <2>1, <2>2
<1> HIDE DEF Part, n, Kept
<1>5. ASSUME NEW k \in Nat, k \in T PROVE k + 1 \in T
  <2> SUFFICES ASSUME k + 1 \in 0..n PROVE Kept(k + 1)
    OBVIOUS
  <2> DEFINE c == chunks[k + 1]
             p == SubSeq(chunks, 1, k)
  <2>1. k \in 0..n /\ k \in 0..(n - 1) /\ k \in 0..(Len(chunks) - 1) /\ k + 1 \in 1..n
    BY <1>1 DEF n
  <2>2. Carries(got, g[k]) /\ g[k].forwarded = line.forwarded \o Part(k)
    BY <1>5, <2>1 DEF Kept
  <2>3. /\ c \in Seq(Int) /\ p \in Seq(Seq(Int)) /\ SubSeq(chunks, 1, k + 1) = Append(p, c)
    BY <2>1, Beginning
  <2>4. g[k + 1] = Forward(g[k], c)
    BY <1>2, <2>1
  <2> HIDE DEF c, p
  <2>5. /\ Part(k + 1) = FlattenSeq(p) \o c /\ FlattenSeq(p) \in Seq(Int)
    BY <2>3, FlattenAppend, FlattenType DEF Part
  <2>6. Part(k) = FlattenSeq(p)
    BY DEF p, Part
  <2>7. /\ Carries(got, Forward(g[k], c))
        /\ Forward(g[k], c).forwarded = g[k].forwarded \o c
    BY <2>2, <2>3, ForwardKeeps
  <2>8. (line.forwarded \o FlattenSeq(p)) \o c = line.forwarded \o (FlattenSeq(p) \o c)
    <3>1. \A a, b, d \in Seq(Int) : (a \o b) \o d = a \o (b \o d)
      BY IntsAssoc
    <3> QED
      BY <1>3, <2>3, <2>5, <3>1
  <2> QED
    BY <2>2, <2>4, <2>5, <2>6, <2>7, <2>8 DEF Kept
<1>6. n \in T
  <2> HIDE DEF T
  <2> QED
    BY <1>1, <1>4, <1>5, Induction
<1>7. Part(n) = FlattenSeq(chunks)
  BY Beginning DEF Part, n
<1> QED
  BY <1>1, <1>2, <1>6, <1>7 DEF Kept

-----------------------------------------------------------------------------
(* What the line says of the sound. *)

LEMMA SilenceResampled ==
    ASSUME NEW ratio, Followed(ratio)
    PROVE  Resampled(ratio, << >>) = << >>
<1>1. << >> \in Seq(Int) /\ Len(<< >>) = 0
  BY EmptySeq
<1>2. Reach(ratio, 0) = 0
  <2>1. Reach(ratio, 0) \in Nat /\ Reach(ratio, 0) <= 0 * ratio.up
    BY Reached
  <2>2. ratio.up \in Nat
    BY DEF Followed
  <2> QED
    BY <2>1, <2>2
<1>3. Resampled(ratio, << >>) \in Seq(Sample) /\ Len(Resampled(ratio, << >>)) = 0
  BY <1>1, <1>2, ResampledIs
<1> QED
  BY <1>3

LEMMA CarriesMeant ==
    ASSUME NEW got, NEW line, Carries(got, line)
    PROVE  /\ line \in Lines /\ got \in Seq(Sample)
           /\ (got \o line.capturing) \o (FlattenSeq(line.queue) \o line.pending)
                  = Without(Resampled(ToAgent, line.forwarded), line.lost)
           /\ Before(line.lost, ToSet(FlattenSeq(line.queue) \o line.pending))
<1> DEFINE g    == got \o line.capturing
           f    == FlattenSeq(line.queue)
           p    == line.pending
           gone == line.lost
<1>1. PICK whole : /\ Framed(got, line, whole)
                   /\ whole \o p = Resampled(ToAgent, line.forwarded)
  BY DEF Carries
<1>2. /\ line \in Lines /\ got \in Seq(Sample) /\ whole \in Seq(Sample)
      /\ g \o f = Without(whole, gone)
      /\ \A x \in gone : x.n < Len(whole)
      /\ Before(gone, ToSet(f))
  BY <1>1 DEF Framed
<1>3. /\ p \in Seq(Sample) /\ line.forwarded \in Seq(Int) /\ gone \subseteq Sample
      /\ line.capturing \in Seq(Sample) /\ line.queue \in Seq(Seq(Sample))
  BY <1>2, QueueIsFrames DEF Lines
<1>4. g \in Seq(Sample) /\ f \in Seq(Sample)
  BY <1>2, <1>3, FlattenType, Assoc
<1>5. \A x \in ToSet(p) : Len(whole) <= x.n /\ x.n \in Int
  <2>1. Numbered(whole \o p)
    BY <1>1, <1>3, ResampledNumbered, AudioAssumption
  <2>2. \A x \in ToSet(p) : x \in Sample
    BY <1>3, InSeq
  <2> QED
    BY <1>2, <1>3, <2>1, <2>2, NumberedConcat, SampleNumbers
<1>6. \A x \in gone : x.n < Len(whole) /\ x.n \in Int
  BY <1>2, <1>3, SampleNumbers
<1>7. Len(whole) \in Nat
  BY <1>2
<1> HIDE DEF g, f, p, gone
<1>8. \A x \in gone, y \in ToSet(p) : x.n < y.n
  BY <1>5, <1>6, <1>7
<1>9. ToSet(p) \cap gone = {}
  <2>1. ASSUME NEW x \in gone, x \in ToSet(p) PROVE FALSE
    BY <1>5, <1>6, <1>8, <2>1
  <2> QED
    BY <2>1
<1>10. Without(p, gone) = p
  BY <1>3, <1>9, WithoutNone
<1>11. Without(whole \o p, gone) = Without(whole, gone) \o Without(p, gone)
  <2>1. \A s, t \in Seq(Sample) :
            Without(s \o t, gone) = Without(s, gone) \o Without(t, gone)
    BY WithoutConcat
  <2> QED
    BY <1>2, <1>3, <2>1
<1>12. g \o (f \o p) = (g \o f) \o p
  <2>1. \A a, b, d \in Seq(Sample) : a \o (b \o d) = (a \o b) \o d
    BY SamplesAssoc
  <2> QED
    BY <1>3, <1>4, <2>1
<1>13. ToSet(f \o p) = ToSet(f) \cup ToSet(p)
  <2>1. \A a, b \in Seq(Sample) : ToSet(a \o b) = ToSet(a) \cup ToSet(b)
    BY InConcat
  <2> QED
    BY <1>3, <1>4, <2>1
<1>14. Before(gone, ToSet(f \o p))
  BY <1>2, <1>8, <1>13 DEF Before
<1>15. g \o (f \o p) = Without(Resampled(ToAgent, line.forwarded), gone)
  BY <1>1, <1>2, <1>10, <1>11, <1>12
<1> QED
  BY <1>2, <1>14, <1>15 DEF g, f, p, gone

LEMMA PrefixIs ==
    ASSUME NEW S
    PROVE  \A s, t \in Seq(S) : IsPrefix(s, s \o t)
<1> SUFFICES ASSUME NEW s \in Seq(S), NEW t \in Seq(S) PROVE IsPrefix(s, s \o t)
  OBVIOUS
<1> DEFINE c == s \o t
           m == Len(s)
<1>1. /\ c \in Seq(S) /\ Len(c) = m + Len(t) /\ m \in Nat /\ Len(t) \in Nat
      /\ \A i \in 1..m : c[i] = s[i]
  <2>1. /\ c \in Seq(S) /\ Len(c) = m + Len(t)
        /\ \A i \in 1..(m + Len(t)) : c[i] = IF i <= m THEN s[i] ELSE t[i - m]
    BY ConcatProperties
  <2> HIDE DEF c
  <2> QED
    BY <2>1
<1> HIDE DEF c
<1>2. m \in 0..Len(c)
  BY <1>1
<1>3. SubSeq(c, 1, m) \in Seq(S) /\ Len(SubSeq(c, 1, m)) = m
  BY <1>1, <1>2, Beginning
<1>4. \A i \in 1..m : SubSeq(c, 1, m)[i] = c[i]
  BY <1>1, <1>2
<1>5. SubSeq(c, 1, m) = s
  <2> HIDE DEF m
  <2>1. Len(s) = m
    BY DEF m
  <2> QED
    BY <1>1, <1>3, <1>4, <2>1, SeqEqual
<1>6. SubSeq(s, 1, m) = s
  BY SubSeqFull
<1>7. Len(s) <= Len(c)
  BY <1>1
<1> QED
  BY <1>5, <1>6, <1>7 DEF IsPrefix, c

-----------------------------------------------------------------------------
(* The samples that arrive. *)

\* The last that arrived, when that many have.
Recent(kept, arrived) == kept = Samples(arrived - Len(kept), Len(kept))

LEMMA SamplesType ==
    \A n \in Int, k \in Nat : /\ Samples(n, k) \in Seq(Int) /\ Len(Samples(n, k)) = k
                              /\ \A i \in 1..k : Samples(n, k)[i] = n + i
<1> SUFFICES ASSUME NEW n \in Int, NEW k \in Nat
             PROVE  /\ Samples(n, k) \in Seq(Int) /\ Len(Samples(n, k)) = k
                    /\ \A i \in 1..k : Samples(n, k)[i] = n + i
  OBVIOUS
<1>1. Samples(n, k) \in [1..k -> Int] /\ \A i \in 1..k : Samples(n, k)[i] = n + i
  BY DEF Samples
<1> QED
  BY <1>1

LEMMA RecentIs ==
    \A kept \in Seq(Int), h \in Int :
        Recent(kept, h) <=> \A i \in 1..Len(kept) : kept[i] = h - Len(kept) + i
<1> SUFFICES ASSUME NEW kept \in Seq(Int), NEW h \in Int
             PROVE  Recent(kept, h) <=> \A i \in 1..Len(kept) : kept[i] = h - Len(kept) + i
  OBVIOUS
<1> DEFINE m == Len(kept)
           a == h - m
<1>1. m \in Nat /\ a \in Int
  OBVIOUS
<1> HIDE DEF a
<1>2. /\ Samples(a, m) \in Seq(Int) /\ Len(Samples(a, m)) = m
      /\ \A i \in 1..m : Samples(a, m)[i] = a + i
  BY <1>1, SamplesType
<1>3. kept = Samples(a, m) <=> \A i \in 1..m : kept[i] = a + i
  <2>1. ASSUME \A i \in 1..m : kept[i] = a + i PROVE kept = Samples(a, m)
    <3> DEFINE t == Samples(a, m)
    <3>1. t \in Seq(Int) /\ Len(kept) = Len(t) /\ \A i \in 1..Len(kept) : kept[i] = t[i]
      BY <1>2, <2>1
    <3> HIDE DEF t
    <3>2. kept = t
      BY <3>1, SeqEqual
    <3> QED
      BY <3>2 DEF t
  <2> QED
    BY <1>2, <2>1
<1> QED
  BY <1>3 DEF Recent, a

LEMMA RecentGrows ==
    ASSUME NEW kept \in Seq(Int), NEW h \in Nat, NEW k \in Nat, Recent(kept, h)
    PROVE  Recent(kept \o Samples(h, k), h + k)
<1> DEFINE t == Samples(h, k)
           c == kept \o t
           m == Len(kept)
<1>1. /\ t \in Seq(Int) /\ Len(t) = k /\ \A i \in 1..k : t[i] = h + i
      /\ m \in Nat
  <2>1. h \in Int /\ m \in Nat
    OBVIOUS
  <2> QED
    BY <2>1, SamplesType
<1> HIDE DEF t
<1>2. /\ c \in Seq(Int) /\ Len(c) = m + k
      /\ \A i \in 1..(m + k) : c[i] = IF i <= m THEN kept[i] ELSE t[i - m]
  BY <1>1, ConcatProperties
<1>3. \A i \in 1..m : kept[i] = h - m + i
  BY RecentIs
<1> HIDE DEF c, m
<1>4. ASSUME NEW i \in 1..(m + k) PROVE c[i] = (h + k) - (m + k) + i
  <2>1. CASE i <= m
    <3>1. i \in 1..m
      BY <1>1, <2>1
    <3>2. c[i] = h - m + i
      BY <1>2, <1>3, <2>1, <3>1
    <3> QED
      BY <1>1, <3>2
  <2>2. CASE ~(i <= m)
    <3> DEFINE j == i - m
    <3>1. j \in 1..k
      BY <1>1, <2>2
    <3>2. c[i] = t[j]
      BY <1>2, <2>2
    <3>3. t[j] = h + j
      BY <1>1, <3>1
    <3>4. h + j = (h + k) - (m + k) + i
      BY <1>1
    <3> QED
      BY <3>2, <3>3, <3>4
  <2> QED
    BY <2>1, <2>2
<1>5. Recent(c, h + k)
  BY <1>2, <1>4, RecentIs
<1> QED
  BY <1>5 DEF c, t

LEMMA RecentLatest ==
    ASSUME NEW old \in Seq(Int), NEW kept \in Seq(Int), NEW h \in Nat, Recent(old \o kept, h)
    PROVE  Recent(kept, h)
<1> DEFINE c == old \o kept
           m == Len(old)
           n == Len(kept)
<1>1. /\ c \in Seq(Int) /\ Len(c) = m + n /\ m \in Nat /\ n \in Nat
      /\ \A i \in 1..(m + n) : c[i] = IF i <= m THEN old[i] ELSE kept[i - m]
  BY ConcatProperties
<1>2. \A i \in 1..(m + n) : c[i] = h - (m + n) + i
  <2>1. Recent(c, h) /\ h \in Int
    OBVIOUS
  <2> HIDE DEF c, m, n
  <2>2. Recent(c, h) <=> \A i \in 1..Len(c) : c[i] = h - Len(c) + i
    BY <1>1, <2>1, RecentIs
  <2> QED
    BY <1>1, <2>1, <2>2
<1> HIDE DEF c, m, n
<1>3. ASSUME NEW i \in 1..n PROVE kept[i] = h - n + i
  <2> DEFINE j == m + i
  <2>1. j \in 1..(m + n) /\ ~(j <= m) /\ j - m = i /\ h - (m + n) + j = h - n + i
    BY <1>1
  <2> HIDE DEF j
  <2>2. c[j] = kept[i]
    BY <1>1, <2>1
  <2>3. c[j] = h - n + i
    BY <1>2, <2>1
  <2> QED
    BY <2>2, <2>3
<1> QED
  BY <1>3, RecentIs DEF n

-----------------------------------------------------------------------------
(* Towards the agent. *)

\* What the line keeps true, and what is left of it after the room has closed; the
\* filter follows what was forwarded until the bridge closes; and what arrived last
\* is kept.
AgentInv ==
    /\ heard \in Nat /\ held \in Seq(Seq(Int)) /\ Len(held) <= PreconnectLimit
    /\ agentReady \in BOOLEAN /\ bridgeOpen \in BOOLEAN /\ roomOpen \in BOOLEAN
    /\ Line \in Lines /\ captured \in Seq(Sample)
    /\ roomOpen => bridgeOpen /\ Carries(captured, Line)
    /\ ~roomOpen =>
           /\ pending = << >> /\ queue = << >>
           /\ \E rest \in Seq(Sample) :
                  (captured \o capturing) \o rest
                      = Without(Resampled(ToAgent, forwarded), lost)
    /\ bridgeOpen => Follows(upsampler, ToAgent, forwarded)
    /\ ~bridgeOpen => upsampler = FreshResampler(ToAgent)
    /\ agentReady => held = << >>
    /\ ~agentReady => forwarded = << >>
    /\ roomOpen => Recent(forwarded \o FlattenSeq(held), heard)

LEMMA AgentInit == AudioInit => AgentInv
<1> SUFFICES ASSUME AudioInit PROVE AgentInv
  OBVIOUS
<1>1. /\ Follows(FreshResampler(ToAgent), ToAgent, << >>)
      /\ FreshResampler(ToAgent)
             \in [ratio : {ToAgent}, history : Seq(Int), inBase : Int, outIndex : Nat]
  BY FreshFollows, AudioAssumption DEF Follows
<1>2. Resampled(ToAgent, << >>) = << >>
  BY SilenceResampled, AudioAssumption
<1>3. Line = [upsampler |-> FreshResampler(ToAgent), pending |-> << >>, queue |-> << >>,
              capturing |-> << >>, forwarded |-> << >>, lost |-> {}]
  BY DEF Line, AudioInit
<1>4. /\ << >> \in Seq(Sample) /\ << >> \in Seq(Frame) /\ << >> \in Seq(Int)
      /\ << >> \in Seq(Seq(Int)) /\ Len(<< >>) = 0 /\ << >> \o << >> = << >>
  BY EmptySeq, ConcatEmptySeq
<1>5. Line \in Lines
  BY <1>1, <1>3, <1>4 DEF Lines
<1>6. Framed(<< >>, Line, << >>)
  BY <1>3, <1>4, <1>5, FlattenEmpty, WithoutEmpty, AudioAssumption DEF Framed, Before
<1>7. Carries(<< >>, Line)
  BY <1>1, <1>2, <1>3, <1>4, <1>6, AudioAssumption DEF Carries
<1>8. Recent(<< >> \o FlattenSeq(<< >>), 0)
  <2>1. Recent(<< >>, 0)
    <3>1. 0 \in Int
      OBVIOUS
    <3>2. Recent(<< >>, 0) <=> \A i \in 1..Len(<< >>) : << >>[i] = 0 - Len(<< >>) + i
      BY <1>4, <3>1, RecentIs, Zenon
    <3> QED
      BY <3>2
  <2> QED
    BY <1>4, <2>1, FlattenEmpty
<1>9. /\ heard = 0 /\ held = << >> /\ agentReady = FALSE /\ captured = << >>
      /\ bridgeOpen = TRUE /\ roomOpen = TRUE /\ upsampler = FreshResampler(ToAgent)
      /\ forwarded = << >>
  BY DEF AudioInit
<1>10. PreconnectLimit \in Nat /\ 0 <= PreconnectLimit
  BY AudioAssumption
<1>11. /\ heard \in Nat /\ held \in Seq(Seq(Int)) /\ Len(held) <= PreconnectLimit
  BY <1>4, <1>9, <1>10
<1>12. Carries(captured, Line) /\ captured \in Seq(Sample)
  BY <1>4, <1>7, <1>9
<1>13. Recent(forwarded \o FlattenSeq(held), heard)
  BY <1>8, <1>9
<1>14. Follows(upsampler, ToAgent, forwarded)
  BY <1>1, <1>9
<1> QED
  BY <1>5, <1>9, <1>11, <1>12, <1>13, <1>14 DEF AgentInv

LEMMA LineTypes ==
    Line \in Lines <=> /\ upsampler \in [ratio : {ToAgent}, history : Seq(Int),
                                         inBase : Int, outIndex : Nat]
                       /\ pending \in Seq(Sample) /\ queue \in Seq(Frame)
                       /\ capturing \in Seq(Sample) /\ forwarded \in Seq(Int)
                       /\ lost \subseteq Sample
BY DEF Line, Lines

\* Whatever has not been taken comes after what has.
LEMMA LeftBehind ==
    ASSUME AgentInv
    PROVE  \E rest \in Seq(Sample) :
               (captured \o capturing) \o rest = Without(Resampled(ToAgent, forwarded), lost)
<1>1. CASE ~roomOpen
  BY <1>1 DEF AgentInv
<1>2. CASE roomOpen
  <2>1. Carries(captured, Line) /\ Line \in Lines
    BY <1>2 DEF AgentInv
  <2>2. /\ Line.capturing = capturing /\ Line.queue = queue /\ Line.pending = pending
        /\ Line.forwarded = forwarded /\ Line.lost = lost
    BY DEF Line
  <2>3. (captured \o Line.capturing) \o (FlattenSeq(Line.queue) \o Line.pending)
            = Without(Resampled(ToAgent, Line.forwarded), Line.lost)
    BY <2>1, CarriesMeant
  <2>4. FlattenSeq(queue) \in Seq(Sample) /\ pending \in Seq(Sample)
    BY <2>1, LineTypes, QueueIsFrames, FlattenType
  <2>5. FlattenSeq(queue) \o pending \in Seq(Sample)
    BY <2>4, Assoc
  <2> QED
    BY <2>2, <2>3, <2>5
<1> QED
  BY <1>1, <1>2 DEF AgentInv

LEMMA AgentHoldBack ==
    ASSUME AgentInv, NEW k \in ChunkSizes, HoldBack(k)
    PROVE  AgentInv'
<1> DEFINE chunk == Samples(heard, k)
           more  == Append(held, chunk)
<1>1. /\ k \in Nat /\ heard \in Nat /\ heard \in Int /\ heard + k \in Nat
      /\ held \in Seq(Seq(Int)) /\ PreconnectLimit \in Nat /\ Len(held) \in Nat
  BY AudioAssumption DEF AgentInv
<1>2. chunk \in Seq(Int)
  BY <1>1, SamplesType
<1>3. /\ heard' = heard + k /\ held' = Latest(more, PreconnectLimit)
      /\ UNCHANGED <<agentReady, bridgeOpen, roomOpen, captured, upsampler, pending, queue,
                     capturing, forwarded, lost>>
      /\ ~agentReady
  BY DEF HoldBack, lineVars
<1> HIDE DEF chunk, more
<1>4. /\ held' \in Seq(Seq(Int)) /\ Len(held') <= PreconnectLimit
      /\ \E old \in Seq(Seq(Int)) : more = old \o held'
  <2> DEFINE Q == Seq(Int)
             later == Latest(more, PreconnectLimit)
  <2>1. more \in Seq(Q)
    BY <1>1, <1>2 DEF more
  <2> HIDE DEF Q
  <2>2. /\ later \in Seq(Q) /\ Len(later) <= PreconnectLimit
        /\ \E old \in Seq(Q) : more = old \o later
    BY <1>1, <2>1, LatestIs
  <2> QED
    BY <1>3, <2>2 DEF Q
<1>5. ASSUME roomOpen PROVE Recent(forwarded \o FlattenSeq(held'), heard + k)
  <2>1. PICK old \in Seq(Seq(Int)) : more = old \o held'
    BY <1>4
  <2>2. forwarded = << >>
    BY <1>3 DEF AgentInv
  <2>3. /\ FlattenSeq(held) \in Seq(Int) /\ FlattenSeq(held') \in Seq(Int)
        /\ FlattenSeq(old) \in Seq(Int)
    BY <1>1, <1>4, FlattenType
  <2>4. /\ << >> \o FlattenSeq(held) = FlattenSeq(held)
        /\ << >> \o FlattenSeq(held') = FlattenSeq(held')
    BY <2>3, ConcatEmptySeq
  <2>5. Recent(FlattenSeq(held), heard)
    BY <1>5, <2>2, <2>4 DEF AgentInv
  <2>6. Recent(FlattenSeq(held) \o chunk, heard + k)
    BY <1>1, <2>3, <2>5, RecentGrows DEF chunk
  <2>7. FlattenSeq(more) = FlattenSeq(held) \o chunk
    BY <1>1, <1>2, FlattenAppend DEF more
  <2>8. FlattenSeq(more) = FlattenSeq(old) \o FlattenSeq(held')
    BY <1>4, <2>1, FlattenConcat
  <2>9. Recent(FlattenSeq(held'), heard + k)
    <3>1. Recent(FlattenSeq(old) \o FlattenSeq(held'), heard + k)
      BY <2>6, <2>7, <2>8
    <3> QED
      BY <1>1, <2>3, <3>1, RecentLatest
  <2> QED
    BY <2>2, <2>4, <2>9
<1>6. Line' = Line
  BY <1>3 DEF Line
<1> QED
  BY <1>1, <1>3, <1>4, <1>5, <1>6 DEF AgentInv

LEMMA BecomesLine ==
    ASSUME NEW line \in Lines, BecomeLine(line)
    PROVE  Line' = line
BY DEF BecomeLine, Lines, Line

LEMMA AgentPassOn ==
    ASSUME AgentInv, NEW k \in ChunkSizes, PassOn(k)
    PROVE  AgentInv'
<1> DEFINE chunk == Samples(heard, k)
           next  == Forward(Line, chunk)
<1>1. /\ k \in Nat /\ heard \in Nat /\ heard \in Int /\ heard + k \in Nat
  BY AudioAssumption DEF AgentInv
<1>2. chunk \in Seq(Int)
  BY <1>1, SamplesType
<1>3. /\ heard' = heard + k /\ BecomeLine(next)
      /\ UNCHANGED <<held, agentReady, bridgeOpen, roomOpen, captured>>
      /\ agentReady /\ held = << >> /\ bridgeOpen
  BY DEF PassOn, AgentInv
<1> HIDE DEF chunk
<1>4. CASE roomOpen
  <2>1. Carries(captured, Line)
    BY <1>4 DEF AgentInv
  <2>2. Carries(captured, next) /\ next.forwarded = Line.forwarded \o chunk
    BY <1>2, <1>4, <2>1, ForwardKeeps
  <2> HIDE DEF next
  <2>3. next \in Lines
    BY <2>2, CarriesMeant
  <2>4. Line' = next
    BY <1>3, <2>3, BecomesLine
  <2>5. forwarded' = forwarded \o chunk /\ upsampler' = next.upsampler
    BY <1>3, <2>2 DEF BecomeLine, Line
  <2>6. Follows(upsampler', ToAgent, forwarded')
    BY <1>3, <2>2 DEF Carries, BecomeLine
  <2>7. Recent(forwarded' \o FlattenSeq(held'), heard')
    <3>1. forwarded \in Seq(Int)
      BY LineTypes DEF AgentInv
    <3>2. forwarded \o chunk \in Seq(Int)
      BY <1>2, <3>1, Assoc
    <3>3. /\ forwarded \o << >> = forwarded
          /\ (forwarded \o chunk) \o << >> = forwarded \o chunk
      BY <3>1, <3>2, ConcatEmptySeq
    <3>4. Recent(forwarded, heard)
      BY <1>3, <1>4, <3>3, FlattenEmpty DEF AgentInv
    <3>5. Recent(forwarded \o chunk, heard + k)
      BY <1>1, <3>1, <3>4, RecentGrows DEF chunk
    <3> QED
      BY <1>3, <2>5, <3>3, <3>5, FlattenEmpty
  <2> QED
    BY <1>1, <1>3, <1>4, <2>2, <2>3, <2>4, <2>6, <2>7 DEF AgentInv
<1>5. CASE ~roomOpen
  <2>1. next = Line
    BY <1>5 DEF Forward
  <2>2. UNCHANGED <<upsampler, pending, queue, capturing, forwarded, lost>>
    BY <1>3, <2>1 DEF BecomeLine, Line
  <2>3. Line' = Line
    BY <2>2 DEF Line
  <2> QED
    BY <1>1, <1>3, <1>5, <2>2, <2>3 DEF AgentInv
<1> QED
  BY <1>4, <1>5

LEMMA AgentMarkAgentReady ==
    ASSUME AgentInv, MarkAgentReady
    PROVE  AgentInv'
<1> DEFINE chunks == Latest(held, FlushKeep)
           next   == FoldLeft(Forward, Line, chunks)
<1>1. /\ heard \in Nat /\ held \in Seq(Seq(Int)) /\ FlushKeep \in Nat
      /\ PreconnectLimit \in Nat
  BY AudioAssumption DEF AgentInv
<1>2. /\ heard' = heard /\ held' = << >> /\ agentReady' = TRUE /\ BecomeLine(next)
      /\ UNCHANGED <<bridgeOpen, roomOpen, captured>>
      /\ ~agentReady /\ roomOpen /\ bridgeOpen
  BY DEF MarkAgentReady
<1>3. /\ chunks \in Seq(Seq(Int))
      /\ \E old \in Seq(Seq(Int)) : held = old \o chunks
  <2> DEFINE Q == Seq(Int)
  <2>1. held \in Seq(Q)
    BY <1>1
  <2> HIDE DEF Q
  <2>2. chunks \in Seq(Q) /\ \E old \in Seq(Q) : held = old \o chunks
    BY <1>1, <2>1, LatestIs
  <2> QED
    BY <2>2 DEF Q
<1> HIDE DEF chunks
<1>4. Carries(captured, Line)
  BY <1>2 DEF AgentInv
<1>5. Carries(captured, next) /\ next.forwarded = Line.forwarded \o FlattenSeq(chunks)
  BY <1>2, <1>3, <1>4, FlushKeeps
<1> HIDE DEF next
<1>6. next \in Lines
  BY <1>5, CarriesMeant
<1>7. Line' = next
  BY <1>2, <1>6, BecomesLine
<1>8. forwarded = << >>
  BY <1>2 DEF AgentInv
<1>9. FlattenSeq(held) \in Seq(Int) /\ FlattenSeq(chunks) \in Seq(Int)
  BY <1>1, <1>3, FlattenType
<1>10. forwarded' = FlattenSeq(chunks)
  <2>1. << >> \o FlattenSeq(chunks) = FlattenSeq(chunks)
    BY <1>9, ConcatEmptySeq
  <2>2. forwarded' = forwarded \o FlattenSeq(chunks)
    BY <1>2, <1>5 DEF BecomeLine, Line
  <2> QED
    BY <1>8, <2>1, <2>2
<1>11. Follows(upsampler', ToAgent, forwarded')
  BY <1>2, <1>5 DEF Carries, BecomeLine
<1>12. Recent(forwarded' \o FlattenSeq(held'), heard')
  <2>1. << >> \o FlattenSeq(held) = FlattenSeq(held)
    BY <1>9, ConcatEmptySeq
  <2>2. Recent(FlattenSeq(held), heard)
    BY <1>2, <1>8, <2>1 DEF AgentInv
  <2>3. PICK old \in Seq(Seq(Int)) : held = old \o chunks
    BY <1>3
  <2>4. FlattenSeq(held) = FlattenSeq(old) \o FlattenSeq(chunks)
    BY <1>3, <2>3, FlattenConcat
  <2>5. FlattenSeq(old) \in Seq(Int)
    BY FlattenType
  <2>6. Recent(FlattenSeq(old) \o FlattenSeq(chunks), heard)
    BY <2>2, <2>4
  <2>7. Recent(FlattenSeq(chunks), heard)
    BY <1>1, <1>9, <2>5, <2>6, RecentLatest
  <2>8. FlattenSeq(chunks) \o << >> = FlattenSeq(chunks)
    BY <1>9, ConcatEmptySeq
  <2> QED
    BY <1>2, <1>10, <2>7, <2>8, FlattenEmpty
<1>13. held' \in Seq(Seq(Int)) /\ Len(held') <= PreconnectLimit
  BY <1>1, <1>2, EmptySeq
<1>14. captured \in Seq(Sample)
  BY DEF AgentInv
<1> QED
  BY <1>1, <1>2, <1>5, <1>6, <1>7, <1>11, <1>12, <1>13, <1>14 DEF AgentInv

\* The room has taken the frame.
LEMMA TakenKeeps ==
    ASSUME NEW got, NEW line, Carries(got, line), line.capturing # << >>,
           NEW next \in Lines, next.upsampler = line.upsampler, next.pending = line.pending,
           next.forwarded = line.forwarded, next.lost = line.lost,
           \/ /\ line.queue # << >>
              /\ next.capturing = Head(line.queue) /\ next.queue = Tail(line.queue)
           \/ line.queue = << >> /\ next.capturing = << >> /\ next.queue = << >>
    PROVE  Carries(got \o line.capturing, next)
<1> DEFINE g == got \o line.capturing
           q == line.queue
<1>1. PICK whole : /\ Framed(got, line, whole)
                   /\ whole \o line.pending = Resampled(ToAgent, line.forwarded)
  BY DEF Carries
<1>2. /\ line \in Lines /\ got \in Seq(Sample) /\ whole \in Seq(Sample)
      /\ Len(q) <= Backlog
      /\ g \o FlattenSeq(q) = Without(whole, line.lost)
      /\ \A x \in line.lost : x.n < Len(whole)
      /\ Before(line.lost, ToSet(FlattenSeq(q)))
  BY <1>1 DEF Framed
<1>3. line.capturing \in Seq(Sample) /\ q \in Seq(Frame) /\ q \in Seq(Seq(Sample))
  BY <1>2, QueueIsFrames DEF Lines
<1>4. g \in Seq(Sample)
  BY <1>2, <1>3, Assoc
<1> HIDE DEF g, q
<1>5. CASE q # << >> /\ next.capturing = Head(q) /\ next.queue = Tail(q)
  <2> DEFINE h == Head(q)
             f == FlattenSeq(Tail(q))
  <2>1. h \in Seq(Sample) /\ Tail(q) \in Seq(Seq(Sample)) /\ FlattenSeq(q) = h \o f
    BY <1>3, <1>5, FlattenHead
  <2>2. f \in Seq(Sample)
    BY <2>1, FlattenType
  <2>3. h # << >> /\ Len(Tail(q)) <= Backlog
    <3>1. Head(q) \in Frame /\ Len(Tail(q)) = Len(q) - 1
      BY <1>3, <1>5, HeadTailProperties
    <3>2. Len(q) \in Nat
      BY <1>3
    <3> QED
      BY <1>2, <3>1, <3>2, AudioAssumption DEF Frame
  <2> HIDE DEF h, f
  <2>4. (g \o h) \o f = Without(whole, line.lost)
    <3>1. \A a, b, d \in Seq(Sample) : a \o (b \o d) = (a \o b) \o d
      BY SamplesAssoc
    <3>2. g \o (h \o f) = (g \o h) \o f
      BY <1>4, <2>1, <2>2, <3>1
    <3> QED
      BY <1>2, <2>1, <3>2
  <2>5. ToSet(h \o f) = ToSet(h) \cup ToSet(f)
    <3>1. \A a, b \in Seq(Sample) : ToSet(a \o b) = ToSet(a) \cup ToSet(b)
      BY InConcat
    <3> QED
      BY <2>1, <2>2, <3>1
  <2>6. Before(line.lost, ToSet(f))
    BY <1>2, <2>1, <2>5 DEF Before
  <2>7. next.capturing = h /\ next.queue = Tail(q) /\ FlattenSeq(next.queue) = f
    BY <1>5 DEF h, f
  <2>8. Framed(g, next, whole)
    BY <1>2, <1>4, <2>3, <2>4, <2>6, <2>7 DEF Framed
  <2> QED
    BY <1>1, <2>8 DEF Carries, g
<1>6. CASE q = << >> /\ next.capturing = << >> /\ next.queue = << >>
  <2>1. (g \o << >>) \o << >> = g /\ g \o << >> = g
    BY <1>4, ConcatEmptySeq
  <2>2. FlattenSeq(q) = << >> /\ FlattenSeq(next.queue) = << >>
    BY <1>6, FlattenEmpty
  <2>3. (g \o next.capturing) \o FlattenSeq(next.queue) = Without(whole, next.lost)
    BY <1>2, <1>6, <2>1, <2>2
  <2>4. Before(next.lost, ToSet(FlattenSeq(next.queue)))
    BY <2>2, InEmpty DEF Before
  <2>5. Len(next.queue) <= Backlog
    BY <1>2, <1>6
  <2>6. Framed(g, next, whole)
    BY <1>2, <1>4, <1>6, <2>3, <2>4, <2>5 DEF Framed
  <2> QED
    BY <1>1, <2>6 DEF Carries, g
<1> QED
  BY <1>5, <1>6 DEF q

LEMMA AgentFrameTaken ==
    ASSUME AgentInv, FrameTaken
    PROVE  AgentInv'
<1>1. /\ capturing # << >> /\ captured' = captured \o capturing
      /\ UNCHANGED <<heard, held, agentReady, upsampler, pending, forwarded, lost,
                     bridgeOpen, roomOpen>>
  BY DEF FrameTaken
<1>2. /\ Line \in Lines /\ captured \in Seq(Sample)
      /\ roomOpen \in BOOLEAN
  BY DEF AgentInv
<1>3. /\ pending \in Seq(Sample) /\ queue \in Seq(Frame) /\ capturing \in Seq(Sample)
      /\ forwarded \in Seq(Int) /\ lost \subseteq Sample
  BY <1>2, LineTypes
<1>4. captured' \in Seq(Sample)
  BY <1>1, <1>2, <1>3, Assoc
<1>5. CASE roomOpen
  <2>1. \/ queue # << >> /\ capturing' = Head(queue) /\ queue' = Tail(queue)
        \/ queue = << >> /\ capturing' = << >> /\ queue' = << >>
    BY <1>5 DEF FrameTaken
  <2>2. capturing' \in Seq(Sample) /\ queue' \in Seq(Frame)
    <3>1. CASE queue # << >> /\ capturing' = Head(queue) /\ queue' = Tail(queue)
      BY <1>3, <3>1, HeadTailProperties DEF Frame
    <3>2. CASE queue = << >> /\ capturing' = << >> /\ queue' = << >>
      BY <3>2, EmptySeq
    <3> QED
      BY <2>1, <3>1, <3>2
  <2>3. Line' = [upsampler |-> upsampler, pending |-> pending, queue |-> queue',
                 capturing |-> capturing', forwarded |-> forwarded, lost |-> lost]
    BY <1>1 DEF Line
  <2>4. /\ Line' \in Lines /\ Line'.upsampler = Line.upsampler
        /\ Line'.pending = Line.pending /\ Line'.forwarded = Line.forwarded
        /\ Line'.lost = Line.lost
        /\ Line'.capturing = capturing' /\ Line'.queue = queue'
    BY <1>2, <2>2, <2>3 DEF Line, Lines
  <2>5. Line.capturing = capturing /\ Line.queue = queue
    BY DEF Line
  <2>6. Carries(captured, Line)
    BY <1>5 DEF AgentInv
  <2>7. Carries(captured', Line')
    <3> DEFINE l == Line
               next == Line'
    <3>1. /\ Carries(captured, l) /\ l.capturing # << >> /\ next \in Lines
          /\ next.upsampler = l.upsampler /\ next.pending = l.pending
          /\ next.forwarded = l.forwarded /\ next.lost = l.lost
          /\ \/ /\ l.queue # << >>
                /\ next.capturing = Head(l.queue) /\ next.queue = Tail(l.queue)
             \/ l.queue = << >> /\ next.capturing = << >> /\ next.queue = << >>
      BY <1>1, <2>1, <2>4, <2>5, <2>6
    <3>2. captured' = captured \o l.capturing
      BY <1>1, <2>5
    <3> HIDE DEF l, next
    <3>3. Carries(captured \o l.capturing, next)
      BY <3>1, TakenKeeps
    <3> QED
      BY <3>2, <3>3 DEF next
  <2> QED
    BY <1>1, <1>4, <1>5, <2>4, <2>7 DEF AgentInv
<1>6. CASE ~roomOpen
  <2>1. /\ capturing' = << >> /\ queue' = queue /\ queue = << >> /\ pending = << >>
    BY <1>6 DEF FrameTaken, AgentInv
  <2>2. PICK rest \in Seq(Sample) :
            (captured \o capturing) \o rest = Without(Resampled(ToAgent, forwarded), lost)
    BY LeftBehind
  <2>3. captured' \o << >> = captured'
    BY <1>4, ConcatEmptySeq
  <2>4. (captured' \o capturing') \o rest
            = Without(Resampled(ToAgent, forwarded'), lost')
    BY <1>1, <2>1, <2>2, <2>3
  <2>5. Line' = [Line EXCEPT !.capturing = << >>]
    BY <1>1, <2>1 DEF Line
  <2>6. Line' \in Lines
    <3>1. << >> \in Seq(Sample)
      BY EmptySeq
    <3> QED
      BY <1>2, <2>5, <3>1 DEF Lines
  <2> QED
    BY <1>1, <1>4, <1>6, <2>1, <2>4, <2>6 DEF AgentInv
<1> QED
  BY <1>2, <1>5, <1>6

\* The ways it may end differ in what becomes of the bridge and of the frame being
\* captured.
LEMMA AgentEnds ==
    ASSUME AgentInv, roomOpen' = FALSE, pending' = << >>, queue' = << >>,
           bridgeOpen' \in BOOLEAN,
           UNCHANGED <<heard, agentReady, forwarded, captured, lost>>,
           capturing' \in {capturing, << >>},
           IF bridgeOpen' THEN bridgeOpen /\ UNCHANGED <<held, upsampler>>
                          ELSE \/ /\ held' = << >> /\ upsampler' = FreshResampler(ToAgent)
                               \/ ~bridgeOpen /\ UNCHANGED <<held, upsampler>>
    PROVE  AgentInv'
<1>1. /\ Line \in Lines /\ captured \in Seq(Sample)
      /\ held \in Seq(Seq(Int)) /\ Len(held) <= PreconnectLimit
  BY DEF AgentInv
<1>2. /\ upsampler \in [ratio : {ToAgent}, history : Seq(Int), inBase : Int, outIndex : Nat]
      /\ capturing \in Seq(Sample) /\ forwarded \in Seq(Int) /\ lost \subseteq Sample
  BY <1>1, LineTypes
<1>3. FreshResampler(ToAgent)
          \in [ratio : {ToAgent}, history : Seq(Int), inBase : Int, outIndex : Nat]
  BY FreshFollows, AudioAssumption DEF Follows
<1>4. << >> \in Seq(Sample) /\ << >> \in Seq(Frame) /\ << >> \in Seq(Seq(Int))
      /\ Len(<< >>) = 0
  BY EmptySeq
<1>5. Line' \in Lines
  <2>1. capturing' \in Seq(Sample)
    BY <1>2, <1>4
  <2>2. upsampler' \in [ratio : {ToAgent}, history : Seq(Int), inBase : Int, outIndex : Nat]
    BY <1>2, <1>3
  <2>3. Line' = [upsampler |-> upsampler', pending |-> << >>, queue |-> << >>,
                 capturing |-> capturing', forwarded |-> forwarded, lost |-> lost]
    BY DEF Line
  <2> QED
    BY <1>2, <1>4, <2>1, <2>2, <2>3 DEF Lines
<1>6. \E rest \in Seq(Sample) :
          (captured' \o capturing') \o rest = Without(Resampled(ToAgent, forwarded'), lost')
  <2>1. PICK rest \in Seq(Sample) :
            (captured \o capturing) \o rest = Without(Resampled(ToAgent, forwarded), lost)
    BY LeftBehind
  <2>2. CASE capturing' = capturing
    BY <2>1, <2>2
  <2>3. CASE capturing' = << >>
    <3>1. captured \o << >> = captured
      BY <1>1, ConcatEmptySeq
    <3>2. \A a, b, d \in Seq(Sample) : (a \o b) \o d = a \o (b \o d) /\ a \o b \in Seq(Sample)
      BY SamplesAssoc
    <3>3. /\ (captured \o capturing) \o rest = captured \o (capturing \o rest)
          /\ capturing \o rest \in Seq(Sample)
      BY <1>1, <1>2, <2>1, <3>2
    <3>4. (captured' \o capturing') \o (capturing \o rest)
              = Without(Resampled(ToAgent, forwarded'), lost')
      BY <2>1, <2>3, <3>1, <3>3
    <3> QED
      BY <3>3, <3>4
  <2> QED
    BY <2>2, <2>3
<1>7. held' \in Seq(Seq(Int)) /\ Len(held') <= PreconnectLimit
  <2>1. PreconnectLimit \in Nat /\ 0 <= PreconnectLimit
    BY AudioAssumption
  <2>2. CASE held' = held
    BY <1>1, <2>2
  <2>3. CASE held' = << >>
    BY <1>4, <2>1, <2>3
  <2>4. held' = held \/ held' = << >>
    OBVIOUS
  <2> QED
    BY <2>2, <2>3, <2>4
<1>8. agentReady' => held' = << >>
  BY DEF AgentInv
<1>9. bridgeOpen' => Follows(upsampler', ToAgent, forwarded')
  BY DEF AgentInv
<1>10. ~bridgeOpen' => upsampler' = FreshResampler(ToAgent)
  BY DEF AgentInv
<1> QED
  BY <1>1, <1>5, <1>6, <1>7, <1>8, <1>9, <1>10 DEF AgentInv

LEMMA AgentStep ==
    ASSUME AgentInv, [AudioNext]_audioVars
    PROVE  AgentInv'
<1>1. ASSUME NEW k \in ChunkSizes, HoldBack(k) PROVE AgentInv'
  BY <1>1, AgentHoldBack
<1>2. ASSUME NEW k \in ChunkSizes, PassOn(k) PROVE AgentInv'
  BY <1>2, AgentPassOn
<1>3. ASSUME UNCHANGED <<toAgent, bridgeOpen, roomOpen>> PROVE AgentInv'
  <2>1. Line' = Line
    BY <1>3 DEF toAgent, Line
  <2> QED
    BY <1>3, <2>1 DEF AgentInv, toAgent
<1>4. ASSUME NEW k \in ChunkSizes, NEW ratio \in FromAgent, Speak(k, ratio) PROVE AgentInv'
  BY <1>3, <1>4 DEF Speak
<1>5. ASSUME MarkAgentReady PROVE AgentInv'
  BY <1>5, AgentMarkAgentReady
<1>6. ASSUME FrameTaken PROVE AgentInv'
  BY <1>6, AgentFrameTaken
<1>7. bridgeOpen \in BOOLEAN /\ roomOpen \in BOOLEAN /\ (roomOpen => bridgeOpen)
  BY DEF AgentInv
<1>8. ASSUME RoomCloses PROVE AgentInv'
  <2>1. /\ roomOpen' = FALSE /\ pending' = << >> /\ queue' = << >>
        /\ bridgeOpen' \in BOOLEAN
        /\ UNCHANGED <<heard, agentReady, forwarded, captured, lost>>
        /\ capturing' \in {capturing, << >>}
        /\ bridgeOpen' /\ bridgeOpen /\ UNCHANGED <<held, upsampler>>
    BY <1>7, <1>8 DEF RoomCloses
  <2> QED
    BY <2>1, AgentEnds
<1>9. ASSUME BridgeCloses PROVE AgentInv'
  <2>1. /\ roomOpen' = FALSE /\ pending' = << >> /\ queue' = << >>
        /\ bridgeOpen' \in BOOLEAN
        /\ UNCHANGED <<heard, agentReady, forwarded, captured, lost>>
        /\ capturing' \in {capturing, << >>}
        /\ ~bridgeOpen' /\ held' = << >> /\ upsampler' = FreshResampler(ToAgent)
    BY <1>9 DEF BridgeCloses, Released
  <2> QED
    BY <2>1, AgentEnds
<1>10. ASSUME CaptureRejected PROVE AgentInv'
  <2>1. /\ roomOpen' = FALSE /\ pending' = << >> /\ queue' = << >>
        /\ bridgeOpen' = (bridgeOpen /\ ~roomOpen) /\ bridgeOpen' \in BOOLEAN
        /\ UNCHANGED <<heard, agentReady, forwarded, captured, lost>>
        /\ capturing' \in {capturing, << >>}
    BY <1>7, <1>10 DEF CaptureRejected
  <2>2. CASE roomOpen
    <3>1. ~bridgeOpen' /\ held' = << >> /\ upsampler' = FreshResampler(ToAgent)
      BY <1>10, <2>1, <2>2 DEF CaptureRejected, Released
    <3> QED
      BY <2>1, <3>1, AgentEnds
  <2>3. CASE ~roomOpen
    <3>1. UNCHANGED <<held, upsampler>>
      BY <1>10, <2>3 DEF CaptureRejected
    <3>2. CASE bridgeOpen
      <4>1. bridgeOpen' /\ bridgeOpen
        BY <2>1, <2>3, <3>2
      <4> QED
        BY <2>1, <3>1, <4>1, AgentEnds
    <3>3. CASE ~bridgeOpen
      <4>1. ~bridgeOpen' /\ ~bridgeOpen
        BY <2>1, <3>3
      <4> QED
        BY <2>1, <3>1, <4>1, AgentEnds
    <3> QED
      BY <3>2, <3>3
  <2> QED
    BY <2>2, <2>3
<1>11. CASE UNCHANGED audioVars
  BY <1>3, <1>11 DEF audioVars
<1> QED
  BY <1>1, <1>2, <1>4, <1>5, <1>6, <1>8, <1>9, <1>10, <1>11 DEF AudioNext

-----------------------------------------------------------------------------
(* Towards the caller. *)

Stretch == [ratio : FromAgent, samples : Seq(Int)]

Meant(stretches) == FlattenSeq([i \in 1..Len(stretches) |->
                        Resampled(stretches[i].ratio, stretches[i].samples)])

LEMMA StretchResampled ==
    \A x \in Stretch : /\ Followed(x.ratio) /\ x.samples \in Seq(Int)
                       /\ Resampled(x.ratio, x.samples) \in Seq(Sample)
<1> SUFFICES ASSUME NEW x \in Stretch
             PROVE  /\ Followed(x.ratio) /\ x.samples \in Seq(Int)
                    /\ Resampled(x.ratio, x.samples) \in Seq(Sample)
  OBVIOUS
<1> DEFINE r == x.ratio
           s == x.samples
<1>1. Followed(r) /\ s \in Seq(Int)
  BY AudioAssumption DEF Stretch
<1> HIDE DEF r, s
<1>2. Resampled(r, s) \in Seq(Sample)
  BY <1>1, ResampledIs
<1> QED
  BY <1>1, <1>2 DEF r, s

LEMMA MeantEmpty == Meant(<< >>) = << >>
<1>1. [i \in 1..Len(<< >>) |-> Resampled(<< >>[i].ratio, << >>[i].samples)] = << >>
  OBVIOUS
<1> QED
  BY <1>1, FlattenEmpty DEF Meant

LEMMA MeantAppend ==
    ASSUME NEW s \in Seq(Stretch), NEW x \in Stretch
    PROVE  /\ Meant(s) \in Seq(Sample)
           /\ Meant(Append(s, x)) = Meant(s) \o Resampled(x.ratio, x.samples)
<1> DEFINE Part(y) == Resampled(y.ratio, y.samples)
           f == [i \in 1..Len(s) |-> Part(s[i])]
           t == Append(s, x)
           g == [i \in 1..Len(t) |-> Part(t[i])]
           px == Part(x)
           Q == Seq(Sample)
<1>1. \A y \in Stretch : Part(y) \in Q
  BY StretchResampled
<1>2. Len(s) \in Nat /\ \A i \in 1..Len(s) : s[i] \in Stretch
  OBVIOUS
<1>3. /\ t \in Seq(Stretch) /\ Len(t) = Len(s) + 1 /\ t[Len(s) + 1] = x
      /\ \A i \in 1..Len(s) : t[i] = s[i]
  BY AppendProperties
<1> HIDE DEF t, Part, Q
<1>4. f \in Seq(Q) /\ Len(f) = Len(s)
  <2>1. f \in [1..Len(s) -> Q]
    BY <1>1, <1>2
  <2> HIDE DEF f
  <2> QED
    BY <1>2, <2>1
<1>5. px \in Q
  BY <1>1
<1>6. g \in Seq(Q) /\ Len(g) = Len(s) + 1
  <2>1. \A i \in 1..Len(t) : t[i] \in Stretch
    BY <1>3
  <2>2. g \in [1..Len(t) -> Q]
    BY <1>1, <2>1
  <2> HIDE DEF g
  <2> QED
    BY <1>2, <1>3, <2>2
<1>7. /\ Append(f, px) \in Seq(Q) /\ Len(Append(f, px)) = Len(s) + 1
      /\ \A i \in 1..Len(s) : Append(f, px)[i] = f[i]
      /\ Append(f, px)[Len(s) + 1] = px
  <2> HIDE DEF f, px
  <2>1. /\ Append(f, px) \in Seq(Q) /\ Len(Append(f, px)) = Len(f) + 1
        /\ \A i \in 1..Len(f) : Append(f, px)[i] = f[i]
        /\ Append(f, px)[Len(f) + 1] = px
    BY <1>4, <1>5, AppendProperties
  <2> QED
    BY <1>4, <2>1
<1>8. ASSUME NEW i \in 1..(Len(s) + 1) PROVE g[i] = Append(f, px)[i]
  <2>1. CASE i = Len(s) + 1
    <3>1. g[i] = px
      BY <1>3, <2>1
    <3> QED
      BY <1>7, <2>1, <3>1
  <2>2. CASE i # Len(s) + 1
    <3>1. i \in 1..Len(s)
      BY <1>2, <2>2
    <3>2. g[i] = f[i]
      BY <1>3, <3>1
    <3> QED
      BY <1>7, <3>1, <3>2
  <2> QED
    BY <2>1, <2>2
<1>9. Meant(s) = FlattenSeq(f) /\ Meant(t) = FlattenSeq(g)
  BY DEF Meant, Part
<1> HIDE DEF f, g, px
<1>10. g = Append(f, px)
  BY <1>6, <1>7, <1>8, SeqEqual
<1>11. FlattenSeq(Append(f, px)) = FlattenSeq(f) \o px /\ FlattenSeq(f) \in Seq(Sample)
  BY <1>4, <1>5, FlattenAppend, FlattenType DEF Q
<1> QED
  BY <1>9, <1>10, <1>11 DEF t, px, Part

\* What was sent and what waits for a frame are what was said; once the bridge is
\* closed, what was sent is its beginning.
CallerInv ==
    /\ spoken \in Nat /\ said \in Seq(Stretch)
    /\ remainder \in Seq(Sample) /\ sent \in Seq(Sample)
    /\ Len(remainder) < TwilioFrame
    /\ \E frames \in Nat : Len(sent) = frames * TwilioFrame
    /\ said = << >> => downsampler = NoResampler
    /\ said # << >> =>
           LET last == said[Len(said)]
           IN  IF bridgeOpen THEN Follows(downsampler, last.ratio, last.samples)
                             ELSE downsampler = FreshResampler(last.ratio)
    /\ bridgeOpen => sent \o remainder = Meant(said)
    /\ \E rest \in Seq(Sample) : sent \o rest = Meant(said)

LEMMA CallerInit == AudioInit => CallerInv
<1> SUFFICES ASSUME AudioInit PROVE CallerInv
  OBVIOUS
<1>1. /\ << >> \in Seq(Sample) /\ << >> \in Seq(Stretch) /\ Len(<< >>) = 0
      /\ << >> \o << >> = << >>
  BY EmptySeq, ConcatEmptySeq
<1>2. /\ spoken = 0 /\ downsampler = NoResampler /\ remainder = << >> /\ said = << >>
      /\ sent = << >> /\ bridgeOpen = TRUE
  BY DEF AudioInit
<1>3. 0 = 0 * TwilioFrame /\ 0 < TwilioFrame /\ 0 \in Nat
  BY AudioAssumption
<1>4. \E frames \in Nat : Len(sent) = frames * TwilioFrame
  BY <1>1, <1>2, <1>3
<1>5. \E rest \in Seq(Sample) : sent \o rest = Meant(said)
  BY <1>1, <1>2, MeantEmpty
<1> QED
  BY <1>1, <1>2, <1>3, <1>4, <1>5, MeantEmpty DEF CallerInv

LEMMA LongerStretch ==
    ASSUME NEW x \in Stretch, NEW m
    PROVE  [x EXCEPT !.samples = m] = [ratio |-> x.ratio, samples |-> m]
BY DEF Stretch

\* The stretch goes on, or a new one begins: what comes out of the resampler comes
\* after what was meant.
LEMMA SayingMeans ==
    ASSUME CallerInv, bridgeOpen, NEW chunk \in Seq(Int), NEW ratio \in FromAgent
    PROVE  LET next == Saying(ratio, chunk)
               p    == Process(ResamplerFor(ratio), chunk)
           IN  /\ next \in Seq(Stretch) /\ next # << >>
               /\ Follows(p.left, next[Len(next)].ratio, next[Len(next)].samples)
               /\ p.out \in Seq(Sample)
               /\ Meant(next) = Meant(said) \o p.out
<1> DEFINE next == Saying(ratio, chunk)
           up   == ResamplerFor(ratio)
           p    == Process(up, chunk)
<1>1. said \in Seq(Stretch) /\ Followed(ratio)
  BY AudioAssumption DEF CallerInv
<1>2. CASE downsampler.ratio = ratio
  <2>1. said # << >>
    <3>1. said = << >> => downsampler.ratio = [up |-> 0, down |-> 0]
      BY DEF CallerInv, NoResampler, Ratio
    <3>2. ratio.up # 0
      BY <1>1 DEF Followed
    <3> QED
      BY <1>2, <3>1, <3>2
  <2>2. PICK t \in Seq(Stretch), x \in Stretch : said = Append(t, x)
    BY <1>1, <2>1, SequenceEmptyOrAppend
  <2> DEFINE n == Len(said)
             more == x.samples \o chunk
             y == [ratio |-> x.ratio, samples |-> more]
  <2>3. /\ n = Len(t) + 1 /\ said[n] = x /\ \A i \in 1..Len(t) : said[i] = t[i]
        /\ Len(t) \in Nat
    BY <2>2, AppendProperties
  <2>4. /\ Followed(x.ratio) /\ x.samples \in Seq(Int)
        /\ Resampled(x.ratio, x.samples) \in Seq(Sample)
    BY StretchResampled
  <2>5. y \in Stretch /\ more \in Seq(Int)
    <3>1. more \in Seq(Int)
      BY <2>4, Assoc
    <3> QED
      BY <3>1 DEF Stretch
  <2>6. Follows(downsampler, x.ratio, x.samples)
    BY <2>1, <2>3 DEF CallerInv
  <2>7. up = downsampler
    BY <1>2 DEF ResamplerFor
  <2>8. /\ Follows(p.left, x.ratio, more) /\ p.out \in Seq(Sample)
        /\ Resampled(x.ratio, more) = Resampled(x.ratio, x.samples) \o p.out
    <3> DEFINE r == x.ratio
               s == x.samples
    <3>1. Followed(r) /\ s \in Seq(Int) /\ Follows(up, r, s)
      BY <2>4, <2>6, <2>7
    <3> HIDE DEF r, s, up
    <3>2. /\ Follows(Process(up, chunk).left, r, s \o chunk)
          /\ Process(up, chunk).out \in Seq(Sample)
          /\ Resampled(r, s \o chunk) = Resampled(r, s) \o Process(up, chunk).out
      BY <3>1, Processed
    <3> QED
      BY <3>2 DEF r, s
  <2>9. next = [said EXCEPT ![n].samples = @ \o chunk]
    BY <1>2 DEF Saying
  <2>10. next = Append(t, y)
    <3>1. next = [said EXCEPT ![n] = y]
      <4>1. [x EXCEPT !.samples = @ \o chunk] = y
        BY LongerStretch
      <4>2. next = [said EXCEPT ![n] = [said[n] EXCEPT !.samples = @ \o chunk]]
        BY <2>9
      <4> HIDE DEF next, y, n
      <4> QED
        BY <2>3, <4>1, <4>2
    <3> HIDE DEF y, next
    <3>2. n \in 1..Len(said) /\ Len(said) = n
      BY <2>3
    <3>3. /\ next \in Seq(Stretch) /\ Len(next) = n
          /\ \A i \in 1..n : next[i] = IF i = n THEN y ELSE said[i]
      BY <1>1, <2>5, <3>1, <3>2, ExceptSeq
    <3> DEFINE z == Append(t, y)
    <3>4. /\ z \in Seq(Stretch) /\ Len(z) = Len(t) + 1
          /\ \A i \in 1..Len(t) : z[i] = t[i]
          /\ z[Len(t) + 1] = y
      BY <2>5, AppendProperties
    <3> HIDE DEF z, n
    <3>5. ASSUME NEW i \in 1..Len(next) PROVE next[i] = z[i]
      <4>1. CASE i = n
        BY <2>3, <3>3, <3>4, <3>5, <4>1
      <4>2. CASE i # n
        <5>1. i \in 1..Len(t) /\ i \in 1..n
          BY <2>3, <3>3, <4>2
        <5> QED
          BY <2>3, <3>3, <3>4, <4>2, <5>1
      <4> QED
        BY <4>1, <4>2
    <3>6. Len(next) = Len(z)
      BY <2>3, <3>3, <3>4
    <3>7. next = z
      BY <3>3, <3>4, <3>5, <3>6, SeqEqual
    <3> QED
      BY <3>7 DEF z
  <2>11. next \in Seq(Stretch) /\ next # << >> /\ next[Len(next)] = y
    <3> HIDE DEF y, next
    <3> QED
      BY <2>5, <2>10, AppendProperties
  <2>12. Meant(next) = Meant(said) \o p.out
    <3>1. /\ Meant(next) = Meant(t) \o Resampled(y.ratio, y.samples)
          /\ Meant(t) \in Seq(Sample)
      <4> HIDE DEF y, next
      <4> QED
        BY <2>5, <2>10, MeantAppend
    <3>2. Meant(said) = Meant(t) \o Resampled(x.ratio, x.samples)
      BY <2>2, MeantAppend
    <3>3. Resampled(y.ratio, y.samples) = Resampled(x.ratio, x.samples) \o p.out
      BY <2>8
    <3> HIDE DEF y, p, next
    <3> DEFINE a == Meant(t)
               b == Resampled(x.ratio, x.samples)
               d == p.out
    <3>4. a \in Seq(Sample) /\ b \in Seq(Sample) /\ d \in Seq(Sample)
      BY <2>4, <2>8, <3>1
    <3>5. Meant(next) = a \o (b \o d) /\ Meant(said) = a \o b
      BY <3>1, <3>2, <3>3
    <3> HIDE DEF a, b, d
    <3>6. (a \o b) \o d = a \o (b \o d)
      BY <3>4, Assoc
    <3> QED
      BY <3>5, <3>6 DEF d
  <2>13. next[Len(next)].ratio = x.ratio /\ next[Len(next)].samples = more
    BY <2>11
  <2> HIDE DEF next, p
  <2> QED
    BY <2>8, <2>11, <2>12, <2>13 DEF next, p
<1>3. CASE downsampler.ratio # ratio
  <2> DEFINE y == [ratio |-> ratio, samples |-> chunk]
  <2>1. up = FreshResampler(ratio)
    BY <1>3 DEF ResamplerFor
  <2>2. next = Append(said, y)
    BY <1>3 DEF Saying
  <2>3. y \in Stretch
    BY DEF Stretch
  <2>4. /\ Follows(p.left, ratio, chunk) /\ p.out \in Seq(Sample)
        /\ Resampled(ratio, chunk) = p.out
    <3>1. Follows(up, ratio, << >>) /\ << >> \in Seq(Int)
      BY <1>1, <2>1, FreshFollows, EmptySeq
    <3> HIDE DEF up
    <3> DEFINE none == << >>
    <3>2. Follows(up, ratio, none) /\ none \in Seq(Int)
      BY <3>1
    <3> HIDE DEF none
    <3>3. /\ Follows(Process(up, chunk).left, ratio, none \o chunk)
          /\ Process(up, chunk).out \in Seq(Sample)
          /\ Resampled(ratio, none \o chunk)
                 = Resampled(ratio, none) \o Process(up, chunk).out
      BY <1>1, <3>2, Processed
    <3>4. none \o chunk = chunk /\ none \o Process(up, chunk).out = Process(up, chunk).out
      BY <3>3, ConcatEmptySeq DEF none
    <3>5. Resampled(ratio, none) = none
      BY <1>1, SilenceResampled DEF none
    <3> QED
      BY <3>3, <3>4, <3>5
  <2> HIDE DEF next, p
  <2>5. y.ratio = ratio /\ y.samples = chunk
    OBVIOUS
  <2> HIDE DEF y
  <2>6. next \in Seq(Stretch) /\ next # << >> /\ next[Len(next)] = y
    BY <1>1, <2>2, <2>3, AppendProperties
  <2>7. Meant(next) = Meant(said) \o p.out
    BY <1>1, <2>2, <2>3, <2>4, <2>5, MeantAppend
  <2> QED
    BY <2>4, <2>5, <2>6, <2>7 DEF next, p
<1> QED
  BY <1>2, <1>3

\* A chunk from the agent: what cannot be sent in whole frames waits.
LEMMA CallerSpeak ==
    ASSUME CallerInv, NEW k \in ChunkSizes, NEW ratio \in FromAgent, Speak(k, ratio)
    PROVE  CallerInv'
<1> DEFINE chunk    == Samples(spoken, k)
           p        == Process(ResamplerFor(ratio), chunk)
           next     == Saying(ratio, chunk)
           combined == remainder \o p.out
           f        == FlattenSeq(FramesIn(combined, TwilioFrame))
           l        == Leftover(combined, TwilioFrame)
           n        == Len(combined) \div TwilioFrame
<1>1. /\ spoken \in Nat /\ sent \in Seq(Sample) /\ remainder \in Seq(Sample)
      /\ bridgeOpen /\ k \in Nat /\ TwilioFrame \in Nat \ {0}
  BY AudioAssumption DEF CallerInv, Speak
<1>2. chunk \in Seq(Int)
  BY <1>1, SamplesType
<1>3. /\ next \in Seq(Stretch) /\ next # << >>
      /\ Follows(p.left, next[Len(next)].ratio, next[Len(next)].samples)
      /\ p.out \in Seq(Sample)
      /\ Meant(next) = Meant(said) \o p.out
  <2> HIDE DEF chunk
  <2> QED
    BY <1>1, <1>2, SayingMeans
<1>4. /\ spoken' = spoken + k /\ said' = next /\ downsampler' = p.left
      /\ sent' = sent \o f /\ remainder' = l /\ bridgeOpen' = bridgeOpen
  BY DEF Speak
<1> HIDE DEF chunk, p, next
<1>5. combined \in Seq(Sample)
  BY <1>1, <1>3, Assoc
<1>6. /\ l \in Seq(Sample) /\ Len(l) < TwilioFrame /\ f \o l = combined
      /\ Len(f) = n * TwilioFrame /\ f \in Seq(Sample) /\ n \in Nat
  <2> HIDE DEF combined
  <2>1. FramesIn(combined, TwilioFrame) \in Seq(Seq(Sample))
    BY <1>1, <1>5, Frames
  <2>2. /\ l \in Seq(Sample) /\ Len(l) < TwilioFrame /\ f \o l = combined
        /\ Len(f) = n * TwilioFrame
    BY <1>1, <1>5, Frames
  <2>3. Len(combined) \in Nat
    BY <1>5
  <2> QED
    BY <1>1, <2>1, <2>2, <2>3, FlattenType
<1>7. PICK frames \in Nat : Len(sent) = frames * TwilioFrame
  BY DEF CallerInv
<1>8. sent \o remainder = Meant(said)
  BY <1>1 DEF CallerInv
<1> HIDE DEF f, l, n
<1>9. sent \o f \in Seq(Sample) /\ Len(sent \o f) = Len(sent) + Len(f)
  BY <1>1, <1>6, ConcatProperties
<1>10. \E more \in Nat : Len(sent') = more * TwilioFrame
  <2>1. frames * TwilioFrame + n * TwilioFrame = (frames + n) * TwilioFrame
    BY <1>1, <1>6
  <2>2. Len(sent') = (frames + n) * TwilioFrame /\ frames + n \in Nat
    BY <1>4, <1>6, <1>7, <1>9, <2>1
  <2> QED
    BY <2>2
<1>11. sent' \o remainder' = Meant(said')
  <2>1. \A a, b, d \in Seq(Sample) : (a \o b) \o d = a \o (b \o d)
    BY SamplesAssoc
  <2>2. (sent \o f) \o l = sent \o (f \o l)
    BY <1>1, <1>6, <2>1
  <2>3. sent \o (remainder \o p.out) = (sent \o remainder) \o p.out
    BY <1>1, <1>3, <2>1
  <2> QED
    BY <1>3, <1>4, <1>6, <1>8, <2>2, <2>3
<1>12. \E rest \in Seq(Sample) : sent' \o rest = Meant(said')
  BY <1>4, <1>6, <1>11
<1>13. spoken' \in Nat
  BY <1>1, <1>4
<1>14. /\ said' # << >> /\ said' \in Seq(Stretch)
       /\ Follows(downsampler', said'[Len(said')].ratio, said'[Len(said')].samples)
  BY <1>3, <1>4
<1> QED
  BY <1>1, <1>4, <1>6, <1>9, <1>10, <1>11, <1>12, <1>13, <1>14 DEF CallerInv

\* The end: what waits to be sent is let go of with the bridge, or stays with it.
LEMMA CallerEnds ==
    ASSUME CallerInv, UNCHANGED <<spoken, said, sent>>, bridgeOpen' \in BOOLEAN,
           IF bridgeOpen' THEN bridgeOpen /\ UNCHANGED <<remainder, downsampler>>
                          ELSE \/ /\ remainder' = << >>
                                  /\ downsampler' = IF downsampler = NoResampler
                                       THEN NoResampler
                                       ELSE FreshResampler(downsampler.ratio)
                               \/ ~bridgeOpen /\ UNCHANGED <<remainder, downsampler>>
    PROVE  CallerInv'
<1>1. << >> \in Seq(Sample) /\ Len(<< >>) = 0 /\ 0 < TwilioFrame
  BY EmptySeq, AudioAssumption
<1>2. /\ remainder \in Seq(Sample) /\ Len(remainder) < TwilioFrame
      /\ said \in Seq(Stretch)
  BY DEF CallerInv
<1>3. remainder' \in Seq(Sample) /\ Len(remainder') < TwilioFrame
  <2>1. remainder' = remainder \/ remainder' = << >>
    OBVIOUS
  <2> QED
    BY <1>1, <1>2, <2>1
<1>4. said = << >> => downsampler' = NoResampler
  BY DEF CallerInv
<1>5. ASSUME said # << >>
      PROVE  LET last == said[Len(said)]
             IN  IF bridgeOpen' THEN Follows(downsampler', last.ratio, last.samples)
                                ELSE downsampler' = FreshResampler(last.ratio)
  <2> DEFINE last == said[Len(said)]
  <2>1. IF bridgeOpen THEN Follows(downsampler, last.ratio, last.samples)
                      ELSE downsampler = FreshResampler(last.ratio)
    BY <1>5 DEF CallerInv
  <2>2. downsampler.ratio = last.ratio
    BY <2>1 DEF Follows, FreshResampler
  <2>3. last.ratio # NoResampler.ratio
    <3>1. Len(said) \in 1..Len(said)
      BY <1>2, <1>5, EmptySeq
    <3>2. last \in Stretch
      BY <1>2, <3>1
    <3>3. last.ratio.up # 0
      BY <3>2, AudioAssumption DEF Stretch, Followed
    <3> QED
      BY <3>3 DEF NoResampler, Ratio
  <2>4. downsampler # NoResampler
    BY <2>2, <2>3
  <2>5. bridgeOpen' => bridgeOpen /\ downsampler' = downsampler
    OBVIOUS
  <2>6. ~bridgeOpen' => \/ ~bridgeOpen /\ downsampler' = downsampler
                        \/ downsampler' = FreshResampler(last.ratio)
    BY <2>2, <2>4
  <2> HIDE DEF last
  <2>7. ASSUME bridgeOpen' PROVE Follows(downsampler', last.ratio, last.samples)
    BY <2>1, <2>5, <2>7
  <2>8. IF bridgeOpen' THEN Follows(downsampler', last.ratio, last.samples)
                       ELSE downsampler' = FreshResampler(last.ratio)
    BY <2>1, <2>6, <2>7
  <2> QED
    BY <2>8 DEF last
<1>6. bridgeOpen' => bridgeOpen /\ remainder' = remainder
  OBVIOUS
<1> QED
  BY <1>3, <1>4, <1>5, <1>6 DEF CallerInv

LEMMA CallerStep ==
    ASSUME AgentInv, CallerInv, [AudioNext]_audioVars
    PROVE  CallerInv'
<1>1. ASSUME UNCHANGED <<toCaller, bridgeOpen>> PROVE CallerInv'
  BY <1>1 DEF CallerInv, toCaller
<1>2. ASSUME NEW k \in ChunkSizes, HoldBack(k) PROVE CallerInv'
  BY <1>1, <1>2 DEF HoldBack
<1>3. ASSUME NEW k \in ChunkSizes, PassOn(k) PROVE CallerInv'
  BY <1>1, <1>3 DEF PassOn
<1>4. ASSUME NEW k \in ChunkSizes, NEW ratio \in FromAgent, Speak(k, ratio) PROVE CallerInv'
  BY <1>4, CallerSpeak
<1>5. ASSUME MarkAgentReady PROVE CallerInv'
  BY <1>1, <1>5 DEF MarkAgentReady
<1>6. ASSUME FrameTaken PROVE CallerInv'
  BY <1>1, <1>6 DEF FrameTaken
<1>7. ASSUME RoomCloses PROVE CallerInv'
  BY <1>1, <1>7 DEF RoomCloses
<1>8. ASSUME BridgeCloses PROVE CallerInv'
  <2>1. /\ UNCHANGED <<spoken, said, sent>> /\ ~bridgeOpen' /\ bridgeOpen' \in BOOLEAN
        /\ remainder' = << >>
        /\ downsampler' = IF downsampler = NoResampler
                            THEN NoResampler ELSE FreshResampler(downsampler.ratio)
    BY <1>8 DEF BridgeCloses, Released
  <2> QED
    BY <2>1, CallerEnds
<1>9. ASSUME CaptureRejected PROVE CallerInv'
  <2>1. /\ UNCHANGED <<spoken, said, sent>> /\ bridgeOpen' = (bridgeOpen /\ ~roomOpen)
        /\ bridgeOpen \in BOOLEAN /\ bridgeOpen' \in BOOLEAN
    BY <1>9 DEF CaptureRejected, AgentInv
  <2>2. CASE roomOpen
    <3>1. /\ ~bridgeOpen' /\ remainder' = << >>
          /\ downsampler' = IF downsampler = NoResampler
                              THEN NoResampler ELSE FreshResampler(downsampler.ratio)
      BY <1>9, <2>1, <2>2 DEF CaptureRejected, Released
    <3> QED
      BY <2>1, <3>1, CallerEnds
  <2>3. CASE ~roomOpen
    <3>1. UNCHANGED <<toCaller, bridgeOpen>>
      BY <1>9, <2>1, <2>3 DEF CaptureRejected, toCaller
    <3> QED
      BY <1>1, <3>1
  <2> QED
    BY <2>2, <2>3
<1>10. CASE UNCHANGED audioVars
  BY <1>1, <1>10 DEF audioVars
<1> QED
  BY <1>2, <1>3, <1>4, <1>5, <1>6, <1>7, <1>8, <1>9, <1>10 DEF AudioNext

-----------------------------------------------------------------------------
(* The theorems. *)

LEMMA AudioAlways == AudioSpec => [](AgentInv /\ CallerInv)
<1>1. AgentInv /\ CallerInv /\ [AudioNext]_audioVars => (AgentInv /\ CallerInv)'
  BY AgentStep, CallerStep
<1>2. AudioInit => AgentInv /\ CallerInv
  BY AgentInit, CallerInit
<1> QED
  BY <1>1, <1>2, PTL DEF AudioSpec

\* The agent hears the caller in order (AudioBridge's forwarding and LiveKitRoomBridge's
\* frames, queue and pump): what the room has taken and what is on the way to it is what
\* was forwarded, resampled in one piece, without the samples that were dropped; and
\* after the room has closed, a beginning of that.
THEOREM HeardInOrderTheorem == AudioSpec => []HeardInOrder
<1>1. ASSUME AgentInv PROVE HeardInOrder
  <2> DEFINE meant == Without(Resampled(ToAgent, forwarded), lost)
             f     == FlattenSeq(queue)
  <2>1. /\ Line \in Lines /\ captured \in Seq(Sample) /\ roomOpen \in BOOLEAN
        /\ capturing \in Seq(Sample) /\ f \in Seq(Sample) /\ pending \in Seq(Sample)
    BY <1>1, LineTypes, QueueIsFrames, FlattenType DEF AgentInv
  <2>2. \A a, b, c \in Seq(Sample) : (a \o b) \o c = a \o (b \o c) /\ a \o b \in Seq(Sample)
    BY SamplesAssoc
  <2>3. OnTheWay = (capturing \o f) \o pending
    BY DEF OnTheWay
  <2>4. CASE roomOpen
    <3>1. Carries(captured, Line)
      BY <1>1, <2>4 DEF AgentInv
    <3>2. /\ Line.capturing = capturing /\ Line.queue = queue /\ Line.pending = pending
          /\ Line.forwarded = forwarded /\ Line.lost = lost
      BY DEF Line
    <3>3. (captured \o Line.capturing) \o (FlattenSeq(Line.queue) \o Line.pending)
              = Without(Resampled(ToAgent, Line.forwarded), Line.lost)
      BY <3>1, CarriesMeant
    <3>4. (captured \o capturing) \o (f \o pending) = meant
      BY <3>2, <3>3
    <3> HIDE DEF f, meant
    <3>5. /\ f \o pending \in Seq(Sample)
          /\ (capturing \o f) \o pending = capturing \o (f \o pending)
      BY <2>1, <2>2
    <3> DEFINE waiting == f \o pending
    <3>6. waiting \in Seq(Sample)
      BY <3>5
    <3> HIDE DEF waiting
    <3>7. (captured \o capturing) \o waiting = captured \o (capturing \o waiting)
      BY <2>1, <2>2, <3>6
    <3>8. captured \o OnTheWay = meant
      BY <2>3, <3>4, <3>5, <3>7 DEF waiting
    <3> QED
      BY <2>4, <3>8 DEF HeardInOrder, meant
  <2>5. CASE ~roomOpen
    <3>1. pending = << >> /\ queue = << >>
      BY <1>1, <2>5 DEF AgentInv
    <3>2. f = << >>
      BY <3>1, FlattenEmpty
    <3>3. capturing \o << >> = capturing
      BY <2>1, ConcatEmptySeq
    <3>4. OnTheWay = capturing
      BY <2>3, <3>1, <3>2, <3>3
    <3>5. PICK rest \in Seq(Sample) : (captured \o capturing) \o rest = meant
      BY <1>1, <2>5 DEF AgentInv
    <3>6. captured \o capturing \in Seq(Sample)
      BY <2>1, <2>2
    <3>7. IsPrefix(captured \o capturing, (captured \o capturing) \o rest)
      BY <3>5, <3>6, PrefixIs
    <3> QED
      BY <2>5, <3>4, <3>5, <3>7 DEF HeardInOrder
  <2> QED
    BY <2>1, <2>4, <2>5
<1>2. AgentInv /\ CallerInv => HeardInOrder
  BY <1>1
<1> QED
  BY <1>2, AudioAlways, PTL

\* The agent may miss the past, never the present (the bound of the frame queue and
\* preconnectFrameLimit): what was dropped is older than everything that still waits, and
\* what was forwarded or is held back are the samples that arrived last, none missing.
THEOREM OnlyThePastIsLostTheorem == AudioSpec => []OnlyThePastIsLost
<1>1. ASSUME AgentInv, roomOpen
      PROVE  \A s \in lost : \A t \in ToSet(FlattenSeq(queue) \o pending) : s.n < t.n
  <2>1. Carries(captured, Line)
    BY <1>1 DEF AgentInv
  <2>2. Line.queue = queue /\ Line.pending = pending /\ Line.lost = lost
    BY DEF Line
  <2>3. Before(Line.lost, ToSet(FlattenSeq(Line.queue) \o Line.pending))
    BY <2>1, CarriesMeant
  <2> QED
    BY <2>2, <2>3 DEF Before
<1>2. ASSUME AgentInv, roomOpen
      PROVE  LET kept == forwarded \o FlattenSeq(held)
             IN  kept = Samples(heard - Len(kept), Len(kept))
  BY <1>2 DEF AgentInv, Recent
<1>3. AgentInv /\ CallerInv => OnlyThePastIsLost
  BY <1>1, <1>2 DEF OnlyThePastIsLost
<1> QED
  BY <1>3, AudioAlways, PTL

\* Nothing that waits grows with the call, and no frame waits for a pump that does not
\* run (frameQueue, preconnectQueue, the pending samples and outboundRemainder).
THEOREM BacklogDrainsTheorem == AudioSpec => []BacklogDrains
<1>1. ASSUME AgentInv, CallerInv PROVE BacklogDrains
  <2>1. Len(held) <= PreconnectLimit /\ Len(remainder) < TwilioFrame /\ roomOpen \in BOOLEAN
    BY <1>1 DEF AgentInv, CallerInv
  <2>2. CASE roomOpen
    <3>1. Carries(captured, Line)
      BY <1>1, <2>2 DEF AgentInv
    <3>2. /\ Line.capturing = capturing /\ Line.queue = queue /\ Line.pending = pending
      BY DEF Line
    <3>3. /\ Len(Line.pending) < FrameSamples /\ Len(Line.queue) <= Backlog
          /\ Line.queue # << >> => Line.capturing # << >>
      BY <3>1 DEF Carries, Framed
    <3> QED
      BY <2>1, <3>2, <3>3 DEF BacklogDrains
  <2>3. CASE ~roomOpen
    <3>1. pending = << >> /\ queue = << >>
      BY <1>1, <2>3 DEF AgentInv
    <3>2. Len(<< >>) = 0 /\ 0 <= Backlog /\ 0 < FrameSamples
      BY AudioAssumption, EmptySeq
    <3> QED
      BY <2>1, <3>1, <3>2 DEF BacklogDrains
  <2> QED
    BY <2>1, <2>2, <2>3
<1>2. AgentInv /\ CallerInv => BacklogDrains
  BY <1>1
<1> QED
  BY <1>2, AudioAlways, PTL

\* A filter keeps what its next output looks back on and nothing else (resampler.ts, the
\* trim after render), whatever the sizes of the chunks and however long the call.
THEOREM HistoryKeptTheorem == AudioSpec => []HistoryKept
<1>1. ASSUME NEW ratio, Followed(ratio) PROVE HistoryBounded(FreshResampler(ratio))
  <2>1. Follows(FreshResampler(ratio), ratio, << >>) /\ << >> \in Seq(Int)
    BY <1>1, FreshFollows, EmptySeq
  <2> DEFINE r == FreshResampler(ratio)
             none == << >>
  <2>2. Follows(r, ratio, none) /\ none \in Seq(Int)
    BY <2>1
  <2> HIDE DEF r, none
  <2>3. HistoryBounded(r)
    BY <1>1, <2>2, FollowsBounded
  <2> QED
    BY <2>3 DEF r
<1>2. ASSUME AgentInv PROVE HistoryBounded(upsampler)
  <2>1. Followed(ToAgent) /\ forwarded \in Seq(Int) /\ bridgeOpen \in BOOLEAN
    BY <1>2, AudioAssumption, LineTypes DEF AgentInv
  <2>2. CASE bridgeOpen
    <3>1. Follows(upsampler, ToAgent, forwarded)
      BY <1>2, <2>2 DEF AgentInv
    <3> QED
      BY <2>1, <3>1, FollowsBounded
  <2>3. CASE ~bridgeOpen
    BY <1>1, <1>2, <2>1, <2>3 DEF AgentInv
  <2> QED
    BY <2>1, <2>2, <2>3
<1>3. ASSUME AgentInv, CallerInv, downsampler # NoResampler PROVE HistoryBounded(downsampler)
  <2>1. said # << >> /\ said \in Seq(Stretch) /\ bridgeOpen \in BOOLEAN
    BY <1>3 DEF AgentInv, CallerInv
  <2> DEFINE x == said[Len(said)]
  <2>2. x \in Stretch
    <3>1. Len(said) \in 1..Len(said)
      BY <2>1, EmptySeq
    <3> QED
      BY <2>1, <3>1
  <2>3. IF bridgeOpen THEN Follows(downsampler, x.ratio, x.samples)
                      ELSE downsampler = FreshResampler(x.ratio)
    BY <1>3, <2>1 DEF CallerInv
  <2> HIDE DEF x
  <2>4. Followed(x.ratio) /\ x.samples \in Seq(Int)
    BY <2>2, AudioAssumption DEF Stretch
  <2> DEFINE r == x.ratio
             s == x.samples
  <2>5. /\ Followed(r) /\ s \in Seq(Int)
        /\ IF bridgeOpen THEN Follows(downsampler, r, s)
                         ELSE downsampler = FreshResampler(r)
    BY <2>3, <2>4
  <2> HIDE DEF r, s
  <2>6. CASE bridgeOpen
    BY <2>5, <2>6, FollowsBounded
  <2>7. CASE ~bridgeOpen
    BY <1>1, <2>5, <2>7
  <2> QED
    BY <2>1, <2>6, <2>7
<1>4. AgentInv /\ CallerInv => HistoryKept
  BY <1>2, <1>3 DEF HistoryKept
<1> QED
  BY <1>4, AudioAlways, PTL

LEMMA WholeFrames ==
    ASSUME NEW n \in Nat, NEW size \in Nat \ {0}
    PROVE  (n * size) % size = 0
<1> DEFINE all == n * size
           q   == all \div size
           r   == all % size
<1>1. all \in Nat
  OBVIOUS
<1> HIDE DEF all
<1>2. q \in Int /\ r \in 0..(size - 1) /\ all = size * q + r
  BY <1>1
<1> HIDE DEF q, r
<1>3. all = q * size + r
  BY <1>2
<1>4. CASE q + 1 <= n
  <2>1. (q + 1) * size <= n * size
    BY <1>2, <1>4, Products
  <2>2. (q + 1) * size = q * size + size
    BY <1>2
  <2> QED
    BY <1>2, <1>3, <2>1, <2>2 DEF all
<1>5. CASE n <= q
  <2>1. n * size <= q * size
    BY <1>2, <1>5, Products
  <2> QED
    BY <1>2, <1>3, <2>1 DEF all, r
<1> QED
  BY <1>2, <1>4, <1>5

\* The caller hears what the agent said, each stretch of one rate resampled in one piece,
\* whole, in order and in whole frames (pumpAgentAudio, handleAgentAudio); after the
\* bridge has closed, a beginning of it.
THEOREM SpokenInOrderTheorem == AudioSpec => []SpokenInOrder
<1>1. ASSUME AgentInv, CallerInv PROVE SpokenInOrder
  <2>1. /\ sent \in Seq(Sample) /\ bridgeOpen \in BOOLEAN
        /\ bridgeOpen => sent \o remainder = Meant(said)
    BY <1>1 DEF AgentInv, CallerInv
  <2>2. PICK frames \in Nat : Len(sent) = frames * TwilioFrame
    BY <1>1 DEF CallerInv
  <2>3. Len(sent) % TwilioFrame = 0
    BY <2>2, WholeFrames, AudioAssumption
  <2>4. PICK rest \in Seq(Sample) : sent \o rest = Meant(said)
    BY <1>1 DEF CallerInv
  <2>5. IsPrefix(sent, Meant(said))
    BY <2>1, <2>4, PrefixIs
  <2>6. Meant(said) = FlattenSeq([i \in 1..Len(said) |->
                                      Resampled(said[i].ratio, said[i].samples)])
    BY DEF Meant
  <2> QED
    BY <2>1, <2>3, <2>5, <2>6 DEF SpokenInOrder
<1>2. AgentInv /\ CallerInv => SpokenInOrder
  BY <1>1
<1> QED
  BY <1>2, AudioAlways, PTL

-----------------------------------------------------------------------------
(* The opening.  The flush forwards at most as many samples as fit into the *)
(* frame being captured and the frames that may wait, so none is dropped;   *)
(* and a filter that does not slow its input down gives every sample of it  *)
(* an output of which it is the newest.                                     *)

\* How many frames there are between the cutting and the room.
InLine(line) == Len(line.queue) + IF line.capturing = << >> THEN 0 ELSE 1

\* What every line is: its frames wait for a pump that runs.
Pumped(line) ==
    /\ line \in Lines /\ Len(line.queue) <= Backlog
    /\ line.queue # << >> => line.capturing # << >>

LEMMA InLineIs ==
    ASSUME NEW line, Pumped(line)
    PROVE  /\ line.capturing = << >> => InLine(line) = 0
           /\ line.capturing # << >> => InLine(line) = Len(line.queue) + 1
           /\ InLine(line) \in Nat /\ Len(line.queue) \in Nat
           /\ line \in Lines /\ line.queue \in Seq(Frame)
           /\ line.pending \in Seq(Sample) /\ Len(line.pending) \in Nat
<1>1. /\ line \in Lines /\ line.queue \in Seq(Frame) /\ line.pending \in Seq(Sample)
  BY DEF Pumped, Lines
<1>2. Len(line.queue) \in Nat /\ Len(line.pending) \in Nat
  BY <1>1
<1>3. line.capturing = << >> => line.queue = << >>
  BY DEF Pumped
<1>4. CASE line.capturing = << >>
  <2>1. Len(line.queue) = 0
    BY <1>3, <1>4, EmptySeq
  <2>2. InLine(line) = 0 + 0
    BY <1>4, <2>1 DEF InLine
  <2> QED
    BY <1>1, <1>2, <1>4, <2>2
<1>5. CASE line.capturing # << >>
  <2>1. InLine(line) = Len(line.queue) + 1
    BY <1>5 DEF InLine
  <2> QED
    BY <1>1, <1>2, <1>5, <2>1
<1> QED
  BY <1>4, <1>5

LEMMA EnqueueFits ==
    ASSUME NEW line, Pumped(line), NEW frame \in Frame, InLine(line) <= Backlog
    PROVE  LET next == Enqueue(line, frame)
           IN  /\ Pumped(next) /\ InLine(next) = InLine(line) + 1
               /\ next.lost = line.lost
<1> DEFINE next == Enqueue(line, frame)
           q    == line.queue
           r    == next.queue
<1>1. /\ next \in Lines
      /\ \/ /\ line.capturing = << >> /\ q = << >>
            /\ next.capturing = frame /\ r = << >>
            /\ next.lost = line.lost
         \/ /\ line.capturing # << >> /\ Len(q) < Backlog
            /\ next.capturing = line.capturing
            /\ r = Append(q, frame)
            /\ next.lost = line.lost
         \/ line.capturing # << >> /\ Len(q) = Backlog
  BY EnqueueIs DEF Pumped
<1>2. /\ frame # << >> /\ q \in Seq(Frame) /\ Len(q) \in Nat /\ Backlog \in Nat \ {0}
      /\ line.capturing = << >> => InLine(line) = 0
      /\ line.capturing # << >> => InLine(line) = Len(q) + 1
  BY InLineIs, AudioAssumption DEF Frame
<1> HIDE DEF next
<1>3. ASSUME line.capturing = << >>, next.capturing = frame, r = << >>,
             next.lost = line.lost
      PROVE  Pumped(next) /\ InLine(next) = InLine(line) + 1
  <2>1. Len(r) = 0
    BY <1>3, EmptySeq
  <2>2. Pumped(next)
    BY <1>1, <1>2, <1>3, <2>1 DEF Pumped
  <2>3. next.capturing # << >>
    BY <1>2, <1>3
  <2>4. InLine(next) = Len(r) + 1
    BY <2>2, <2>3, InLineIs
  <2> QED
    BY <1>2, <1>3, <2>1, <2>2, <2>4
<1>4. ASSUME line.capturing # << >>, Len(q) < Backlog,
             next.capturing = line.capturing, r = Append(q, frame),
             next.lost = line.lost
      PROVE  Pumped(next) /\ InLine(next) = InLine(line) + 1
  <2>1. Len(r) = Len(q) + 1
    BY <1>2, <1>4
  <2>2. Pumped(next)
    BY <1>1, <1>2, <1>4, <2>1 DEF Pumped
  <2>3. InLine(next) = Len(r) + 1
    BY <1>4, <2>2, InLineIs
  <2> QED
    BY <1>2, <1>4, <2>1, <2>2, <2>3
<1>5. ~(line.capturing # << >> /\ Len(q) = Backlog)
  BY <1>2
<1> QED
  BY <1>1, <1>3, <1>4, <1>5 DEF next

\* Frames and what is short of one: as many samples as there were.
LEMMA CaptureFits ==
    ASSUME NEW line, Pumped(line), NEW samples \in Seq(Sample),
           FrameSamples * InLine(line) + Len(line.pending) + Len(samples)
               < FrameSamples * (Backlog + 2)
    PROVE  LET next == Capture(line, samples)
           IN  /\ Pumped(next) /\ next.lost = line.lost
               /\ FrameSamples * InLine(next) + Len(next.pending)
                      = FrameSamples * InLine(line) + Len(line.pending) + Len(samples)
<1> DEFINE next == Capture(line, samples)
           c    == line.pending \o samples
           F    == FramesIn(c, FrameSamples)
           n    == Len(c) \div FrameSamples
           left == Leftover(c, FrameSamples)
           m    == InLine(line)
           size == FrameSamples
<1>1. /\ line \in Lines /\ line.pending \in Seq(Sample)
      /\ c \in Seq(Sample) /\ size \in Nat \ {0} /\ Backlog \in Nat
      /\ Len(c) = Len(line.pending) + Len(samples) /\ Len(c) \in Nat
      /\ m \in Nat
  <2>1. line \in Lines /\ line.pending \in Seq(Sample) /\ m \in Nat
    BY InLineIs
  <2>2. c \in Seq(Sample) /\ Len(c) = Len(line.pending) + Len(samples)
    BY <2>1
  <2>3. Len(c) \in Nat
    BY <2>2
  <2> HIDE DEF c, m
  <2> QED
    BY <2>1, <2>2, <2>3, AudioAssumption
<1> HIDE DEF c
<1>2. /\ F \in Seq(Seq(Sample)) /\ n \in Nat /\ Len(F) = n /\ DOMAIN F = 1..n
      /\ \A i \in 1..n : F[i] \in Frame
      /\ left \in Seq(Sample) /\ Len(c) = n * size + Len(left)
  <2>1. /\ F \in Seq(Seq(Sample)) /\ Len(F) = n
        /\ \A i \in 1..n : Len(F[i]) = size
        /\ left \in Seq(Sample)
        /\ FlattenSeq(F) \o left = c
        /\ Len(FlattenSeq(F)) = n * size
    BY <1>1, Frames
  <2>2. n \in Nat
    <3> DEFINE k == Len(c)
    <3>1. k \in Nat
      BY <1>1
    <3> HIDE DEF k
    <3>2. (k \div size) \in Nat
      BY <1>1, <3>1
    <3> QED
      BY <3>2 DEF k
  <2> HIDE DEF F, left, n
  <2>3. \A i \in 1..n : F[i] \in Seq(Sample) /\ F[i] # << >>
    BY <1>1, <2>1, <2>2, EmptySeq
  <2>4. FlattenSeq(F) \in Seq(Sample)
    BY <2>1, FlattenType
  <2>5. Len(FlattenSeq(F) \o left) = Len(FlattenSeq(F)) + Len(left)
    BY <2>1, <2>4
  <2> QED
    BY <2>1, <2>2, <2>3, <2>5 DEF Frame
<1>3. m + n <= Backlog + 1
  <2> HIDE DEF n, m, left
  <2> SUFFICES ASSUME Backlog + 2 <= m + n PROVE FALSE
    BY <1>1, <1>2
  <2>1. (Backlog + 2) * size <= (m + n) * size
    BY <1>1, <1>2, Products
  <2>2. (m + n) * size = size * m + n * size /\ (Backlog + 2) * size = size * (Backlog + 2)
    BY <1>1, <1>2
  <2>3. size * m + Len(c) < size * (Backlog + 2)
    <3>1. size * m \in Int
      BY <1>1
    <3> QED
      BY <1>1, <3>1 DEF m
  <2>4. size * m \in Int /\ n * size \in Int /\ size * (Backlog + 2) \in Int /\ Len(left) \in Nat
    BY <1>1, <1>2
  <2> QED
    BY <1>2, <2>1, <2>2, <2>3, <2>4
<1>4. PICK g : /\ g[0] = line
               /\ \A k \in 0..(Len(F) - 1) : g[k + 1] = Enqueue(g[k], F[k + 1])
               /\ FoldLeft(Enqueue, line, F) = g[Len(F)]
  <2>1. Len(F) \in Nat /\ DOMAIN F = 1..Len(F)
    BY <1>2
  <2> HIDE DEF F
  <2> QED
    BY <2>1, FoldingEnqueue, ZenonT(40)
<1>5. next = [g[n] EXCEPT !.pending = left]
  BY <1>2, <1>4 DEF Capture, c
<1> HIDE DEF F, n, left, m, next
<1> DEFINE T == {k \in Nat : k \in 0..n => /\ Pumped(g[k]) /\ InLine(g[k]) = m + k
                                           /\ g[k].lost = line.lost}
<1>6. 0 \in T
  <2>1. m + 0 = m
    BY <1>1
  <2> QED
    BY <1>4, <2>1 DEF m
<1>7. ASSUME NEW k \in Nat, k \in T PROVE k + 1 \in T
  <2> SUFFICES ASSUME k + 1 \in 0..n
               PROVE  /\ Pumped(g[k + 1]) /\ InLine(g[k + 1]) = m + (k + 1)
                      /\ g[k + 1].lost = line.lost
    OBVIOUS
  <2>1. k \in 0..n /\ k \in 0..(Len(F) - 1) /\ k + 1 \in 1..n /\ m + k <= Backlog
    BY <1>1, <1>2, <1>3
  <2>2. Pumped(g[k]) /\ InLine(g[k]) = m + k /\ g[k].lost = line.lost
    BY <1>7, <2>1
  <2>3. F[k + 1] \in Frame /\ g[k + 1] = Enqueue(g[k], F[k + 1])
    BY <1>2, <1>4, <2>1
  <2>4. /\ Pumped(Enqueue(g[k], F[k + 1]))
        /\ InLine(Enqueue(g[k], F[k + 1])) = InLine(g[k]) + 1
        /\ Enqueue(g[k], F[k + 1]).lost = g[k].lost
    BY <2>1, <2>2, <2>3, EnqueueFits
  <2>5. (m + k) + 1 = m + (k + 1)
    BY <1>1
  <2> QED
    BY <2>2, <2>3, <2>4, <2>5
<1>8. Pumped(g[n]) /\ InLine(g[n]) = m + n /\ g[n].lost = line.lost
  <2>1. n \in T
    <3> HIDE DEF T
    <3> QED
      BY <1>2, <1>6, <1>7, Induction
  <2> QED
    BY <1>2, <2>1
<1>9. /\ next \in Lines /\ next.pending = left /\ next.queue = g[n].queue
      /\ next.capturing = g[n].capturing /\ next.lost = g[n].lost
  <2>1. g[n] \in Lines
    BY <1>8 DEF Pumped
  <2> QED
    BY <1>2, <1>5, <2>1 DEF Lines
<1>10. Pumped(next) /\ InLine(next) = m + n
  BY <1>8, <1>9 DEF Pumped, InLine
<1>11. size * (m + n) + Len(left) = size * m + Len(line.pending) + Len(samples)
  <2>1. size * (m + n) = size * m + n * size
    BY <1>1, <1>2
  <2>2. size * m \in Int /\ n * size \in Int /\ Len(left) \in Nat
        /\ Len(line.pending) \in Nat /\ Len(samples) \in Nat
    BY <1>1, <1>2
  <2> DEFINE x == size * m
             y == n * size
             z == size * (m + n)
  <2>3. /\ z = x + y /\ x \in Int /\ y \in Int
        /\ Len(c) = y + Len(left) /\ Len(c) = Len(line.pending) + Len(samples)
    BY <1>1, <1>2, <2>1, <2>2
  <2> HIDE DEF x, y, z
  <2>4. z + Len(left) = x + Len(line.pending) + Len(samples)
    BY <2>2, <2>3
  <2> QED
    BY <2>4 DEF x, z
<1> QED
  BY <1>8, <1>9, <1>10, <1>11 DEF next, m

\* Nothing was dropped, and as many samples are on their way as came out.
Fits(line) ==
    /\ line.lost = {}
    /\ FrameSamples * InLine(line) + Len(line.pending) = Reach(ToAgent, Len(line.forwarded))

LEMMA ForwardFits ==
    ASSUME NEW got, NEW line, Carries(got, line), Fits(line), NEW samples \in Seq(Int),
           roomOpen,
           Reach(ToAgent, Len(line.forwarded \o samples)) < FrameSamples * (Backlog + 2)
    PROVE  Fits(Forward(line, samples))
<1> DEFINE r    == Process(line.upsampler, samples)
           more == line.forwarded \o samples
           l2   == [line EXCEPT !.upsampler = r.left, !.forwarded = more]
           out  == r.out
           next == Forward(line, samples)
<1>1. /\ Pumped(line) /\ line.forwarded \in Seq(Int) /\ line.pending \in Seq(Sample)
      /\ Followed(ToAgent) /\ more \in Seq(Int)
  <2>1. line \in Lines /\ Pumped(line)
    BY DEF Carries, Framed, Pumped
  <2>2. line.forwarded \in Seq(Int) /\ line.pending \in Seq(Sample)
    BY <2>1 DEF Lines
  <2> QED
    BY <2>1, <2>2, AudioAssumption
<1>2. /\ Follows(r.left, ToAgent, more) /\ out \in Seq(Sample)
      /\ Resampled(ToAgent, more) = Resampled(ToAgent, line.forwarded) \o out
  <2> DEFINE up == line.upsampler
             fw == line.forwarded
  <2>1. Follows(up, ToAgent, fw) /\ fw \in Seq(Int)
    BY <1>1 DEF Carries
  <2> HIDE DEF up, fw
  <2>2. /\ Follows(Process(up, samples).left, ToAgent, fw \o samples)
        /\ Process(up, samples).out \in Seq(Sample)
        /\ Resampled(ToAgent, fw \o samples)
               = Resampled(ToAgent, fw) \o Process(up, samples).out
    BY <1>1, <2>1, Processed
  <2> QED
    BY <2>2 DEF up, fw
<1>3. next = Capture(l2, out)
  BY DEF Forward
<1> HIDE DEF r, out, more, next
<1>4. Reach(ToAgent, Len(more)) = Reach(ToAgent, Len(line.forwarded)) + Len(out)
  <2> DEFINE x == Resampled(ToAgent, line.forwarded)
             y == Resampled(ToAgent, more)
  <2>1. /\ x \in Seq(Sample) /\ Len(x) = Reach(ToAgent, Len(line.forwarded))
        /\ Len(y) = Reach(ToAgent, Len(more))
    BY <1>1, ResampledIs
  <2>2. y = x \o out
    BY <1>2
  <2> HIDE DEF x, y
  <2>3. Len(x \o out) = Len(x) + Len(out)
    BY <1>2, <2>1
  <2> QED
    BY <2>1, <2>2, <2>3
<1>5. /\ l2 \in Lines /\ l2.upsampler = r.left /\ l2.forwarded = more
      /\ l2.pending = line.pending /\ l2.queue = line.queue
      /\ l2.capturing = line.capturing /\ l2.lost = line.lost
  <2>1. r.left \in [ratio : {ToAgent}, history : Seq(Int), inBase : Int, outIndex : Nat]
    BY <1>2 DEF Follows
  <2>2. line \in Lines /\ more \in Seq(Int)
    BY <1>1 DEF Pumped
  <2> QED
    BY <2>1, <2>2 DEF Lines
<1> HIDE DEF l2
<1>6. Pumped(l2) /\ InLine(l2) = InLine(line)
  BY <1>1, <1>5 DEF Pumped, InLine
<1>7. FrameSamples * InLine(l2) + Len(l2.pending) + Len(out) = Reach(ToAgent, Len(more))
  BY <1>4, <1>5, <1>6 DEF Fits
<1>8. FrameSamples * InLine(l2) + Len(l2.pending) + Len(out) < FrameSamples * (Backlog + 2)
  BY <1>7 DEF more
<1>9. /\ Capture(l2, out).lost = l2.lost
      /\ FrameSamples * InLine(Capture(l2, out)) + Len(Capture(l2, out).pending)
             = FrameSamples * InLine(l2) + Len(l2.pending) + Len(out)
  BY <1>2, <1>6, <1>8, CaptureFits
<1>10. next.forwarded = more
  BY ForwardKeeps DEF next, more
<1> QED
  BY <1>3, <1>5, <1>7, <1>9, <1>10 DEF Fits, next

LEMMA FlushSteps ==
    ASSUME NEW line, NEW chunks \in Seq(Seq(Int))
    PROVE  \E g : /\ g[0] = line
                  /\ \A k \in 0..(Len(chunks) - 1) : g[k + 1] = Forward(g[k], chunks[k + 1])
                  /\ FoldLeft(Forward, line, chunks) = g[Len(chunks)]
<1>1. Len(chunks) \in Nat /\ DOMAIN chunks = 1..Len(chunks)
  OBVIOUS
<1> QED
  BY <1>1, FoldingForward, ZenonT(40)

LEMMA FlushFits ==
    ASSUME NEW got, NEW line, Carries(got, line), Fits(line), NEW chunks \in Seq(Seq(Int)),
           roomOpen, line.forwarded = << >>,
           Reach(ToAgent, Len(FlattenSeq(chunks))) < FrameSamples * (Backlog + 2)
    PROVE  FoldLeft(Forward, line, chunks).lost = {}
<1> DEFINE n == Len(chunks)
           Part(k) == FlattenSeq(SubSeq(chunks, 1, k))
<1>1. n \in Nat /\ DOMAIN chunks = 1..n
  OBVIOUS
<1>2. PICK g : /\ g[0] = line
               /\ \A k \in 0..(n - 1) : g[k + 1] = Forward(g[k], chunks[k + 1])
               /\ FoldLeft(Forward, line, chunks) = g[n]
  BY FlushSteps
<1>3. \A k \in 0..n : /\ Part(k) \in Seq(Int)
                      /\ Reach(ToAgent, Len(Part(k))) < FrameSamples * (Backlog + 2)
  <2> SUFFICES ASSUME NEW k \in 0..n
               PROVE  /\ Part(k) \in Seq(Int)
                      /\ Reach(ToAgent, Len(Part(k))) < FrameSamples * (Backlog + 2)
    OBVIOUS
  <2> DEFINE Q == Seq(Int)
             p == SubSeq(chunks, 1, k)
  <2>1. chunks \in Seq(Q) /\ k \in 0..Len(chunks)
    OBVIOUS
  <2>2. p \in Seq(Q) /\ \E rest \in Seq(Q) : chunks = p \o rest
    <3> HIDE DEF Q
    <3> QED
      BY <2>1, Splits
  <2>3. PICK rest \in Seq(Q) : chunks = p \o rest
    BY <2>2
  <2> HIDE DEF p
  <2>4. FlattenSeq(chunks) = FlattenSeq(p) \o FlattenSeq(rest)
    BY <2>2, <2>3, FlattenConcat
  <2>5. FlattenSeq(p) \in Seq(Int) /\ FlattenSeq(rest) \in Seq(Int)
    BY <2>2, <2>3, FlattenType
  <2> DEFINE a == Len(FlattenSeq(p))
             b == Len(FlattenSeq(chunks))
  <2>6. a \in Nat /\ b \in Nat /\ a <= b
    BY <2>4, <2>5
  <2> HIDE DEF a, b
  <2>7. Reach(ToAgent, a) <= Reach(ToAgent, b) /\ Reach(ToAgent, a) \in Nat
        /\ Reach(ToAgent, b) \in Nat
    BY <2>6, ReachGrows, Reached, AudioAssumption
  <2>8. Reach(ToAgent, b) < FrameSamples * (Backlog + 2)
        /\ FrameSamples * (Backlog + 2) \in Int
    BY AudioAssumption DEF b
  <2> QED
    BY <2>5, <2>7, <2>8 DEF p, a
<1> DEFINE Kept(k) == /\ Carries(got, g[k]) /\ Fits(g[k]) /\ g[k].forwarded = Part(k)
           T == {k \in Nat : k \in 0..n => Kept(k)}
<1>4. 0 \in T
  <2>1. Part(0) = << >>
    BY Beginning, FlattenEmpty
  <2> QED
    BY <1>2, <2>1
<1> HIDE DEF Part, n, Kept
<1>5. ASSUME NEW k \in Nat, k \in T PROVE k + 1 \in T
  <2> SUFFICES ASSUME k + 1 \in 0..n PROVE Kept(k + 1)
    OBVIOUS
  <2> DEFINE c == chunks[k + 1]
             p == SubSeq(chunks, 1, k)
  <2>1. k \in 0..n /\ k \in 0..(n - 1) /\ k \in 0..(Len(chunks) - 1) /\ k + 1 \in 1..n
    BY <1>1 DEF n
  <2>2. Carries(got, g[k]) /\ Fits(g[k]) /\ g[k].forwarded = Part(k)
    BY <1>5, <2>1 DEF Kept
  <2>3. /\ c \in Seq(Int) /\ p \in Seq(Seq(Int)) /\ SubSeq(chunks, 1, k + 1) = Append(p, c)
    BY <2>1, Beginning
  <2>4. g[k + 1] = Forward(g[k], c)
    BY <1>2, <2>1
  <2> HIDE DEF c, p
  <2>5. Part(k + 1) = FlattenSeq(p) \o c
    BY <2>3, FlattenAppend DEF Part
  <2>6. Part(k) = FlattenSeq(p)
    BY DEF p, Part
  <2>7. g[k].forwarded \o c = Part(k + 1)
    BY <2>2, <2>5, <2>6
  <2>8. Reach(ToAgent, Len(g[k].forwarded \o c)) < FrameSamples * (Backlog + 2)
    BY <1>3, <2>7
  <2>9. Fits(Forward(g[k], c))
    BY <2>2, <2>3, <2>8, ForwardFits
  <2>10. /\ Carries(got, Forward(g[k], c))
         /\ Forward(g[k], c).forwarded = g[k].forwarded \o c
    BY <2>2, <2>3, ForwardKeeps
  <2> QED
    BY <2>4, <2>7, <2>9, <2>10 DEF Kept
<1>6. n \in T
  <2> HIDE DEF T
  <2> QED
    BY <1>1, <1>4, <1>5, Induction
<1> QED
  BY <1>1, <1>2, <1>6 DEF Kept, Fits

\* As many outputs as the inputs are long, at the other rate.
LEMMA ReachBound ==
    ASSUME NEW ratio, Followed(ratio), NEW inputs \in Nat, NEW most \in Nat,
           inputs * ratio.up <= most * ratio.down
    PROVE  Reach(ratio, inputs) <= most
<1> SUFFICES ASSUME most < Reach(ratio, inputs) PROVE FALSE
  BY Reached
<1> DEFINE p == InputIndex(ratio, most)
           u == ratio.up
<1>1. /\ p \in Nat /\ most * ratio.down < p * u + u /\ u \in Nat
      /\ most * ratio.down \in Nat /\ inputs * u \in Nat
  BY Newest, Reached DEF Followed
<1>2. p < inputs
  BY Reached
<1> HIDE DEF p, u
<1>3. (p + 1) * u <= inputs * u /\ (p + 1) * u = p * u + u /\ p * u \in Int
  BY <1>1, <1>2, Products
<1>4. inputs * u <= most * ratio.down
  BY DEF u
<1> QED
  BY <1>1, <1>3, <1>4

\* The outputs skip no input when there are at least as many.
LEMMA NoneSkipped ==
    ASSUME NEW ratio, Followed(ratio), ratio.down <= ratio.up, NEW p \in Nat
    PROVE  \E n \in Nat : InputIndex(ratio, n) = p
<1> DEFINE u == ratio.up
           d == ratio.down
           T == {n \in Nat : p <= InputIndex(ratio, n)}
<1>1. u \in Nat \ {0} /\ d \in Nat \ {0} /\ d <= u
  BY DEF Followed
<1>2. p * u \in T
  <2> DEFINE n == p * u
             q == InputIndex(ratio, n)
  <2>1. n \in Nat
    BY <1>1
  <2>2. q \in Nat /\ n * d < q * u + u
    BY <2>1, Newest
  <2> HIDE DEF q, n
  <2>3. ASSUME q + 1 <= p PROVE FALSE
    <3> HIDE DEF u, d
    <3>1. (q + 1) * u <= p * u /\ (q + 1) * u = q * u + u
      BY <1>1, <2>2, <2>3, Products
    <3>2. n * 1 <= n * d
      BY <1>1, <2>1
    <3>3. n = p * u
      BY DEF n
    <3>4. q * u \in Int /\ n * d \in Int
      BY <1>1, <2>1, <2>2
    <3>5. q * u + u <= n
      BY <3>1, <3>3
    <3> QED
      BY <1>1, <2>1, <2>2, <3>2, <3>4, <3>5
  <2>4. p <= q
    BY <2>2, <2>3
  <2> QED
    BY <2>1, <2>4 DEF n, q
<1>3. PICK n \in T : \A m \in T : n <= m
  BY <1>2, Least
<1>4. InputIndex(ratio, n) \in Nat /\ p <= InputIndex(ratio, n) /\ n \in Nat
  BY <1>3, Newest
<1>5. CASE n = 0
  <2> DEFINE q == InputIndex(ratio, 0)
  <2>1. q \in Nat /\ q * u <= 0 * d
    BY Newest
  <2> HIDE DEF q, u, d
  <2>2. q = 0
    <3>1. ASSUME 1 <= q PROVE FALSE
      <4>1. 1 * u <= q * u
        BY <1>1, <2>1, <3>1, Products
      <4>2. q * u \in Int /\ 0 * d = 0
        BY <1>1, <2>1
      <4> QED
        BY <1>1, <2>1, <4>1, <4>2
    <3> QED
      BY <2>1, <3>1
  <2> QED
    BY <1>4, <1>5, <2>2 DEF q
<1>6. CASE n # 0
  <2> DEFINE m == n - 1
             q == InputIndex(ratio, m)
             r == InputIndex(ratio, n)
  <2>1. m \in Nat /\ n = m + 1 /\ m \notin T
    BY <1>3, <1>4, <1>6
  <2>2. /\ q \in Nat /\ r \in Nat /\ m * d < q * u + u /\ r * u <= n * d
        /\ m * d \in Nat /\ n * d \in Nat
    BY <1>4, <2>1, Newest
  <2>3. q < p
    BY <2>1, <2>2
  <2> HIDE DEF q, r, m, u, d, T
  <2>4. n * d = m * d + d
    BY <1>1, <2>1
  <2>5. ASSUME q + 2 <= r PROVE FALSE
    <3>1. (q + 2) * u <= r * u /\ (q + 2) * u = q * u + u + u
      BY <1>1, <2>2, <2>5, Products
    <3>2. q * u \in Int /\ r * u \in Int
      BY <1>1, <2>2
    <3> QED
      BY <1>1, <2>2, <2>4, <3>1, <3>2
  <2>6. r = p
    BY <1>4, <2>2, <2>3, <2>5 DEF r
  <2> QED
    BY <1>4, <2>6 DEF r
<1> QED
  BY <1>5, <1>6

\* So every sample of a signal is one that some output is made of.
LEMMA AllHeard ==
    ASSUME NEW ratio, Followed(ratio), ratio.down <= ratio.up, NEW signal \in Seq(Int),
           NEW i \in 1..Len(signal)
    PROVE  \E s \in ToSet(Resampled(ratio, signal)) : \E term \in s.terms : term[2] = signal[i]
<1> DEFINE p == i - 1
           all == Resampled(ratio, signal)
<1>1. p \in Nat /\ p < Len(signal) /\ Len(signal) \in Nat /\ p + 1 = i
  OBVIOUS
<1> HIDE DEF p
<1>2. PICK n \in Nat : InputIndex(ratio, n) = p
  BY <1>1, NoneSkipped
<1>3. n < Reach(ratio, Len(signal)) /\ Reach(ratio, Len(signal)) \in Nat
  BY <1>1, <1>2, Reached
<1> DEFINE j == n + 1
           s == OutputAt(ratio, signal, j)
<1>4. j \in 1..Reach(ratio, Len(signal)) /\ j - 1 = n
  BY <1>3
<1>5. s \in ToSet(all)
  <2>1. all[j] = s /\ all \in Seq(Sample) /\ Len(all) = Reach(ratio, Len(signal))
    BY <1>4, ResampledIs
  <2>2. j \in 1..Len(all)
    BY <1>4, <2>1
  <2> HIDE DEF all, s, j
  <2> QED
    BY <2>1, <2>2, InSeq
<1>6. \E term \in s.terms : term[2] = signal[i]
  <2>1. CASE Identity(ratio)
    <3>1. n = p
      BY <1>2, <2>1, IdentityReach
    <3>2. s.terms = {<<0, signal[j]>>} /\ j = i
      BY <1>1, <2>1, <3>1 DEF OutputAt
    <3> DEFINE term == <<0, signal[i]>>
    <3>3. term \in s.terms /\ term[2] = signal[i]
      BY <3>2
    <3> HIDE DEF term, s
    <3> QED
      BY <3>3
  <2>2. CASE ~Identity(ratio)
    <3> DEFINE x(k) == <<Phase(ratio, n) + k * ratio.up, SignalAt(signal, p - k)>>
    <3>1. s.terms = {x(k) : k \in 0..Lag}
      BY <1>2, <1>4, <2>2 DEF OutputAt
    <3>2. 0 \in 0..Lag
      BY ResamplerAssumption
    <3>3. x(0)[2] = SignalAt(signal, p - 0)
      OBVIOUS
    <3>4. SignalAt(signal, p - 0) = signal[i]
      <4>1. p - 0 = p /\ ~(p < 0)
        BY <1>1
      <4> QED
        BY <1>1, <4>1 DEF SignalAt
    <3> HIDE DEF x, s
    <3> QED
      BY <3>1, <3>2, <3>3, <3>4
  <2> QED
    BY <2>1, <2>2
<1> HIDE DEF s
<1> QED
  BY <1>5, <1>6

Chunk == {c \in Seq(Int) : Len(c) \in ChunkSizes}

\* What the flush may forward is bounded with each chunk's part of it.
LEMMA ChunksFit ==
    ASSUME NEW a \in Nat, NEW b \in Nat, \A k \in ChunkSizes : k * a <= b
    PROVE  \A chunks \in Seq(Chunk) :
               /\ chunks \in Seq(Seq(Int)) /\ FlattenSeq(chunks) \in Seq(Int)
               /\ Len(FlattenSeq(chunks)) * a <= Len(chunks) * b
<1>1. Chunk \subseteq Seq(Int)
  BY DEF Chunk
<1>2. \A chunks \in Seq(Chunk) : chunks \in Seq(Seq(Int)) /\ FlattenSeq(chunks) \in Seq(Int)
  BY <1>1, SeqMonotonic, FlattenType
<1> DEFINE T == {c \in Seq(Chunk) : Len(FlattenSeq(c)) * a <= Len(c) * b}
<1>3. << >> \in T
  BY FlattenEmpty, EmptySeq
<1>4. ASSUME NEW s \in Seq(Chunk), NEW c \in Chunk, s \in T PROVE Append(s, c) \in T
  <2> DEFINE l == Len(FlattenSeq(s))
             k == Len(c)
             n == Len(s)
             more == Append(s, c)
  <2>1. /\ more \in Seq(Chunk) /\ Len(more) = n + 1 /\ n \in Nat
        /\ c \in Seq(Int) /\ k \in ChunkSizes
    BY DEF Chunk
  <2>2. FlattenSeq(s) \in Seq(Int) /\ s \in Seq(Seq(Int))
    BY <1>2
  <2>3. FlattenSeq(more) = FlattenSeq(s) \o c
    BY <2>1, <2>2, FlattenAppend
  <2>4. Len(FlattenSeq(more)) = l + k /\ l \in Nat /\ k \in Nat
    BY <2>1, <2>2, <2>3
  <2>5. l * a <= n * b /\ k * a <= b
    BY <1>4, <2>1
  <2> HIDE DEF l, k, n, more
  <2>6. (l + k) * a = l * a + k * a /\ (n + 1) * b = n * b + b
        /\ l * a \in Int /\ k * a \in Int /\ n * b \in Int
    BY <2>1, <2>4
  <2>7. (l + k) * a <= (n + 1) * b
    BY <2>5, <2>6
  <2> QED
    BY <2>1, <2>4, <2>7 DEF more
<1>5. Seq(Chunk) \subseteq T
  <2> HIDE DEF T
  <2> QED
    BY <1>3, <1>4, SequenceInduction
<1> QED
  BY <1>2, <1>5

LEMMA FlushBound ==
    ASSUME OpeningFits, NEW chunks \in Seq(Chunk), Len(chunks) <= FlushKeep
    PROVE  Reach(ToAgent, Len(FlattenSeq(chunks))) < FrameSamples * (Backlog + 2)
<1> DEFINE f == FlushKeep
           u == ToAgent.up
           d == ToAgent.down
           most == (Backlog + 1) * FrameSamples
           a == f * u
           b == most * d
           n == Len(chunks)
           l == Len(FlattenSeq(chunks))
<1>1. /\ f \in Nat \ {0} /\ u \in Nat \ {0} /\ d \in Nat \ {0} /\ most \in Nat /\ n \in Nat
      /\ FrameSamples \in Nat \ {0} /\ Backlog \in Nat /\ Followed(ToAgent)
      /\ ChunkSizes \subseteq Nat
  BY AudioAssumption DEF Followed
<1>2. a \in Nat /\ b \in Nat
  <2> HIDE DEF f, u, d, most
  <2> QED
    BY <1>1
<1>3. \A k \in ChunkSizes : k * a <= b
  <2> SUFFICES ASSUME NEW k \in ChunkSizes PROVE k * a <= b
    OBVIOUS
  <2>1. f * k * u <= b
    BY DEF OpeningFits
  <2>2. k \in Nat
    BY <1>1
  <2> HIDE DEF f, u, b
  <2>3. f * k * u = k * (f * u)
    BY <1>1, <2>2
  <2> QED
    BY <2>1, <2>3
<1>4. l \in Nat /\ l * a <= n * b
  <2> HIDE DEF a, b
  <2>1. FlattenSeq(chunks) \in Seq(Int) /\ Len(FlattenSeq(chunks)) * a <= Len(chunks) * b
    BY <1>2, <1>3, ChunksFit
  <2> QED
    BY <2>1
<1>5. l * u <= b
  <2>0. n <= f
    OBVIOUS
  <2> HIDE DEF l, n, b, u, f
  <2>1. n * b <= f * b
    BY <1>1, <1>2, <2>0, Products
  <2>2. ASSUME b + 1 <= l * u PROVE FALSE
    <3>1. l * u \in Int
      BY <1>1, <1>4
    <3>2. (b + 1) * f <= (l * u) * f
      BY <1>1, <1>2, <2>2, <3>1, Products
    <3>3. (l * u) * f = l * (f * u) /\ (b + 1) * f = f * b + f
      BY <1>1, <1>2, <1>4
    <3>4. l * (f * u) \in Int /\ n * b \in Int /\ f * b \in Int
      BY <1>1, <1>2, <1>4
    <3> QED
      BY <1>1, <1>4, <2>1, <3>2, <3>3, <3>4
  <2>3. l * u \in Int
    BY <1>1, <1>4
  <2> QED
    BY <1>2, <2>2, <2>3
<1>6. Reach(ToAgent, l) <= most /\ Reach(ToAgent, l) \in Nat
  <2> HIDE DEF l, most
  <2> QED
    BY <1>1, <1>4, <1>5, ReachBound, Reached
<1>7. most < FrameSamples * (Backlog + 2) /\ FrameSamples * (Backlog + 2) \in Int
  <2>1. FrameSamples * (Backlog + 2) = (Backlog + 1) * FrameSamples + FrameSamples
    BY <1>1
  <2> QED
    BY <1>1, <2>1
<1> QED
  BY <1>1, <1>6, <1>7

\* Until the agent is ready nothing has been forwarded, so nothing is on its way.
OpeningInv ==
    /\ held \in Seq(Chunk)
    /\ ~agentReady => /\ capturing = << >> /\ queue = << >> /\ pending = << >>
                      /\ captured = << >> /\ lost = {}

LEMMA OpeningInit == AudioInit => OpeningInv
BY EmptySeq DEF AudioInit, OpeningInv

LEMMA OpeningStep ==
    ASSUME AgentInv, OpeningInv, [AudioNext]_audioVars
    PROVE  OpeningInv'
<1>1. << >> \in Seq(Chunk)
  BY EmptySeq
<1>2. ASSUME NEW k \in ChunkSizes, HoldBack(k) PROVE OpeningInv'
  <2> DEFINE more == Append(held, Samples(heard, k))
  <2>1. heard \in Int /\ k \in Nat /\ PreconnectLimit \in Nat
    BY AudioAssumption DEF AgentInv
  <2>2. Samples(heard, k) \in Chunk
    BY <2>1, SamplesType DEF Chunk
  <2>3. more \in Seq(Chunk)
    BY <2>2 DEF OpeningInv
  <2> HIDE DEF more
  <2>4. Latest(more, PreconnectLimit) \in Seq(Chunk)
    BY <2>1, <2>3, LatestIs
  <2>5. held' \in Seq(Chunk)
    BY <1>2, <2>4 DEF HoldBack, more
  <2> QED
    BY <1>2, <2>5 DEF HoldBack, OpeningInv, lineVars
<1>3. ASSUME NEW k \in ChunkSizes, PassOn(k) PROVE OpeningInv'
  BY <1>3 DEF PassOn, OpeningInv
<1>4. ASSUME MarkAgentReady PROVE OpeningInv'
  BY <1>1, <1>4 DEF MarkAgentReady, OpeningInv
<1>5. ASSUME FrameTaken PROVE OpeningInv'
  BY <1>5 DEF FrameTaken, OpeningInv
<1>6. ASSUME UNCHANGED toAgent PROVE OpeningInv'
  BY <1>6 DEF toAgent, OpeningInv
<1>7. ASSUME NEW k \in ChunkSizes, NEW ratio \in FromAgent, Speak(k, ratio)
      PROVE  OpeningInv'
  BY <1>6, <1>7 DEF Speak
<1>8. ASSUME RoomCloses PROVE OpeningInv'
  BY <1>8 DEF RoomCloses, OpeningInv
<1>9. ASSUME BridgeCloses PROVE OpeningInv'
  BY <1>1, <1>9 DEF BridgeCloses, Released, OpeningInv
<1>10. ASSUME CaptureRejected PROVE OpeningInv'
  BY <1>1, <1>10 DEF CaptureRejected, Released, OpeningInv
<1>11. ASSUME UNCHANGED audioVars PROVE OpeningInv'
  BY <1>6, <1>11 DEF audioVars
<1> QED
  BY <1>2, <1>3, <1>4, <1>5, <1>7, <1>8, <1>9, <1>10, <1>11 DEF AudioNext

\* When the agent becomes ready (markAgentReady of AudioBridge, capture and enqueue of
\* LiveKitRoomBridge) the latest of what was held back has been forwarded and every
\* sample of it is part of something on its way to the room, provided the room's rate
\* is not below Twilio's and the flush fits into the frames that may wait.
THEOREM OpeningKeptTheorem ==
    ASSUME OpeningFits
    PROVE  AudioSpec => OpeningKept
<1> DEFINE latest == FlattenSeq(Latest(held, FlushKeep))
           Kept   == /\ IsSuffix(latest, forwarded')
                     /\ \A i \in 1..Len(latest) : \E s \in ToSet(OnTheWay') :
                            \E term \in s.terms : term[2] = latest[i]
<1>1. ASSUME AgentInv, OpeningInv, MarkAgentReady PROVE Kept
  <2> DEFINE chunks == Latest(held, FlushKeep)
             next   == FoldLeft(Forward, Line, chunks)
  <2>1. /\ roomOpen /\ roomOpen' /\ ~agentReady /\ BecomeLine(next) /\ captured' = captured
    BY <1>1 DEF MarkAgentReady
  <2>2. chunks \in Seq(Chunk) /\ Len(chunks) <= FlushKeep /\ FlushKeep \in Nat
    BY <1>1, LatestIs, AudioAssumption DEF OpeningInv
  <2> HIDE DEF chunks
  <2>3. chunks \in Seq(Seq(Int)) /\ latest \in Seq(Int)
    <3>1. Chunk \subseteq Seq(Int)
      BY DEF Chunk
    <3>2. chunks \in Seq(Seq(Int))
      BY <2>2, <3>1, SeqMonotonic
    <3> QED
      BY <3>2, FlattenType DEF chunks
  <2>4. /\ Line.lost = {} /\ Line.forwarded = << >> /\ Line.queue = << >>
        /\ Line.capturing = << >> /\ Line.pending = << >> /\ captured = << >>
        /\ Carries(captured, Line)
    BY <1>1, <2>1 DEF OpeningInv, AgentInv, Line
  <2>5. Fits(Line)
    <3>1. Pumped(Line)
      BY <2>4 DEF Carries, Framed, Pumped
    <3>2. InLine(Line) = 0
      BY <2>4, <3>1, InLineIs
    <3>3. Reach(ToAgent, 0) = 0
      <4>1. Reach(ToAgent, 0) \in Nat /\ Reach(ToAgent, 0) <= 0 * ToAgent.up
        BY Reached, AudioAssumption
      <4>2. ToAgent.up \in Nat
        BY AudioAssumption DEF Followed
      <4> QED
        BY <4>1, <4>2
    <3>4. Len(<< >>) = 0 /\ FrameSamples * 0 + 0 = 0
      BY AudioAssumption
    <3> QED
      BY <2>4, <3>2, <3>3, <3>4 DEF Fits
  <2>6. next.lost = {}
    BY <2>1, <2>2, <2>3, <2>4, <2>5, FlushBound, FlushFits
  <2>7. next.forwarded = latest
    <3>1. next.forwarded = Line.forwarded \o FlattenSeq(chunks)
      BY <2>1, <2>3, <2>4, FlushKeeps
    <3>2. << >> \o latest = latest
      BY <2>3, ConcatEmptySeq
    <3> QED
      BY <2>4, <3>1, <3>2 DEF chunks
  <2>8. forwarded' = latest /\ lost' = {}
    BY <2>1, <2>6, <2>7 DEF BecomeLine
  <2> HIDE DEF latest, next
  <2>9. /\ next \in Lines
        /\ (captured \o next.capturing) \o (FlattenSeq(next.queue) \o next.pending)
               = Without(Resampled(ToAgent, latest), {})
    <3>1. Carries(captured, next)
      BY <2>1, <2>3, <2>4, FlushKeeps DEF next
    <3> QED
      BY <2>6, <2>7, <3>1, CarriesMeant
  <2>10. Resampled(ToAgent, latest) \in Seq(Sample)
    BY <2>3, ResampledIs, AudioAssumption
  <2>11. OnTheWay' = Resampled(ToAgent, latest)
    <3> DEFINE c == next.capturing
               f == FlattenSeq(next.queue)
               p == next.pending
    <3>1. Without(Resampled(ToAgent, latest), {}) = Resampled(ToAgent, latest)
      BY <2>10, WithoutNone
    <3>2. c \in Seq(Sample) /\ f \in Seq(Sample) /\ p \in Seq(Sample)
      BY <2>9, QueueIsFrames, FlattenType DEF Lines
    <3>3. OnTheWay' = (c \o f) \o p
      BY <2>1 DEF OnTheWay, BecomeLine
    <3> HIDE DEF c, f, p
    <3>4. << >> \o c = c
      BY <3>2, ConcatEmptySeq
    <3>5. (c \o f) \o p = c \o (f \o p)
      BY <3>2, SamplesAssoc
    <3> QED
      BY <2>4, <2>9, <3>1, <3>3, <3>4, <3>5 DEF c, f, p
  <2>12. \A i \in 1..Len(latest) : \E s \in ToSet(OnTheWay') :
             \E term \in s.terms : term[2] = latest[i]
    BY <2>3, <2>11, AllHeard, AudioAssumption DEF OpeningFits
  <2>13. IsSuffix(latest, forwarded')
    BY <2>8 DEF IsSuffix, IsPrefix
  <2> QED
    BY <2>12, <2>13 DEF latest
<1>2. AgentInv /\ OpeningInv /\ [AudioNext]_audioVars
          => (agentReady' /\ ~agentReady => Kept)
  <2> SUFFICES ASSUME AgentInv, OpeningInv, [AudioNext]_audioVars, agentReady', ~agentReady
               PROVE  Kept
    OBVIOUS
  <2>1. MarkAgentReady
    BY DEF AudioNext, HoldBack, PassOn, Speak, FrameTaken, RoomCloses, BridgeCloses,
           CaptureRejected, audioVars, toAgent
  <2> QED
    BY <1>1, <2>1
<1>3. AudioInit => OpeningInv
  BY OpeningInit
<1>4. AgentInv /\ OpeningInv /\ [AudioNext]_audioVars => OpeningInv'
  BY OpeningStep
<1>5. AgentInv /\ OpeningInv /\ [AudioNext]_audioVars
          => [agentReady' /\ ~agentReady => Kept]_audioVars
  BY <1>2
<1> HIDE DEF Kept
<1>6. AudioSpec => [][agentReady' /\ ~agentReady => Kept]_audioVars
  BY <1>3, <1>4, <1>5, AudioAlways, PTL DEF AudioSpec
<1> QED
  BY <1>6 DEF OpeningKept, Kept

-----------------------------------------------------------------------------
(* The codec.  Eight segments, sixteen steps in each; the levels of the *)
(* steps grow through the segments, and a sample is decoded as the level  *)
(* of the step its biased magnitude lies in.                              *)

\* The powers of two the codec shifts by.
Pow(e) == 2^e

LEMMA Powers ==
    ASSUME NEW e \in 0..7
    PROVE  \/ e = 0 /\ Pow(e) = 1 /\ Pow(e + 3) = 8 /\ Pow(7 + e) = 128
           \/ e = 1 /\ Pow(e) = 2 /\ Pow(e + 3) = 16 /\ Pow(7 + e) = 256
           \/ e = 2 /\ Pow(e) = 4 /\ Pow(e + 3) = 32 /\ Pow(7 + e) = 512
           \/ e = 3 /\ Pow(e) = 8 /\ Pow(e + 3) = 64 /\ Pow(7 + e) = 1024
           \/ e = 4 /\ Pow(e) = 16 /\ Pow(e + 3) = 128 /\ Pow(7 + e) = 2048
           \/ e = 5 /\ Pow(e) = 32 /\ Pow(e + 3) = 256 /\ Pow(7 + e) = 4096
           \/ e = 6 /\ Pow(e) = 64 /\ Pow(e + 3) = 512 /\ Pow(7 + e) = 8192
           \/ e = 7 /\ Pow(e) = 128 /\ Pow(e + 3) = 1024 /\ Pow(7 + e) = 16384
<1>0. ASSUME e = 0 PROVE Pow(e) = 1 /\ Pow(e + 3) = 8 /\ Pow(7 + e) = 128
  BY <1>0 DEF Pow
<1>1. ASSUME e = 1 PROVE Pow(e) = 2 /\ Pow(e + 3) = 16 /\ Pow(7 + e) = 256
  BY <1>1 DEF Pow
<1>2. ASSUME e = 2 PROVE Pow(e) = 4 /\ Pow(e + 3) = 32 /\ Pow(7 + e) = 512
  BY <1>2 DEF Pow
<1>3. ASSUME e = 3 PROVE Pow(e) = 8 /\ Pow(e + 3) = 64 /\ Pow(7 + e) = 1024
  BY <1>3 DEF Pow
<1>4. ASSUME e = 4 PROVE Pow(e) = 16 /\ Pow(e + 3) = 128 /\ Pow(7 + e) = 2048
  BY <1>4 DEF Pow
<1>5. ASSUME e = 5 PROVE Pow(e) = 32 /\ Pow(e + 3) = 256 /\ Pow(7 + e) = 4096
  BY <1>5 DEF Pow
<1>6. ASSUME e = 6 PROVE Pow(e) = 64 /\ Pow(e + 3) = 512 /\ Pow(7 + e) = 8192
  BY <1>6 DEF Pow
<1>7. ASSUME e = 7 PROVE Pow(e) = 128 /\ Pow(e + 3) = 1024 /\ Pow(7 + e) = 16384
  BY <1>7 DEF Pow
<1>8. e \in {0, 1, 2, 3, 4, 5, 6, 7}
  OBVIOUS
<1> QED
  BY <1>0, <1>1, <1>2, <1>3, <1>4, <1>5, <1>6, <1>7, <1>8

LEMMA Doubling ==
    ASSUME NEW e \in 0..7
    PROVE  /\ Pow(e) \in {1, 2, 4, 8, 16, 32, 64, 128}
           /\ Pow(e + 3) = 8 * Pow(e) /\ Pow(7 + e) = 128 * Pow(e)
           /\ \A f \in 0..7 : e < f => 2 * Pow(e) <= Pow(f)
<1>1. /\ Pow(e) \in {1, 2, 4, 8, 16, 32, 64, 128}
      /\ Pow(e + 3) = 8 * Pow(e) /\ Pow(7 + e) = 128 * Pow(e)
  BY Powers
<1>2. ASSUME NEW f \in 0..7, e < f PROVE 2 * Pow(e) <= Pow(f)
  <2>1. \/ e = 0 /\ Pow(e) = 1
        \/ e = 1 /\ Pow(e) = 2
        \/ e = 2 /\ Pow(e) = 4
        \/ e = 3 /\ Pow(e) = 8
        \/ e = 4 /\ Pow(e) = 16
        \/ e = 5 /\ Pow(e) = 32
        \/ e = 6 /\ Pow(e) = 64
        \/ e = 7 /\ Pow(e) = 128
    BY Powers
  <2>2. \/ f = 0 /\ Pow(f) = 1
        \/ f = 1 /\ Pow(f) = 2
        \/ f = 2 /\ Pow(f) = 4
        \/ f = 3 /\ Pow(f) = 8
        \/ f = 4 /\ Pow(f) = 16
        \/ f = 5 /\ Pow(f) = 32
        \/ f = 6 /\ Pow(f) = 64
        \/ f = 7 /\ Pow(f) = 128
    BY Powers
  <2> QED
    BY <1>2, <2>1, <2>2
<1> QED
  BY <1>1, <1>2

LEMMA GreatestIs ==
    ASSUME NEW S, NEW x \in S, S \subseteq Int, \A y \in S : y <= x
    PROVE  Max(S) = x
<1> DEFINE Greatest(y) == y \in S /\ \A z \in S : y >= z
<1>1. x \in Int /\ Greatest(x)
  OBVIOUS
<1>2. \A y : Greatest(y) => y = x
  BY <1>1
<1>3. Max(S) = CHOOSE y : Greatest(y)
  BY DEF Max
<1> HIDE DEF Greatest
<1> QED
  BY <1>1, <1>2, <1>3

LEMMA LesserIs ==
    ASSUME NEW a \in Int, NEW b \in Int
    PROVE  Min({a, b}) = IF a <= b THEN a ELSE b
BY DEF Min

\* The segment of a biased magnitude is the one it lies in.
LEMMA ExponentIs ==
    ASSUME NEW e \in 0..7, NEW m \in Int, 128 * Pow(e) <= m, m < 256 * Pow(e)
    PROVE  Exponent(m) = e
<1> DEFINE S == {0} \cup {f \in 0..7 : (m \div Pow(7 + f)) % 2 = 1}
<1>1. Pow(e) \in {1, 2, 4, 8, 16, 32, 64, 128} /\ Pow(7 + e) = 128 * Pow(e)
  BY Doubling
<1>2. e \in S
  <2>1. m \div (128 * Pow(e)) = 1
    BY <1>1
  <2> QED
    BY <1>1, <2>1
<1>3. ASSUME NEW f \in 0..7, f > e PROVE (m \div Pow(7 + f)) % 2 # 1
  <2>1. /\ Pow(f) \in {1, 2, 4, 8, 16, 32, 64, 128} /\ Pow(7 + f) = 128 * Pow(f)
        /\ 2 * Pow(e) <= Pow(f)
    BY <1>3, Doubling
  <2>2. 0 <= m /\ m < 128 * Pow(f)
    BY <1>1, <2>1
  <2>3. m \div (128 * Pow(f)) = 0
    BY <2>1, <2>2
  <2> QED
    BY <2>1, <2>3
<1>4. S \subseteq Int /\ \A f \in S : f <= e
  <2>1. \A f \in S : f \in 0..7 /\ (f = 0 \/ ~(f > e))
    BY <1>3
  <2> HIDE DEF S
  <2> QED
    BY <2>1
<1>5. Exponent(m) = Max(S)
  BY DEF Exponent, Pow
<1> HIDE DEF S
<1> QED
  BY <1>2, <1>4, <1>5, GreatestIs

LEMMA InSegment ==
    ASSUME NEW m \in Int, 128 <= m, m <= 32767
    PROVE  \E e \in 0..7 : 128 * Pow(e) <= m /\ m < 256 * Pow(e)
<1>1. /\ Pow(0) = 1
      /\ Pow(1) = 2
      /\ Pow(2) = 4
      /\ Pow(3) = 8
      /\ Pow(4) = 16
      /\ Pow(5) = 32
      /\ Pow(6) = 64
      /\ Pow(7) = 128
  BY DEF Pow
<1>2. \/ 128 <= m /\ m < 256
      \/ 256 <= m /\ m < 512
      \/ 512 <= m /\ m < 1024
      \/ 1024 <= m /\ m < 2048
      \/ 2048 <= m /\ m < 4096
      \/ 4096 <= m /\ m < 8192
      \/ 8192 <= m /\ m < 16384
      \/ 16384 <= m /\ m < 32768
  OBVIOUS
<1>3. \/ 128 * Pow(0) <= m /\ m < 256 * Pow(0)
      \/ 128 * Pow(1) <= m /\ m < 256 * Pow(1)
      \/ 128 * Pow(2) <= m /\ m < 256 * Pow(2)
      \/ 128 * Pow(3) <= m /\ m < 256 * Pow(3)
      \/ 128 * Pow(4) <= m /\ m < 256 * Pow(4)
      \/ 128 * Pow(5) <= m /\ m < 256 * Pow(5)
      \/ 128 * Pow(6) <= m /\ m < 256 * Pow(6)
      \/ 128 * Pow(7) <= m /\ m < 256 * Pow(7)
  BY <1>1, <1>2
<1> QED
  BY <1>3

-----------------------------------------------------------------------------
\* The magnitude a byte stands for: the middle of step q of segment e.
Level(e, q) == Pow(e) * (8 * q + 4) - Bias

Signed(s, l) == IF s < 0 THEN -l ELSE l

SignOf(s) == IF s < 0 THEN 128 ELSE 0

Byte(s, e, q) == 255 - (SignOf(s) + e * 16 + (q - 16))

\* What is encoded is the segment and the step the clipped magnitude lies in.
LEMMA Encoded ==
    ASSUME NEW s \in Int, NEW e \in 0..7, NEW q \in 16..31,
           NEW m \in Int, m = Min({Magnitude(s), Clip}) + Bias,
           8 * Pow(e) * q <= m, m < 8 * Pow(e) * q + 8 * Pow(e)
    PROVE  Exponent(m) = e /\ EncodeSample(s) = Byte(s, e, q)
<1>1. Pow(e) \in {1, 2, 4, 8, 16, 32, 64, 128} /\ Pow(e + 3) = 8 * Pow(e)
  BY Doubling
<1>2. 128 * Pow(e) <= m /\ m < 256 * Pow(e) /\ m \div (8 * Pow(e)) = q
  BY <1>1
<1>3. Exponent(m) = e
  BY <1>2, ExponentIs
<1>4. (m \div Pow(e + 3)) % 16 = q - 16
  <2>1. q % 16 = q - 16
    OBVIOUS
  <2> QED
    BY <1>1, <1>2, <2>1
<1> QED
  BY <1>3, <1>4 DEF EncodeSample, SignOf, Byte, Pow

LEMMA Decoded ==
    ASSUME NEW s \in Int, NEW e \in 0..7, NEW q \in 16..31
    PROVE  DecodeSample(Byte(s, e, q)) = Signed(s, Level(e, q))
<1> DEFINE i == SignOf(s) + e * 16 + (q - 16)
<1>1. 255 - (255 - i) = i /\ i \in Int /\ SignOf(s) \in {0, 128}
  BY DEF SignOf
<1>2. (i \div 16) % 8 = e /\ i % 16 = q - 16 /\ (i \div 128 = 1 <=> s < 0)
  BY DEF SignOf
<1>3. Pow(e) \in Int
  BY Doubling
<1> HIDE DEF i
<1>4. ((q - 16) * 8 + 132) * Pow(e) - 132 = Pow(e) * (8 * q + 4) - 132
  BY <1>3
<1> QED
  BY <1>1, <1>2, <1>4 DEF DecodeSample, Level, Bias, Byte, i, Pow, Signed

\* The biased magnitude of a sample lies in step q of segment e.
Lies(s, e, q) ==
    LET m == Min({Magnitude(s), Clip}) + Bias
    IN  8 * Pow(e) * q <= m /\ m < 8 * Pow(e) * q + 8 * Pow(e)

LEMMA Sampled ==
    ASSUME NEW s \in Int, -32768 <= s, s <= 32767
    PROVE  s \in Pcm16
<1> DEFINE least    == -32768
           greatest == 32767
<1>1. least \in Int /\ greatest \in Int /\ least <= s /\ s <= greatest
  OBVIOUS
<1>2. Pcm16 = least..greatest
  BY DEF Pcm16
<1> HIDE DEF least, greatest
<1> QED
  BY <1>1, <1>2

LEMMA BiasedIs ==
    ASSUME NEW s \in Pcm16
    PROVE  /\ s \in Int /\ -32768 <= s /\ s <= 32767
           /\ Magnitude(s) \in Int /\ 0 <= Magnitude(s) /\ Magnitude(s) <= 32768
           /\ Magnitude(s) = (IF s < 0 THEN -s ELSE s)
           /\ Min({Magnitude(s), Clip}) + Bias
                  = IF Magnitude(s) <= 32635 THEN Magnitude(s) + 132 ELSE 32767
<1>1. /\ s \in Int /\ -32768 <= s /\ s <= 32767
      /\ Magnitude(s) \in Int /\ 0 <= Magnitude(s) /\ Magnitude(s) <= 32768
      /\ Magnitude(s) = (IF s < 0 THEN -s ELSE s)
  BY DEF Magnitude, Pcm16
<1> DEFINE a == Magnitude(s)
<1>2. Clip = 32635 /\ Bias = 132
  BY DEF Clip, Bias
<1> HIDE DEF a
<1>3. Min({a, Clip}) = IF a <= Clip THEN a ELSE Clip
  BY <1>1, <1>2, LesserIs DEF a
<1>4. Min({a, Clip}) + Bias = IF a <= 32635 THEN a + 132 ELSE 32767
  BY <1>2, <1>3
<1> QED
  BY <1>1, <1>4 DEF a

\* A sample is encoded as its step, and decoded again as its step's level.
LEMMA Transcoded ==
    ASSUME NEW s \in Pcm16, NEW e \in 0..7, NEW q \in 16..31, Lies(s, e, q)
    PROVE  /\ Exponent(Min({Magnitude(s), Clip}) + Bias) = e
           /\ EncodeMuLaw(s) = Byte(s, e, q)
           /\ DecodeSample(EncodeMuLaw(s)) = Signed(s, Level(e, q))
<1> DEFINE m == Min({Magnitude(s), Clip}) + Bias
<1>1. s \in Int /\ m \in Int
  <2>1. /\ s \in Int /\ Magnitude(s) \in Int /\ 0 <= Magnitude(s) /\ Magnitude(s) <= 32768
        /\ m = IF Magnitude(s) <= 32635 THEN Magnitude(s) + 132 ELSE 32767
    BY BiasedIs
  <2> HIDE DEF m
  <2> QED
    BY <2>1
<1>2. 8 * Pow(e) * q <= m /\ m < 8 * Pow(e) * q + 8 * Pow(e)
  BY DEF Lies
<1>3. Exponent(m) = e /\ EncodeSample(s) = Byte(s, e, q)
  <2> HIDE DEF m
  <2>1. m = Min({Magnitude(s), Clip}) + Bias
    BY DEF m
  <2> QED
    BY <1>1, <1>2, <2>1, Encoded
<1>4. SignedView(s % 65536) = s
  <2>1. s \in Int /\ -32768 <= s /\ s <= 32767
    BY DEF Pcm16
  <2>2. CASE s < 0
    <3>1. s % 65536 = s + 65536
      BY <2>1, <2>2
    <3> QED
      BY <2>1, <2>2, <3>1 DEF SignedView
  <2>3. CASE s >= 0
    <3>1. s % 65536 = s
      BY <2>1, <2>3
    <3> QED
      BY <2>1, <2>3, <3>1 DEF SignedView
  <2> QED
    BY <2>1, <2>2, <2>3
<1> QED
  BY <1>1, <1>3, <1>4, Decoded DEF EncodeMuLaw

\* Every sample lies in a step, the clipped ones in the last.
LEMMA SomeStep ==
    ASSUME NEW s \in Pcm16
    PROVE  \E e \in 0..7, q \in 16..31 : Lies(s, e, q)
<1> DEFINE m == Min({Magnitude(s), Clip}) + Bias
<1>1. m \in Int /\ 128 <= m /\ m <= 32767
  <2>1. /\ Magnitude(s) \in Int /\ 0 <= Magnitude(s) /\ Magnitude(s) <= 32768
        /\ m = IF Magnitude(s) <= 32635 THEN Magnitude(s) + 132 ELSE 32767
    BY BiasedIs
  <2> HIDE DEF m
  <2> QED
    BY <2>1
<1> HIDE DEF m
<1>2. PICK e \in 0..7 : 128 * Pow(e) <= m /\ m < 256 * Pow(e)
  BY <1>1, InSegment
<1>3. Pow(e) \in {1, 2, 4, 8, 16, 32, 64, 128}
  BY Doubling
<1> DEFINE q == m \div (8 * Pow(e))
<1>4. q \in 16..31 /\ 8 * Pow(e) * q <= m /\ m < 8 * Pow(e) * q + 8 * Pow(e)
  BY <1>1, <1>2, <1>3
<1> QED
  BY <1>4 DEF Lies, m

\* Levels are ordered as the steps are.
LEMMA LevelsGrow ==
    ASSUME NEW e \in 0..7, NEW f \in 0..7, NEW q \in 16..31, NEW r \in 16..31,
           8 * Pow(e) * q < 8 * Pow(f) * r + 8 * Pow(f)
    PROVE  Level(e, q) <= Level(f, r)
<1>1. /\ Pow(e) \in {1, 2, 4, 8, 16, 32, 64, 128} /\ Pow(f) \in {1, 2, 4, 8, 16, 32, 64, 128}
      /\ e < f => 2 * Pow(e) <= Pow(f)
      /\ f < e => 2 * Pow(f) <= Pow(e)
  BY Doubling
<1>2. CASE e = f
  BY <1>1, <1>2 DEF Level, Bias
<1>3. CASE e < f
  <2>1. Pow(e) * (8 * q + 4) <= 252 * Pow(e) /\ 132 * Pow(f) <= Pow(f) * (8 * r + 4)
    BY <1>1
  <2> QED
    BY <1>1, <1>3, <2>1 DEF Level, Bias
<1>4. CASE f < e
  <2>1. 128 * Pow(e) < 256 * Pow(f)
    BY <1>1
  <2> QED
    BY <1>1, <1>4, <2>1
<1> QED
  BY <1>2, <1>3, <1>4

LEMMA LevelIs ==
    ASSUME NEW e \in 0..7, NEW q \in 16..31
    PROVE  /\ Level(e, q) \in Int /\ 0 <= Level(e, q) /\ Level(e, q) <= 32124
           /\ Level(e, q) = 8 * Pow(e) * q + 4 * Pow(e) - 132
           /\ Level(e, q) = 0 <=> e = 0 /\ q = 16
           /\ Pow(e) \in {1, 2, 4, 8, 16, 32, 64, 128} /\ Pow(e + 3) = 8 * Pow(e)
<1>1. /\ Pow(e) \in {1, 2, 4, 8, 16, 32, 64, 128} /\ Pow(e + 3) = 8 * Pow(e)
      /\ e = 0 <=> Pow(e) = 1
  BY Powers
<1> QED
  BY <1>1 DEF Level, Bias

\* The level is within half a step of what it stands for, and has its sign.
LEMMA Close ==
    ASSUME NEW s \in Pcm16
    PROVE  LET back == DecodeSample(EncodeMuLaw(s))
               step == 2^(Exponent(Min({Magnitude(s), Clip}) + Bias) + 3)
           IN  /\ Magnitude(back - s) <= IF Magnitude(s) > Clip THEN step ELSE step \div 2
               /\ back * s >= 0
<1> DEFINE back == DecodeSample(EncodeMuLaw(s))
           step == 2^(Exponent(Min({Magnitude(s), Clip}) + Bias) + 3)
           m    == Min({Magnitude(s), Clip}) + Bias
<1>1. PICK e \in 0..7, q \in 16..31 : Lies(s, e, q)
  BY SomeStep
<1> DEFINE l == Level(e, q)
           p == Pow(e)
<1>2. /\ l \in Int /\ 0 <= l /\ l <= 32124 /\ l = 8 * p * q + 4 * p - 132
      /\ p \in {1, 2, 4, 8, 16, 32, 64, 128} /\ step = 8 * p
      /\ back = IF s < 0 THEN -l ELSE l
  <2>1. /\ Exponent(Min({Magnitude(s), Clip}) + Bias) = e
        /\ back = Signed(s, l)
    BY <1>1, Transcoded
  <2>2. step = Pow(e + 3)
    BY <2>1 DEF Pow
  <2>3. back = IF s < 0 THEN -l ELSE l
    BY <2>1 DEF Signed
  <2> HIDE DEF step, back
  <2> QED
    BY <2>2, <2>3, LevelIs
<1>3. 8 * p * q <= m /\ m < 8 * p * q + 8 * p
  BY <1>1 DEF Lies
<1>4. /\ Magnitude(s) \in Int /\ 0 <= Magnitude(s) /\ Magnitude(s) <= 32768
      /\ Magnitude(s) = (IF s < 0 THEN -s ELSE s)
      /\ m = IF Magnitude(s) <= 32635 THEN Magnitude(s) + 132 ELSE 32767
      /\ s \in Int
  BY BiasedIs
<1>5. Magnitude(back - s) = IF back - s < 0 THEN -(back - s) ELSE back - s
  BY DEF Magnitude
<1> HIDE DEF back, step, m, l, p
<1>6. back * s >= 0
  <2>1. CASE s < 0
    <3>1. back = -l /\ back <= 0
      BY <1>2, <2>1
    <3> QED
      BY <1>2, <1>4, <2>1, <3>1
  <2>2. CASE s >= 0
    <3>1. back = l
      BY <1>2, <1>4, <2>2
    <3> QED
      BY <1>2, <1>4, <2>2, <3>1
  <2> QED
    BY <1>4, <2>1, <2>2
<1>7. Magnitude(back - s) <= IF Magnitude(s) > 32635 THEN step ELSE step \div 2
  <2> DEFINE d == l - Magnitude(s)
  <2>1. Magnitude(back - s) = IF d < 0 THEN -d ELSE d
    BY <1>2, <1>4, <1>5
  <2>2. step \div 2 = 4 * p
    BY <1>2
  <2>3. 8 * p * q \in Int
    BY <1>2
  <2>4. CASE Magnitude(s) <= 32635
    <3>1. l + 132 - 4 * p <= Magnitude(s) + 132 /\ Magnitude(s) + 132 < l + 132 + 4 * p
      BY <1>2, <1>3, <1>4, <2>3, <2>4
    <3> QED
      BY <1>2, <1>4, <2>1, <2>2, <2>4, <3>1
  <2>5. CASE Magnitude(s) > 32635
    <3>1. l + 132 - 4 * p <= 32767 /\ 32767 < l + 132 + 4 * p
      BY <1>2, <1>3, <1>4, <2>3, <2>5
    <3>2. p = 128
      BY <1>2, <1>3, <1>4, <2>5
    <3> QED
      BY <1>2, <1>4, <2>1, <2>2, <2>5, <3>1, <3>2
  <2> QED
    BY <1>4, <2>4, <2>5
<1> QED
  BY <1>6, <1>7 DEF Clip, back, step

\* Neighbours are decoded in their order, across steps, segments and the sign.
LEMMA OrderKept ==
    ASSUME NEW s \in Pcm16, s < 32767
    PROVE  DecodeSample(EncodeMuLaw(s)) <= DecodeSample(EncodeMuLaw(s + 1))
<1> DEFINE m == Min({Magnitude(s), Clip}) + Bias
           n == Min({Magnitude(s + 1), Clip}) + Bias
<1>1. s + 1 \in Pcm16 /\ s \in Int
  BY DEF Pcm16
<1>2. PICK e \in 0..7, q \in 16..31 : Lies(s, e, q)
  BY SomeStep
<1>3. PICK f \in 0..7, r \in 16..31 : Lies(s + 1, f, r)
  BY <1>1, SomeStep
<1>4. /\ DecodeSample(EncodeMuLaw(s)) = Signed(s, Level(e, q))
      /\ DecodeSample(EncodeMuLaw(s + 1)) = Signed(s + 1, Level(f, r))
      /\ Level(e, q) \in Int /\ 0 <= Level(e, q)
      /\ Level(f, r) \in Int /\ 0 <= Level(f, r)
      /\ Pow(e) \in Int /\ Pow(f) \in Int
      /\ 8 * Pow(e) * q \in Int /\ 8 * Pow(f) * r \in Int
  <2>1. Exponent(m) = e /\ DecodeSample(EncodeMuLaw(s)) = Signed(s, Level(e, q))
    BY <1>2, Transcoded
  <2>2. Exponent(n) = f /\ DecodeSample(EncodeMuLaw(s + 1)) = Signed(s + 1, Level(f, r))
    BY <1>1, <1>3, Transcoded
  <2> HIDE DEF m, n
  <2>3. /\ Level(e, q) \in Int /\ 0 <= Level(e, q)
        /\ Pow(e) \in {1, 2, 4, 8, 16, 32, 64, 128}
    BY LevelIs
  <2>4. /\ Level(f, r) \in Int /\ 0 <= Level(f, r)
        /\ Pow(f) \in {1, 2, 4, 8, 16, 32, 64, 128}
    BY LevelIs
  <2>5. Pow(e) \in Int /\ Pow(f) \in Int
    BY <2>3, <2>4
  <2>6. 8 * Pow(e) * q \in Int /\ 8 * Pow(f) * r \in Int
    BY <2>5
  <2> QED
    BY <2>1, <2>2, <2>3, <2>4, <2>5, <2>6
<1>5. /\ 8 * Pow(e) * q <= m /\ m < 8 * Pow(e) * q + 8 * Pow(e)
      /\ 8 * Pow(f) * r <= n /\ n < 8 * Pow(f) * r + 8 * Pow(f)
  BY <1>2, <1>3 DEF Lies
<1>6. /\ m \in Int /\ n \in Int
      /\ s >= 0 => m <= n
      /\ s + 1 < 0 => n <= m
  BY <1>1, BiasedIs
<1> HIDE DEF m, n
<1>7. CASE s >= 0
  <2>1. Level(e, q) <= Level(f, r)
    <3>1. 8 * Pow(e) * q < 8 * Pow(f) * r + 8 * Pow(f)
      BY <1>4, <1>5, <1>6, <1>7
    <3> QED
      BY <3>1, LevelsGrow
  <2> QED
    BY <1>1, <1>4, <1>7, <2>1 DEF Signed
<1>8. CASE s + 1 < 0
  <2>1. Level(f, r) <= Level(e, q)
    <3>1. 8 * Pow(f) * r < 8 * Pow(e) * q + 8 * Pow(e)
      BY <1>4, <1>5, <1>6, <1>8
    <3> QED
      BY <3>1, LevelsGrow
  <2> QED
    BY <1>1, <1>4, <1>8, <2>1 DEF Signed
<1>9. CASE s < 0 /\ s + 1 >= 0
  BY <1>1, <1>4, <1>9 DEF Signed
<1> QED
  BY <1>1, <1>7, <1>8, <1>9

\* A byte is the byte of its own level, but for the zero that has the other sign.
LEMMA ByteKept ==
    ASSUME NEW byte \in 0..255
    PROVE  EncodeMuLaw(DecodeSample(byte)) = IF byte = 127 THEN 255 ELSE byte
<1> DEFINE sign == IF byte < 128 THEN -1 ELSE 1
           i    == 255 - byte
           e    == (i \div 16) % 8
           q    == (i % 16) + 16
           l    == Level(e, q)
           s    == DecodeSample(byte)
<1>1. e \in 0..7 /\ q \in 16..31 /\ byte = Byte(sign, e, q)
  BY DEF Byte, SignOf
<1>2. s = (IF sign < 0 THEN -l ELSE l) /\ sign \in {-1, 1}
  <2>1. sign \in {-1, 1}
    OBVIOUS
  <2> HIDE DEF sign, e, q
  <2> QED
    BY <1>1, <2>1, Decoded DEF Signed
<1> HIDE DEF sign, e, q
<1>3. /\ l \in Int /\ 0 <= l /\ l <= 32124 /\ l = 8 * Pow(e) * q + 4 * Pow(e) - 132
      /\ l = 0 <=> e = 0 /\ q = 16
      /\ Pow(e) \in {1, 2, 4, 8, 16, 32, 64, 128}
  BY <1>1, LevelIs
<1> HIDE DEF l, s
<1>4. s \in Pcm16
  <2>1. s \in Int /\ -32768 <= s /\ s <= 32767
    BY <1>2, <1>3
  <2> QED
    BY <2>1, Sampled
<1>5. Min({Magnitude(s), Clip}) + Bias = l + 132
  BY <1>2, <1>3, <1>4, BiasedIs
<1>6. Lies(s, e, q)
  <2>1. 8 * Pow(e) * q <= l + 132 /\ l + 132 < 8 * Pow(e) * q + 8 * Pow(e)
    <3>1. 8 * Pow(e) * q \in Int
      BY <1>1, <1>3
    <3> QED
      BY <1>3, <3>1
  <2> QED
    BY <1>5, <2>1 DEF Lies
<1>7. EncodeMuLaw(s) = Byte(s, e, q)
  BY <1>1, <1>4, <1>6, Transcoded
<1>8. Byte(s, e, q) = IF byte = 127 THEN 255 ELSE byte
  <2>1. CASE l = 0
    BY <1>1, <1>2, <1>3, <2>1 DEF Byte, SignOf
  <2>2. CASE l # 0
    BY <1>1, <1>2, <1>3, <2>2 DEF Byte, SignOf
  <2> QED
    BY <2>1, <2>2
<1> QED
  BY <1>7, <1>8 DEF s

\* For every sample there is: see CodecFaithful.
THEOREM CodecTheorem == CodecInit => CodecFaithful
<1> SUFFICES ASSUME CodecInit PROVE CodecFaithful
  OBVIOUS
<1>1. sample \in Pcm16 /\ sample % 256 \in 0..255
  BY DEF CodecInit, Pcm16
<1> QED
  BY <1>1, Close, OrderKept, ByteKept DEF CodecFaithful
=============================================================================
