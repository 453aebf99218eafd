-------------------------- MODULE ResamplerProofs --------------------------
(***************************************************************************)
(* Proofs about Resampler, for every ratio that a history can follow and   *)
(* every way a signal can be cut into chunks, and what they need:          *)
(* induction, and the sequences it is used for.                            *)
(*                                                                         *)
(* An operator cannot be handed to a theorem here, so induction is stated  *)
(* with sets: the numbers that have a property are all numbers.            *)
(***************************************************************************)
EXTENDS Resampler, FiniteSetTheorems, SequenceTheorems, TLAPS

-----------------------------------------------------------------------------
(* Induction. *)

\* A set of numbers has a least one, since the intervals below them are
\* well-founded.
LEMMA Least ==
    ASSUME NEW T, T \subseteq Nat, T # {}
    PROVE  \E m \in T : \A k \in T : m <= k
<1> DEFINE U == {0..n : n \in T}
<1>1. IsWellFoundedOn(StrictSubsetOrdering(Nat), FiniteSubsetsOf(Nat))
  BY FS_StrictSubsetOrderingWellFounded
<1>2. U \subseteq FiniteSubsetsOf(Nat) /\ U # {}
  <2>1. \A n \in T : 0..n \in SUBSET Nat /\ IsFiniteSet(0..n)
    BY FS_Interval
  <2> QED
    BY <2>1 DEF FiniteSubsetsOf
<1>3. \E x \in U : \A y \in U : <<y, x>> \notin StrictSubsetOrdering(Nat)
  <2> HIDE DEF U
  <2> QED
    BY <1>1, <1>2, WFMin
<1>4. PICK m \in T : \A n \in T : <<0..n, 0..m>> \notin StrictSubsetOrdering(Nat)
  BY <1>3
<1>5. ASSUME NEW n \in T, n < m PROVE FALSE
  <2>1. 0..n \subseteq 0..m /\ m \in 0..m /\ m \notin 0..n
    BY <1>5
  <2>2. 0..n \in SUBSET Nat /\ 0..m \in SUBSET Nat
    OBVIOUS
  <2>3. <<0..n, 0..m>> \in StrictSubsetOrdering(Nat)
    BY <2>1, <2>2 DEF StrictSubsetOrdering
  <2> QED
    BY <2>3, <1>4
<1> QED
  BY <1>4, <1>5

LEMMA Induction ==
    ASSUME NEW T, 0 \in T, \A n \in Nat : n \in T => n + 1 \in T
    PROVE  Nat \subseteq T
<1> SUFFICES ASSUME Nat \ T # {} PROVE FALSE
  OBVIOUS
<1>1. PICK m \in Nat \ T : \A k \in Nat \ T : m <= k
  BY Least
<1>2. m # 0 /\ m - 1 \in Nat /\ ~(m <= m - 1)
  BY <1>1
<1> QED
  BY <1>1, <1>2

LEMMA InductionUpTo ==
    ASSUME NEW n \in Nat, NEW T, 0 \in T, \A k \in 0..(n - 1) : k \in T => k + 1 \in T
    PROVE  0..n \subseteq T
<1> DEFINE U == T \cup {k \in Nat : k > n}
<1>1. Nat \subseteq U
  <2>1. 0 \in U /\ \A k \in Nat : k \in U => k + 1 \in U
    OBVIOUS
  <2> HIDE DEF U
  <2> QED
    BY <2>1, Induction
<1> QED
  BY <1>1

-----------------------------------------------------------------------------
(* Sequences of sequences. *)

\* FlattenSeq is the last of the sequences it is defined by.
LEMMA Flattening ==
    ASSUME NEW seqs, Len(seqs) \in Nat \ {0}
    PROVE  \E f : /\ f = [i \in 1..Len(seqs) |-> IF i = 1 THEN seqs[i]
                                                  ELSE f[i - 1] \o seqs[i]]
                  /\ FlattenSeq(seqs) = f[Len(seqs)]
<1> DEFINE T == {n \in Nat : \E f : f = [i \in 1..n |-> IF i = 1 THEN seqs[i]
                                                  ELSE f[i - 1] \o seqs[i]]}
<1>1. 0 \in T
  <2>1. [i \in 1..0 |-> 0] = [i \in 1..0 |-> IF i = 1 THEN seqs[i]
                       ELSE [j \in 1..0 |-> 0][i - 1] \o seqs[i]]
    OBVIOUS
  <2> QED
    BY <2>1
<1>2. ASSUME NEW n \in Nat, n \in T PROVE n + 1 \in T
  <2>1. PICK f : f = [i \in 1..n |-> IF i = 1 THEN seqs[i] ELSE f[i - 1] \o seqs[i]]
    BY <1>2
  <2> DEFINE g == [i \in 1..(n + 1) |-> IF i = 1 THEN seqs[i] ELSE f[i - 1] \o seqs[i]]
  <2>2. ASSUME NEW i \in 1..n PROVE g[i] = f[i]
    <3>1. f[i] = IF i = 1 THEN seqs[i] ELSE f[i - 1] \o seqs[i]
      BY <2>1
    <3>2. i \in 1..(n + 1)
      OBVIOUS
    <3> QED
      BY <3>1, <3>2
  <2>3. g = [i \in 1..(n + 1) |-> IF i = 1 THEN seqs[i] ELSE g[i - 1] \o seqs[i]]
    <3>1. \A i \in 1..(n + 1) : i # 1 => i - 1 \in 1..n
      OBVIOUS
    <3> QED
      BY <2>2, <3>1
  <2>4. \E h : h = [i \in 1..(n + 1) |-> IF i = 1 THEN seqs[i] ELSE h[i - 1] \o seqs[i]]
    <3> HIDE DEF g
    <3> QED
      BY <2>3
  <2>5. n + 1 \in Nat
    OBVIOUS
  <2> QED
    BY <2>4, <2>5, Zenon
<1>3. Len(seqs) \in T
  <2> HIDE DEF T
  <2> QED
    BY <1>1, <1>2, Induction
<1> QED
  BY <1>3 DEF FlattenSeq

LEMMA FlattenEmpty == FlattenSeq(<< >>) = << >>
BY DEF FlattenSeq

\* What it is made of is made of the same elements.
LEMMA FlattenType ==
    ASSUME NEW S, NEW seqs \in Seq(Seq(S))
    PROVE  FlattenSeq(seqs) \in Seq(S)
<1>1. CASE seqs = << >>
  BY <1>1, FlattenEmpty, EmptySeq
<1>2. CASE seqs # << >>
  <2>1. Len(seqs) \in Nat \ {0}
    BY <1>2
  <2>2. PICK f : /\ f = [i \in 1..Len(seqs) |-> IF i = 1 THEN seqs[i]
                                              ELSE f[i - 1] \o seqs[i]]
                 /\ FlattenSeq(seqs) = f[Len(seqs)]
    BY <2>1, Flattening
  <2> DEFINE T == {n \in Nat : n \in 1..Len(seqs) => f[n] \in Seq(S)}
  <2>3. 0 \in T
    OBVIOUS
  <2>4. ASSUME NEW n \in Nat, n \in T PROVE n + 1 \in T
    <3> SUFFICES ASSUME n + 1 \in 1..Len(seqs) PROVE f[n + 1] \in Seq(S)
      OBVIOUS
    <3>1. seqs[n + 1] \in Seq(S)
      OBVIOUS
    <3>2. CASE n = 0
      BY <2>2, <3>1, <3>2
    <3>3. CASE n # 0
      <4>1. n \in 1..Len(seqs) /\ f[n] \in Seq(S)
        BY <2>4, <3>3
      <4>2. f[n + 1] = f[n] \o seqs[n + 1]
        <5>1. n + 1 # 1 /\ (n + 1) - 1 = n
          BY <3>3
        <5> QED
          BY <2>2, <5>1
      <4> QED
        BY <3>1, <4>1, <4>2
    <3> QED
      BY <3>2, <3>3
  <2>5. Len(seqs) \in T
    <3> HIDE DEF T
    <3> QED
      BY <2>1, <2>3, <2>4, Induction
  <2> QED
    BY <2>1, <2>2, <2>5
<1> QED
  BY <1>1, <1>2

LEMMA FlattenAppend ==
    ASSUME NEW S, NEW seqs \in Seq(Seq(S)), NEW s \in Seq(S)
    PROVE  FlattenSeq(Append(seqs, s)) = FlattenSeq(seqs) \o s
<1> DEFINE more == Append(seqs, s)
           n    == Len(seqs)
<1>1. /\ more \in Seq(Seq(S)) /\ Len(more) = n + 1 /\ n \in Nat
      /\ more[n + 1] = s /\ \A i \in 1..n : more[i] = seqs[i]
  BY AppendProperties
<1> HIDE DEF more
<1>2. PICK g : /\ g = [i \in 1..(n + 1) |-> IF i = 1 THEN more[i]
                                              ELSE g[i - 1] \o more[i]]
               /\ FlattenSeq(more) = g[n + 1]
  <2>1. Len(more) \in Nat \ {0}
    BY <1>1
  <2> QED
    BY <1>1, <2>1, Flattening
<1>3. CASE n = 0
  <2>1. seqs = << >>
    BY <1>3
  <2>2. g[1] = s
    BY <1>1, <1>2, <1>3
  <2> QED
    BY <1>2, <1>3, <2>1, <2>2, FlattenEmpty, ConcatEmptySeq, EmptySeq DEF more
<1>4. CASE n # 0
  <2>1. PICK f : /\ f = [i \in 1..n |-> IF i = 1 THEN seqs[i] ELSE f[i - 1] \o seqs[i]]
                 /\ FlattenSeq(seqs) = f[n]
    BY <1>1, <1>4, Flattening
  <2> DEFINE T == {k \in Nat : k \in 1..n => g[k] = f[k]}
  <2>2. 0 \in T
    OBVIOUS
  <2>3. ASSUME NEW k \in Nat, k \in T PROVE k + 1 \in T
    <3> SUFFICES ASSUME k + 1 \in 1..n PROVE g[k + 1] = f[k + 1]
      OBVIOUS
    <3>1. CASE k = 0
      BY <1>1, <1>2, <2>1, <3>1
    <3>2. CASE k # 0
      <4>1. k \in 1..n /\ g[k] = f[k] /\ k + 1 # 1 /\ (k + 1) - 1 = k
            /\ k + 1 \in 1..(n + 1)
        BY <2>3, <3>2
      <4>2. g[k + 1] = g[k] \o more[k + 1]
        BY <1>2, <4>1
      <4>3. f[k + 1] = f[k] \o seqs[k + 1]
        BY <2>1, <4>1
      <4> QED
        BY <1>1, <4>1, <4>2, <4>3
    <3> QED
      BY <3>1, <3>2
  <2>4. n \in T
    <3> HIDE DEF T
    <3> QED
      BY <1>1, <2>2, <2>3, Induction
  <2>5. g[n] = f[n] /\ n + 1 # 1 /\ (n + 1) - 1 = n /\ n + 1 \in 1..(n + 1)
    BY <1>1, <1>4, <2>4
  <2>6. g[n + 1] = g[n] \o more[n + 1]
    BY <1>2, <2>5
  <2> QED
    BY <1>1, <1>2, <2>1, <2>5, <2>6 DEF more
<1> QED
  BY <1>3, <1>4

\* The beginnings of a sequence.
LEMMA Beginning ==
    ASSUME NEW S, NEW s \in Seq(S)
    PROVE  /\ SubSeq(s, 1, 0) = << >> /\ SubSeq(s, 1, Len(s)) = s
           /\ \A k \in 0..Len(s) : SubSeq(s, 1, k) \in Seq(S) /\ Len(SubSeq(s, 1, k)) = k
           /\ \A k \in 0..(Len(s) - 1) :
                  /\ SubSeq(s, 1, k + 1) = Append(SubSeq(s, 1, k), s[k + 1])
                  /\ s[k + 1] \in S
<1>1. SubSeq(s, 1, 0) = << >> /\ SubSeq(s, 1, Len(s)) = s
  BY SubSeqEmpty, SubSeqFull
<1>2. \A k \in 0..Len(s) : SubSeq(s, 1, k) \in Seq(S) /\ Len(SubSeq(s, 1, k)) = k
  BY SubSeqProperties
<1>3. ASSUME NEW k \in 0..(Len(s) - 1)
      PROVE  /\ SubSeq(s, 1, k + 1) = Append(SubSeq(s, 1, k), s[k + 1])
             /\ s[k + 1] \in S
  BY SubSeqRecursiveSecond
<1> QED
  BY <1>1, <1>2, <1>3

LEMMA FlattenConcat ==
    ASSUME NEW S, NEW p \in Seq(Seq(S)), NEW q \in Seq(Seq(S))
    PROVE  FlattenSeq(p \o q) = FlattenSeq(p) \o FlattenSeq(q)
<1> DEFINE Part(k) == SubSeq(q, 1, k)
           T == {k \in Nat : k \in 0..Len(q) =>
                    FlattenSeq(p \o Part(k)) = FlattenSeq(p) \o FlattenSeq(Part(k))}
<1>1. 0 \in T
  <2>1. Part(0) = << >> /\ FlattenSeq(p) \in Seq(S)
    BY Beginning, FlattenType
  <2>2. p \o << >> = p
    BY ConcatEmptySeq
  <2>3. FlattenSeq(p) \o << >> = FlattenSeq(p)
    BY <2>1, ConcatEmptySeq
  <2> QED
    BY <2>1, <2>2, <2>3, FlattenEmpty
<1>2. ASSUME NEW k \in Nat, k \in T PROVE k + 1 \in T
  <2> SUFFICES ASSUME k + 1 \in 0..Len(q)
               PROVE  FlattenSeq(p \o Part(k + 1)) = FlattenSeq(p) \o FlattenSeq(Part(k + 1))
    OBVIOUS
  <2> DEFINE x == Part(k)
             y == q[k + 1]
  <2>1. x \in Seq(Seq(S)) /\ y \in Seq(S) /\ Part(k + 1) = Append(x, y)
    BY Beginning
  <2>2. FlattenSeq(p \o x) = FlattenSeq(p) \o FlattenSeq(x)
    BY <1>2
  <2> HIDE DEF x, y, Part
  <2>3. p \o Append(x, y) = Append(p \o x, y) /\ p \o x \in Seq(Seq(S))
    BY <2>1
  <2>4. FlattenSeq(p) \in Seq(S) /\ FlattenSeq(x) \in Seq(S)
    BY <2>1, FlattenType
  <2>5. FlattenSeq(Append(p \o x, y)) = FlattenSeq(p \o x) \o y
    BY <2>1, <2>3, FlattenAppend
  <2>6. FlattenSeq(Append(x, y)) = FlattenSeq(x) \o y
    BY <2>1, FlattenAppend
  <2>7. (FlattenSeq(p) \o FlattenSeq(x)) \o y = FlattenSeq(p) \o (FlattenSeq(x) \o y)
    <3>1. \A a, b, c \in Seq(S) : (a \o b) \o c = a \o (b \o c)
      BY ConcatAssociative, SMTT(30)
    <3>2. y \in Seq(S)
      BY <2>1
    <3> QED
      BY <2>4, <3>1, <3>2
  <2> QED
    BY <2>1, <2>2, <2>3, <2>5, <2>6, <2>7
<1>3. Len(q) \in Nat /\ Len(q) \in 0..Len(q) /\ Part(Len(q)) = q
  BY Beginning
<1>4. Len(q) \in T
  <2> HIDE DEF T
  <2> QED
    BY <1>1, <1>2, <1>3, Induction
<1> QED
  BY <1>3, <1>4

-----------------------------------------------------------------------------
(* Which input an output needs. *)

LEMMA Products ==
    ASSUME NEW a \in Int, NEW b \in Int, NEW c \in Nat, a <= b
    PROVE  a * c <= b * c /\ a * c \in Int /\ b * c \in Int
OBVIOUS

\* The newest input of output n is the last one whose place in the stuffed signal
\* is not beyond that of the output.
LEMMA Newest ==
    ASSUME NEW ratio, Followed(ratio), NEW n \in Nat
    PROVE  /\ InputIndex(ratio, n) \in Nat
           /\ InputIndex(ratio, n) * ratio.up <= n * ratio.down
           /\ n * ratio.down < InputIndex(ratio, n) * ratio.up + ratio.up
           /\ n * ratio.down \in Nat
<1> DEFINE a == n * ratio.down
           u == ratio.up
<1>1. a \in Nat /\ u \in Nat \ {0}
  BY DEF Followed
<1>2. InputIndex(ratio, n) = a \div u
  BY DEF InputIndex, At
<1> HIDE DEF a, u
<1>3. (a \div u) \in Nat /\ (a \div u) * u <= a /\ a < (a \div u) * u + u
  BY <1>1
<1> QED
  BY <1>1, <1>2, <1>3 DEF a, u

\* The need for input grows, and not by more than a history holds.
LEMMA NextNewest ==
    ASSUME NEW ratio, Followed(ratio), NEW n \in Nat
    PROVE  /\ InputIndex(ratio, n) <= InputIndex(ratio, n + 1)
           /\ InputIndex(ratio, n + 1) <= InputIndex(ratio, n) + Lag + 1
<1> DEFINE u == ratio.up
           d == ratio.down
           p == InputIndex(ratio, n)
           q == InputIndex(ratio, n + 1)
<1>1. u \in Nat \ {0} /\ d \in Nat \ {0} /\ d <= u * (Lag + 1) /\ Lag \in Nat
  BY ResamplerAssumption DEF Followed
<1>2. /\ p \in Nat /\ q \in Nat /\ n * d \in Nat
      /\ p * u <= n * d /\ n * d < p * u + u
      /\ q * u <= (n + 1) * d /\ (n + 1) * d < q * u + u
  BY Newest
<1>3. (n + 1) * d = n * d + d
  BY <1>1
<1> HIDE DEF p, q, u, d
<1>4. p <= q
  <2> SUFFICES ASSUME q + 1 <= p PROVE FALSE
    BY <1>2
  <2>1. (q + 1) * u <= p * u /\ (q + 1) * u = q * u + u
    BY <1>1, <1>2, Products
  <2> QED
    BY <1>1, <1>2, <1>3, <2>1
<1>5. q <= p + Lag + 1
  <2> SUFFICES ASSUME p + Lag + 2 <= q PROVE FALSE
    BY <1>1, <1>2
  <2>1. (p + Lag + 2) * u <= q * u
    BY <1>1, <1>2, Products
  <2>2. (p + Lag + 2) * u = p * u + u * (Lag + 1) + u
    BY <1>1, <1>2
  <2> QED
    BY <1>1, <1>2, <1>3, <2>1, <2>2
<1> QED
  BY <1>4, <1>5 DEF p, q

LEMMA LaterNewest ==
    ASSUME NEW ratio, Followed(ratio), NEW m \in Nat, NEW n \in Nat, m <= n
    PROVE  InputIndex(ratio, m) <= InputIndex(ratio, n)
<1> DEFINE T == {k \in Nat : InputIndex(ratio, m) <= InputIndex(ratio, m + k)}
<1>1. 0 \in T
  BY Newest
<1>2. ASSUME NEW k \in Nat, k \in T PROVE k + 1 \in T
  <2>1. m + k \in Nat /\ m + (k + 1) = (m + k) + 1 /\ m + k + 1 \in Nat
    OBVIOUS
  <2> QED
    BY <1>2, <2>1, Newest, NextNewest
<1>3. n - m \in T
  <2> HIDE DEF T
  <2> QED
    BY <1>1, <1>2, Induction
<1>4. m + (n - m) = n
  OBVIOUS
<1> QED
  BY <1>3, <1>4

\* How many outputs the first inputs are enough for.
Reach(ratio, inputs) ==
    Cardinality({n \in 0..(inputs * ratio.up) : InputIndex(ratio, n) < inputs})

LEMMA Reached ==
    ASSUME NEW ratio, Followed(ratio), NEW inputs \in Nat
    PROVE  /\ Reach(ratio, inputs) \in Nat
           /\ \A n \in Nat : n < Reach(ratio, inputs) <=> InputIndex(ratio, n) < inputs
           /\ Reach(ratio, inputs) <= inputs * ratio.up
           /\ inputs * ratio.up \in Nat
<1> DEFINE u == ratio.up
           most == inputs * u
           T == {n \in Nat : inputs <= InputIndex(ratio, n)}
<1>1. u \in Nat \ {0} /\ ratio.down \in Nat \ {0} /\ most \in Nat
  BY DEF Followed
<1>2. most \in T
  <2>1. most * 1 <= most * ratio.down
    BY <1>1
  <2>2. /\ InputIndex(ratio, most) \in Nat
        /\ most * ratio.down < InputIndex(ratio, most) * u + u
    BY <1>1, Newest
  <2> DEFINE p == InputIndex(ratio, most)
  <2>3. ASSUME p + 1 <= inputs PROVE FALSE
    <3> HIDE DEF p
    <3>1. p \in Nat
      BY <2>2 DEF p
    <3>2. (p + 1) * u <= inputs * u /\ (p + 1) * u = p * u + u
      BY <1>1, <2>3, <3>1, Products
    <3>3. most < p * u + u
      BY <1>1, <2>1, <2>2, <3>1 DEF p
    <3> QED
      BY <1>1, <3>1, <3>2, <3>3
  <2> QED
    BY <1>1, <2>2, <2>3
<1>3. PICK e \in T : \A n \in T : e <= n
  BY <1>2, Least
<1>4. ASSUME NEW n \in Nat PROVE n < e <=> InputIndex(ratio, n) < inputs
  <2>1. InputIndex(ratio, n) \in Nat /\ InputIndex(ratio, e) \in Nat
    BY <1>3, Newest
  <2>2. n < e => InputIndex(ratio, n) < inputs
    BY <1>3, <2>1
  <2>3. e <= n => inputs <= InputIndex(ratio, n)
    BY <1>3, <2>1, LaterNewest
  <2> QED
    BY <1>3, <2>1, <2>2, <2>3
<1>5. {n \in 0..most : InputIndex(ratio, n) < inputs} = 0..(e - 1)
  BY <1>1, <1>2, <1>3, <1>4
<1>6. Cardinality(0..(e - 1)) = e
  BY <1>3, FS_Interval
<1>7. Reach(ratio, inputs) = e
  BY <1>5, <1>6 DEF Reach
<1> QED
  BY <1>1, <1>2, <1>3, <1>4, <1>7

-----------------------------------------------------------------------------
(* What comes out. *)

Sample == [n : Int, terms : SUBSET (Int \X Int)]

\* A signal has silence before it.
SignalAt(signal, i) == IF i < 0 THEN Silence ELSE signal[i + 1]

\* The sample at a place of the output.
OutputAt(ratio, signal, i) ==
    [n     |-> i - 1,
     terms |-> IF Identity(ratio)
                 THEN {<<0, signal[i]>>}
                 ELSE {<<Phase(ratio, i - 1) + k * ratio.up,
                         SignalAt(signal, InputIndex(ratio, i - 1) - k)>> : k \in 0..Lag}]

LEMMA OutputType ==
    ASSUME NEW ratio, Followed(ratio), NEW signal \in Seq(Int),
           NEW i \in 1..Reach(ratio, Len(signal))
    PROVE  OutputAt(ratio, signal, i) \in Sample
<1>1. i - 1 \in Nat /\ i - 1 < Reach(ratio, Len(signal)) /\ Len(signal) \in Nat
  BY Reached
<1>2. InputIndex(ratio, i - 1) \in Nat /\ InputIndex(ratio, i - 1) < Len(signal)
  BY <1>1, Newest, Reached
<1>3. \A k \in 0..Lag : SignalAt(signal, InputIndex(ratio, i - 1) - k) \in Int
  BY <1>2, ResamplerAssumption DEF SignalAt, Silence
<1>4. \A k \in 0..Lag : Phase(ratio, i - 1) + k * ratio.up \in Int
  <2>1. At(ratio, i - 1) \in Nat /\ ratio.up \in Nat \ {0}
    BY <1>1, Newest DEF At, Followed
  <2>2. Phase(ratio, i - 1) \in Int
    BY <2>1 DEF Phase
  <2> QED
    BY <2>1, <2>2, ResamplerAssumption
<1>5. Identity(ratio) => signal[i] \in Int
  <2> SUFFICES ASSUME Identity(ratio) PROVE i \in 1..Len(signal)
    OBVIOUS
  <2>1. /\ InputIndex(ratio, i - 1) * ratio.up <= (i - 1) * ratio.up
        /\ (i - 1) * ratio.up < InputIndex(ratio, i - 1) * ratio.up + ratio.up
    BY <1>1, Newest DEF Identity
  <2> DEFINE p == InputIndex(ratio, i - 1)
             u == ratio.up
  <2>2. u \in Nat \ {0} /\ p \in Nat
    BY <1>2 DEF Followed
  <2>3. ASSUME p + 1 <= i - 1 PROVE FALSE
    <3>1. (p + 1) * u <= (i - 1) * u /\ (p + 1) * u = p * u + u
      <4> HIDE DEF p, u
      <4> QED
        BY <2>2, <2>3, <1>1, Products
    <3> QED
      BY <2>1, <2>2, <3>1, <1>1, Products
  <2> QED
    BY <1>1, <1>2, <2>2, <2>3
<1> QED
  BY <1>3, <1>4, <1>5 DEF OutputAt, Sample

\* The identity needs one input for each output.
LEMMA IdentityReach ==
    ASSUME NEW ratio, Followed(ratio), Identity(ratio), NEW n \in Nat
    PROVE  InputIndex(ratio, n) = n /\ Reach(ratio, n) = n
<1> DEFINE u == ratio.up
<1>1. \A m \in Nat : InputIndex(ratio, m) = m
  <2> SUFFICES ASSUME NEW m \in Nat PROVE InputIndex(ratio, m) = m
    OBVIOUS
  <2> DEFINE p == InputIndex(ratio, m)
  <2>1. /\ u \in Nat \ {0} /\ p \in Nat /\ m * u \in Nat
        /\ p * u <= m * u /\ m * u < p * u + u
    BY Newest DEF Followed, Identity
  <2> HIDE DEF p, u
  <2>2. ASSUME p + 1 <= m PROVE FALSE
    <3>1. (p + 1) * u <= m * u /\ (p + 1) * u = p * u + u /\ p * u \in Int
      BY <2>1, <2>2, Products
    <3> QED
      BY <2>1, <3>1
  <2>3. ASSUME m + 1 <= p PROVE FALSE
    <3>1. (m + 1) * u <= p * u /\ (m + 1) * u = m * u + u /\ p * u \in Int
      BY <2>1, <2>3, Products
    <3> QED
      BY <2>1, <3>1
  <2> QED
    BY <2>1, <2>2, <2>3 DEF p
<1>2. Reach(ratio, n) \in Nat /\ \A m \in Nat : m < Reach(ratio, n) <=> m < n
  BY <1>1, Reached
<1> QED
  BY <1>1, <1>2

\* Resampling in one piece.
LEMMA ResampledIs ==
    ASSUME NEW ratio, Followed(ratio), NEW signal \in Seq(Int)
    PROVE  /\ Resampled(ratio, signal) \in Seq(Sample)
           /\ Len(Resampled(ratio, signal)) = Reach(ratio, Len(signal))
           /\ \A i \in 1..Reach(ratio, Len(signal)) :
                  Resampled(ratio, signal)[i] = OutputAt(ratio, signal, i)
<1>1. Resampled(ratio, signal) =
          [i \in 1..Reach(ratio, Len(signal)) |-> OutputAt(ratio, signal, i)]
  BY DEF Resampled, Reach, OutputAt, SignalAt, Filtered
<1>2. Reach(ratio, Len(signal)) \in Nat
  BY Reached
<1>3. \A i \in 1..Reach(ratio, Len(signal)) : OutputAt(ratio, signal, i) \in Sample
  BY OutputType
<1> QED
  BY <1>1, <1>2, <1>3

\* A resampler that has been given a signal, however it was cut: it keeps what the
\* next output looks back on, and no more.
Follows(r, ratio, signal) ==
    /\ r \in [ratio : {ratio}, history : Seq(Int), inBase : Int, outIndex : Nat]
    /\ r.outIndex = Reach(ratio, Len(signal))
    /\ IF Identity(ratio)
         THEN Len(r.history) = Lag
         ELSE /\ r.inBase = InputIndex(ratio, r.outIndex) - Lag
              /\ Len(r.history) = Len(signal) - r.inBase
              /\ \A i \in 1..Len(r.history) :
                     r.history[i] = SignalAt(signal, r.inBase + i - 1)

LEMMA FreshFollows ==
    ASSUME NEW ratio, Followed(ratio)
    PROVE  Follows(FreshResampler(ratio), ratio, << >>)
<1> DEFINE r == FreshResampler(ratio)
<1>1. Lag \in Nat /\ Silence \in Int
  BY ResamplerAssumption DEF Silence
<1>2. /\ r \in [ratio : {ratio}, history : Seq(Int), inBase : Int, outIndex : Nat]
      /\ Len(r.history) = Lag /\ r.inBase = -Lag /\ r.outIndex = 0
      /\ \A i \in 1..Lag : r.history[i] = Silence
  BY <1>1 DEF FreshResampler
<1>3. Len(<< >>) = 0
  OBVIOUS
<1>4. Reach(ratio, 0) = 0
  <2>1. Reach(ratio, 0) \in Nat /\ (0 < Reach(ratio, 0) => InputIndex(ratio, 0) < 0)
    BY Reached
  <2> QED
    BY <2>1, Newest
<1>5. InputIndex(ratio, 0) = 0
  <2> DEFINE p == InputIndex(ratio, 0)
             u == ratio.up
  <2>1. p \in Nat /\ u \in Nat \ {0} /\ p * u <= 0
    BY Newest DEF Followed
  <2>2. ASSUME 1 <= p PROVE FALSE
    <3> HIDE DEF p, u
    <3>1. 1 * u <= p * u
      BY <2>1, <2>2, Products
    <3> QED
      BY <2>1, <3>1
  <2> QED
    BY <2>1, <2>2
<1>6. \A i \in 1..Lag : SignalAt(<< >>, -Lag + i - 1) = Silence
  BY <1>1 DEF SignalAt
<1> HIDE DEF r
<1>7. /\ r.inBase = InputIndex(ratio, r.outIndex) - Lag
      /\ Len(r.history) = Len(<< >>) - r.inBase
      /\ \A i \in 1..Len(r.history) : r.history[i] = SignalAt(<< >>, r.inBase + i - 1)
  <2>1. r.inBase = -Lag /\ r.outIndex = 0 /\ Len(r.history) = Lag /\ Len(<< >>) = 0
    BY <1>2, <1>3
  <2>2. InputIndex(ratio, r.outIndex) = 0
    BY <2>1, <1>5
  <2>3. r.inBase = InputIndex(ratio, r.outIndex) - Lag
        /\ Len(r.history) = Len(<< >>) - r.inBase
    BY <1>1, <2>1, <2>2
  <2>4. ASSUME NEW i \in 1..Len(r.history)
        PROVE  r.history[i] = SignalAt(<< >>, r.inBase + i - 1)
    <3>1. r.history[i] = Silence /\ r.inBase + i - 1 \in Int /\ r.inBase + i - 1 < 0
      BY <1>1, <1>2, <2>1
    <3> QED
      BY <3>1 DEF SignalAt
  <2> QED
    BY <2>3, <2>4
<1>8. Follows(r, ratio, << >>)
  BY <1>2, <1>3, <1>4, <1>7 DEF Follows
<1> QED
  BY <1>8 DEF r

LEMMA FollowsBounded ==
    ASSUME NEW ratio, Followed(ratio), NEW signal \in Seq(Int), NEW r,
           Follows(r, ratio, signal)
    PROVE  HistoryBounded(r)
<1>1. Len(signal) \in Nat /\ r.ratio = ratio /\ r.outIndex \in Nat
  BY DEF Follows
<1>2. /\ InputIndex(ratio, r.outIndex) \in Nat
      /\ ~(InputIndex(ratio, r.outIndex) < Len(signal))
  BY <1>1, Newest, Reached DEF Follows
<1> QED
  BY <1>1, <1>2, ResamplerAssumption DEF Follows, HistoryBounded

\* The signal goes on with a chunk.
LEMMA Extended ==
    ASSUME NEW signal \in Seq(Int), NEW chunk \in Seq(Int)
    PROVE  /\ signal \o chunk \in Seq(Int)
           /\ Len(signal \o chunk) = Len(signal) + Len(chunk)
           /\ \A i \in Int : i < Len(signal) =>
                  SignalAt(signal \o chunk, i) = SignalAt(signal, i)
           /\ \A i \in Len(signal)..(Len(signal) + Len(chunk) - 1) :
                  SignalAt(signal \o chunk, i) = chunk[i - Len(signal) + 1]
<1>1. /\ signal \o chunk \in Seq(Int)
      /\ Len(signal \o chunk) = Len(signal) + Len(chunk)
      /\ \A i \in 1..(Len(signal) + Len(chunk)) :
             (signal \o chunk)[i] = IF i <= Len(signal) THEN signal[i]
                                    ELSE chunk[i - Len(signal)]
  BY ConcatProperties
<1>2. Len(signal) \in Nat /\ Len(chunk) \in Nat
  OBVIOUS
<1>3. ASSUME NEW i \in Int, i < Len(signal)
      PROVE  SignalAt(signal \o chunk, i) = SignalAt(signal, i)
  BY <1>1, <1>2, <1>3 DEF SignalAt
<1>4. ASSUME NEW i \in Len(signal)..(Len(signal) + Len(chunk) - 1)
      PROVE  SignalAt(signal \o chunk, i) = chunk[i - Len(signal) + 1]
  <2>1. i + 1 \in 1..(Len(signal) + Len(chunk)) /\ ~(i + 1 <= Len(signal)) /\ ~(i < 0)
        /\ i + 1 - Len(signal) = i - Len(signal) + 1
    BY <1>2
  <2> QED
    BY <1>1, <2>1 DEF SignalAt
<1> QED
  BY <1>1, <1>3, <1>4

\* More of the signal does not change what came out already, and adds to it.
LEMMA ReachGrows ==
    ASSUME NEW ratio, Followed(ratio), NEW a \in Nat, NEW b \in Nat, a <= b
    PROVE  Reach(ratio, a) <= Reach(ratio, b)
<1>1. Reach(ratio, a) \in Nat /\ Reach(ratio, b) \in Nat
  BY Reached
<1>2. ASSUME Reach(ratio, b) < Reach(ratio, a) PROVE FALSE
  <2>1. InputIndex(ratio, Reach(ratio, b)) < a
    BY <1>1, <1>2, Reached
  <2>2. ~(InputIndex(ratio, Reach(ratio, b)) < b)
    BY <1>1, Reached
  <2> QED
    BY <2>1, <2>2, <1>1, Newest
<1> QED
  BY <1>1, <1>2

LEMMA OutputStays ==
    ASSUME NEW ratio, Followed(ratio), NEW signal \in Seq(Int), NEW chunk \in Seq(Int),
           NEW i \in 1..Reach(ratio, Len(signal))
    PROVE  OutputAt(ratio, signal \o chunk, i) = OutputAt(ratio, signal, i)
<1>1. i - 1 \in Nat /\ i - 1 < Reach(ratio, Len(signal)) /\ Len(signal) \in Nat
  BY Reached
<1>2. InputIndex(ratio, i - 1) \in Nat /\ InputIndex(ratio, i - 1) < Len(signal)
  BY <1>1, Newest, Reached
<1>3. ASSUME NEW k \in 0..Lag
      PROVE  SignalAt(signal \o chunk, InputIndex(ratio, i - 1) - k)
                 = SignalAt(signal, InputIndex(ratio, i - 1) - k)
  BY <1>2, Extended, ResamplerAssumption
<1>4. Identity(ratio) => (signal \o chunk)[i] = signal[i]
  <2> SUFFICES ASSUME Identity(ratio) PROVE (signal \o chunk)[i] = signal[i]
    OBVIOUS
  <2>1. i \in 1..Len(signal)
    BY <1>1, IdentityReach
  <2> QED
    BY <2>1, ConcatProperties
<1> QED
  BY <1>3, <1>4 DEF OutputAt

LEMMA ProcessIdentity ==
    ASSUME NEW ratio, Followed(ratio), Identity(ratio), NEW signal \in Seq(Int), NEW r,
           Follows(r, ratio, signal), NEW chunk \in Seq(Int)
    PROVE  /\ Follows(Process(r, chunk).left, ratio, signal \o chunk)
           /\ Len(Process(r, chunk).out) = Len(chunk)
           /\ \A i \in 1..Len(chunk) :
                  Process(r, chunk).out[i]
                      = OutputAt(ratio, signal \o chunk, Len(signal) + i)
           /\ DOMAIN Process(r, chunk).out = 1..Len(chunk)
<1>1. Process(r, chunk) = PassThrough(r, chunk)
  BY DEF Process, Follows
<1>2. /\ Len(signal) \in Nat /\ Len(chunk) \in Nat
      /\ Len(signal \o chunk) = Len(signal) + Len(chunk)
  BY Extended
<1>3. /\ Reach(ratio, Len(signal)) = Len(signal)
      /\ Reach(ratio, Len(signal \o chunk)) = Len(signal) + Len(chunk)
  BY <1>2, IdentityReach
<1>4. r.outIndex = Len(signal)
  BY <1>3 DEF Follows
<1>5. Process(r, chunk).out =
        [i \in 1..Len(chunk) |-> [n |-> r.outIndex + i - 1, terms |-> {<<0, chunk[i]>>}]]
  BY <1>1 DEF PassThrough
<1>6. ASSUME NEW i \in 1..Len(chunk)
      PROVE  Process(r, chunk).out[i] = OutputAt(ratio, signal \o chunk, Len(signal) + i)
  <2>1. (signal \o chunk)[Len(signal) + i] = chunk[i]
    BY <1>2, ConcatProperties
  <2>2. Process(r, chunk).out[i] = [n |-> Len(signal) + i - 1, terms |-> {<<0, chunk[i]>>}]
    BY <1>4, <1>5
  <2> QED
    BY <2>1, <2>2 DEF OutputAt
<1>7. Process(r, chunk).left = [r EXCEPT !.outIndex = r.outIndex + Len(chunk)]
  BY <1>1 DEF PassThrough
<1>8. Follows(Process(r, chunk).left, ratio, signal \o chunk)
  BY <1>2, <1>3, <1>4, <1>7 DEF Follows
<1> QED
  BY <1>2, <1>5, <1>6, <1>8

LEMMA ProcessFilter ==
    ASSUME NEW ratio, Followed(ratio), ~Identity(ratio), NEW signal \in Seq(Int), NEW r,
           Follows(r, ratio, signal), NEW chunk \in Seq(Int)
    PROVE  LET done == Reach(ratio, Len(signal))
               all  == Reach(ratio, Len(signal \o chunk))
               p    == Process(r, chunk)
           IN  /\ Follows(p.left, ratio, signal \o chunk)
               /\ p.out = [i \in 1..(all - done) |-> p.out[i]]
               /\ \A i \in 1..(all - done) :
                      p.out[i] = OutputAt(ratio, signal \o chunk, done + i)
<1> DEFINE whole == signal \o chunk
           done  == Reach(ratio, Len(signal))
           all   == Reach(ratio, Len(whole))
           q     == [r EXCEPT !.history = @ \o chunk]
           base  == r.inBase
           total == Len(whole)
<1>1. /\ whole \in Seq(Int) /\ Len(signal) \in Nat /\ Len(chunk) \in Nat
      /\ total = Len(signal) + Len(chunk) /\ total \in Nat
      /\ Lag \in Nat
  BY Extended, ResamplerAssumption
<1>2. done \in Nat /\ all \in Nat /\ done <= all
  BY <1>1, Reached, ReachGrows
<1>3. /\ r \in [ratio : {ratio}, history : Seq(Int), inBase : Int, outIndex : Nat]
      /\ r.outIndex = done /\ base \in Int
      /\ base = InputIndex(ratio, done) - Lag
      /\ Len(r.history) = Len(signal) - base
  BY DEF Follows
<1>4. /\ q \in [ratio : {ratio}, history : Seq(Int), inBase : Int, outIndex : Nat]
      /\ q.ratio = ratio /\ q.outIndex = done /\ q.inBase = base
      /\ q.history = r.history \o chunk
  <2> DEFINE more == r.history \o chunk
  <2>1. more \in Seq(Int)
    BY <1>3, ConcatProperties
  <2>2. q = [r EXCEPT !.history = more]
    OBVIOUS
  <2> HIDE DEF more, q, done, base
  <2>3. q.history = more
    BY <1>3, <2>2
  <2>4. q \in [ratio : {ratio}, history : Seq(Int), inBase : Int, outIndex : Nat]
        /\ q.ratio = ratio /\ q.outIndex = r.outIndex /\ q.inBase = r.inBase
    BY <1>3, <2>1, <2>2
  <2> QED
    BY <1>3, <2>3, <2>4 DEF more, base
<1> DEFINE before == Len(r.history)
           kept   == Len(q.history)
           first  == InputIndex(ratio, done)
<1>14. /\ before \in Nat /\ kept \in Nat /\ base \in Int /\ first \in Nat
      /\ before = Len(signal) - base /\ kept = before + Len(chunk)
      /\ base = first - Lag /\ kept = total - base
      /\ \A i \in 1..kept : q.history[i] = IF i <= before THEN r.history[i]
                                          ELSE chunk[i - before]
  <2>1. r.history \in Seq(Int)
    BY <1>3
  <2>2. /\ Len(r.history \o chunk) = Len(r.history) + Len(chunk)
        /\ \A i \in 1..(Len(r.history) + Len(chunk)) :
               (r.history \o chunk)[i] = IF i <= Len(r.history) THEN r.history[i]
                                         ELSE chunk[i - Len(r.history)]
    BY <2>1, ConcatProperties
  <2>3. Len(r.history) \in Nat
    BY <2>1
  <2>4. first \in Nat
    BY <1>2, Newest
  <2>5. kept = before + Len(chunk) /\ before = Len(signal) - base
        /\ base = first - Lag
    BY <1>3, <1>4, <2>2
  <2>6. \A i \in 1..kept : q.history[i] = IF i <= before THEN r.history[i]
                                          ELSE chunk[i - before]
    BY <1>4, <2>2, <2>5
  <2> HIDE DEF base, kept, before, first, q, total
  <2>7. base \in Int /\ before \in Nat
    BY <1>3, <2>3 DEF before
  <2> QED
    BY <1>1, <2>4, <2>5, <2>6, <2>7
<1>15. /\ before \in Nat /\ kept \in Nat /\ base \in Int /\ first \in Nat
       /\ before = Len(signal) - base /\ kept = before + Len(chunk)
       /\ base = first - Lag /\ kept = total - base
       /\ total \in Nat /\ Lag \in Nat
  BY <1>1, <1>14
<1> HIDE DEF q, whole, total, done, all, base, before, kept, first
<1>5. ASSUME NEW i \in 1..kept
      PROVE  q.history[i] = SignalAt(whole, base + i - 1)
  <2>1. CASE i <= before
    <3>1. q.history[i] = r.history[i]
      BY <1>14, <2>1
    <3>2. r.history[i] = SignalAt(signal, base + i - 1)
      BY <2>1, <1>14 DEF Follows, before, base
    <3>3. base + i - 1 \in Int /\ base + i - 1 < Len(signal)
      BY <1>1, <1>15, <2>1
    <3> QED
      BY <3>1, <3>2, <3>3, Extended DEF whole
  <2>2. CASE ~(i <= before)
    <3>1. q.history[i] = chunk[i - before]
      BY <1>14, <2>2
    <3>2. /\ base + i - 1 \in Len(signal)..(Len(signal) + Len(chunk) - 1)
          /\ (base + i - 1) - Len(signal) + 1 = i - before
      BY <1>1, <1>14, <2>2
    <3> QED
      BY <3>1, <3>2, Extended DEF whole
  <2> QED
    BY <2>1, <2>2
<1>6. Process(r, chunk) = Render(q)
  BY <1>3 DEF Process, q
<1>7. LastAbsolute(q) = total - 1
  <2>1. LastAbsolute(q) = base + kept - 1
    BY <1>4 DEF LastAbsolute, kept
  <2> QED
    BY <1>1, <1>15, <2>1
<1>8. \A n \in Nat : done <= n => (HasWindow(q, n) <=> n < all)
  <2> SUFFICES ASSUME NEW n \in Nat, done <= n PROVE HasWindow(q, n) <=> n < all
    OBVIOUS
  <2>1. InputIndex(ratio, n) \in Nat /\ InputIndex(ratio, done) <= InputIndex(ratio, n)
    BY <1>2, LaterNewest, Newest
  <2>2. n < all <=> InputIndex(ratio, n) < total
    BY <1>1, Reached DEF all, total
  <2>3. HasWindow(q, n) <=> /\ InputIndex(ratio, n) <= total - 1
                            /\ InputIndex(ratio, n) - Lag >= base
    BY <1>4, <1>7 DEF HasWindow
  <2>4. first <= InputIndex(ratio, n)
    BY <2>1 DEF first
  <2> QED
    BY <1>1, <1>15, <2>1, <2>2, <2>3, <2>4
<1>9. Renderable(q) = all - done
  <2>1. all <= total * ratio.up /\ total * ratio.up \in Nat
    BY <1>1, Reached DEF all, total
  <2>2. (LastAbsolute(q) + 1) * q.ratio.up = total * ratio.up
    BY <1>1, <1>4, <1>7
  <2>3. {n \in done..(total * ratio.up) : \A m \in done..n : HasWindow(q, m)}
            = done..(all - 1)
    BY <1>2, <1>8, <2>1
  <2>4. Cardinality(done..(all - 1)) = all - done
    <3>1. Cardinality(done..(all - 1)) = IF done > all - 1 THEN 0 ELSE all - 1 - done + 1
      BY <1>2, FS_Interval
    <3> QED
      BY <1>2, <3>1
  <2> QED
    BY <1>4, <2>2, <2>3, <2>4 DEF Renderable
<1> DEFINE s == [q EXCEPT !.outIndex = all]
<1>10. Render(q).left = Retained(s)
  <2>1. q.outIndex + Renderable(q) = all
    BY <1>2, <1>4, <1>9
  <2> QED
    BY <2>1 DEF Render
<1>11. Render(q).out = [i \in 1..(all - done) |->
           [n |-> done + i - 1,
            terms |-> {<<Phase(ratio, done + i - 1) + k * ratio.up,
                         q.history[InputIndex(ratio, done + i - 1) - k - base + 1]>> :
                         k \in 0..Lag}]]
  BY <1>4, <1>9 DEF Render, Filtered
<1>12. ASSUME NEW i \in 1..(all - done)
       PROVE  Process(r, chunk).out[i] = OutputAt(ratio, whole, done + i)
  <2> DEFINE n == done + i - 1
             p == InputIndex(ratio, n)
  <2>1. n \in Nat /\ done <= n /\ n < all /\ (done + i) - 1 = n
    BY <1>2
  <2>2. p \in Nat /\ p < total /\ first <= p
    BY <1>1, <1>2, <2>1, Newest, LaterNewest, Reached DEF all, total, first
  <2> HIDE DEF n
  <2>3. ASSUME NEW k \in 0..Lag
        PROVE  q.history[p - k - base + 1] = SignalAt(whole, p - k)
    <3> HIDE DEF p
    <3>1. p - k - base + 1 \in 1..kept /\ base + (p - k - base + 1) - 1 = p - k
      BY <1>1, <1>15, <2>2
    <3> QED
      BY <1>5, <3>1
  <2>4. Process(r, chunk).out[i] =
            [n |-> n, terms |-> {<<Phase(ratio, n) + k * ratio.up,
                                   q.history[p - k - base + 1]>> : k \in 0..Lag}]
    BY <1>6, <1>11 DEF n
  <2> QED
    BY <2>1, <2>3, <2>4 DEF OutputAt
<1>13. Follows(Retained(s), ratio, whole)
  <2> DEFINE next == InputIndex(ratio, all)
             from == next - Lag
             drop == from - base
  <2>1. next \in Nat /\ first <= next
    BY <1>2, Newest, LaterNewest DEF first
  <2>2. total <= next
    BY <1>1, <1>2, <2>1, Reached DEF all, total
  <2>3. next <= total + Lag
    <3>1. CASE all = 0
      <4>1. first = next
        BY <1>2, <3>1 DEF first
      <4> HIDE DEF next
      <4> QED
        BY <1>1, <1>15, <2>1, <4>1
    <3>2. CASE all # 0
      <4>1. all - 1 \in Nat /\ all - 1 < all /\ (all - 1) + 1 = all
        BY <1>2, <3>2
      <4>2. InputIndex(ratio, all - 1) < total /\ InputIndex(ratio, all - 1) \in Nat
        BY <1>1, <4>1, Newest, Reached DEF all, total
      <4>3. InputIndex(ratio, all) <= InputIndex(ratio, all - 1) + Lag + 1
        BY <4>1, NextNewest
      <4> QED
        BY <1>1, <2>1, <4>2, <4>3
    <3> QED
      BY <3>1, <3>2
  <2>4. /\ s \in [ratio : {ratio}, history : Seq(Int), inBase : Int, outIndex : Nat]
        /\ s.ratio = ratio /\ s.outIndex = all /\ s.inBase = base
        /\ s.history = q.history
    BY <1>2, <1>4
  <2>5. from \in Int /\ drop \in Int /\ 0 <= drop /\ drop <= kept
        /\ kept - drop = total - from /\ base + drop = from
    <3>1. /\ next \in Nat /\ first \in Nat /\ base \in Int /\ total \in Nat /\ Lag \in Nat
          /\ kept \in Nat /\ base = first - Lag /\ kept = total - base
          /\ first <= next /\ next <= total + Lag
      BY <1>15, <2>1, <2>3
    <3> HIDE DEF next
    <3> QED
      BY <3>1
  <2> DEFINE t == Retained(s)
             h == IF drop > 0 THEN SubSeq(q.history, drop + 1, kept) ELSE q.history
  <2>6. t = [s EXCEPT !.history = h, !.inBase = from]
    <3>1. CASE drop > 0
      BY <2>4, <3>1 DEF Retained, kept
    <3>2. CASE ~(drop > 0)
      <4>1. t = s /\ h = s.history /\ from = s.inBase
        <5>1. drop = 0 /\ from = base
          <6> HIDE DEF from, drop
          <6> QED
            BY <1>15, <2>5, <3>2
        <5> QED
          BY <2>4, <3>2, <5>1 DEF Retained
      <4> HIDE DEF t, s, h, from
      <4> QED
        BY <2>4, <4>1
    <3> QED
      BY <3>1, <3>2
  <2>7. /\ h \in Seq(Int) /\ Len(h) = kept - drop
        /\ \A i \in 1..(kept - drop) : h[i] = q.history[drop + i]
    <3> HIDE DEF drop
    <3>1. q.history \in Seq(Int) /\ Len(q.history) = kept
      BY <1>4 DEF kept
    <3>2. CASE drop > 0
      <4>1. ASSUME NEW i \in (drop + 1)..kept PROVE q.history[i] \in Int
        <5>1. i \in 1..kept
          BY <1>15, <2>5
        <5> QED
          BY <3>1, <5>1
      <4>2. /\ h \in Seq(Int)
            /\ Len(h) = IF drop + 1 <= kept THEN kept - (drop + 1) + 1 ELSE 0
            /\ \A i \in 1..(kept - (drop + 1) + 1) : h[i] = q.history[(drop + 1) + i - 1]
        <5>1. drop + 1 \in Int /\ kept \in Int
          BY <1>15, <2>5
        <5>2. h = SubSeq(q.history, drop + 1, kept)
          BY <3>2
        <5> HIDE DEF h
        <5> QED
          BY <4>1, <5>1, <5>2, SubSeqProperties
      <4> HIDE DEF h
      <4>3. Len(h) = kept - drop
        <5>1. Len(h) = IF drop + 1 <= kept THEN kept - (drop + 1) + 1 ELSE 0
          BY <4>2
        <5>2. drop \in Int /\ kept \in Nat /\ drop <= kept
          BY <1>15, <2>5
        <5> HIDE DEF h
        <5> QED
          BY <5>1, <5>2
      <4>4. ASSUME NEW i \in 1..(kept - drop) PROVE h[i] = q.history[drop + i]
        <5>1. i \in 1..(kept - (drop + 1) + 1) /\ (drop + 1) + i - 1 = drop + i
          BY <1>15, <2>5
        <5> QED
          BY <4>2, <5>1
      <4> QED
        BY <4>2, <4>3, <4>4
    <3>3. CASE ~(drop > 0)
      <4>1. h = q.history /\ drop = 0
        BY <1>15, <2>5, <3>3
      <4> HIDE DEF h
      <4> QED
        BY <1>15, <3>1, <4>1
    <3> QED
      BY <3>2, <3>3
  <2> HIDE DEF s, h
  <2>8. /\ t \in [ratio : {ratio}, history : Seq(Int), inBase : Int, outIndex : Nat]
        /\ t.outIndex = all /\ t.inBase = from /\ t.history = h
    BY <2>4, <2>5, <2>6, <2>7
  <2> HIDE DEF t
  <2>9. ASSUME NEW i \in 1..Len(h)
        PROVE  t.history[i] = SignalAt(whole, t.inBase + i - 1)
    <3>1. drop + i \in 1..kept /\ base + (drop + i) - 1 = from + i - 1 /\ i \in 1..(kept - drop)
      <4> HIDE DEF drop, from
      <4> QED
        <5>1. i \in 1..(kept - drop)
          BY <2>7
        <5> QED
          BY <1>15, <2>5, <5>1
    <3>2. h[i] = SignalAt(whole, base + (drop + i) - 1)
      BY <1>5, <2>7, <3>1
    <3> QED
      BY <2>8, <3>1, <3>2
  <2>10. Len(t.history) = Len(whole) - t.inBase
    BY <2>5, <2>7, <2>8 DEF total
  <2> QED
    BY <2>8, <2>9, <2>10 DEF Follows, t, all
<1> QED
  BY <1>2, <1>6, <1>10, <1>11, <1>12, <1>13 DEF done, all, whole

\* However a signal is cut into chunks, it is resampled as in one piece (process and
\* render of resampler.ts): a resampler that has followed the signal so far puts out
\* what comes next, and goes on following.
THEOREM Processed ==
    ASSUME NEW ratio, Followed(ratio), NEW signal \in Seq(Int), NEW r,
           Follows(r, ratio, signal), NEW chunk \in Seq(Int)
    PROVE  /\ Follows(Process(r, chunk).left, ratio, signal \o chunk)
           /\ Process(r, chunk).out \in Seq(Sample)
           /\ Resampled(ratio, signal \o chunk)
                  = Resampled(ratio, signal) \o Process(r, chunk).out
<1> DEFINE whole == signal \o chunk
           done  == Reach(ratio, Len(signal))
           all   == Reach(ratio, Len(whole))
           out   == Process(r, chunk).out
           x     == Resampled(ratio, signal)
           y     == Resampled(ratio, whole)
<1>1. /\ whole \in Seq(Int) /\ Len(signal) \in Nat /\ Len(chunk) \in Nat
      /\ Len(whole) = Len(signal) + Len(chunk) /\ Len(whole) \in Nat
  BY Extended
<1>2. done \in Nat /\ all \in Nat /\ done <= all
  BY <1>1, Reached, ReachGrows
<1>3. /\ Follows(Process(r, chunk).left, ratio, whole)
      /\ out = [i \in 1..(all - done) |-> out[i]]
      /\ \A i \in 1..(all - done) : out[i] = OutputAt(ratio, whole, done + i)
  <2>1. CASE Identity(ratio)
    <3>1. done = Len(signal) /\ all = Len(whole)
      BY <1>1, <2>1, IdentityReach
    <3>2. all - done = Len(chunk)
      BY <1>1, <3>1
    <3>3. /\ Follows(Process(r, chunk).left, ratio, whole)
          /\ \A i \in 1..Len(chunk) : out[i] = OutputAt(ratio, whole, Len(signal) + i)
      BY <2>1, ProcessIdentity
    <3>4. out = [i \in 1..Len(chunk) |-> out[i]]
      <4>1. Process(r, chunk) = PassThrough(r, chunk)
        BY <2>1 DEF Process, Follows
      <4> QED
        BY <4>1 DEF PassThrough
    <3> HIDE DEF out, whole, done, all
    <3> QED
      BY <3>1, <3>2, <3>3, <3>4
  <2>2. CASE ~Identity(ratio)
    BY <2>2, ProcessFilter
  <2> QED
    BY <2>1, <2>2
<1>4. \A i \in 1..all : OutputAt(ratio, whole, i) \in Sample
  BY <1>1, OutputType
<1>5. /\ x \in Seq(Sample) /\ Len(x) = done
      /\ \A i \in 1..done : x[i] = OutputAt(ratio, signal, i)
  BY ResampledIs
<1>6. /\ y \in Seq(Sample) /\ Len(y) = all
      /\ \A i \in 1..all : y[i] = OutputAt(ratio, whole, i)
  BY <1>1, ResampledIs
<1>7. \A i \in 1..done : OutputAt(ratio, whole, i) = OutputAt(ratio, signal, i)
  BY OutputStays
<1> HIDE DEF out, whole, done, all, x, y
<1>8. out \in Seq(Sample) /\ Len(out) = all - done
  <2>1. \A i \in 1..(all - done) : out[i] \in Sample
    <3>1. ASSUME NEW i \in 1..(all - done) PROVE done + i \in 1..all
      BY <1>2
    <3> QED
      BY <1>3, <1>4, <3>1
  <2>2. all - done \in Nat
    BY <1>2
  <2> DEFINE k == all - done
  <2> HIDE DEF Sample, k
  <2>3. out \in [1..k -> Sample] /\ k \in Nat
    BY <1>3, <2>1, <2>2 DEF k
  <2> QED
    BY <2>3 DEF k
<1>9. /\ x \o out \in Seq(Sample) /\ Len(x \o out) = all
      /\ \A i \in 1..all : (x \o out)[i] = IF i <= done THEN x[i] ELSE out[i - done]
  <2>1. done + (all - done) = all
    BY <1>2
  <2> HIDE DEF Sample
  <2>2. /\ x \o out \in Seq(Sample) /\ Len(x \o out) = Len(x) + Len(out)
        /\ \A i \in 1..(Len(x) + Len(out)) :
               (x \o out)[i] = IF i <= Len(x) THEN x[i] ELSE out[i - Len(x)]
    BY <1>5, <1>8, ConcatProperties
  <2>3. Len(x) = done /\ Len(out) = all - done /\ Len(x) + Len(out) = all
    BY <1>5, <1>8, <2>1
  <2> QED
    BY <2>2, <2>3
<1>10. ASSUME NEW i \in 1..all PROVE y[i] = (x \o out)[i]
  <2>1. CASE i <= done
    <3>1. i \in 1..done
      BY <1>2, <2>1
    <3> QED
      BY <1>5, <1>6, <1>7, <1>9, <2>1, <3>1
  <2>2. CASE ~(i <= done)
    <3>1. i - done \in 1..(all - done) /\ done + (i - done) = i
      BY <1>2, <2>2
    <3>2. out[i - done] = OutputAt(ratio, whole, i)
      BY <1>3, <3>1
    <3> QED
      BY <1>6, <1>9, <2>2, <3>2
  <2> QED
    BY <2>1, <2>2
<1>11. y = x \o out
  <2> HIDE DEF Sample
  <2> QED
    BY <1>6, <1>9, <1>10, SeqEqual
<1> QED
  BY <1>3, <1>8, <1>11 DEF out, whole, x, y

-----------------------------------------------------------------------------
(* The phases and the zero-stuffed signal. *)

LEMMA Parts ==
    ASSUME NEW u \in Nat \ {0}, NEW t \in Int
    PROVE  /\ t % u \in 0..(u - 1) /\ t \div u \in Int
           /\ (t \div u) * u \in Int /\ t = (t \div u) * u + (t % u)
<1> DEFINE q == t \div u
           r == t % u
<1>1. q \in Int /\ r \in 0..(u - 1) /\ t = u * q + r
  OBVIOUS
<1> HIDE DEF q, r
<1>2. u * q = q * u /\ q * u \in Int
  BY <1>1
<1> QED
  BY <1>1, <1>2 DEF q, r

LEMMA PartsAre ==
    ASSUME NEW u \in Nat \ {0}, NEW q \in Int, NEW r \in 0..(u - 1)
    PROVE  (q * u + r) \div u = q /\ (q * u + r) % u = r
<1> DEFINE t == q * u + r
           d == t \div u
           m == t % u
<1>1. t \in Int /\ r \in Int
  OBVIOUS
<1> HIDE DEF t
<1>2. d \in Int /\ m \in 0..(u - 1) /\ d * u \in Int /\ t = d * u + m
  BY <1>1, Parts
<1> HIDE DEF d, m
<1>3. t = q * u + r /\ q * u \in Int
  BY DEF t
<1>4. ASSUME d + 1 <= q PROVE FALSE
  <2>1. (d + 1) * u <= q * u /\ (d + 1) * u = d * u + u
    BY <1>2, <1>4, Products
  <2> QED
    BY <1>1, <1>2, <1>3, <2>1
<1>5. ASSUME q + 1 <= d PROVE FALSE
  <2>1. (q + 1) * u <= d * u /\ (q + 1) * u = q * u + u
    BY <1>2, <1>5, Products
  <2> QED
    BY <1>1, <1>2, <1>3, <2>1
<1>6. d = q
  BY <1>2, <1>4, <1>5
<1>7. m = r
  BY <1>1, <1>2, <1>3, <1>6
<1> QED
  BY <1>6, <1>7 DEF d, m, t

\* The taps that meet a sample and not a zero are those of one phase, and they meet the
\* samples before the newest one by one.
LEMMA StuffedIs ==
    ASSUME NEW ratio, Followed(ratio), NEW signal, NEW n \in Nat
    PROVE  ZeroStuffed(ratio, n, signal) =
               [n     |-> n,
                terms |-> {<<(At(ratio, n) % ratio.up) + k * ratio.up,
                             SignalAt(signal, InputIndex(ratio, n) - k)>> : k \in 0..Lag}]
<1> DEFINE u == ratio.up
           t == At(ratio, n)
           r == t % u
           p == t \div u
           taps == {j \in 0..((Lag + 1) * u - 1) : (t - j) % u = 0}
<1>1. u \in Nat \ {0} /\ t \in Nat /\ Lag \in Nat
  BY ResamplerAssumption DEF Followed, At
<1>2. r \in 0..(u - 1) /\ p \in Int /\ p * u \in Int /\ t = p * u + r
  <2> HIDE DEF u, t
  <2> QED
    BY <1>1, Parts
<1> HIDE DEF u, t, r, p
<1>3. ASSUME NEW k \in 0..Lag
      PROVE  /\ r + k * u \in taps
             /\ (t - (r + k * u)) \div u = p - k
  <2>1. k \in Nat /\ k * u \in Nat /\ k * u <= Lag * u /\ Lag * u \in Nat
    BY <1>1, Products
  <2>2. (Lag + 1) * u = Lag * u + u
    BY <1>1
  <2>3. t - (r + k * u) = (p - k) * u + 0
    <3>1. (p - k) * u = p * u - k * u
      BY <1>1, <1>2, <2>1
    <3> QED
      BY <1>1, <1>2, <2>1, <3>1
  <2>4. ((p - k) * u + 0) \div u = p - k /\ ((p - k) * u + 0) % u = 0
    <3>1. p - k \in Int /\ 0 \in 0..(u - 1)
      BY <1>1, <1>2
    <3> QED
      BY <1>1, <3>1, PartsAre
  <2>5. r + k * u \in 0..((Lag + 1) * u - 1)
    BY <1>1, <1>2, <2>1, <2>2
  <2>6. (t - (r + k * u)) % u = 0 /\ (t - (r + k * u)) \div u = p - k
    BY <2>3, <2>4
  <2> QED
    BY <2>5, <2>6
<1>4. ASSUME NEW j \in taps
      PROVE  \E k \in 0..Lag : j = r + k * u
  <2> DEFINE c == (t - j) \div u
  <2>0. j \in 0..((Lag + 1) * u - 1) /\ (t - j) % u = 0
    BY <1>4
  <2>1. j \in Int /\ 0 <= j /\ j < (Lag + 1) * u /\ (Lag + 1) * u \in Int
    BY <1>1, <2>0
  <2>2. c \in Int /\ c * u \in Int /\ t - j = c * u + 0
    <3> DEFINE d == t - j
    <3>1. d \in Int /\ d % u = 0
      BY <1>1, <2>0, <2>1
    <3> HIDE DEF d
    <3>2. d \div u \in Int /\ (d \div u) * u \in Int /\ d = (d \div u) * u + (d % u)
      BY <1>1, <3>1, Parts
    <3> QED
      BY <3>1, <3>2 DEF d
  <2> HIDE DEF c
  <2> DEFINE k == p - c
  <2>3. k * u = p * u - c * u /\ k \in Int
    BY <1>1, <1>2, <2>2
  <2>4. j = r + k * u
    BY <1>1, <1>2, <2>1, <2>2, <2>3
  <2> HIDE DEF k
  <2>5. ASSUME k + 1 <= 0 PROVE FALSE
    <3>1. (k + 1) * u <= 0 * u /\ (k + 1) * u = k * u + u /\ k * u \in Int /\ 0 * u = 0
      BY <1>1, <2>3, <2>5, Products
    <3> QED
      BY <1>1, <1>2, <2>1, <2>4, <3>1
  <2>6. ASSUME Lag + 1 <= k PROVE FALSE
    <3>1. (Lag + 1) * u <= k * u /\ k * u \in Int
      BY <1>1, <2>3, <2>6, Products
    <3> QED
      BY <1>1, <1>2, <2>1, <2>4, <3>1
  <2>7. k \in 0..Lag
    BY <1>1, <2>3, <2>5, <2>6
  <2> QED
    BY <2>4, <2>7
<1> DEFINE x(i) == SignalAt(signal, i)
<1>5. {<<j, x((t - j) \div u)>> : j \in taps} = {<<r + k * u, x(p - k)>> : k \in 0..Lag}
  <2> HIDE DEF taps, x
  <2>1. ASSUME NEW j \in taps
        PROVE  \E k \in 0..Lag : <<j, x((t - j) \div u)>> = <<r + k * u, x(p - k)>>
    <3>1. PICK k \in 0..Lag : j = r + k * u
      BY <1>4
    <3>2. (t - j) \div u = p - k
      BY <1>3, <3>1
    <3> QED
      BY <3>1, <3>2
  <2>2. ASSUME NEW k \in 0..Lag
        PROVE  \E j \in taps : <<j, x((t - j) \div u)>> = <<r + k * u, x(p - k)>>
    BY <1>3
  <2> QED
    BY <2>1, <2>2
<1>6. ZeroStuffed(ratio, n, signal) = [n |-> n, terms |-> {<<j, x((t - j) \div u)>> : j \in taps}]
  BY DEF ZeroStuffed, SignalAt, t, u
<1>7. InputIndex(ratio, n) = p
  BY DEF InputIndex, p, t, u
<1> HIDE DEF taps, x
<1>8. ZeroStuffed(ratio, n, signal)
          = [n |-> n, terms |-> {<<r + k * u, x(InputIndex(ratio, n) - k)>> : k \in 0..Lag}]
  BY <1>5, <1>6, <1>7
<1> QED
  BY <1>8 DEF x, r, t, u

\* Where the phases are the ones of the zero-stuffed signal (the constructor of
\* resampler.ts splits the prototype, render takes (L - t mod L) mod L): at the outputs
\* that fall on an input, or half-way between two, and nowhere else.  So a filter that
\* doubles the rate is right, and one that triples it is right at every third output.
THEOREM PhasesRight ==
    ASSUME NEW ratio, Followed(ratio), ~Identity(ratio), NEW signal \in Seq(Int),
           NEW i \in 1..Len(Resampled(ratio, signal))
    PROVE  Resampled(ratio, signal)[i] = ZeroStuffed(ratio, i - 1, signal)
               <=> (2 * At(ratio, i - 1)) % ratio.up = 0
<1> DEFINE n == i - 1
           u == ratio.up
           t == At(ratio, n)
           r == t % u
           f == Phase(ratio, n)
           x(k) == SignalAt(signal, InputIndex(ratio, n) - k)
<1>1. n \in Nat /\ i \in 1..Reach(ratio, Len(signal)) /\ n + 1 = i
  BY ResampledIs, Reached
<1>2. u \in Nat \ {0} /\ t \in Nat /\ Lag \in Nat
  BY <1>1, ResamplerAssumption DEF Followed, At
<1>3. /\ Resampled(ratio, signal)[i] = [n |-> n, terms |-> {<<f + k * u, x(k)>> : k \in 0..Lag}]
      /\ ZeroStuffed(ratio, n, signal) = [n |-> n, terms |-> {<<r + k * u, x(k)>> : k \in 0..Lag}]
  <2>1. Resampled(ratio, signal)[i] = OutputAt(ratio, signal, i)
    BY <1>1, ResampledIs
  <2>2. OutputAt(ratio, signal, i) = [n |-> n, terms |-> {<<f + k * u, x(k)>> : k \in 0..Lag}]
    BY DEF OutputAt
  <2>3. ZeroStuffed(ratio, n, signal) = [n |-> n, terms |-> {<<r + k * u, x(k)>> : k \in 0..Lag}]
    BY <1>1, StuffedIs, Zenon
  <2> QED
    BY <2>1, <2>2, <2>3, Zenon
<1>4. f = (u - r) % u
  BY DEF Phase
<1> HIDE DEF n, u, t, x
<1>5. r \in 0..(u - 1) /\ r \in Int
  <2>1. t \in Int
    BY <1>2
  <2>2. t % u \in 0..(u - 1)
    BY <1>2, <2>1, Parts
  <2> QED
    BY <1>2, <2>2
<1> HIDE DEF r, f
<1>6. f = IF r = 0 THEN 0 ELSE u - r
  <2>1. CASE r = 0
    <3>1. (1 * u + 0) % u = 0
      <4>1. 0 \in 0..(u - 1) /\ 1 \in Int
        BY <1>2
      <4> QED
        BY <1>2, <4>1, PartsAre
    <3>2. u - r = 1 * u + 0
      BY <1>2, <2>1
    <3> QED
      BY <1>4, <2>1, <3>1, <3>2
  <2>2. CASE r # 0
    <3> DEFINE s == u - r
    <3>1. s \in 0..(u - 1) /\ 0 \in Int
      BY <1>2, <1>5, <2>2
    <3> HIDE DEF s
    <3>2. (0 * u + s) % u = s
      BY <1>2, <3>1, PartsAre
    <3>3. 0 * u + s = s
      BY <1>2, <3>1
    <3> QED
      BY <1>4, <2>2, <3>2, <3>3 DEF s
  <2> QED
    BY <2>1, <2>2
<1>7. f \in 0..(u - 1)
  BY <1>2, <1>5, <1>6
\* Equal samples have equal taps, and the least tap is the phase.
<1>8. Resampled(ratio, signal)[i] = ZeroStuffed(ratio, n, signal) <=> f = r
  <2>1. ASSUME f = r PROVE Resampled(ratio, signal)[i] = ZeroStuffed(ratio, n, signal)
    BY <1>3, <2>1
  <2>2. ASSUME Resampled(ratio, signal)[i] = ZeroStuffed(ratio, n, signal) PROVE f = r
    <3> DEFINE a(k) == <<f + k * u, x(k)>>
               b(k) == <<r + k * u, x(k)>>
    <3>1. {a(k) : k \in 0..Lag} = {b(k) : k \in 0..Lag}
      <4> DEFINE A == {a(k) : k \in 0..Lag}
                 B == {b(k) : k \in 0..Lag}
      <4>1. [n |-> n, terms |-> A] = [n |-> n, terms |-> B]
        BY <1>3, <2>2, Zenon
      <4> HIDE DEF A, B
      <4>2. [n |-> n, terms |-> A].terms = A /\ [n |-> n, terms |-> B].terms = B
        OBVIOUS
      <4>3. A = B
        BY <4>1, <4>2
      <4> QED
        BY <4>3 DEF A, B
    <3>2. 0 \in 0..Lag
      BY <1>2
    <3>3. PICK k \in 0..Lag : a(0) = b(k)
      BY <3>1, <3>2
    <3>4. f + 0 * u = r + k * u
      BY <3>3
    <3>5. k \in Nat /\ k * u \in Int /\ 0 * u = 0
      BY <1>2
    <3>6. ASSUME 1 <= k PROVE FALSE
      <4>1. 1 * u <= k * u
        BY <1>2, <3>5, <3>6, Products
      <4> QED
        BY <1>2, <1>5, <1>7, <3>4, <3>5, <4>1
    <3>7. k = 0
      BY <3>5, <3>6
    <3> QED
      BY <1>5, <1>7, <3>4, <3>5, <3>7
  <2> QED
    BY <2>1, <2>2
<1>9. f = r <=> r = 0 \/ 2 * r = u
  BY <1>2, <1>5, <1>6
<1>10. (2 * t) % u = 0 <=> r = 0 \/ 2 * r = u
  <2> DEFINE p == t \div u
  <2>1. p \in Int /\ p * u \in Int /\ t = p * u + r
    <3>1. t \in Int
      BY <1>2
    <3>2. p \in Int /\ p * u \in Int /\ t = p * u + (t % u)
      BY <1>2, <3>1, Parts
    <3> QED
      BY <3>2 DEF r
  <2> HIDE DEF p
  <2>2. (2 * p) * u = 2 * (p * u) /\ (2 * p + 1) * u = 2 * (p * u) + u /\ 2 * p \in Int
        /\ 2 * p + 1 \in Int
    BY <1>2, <2>1
  <2>3. CASE 2 * r < u
    <3> DEFINE s == 2 * r
    <3>1. s \in 0..(u - 1) /\ 2 * t = (2 * p) * u + s
      BY <1>2, <1>5, <2>1, <2>2, <2>3
    <3> HIDE DEF s
    <3>2. ((2 * p) * u + s) % u = s
      BY <1>2, <2>2, <3>1, PartsAre
    <3>3. (2 * t) % u = s
      BY <3>1, <3>2
    <3> QED
      BY <1>2, <1>5, <2>3, <3>3 DEF s
  <2>4. CASE ~(2 * r < u)
    <3> DEFINE s == 2 * r - u
    <3>1. s \in 0..(u - 1) /\ 2 * t = (2 * p + 1) * u + s
      BY <1>2, <1>5, <2>1, <2>2, <2>4
    <3> HIDE DEF s
    <3>2. ((2 * p + 1) * u + s) % u = s
      BY <1>2, <2>2, <3>1, PartsAre
    <3>3. (2 * t) % u = s
      BY <3>1, <3>2
    <3> QED
      BY <1>2, <1>5, <2>4, <3>3 DEF s
  <2> QED
    BY <2>3, <2>4
<1> QED
  BY <1>8, <1>9, <1>10 DEF n, u, t
=============================================================================
