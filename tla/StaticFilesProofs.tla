--------------------------- MODULE StaticFilesProofs ---------------------------
(***************************************************************************)
(* Theorems about RequestPaths and StaticFiles, for every site, every path *)
(* and any number of changes.                                              *)
(***************************************************************************)
EXTENDS StaticFiles, WellFoundedInduction, TLAPS

-----------------------------------------------------------------------------
(* Induction and recursive functions.  The induction theorems of the       *)
(* library take an operator; these take a set.                             *)

\* A set of numbers that is not empty has a least one.
LEMMA NatMin ==
  ASSUME NEW T \in SUBSET Nat, T # {}
  PROVE  \E m \in T : \A n \in T : m <= n
<1>1. PICK m \in T : \A n \in T : <<n, m>> \notin OpToRel(<, Nat)
  BY NatLessThanWellFounded, WFMin
<1>2. \A n \in T : ~(n < m)
  BY <1>1 DEF OpToRel
<1> QED
  BY <1>2

\* What holds 0 and, with a number, the next holds all of them.
LEMMA SetInduction ==
  ASSUME NEW T, 0 \in T, \A n \in Nat : n \in T => n + 1 \in T
  PROVE  Nat \subseteq T
<1> SUFFICES ASSUME Nat \ T # {} PROVE FALSE
  OBVIOUS
<1>1. PICK m \in Nat \ T : \A n \in Nat \ T : m <= n
  BY NatMin
<1>2. m # 0 /\ m - 1 \in Nat /\ m - 1 \in T
  BY <1>1
<1> QED
  BY <1>1, <1>2

\* The same for an interval.
LEMMA UpTo ==
  ASSUME NEW m \in Int, NEW n \in Int, NEW T, m <= n => m \in T,
         \A i \in m + 1 .. n : i - 1 \in T => i \in T
  PROVE  m .. n \subseteq T
<1> DEFINE D == {k \in Nat : m + k \in T \/ m + k > n}
<1>1. 0 \in D
  OBVIOUS
<1>2. ASSUME NEW k \in Nat, k \in D PROVE k + 1 \in D
  <2>1. CASE m + (k + 1) > n
    BY <2>1
  <2>2. CASE m + (k + 1) <= n
    <3>1. m + k \in T /\ m + (k + 1) \in m + 1 .. n /\ (m + (k + 1)) - 1 = m + k
      BY <1>2, <2>2
    <3> QED
      BY <3>1
  <2> QED
    BY <2>1, <2>2
<1>3. Nat \subseteq D
  <2> HIDE DEF D
  <2> QED
    BY <1>1, <1>2, SetInduction
<1>4. ASSUME NEW i \in m .. n PROVE i \in T
  <2>1. i - m \in Nat /\ m + (i - m) = i /\ ~(i > n)
    OBVIOUS
  <2>2. i - m \in D
    BY <1>3, <2>1
  <2> QED
    BY <2>1, <2>2
<1> QED
  BY <1>4

\* A value that is carried on from one index to the next: there is such a function.
Carried(f, m, n, base, step) ==
  \A i \in m .. n : f[i] = IF i = m THEN base ELSE step[i][f[i - 1]]

LEMMA Iterated ==
  ASSUME NEW m \in Nat, NEW n \in Nat, NEW V, NEW base \in V, NEW step \in [Nat -> [V -> V]]
  PROVE  \E f \in [m .. n -> V] : Carried(f, m, n, base, step)
<1> USE DEF Carried
<1> DEFINE Fix(f, k) == \A i \in m .. m + k : f[i] = IF i = m THEN base ELSE step[i][f[i - 1]]
           T == {k \in Nat : \E f \in [m .. m + k -> V] : Fix(f, k)}
<1>1. 0 \in T
  <2>1. m .. m + 0 = {m}
    OBVIOUS
  <2>2. [i \in {m} |-> base] \in [m .. m + 0 -> V] /\ Fix([i \in {m} |-> base], 0)
    BY <2>1
  <2> QED
    BY <2>2
<1>2. ASSUME NEW k \in Nat, k \in T PROVE k + 1 \in T
  <2>1. PICK f \in [m .. m + k -> V] : Fix(f, k)
    BY <1>2
  <2> DEFINE g == [i \in m .. m + (k + 1) |-> IF i = m + (k + 1) THEN step[i][f[m + k]] ELSE f[i]]
  <2>2. \A i \in m .. m + (k + 1) : i \in m .. m + k \/ i = m + (k + 1)
    OBVIOUS
  <2>3. m + k \in m .. m + k /\ f[m + k] \in V
    OBVIOUS
  <2>4. step[m + (k + 1)][f[m + k]] \in V
    BY <2>3
  <2>5. g \in [m .. m + (k + 1) -> V]
    BY <2>2, <2>4
  <2>6. ASSUME NEW i \in m .. m + (k + 1)
        PROVE  g[i] = IF i = m THEN base ELSE step[i][g[i - 1]]
    <3>1. CASE i = m + (k + 1)
      <4>1. i # m /\ i - 1 = m + k /\ m + k \in m .. m + (k + 1) /\ m + k # m + (k + 1)
        BY <3>1
      <4> QED
        BY <3>1, <4>1
    <3>2. CASE i \in m .. m + k
      <4>1. g[i] = f[i] /\ i # m + (k + 1)
        BY <3>2
      <4>2. f[i] = IF i = m THEN base ELSE step[i][f[i - 1]]
        BY <2>1, <3>2
      <4>3. i # m => i - 1 \in m .. m + (k + 1) /\ g[i - 1] = f[i - 1]
        BY <3>2
      <4> QED
        BY <4>1, <4>2, <4>3
    <3> QED
      BY <2>2, <3>1, <3>2
  <2>7. Fix(g, k + 1)
    BY <2>6
  <2> HIDE DEF g, Fix
  <2>8. \E f1 \in [m .. m + (k + 1) -> V] : Fix(f1, k + 1)
    BY <2>5, <2>7
  <2> QED
    BY <2>8
<1>3. Nat \subseteq T
  <2> HIDE DEF T
  <2> QED
    BY <1>1, <1>2, SetInduction
<1>4. CASE m <= n
  <2>1. n - m \in Nat /\ m + (n - m) = n
    BY <1>4
  <2> HIDE DEF Fix
  <2>2. PICK f \in [m .. m + (n - m) -> V] : Fix(f, n - m)
    BY <1>3, <2>1
  <2> QED
    BY <2>1, <2>2 DEF Fix
<1>5. CASE n < m
  <2>1. m .. n = {}
    BY <1>5
  <2>2. [i \in {} |-> base] \in [m .. n -> V]
    BY <2>1
  <2> QED
    BY <2>1, <2>2
<1> QED
  BY <1>4, <1>5

LEMMA MinOf ==
  ASSUME NEW T \in SUBSET Nat, T # {}
  PROVE  Min(T) \in T /\ \A i \in T : Min(T) <= i
BY NatMin DEF Min

LEMMA MaxOf ==
  ASSUME NEW n \in Nat, NEW T \in SUBSET (0 .. n), T # {}
  PROVE  Max(T) \in T /\ \A i \in T : i <= Max(T)
<1> DEFINE D == {k \in Nat : n - k \in T}
<1>1. D # {}
  <2>1. PICK i \in T : TRUE
    OBVIOUS
  <2>2. n - i \in Nat /\ n - (n - i) = i
    OBVIOUS
  <2> QED
    BY <2>2
<1>2. PICK k \in D : \A j \in D : k <= j
  BY <1>1, NatMin
<1>3. ASSUME NEW i \in T PROVE n - k >= i
  <2>1. n - i \in Nat /\ n - (n - i) = i
    OBVIOUS
  <2>2. k <= n - i
    BY <1>2, <2>1
  <2> QED
    BY <2>2
<1>4. n - k \in T
  OBVIOUS
<1> QED
  BY <1>3, <1>4 DEF Max

-----------------------------------------------------------------------------
(* Names and paths.                                                        *)

\* What the names of a sequence decode to, one after the other.
LEMMA FlattenUnfolds ==
  ASSUME NEW S, NEW seqs \in Seq(Seq(S)), Len(seqs) > 0
  PROVE  \E f \in [1 .. Len(seqs) -> Seq(S)] :
           /\ f[1] = seqs[1]
           /\ \A i \in 2 .. Len(seqs) : f[i] = f[i - 1] \o seqs[i]
           /\ FlattenSeq(seqs) = f[Len(seqs)]
<1> DEFINE n == Len(seqs)
           V == Seq(S)
           step == [i \in Nat |-> [v \in V |-> IF i \in 1 .. n THEN v \o seqs[i] ELSE v]]
           IsFlat(f) == f = [i \in 1 .. n |-> IF i = 1 THEN seqs[i] ELSE f[i - 1] \o seqs[i]]
           flat == CHOOSE f : IsFlat(f)
<1>1. FlattenSeq(seqs) = flat[n]
  BY DEF FlattenSeq
<1>2. n \in Nat /\ n # 0 /\ 1 \in 1 .. n /\ n \in 1 .. n /\ \A i \in 1 .. n : seqs[i] \in V
  OBVIOUS
<1>3. step \in [Nat -> [V -> V]]
  BY <1>2
<1>4. PICK f \in [1 .. n -> V] : \A i \in 1 .. n : f[i] = IF i = 1 THEN seqs[1] ELSE step[i][f[i - 1]]
  <2> DEFINE base == seqs[1]
  <2>1. base \in V /\ 1 \in Nat
    BY <1>2
  <2> HIDE DEF n, V, step, base
  <2>2. \E f \in [1 .. n -> V] : Carried(f, 1, n, base, step)
    BY <1>2, <1>3, <2>1, Iterated
  <2> QED
    BY <2>2 DEF base, Carried
<1>5. IsFlat(f)
  <2>1. ASSUME NEW i \in 1 .. n
        PROVE  f[i] = IF i = 1 THEN seqs[i] ELSE f[i - 1] \o seqs[i]
    <3>1. CASE i = 1
      BY <1>2, <1>4, <3>1
    <3>2. CASE i # 1
      <4>1. i - 1 \in 1 .. n /\ i \in Nat
        BY <1>2, <3>2
      <4>3. f[i - 1] \in V
        BY <4>1
      <4>2. f[i] = step[i][f[i - 1]]
        BY <1>4, <3>2
      <4> QED
        BY <3>2, <4>1, <4>2, <4>3
    <3> QED
      BY <3>1, <3>2
  <2> QED
    BY <2>1
<1> HIDE DEF IsFlat
<1>6. IsFlat(flat)
  BY <1>5
<1>7. flat = [i \in 1 .. n |-> IF i = 1 THEN seqs[i] ELSE flat[i - 1] \o seqs[i]]
  BY <1>6 DEF IsFlat
<1> HIDE DEF flat, n, V
<1>8. 1 .. n \subseteq {i \in 1 .. n : flat[i] \in V}
  <2> DEFINE T == {i \in 1 .. n : flat[i] \in V}
  <2>1. 1 \in T
    BY <1>2, <1>7
  <2>2. ASSUME NEW i \in 1 + 1 .. n, i - 1 \in T PROVE i \in T
    <3>1. i \in 1 .. n /\ i # 1
      BY <1>2
    <3>2. flat[i] = flat[i - 1] \o seqs[i] /\ flat[i - 1] \in V /\ seqs[i] \in V
      BY <1>2, <1>7, <2>2, <3>1
    <3>3. flat[i] \in V
      BY <3>2 DEF V
    <3> QED
      BY <3>1, <3>3
  <2> HIDE DEF T
  <2>3. 1 .. n \subseteq T
    <3>1. 1 \in Int /\ n \in Int /\ \A i \in 1 + 1 .. n : i - 1 \in T => i \in T
      BY <1>2, <2>2
    <3> QED
      BY <2>1, <3>1, UpTo
  <2> QED
    BY <2>3 DEF T
<1>9. flat \in [1 .. n -> V] /\ flat[1] = seqs[1]
      /\ \A i \in 2 .. n : flat[i] = flat[i - 1] \o seqs[i]
  <2>1. \A i \in 2 .. n : i \in 1 .. n /\ i # 1
    BY <1>2
  <2>2. flat[1] = seqs[1] /\ \A i \in 2 .. n : flat[i] = flat[i - 1] \o seqs[i]
    BY <1>2, <1>7, <2>1
  <2>3. flat \in [1 .. n -> V]
    BY <1>7, <1>8
  <2> QED
    BY <2>2, <2>3
<1> QED
  BY <1>1, <1>9 DEF n, V

\* The names that stay, one after the other.
Kept(f, names) ==
  /\ f[0] = <<>>
  /\ \A i \in 1 .. Len(names) :
       f[i] = IF names[i] \in Skipped THEN f[i - 1] ELSE Append(f[i - 1], names[i])

\* What is kept of a sequence of names, name by name.
LEMMA NormalUnfolds ==
  ASSUME NEW S, NEW names \in Seq(S)
  PROVE  \E f \in [0 .. Len(names) -> Seq(S \ Skipped)] :
           Kept(f, names) /\ Normal(names) = f[Len(names)]
<1> DEFINE n == Len(names)
           K == S \ Skipped
           V == Seq(K)
           step == [i \in Nat |-> [v \in V |->
                      IF i \in 1 .. n /\ names[i] \notin Skipped THEN Append(v, names[i]) ELSE v]]
           IsKept(f) == f = [i \in 0 .. n |->
                               IF i = 0 THEN <<>>
                               ELSE IF names[i] \in Skipped THEN f[i - 1]
                               ELSE Append(f[i - 1], names[i])]
           kept == CHOOSE f : IsKept(f)
<1>1. Normal(names) = kept[n]
  BY DEF Normal
<1>2. n \in Nat /\ 0 \in 0 .. n /\ n \in 0 .. n /\ \A i \in 1 .. n : names[i] \in S
  OBVIOUS
<1>0. <<>> \in V /\ \A v \in V, e \in S : e \notin Skipped => Append(v, e) \in V
  <2>1. \A e \in S : e \notin Skipped => e \in K
    OBVIOUS
  <2> HIDE DEF K, kept
  <2>2. \A v \in V, e \in K : Append(v, e) \in V
    OBVIOUS
  <2>3. <<>> \in V
    OBVIOUS
  <2> QED
    BY <2>1, <2>2, <2>3
<1> HIDE DEF K, V
<1>3. step \in [Nat -> [V -> V]]
  <2>1. ASSUME NEW i \in Nat, NEW v \in V
        PROVE  (IF i \in 1 .. n /\ names[i] \notin Skipped THEN Append(v, names[i]) ELSE v) \in V
    BY <1>0, <1>2
  <2> QED
    BY <2>1
<1>4. PICK f \in [0 .. n -> V] : \A i \in 0 .. n : f[i] = IF i = 0 THEN <<>> ELSE step[i][f[i - 1]]
  <2> DEFINE base == <<>>
  <2>1. base \in V /\ 0 \in Nat
    BY <1>0
  <2> HIDE DEF n, V, step, base
  <2>2. \E f \in [0 .. n -> V] : Carried(f, 0, n, base, step)
    BY <1>2, <1>3, <2>1, Iterated
  <2> QED
    BY <2>2 DEF base, Carried
<1>5. IsKept(f)
  <2>1. ASSUME NEW i \in 0 .. n
        PROVE  f[i] = IF i = 0 THEN <<>>
                      ELSE IF names[i] \in Skipped THEN f[i - 1]
                      ELSE Append(f[i - 1], names[i])
    <3>1. CASE i = 0
      BY <1>2, <1>4, <3>1
    <3>2. CASE i # 0
      <4>1. i - 1 \in 0 .. n /\ i \in Nat /\ i \in 1 .. n
        BY <1>2, <3>2
      <4>2. f[i - 1] \in V
        BY <4>1
      <4>3. f[i] = step[i][f[i - 1]]
        BY <1>4, <3>2
      <4> QED
        BY <3>2, <4>1, <4>2, <4>3
    <3> QED
      BY <3>1, <3>2
  <2> QED
    BY <2>1
<1> HIDE DEF IsKept
<1>6. IsKept(kept)
  BY <1>5
<1>7. kept = [i \in 0 .. n |->
                IF i = 0 THEN <<>>
                ELSE IF names[i] \in Skipped THEN kept[i - 1]
                ELSE Append(kept[i - 1], names[i])]
  BY <1>6 DEF IsKept
<1> HIDE DEF kept, n, V
<1>8. 0 .. n \subseteq {i \in 0 .. n : kept[i] \in V}
  <2> DEFINE T == {i \in 0 .. n : kept[i] \in V}
  <2>1. 0 \in T
    <3>1. kept[0] = <<>>
      BY <1>2, <1>7
    <3>2. <<>> \in V
      BY <1>0
    <3> QED
      BY <1>2, <3>1, <3>2
  <2>2. ASSUME NEW i \in 0 + 1 .. n, i - 1 \in T PROVE i \in T
    <3>1. i \in 0 .. n /\ i # 0 /\ i \in 1 .. n
      BY <1>2
    <3>2. kept[i - 1] \in V /\ names[i] \in S
      BY <1>2, <2>2, <3>1
    <3>3. kept[i] = IF names[i] \in Skipped THEN kept[i - 1] ELSE Append(kept[i - 1], names[i])
      BY <1>7, <3>1
    <3>4. kept[i] \in V
      BY <1>0, <3>2, <3>3
    <3> QED
      BY <3>1, <3>4
  <2> HIDE DEF T
  <2>3. 0 .. n \subseteq T
    <3>1. 0 \in Int /\ n \in Int /\ \A i \in 0 + 1 .. n : i - 1 \in T => i \in T
      BY <1>2, <2>2
    <3> QED
      BY <2>1, <3>1, UpTo
  <2> QED
    BY <2>3 DEF T
<1>9. kept \in [0 .. n -> V] /\ Kept(kept, names)
  <2>1. \A i \in 1 .. n : i \in 0 .. n /\ i # 0
    BY <1>2
  <2>2. Kept(kept, names)
    BY <1>2, <1>7, <2>1 DEF Kept, n
  <2>3. kept \in [0 .. n -> V]
    BY <1>7, <1>8
  <2> QED
    BY <2>2, <2>3
<1> QED
  BY <1>1, <1>9 DEF n, K, V

\* A sequence, and the same with some more of one element at its end.
Padded(long, short, e) ==
  /\ Len(short) <= Len(long)
  /\ \A i \in 1 .. Len(short) : long[i] = short[i]
  /\ \A i \in Len(short) + 1 .. Len(long) : long[i] = e

\* One more of the same at the end.
LEMMA PaddedMore ==
  ASSUME NEW S, NEW e \in S, NEW short \in Seq(S), NEW long \in Seq(S), Padded(long, short, e)
  PROVE  Padded(long \o <<e>>, short, e)
<1> DEFINE more == long \o <<e>>
<1>1. Len(more) = Len(long) + 1 /\ Len(long) \in Nat /\ Len(short) \in Nat
  OBVIOUS
<1>2. (\A i \in 1 .. Len(long) : more[i] = long[i]) /\ more[Len(long) + 1] = e
  OBVIOUS
<1> HIDE DEF more
<1>3. Len(short) <= Len(more) /\ \A i \in 1 .. Len(short) : more[i] = short[i]
  BY <1>1, <1>2 DEF Padded
<1>4. ASSUME NEW i \in Len(short) + 1 .. Len(more) PROVE more[i] = e
  <2>1. i = Len(long) + 1 \/ (i \in 1 .. Len(long) /\ i \in Len(short) + 1 .. Len(long))
    BY <1>1
  <2> QED
    BY <1>2, <2>1 DEF Padded
<1>5. Padded(more, short, e)
  BY <1>3, <1>4 DEF Padded
<1> QED
  BY <1>5 DEF more

\* More of one element at the end is more of it at the end of what is flattened.
LEMMA FlattenPadded ==
  ASSUME NEW S, NEW e \in S, NEW short \in Seq(Seq(S)), NEW long \in Seq(Seq(S)),
         Len(short) > 0, Padded(long, short, <<e>>)
  PROVE  Padded(FlattenSeq(long), FlattenSeq(short), e)
<1> DEFINE n == Len(short)
           m == Len(long)
<1>1. n \in Nat /\ m \in Nat /\ 0 < n /\ 0 < m /\ n <= m /\ 1 \in 1 .. n /\ n \in 1 .. n /\ m \in n .. m
      /\ (\A i \in 1 .. n : i \in 1 .. m) /\ \A i \in n .. m : i \in 1 .. m
  BY DEF Padded
<1>2. PICK f \in [1 .. n -> Seq(S)] :
        /\ f[1] = short[1]
        /\ \A i \in 2 .. n : f[i] = f[i - 1] \o short[i]
        /\ FlattenSeq(short) = f[n]
  BY <1>1, FlattenUnfolds
<1>3. PICK g \in [1 .. m -> Seq(S)] :
        /\ g[1] = long[1]
        /\ \A i \in 2 .. m : g[i] = g[i - 1] \o long[i]
        /\ FlattenSeq(long) = g[m]
  BY <1>1, FlattenUnfolds
<1>4. (\A i \in 1 .. n : long[i] = short[i]) /\ \A i \in n + 1 .. m : long[i] = <<e>>
  BY DEF Padded
<1> HIDE DEF n, m
<1>5. f[n] = g[n]
  <2> DEFINE T == {i \in 1 .. n : f[i] = g[i]}
  <2>1. 1 \in T
    BY <1>1, <1>2, <1>3, <1>4
  <2>2. ASSUME NEW i \in 1 + 1 .. n, i - 1 \in T PROVE i \in T
    <3>1. i \in 2 .. n /\ i \in 2 .. m /\ i \in 1 .. n
      BY <1>1
    <3>2. f[i] = f[i - 1] \o short[i] /\ g[i] = g[i - 1] \o long[i] /\ long[i] = short[i]
      BY <1>2, <1>3, <1>4, <3>1
    <3>3. f[i - 1] = g[i - 1]
      BY <2>2
    <3> QED
      BY <3>1, <3>2, <3>3
  <2> HIDE DEF T
  <2>3. 1 .. n \subseteq T
    <3>1. 1 \in Int /\ n \in Int /\ \A i \in 1 + 1 .. n : i - 1 \in T => i \in T
      BY <1>1, <2>2
    <3> QED
      BY <2>1, <3>1, UpTo
  <2> QED
    BY <1>1, <2>3 DEF T
<1>6. Padded(g[m], f[n], e)
  <2> DEFINE T == {i \in n .. m : Padded(g[i], f[n], e)}
  <2>1. n \in T
    <3>1. f[n] \in Seq(S) /\ n \in n .. m
      BY <1>1, <1>2
    <3> QED
      BY <1>5, <3>1 DEF Padded
  <2>2. ASSUME NEW i \in n + 1 .. m, i - 1 \in T PROVE i \in T
    <3>1. i \in 2 .. m /\ i \in n .. m /\ i - 1 \in 1 .. m
      BY <1>1
    <3>2. g[i] = g[i - 1] \o <<e>> /\ g[i - 1] \in Seq(S) /\ f[n] \in Seq(S)
      BY <1>1, <1>2, <1>3, <1>4, <3>1
    <3>3. Padded(g[i - 1], f[n], e)
      BY <2>2
    <3>4. Padded(g[i - 1] \o <<e>>, f[n], e)
      BY <3>2, <3>3, PaddedMore
    <3> QED
      BY <3>1, <3>2, <3>4
  <2> HIDE DEF T
  <2>3. n .. m \subseteq T
    <3>1. n \in Int /\ m \in Int /\ \A i \in n + 1 .. m : i - 1 \in T => i \in T
      BY <1>1, <2>2
    <3> QED
      BY <2>1, <3>1, UpTo
  <2> QED
    BY <1>1, <2>3 DEF T
<1> QED
  BY <1>2, <1>3, <1>6

\* When every segment decodes to something, nothing gets shorter, and the first name is
\* the first of the first segment.
LEMMA FlattenLong ==
  ASSUME NEW S, NEW seqs \in Seq(Seq(S)), Len(seqs) > 0,
         \A i \in 1 .. Len(seqs) : seqs[i] # <<>>
  PROVE  /\ FlattenSeq(seqs) \in Seq(S)
         /\ Len(seqs) <= Len(FlattenSeq(seqs))
         /\ Len(seqs[1]) <= Len(FlattenSeq(seqs))
         /\ FlattenSeq(seqs)[1] = seqs[1][1]
<1> DEFINE n == Len(seqs)
<1>1. n \in Nat /\ 0 < n /\ 1 \in 1 .. n /\ n \in 1 .. n
      /\ \A i \in 1 .. n : seqs[i] \in Seq(S) /\ 0 < Len(seqs[i])
  OBVIOUS
<1>2. PICK f \in [1 .. n -> Seq(S)] :
        /\ f[1] = seqs[1]
        /\ \A i \in 2 .. n : f[i] = f[i - 1] \o seqs[i]
        /\ FlattenSeq(seqs) = f[n]
  BY <1>1, FlattenUnfolds
<1> HIDE DEF n
<1> DEFINE T == {i \in 1 .. n : i <= Len(f[i]) /\ Len(seqs[1]) <= Len(f[i]) /\ f[i][1] = seqs[1][1]}
<1>3. 1 \in T
  BY <1>1, <1>2
<1>4. ASSUME NEW i \in 1 + 1 .. n, i - 1 \in T PROVE i \in T
  <2>1. i \in 2 .. n /\ i \in 1 .. n /\ i - 1 \in 1 .. n
    BY <1>1
  <2>2. f[i] = f[i - 1] \o seqs[i] /\ f[i - 1] \in Seq(S) /\ seqs[i] \in Seq(S) /\ 0 < Len(seqs[i])
    BY <1>1, <1>2, <2>1
  <2>3. i - 1 <= Len(f[i - 1]) /\ Len(seqs[1]) <= Len(f[i - 1]) /\ f[i - 1][1] = seqs[1][1]
    BY <1>4
  <2>4. Len(f[i]) = Len(f[i - 1]) + Len(seqs[i]) /\ f[i][1] = f[i - 1][1]
    <3>1. ASSUME NEW a \in Seq(S), NEW b \in Seq(S), 0 < Len(a)
          PROVE  Len(a \o b) = Len(a) + Len(b) /\ (a \o b)[1] = a[1]
      BY <3>1
    <3>2. 0 < Len(f[i - 1])
      BY <2>1, <2>2, <2>3
    <3> QED
      BY <2>2, <3>1, <3>2
  <2>5. Len(seqs[1]) \in Nat /\ Len(f[i - 1]) \in Nat /\ Len(seqs[i]) \in Nat
    BY <1>1, <2>2
  <2>6. i <= Len(f[i]) /\ Len(seqs[1]) <= Len(f[i])
    <3>1. ASSUME NEW j \in Int, NEW x \in Nat, NEW y \in Nat, NEW z \in Nat, NEW w,
                 j - 1 <= x, z <= x, 0 < y, w = x + y
          PROVE  j <= w /\ z <= w
      BY <3>1
    <3>2. i \in Int
      BY <1>1, <2>1
    <3> QED
      BY <2>2, <2>3, <2>4, <2>5, <3>1, <3>2
  <2> QED
    BY <2>1, <2>3, <2>4, <2>6
<1> HIDE DEF T
<1>5. 1 .. n \subseteq T
  <2>1. 1 \in Int /\ n \in Int /\ \A i \in 1 + 1 .. n : i - 1 \in T => i \in T
    BY <1>1, <1>4
  <2> QED
    BY <1>3, <2>1, UpTo
<1> QED
  BY <1>1, <1>2, <1>5 DEF T, n

\* Empty names at the end count for nothing.
LEMMA NormalPadded ==
  ASSUME NEW S, NEW short \in Seq(S), NEW long \in Seq(S), Padded(long, short, Empty)
  PROVE  Normal(long) = Normal(short)
<1>0. Empty \in Skipped
  BY DEF Skipped
<1> DEFINE n == Len(short)
           m == Len(long)
<1>1. n \in Nat /\ m \in Nat /\ n <= m
  BY DEF Padded
<1>2. PICK f \in [0 .. n -> Seq(S \ Skipped)] : Kept(f, short) /\ Normal(short) = f[n]
  BY NormalUnfolds
<1>3. PICK g \in [0 .. m -> Seq(S \ Skipped)] : Kept(g, long) /\ Normal(long) = g[m]
  BY NormalUnfolds
<1>4. (\A i \in 1 .. n : long[i] = short[i]) /\ \A i \in n + 1 .. m : long[i] = Empty
  BY DEF Padded
<1>5. /\ f[0] = <<>>
      /\ \A i \in 1 .. n :
           f[i] = IF short[i] \in Skipped THEN f[i - 1] ELSE Append(f[i - 1], short[i])
  BY <1>2 DEF Kept
<1>6. /\ g[0] = <<>>
      /\ \A i \in 1 .. m :
           g[i] = IF long[i] \in Skipped THEN g[i - 1] ELSE Append(g[i - 1], long[i])
  BY <1>3 DEF Kept
<1> HIDE DEF n, m
<1> DEFINE T == {i \in 0 .. m : g[i] = f[IF i <= n THEN i ELSE n]}
<1>7. 0 \in T
  BY <1>1, <1>5, <1>6
<1>8. ASSUME NEW i \in 0 + 1 .. m, i - 1 \in T PROVE i \in T
  <2>1. i \in 1 .. m /\ i \in 0 .. m /\ i \in Int
    BY <1>1
  <2>2. CASE i <= n
    <3>1. i \in 1 .. n /\ i - 1 <= n
      BY <1>1, <2>1, <2>2
    <3>2. g[i - 1] = f[i - 1] /\ long[i] = short[i]
      BY <1>4, <1>8, <3>1
    <3> QED
      BY <1>5, <1>6, <2>1, <2>2, <3>1, <3>2
  <2>3. CASE i > n
    <3>1. i \in n + 1 .. m /\ ~(i <= n) /\ (IF i - 1 <= n THEN i - 1 ELSE n) = n
      BY <1>1, <2>1, <2>3
    <3>2. g[i - 1] = f[n] /\ long[i] = Empty
      BY <1>4, <1>8, <3>1
    <3> QED
      BY <1>0, <1>6, <2>1, <3>1, <3>2
  <2> QED
    BY <1>1, <2>1, <2>2, <2>3
<1> HIDE DEF T
<1>9. 0 .. m \subseteq T
  <2>1. 0 \in Int /\ m \in Int /\ \A i \in 0 + 1 .. m : i - 1 \in T => i \in T
    BY <1>1, <1>8
  <2> QED
    BY <1>7, <2>1, UpTo
<1>10. m \in T /\ (IF m <= n THEN m ELSE n) = n
  BY <1>1, <1>9
<1> QED
  BY <1>2, <1>3, <1>10 DEF T

\* There is nothing to trim from a path that neither begins nor ends with a slash.
LEMMA TrimmedStays ==
  ASSUME NEW s \in Seq(Segments), Len(s) > 0, s[1] # Empty, s[Len(s)] # Empty
  PROVE  Trim(s) = s /\ TrimStart(s) = s
<1> DEFINE named == {i \in DOMAIN s : s[i] # Empty}
<1>1. 1 \in named /\ Len(s) \in named /\ named \subseteq 1 .. Len(s) /\ Len(s) \in Nat
      /\ (\A i \in named : 1 <= i /\ i <= Len(s))
  OBVIOUS
<1> HIDE DEF named
<1>2. named \in SUBSET Nat /\ named \in SUBSET (0 .. Len(s)) /\ named # {}
  BY <1>1
<1>3. Min(named) = 1
  <2>1. Min(named) \in named /\ \A i \in named : Min(named) <= i
    BY <1>2, MinOf
  <2>2. Min(named) \in 1 .. Len(s) /\ Min(named) <= 1
    BY <1>1, <2>1
  <2> QED
    BY <1>1, <2>2
<1>4. Max(named) = Len(s)
  <2>1. Max(named) \in named /\ \A i \in named : i <= Max(named)
    BY <1>1, <1>2, MaxOf
  <2>2. Max(named) \in 1 .. Len(s) /\ Len(s) <= Max(named)
    BY <1>1, <2>1
  <2> QED
    BY <1>1, <2>2
<1>5. SubSeq(s, 1, Len(s)) = s
  OBVIOUS
<1> QED
  BY <1>2, <1>3, <1>4, <1>5 DEF Trim, TrimStart, named

\* Nothing but slashes is /.
LEMMA TrimEmpty ==
  ASSUME NEW s \in Seq(Segments), \A i \in DOMAIN s : s[i] = Empty
  PROVE  Trim(s) = <<Empty>> /\ TrimStart(s) = <<Empty>>
BY DEF Trim, TrimStart

\* Trim takes from the end what TrimStart leaves there, and nothing is left to
\* take from what it returns.
LEMMA TrimFacts ==
  ASSUME NEW s \in Seq(Segments)
  PROVE  /\ Trim(s) \in Seq(Segments) /\ TrimStart(s) \in Seq(Segments)
         /\ Len(Trim(s)) > 0
         /\ \/ Trim(s) = <<Empty>> /\ TrimStart(s) = <<Empty>>
            \/ Trim(s)[1] # Empty /\ Trim(s)[Len(Trim(s))] # Empty
         /\ Trim(Trim(s)) = Trim(s) /\ TrimStart(Trim(s)) = Trim(s)
         /\ Padded(TrimStart(s), Trim(s), Empty)
<1> DEFINE named == {i \in DOMAIN s : s[i] # Empty}
           a == Min(named)
           b == Max(named)
           n == Len(s)
<1>0. Empty \in Segments
  BY PathsAssumption
<1>1. CASE named = {}
  <2>1. Trim(s) = <<Empty>> /\ TrimStart(s) = <<Empty>>
    BY <1>1, TrimEmpty
  <2>2. <<Empty>> \in Seq(Segments) /\ Len(<<Empty>>) = 1 /\ \A i \in DOMAIN <<Empty>> : <<Empty>>[i] = Empty
    BY <1>0
  <2>3. Trim(<<Empty>>) = <<Empty>> /\ TrimStart(<<Empty>>) = <<Empty>>
    BY <2>2, TrimEmpty
  <2>4. Padded(<<Empty>>, <<Empty>>, Empty)
    BY DEF Padded
  <2> QED
    BY <2>1, <2>2, <2>3, <2>4
<1>2. CASE named # {}
  <2>1. n \in Nat /\ named \in SUBSET Nat /\ named \in SUBSET (0 .. n) /\ named \subseteq 1 .. n
        /\ \A i \in 1 .. n : i \in named <=> s[i] # Empty
    OBVIOUS
  <2>2. Trim(s) = SubSeq(s, a, b) /\ TrimStart(s) = SubSeq(s, a, n)
    BY <1>2 DEF Trim, TrimStart
  <2> HIDE DEF named
  <2>3. a \in named /\ \A i \in named : a <= i
    BY <1>2, <2>1, MinOf
  <2>4. b \in named /\ \A i \in named : i <= b
    BY <1>2, <2>1, MaxOf
  <2>5. a \in 1 .. n /\ b \in 1 .. n /\ a <= b /\ s[a] # Empty /\ s[b] # Empty
    BY <2>1, <2>3, <2>4
  <2>6. \A i \in b + 1 .. n : s[i] = Empty
    BY <2>1, <2>4, <2>5
  <2> HIDE DEF a, b
  <2> DEFINE t == SubSeq(s, a, b)
             u == SubSeq(s, a, n)
  <2>7. t \in Seq(Segments) /\ Len(t) = b - a + 1 /\ \A i \in 1 .. b - a + 1 : t[i] = s[a + i - 1]
    BY <2>1, <2>5
  <2>8. u \in Seq(Segments) /\ Len(u) = n - a + 1 /\ \A i \in 1 .. n - a + 1 : u[i] = s[a + i - 1]
    BY <2>1, <2>5
  <2> HIDE DEF t, u, n
  <2>9. Len(t) > 0 /\ t[1] # Empty /\ t[Len(t)] # Empty
    <3>1. 1 \in 1 .. b - a + 1 /\ b - a + 1 \in 1 .. b - a + 1 /\ a + 1 - 1 = a /\ a + (b - a + 1) - 1 = b
      BY <2>1, <2>5
    <3> QED
      BY <2>5, <2>7, <3>1
  <2>10. Trim(t) = t /\ TrimStart(t) = t
    BY <2>7, <2>9, TrimmedStays
  <2>11. Padded(u, t, Empty)
    <3>1. Len(t) <= Len(u) /\ \A i \in 1 .. Len(t) : i \in 1 .. n - a + 1
      BY <2>1, <2>5, <2>7, <2>8
    <3>2. \A i \in Len(t) + 1 .. Len(u) : i \in 1 .. n - a + 1 /\ a + i - 1 \in b + 1 .. n
      BY <2>1, <2>5, <2>7, <2>8
    <3> QED
      BY <2>6, <2>7, <2>8, <3>1, <3>2 DEF Padded
  <2>12. Trim(s) = t /\ TrimStart(s) = u
    BY <2>2 DEF t, u
  <2> QED
    BY <2>7, <2>8, <2>9, <2>10, <2>11, <2>12
<1> QED
  BY <1>1, <1>2

\* What a path decodes to before it is made normal.
LEMMA DecodedFacts ==
  ASSUME NEW s \in Seq(Segments), Len(s) > 0, \A i \in DOMAIN s : Decode[s[i]] # Garbage
  PROVE  /\ Decoded(s) \in Seq(Segments)
         /\ Len(Decoded(s)) > 0
         /\ Len(Decoded(s)) = 1 /\ Decoded(s)[1] = Empty => s = <<Empty>>
<1> DEFINE seqs == [i \in DOMAIN s |-> Decode[s[i]]]
           n == Len(s)
<1>1. DOMAIN s = 1 .. n /\ n \in Nat /\ 0 < n /\ 1 \in 1 .. n /\ \A i \in 1 .. n : s[i] \in Segments
  OBVIOUS
<1>2. \A i \in 1 .. n : Decode[s[i]] \in Seq(Segments) /\ Decode[s[i]] # <<>>
  BY <1>1, PathsAssumption DEF Garbage
<1>3. seqs \in Seq(Seq(Segments)) /\ Len(seqs) = n /\ \A i \in 1 .. n : seqs[i] = Decode[s[i]]
  BY <1>1, <1>2
<1> HIDE DEF seqs, n
<1>4. /\ FlattenSeq(seqs) \in Seq(Segments)
      /\ n <= Len(FlattenSeq(seqs))
      /\ Len(seqs[1]) <= Len(FlattenSeq(seqs))
      /\ FlattenSeq(seqs)[1] = seqs[1][1]
  BY <1>1, <1>2, <1>3, FlattenLong
<1>5. Decoded(s) = FlattenSeq(seqs)
  BY DEF Decoded, seqs
<1>6. Len(Decoded(s)) > 0
  BY <1>1, <1>4, <1>5
<1>7. ASSUME Len(Decoded(s)) = 1, Decoded(s)[1] = Empty PROVE s = <<Empty>>
  <2>1. n = 1 /\ Len(seqs[1]) <= 1 /\ seqs[1][1] = Empty
    BY <1>1, <1>4, <1>5, <1>7
  <2>2. seqs[1] \in Seq(Segments) /\ seqs[1] # <<>> /\ seqs[1] = Decode[s[1]]
    BY <1>1, <1>2, <1>3
  <2>3. seqs[1] = <<Empty>>
    BY <2>1, <2>2
  <2>4. s[1] = Empty
    BY <1>1, <2>2, <2>3, PathsAssumption
  <2> QED
    BY <2>1, <2>4 DEF n
<1> QED
  BY <1>4, <1>5, <1>6, <1>7

\* A path with more slashes at its end decodes to the same names, and empty ones.
LEMMA DecodedPadded ==
  ASSUME NEW short \in Seq(Segments), NEW long \in Seq(Segments), Len(short) > 0,
         Padded(long, short, Empty)
  PROVE  Padded(Decoded(long), Decoded(short), Empty)
<1> DEFINE part(s) == [i \in DOMAIN s |-> Decode[s[i]]]
<1>0. Empty \in Segments /\ Decode[Empty] = <<Empty>>
  BY PathsAssumption
<1>1. ASSUME NEW s \in Seq(Segments)
      PROVE  part(s) \in Seq(Seq(Segments)) /\ Len(part(s)) = Len(s)
             /\ \A i \in 1 .. Len(s) : part(s)[i] = Decode[s[i]]
  <2>1. DOMAIN s = 1 .. Len(s) /\ Len(s) \in Nat /\ \A i \in 1 .. Len(s) : Decode[s[i]] \in Seq(Segments)
    <3>1. \A i \in 1 .. Len(s) : s[i] \in Segments
      OBVIOUS
    <3>2. \A x \in Segments : Decode[x] \in Seq(Segments)
      BY PathsAssumption
    <3> QED
      BY <3>1, <3>2
  <2> QED
    BY <2>1
<1> DEFINE a == part(short)
           b == part(long)
<1>2. a \in Seq(Seq(Segments)) /\ Len(a) = Len(short) /\ \A i \in 1 .. Len(short) : a[i] = Decode[short[i]]
  BY <1>1
<1>3. b \in Seq(Seq(Segments)) /\ Len(b) = Len(long) /\ \A i \in 1 .. Len(long) : b[i] = Decode[long[i]]
  BY <1>1
<1>4. Decoded(short) = FlattenSeq(a) /\ Decoded(long) = FlattenSeq(b)
  BY DEF Decoded
<1> HIDE DEF a, b
<1>5. Padded(b, a, <<Empty>>)
  <2>1. /\ Len(short) \in Nat /\ Len(long) \in Nat /\ Len(short) <= Len(long)
        /\ \A i \in 1 .. Len(short) : long[i] = short[i] /\ i \in 1 .. Len(long)
        /\ \A i \in Len(short) + 1 .. Len(long) : long[i] = Empty /\ i \in 1 .. Len(long)
    BY DEF Padded
  <2>2. (\A i \in 1 .. Len(short) : b[i] = a[i]) /\ \A i \in Len(short) + 1 .. Len(long) : b[i] = <<Empty>>
    BY <1>0, <1>2, <1>3, <2>1
  <2> QED
    BY <1>2, <1>3, <2>1, <2>2 DEF Padded
<1> QED
  BY <1>0, <1>2, <1>3, <1>4, <1>5, FlattenPadded

\* The path a redirect leads to is judged as the one it comes from, and read the same.
LEMMA TrimKeeps ==
  ASSUME NEW s \in Seq(Segments)
  PROVE  /\ Valid(Trim(s)) = Valid(s)
         /\ Valid(s) => Components(Trim(s)) = Components(s)
         /\ ~Redirected(Trim(s))
<1> DEFINE t == Trim(s)
           u == TrimStart(s)
           dt == Decoded(t)
           du == Decoded(u)
<1>1. /\ t \in Seq(Segments) /\ u \in Seq(Segments)
      /\ Len(t) > 0
      /\ \/ t = <<Empty>> /\ u = <<Empty>>
         \/ t[1] # Empty /\ t[Len(t)] # Empty
      /\ Trim(t) = t /\ TrimStart(t) = t
      /\ Padded(u, t, Empty)
  BY TrimFacts
<1> DEFINE Decodes(x) == \A i \in DOMAIN x : Decode[x[i]] # Garbage
           Relative(x) == Len(x) > 1 => x[1] # Empty
           Below(x) == \A i \in DOMAIN x : x[i] # ".."
<1>2. Valid(s) = (Decodes(u) /\ Relative(du) /\ Below(du))
  BY DEF Valid
<1>3. Valid(t) = (Decodes(t) /\ Relative(dt) /\ Below(dt))
  BY <1>1 DEF Valid
<1> HIDE DEF t, u
<1>4. Padded(du, dt, Empty)
  BY <1>1, DecodedPadded
<1>5. Decodes(u) = Decodes(t)
  <2>1. Empty \in Segments /\ Decode[Empty] # Garbage
    <3>1. Empty \in Segments /\ Decode[Empty] = <<Empty>>
      BY PathsAssumption
    <3>2. Len(<<Empty>>) # Len(<<>>)
      OBVIOUS
    <3> QED
      BY <3>1, <3>2 DEF Garbage
  <2>2. /\ DOMAIN t = 1 .. Len(t) /\ DOMAIN u = 1 .. Len(u) /\ Len(t) \in Nat /\ Len(u) \in Nat
        /\ \A i \in 1 .. Len(t) : u[i] = t[i] /\ i \in 1 .. Len(u)
        /\ \A i \in 1 .. Len(u) : i \in 1 .. Len(t) \/ u[i] = Empty
    BY <1>1 DEF Padded
  <2>3. (\A i \in 1 .. Len(u) : Decode[u[i]] # Garbage) <=> \A i \in 1 .. Len(t) : Decode[t[i]] # Garbage
    BY <2>1, <2>2
  <2> QED
    BY <2>2, <2>3
<1>6. ASSUME Decodes(u)
      PROVE  Relative(du) = Relative(dt) /\ Below(du) = Below(dt) /\ Normal(du) = Normal(dt)
  <2> DEFINE Ok(x) == x \in Seq(Segments) /\ Len(x) > 0
  <2>1. Ok(dt) /\ (Len(dt) = 1 /\ dt[1] = Empty => t = <<Empty>>)
    BY <1>1, <1>5, <1>6, DecodedFacts
  <2>2. Ok(du)
    <3>1. Len(u) > 0
      BY <1>1 DEF Padded
    <3> QED
      BY <1>1, <1>6, <3>1, DecodedFacts
  <2>3. t = <<Empty>> => u = t
    BY <1>1
  <2>4. Normal(du) = Normal(dt)
    BY <1>4, <2>1, <2>2, NormalPadded
  <2> HIDE DEF dt, du
  <2>5. /\ DOMAIN dt = 1 .. Len(dt) /\ DOMAIN du = 1 .. Len(du) /\ Len(dt) \in Nat /\ Len(du) \in Nat
        /\ Len(dt) > 0 /\ Len(dt) <= Len(du)
        /\ \A i \in 1 .. Len(dt) : du[i] = dt[i] /\ i \in 1 .. Len(du)
        /\ \A i \in 1 .. Len(du) : i \in 1 .. Len(dt) \/ du[i] = Empty
    BY <1>4, <2>1, <2>2 DEF Padded
  <2>6. du[1] = dt[1]
    BY <2>5
  <2>7. Relative(du) = Relative(dt)
    <3>1. CASE t = <<Empty>>
      BY <2>3, <3>1 DEF dt, du
    <3>2. CASE t # <<Empty>>
      <4>1. (Len(du) > 1 => du[1] # Empty) <=> (Len(dt) > 1 => dt[1] # Empty)
        BY <2>1, <2>5, <2>6, <3>2
      <4> QED
        BY <4>1
    <3> QED
      BY <3>1, <3>2
  <2>8. Below(du) = Below(dt)
    <3>1. Empty # ".."
      BY Zenon DEF Empty
    <3>2. (\A i \in 1 .. Len(du) : du[i] # "..") <=> \A i \in 1 .. Len(dt) : dt[i] # ".."
      BY <2>5, <3>1
    <3> QED
      BY <2>5, <3>2
  <2> QED
    BY <2>4, <2>7, <2>8
<1> HIDE DEF Decodes, Relative, Below
<1>7. Valid(t) = Valid(s)
  BY <1>2, <1>3, <1>5, <1>6
<1>8. Valid(s) => Components(t) = Components(s)
  <2>1. Components(t) = Normal(dt) /\ Components(s) = Normal(du)
    BY <1>1 DEF Components, u
  <2> QED
    BY <1>2, <1>6, <2>1
<1>9. ~Redirected(t)
  BY <1>1 DEF Redirected, NewPath
<1> QED
  BY <1>7, <1>8, <1>9 DEF t

\* The components of a path that is not refused are names below the folder of the site:
\* no step to a parent, nothing empty (files.rs:359-376).
THEOREM PathsStayBelow ==
  ASSUME NEW s \in Seq(Segments), Valid(s)
  PROVE  Components(s) \in Seq(Segments \ {Empty, ".", ".."})
<1> DEFINE u == TrimStart(s)
           du == Decoded(u)
           K == Segments \ {".."}
<1>1. u \in Seq(Segments) /\ Len(u) > 0
  BY TrimFacts DEF Padded
<1>2. (\A i \in DOMAIN u : Decode[u[i]] # Garbage) /\ \A i \in DOMAIN du : du[i] # ".."
  BY DEF Valid
<1> HIDE DEF u
<1>3. du \in Seq(Segments)
  BY <1>1, <1>2, DecodedFacts
<1> HIDE DEF du
<1>4. du \in Seq(K)
  BY <1>2, <1>3
<1> HIDE DEF K
<1>5. PICK f \in [0 .. Len(du) -> Seq(K \ Skipped)] : Normal(du) = f[Len(du)]
  BY <1>4, NormalUnfolds
<1>6. Normal(du) \in Seq(K \ Skipped)
  BY <1>4, <1>5
<1>7. K \ Skipped = Segments \ {Empty, ".", ".."}
  BY DEF K, Skipped
<1> QED
  BY <1>6, <1>7 DEF Components, u, du

-----------------------------------------------------------------------------
(* The inductive invariant.                                                *)

Busy == pc \in {"metadata", "body"}

\* Nothing carries a version or a date that is still to come.
PastInv ==
  /\ \A p \in Paths : IsFile(fs, p) => fs[p].version <= changes
  /\ Busy /\ file.at # Dir => file.at.version <= changes
  /\ Busy => file.opened <= Date(now)
  /\ copy # None => copy.opened <= Date(now)

\* As long as the page has been there, the request is on its way to it.
PageInv ==
  page # None =>
    /\ pc # "idle" /\ page = Page(fs, req.url)
    /\ pc = "resolve" => req.path = req.url
    /\ pc = "open" => req.path = IF IsDir(fs, req.url) THEN req.url \o <<Index>> ELSE req.url
    /\ pc = "open_html" => page = Html(req.path)
    /\ pc # "fallback"
    /\ Busy => file.path = page /\ file.at # Dir

\* A file that has another by now in its place got it since it was opened.
OpenInv ==
  Busy /\ IsFile(fs, file.path) =>
    fs[file.path] = file.at \/ Date(fs[file.path].time) >= file.opened

\* A copy whose file was opened in a later second than it is of is the version of
\* whatever is in its place, or open, and no younger.
CopyInv ==
  copy # None /\ copy.opened > copy.date =>
    \A n \in Node :
      /\ n = Found(fs, copy.path) \/ (Busy /\ file.path = copy.path /\ n = file.at)
      /\ Date(n.time) <= copy.date
      => n.version = copy.version

\* What a head promises of the file, of the range and of the copy it upholds.
HeadInv ==
  pc = "body" =>
    /\ meta.found.version <= changes
    /\ file.at.version = meta.found.version => file.at = meta.found
    /\ meta.range # None =>
         meta.range.first <= meta.range.last /\ meta.range.last < meta.found.size
    /\ LET kept == meta.upheld IN
       kept # None /\ kept.opened > kept.date /\ kept.path = file.path =>
         kept.version = meta.found.version

AnswerInv == CopyIsCurrent /\ SentAsAnnounced /\ OneRedirect

IInv == TypeOK /\ PastInv /\ PageInv /\ OpenInv /\ CopyInv /\ HeadInv /\ AnswerInv

-----------------------------------------------------------------------------
(* What stays true of the constants and of the operators on the files.     *)

LEMMA Constants ==
  /\ None # Dir /\ Dir \notin Node /\ None \notin Node /\ None \notin Paths
  /\ None \notin Extent /\ None \notin Copy /\ None \notin Request
  /\ Base \in Paths /\ Index \in Names
  /\ \A p \in Paths : p \in Places /\ Len(p) \in Nat /\ Len(p) > 0
  /\ MaxChanges \in Nat /\ MaxTime \in Nat /\ Sizes \subseteq Nat
<1>1. Paths \subseteq Places \ {<<>>}
  BY FilesAssumption
<1>2. \A p \in Places \ {<<>>} : Len(p) \in Nat /\ Len(p) > 0
  BY DEF Places
<1>3. None \notin Node /\ None \notin Places /\ None \notin Extent /\ None \notin Copy /\ None \notin Request
  BY FilesAssumption
<1> QED
  BY <1>1, <1>2, <1>3, FilesAssumption

LEMMA Dates ==
  /\ \A t \in Nat : Date(t) \in Nat
  /\ \A t, u \in Nat : t <= u => Date(t) <= Date(u)
BY DEF Date

LEMMA FoundFacts ==
  ASSUME NEW f \in [Paths -> Node \cup {None, Dir}], NEW p
  PROVE  /\ Found(f, p) \in Node \cup {None, Dir}
         /\ Found(f, p) # None => p \in Paths
         /\ p \in Paths => Found(f, p) = f[p]
         /\ IsFile(f, p) <=> Found(f, p) \in Node
         /\ IsDir(f, p) <=> Found(f, p) = Dir
BY Constants DEF Found, IsFile, IsDir

LEMMA PageFacts ==
  ASSUME NEW f \in [Paths -> Node \cup {None, Dir}], NEW p
  PROVE  /\ Page(f, p) \in Paths \cup {None}
         /\ Page(f, p) # None => IsFile(f, Page(f, p))
<1> DEFINE candidate == IF IsDir(f, p) THEN p \o <<Index>>
                        ELSE IF /\ Found(f, p) = None /\ ~BehindFile(f, p)
                                /\ p[Len(p)] \in Bare THEN Html(p)
                        ELSE p
<1>1. Page(f, p) = IF IsFile(f, candidate) THEN candidate ELSE None
  BY DEF Page
<1> HIDE DEF candidate
<1>2. IsFile(f, candidate) => candidate \in Paths
  BY FoundFacts, Constants
<1> QED
  BY <1>1, <1>2

LEMMA UrlsArePlaces == Urls \subseteq Places \ {<<>>}
<1> SUFFICES ASSUME NEW s \in RequestSet \ (Moved \cup Refused)
             PROVE  Base \o Components(s) \in Places \ {<<>>}
  BY DEF Urls
<1>1. s \in Seq(Segments) /\ Valid(s)
  BY FilesAssumption DEF Refused
<1>2. Components(s) \in Seq(Segments \ {Empty, ".", ".."})
  BY <1>1, PathsStayBelow
<1>3. Segments \ {Empty, ".", ".."} \subseteq Names
  BY PathsAssumption DEF Names
<1>4. Components(s) \in Seq(Names)
  <2> DEFINE K == Segments \ {Empty, ".", ".."}
  <2> HIDE DEF K
  <2>1. Components(s) \in Seq(K) /\ K \subseteq Names
    BY <1>2, <1>3 DEF K
  <2> QED
    BY <2>1
<1>5. Base \in Seq(Names) /\ Len(Base) > 0
  BY Constants DEF Places
<1> QED
  BY <1>4, <1>5 DEF Places

-----------------------------------------------------------------------------
(* The type invariant.                                                     *)

\* A tree stays one when nothing is put where there is no folder, no folder is put
\* in the place of something, and only an empty folder is taken away.
Tree(f) == \A p \in Paths : Len(p) > 1 /\ f[p] # None => f[Parent(p)] = Dir

LEMMA TreeStays ==
  ASSUME NEW f \in [Paths -> Node \cup {None, Dir}], Tree(f),
         NEW q \in Paths, NEW node \in Node \cup {None, Dir},
         node # None => (Len(q) > 1 => f[Parent(q)] = Dir),
         node # Dir => \A p \in Paths : Len(p) > 1 /\ Parent(p) = q => f[p] = None
  PROVE  /\ [f EXCEPT ![q] = node] \in [Paths -> Node \cup {None, Dir}]
         /\ Tree([f EXCEPT ![q] = node])
<1> DEFINE g == [f EXCEPT ![q] = node]
<1>1. g \in [Paths -> Node \cup {None, Dir}]
  OBVIOUS
<1>2. ASSUME NEW p \in Paths, Len(p) > 1, g[p] # None PROVE g[Parent(p)] = Dir
  <2>1. Parent(p) \in Paths /\ Parent(p) # p
    <3>1. Front(p) \in Paths
      BY <1>2, FilesAssumption
    <3>2. Len(Front(p)) = Len(p) - 1 /\ Len(p) \in Nat
      <4>1. p \in Seq(Names)
        BY Constants DEF Places
      <4> QED
        BY <1>2, <4>1 DEF Front
    <3> QED
      BY <3>1, <3>2 DEF Parent
  <2>2. f[Parent(p)] = Dir
    <3>1. CASE p = q
      BY <1>2, <3>1
    <3>2. CASE p # q
      BY <1>2, <3>2 DEF Tree
    <3> QED
      BY <3>1, <3>2
  <2>3. CASE Parent(p) = q
    <3>1. f[p] = g[p]
      BY <2>1, <2>3
    <3>2. node = Dir
      BY <1>2, <2>3, <3>1
    <3> QED
      BY <2>1, <2>3, <3>2
  <2>4. CASE Parent(p) # q
    BY <2>1, <2>2, <2>4
  <2> QED
    BY <2>3, <2>4
<1> HIDE DEF g
<1>3. Tree(g)
  BY <1>2 DEF Tree
<1> QED
  BY <1>1, <1>3 DEF g

\* What a change by the owner does to the tree and to an open file.
LEMMA OwnerStep ==
  ASSUME TypeOK, NEW path \in Paths, Owner(path)
  PROVE  \E node \in Node \cup {None, Dir} :
           /\ Change(path, node)
           /\ node \in Node => node.version = changes + 1 /\ node.time = now
           /\ \/ file' = file
              \/ node \in Node /\ file.path = path /\ file' = [file EXCEPT !.at = node]
           /\ Tree([fs EXCEPT ![path] = node])
<1>0. fs \in [Paths -> Node \cup {None, Dir}] /\ Tree(fs) /\ changes \in Nat /\ now \in Nat
  BY Constants DEF TypeOK, Tree
<1>1. ASSUME NEW size \in Sizes
      PROVE  /\ Fresh(size) \in Node /\ Fresh(size) \notin {None, Dir}
             /\ Fresh(size).version = changes + 1 /\ Fresh(size).time = now
  BY <1>0, Constants DEF Fresh, Node
<1>2. ASSUME NEW size \in Sizes, Write(path, size)
      PROVE  /\ Change(path, Fresh(size)) /\ Tree([fs EXCEPT ![path] = Fresh(size)])
             /\ \/ file' = file
                \/ file.path = path /\ file' = [file EXCEPT !.at = Fresh(size)]
  <2>1. fs[path] \notin {None, Dir} /\ Change(path, Fresh(size))
    BY <1>2 DEF Write, IsFile, Found
  <2>2. fs'[path] = Fresh(size)
    BY <1>0, <2>1 DEF Change
  <2>3. file' = file \/ (file.path = path /\ file' = [file EXCEPT !.at = Fresh(size)])
    BY <1>2, <2>2 DEF Write
  <2>4. Len(path) > 1 => fs[Parent(path)] = Dir
    BY <1>0, <2>1 DEF Tree
  <2>5. \A p \in Paths : Len(p) > 1 /\ Parent(p) = path => fs[p] = None
    BY <1>0, <2>1 DEF Tree
  <2>6. Tree([fs EXCEPT ![path] = Fresh(size)])
    BY <1>0, <1>1, <2>4, <2>5, TreeStays
  <2> QED
    BY <2>1, <2>3, <2>6
<1>3. ASSUME NEW size \in Sizes, Put(path, size)
      PROVE  Change(path, Fresh(size)) /\ file' = file /\ Tree([fs EXCEPT ![path] = Fresh(size)])
  <2>1. /\ fs[path] # Dir
        /\ Len(path) > 1 => fs[Parent(path)] = Dir
        /\ Change(path, Fresh(size))
        /\ file' = file
    BY <1>3 DEF Put
  <2>2. \A p \in Paths : Len(p) > 1 /\ Parent(p) = path => fs[p] = None
    BY <1>0, <2>1 DEF Tree
  <2>3. Tree([fs EXCEPT ![path] = Fresh(size)])
    BY <1>0, <1>1, <2>1, <2>2, TreeStays
  <2> QED
    BY <2>1, <2>3
<1>4. ASSUME MakeDir(path)
      PROVE  Change(path, Dir) /\ file' = file /\ Tree([fs EXCEPT ![path] = Dir])
  <2>1. Len(path) > 1 => fs[Parent(path)] = Dir
    BY <1>4 DEF MakeDir
  <2>2. Tree([fs EXCEPT ![path] = Dir])
    BY <1>0, <2>1, TreeStays
  <2> QED
    BY <1>4, <2>2 DEF MakeDir
<1>5. ASSUME Delete(path)
      PROVE  Change(path, None) /\ file' = file /\ Tree([fs EXCEPT ![path] = None])
  <2>1. \A p \in Paths : Len(p) > 1 /\ Parent(p) = path => fs[p] = None
    BY <1>5 DEF Delete
  <2>2. Tree([fs EXCEPT ![path] = None])
    BY <1>0, <2>1, TreeStays
  <2> QED
    BY <1>5, <2>2 DEF Delete
<1>6. Dir \notin Node /\ None \notin Node
  BY Constants
<1>7. CASE \E size \in Sizes : Write(path, size)
  BY <1>1, <1>2, <1>7
<1>8. CASE \E size \in Sizes : Put(path, size)
  BY <1>1, <1>3, <1>8
<1>9. CASE MakeDir(path)
  BY <1>4, <1>6, <1>9
<1>10. CASE Delete(path)
  BY <1>5, <1>6, <1>10
<1> QED
  BY <1>7, <1>8, <1>9, <1>10 DEF Owner

LEMMA TypeInit == Init => TypeOK
<1> SUFFICES ASSUME Init PROVE TypeOK
  OBVIOUS
<1>1. PICK folder \in Folders :
        fs = [p \in Paths |-> IF folder[p] = "file" THEN Original
                              ELSE IF folder[p] = "dir" THEN Dir ELSE None]
  BY DEF Init
<1>2. Original \in Node /\ Original # None
  <2>1. Original \in Node
    BY DEF Original, Node
  <2> QED
    BY <2>1, Constants
<1>3. fs \in [Paths -> Node \cup {None, Dir}]
  BY <1>1, <1>2
<1>4. ASSUME NEW p \in Paths, Len(p) > 1, fs[p] # None PROVE fs[Parent(p)] = Dir
  <2>1. folder[p] # "none"
    BY <1>1, <1>4
  <2>2. folder[Front(p)] = "dir" /\ Front(p) \in Paths
    BY <1>4, <2>1, FilesAssumption
  <2> QED
    BY <1>1, <2>2 DEF Parent
<1>5. changes = 0 /\ now = 0 /\ pc = "idle" /\ req = None /\ file = NoFile /\ meta = None
      /\ copy = None /\ page = None
  BY DEF Init
<1>6. changes \in 0 .. MaxChanges /\ now \in 0 .. MaxTime
  BY <1>5, Constants
<1> QED
  BY <1>3, <1>4, <1>5, <1>6 DEF TypeOK

LEMMA RespondType ==
  ASSUME TypeOK, NEW answer, Respond(answer), UNCHANGED <<files, now>>, copy' \in Copy \cup {None}
  PROVE  TypeOK'
BY DEF TypeOK, Respond, files, Parent

LEMMA OpenedType ==
  ASSUME TypeOK, pc \in {"open", "open_html", "fallback"}, NEW path, NEW typed \in BOOLEAN,
         Found(fs, path) # None, Opened(path, typed), UNCHANGED <<files, now, copy>>
  PROVE  TypeOK'
<1>1. fs \in [Paths -> Node \cup {None, Dir}] /\ now \in Nat
  BY Constants DEF TypeOK
<1>2. path \in Paths /\ Found(fs, path) \in Node \cup {Dir}
  BY <1>1, FoundFacts
<1>3. Date(now) \in Nat
  BY <1>1, Dates
<1>4. file' \in OpenFile
  BY <1>2, <1>3 DEF Opened, OpenFile
<1> QED
  BY <1>4 DEF TypeOK, Opened, Goto, files, Parent

LEMMA SendType ==
  ASSUME TypeOK, pc = "metadata", file.at # Dir, NEW range \in Extent \cup {None},
         NEW upheld \in Copy \cup {None}, Send(range, upheld), UNCHANGED <<files, now, copy>>
  PROVE  TypeOK'
<1>1. file \in OpenFile
  BY DEF TypeOK
<1>2. file.at \in Node
  BY <1>1 DEF OpenFile
<1>3. meta' \in Meta
  BY <1>2 DEF Send, Meta
<1> QED
  BY <1>1, <1>3 DEF TypeOK, Send, Goto, files, Parent

\* A range the library returns is one of the file.
LEMMA RangeFacts ==
  ASSUME NEW size \in Nat, NEW ranges \in Ranges(size), NEW range \in ranges
  PROVE  range \in Extent /\ range.first <= range.last /\ range.last < size
BY DEF Ranges, Extent

LEMMA ChangeType ==
  ASSUME TypeOK, NEW path \in Paths, Owner(path)
  PROVE  TypeOK'
<1>1. PICK node \in Node \cup {None, Dir} :
        /\ Change(path, node)
        /\ \/ file' = file
           \/ node \in Node /\ file.path = path /\ file' = [file EXCEPT !.at = node]
        /\ Tree([fs EXCEPT ![path] = node])
  BY OwnerStep
<1>2. fs' \in [Paths -> Node \cup {None, Dir}] /\ Tree(fs')
  BY <1>1 DEF Change, TypeOK
<1>3. changes' \in 0 .. MaxChanges
  BY <1>1, Constants DEF Change, TypeOK
<1>4. page' \in Paths \cup {None}
  BY <1>1 DEF Change, TypeOK
<1>5. UNCHANGED <<now, pc, req, meta, copy>>
  BY <1>1 DEF Change
<1>6. IF pc \in {"metadata", "body"} THEN file' \in OpenFile ELSE file' = NoFile
  <2>1. CASE file' = file
    BY <2>1 DEF TypeOK
  <2>2. CASE node \in Node /\ file.path = path /\ file' = [file EXCEPT !.at = node]
    <3>1. file # NoFile
      BY <2>2, Constants DEF NoFile
    <3>2. file \in OpenFile /\ pc \in {"metadata", "body"}
      BY <3>1 DEF TypeOK
    <3>3. file' \in OpenFile
      BY <2>2, <3>2 DEF OpenFile
    <3> QED
      BY <3>2, <3>3
  <2> QED
    BY <1>1, <2>1, <2>2
<1>7. pc = "body" => file'.at # Dir
  <2>1. CASE file' = file
    BY <2>1 DEF TypeOK
  <2>2. CASE node \in Node /\ file.path = path /\ file' = [file EXCEPT !.at = node]
    <3>1. pc = "body" => file \in OpenFile
      BY DEF TypeOK
    <3> QED
      BY <2>2, <3>1, Constants DEF OpenFile
  <2> QED
    BY <1>1, <2>1, <2>2
<1> QED
  BY <1>2, <1>3, <1>4, <1>5, <1>6, <1>7 DEF TypeOK, Tree, Parent

LEMMA MetadataType ==
  ASSUME TypeOK, NEW conditions \in SUBSET {"modified", "unmodified"}, Metadata(conditions)
  PROVE  TypeOK'
<1> DEFINE verdict == CheckModified(conditions, Since(copy.date, file.at.time))
           upheld == IF "unmodified" \in conditions THEN copy ELSE None
<1>1. pc = "metadata" /\ file \in OpenFile /\ copy \in Copy \cup {None} /\ UNCHANGED <<files, now, copy>>
  BY DEF Metadata, TypeOK
<1>2. \/ \E answer : Respond(answer)
      \/ file.at # Dir /\ Send(None, upheld)
      \/ file.at # Dir /\ \E ranges \in Ranges(file.at.size) : \E range \in ranges : Send(range, upheld)
  BY DEF Metadata
<1>3. CASE \E answer : Respond(answer)
  BY <1>1, <1>3, RespondType
<1>4. CASE file.at # Dir /\ Send(None, upheld)
  BY <1>1, <1>4, SendType
<1>5. CASE file.at # Dir /\ \E ranges \in Ranges(file.at.size) : \E range \in ranges : Send(range, upheld)
  <2>0. PICK ranges \in Ranges(file.at.size) : \E range \in ranges : Send(range, upheld)
    BY <1>5
  <2>1. PICK range \in ranges : Send(range, upheld)
    BY <2>0
  <2>2. file.at.size \in Nat
    BY <1>1, <1>5 DEF OpenFile, Node
  <2>3. range \in Extent
    BY <2>2, RangeFacts
  <2>4. upheld \in Copy \cup {None}
    BY <1>1
  <2> QED
    BY <1>1, <1>5, <2>1, <2>3, <2>4, SendType
<1> QED
  BY <1>2, <1>3, <1>4, <1>5

LEMMA BodyType ==
  ASSUME TypeOK, Body
  PROVE  TypeOK'
<1>1. /\ file \in OpenFile /\ file.at # Dir /\ meta \in Meta /\ req \in Request
      /\ copy \in Copy \cup {None}
  BY DEF Body, TypeOK
<1>2. file.at \in Node /\ file.path \in Paths /\ file.opened \in Nat /\ meta.found \in Node
      /\ req.url \in Places
  BY <1>1 DEF OpenFile, Meta, Request
<1>3. file.at.version \in Nat /\ meta.found.time \in Nat
  BY <1>2 DEF Node
<1>4. Date(meta.found.time) \in Nat
  BY <1>3, Dates
<1>5. [url |-> req.url, path |-> file.path, version |-> file.at.version,
       date |-> Date(meta.found.time), opened |-> file.opened] \in Copy
  BY <1>2, <1>3, <1>4 DEF Copy
<1>6. copy' \in Copy \cup {None}
  BY <1>1, <1>5 DEF Body
<1>7. (\E answer : Respond(answer)) /\ UNCHANGED <<files, now>>
  BY DEF Body
<1> QED
  BY <1>6, <1>7, RespondType

LEMMA TypeStep ==
  ASSUME TypeOK, [Next]_vars
  PROVE  TypeOK'
<1>1. copy \in Copy \cup {None} /\ fs \in [Paths -> Node \cup {None, Dir}]
  BY DEF TypeOK
<1>2. CASE RefuseRequest
  <2>1. (\E answer : Respond(answer)) /\ UNCHANGED <<files, now, copy>>
    BY <1>2 DEF RefuseRequest
  <2> QED
    BY <1>1, <2>1, RespondType
<1>3. ASSUME NEW segments \in Moved, Redirect(segments) PROVE TypeOK'
  <2>1. (\E answer : Respond(answer)) /\ UNCHANGED <<files, now, copy>>
    BY <1>3 DEF Redirect
  <2> QED
    BY <1>1, <2>1, RespondType
<1>4. ASSUME NEW url \in Urls, Receive(url) PROVE TypeOK'
  <2>1. url \in Places \ {<<>>}
    BY UrlsArePlaces
  <2>2. req' \in Request
    BY <1>4, <2>1 DEF Receive, Request
  <2>3. page' \in Paths \cup {None}
    BY <1>1, <1>4, PageFacts DEF Receive
  <2> QED
    BY <1>4, <2>2, <2>3 DEF TypeOK, Receive, Goto, files, Parent
<1>5. CASE Resolve
  <2>1. req \in Request
    BY <1>5 DEF Resolve, TypeOK
  <2>2. req.path \o <<Index>> \in Places
    <3>1. req.path \in Seq(Names) /\ <<Index>> \in Seq(Names)
      BY <2>1, Constants DEF Request, Places
    <3> QED
      BY <3>1 DEF Places
  <2>3. req' \in Request
    BY <1>5, <2>1, <2>2 DEF Resolve, Request
  <2> QED
    BY <1>5, <2>3 DEF TypeOK, Resolve, Goto, files, Parent
<1>6. CASE Open
  <2>1. CASE Found(fs, req.path) # None /\ Opened(req.path, IsTyped(req.path))
    <3>1. IsTyped(req.path) \in BOOLEAN
      BY DEF IsTyped
    <3> QED
      BY <1>6, <2>1, <3>1, OpenedType DEF Open
  <2>2. CASE Respond(Plain("error"))
    BY <1>1, <1>6, <2>2, RespondType DEF Open
  <2>3. CASE Goto("open_html") /\ UNCHANGED <<req, file, meta, page>>
    BY <1>6, <2>3 DEF TypeOK, Open, Goto, files, Parent
  <2> QED
    BY <1>6, <2>1, <2>2, <2>3 DEF Open
<1>7. CASE OpenHtml
  <2>1. CASE Found(fs, Html(req.path)) # None /\ Opened(Html(req.path), TRUE)
    BY <1>7, <2>1, OpenedType DEF OpenHtml
  <2>2. CASE /\ page' \in {page, None}
             /\ Goto("fallback")
             /\ UNCHANGED <<req, file, meta>>
    BY <1>7, <2>2 DEF TypeOK, OpenHtml, Goto, files, Parent
  <2> QED
    BY <1>7, <2>1, <2>2 DEF OpenHtml
<1>8. CASE Fallback
  <2> DEFINE path == Base \o <<NotFound>>
  <2>1. CASE Found(fs, path) # None /\ Opened(path, IsTyped(path))
    <3>1. IsTyped(path) \in BOOLEAN
      BY DEF IsTyped
    <3> QED
      BY <1>8, <2>1, <3>1, OpenedType DEF Fallback
  <2>2. CASE Respond(Plain("not_found"))
    BY <1>1, <1>8, <2>2, RespondType DEF Fallback
  <2> QED
    BY <1>8, <2>1, <2>2 DEF Fallback
<1>9. CASE Fail
  <2>1. (\E answer : Respond(answer)) /\ UNCHANGED <<files, now, copy>>
    BY <1>9 DEF Fail
  <2> QED
    BY <1>1, <2>1, RespondType
<1>10. CASE Body
  BY <1>10, BodyType
<1>11. ASSUME NEW conditions \in SUBSET {"modified", "unmodified"}, Metadata(conditions) PROVE TypeOK'
  BY <1>11, MetadataType
<1>12. ASSUME NEW path \in Paths, Owner(path) PROVE TypeOK'
  BY <1>12, ChangeType
<1>13. CASE Tick
  <2>1. now' \in 0 .. MaxTime
    BY <1>13, Constants DEF Tick, TypeOK
  <2> QED
    BY <1>13, <2>1 DEF TypeOK, Tick, files, request, Parent
<1>14. CASE UNCHANGED vars
  BY <1>14 DEF TypeOK, vars, files, request, Parent
<1> QED
  BY <1>2, <1>3, <1>4, <1>5, <1>6, <1>7, <1>8, <1>9, <1>10, <1>11, <1>12, <1>13, <1>14 DEF Next, Handler

-----------------------------------------------------------------------------
(* Versions, dates and copies.  What they depend on changes in seven ways. *)

Quiet == ~Busy' /\ UNCHANGED <<files, now, copy>>

Looked(path) ==
  /\ ~Busy /\ pc' = "metadata"
  /\ Found(fs, path) # None
  /\ file'.at = Found(fs, path) /\ file'.path = path /\ file'.opened = Date(now)
  /\ UNCHANGED <<files, now, copy>>

Headed ==
  /\ pc = "metadata" /\ pc' = "body"
  /\ \E conditions \in SUBSET {"modified", "unmodified"} : Metadata(conditions)
  /\ UNCHANGED <<files, now, copy, file>>

LEMMA Kinds ==
  ASSUME [Next]_vars
  PROVE  \/ \E path \in Paths : Owner(path)
         \/ Tick \/ Quiet \/ Body \/ Headed
         \/ \E path : Looked(path)
         \/ UNCHANGED vars
<1>1. CASE RefuseRequest
  BY <1>1 DEF RefuseRequest, Respond, Quiet, Busy
<1>2. ASSUME NEW segments \in Moved, Redirect(segments) PROVE Quiet
  BY <1>2 DEF Redirect, Respond, Quiet, Busy
<1>3. ASSUME NEW url \in Urls, Receive(url) PROVE Quiet
  BY <1>3 DEF Receive, Goto, Quiet, Busy
<1>4. CASE Resolve
  BY <1>4 DEF Resolve, Goto, Quiet, Busy
<1>5. CASE Open
  <2>1. CASE Found(fs, req.path) # None /\ Opened(req.path, IsTyped(req.path))
    <3>1. Looked(req.path)
      BY <1>5, <2>1 DEF Open, Opened, Goto, Looked, Busy
    <3> QED
      BY <3>1
  <2>2. CASE Respond(Plain("error"))
    BY <1>5, <2>2 DEF Open, Respond, Quiet, Busy
  <2>3. CASE Goto("open_html")
    BY <1>5, <2>3 DEF Open, Goto, Quiet, Busy
  <2> QED
    BY <1>5, <2>1, <2>2, <2>3 DEF Open
<1>6. CASE OpenHtml
  <2>1. CASE Found(fs, Html(req.path)) # None /\ Opened(Html(req.path), TRUE)
    <3>1. Looked(Html(req.path))
      BY <1>6, <2>1 DEF OpenHtml, Opened, Goto, Looked, Busy
    <3> QED
      BY <3>1
  <2>2. CASE Goto("fallback")
    BY <1>6, <2>2 DEF OpenHtml, Goto, Quiet, Busy
  <2> QED
    BY <1>6, <2>1, <2>2 DEF OpenHtml
<1>7. CASE Fallback
  <2> DEFINE path == Base \o <<NotFound>>
  <2>1. CASE Found(fs, path) # None /\ Opened(path, IsTyped(path))
    <3>1. Looked(path)
      BY <1>7, <2>1 DEF Fallback, Opened, Goto, Looked, Busy
    <3> QED
      BY <3>1
  <2>2. CASE Respond(Plain("not_found"))
    BY <1>7, <2>2 DEF Fallback, Respond, Quiet, Busy
  <2> QED
    BY <1>7, <2>1, <2>2 DEF Fallback
<1>8. CASE Fail
  BY <1>8 DEF Fail, Respond, Quiet, Busy
<1>9. ASSUME NEW conditions \in SUBSET {"modified", "unmodified"}, Metadata(conditions)
      PROVE  Quiet \/ Headed
  <2>1. pc = "metadata" /\ UNCHANGED <<files, now, copy>>
    BY <1>9 DEF Metadata
  <2>2. (\E answer : Respond(answer)) \/ \E range, upheld : Send(range, upheld)
    BY <1>9 DEF Metadata
  <2> QED
    BY <1>9, <2>1, <2>2 DEF Respond, Send, Goto, Quiet, Headed, Busy
<1> QED
  BY <1>1, <1>2, <1>3, <1>4, <1>5, <1>6, <1>7, <1>8, <1>9 DEF Next, Handler

\* What is known of the state before a step.
LEMMA Types ==
  ASSUME TypeOK
  PROVE  /\ fs \in [Paths -> Node \cup {None, Dir}] /\ changes \in Nat /\ now \in Nat
         /\ copy \in Copy \cup {None}
         /\ copy # None => copy.path \in Paths /\ copy.version \in Nat /\ copy.date \in Nat
                           /\ copy.opened \in Nat
         /\ Busy => /\ file.at \in Node \cup {Dir} /\ file.path \in Paths /\ file.opened \in Nat
                    /\ req # None
         /\ ~Busy => file = NoFile
         /\ pc = "body" => meta.found \in Node /\ file.at \in Node
         /\ pc # "idle" => req \in Request /\ req # None
<1>1. copy # None => copy \in Copy
  BY DEF TypeOK
<1>2. Busy => file \in OpenFile /\ pc # "idle"
  BY DEF TypeOK, Busy
<1>3. pc = "body" => meta \in Meta /\ Busy /\ file.at # Dir
  BY DEF TypeOK, Busy
<1>4. pc # "idle" => req \in Request
  BY DEF TypeOK
<1> QED
  BY <1>1, <1>2, <1>3, <1>4, Constants DEF TypeOK, Copy, OpenFile, Meta, Busy

LEMMA NodeFields ==
  \A n \in Node : n.version \in Nat /\ n.size \in Nat /\ n.time \in Nat
BY DEF Node

\* What is new is numbered and dated by the counter and the clock.
LEMMA PastStep ==
  ASSUME TypeOK, PastInv, [Next]_vars
  PROVE  PastInv'
<1>1. CASE \E path \in Paths : Owner(path)
  <2>1. PICK path \in Paths : Owner(path)
    BY <1>1
  <2>2. PICK node \in Node \cup {None, Dir} :
          /\ Change(path, node)
          /\ node \in Node => node.version = changes + 1 /\ node.time = now
          /\ \/ file' = file
             \/ node \in Node /\ file.path = path /\ file' = [file EXCEPT !.at = node]
    BY <2>1, OwnerStep
  <2>3. /\ fs' = [fs EXCEPT ![path] = node] /\ fs' \in [Paths -> Node \cup {None, Dir}]
        /\ changes' = changes + 1 /\ UNCHANGED <<now, pc, copy>>
    BY <2>2, Types DEF Change
  <2>4. ASSUME NEW p \in Paths, IsFile(fs', p) PROVE fs'[p].version <= changes'
    <3>1. fs'[p] \in Node
      <4>1. Found(fs', p) \in Node
        BY <2>3, <2>4, FoundFacts
      <4>2. Found(fs', p) = fs'[p]
        BY <2>3, FoundFacts
      <4> QED
        BY <4>1, <4>2
    <3>2. CASE p = path
      BY <2>2, <2>3, <3>1, <3>2, Types
    <3>3. CASE p # path
      <4>1. fs'[p] = fs[p] /\ IsFile(fs, p)
        BY <2>3, <3>1, <3>3, Types, FoundFacts
      <4> QED
        BY <2>3, <3>1, <4>1, Types, NodeFields DEF PastInv
    <3> QED
      BY <3>2, <3>3
  <2>5. Busy => file'.opened = file.opened
    BY <2>2, Types DEF TypeOK, OpenFile, Busy
  <2>6. ASSUME Busy, file'.at # Dir PROVE file'.at.version <= changes'
    <3>1. CASE file' = file
      BY <2>3, <2>6, <3>1, Types, NodeFields DEF PastInv
    <3>2. CASE node \in Node /\ file' = [file EXCEPT !.at = node]
      <4>1. file'.at = node
        BY <2>6, <3>2 DEF TypeOK, OpenFile, Busy
      <4> QED
        BY <2>2, <2>3, <3>2, <4>1, NodeFields
    <3> QED
      BY <2>2, <3>1, <3>2
  <2> QED
    BY <2>3, <2>4, <2>5, <2>6 DEF PastInv, Busy
<1>2. CASE Tick
  <2>1. now' = now + 1 /\ UNCHANGED <<fs, changes, pc, file, copy>>
    BY <1>2 DEF Tick, files, request
  <2>2. Date(now) <= Date(now') /\ Date(now) \in Nat /\ Date(now') \in Nat
    BY <2>1, Types, Dates
  <2> QED
    BY <2>1, <2>2, Types DEF PastInv, Busy, IsFile, Found
<1>3. CASE Quiet
  BY <1>3 DEF Quiet, PastInv, IsFile, Found, files
<1>4. CASE Body
  <2>1. /\ pc = "body" /\ pc' = "idle" /\ UNCHANGED <<fs, changes, now>>
        /\ copy' = copy \/ copy'.opened = file.opened
    BY <1>4 DEF Body, Respond, files
  <2> QED
    BY <2>1 DEF PastInv, Busy, IsFile, Found
<1>5. CASE Headed
  BY <1>5 DEF Headed, PastInv, Busy, IsFile, Found, files
<1>6. CASE \E path : Looked(path)
  <2>1. PICK path : Looked(path)
    BY <1>6
  <2>2. path \in Paths /\ file'.at = fs[path] /\ file'.opened = Date(now)
    BY <2>1, Types, FoundFacts DEF Looked
  <2>3. file'.at # Dir => IsFile(fs, path)
    BY <2>1, <2>2, Types, FoundFacts DEF Looked
  <2>4. Date(now) <= Date(now)
    BY Types, Dates
  <2> QED
    BY <2>1, <2>2, <2>3, <2>4 DEF Looked, PastInv, IsFile, Found, files
<1>7. CASE UNCHANGED vars
  BY <1>7 DEF vars, files, request, PastInv, Busy, IsFile, Found
<1> QED
  BY <1>1, <1>2, <1>3, <1>4, <1>5, <1>6, <1>7, Kinds

\* A file put in the place of an open one is dated now, which is no earlier than it was
\* opened; one written in place stays the open one.
LEMMA OpenStep ==
  ASSUME TypeOK, PastInv, OpenInv, [Next]_vars
  PROVE  OpenInv'
<1>1. CASE \E path \in Paths : Owner(path)
  <2>1. PICK path \in Paths : Owner(path)
    BY <1>1
  <2>2. PICK node \in Node \cup {None, Dir} :
          /\ Change(path, node)
          /\ node \in Node => node.version = changes + 1 /\ node.time = now
          /\ \/ file' = file
             \/ node \in Node /\ file.path = path /\ file' = [file EXCEPT !.at = node]
    BY <2>1, OwnerStep
  <2>3. /\ fs' = [fs EXCEPT ![path] = node] /\ fs' \in [Paths -> Node \cup {None, Dir}]
        /\ UNCHANGED <<now, pc>>
    BY <2>2, Types DEF Change
  <2> SUFFICES ASSUME Busy, IsFile(fs', file'.path)
               PROVE  fs'[file'.path] = file'.at \/ Date(fs'[file'.path].time) >= file'.opened
    BY <2>3 DEF OpenInv, Busy
  <2>4. file'.path = file.path /\ file'.opened = file.opened /\ file.path \in Paths
        /\ (file' = file \/ file'.at = node)
    BY <2>2, Types DEF TypeOK, OpenFile, Busy
  <2>5. fs'[file.path] \in Node
    <3>1. IsFile(fs', file.path)
      BY <2>4
    <3>2. Found(fs', file.path) \in Node
      BY <2>3, <3>1, FoundFacts
    <3>3. Found(fs', file.path) = fs'[file.path]
      BY <2>3, <2>4, FoundFacts
    <3> QED
      BY <3>2, <3>3
  <2>6. CASE file.path = path
    <3>1. fs'[file.path] = node /\ node \in Node
      BY <2>3, <2>4, <2>5, <2>6, Types
    <3>2. Date(now) >= file.opened
      BY Types, Dates DEF PastInv
    <3> QED
      BY <2>2, <2>4, <3>1, <3>2
  <2>7. CASE file.path # path
    <3>1. fs'[file.path] = fs[file.path] /\ file' = file
      BY <2>2, <2>3, <2>4, <2>7, Types
    <3>2. IsFile(fs, file.path)
      BY <2>4, <2>5, <3>1, Types, FoundFacts
    <3> QED
      BY <3>1, <3>2 DEF OpenInv
  <2> QED
    BY <2>6, <2>7
<1>2. CASE Tick
  BY <1>2 DEF Tick, files, request, OpenInv, Busy, IsFile, Found
<1>3. CASE Quiet
  BY <1>3 DEF Quiet, OpenInv
<1>4. CASE Body
  BY <1>4 DEF Body, Respond, OpenInv, Busy
<1>5. CASE Headed
  BY <1>5 DEF Headed, OpenInv, Busy, IsFile, Found, files
<1>6. CASE \E path : Looked(path)
  <2>1. PICK path : Looked(path)
    BY <1>6
  <2>2. path \in Paths /\ file'.at = fs[path] /\ file'.path = path /\ fs' = fs
    BY <2>1, Types, FoundFacts DEF Looked, files
  <2> QED
    BY <2>2 DEF OpenInv
<1>7. CASE UNCHANGED vars
  BY <1>7 DEF vars, files, request, OpenInv, Busy, IsFile, Found
<1> QED
  BY <1>1, <1>2, <1>3, <1>4, <1>5, <1>6, <1>7, Kinds

\* What is written now is dated later than a copy that was opened in a later second than
\* it is of; a new copy is of the file in its place, by OpenInv.
LEMMA CopyStep ==
  ASSUME TypeOK, PastInv, OpenInv, CopyInv, [Next]_vars
  PROVE  CopyInv'
<1> SUFFICES ASSUME copy' # None, copy'.opened > copy'.date, NEW n \in Node,
                    n = Found(fs', copy'.path) \/ (Busy' /\ file'.path = copy'.path /\ n = file'.at),
                    Date(n.time) <= copy'.date
             PROVE  n.version = copy'.version
  BY DEF CopyInv
<1>0. CASE /\ copy' = copy
           /\ n = Found(fs, copy.path) \/ (Busy /\ file.path = copy.path /\ n = file.at)
  BY <1>0 DEF CopyInv
<1>1. CASE \E path \in Paths : Owner(path)
  <2>1. PICK path \in Paths : Owner(path)
    BY <1>1
  <2>2. PICK node \in Node \cup {None, Dir} :
          /\ Change(path, node)
          /\ node \in Node => node.version = changes + 1 /\ node.time = now
          /\ \/ file' = file
             \/ node \in Node /\ file.path = path /\ file' = [file EXCEPT !.at = node]
    BY <2>1, OwnerStep
  <2>3. /\ fs' = [fs EXCEPT ![path] = node] /\ fs' \in [Paths -> Node \cup {None, Dir}]
        /\ UNCHANGED <<now, pc, copy>>
    BY <2>2, Types DEF Change
  <2>4. n # node
    <3>1. SUFFICES ASSUME n = node PROVE FALSE
      OBVIOUS
    <3>2. n.time = now
      BY <2>2, <3>1
    <3>3. copy.opened <= Date(now)
      BY <2>3 DEF PastInv
    <3>4. Date(now) \in Nat /\ copy.opened \in Nat /\ copy.date \in Nat
      BY <2>3, Types, Dates
    <3> QED
      BY <2>3, <3>2, <3>3, <3>4
  <2>5. copy.path \in Paths
    BY <2>3, Types
  <2>6. CASE n = Found(fs', copy.path)
    <3>1. n = fs'[copy.path]
      BY <2>3, <2>5, <2>6, FoundFacts
    <3>2. n = fs[copy.path]
      BY <2>3, <2>4, <2>5, <3>1, Types
    <3>3. n = Found(fs, copy.path)
      BY <2>5, <3>2, Types, FoundFacts
    <3> QED
      BY <1>0, <2>3, <3>3
  <2>7. CASE Busy' /\ file'.path = copy.path /\ n = file'.at
    <3>1. Busy
      BY <2>3, <2>7 DEF Busy
    <3>2. file' = file \/ file'.at = node
      BY <2>2, <3>1 DEF TypeOK, OpenFile, Busy
    <3> QED
      BY <1>0, <2>3, <2>4, <2>7, <3>1, <3>2
  <2> QED
    BY <2>3, <2>6, <2>7
<1>2. CASE Tick
  BY <1>0, <1>2 DEF Tick, files, request, Busy, Found
<1>3. CASE Quiet
  BY <1>0, <1>3 DEF Quiet, files, Found
<1>4. CASE Body
  <2>1. pc = "body" /\ Busy /\ ~Busy' /\ fs' = fs
    BY <1>4 DEF Body, Respond, Busy, files
  <2>2. n = Found(fs, copy'.path)
    BY <2>1 DEF Found
  <2>3. CASE copy' = copy
    BY <1>0, <2>2, <2>3
  <2>4. CASE copy' = [url |-> req.url, path |-> file.path, version |-> file.at.version,
                      date |-> Date(meta.found.time), opened |-> file.opened]
    <3>1. IsFile(fs, file.path) /\ file.path \in Paths /\ n = fs[file.path]
      BY <2>1, <2>2, <2>4, Types, FoundFacts
    <3>2. n = file.at \/ Date(n.time) >= file.opened
      BY <2>1, <3>1 DEF OpenInv
    <3>3. Date(n.time) \in Nat /\ file.opened \in Nat /\ Date(meta.found.time) \in Nat
      BY <2>1, Types, NodeFields, Dates
    <3>4. n = file.at
      BY <2>4, <3>2, <3>3
    <3> QED
      BY <2>4, <3>4
  <2> QED
    BY <1>4, <2>3, <2>4 DEF Body
<1>5. CASE Headed
  BY <1>0, <1>5 DEF Headed, Busy, Found, files
<1>6. CASE \E path : Looked(path)
  BY <1>0, <1>6 DEF Looked, files, Found
<1>7. CASE UNCHANGED vars
  BY <1>0, <1>7 DEF vars, files, request, Busy, Found
<1> QED
  BY <1>1, <1>2, <1>3, <1>4, <1>5, <1>6, <1>7, Kinds

\* Whoever shows the date of a copy and is told that it will do has the version that
\* is open.
LEMMA CopyHolds ==
  ASSUME TypeOK, CopyInv, pc = "metadata", file.at # Dir, copy # None,
         Since(copy.date, file.at.time), copy.opened > copy.date, copy.path = file.path
  PROVE  copy.version = file.at.version
<1>1. Busy /\ file.at \in Node
  BY Types DEF Busy
<1>2. Date(file.at.time) <= copy.date
  BY <1>1, Types, NodeFields, Dates DEF Since
<1> QED
  BY <1>1, <1>2 DEF CopyInv

\* What the head promises holds when it is made.
LEMMA SendHead ==
  ASSUME TypeOK, PastInv, CopyInv, pc = "metadata", file.at # Dir,
         NEW range, range # None => range.first <= range.last /\ range.last < file.at.size,
         NEW upheld, upheld # None => upheld = copy /\ Since(copy.date, file.at.time),
         Send(range, upheld), UNCHANGED files
  PROVE  HeadInv'
<1>1. Busy /\ file.at.version <= changes
  BY DEF Busy, PastInv
<1>2. /\ file' = file /\ changes' = changes
      /\ meta'.found = file.at /\ meta'.range = range /\ meta'.upheld = upheld
  BY DEF Send, files
<1> QED
  BY <1>1, <1>2, CopyHolds DEF HeadInv

\* It goes on holding: a write gives the file a version that is not the head's.
LEMMA HeadStep ==
  ASSUME TypeOK, PastInv, CopyInv, HeadInv, [Next]_vars
  PROVE  HeadInv'
<1>1. CASE \E path \in Paths : Owner(path)
  <2>1. PICK path \in Paths : Owner(path)
    BY <1>1
  <2>2. PICK node \in Node \cup {None, Dir} :
          /\ Change(path, node)
          /\ node \in Node => node.version = changes + 1 /\ node.time = now
          /\ \/ file' = file
             \/ node \in Node /\ file.path = path /\ file' = [file EXCEPT !.at = node]
    BY <2>1, OwnerStep
  <2>3. changes' = changes + 1 /\ UNCHANGED <<pc, meta>> /\ changes \in Nat
    BY <2>2, Types DEF Change
  <2> SUFFICES ASSUME pc = "body" PROVE HeadInv'
    BY <2>3 DEF HeadInv
  <2>4. meta.found.version <= changes /\ meta.found.version \in Nat
    BY Types, NodeFields DEF HeadInv
  <2>5. CASE file' = file
    BY <2>3, <2>4, <2>5 DEF HeadInv
  <2>6. CASE node \in Node /\ file' = [file EXCEPT !.at = node]
    <3>1. file'.at = node /\ file'.path = file.path
      BY <2>6 DEF TypeOK, OpenFile
    <3>2. file'.at.version # meta.found.version
      BY <2>2, <2>3, <2>4, <2>6, <3>1
    <3> QED
      BY <2>3, <2>4, <3>1, <3>2 DEF HeadInv
  <2> QED
    BY <2>2, <2>5, <2>6
<1>2. CASE Tick
  BY <1>2 DEF Tick, files, request, HeadInv
<1>3. CASE Quiet
  BY <1>3 DEF Quiet, Busy, HeadInv
<1>4. CASE Body
  BY <1>4 DEF Body, Respond, HeadInv
<1>5. CASE Headed
  <2>1. PICK conditions \in SUBSET {"modified", "unmodified"} : Metadata(conditions)
    BY <1>5 DEF Headed
  <2> DEFINE upheld == IF "unmodified" \in conditions THEN copy ELSE None
  <2>2. UNCHANGED files /\ pc = "metadata" /\ pc' = "body"
    BY <1>5 DEF Headed
  <2>3. ~\E answer : Respond(answer)
    BY <2>2 DEF Respond
  <2>4. /\ file.at # Dir
        /\ CheckModified(conditions, Since(copy.date, file.at.time)) = "none"
        /\ \/ Send(None, upheld)
           \/ \E ranges \in Ranges(file.at.size) : \E range \in ranges : Send(range, upheld)
    BY <2>1, <2>3 DEF Metadata
  <2>5. "unmodified" \in conditions => Since(copy.date, file.at.time)
    BY <2>4 DEF CheckModified
  <2>6. upheld # None => upheld = copy /\ Since(copy.date, file.at.time)
    BY <2>5
  <2> HIDE DEF upheld
  <2>7. CASE Send(None, upheld)
    BY <2>2, <2>4, <2>6, <2>7, SendHead
  <2>8. CASE \E ranges \in Ranges(file.at.size) : \E range \in ranges : Send(range, upheld)
    <3>1. PICK ranges \in Ranges(file.at.size) : \E range \in ranges : Send(range, upheld)
      BY <2>8
    <3>2. PICK range \in ranges : Send(range, upheld)
      BY <3>1
    <3>3. file.at.size \in Nat
      BY <2>2, <2>4, Types, NodeFields DEF Busy
    <3>4. range.first <= range.last /\ range.last < file.at.size
      BY <3>3, RangeFacts
    <3> QED
      BY <2>2, <2>4, <2>6, <3>2, <3>4, SendHead
  <2> QED
    BY <2>4, <2>7, <2>8
<1>6. CASE \E path : Looked(path)
  BY <1>6 DEF Looked, HeadInv
<1>7. CASE UNCHANGED vars
  BY <1>7 DEF vars, files, request, HeadInv
<1> QED
  BY <1>1, <1>2, <1>3, <1>4, <1>5, <1>6, <1>7, Kinds

-----------------------------------------------------------------------------
(* Answers.                                                                *)

LEMMA PlainAnswer ==
  ASSUME NEW status, status \notin {"sent", "not_modified", "moved"}, response' = Plain(status)
  PROVE  AnswerInv'
BY DEF AnswerInv, CopyIsCurrent, SentAsAnnounced, OneRedirect, Served, Plain

LEMMA RedirectAnswer ==
  ASSUME NEW segments \in Moved, Redirect(segments)
  PROVE  AnswerInv'
<1>1. response' = [status |-> "moved", from |-> segments, location |-> NewPath(segments)]
  BY DEF Redirect, Respond
<1>2. segments \in Seq(Segments)
  BY FilesAssumption DEF Moved
<1>3. /\ Valid(NewPath(segments)) = Valid(segments)
      /\ Valid(segments) => Components(NewPath(segments)) = Components(segments)
      /\ ~Redirected(NewPath(segments))
  BY <1>2, TrimKeeps DEF NewPath
<1>4. OneRedirect'
  BY <1>1, <1>3 DEF OneRedirect
<1>5. CopyIsCurrent' /\ SentAsAnnounced'
  BY <1>1 DEF CopyIsCurrent, SentAsAnnounced, Served
<1> QED
  BY <1>4, <1>5 DEF AnswerInv

LEMMA MetadataAnswer ==
  ASSUME TypeOK, CopyInv, NEW conditions \in SUBSET {"modified", "unmodified"}, Metadata(conditions)
  PROVE  AnswerInv'
<1>1. CASE \E status : Respond(Plain(status)) /\ status \notin {"sent", "not_modified", "moved"}
  BY <1>1, PlainAnswer DEF Respond
<1>2. CASE \E range, upheld : Send(range, upheld)
  BY <1>2, PlainAnswer DEF Send, Goto, NoAnswer
<1>3. CASE /\ file.at # Dir
           /\ CheckModified(conditions, Since(copy.date, file.at.time)) = "not_modified"
           /\ Respond([status |-> "not_modified", path |-> file.path,
                       seen |-> file.at.version, upheld |-> copy])
  <2>1. response' = [status |-> "not_modified", path |-> file.path,
                     seen |-> file.at.version, upheld |-> copy]
    BY <1>3 DEF Respond
  <2>2. pc = "metadata" /\ Since(copy.date, file.at.time)
    BY <1>3 DEF Metadata, CheckModified
  <2>3. CopyIsCurrent'
    BY <1>3, <2>1, <2>2, CopyHolds DEF CopyIsCurrent
  <2>4. SentAsAnnounced' /\ OneRedirect'
    BY <2>1 DEF SentAsAnnounced, OneRedirect
  <2> QED
    BY <2>3, <2>4 DEF AnswerInv
<1> QED
  BY <1>1, <1>2, <1>3 DEF Metadata

LEMMA BodyAnswer ==
  ASSUME TypeOK, HeadInv, Body
  PROVE  AnswerInv'
<1>1. response' = [status |-> "sent", path |-> file.path,
                   seen |-> meta.found.version, upheld |-> meta.upheld,
                   range |-> meta.range, announced |-> Announced, sent |-> Sent(file.at.size),
                   changed |-> file.at.version # meta.found.version]
  BY DEF Body, Respond
<1>2. pc = "body"
  BY DEF Body
<1>3. CopyIsCurrent'
  BY <1>1, <1>2 DEF HeadInv, CopyIsCurrent
<1>4. file.at.size \in Nat /\ meta.found.size \in Nat
  BY <1>2, Types, NodeFields
<1>5. file.at.version = meta.found.version => file.at.size = meta.found.size
  BY <1>2 DEF HeadInv
<1>6. ASSUME meta.range = None PROVE SentAsAnnounced'
  BY <1>1, <1>5, <1>6 DEF SentAsAnnounced, Announced, Sent
<1>7. ASSUME meta.range # None PROVE SentAsAnnounced'
  <2>1. meta.range.first \in Nat /\ meta.range.last \in Nat
    BY <1>2, <1>7 DEF TypeOK, Meta, Extent
  <2>2. meta.range.first <= meta.range.last /\ meta.range.last < meta.found.size
    BY <1>2, <1>7 DEF HeadInv
  <2> DEFINE size == file.at.size
             first == meta.range.first
             last == meta.range.last
  <2>3. Sent(size) = Max({0, Min({size, last + 1}) - first}) /\ Announced = last - first + 1
    BY <1>7 DEF Sent, Announced
  <2>4. Min({size, last + 1}) = IF size <= last + 1 THEN size ELSE last + 1
    BY <1>4, <2>1 DEF Min
  <2>5. Sent(size) = IF size <= first THEN 0 ELSE IF size <= last + 1 THEN size - first ELSE last - first + 1
    BY <1>4, <2>1, <2>2, <2>3, <2>4 DEF Max
  <2>6. Sent(size) <= Announced /\ (size = meta.found.size => Sent(size) = Announced)
    BY <1>4, <2>1, <2>2, <2>3, <2>5
  <2> QED
    BY <1>1, <1>5, <2>6 DEF SentAsAnnounced
<1>8. SentAsAnnounced'
  BY <1>6, <1>7
<1>9. OneRedirect'
  BY <1>1 DEF OneRedirect
<1> QED
  BY <1>3, <1>8, <1>9 DEF AnswerInv

LEMMA AnswerStep ==
  ASSUME TypeOK, CopyInv, HeadInv, AnswerInv, [Next]_vars
  PROVE  AnswerInv'
<1> DEFINE Dull == \E status : response' = Plain(status) /\ status \notin {"sent", "not_modified", "moved"}
<1>0. CASE Dull
  BY <1>0, PlainAnswer
<1>1. CASE RefuseRequest
  BY <1>0, <1>1 DEF RefuseRequest, Respond
<1>2. ASSUME NEW segments \in Moved, Redirect(segments) PROVE AnswerInv'
  BY <1>2, RedirectAnswer
<1>3. ASSUME NEW url \in Urls, Receive(url) PROVE Dull
  BY <1>3 DEF Receive, Goto, NoAnswer
<1>4. CASE Resolve
  BY <1>0, <1>4 DEF Resolve, Goto, NoAnswer
<1>5. CASE Open
  BY <1>0, <1>5 DEF Open, Opened, Respond, Goto, NoAnswer
<1>6. CASE OpenHtml
  BY <1>0, <1>6 DEF OpenHtml, Opened, Goto, NoAnswer
<1>7. CASE Fallback
  BY <1>0, <1>7 DEF Fallback, Opened, Respond, Goto, NoAnswer
<1>8. CASE Fail
  BY <1>0, <1>8 DEF Fail, Respond
<1>9. CASE Body
  BY <1>9, BodyAnswer
<1>10. ASSUME NEW conditions \in SUBSET {"modified", "unmodified"}, Metadata(conditions) PROVE AnswerInv'
  BY <1>10, MetadataAnswer
<1>11. ASSUME NEW path \in Paths, Owner(path) PROVE Dull
  BY <1>11 DEF Owner, Write, Put, MakeDir, Delete, Change, NoAnswer
<1>12. CASE Tick
  BY <1>0, <1>12 DEF Tick, NoAnswer
<1>13. CASE UNCHANGED vars
  BY <1>13 DEF vars, AnswerInv, CopyIsCurrent, SentAsAnnounced, OneRedirect
<1> QED
  BY <1>0, <1>1, <1>2, <1>3, <1>4, <1>5, <1>6, <1>7, <1>8, <1>9, <1>10, <1>11, <1>12, <1>13 DEF Next, Handler

-----------------------------------------------------------------------------
(* The page a request looks for.                                           *)

\* Whether a url is that of a folder can be told from the page it stands for.
LEMMA PageTells ==
  ASSUME NEW f, NEW g, NEW url \in Places,
         Page(f, url) # None, Page(g, url) = Page(f, url)
  PROVE  IsDir(f, url) <=> IsDir(g, url)
<1> DEFINE n == Len(url)
<1>1. n \in Nat /\ DOMAIN url = 1 .. n /\ n + 1 \notin DOMAIN url
  BY DEF Places
<1>2. n + 1 \in DOMAIN (url \o <<Index>>)
  BY <1>1 DEF Places
<1>3. DOMAIN Html(url) = DOMAIN url
  BY DEF Html
<1>4. ASSUME NEW h, Page(h, url) # None
      PROVE  IsDir(h, url) <=> n + 1 \in DOMAIN Page(h, url)
  BY <1>1, <1>2, <1>3, <1>4 DEF Page
<1> QED
  BY <1>4

\* The page is what is opened, whatever the path it was looked for under.
LEMMA PageOpened ==
  ASSUME TypeOK, NEW path, NEW typed, Opened(path, typed), UNCHANGED fs,
         page # None => page = Page(fs, req.url) /\ path = page
  PROVE  PageInv'
<1> SUFFICES ASSUME page' # None
             PROVE  page = Page(fs, req.url) /\ file'.path = page /\ file'.at # Dir
  BY DEF PageInv, Busy, Opened, Goto
<1>1. page # None /\ page = Page(fs, req.url) /\ path = page
  BY DEF Opened
<1>2. Found(fs, page) # Dir
  BY <1>1, PageFacts, Types DEF IsFile
<1> QED
  BY <1>1, <1>2 DEF Opened

\* A step towards the page leads to it, and a change that does not remove the page leaves
\* it in sight.
LEMMA PageStep ==
  ASSUME TypeOK, PageInv, [Next]_vars
  PROVE  PageInv'
<1>0. CASE page' = None
  BY <1>0 DEF PageInv
<1>1. ASSUME page # None
      PROVE  /\ page = Page(fs, req.url) /\ IsFile(fs, page) /\ page \in Paths
             /\ req \in Request /\ req.url \in Places \ {<<>>}
  <2>1. page = Page(fs, req.url) /\ pc # "idle"
    BY <1>1 DEF PageInv
  <2>2. IsFile(fs, page) /\ page \in Paths
    BY <1>1, <2>1, PageFacts, Types
  <2> QED
    BY <2>1, <2>2, Types DEF Request
<1>2. CASE RefuseRequest
  BY <1>0, <1>2 DEF RefuseRequest, Respond
<1>3. ASSUME NEW segments \in Moved, Redirect(segments) PROVE PageInv'
  BY <1>0, <1>3 DEF Redirect, Respond
<1>4. ASSUME NEW url \in Urls, Receive(url) PROVE PageInv'
  BY <1>4 DEF Receive, Goto, PageInv, Busy, files
<1>5. CASE Resolve
  <2>1. page # None => req.path = req.url
    BY <1>5 DEF Resolve, PageInv
  <2> SUFFICES ASSUME page' # None PROVE PageInv'
    BY <1>0
  <2>2. /\ req' = IF IsDir(fs, req.path) THEN [req EXCEPT !.path = @ \o <<Index>>] ELSE req
        /\ pc' = "open" /\ UNCHANGED <<fs, page>>
    BY <1>5 DEF Resolve, Goto, files
  <2>3. page # None => /\ req'.url = req.url
                       /\ req'.path = IF IsDir(fs, req.url) THEN req.url \o <<Index>> ELSE req.url
    BY <1>1, <2>1, <2>2 DEF Request
  <2>4. page # None => page = Page(fs', req'.url) /\ IsDir(fs', req'.url) = IsDir(fs, req.url)
    BY <1>1, <2>2, <2>3
  <2> QED
    BY <2>2, <2>3, <2>4 DEF PageInv, Busy
<1>6. CASE Open
  <2>1. pc = "open" /\ UNCHANGED fs
    BY <1>6 DEF Open, files
  <2>2. page # None => req.path = IF IsDir(fs, req.url) THEN req.url \o <<Index>> ELSE req.url
    BY <2>1 DEF PageInv
  <2>3. page # None => page = req.path \/ (/\ Found(fs, req.path) = None
                                          /\ ~BehindFile(fs, req.path)
                                          /\ page = Html(req.path))
    BY <1>1, <2>2 DEF Page
  <2>4. CASE Found(fs, req.path) # None /\ Opened(req.path, IsTyped(req.path))
    BY <1>1, <2>1, <2>3, <2>4, PageOpened
  <2>5. CASE Respond(Plain("error"))
    BY <1>0, <2>5 DEF Respond
  <2>6. CASE Found(fs, req.path) = None /\ Goto("open_html") /\ UNCHANGED <<req, file, meta, page>>
    <3>1. page # None => page = Html(req.path)
      BY <1>1, <2>3, <2>6 DEF IsFile
    <3> QED
      BY <1>1, <2>1, <2>6, <3>1 DEF Goto, PageInv, Busy
  <2> QED
    BY <1>6, <2>4, <2>5, <2>6 DEF Open
<1>7. CASE OpenHtml
  <2>1. UNCHANGED fs /\ (page # None => page = Html(req.path))
    BY <1>7 DEF OpenHtml, PageInv, files
  <2>2. CASE Opened(Html(req.path), TRUE)
    BY <1>1, <2>1, <2>2, PageOpened
  <2>3. CASE page' = IF Found(fs, Html(req.path)) = None THEN page ELSE None
    <3>1. page' = None
      BY <1>1, <2>1, <2>3 DEF IsFile
    <3> QED
      BY <1>0, <3>1
  <2> QED
    BY <1>7, <2>2, <2>3 DEF OpenHtml
<1>8. CASE Fallback
  <2>1. page = None
    BY <1>8 DEF Fallback, PageInv
  <2> QED
    BY <1>0, <1>8, <2>1 DEF Fallback, Opened, Respond
<1>9. CASE Fail
  BY <1>0, <1>9 DEF Fail, Respond
<1>10. CASE Body
  BY <1>0, <1>10 DEF Body, Respond
<1>11. ASSUME NEW conditions \in SUBSET {"modified", "unmodified"}, Metadata(conditions) PROVE PageInv'
  <2>1. pc = "metadata" /\ UNCHANGED fs
    BY <1>11 DEF Metadata, files
  <2>2. CASE \E answer : Respond(answer)
    BY <1>0, <2>2 DEF Respond
  <2>3. CASE \E range, upheld : Send(range, upheld)
    BY <2>1, <2>3 DEF Send, Goto, PageInv, Busy
  <2> QED
    BY <1>11, <2>2, <2>3 DEF Metadata
<1>12. ASSUME NEW path \in Paths, Owner(path) PROVE PageInv'
  <2>1. PICK node \in Node \cup {None, Dir} :
          /\ Change(path, node)
          /\ \/ file' = file
             \/ node \in Node /\ file.path = path /\ file' = [file EXCEPT !.at = node]
    BY <1>12, OwnerStep
  <2>2. /\ page' = IF req # None /\ Page(fs', req.url) # page THEN None ELSE page
        /\ UNCHANGED <<pc, req>>
    BY <2>1 DEF Change
  <2> SUFFICES ASSUME page' # None PROVE PageInv'
    BY DEF PageInv
  <2>3. page' = page /\ page # None
    BY <2>2
  <2>4. req # None /\ Page(fs', req.url) = page
    BY <1>1, <2>2, <2>3, Constants
  <2>5. IsDir(fs', req.url) <=> IsDir(fs, req.url)
    BY <1>1, <2>3, <2>4, PageTells
  <2>6. Busy => file'.path = file.path /\ (file.at # Dir => file'.at # Dir)
    BY <2>1, Constants DEF TypeOK, OpenFile, Busy
  <2> QED
    BY <2>2, <2>3, <2>4, <2>5, <2>6 DEF PageInv, Busy
<1>13. CASE Tick
  BY <1>13 DEF Tick, files, request, PageInv, Busy
<1>14. CASE UNCHANGED vars
  BY <1>14 DEF vars, files, request, PageInv, Busy
<1> QED
  BY <1>2, <1>3, <1>4, <1>5, <1>6, <1>7, <1>8, <1>9, <1>10, <1>11, <1>12, <1>13, <1>14
  DEF Next, Handler

-----------------------------------------------------------------------------
(* The theorems.                                                           *)

LEMMA IInvInit == Init => IInv
<1> SUFFICES ASSUME Init PROVE IInv
  OBVIOUS
<1>1. TypeOK
  BY TypeInit
<1>2. /\ changes = 0 /\ pc = "idle" /\ response = NoAnswer /\ copy = None /\ page = None
  BY DEF Init
<1>3. PastInv
  <2>1. ASSUME NEW p \in Paths, IsFile(fs, p) PROVE fs[p].version <= changes
    <3>1. fs[p] # Dir /\ fs[p] # None
      BY <2>1 DEF IsFile, Found
    <3>2. fs[p] = Original
      BY <3>1 DEF Init
    <3> QED
      BY <1>2, <3>2 DEF Original
  <2> QED
    BY <1>2, <2>1 DEF PastInv, Busy
<1>4. PageInv /\ OpenInv /\ CopyInv /\ HeadInv
  BY <1>2 DEF PageInv, OpenInv, CopyInv, HeadInv, Busy
<1>5. AnswerInv
  BY <1>2 DEF NoAnswer, Plain, AnswerInv, CopyIsCurrent, SentAsAnnounced, OneRedirect, Served
<1> QED
  BY <1>1, <1>3, <1>4, <1>5 DEF IInv

LEMMA IInvStep == IInv /\ [Next]_vars => IInv'
BY TypeStep, PastStep, PageStep, OpenStep, CopyStep, HeadStep, AnswerStep DEF IInv

\* Each part of the invariant holds whatever is asked for and whatever the owner does
\* to the files between two steps of the handler (files.rs:41-231).
THEOREM InductiveInvariant == Spec => []IInv
BY IInvInit, IInvStep, PTL DEF Spec

\* The files stay a tree, and the handler has a request, an open file and metadata
\* exactly when its step has need of them; the file was opened where the request
\* looked (files.rs:90-116).
THEOREM TypeCorrect == Spec => []TypeOK
<1>1. IInv => TypeOK
  BY DEF IInv
<1> QED
  BY <1>1, InductiveInvariant, PTL

\* A page that is there from the moment a request is received is what the request
\* opens, whatever else changes between the steps that look for it (files.rs:90, 96, 99),
\* unless the file system refuses it to the request (files.rs:164, 324).
THEOREM PresentPageIsServed == Spec => []PresentIsServed
<1>1. IInv => PresentIsServed
  <2> SUFFICES ASSUME IInv, page # None
               PROVE  pc # "fallback" /\ (file # NoFile => file.path = page /\ file.at # Dir)
    BY DEF PresentIsServed
  <2>1. TypeOK /\ PageInv
    BY DEF IInv
  <2>2. file # NoFile => Busy
    BY <2>1, Types
  <2> QED
    BY <2>1, <2>2 DEF PageInv
<1> QED
  BY <1>1, InductiveInvariant, PTL

\* A client that is told to keep its copy, or sent the rest of it, has the version that
\* is there, unless the file was written in the second it was opened in or while it was
\* open, or the request now leads to another path (files.rs:116, 273).
THEOREM KeptCopyIsCurrent == Spec => []CopyIsCurrent
<1>1. IInv => CopyIsCurrent
  BY DEF IInv, AnswerInv
<1> QED
  BY <1>1, InductiveInvariant, PTL

\* As much is sent as was announced unless the file changed after its metadata was
\* read, and a range never gets more (files.rs:208, 224).
THEOREM AnnouncedIsSent == Spec => []SentAsAnnounced
<1>1. IInv => SentAsAnnounced
  BY DEF IInv, AnswerInv
<1> QED
  BY <1>1, InductiveInvariant, PTL

\* A redirect leads to where the path led, to a path that is refused if and only if it
\* was, and is not followed by another, whatever the segments decode to
\* (files.rs:50, 385).
THEOREM RedirectsOnce == Spec => []OneRedirect
<1>1. IInv => OneRedirect
  BY DEF IInv, AnswerInv
<1> QED
  BY <1>1, InductiveInvariant, PTL

=============================================================================
