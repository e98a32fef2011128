--------------------------- MODULE PackingProofs ---------------------------
(***************************************************************************)
(* The batches of streamed packing, for any number of worker processes and *)
(* ranks, any dataset, any interval and any length of a row, strict or     *)
(* not: the rows have every sample that can be encoded once, and the k-th  *)
(* batch of a rank is the one that a single process would make, in         *)
(* whatever order the workers answer and however many batches a resumed    *)
(* run has skipped.                                                        *)
(***************************************************************************)
EXTENDS Packing, TLAPS, FiniteSetTheorems, SequenceTheorems, WellFoundedInduction

-----------------------------------------------------------------------------
(* Induction over the numbers, by sets: what a recursive function computes  *)
(* is in reach of the provers that way.                                     *)
LEMMA Least ==
  ASSUME NEW T, T \subseteq Nat, T # {}
  PROVE  \E n \in T : \A m \in T : n <= m
<1> DEFINE Lt == {ss \in Nat \X Nat : ss[1] < ss[2]}
<1>1. IsWellFoundedOn(Lt, Nat)
  BY NatLessThanWellFounded DEF OpToRel
<1>2. PICK n \in T : \A m \in T : ~(<<m, n>> \in Lt)
  <2> HIDE DEF Lt
  <2> QED BY <1>1, WFMin
<1>3. ASSUME NEW m \in T PROVE ~(m < n)
  <2>1. <<m, n>> \in Nat \X Nat
    BY <1>3
  <2>2. <<m, n>> \notin {ss \in Nat \X Nat : ss[1] < ss[2]}
    BY <1>2
  <2>3. QED BY <2>1, <2>2
<1>4. QED BY <1>3

LEMMA Induction ==
  ASSUME NEW P, 0 \in P, \A n \in Nat : n \in P => n + 1 \in P
  PROVE  Nat \subseteq P
<1> SUFFICES ASSUME Nat \ P # {} PROVE FALSE
  OBVIOUS
<1>1. PICK n \in Nat \ P : \A m \in Nat \ P : n <= m
  BY Least
<1>2. n # 0 /\ n - 1 \in Nat /\ (n - 1) + 1 = n /\ ~(n <= n - 1)
  BY <1>1
<1>3. n - 1 \in P
  BY <1>1, <1>2
<1>4. QED BY <1>1, <1>2, <1>3

LEMMA UpTo ==
  ASSUME NEW n \in Nat, NEW P, 0 \in P, \A i \in Nat : i < n /\ i \in P => i + 1 \in P
  PROVE  0..n \subseteq P
<1> DEFINE Q == {i \in Nat : i <= n => i \in P}
<1>1. 0 \in Q
  OBVIOUS
<1>2. ASSUME NEW i \in Nat, i \in Q PROVE i + 1 \in Q
  <2>1. i + 1 <= n => i < n /\ i <= n
    OBVIOUS
  <2>2. QED BY <1>2, <2>1
<1> HIDE DEF Q
<1>3. Nat \subseteq Q
  BY <1>1, <1>2, Induction
<1>4. QED BY <1>3 DEF Q

(* A sequence of steps exists.                                              *)
Runs(f, n, first, step) ==
  \A i \in 0..n : f[i] = IF i = 0 THEN first ELSE step[<<f[i - 1], i>>]

LEMMA Iterates ==
  ASSUME NEW X, NEW first \in X, NEW n \in Nat, NEW step \in [X \X (1..n) -> X]
  PROVE  \E f \in [0..n -> X] : Runs(f, n, first, step)
<1> DEFINE Steps(f, m) == \A i \in 0..m : f[i] = IF i = 0 THEN first ELSE step[<<f[i - 1], i>>]
           P == {m \in Nat : m <= n => \E f \in [0..m -> X] : Steps(f, m)}
<1>1. 0 \in P
  <2>1. [i \in 0..0 |-> first] \in [0..0 -> X] /\ Steps([i \in 0..0 |-> first], 0)
    OBVIOUS
  <2>2. QED BY <2>1
<1>2. ASSUME NEW m \in Nat, m \in P PROVE m + 1 \in P
  <2> SUFFICES ASSUME m + 1 <= n PROVE \E f \in [0..m + 1 -> X] : Steps(f, m + 1)
    OBVIOUS
  <2>1. PICK f \in [0..m -> X] : Steps(f, m)
    BY <1>2
  <2>2. PICK x \in X : x = step[<<f[m], m + 1>>]
    OBVIOUS
  <2>3. PICK g : g = [i \in 0..m + 1 |-> IF i = m + 1 THEN x ELSE f[i]]
    OBVIOUS
  <2>4. g \in [0..m + 1 -> X]
    BY <2>3
  <2>5. ASSUME NEW i \in 0..m + 1 PROVE g[i] = IF i = 0 THEN first ELSE step[<<g[i - 1], i>>]
    <3>1. CASE i = m + 1
      <4>1. i # 0 /\ i - 1 = m /\ m \in 0..m + 1 /\ m # m + 1 /\ i \in 0..m + 1
        BY <3>1
      <4>2. g[i] = x /\ g[m] = f[m]
        BY <2>3, <3>1, <4>1
      <4>3. QED BY <2>2, <3>1, <4>1, <4>2
    <3>2. CASE i # m + 1
      <4>1. i \in 0..m /\ (i # 0 => i - 1 \in 0..m)
        BY <3>2
      <4>2. g[i] = f[i] /\ (i # 0 => g[i - 1] = f[i - 1])
        BY <2>3, <4>1
      <4>3. QED BY <2>1, <4>1, <4>2
    <3>3. QED BY <3>1, <3>2
  <2>6. QED BY <2>4, <2>5
<1> HIDE DEF P
<1>3. n \in P
  BY <1>1, <1>2, Induction
<1>4. QED BY <1>3 DEF P, Runs

-----------------------------------------------------------------------------
(* Recursion over the subsets of a finite set: what is computed from the    *)
(* set without one of its elements exists, and induction over the subsets   *)
(* in that order.                                                           *)
Picks(pick, S) == \A s \in SUBSET S : s # {} => pick[s] \in s

Builds(f, D, first, pick, step) ==
  \A s \in D : f[s] = IF s = {} THEN first ELSE step[<<pick[s], f[s \ {pick[s]}]>>]

LEMMA WithoutPicked ==
  ASSUME NEW S, IsFiniteSet(S), NEW pick, Picks(pick, S), NEW s \in SUBSET S
  PROVE  /\ Cardinality(s) \in Nat /\ Cardinality(s) <= Cardinality(S)
         /\ Cardinality(S) \in Nat
         /\ Cardinality(s) = 0 <=> s = {}
         /\ s # {} => /\ pick[s] \in S /\ s \ {pick[s]} \in SUBSET S
                      /\ Cardinality(s \ {pick[s]}) = Cardinality(s) - 1
<1>1. IsFiniteSet(s) /\ Cardinality(s) \in Nat /\ Cardinality(s) <= Cardinality(S)
      /\ Cardinality(S) \in Nat
  BY FS_Subset, FS_CardinalityType
<1>2. Cardinality(s) = 0 <=> s = {}
  BY <1>1, FS_EmptySet
<1>3. ASSUME s # {}
      PROVE  /\ pick[s] \in S /\ s \ {pick[s]} \in SUBSET S
             /\ Cardinality(s \ {pick[s]}) = Cardinality(s) - 1
  <2>1. pick[s] \in s
    BY <1>3 DEF Picks
  <2>2. QED BY <1>1, <2>1, FS_RemoveElement
<1>4. QED BY <1>1, <1>2, <1>3

LEMMA SubsetInduction ==
  ASSUME NEW S, IsFiniteSet(S), NEW pick, Picks(pick, S), NEW P, {} \in P,
         \A s \in SUBSET S : s # {} /\ s \ {pick[s]} \in P => s \in P
  PROVE  SUBSET S \subseteq P
<1> DEFINE Q == {k \in Nat : \A s \in SUBSET S : Cardinality(s) = k => s \in P}
<1>1. 0 \in Q
  <2>1. ASSUME NEW s \in SUBSET S, Cardinality(s) = 0 PROVE s \in P
    <3>1. s = {}
      BY <2>1, WithoutPicked
    <3>2. QED BY <3>1
  <2>2. QED BY <2>1
<1>2. ASSUME NEW k \in Nat, k \in Q PROVE k + 1 \in Q
  <2> SUFFICES ASSUME NEW s \in SUBSET S, Cardinality(s) = k + 1 PROVE s \in P
    OBVIOUS
  <2>1. s # {} /\ s \ {pick[s]} \in SUBSET S /\ Cardinality(s \ {pick[s]}) = Cardinality(s) - 1
    <3>1. s # {}
      <4>1. Cardinality(s) # 0
        BY <1>2
      <4>2. QED BY <4>1, WithoutPicked
    <3>2. QED BY <3>1, WithoutPicked
  <2>2. Cardinality(s \ {pick[s]}) = k
    BY <2>1
  <2>3. s \ {pick[s]} \in P
    BY <1>2, <2>1, <2>2
  <2>4. QED BY <2>1, <2>3
<1> HIDE DEF Q
<1>3. Nat \subseteq Q
  BY <1>1, <1>2, Induction
<1>4. ASSUME NEW s \in SUBSET S PROVE s \in P
  <2>1. Cardinality(s) \in Nat
    BY WithoutPicked
  <2>2. Cardinality(s) \in Q
    BY <1>3, <2>1
  <2>3. QED BY <2>2 DEF Q
<1>5. QED BY <1>4

LEMMA SubsetIterates ==
  ASSUME NEW S, IsFiniteSet(S), NEW pick, Picks(pick, S),
         NEW X, NEW first \in X, NEW step \in [S \X X -> X]
  PROVE  \E f \in [SUBSET S -> X] : Builds(f, SUBSET S, first, pick, step)
<1> DEFINE Upto(k) == {s \in SUBSET S : Cardinality(s) <= k}
           P == {k \in Nat : \E f \in [Upto(k) -> X] : Builds(f, Upto(k), first, pick, step)}
<1>1. \A s \in SUBSET S : /\ Cardinality(s) \in Nat /\ Cardinality(s) <= Cardinality(S)
                          /\ Cardinality(s) = 0 <=> s = {}
  BY WithoutPicked
<1>2. Cardinality(S) \in Nat
  BY FS_CardinalityType
<1>3. ASSUME NEW s \in SUBSET S, s # {}
      PROVE  /\ pick[s] \in S /\ s \ {pick[s]} \in SUBSET S
             /\ Cardinality(s \ {pick[s]}) = Cardinality(s) - 1
  BY <1>3, WithoutPicked
<1>4. 0 \in P
  <2>1. ASSUME NEW s \in Upto(0) PROVE s = {}
    <3>1. Cardinality(s) = 0
      BY <1>1
    <3>2. QED BY <1>1, <3>1
  <2>2. PICK f : f = [s \in Upto(0) |-> first]
    OBVIOUS
  <2>3. f \in [Upto(0) -> X] /\ Builds(f, Upto(0), first, pick, step)
    BY <2>1, <2>2 DEF Builds
  <2>4. QED BY <2>3
<1>5. ASSUME NEW k \in Nat, k \in P PROVE k + 1 \in P
  <2>1. PICK f \in [Upto(k) -> X] : Builds(f, Upto(k), first, pick, step)
    BY <1>5
  <2>2. PICK g : g = [s \in Upto(k + 1) |-> IF s = {} THEN first
                                            ELSE step[<<pick[s], f[s \ {pick[s]}]>>]]
    OBVIOUS
  <2>3. ASSUME NEW s \in Upto(k + 1), s # {}
        PROVE  pick[s] \in S /\ s \ {pick[s]} \in Upto(k) /\ s \ {pick[s]} \in Upto(k + 1)
    <3>1. s \in SUBSET S /\ Cardinality(s) \in Nat /\ Cardinality(s) <= k + 1
      BY <1>1
    <3>2. pick[s] \in S /\ s \ {pick[s]} \in SUBSET S
          /\ Cardinality(s \ {pick[s]}) = Cardinality(s) - 1
      BY <1>3, <2>3, <3>1
    <3>3. Cardinality(s \ {pick[s]}) <= k /\ Cardinality(s \ {pick[s]}) <= k + 1
      BY <3>1, <3>2
    <3>4. QED BY <3>2, <3>3
  <2>4. Upto(k) \subseteq Upto(k + 1)
    BY <1>1
  <2> HIDE DEF Upto
  <2>5. \A s \in Upto(k) : g[s] = f[s]
    BY <2>1, <2>2, <2>4 DEF Builds
  <2>6. ASSUME NEW s \in Upto(k + 1) PROVE g[s] \in X
    <3>1. CASE s = {}
      BY <2>2, <3>1
    <3>2. CASE s # {}
      <4>1. f[s \ {pick[s]}] \in X /\ pick[s] \in S
        BY <2>3, <3>2
      <4>2. step[<<pick[s], f[s \ {pick[s]}]>>] \in X
        BY <4>1
      <4>3. QED BY <2>2, <3>2, <4>2
    <3>3. QED BY <3>1, <3>2
  <2>7. Builds(g, Upto(k + 1), first, pick, step)
    <3> SUFFICES ASSUME NEW s \in Upto(k + 1)
                 PROVE  g[s] = IF s = {} THEN first ELSE step[<<pick[s], g[s \ {pick[s]}]>>]
      BY DEF Builds
    <3>1. CASE s = {}
      BY <2>2, <3>1
    <3>2. CASE s # {}
      <4>1. g[s \ {pick[s]}] = f[s \ {pick[s]}]
        BY <2>3, <2>5, <3>2
      <4>2. QED BY <2>2, <3>2, <4>1
    <3>3. QED BY <3>1, <3>2
  <2>8. g \in [Upto(k + 1) -> X]
    BY <2>2, <2>6
  <2>9. k + 1 \in Nat
    OBVIOUS
  <2>10. QED BY <2>7, <2>8, <2>9
<1> HIDE DEF P
<1>6. Cardinality(S) \in P
  BY <1>2, <1>4, <1>5, Induction
<1>7. Upto(Cardinality(S)) = SUBSET S
  BY <1>1
<1>8. QED
  BY <1>6, <1>7 DEF P


-----------------------------------------------------------------------------
(* The length of a row, by its definition as a fold: an item adds its own.  *)
Largest(s) == CHOOSE x \in s : \A y \in s : x >= y

LEMMA LargestIs ==
  ASSUME NEW n \in Nat, NEW s \in SUBSET (1..n), s # {}
  PROVE  Largest(s) \in s /\ \A y \in s : Largest(s) >= y
<1> DEFINE T == {m \in Nat : n - m \in s}
<1>1. T # {}
  <2>1. PICK x \in s : TRUE
    OBVIOUS
  <2>2. n - x \in Nat /\ n - (n - x) = x
    OBVIOUS
  <2>3. QED BY <2>1, <2>2
<1>2. PICK m \in T : \A k \in T : m <= k
  <2> HIDE DEF T
  <2>1. T \subseteq Nat
    BY DEF T
  <2>2. QED BY <1>1, <2>1, Least
<1>3. ASSUME NEW y \in s PROVE n - m >= y
  <2>1. n - y \in Nat /\ n - (n - y) = y /\ y \in Nat
    OBVIOUS
  <2>2. n - y \in T
    BY <2>1
  <2>3. m <= n - y /\ m \in Nat
    BY <1>2, <2>2
  <2>4. QED BY <2>1, <2>3
<1>4. \E x \in s : \A y \in s : x >= y
  BY <1>2, <1>3
<1>5. QED BY <1>4 DEF Largest

LEMMA LastPlace ==
  ASSUME NEW n \in Nat, NEW k \in 1..n
  PROVE  /\ 1..k \in SUBSET (1..n) /\ 1..k # {} /\ Largest(1..k) = k
         /\ (1..k) \ {k} = 1..(k - 1)
<1>1. 1..k \in SUBSET (1..n) /\ k \in 1..k
  OBVIOUS
<1>2. PICK l \in 1..k : l = Largest(1..k) /\ \A y \in 1..k : l >= y
  BY <1>1, LargestIs
<1>3. l >= k /\ l <= k
  BY <1>1, <1>2
<1>4. (1..k) \ {k} = 1..(k - 1)
  OBVIOUS
<1>5. QED BY <1>1, <1>2, <1>3, <1>4

LEMMA RowItems ==
  ASSUME NEW row \in Seq(Items)
  PROVE  /\ Len(row) \in Nat /\ DOMAIN row = 1..Len(row)
         /\ \A i \in 1..Len(row) : row[i] \in Items /\ row[i].length \in Nat \ {0}
<1>1. Len(row) \in Nat /\ DOMAIN row = 1..Len(row)
  OBVIOUS
<1>2. ASSUME NEW i \in 1..Len(row) PROVE row[i] \in Items
  OBVIOUS
<1>3. \A item \in Items : item.length \in Nat \ {0}
  BY DEF Items
<1>4. QED BY <1>1, <1>2, <1>3

(* The sums of the first k lengths.                                         *)
Sums(f, row) ==
  /\ f[{}] = 0
  /\ \A k \in 1..Len(row) : f[1..k] = f[1..(k - 1)] + row[k].length

LEMMA RowSums ==
  ASSUME NEW row \in Seq(Items)
  PROVE  \E f : Sums(f, row) /\ RowLength(row) = f[1..Len(row)]
<1>1. PICK n \in Nat : n = Len(row) /\ DOMAIN row = 1..n /\ \A i \in 1..n : row[i].length \in Nat
  BY RowItems
<1> DEFINE S == 1..n
           pick == [s \in SUBSET S |-> Largest(s)]
           step == [p \in S \X Nat |-> p[2] + row[p[1]].length]
           Is(f) == f = [s \in SUBSET S |->
                          IF s = {} THEN 0
                          ELSE f[s \ {Largest(s)}] + row[Largest(s)].length]
<1>2. IsFiniteSet(S)
  BY FS_Interval
<1>3. Picks(pick, S)
  BY LargestIs DEF Picks
<1>4. step \in [S \X Nat -> Nat]
  BY <1>1
<1>5. PICK f \in [SUBSET S -> Nat] : Builds(f, SUBSET S, 0, pick, step)
  <2> HIDE DEF S, step, pick
  <2> QED BY <1>2, <1>3, <1>4, SubsetIterates
<1>6. \A s \in SUBSET S : s # {} =>
        /\ s \ {Largest(s)} \in SUBSET S
        /\ step[<<pick[s], f[s \ {pick[s]}]>>] = f[s \ {Largest(s)}] + row[Largest(s)].length
  <2> SUFFICES ASSUME NEW s \in SUBSET S, s # {}
               PROVE  /\ s \ {Largest(s)} \in SUBSET S
                      /\ step[<<pick[s], f[s \ {pick[s]}]>>]
                           = f[s \ {Largest(s)}] + row[Largest(s)].length
    OBVIOUS
  <2>1. pick[s] = Largest(s) /\ Largest(s) \in S
    BY LargestIs
  <2>2. s \ {Largest(s)} \in SUBSET S
    OBVIOUS
  <2>3. f[s \ {Largest(s)}] \in Nat
    BY <1>5, <2>2
  <2>4. QED
    <3> HIDE DEF S
    <3> QED BY <2>1, <2>2, <2>3
<1>7. Is(f)
  <2>1. \A s \in SUBSET S : f[s] = IF s = {} THEN 0
                                   ELSE f[s \ {Largest(s)}] + row[Largest(s)].length
    <3> HIDE DEF S, step, pick
    <3> QED BY <1>5, <1>6 DEF Builds
  <2>2. QED
    <3> HIDE DEF S
    <3> QED BY <1>5, <2>1
<1>8. Is(CHOOSE h : Is(h))
  <2> HIDE DEF Is
  <2> QED BY <1>7
<1>9. PICK h \in {CHOOSE h : Is(h)} : h[S] = RowLength(row)
  BY <1>1 DEF RowLength, FoldLeft, MapThenFoldSet, Max, Largest
<1>10. Is(h)
  BY <1>8, <1>9
<1>11. \A s \in SUBSET S : h[s] = IF s = {} THEN 0 ELSE h[s \ {Largest(s)}] + row[Largest(s)].length
  <2> HIDE DEF S
  <2> QED BY <1>10
<1>12. h[{}] = 0
  BY <1>11
<1>13. ASSUME NEW k \in 1..n PROVE h[1..k] = h[1..(k - 1)] + row[k].length
  <2>1. 1..k \in SUBSET S /\ 1..k # {} /\ Largest(1..k) = k /\ (1..k) \ {k} = 1..(k - 1)
    BY LastPlace
  <2> HIDE DEF S
  <2>2. QED BY <1>11, <2>1
<1>14. QED BY <1>1, <1>9, <1>12, <1>13 DEF Sums

LEMMA RowLengthGrows ==
  ASSUME NEW row \in Seq(Items), NEW item \in Items
  PROVE  /\ RowLength(row) \in Nat
         /\ RowLength(Append(row, item)) = RowLength(row) + item.length
<1>1. PICK n \in Nat : n = Len(row) /\ \A i \in 1..n : row[i].length \in Nat
  BY RowItems
<1>2. PICK longer \in Seq(Items) :
        /\ longer = Append(row, item) /\ Len(longer) = n + 1
        /\ longer[n + 1] = item /\ \A i \in 1..n : longer[i] = row[i]
  <2>1. /\ Append(row, item) \in Seq(Items) /\ Len(Append(row, item)) = Len(row) + 1
        /\ Append(row, item)[Len(row) + 1] = item
        /\ \A i \in 1..Len(row) : Append(row, item)[i] = row[i]
    BY AppendProperties
  <2>2. QED BY <1>1, <2>1
<1>3. PICK f : Sums(f, row) /\ RowLength(row) = f[1..n]
  BY <1>1, RowSums
<1>4. PICK g : Sums(g, longer) /\ RowLength(longer) = g[1..(n + 1)]
  BY <1>2, RowSums
<1>5. f[{}] = 0 /\ \A k \in 1..n : f[1..k] = f[1..(k - 1)] + row[k].length
  BY <1>1, <1>3 DEF Sums
<1>6. g[{}] = 0 /\ \A k \in 1..(n + 1) : g[1..k] = g[1..(k - 1)] + longer[k].length
  BY <1>2, <1>4 DEF Sums
<1> DEFINE P == {k \in Nat : f[1..k] \in Nat /\ g[1..k] = f[1..k]}
<1>7. 0 \in P
  <2>1. 1..0 = {}
    OBVIOUS
  <2>2. QED BY <1>5, <1>6, <2>1
<1>8. ASSUME NEW k \in Nat, k < n, k \in P PROVE k + 1 \in P
  <2>1. k + 1 \in 1..n /\ k + 1 \in 1..(n + 1) /\ (k + 1) - 1 = k
    BY <1>8
  <2>2. f[1..(k + 1)] = f[1..k] + row[k + 1].length
    BY <1>5, <2>1
  <2>3. g[1..(k + 1)] = g[1..k] + row[k + 1].length
    BY <1>2, <1>6, <2>1
  <2>4. row[k + 1].length \in Nat
    BY <1>1, <2>1
  <2>5. f[1..k] \in Nat /\ g[1..k] = f[1..k]
    BY <1>8
  <2>6. QED BY <2>2, <2>3, <2>4, <2>5
<1> HIDE DEF P
<1>9. n \in P
  <2>1. 0..n \subseteq P
    BY <1>7, <1>8, UpTo
  <2>2. QED BY <2>1
<1>10. f[1..n] \in Nat /\ g[1..n] = f[1..n]
  BY <1>9 DEF P
<1>11. g[1..(n + 1)] = g[1..n] + item.length
  <2>1. n + 1 \in 1..(n + 1) /\ (n + 1) - 1 = n
    OBVIOUS
  <2>2. QED BY <1>2, <1>6, <2>1
<1>12. QED BY <1>2, <1>3, <1>4, <1>10, <1>11


-----------------------------------------------------------------------------
(* What the grouping returns: every sample of a set in one place of one row, *)
(* and no row too long that could have been shorter.                         *)
Row == Seq(Items) \ {<< >>}
State == [rows : Seq(Row), rest : Seq(Items)]

At(list, i, j) == i \in 1..Len(list) /\ j \in 1..Len(list[i])

Once(list, S) ==
  /\ \A i, j \in Nat : At(list, i, j) => list[i][j].of \in S
  /\ \A s \in S : \E i, j \in Nat : At(list, i, j) /\ list[i][j].of = s
  /\ \A i, j, k, l \in Nat :
       At(list, i, j) /\ At(list, k, l) /\ list[i][j].of = list[k][l].of => i = k /\ j = l

Short(row) == RowLength(row) <= PackingLength \/ Len(row) = 1
AllShort(list) == \A i \in 1..Len(list) : Short(list[i])

(* One more item, in a place of its own.                                    *)
OneMore(list, more, item, a, b) ==
  /\ ~At(list, a, b) /\ more[a][b] = item
  /\ \A i, j \in Nat : At(more, i, j) <=> At(list, i, j) \/ (i = a /\ j = b)
  /\ \A i, j \in Nat : At(list, i, j) => more[i][j] = list[i][j]

LEMMA OnceMore ==
  ASSUME NEW list, NEW more, NEW item, NEW a \in Nat, NEW b \in Nat, NEW S,
         Once(list, S), item.of \notin S, OneMore(list, more, item, a, b)
  PROVE  Once(more, S \cup {item.of})
<1>1. /\ ~At(list, a, b) /\ more[a][b] = item
      /\ \A i, j \in Nat : At(more, i, j) <=> At(list, i, j) \/ (i = a /\ j = b)
      /\ \A i, j \in Nat : At(list, i, j) => more[i][j] = list[i][j]
  BY DEF OneMore
<1>2. /\ \A i, j \in Nat : At(list, i, j) => list[i][j].of \in S
      /\ \A s \in S : \E i, j \in Nat : At(list, i, j) /\ list[i][j].of = s
      /\ \A i, j, k, l \in Nat :
           At(list, i, j) /\ At(list, k, l) /\ list[i][j].of = list[k][l].of => i = k /\ j = l
  BY DEF Once
<1>3. ASSUME NEW i \in Nat, NEW j \in Nat, At(more, i, j) PROVE more[i][j].of \in S \cup {item.of}
  BY <1>1, <1>2, <1>3
<1>4. ASSUME NEW s \in S \cup {item.of} PROVE \E i, j \in Nat : At(more, i, j) /\ more[i][j].of = s
  <2>1. CASE s = item.of
    BY <1>1, <2>1
  <2>2. CASE s \in S
    <3>1. PICK i \in Nat, j \in Nat : At(list, i, j) /\ list[i][j].of = s
      BY <1>2, <2>2
    <3>2. QED BY <1>1, <3>1
  <2>3. QED BY <2>1, <2>2
<1>5. ASSUME NEW i \in Nat, NEW j \in Nat, NEW k \in Nat, NEW l \in Nat,
             At(more, i, j), At(more, k, l), more[i][j].of = more[k][l].of
      PROVE  i = k /\ j = l
  <2>1. CASE At(list, i, j) /\ At(list, k, l)
    <3>1. more[i][j] = list[i][j] /\ more[k][l] = list[k][l]
      BY <1>1, <2>1
    <3>2. list[i][j].of = list[k][l].of
      BY <1>5, <3>1
    <3>3. QED BY <1>2, <2>1, <3>2
  <2>2. CASE At(list, i, j) /\ k = a /\ l = b
    <3>1. more[i][j] = list[i][j] /\ more[k][l] = item
      BY <1>1, <2>2
    <3>2. list[i][j].of = item.of
      BY <1>5, <3>1
    <3>3. QED BY <1>2, <2>2, <3>2
  <2>3. CASE i = a /\ j = b /\ At(list, k, l)
    <3>1. more[i][j] = item /\ more[k][l] = list[k][l]
      BY <1>1, <2>3
    <3>2. list[k][l].of = item.of
      BY <1>5, <3>1
    <3>3. QED BY <1>2, <2>3, <3>2
  <2>4. CASE i = a /\ j = b /\ k = a /\ l = b
    BY <2>4
  <2>5. QED BY <1>1, <1>5, <2>1, <2>2, <2>3, <2>4
<1>6. QED BY <1>3, <1>4, <1>5 DEF Once

LEMMA NewRow ==
  ASSUME NEW list \in Seq(Row), NEW item
  PROVE  OneMore(list, Append(list, <<item>>), item, Len(list) + 1, 1)
<1>1. PICK n \in Nat : n = Len(list)
  OBVIOUS
<1>2. PICK more : more = Append(list, <<item>>)
  OBVIOUS
<1>3. Len(more) = n + 1 /\ more[n + 1] = <<item>> /\ \A i \in 1..n : more[i] = list[i]
  BY <1>1, <1>2, AppendProperties
<1>4. Len(<<item>>) = 1 /\ <<item>>[1] = item
  OBVIOUS
<1>5. ASSUME NEW i \in Nat, NEW j \in Nat
      PROVE  At(more, i, j) <=> At(list, i, j) \/ (i = n + 1 /\ j = 1)
  <2>1. CASE i \in 1..n
    <3>1. i \in 1..(n + 1) /\ i # n + 1 /\ more[i] = list[i]
      BY <1>3, <2>1
    <3>2. QED BY <1>1, <1>3, <2>1, <3>1 DEF At
  <2>2. CASE i = n + 1
    <3>1. i \notin 1..n /\ i \in 1..(n + 1)
      BY <2>2
    <3>2. j \in 1..1 <=> j = 1
      OBVIOUS
    <3>3. QED BY <1>1, <1>3, <1>4, <2>2, <3>1, <3>2 DEF At
  <2>3. CASE i \notin 1..(n + 1)
    <3>1. i \notin 1..n /\ i # n + 1
      BY <2>3
    <3>2. QED BY <1>1, <1>3, <2>3, <3>1 DEF At
  <2>4. QED BY <2>1, <2>2, <2>3
<1>6. ~At(list, n + 1, 1)
  BY <1>1 DEF At
<1>7. ASSUME NEW i \in Nat, NEW j \in Nat, At(list, i, j) PROVE more[i][j] = list[i][j]
  BY <1>1, <1>3, <1>7 DEF At
<1>8. QED BY <1>1, <1>2, <1>3, <1>4, <1>5, <1>6, <1>7 DEF OneMore

LEMMA FullerRow ==
  ASSUME NEW list \in Seq(Row), NEW item \in Items, NEW a \in 1..Len(list)
  PROVE  OneMore(list, [list EXCEPT ![a] = Append(@, item)], item, a, Len(list[a]) + 1)
<1>1. PICK n \in Nat : n = Len(list) /\ list \in [1..n -> Row]
  OBVIOUS
<1>2. PICK more : more = [list EXCEPT ![a] = Append(@, item)]
  OBVIOUS
<1>3. PICK row \in Seq(Items) : row = list[a]
  BY <1>1 DEF Row
<1>4. PICK m \in Nat : m = Len(row)
  OBVIOUS
<1>5. PICK longer : longer = Append(row, item)
  OBVIOUS
<1>6. Len(longer) = m + 1 /\ longer[m + 1] = item /\ \A j \in 1..m : longer[j] = row[j]
  BY <1>4, <1>5, AppendProperties
<1>7. Len(more) = n /\ more[a] = longer /\ \A i \in 1..n : i # a => more[i] = list[i]
  <2>1. DOMAIN more = 1..n
    BY <1>1, <1>2
  <2>2. more[a] = longer /\ \A i \in 1..n : i # a => more[i] = list[i]
    BY <1>1, <1>2, <1>3, <1>5
  <2>3. more = [i \in 1..n |-> more[i]]
    BY <1>1, <1>2
  <2>4. Len(more) = n
    <3>1. more \in [1..n -> {more[i] : i \in 1..n}]
      BY <2>3
    <3>2. QED BY <3>1
  <2>5. QED BY <2>2, <2>4
<1>8. ASSUME NEW i \in Nat, NEW j \in Nat
      PROVE  At(more, i, j) <=> At(list, i, j) \/ (i = a /\ j = m + 1)
  <2>1. CASE i = a
    <3>1. j \in 1..(m + 1) <=> j \in 1..m \/ j = m + 1
      OBVIOUS
    <3>2. QED BY <1>1, <1>3, <1>4, <1>6, <1>7, <2>1, <3>1 DEF At
  <2>2. CASE i # a
    BY <1>1, <1>7, <2>2 DEF At
  <2>3. QED BY <2>1, <2>2
<1>9. ~At(list, a, m + 1)
  BY <1>3, <1>4 DEF At
<1>10. ASSUME NEW i \in Nat, NEW j \in Nat, At(list, i, j) PROVE more[i][j] = list[i][j]
  <2>1. CASE i = a
    BY <1>3, <1>4, <1>6, <1>7, <1>10, <2>1 DEF At
  <2>2. CASE i # a
    BY <1>1, <1>7, <1>10, <2>2 DEF At
  <2>3. QED BY <2>1, <2>2
<1>11. more[a][m + 1] = item
  BY <1>6, <1>7
<1>12. QED BY <1>2, <1>3, <1>4, <1>8, <1>9, <1>10, <1>11 DEF OneMore

(* Of the elements with the least v there is one with the least u.          *)
LEMMA FirstByTwo ==
  ASSUME NEW s, s # {}, NEW v \in [s -> Nat], NEW u \in [s -> Nat]
  PROVE  \E i \in s : \A j \in s : v[i] < v[j] \/ (v[i] = v[j] /\ u[i] <= u[j])
<1>1. PICK T : T = {v[i] : i \in s}
  OBVIOUS
<1>2. T \subseteq Nat /\ T # {}
  BY <1>1
<1>3. PICK m \in T : \A k \in T : m <= k
  BY <1>2, Least
<1>4. PICK U : U = {u[i] : i \in {j \in s : v[j] = m}}
  OBVIOUS
<1>5. U \subseteq Nat /\ U # {}
  BY <1>1, <1>3, <1>4
<1>6. PICK l \in U : \A k \in U : l <= k
  BY <1>5, Least
<1>7. PICK i \in s : v[i] = m /\ u[i] = l
  BY <1>4, <1>6
<1>8. ASSUME NEW j \in s PROVE v[i] < v[j] \/ (v[i] = v[j] /\ u[i] <= u[j])
  <2>1. m <= v[j] /\ m \in Nat /\ v[j] \in Nat
    BY <1>1, <1>2, <1>3
  <2>2. CASE v[j] = m
    <3>1. u[j] \in U
      BY <1>4, <2>2
    <3>2. QED BY <1>6, <1>7, <2>2, <3>1
  <2>3. CASE v[j] # m
    BY <1>7, <2>1, <2>3
  <2>4. QED BY <2>2, <2>3
<1>9. QED BY <1>8

(* binpacking puts an item into one row.                                    *)
LEMMA Places ==
  ASSUME NEW packed \in Seq(Row), NEW item \in Items
  PROVE  /\ PlaceInRow(packed, item) \in Seq(Row)
         /\ AllShort(packed) => AllShort(PlaceInRow(packed, item))
         /\ \E a, b \in Nat : OneMore(packed, PlaceInRow(packed, item), item, a, b)
<1> DEFINE fits == {i \in DOMAIN packed : RowLength(packed[i]) + item.length <= PackingLength}
           fullest == CHOOSE i \in fits : \A j \in fits :
                        \/ RowLength(packed[j]) < RowLength(packed[i])
                        \/ (RowLength(packed[j]) = RowLength(packed[i]) /\ i <= j)
<1>1. PICK n \in Nat : n = Len(packed) /\ packed \in [1..n -> Row]
  OBVIOUS
<1>2. CASE fits = {}
  <2>1. PlaceInRow(packed, item) = Append(packed, <<item>>)
    BY <1>2 DEF PlaceInRow
  <2>2. <<item>> \in Row /\ Len(<<item>>) = 1
    BY DEF Row
  <2>3. PICK more \in Seq(Row) :
          /\ more = Append(packed, <<item>>) /\ Len(more) = n + 1
          /\ more[n + 1] = <<item>> /\ \A i \in 1..n : more[i] = packed[i]
    <3>1. /\ Append(packed, <<item>>) \in Seq(Row) /\ Len(Append(packed, <<item>>)) = n + 1
          /\ Append(packed, <<item>>)[n + 1] = <<item>>
          /\ \A i \in 1..n : Append(packed, <<item>>)[i] = packed[i]
      BY <1>1, <2>2, AppendProperties
    <3>2. QED BY <3>1
  <2>4. AllShort(packed) => AllShort(more)
    <3> SUFFICES ASSUME AllShort(packed), NEW i \in 1..(n + 1) PROVE Short(more[i])
      BY <2>3 DEF AllShort
    <3>1. CASE i \in 1..n
      BY <1>1, <2>3, <3>1 DEF AllShort
    <3>2. CASE i = n + 1
      BY <2>2, <2>3, <3>2 DEF Short
    <3>3. QED BY <3>1, <3>2
  <2>5. OneMore(packed, more, item, n + 1, 1) /\ n + 1 \in Nat /\ 1 \in Nat
    BY <1>1, <2>3, NewRow
  <2>6. QED BY <2>1, <2>3, <2>4, <2>5
<1>3. CASE fits # {}
  <2>1. PICK a \in fits : PlaceInRow(packed, item) = [packed EXCEPT ![a] = Append(@, item)]
    <3>1. PlaceInRow(packed, item) = [packed EXCEPT ![fullest] = Append(@, item)]
      <4> HIDE DEF fullest
      <4> QED BY <1>3 DEF PlaceInRow, fits, fullest
    <3>2. fullest \in fits
      <4>1. ASSUME NEW i \in fits
            PROVE  i \in Nat /\ RowLength(packed[i]) \in Nat
                   /\ PackingLength - RowLength(packed[i]) \in Nat
        <5>1. i \in 1..n /\ RowLength(packed[i]) + item.length <= PackingLength
          BY <1>1
        <5>2. packed[i] \in Seq(Items)
          BY <1>1, <5>1 DEF Row
        <5>3. RowLength(packed[i]) \in Nat /\ item.length \in Nat
          BY <5>2, RowLengthGrows DEF Items
        <5>4. QED BY <5>1, <5>3, PackingConstants
      <4>2. PICK v, u : /\ v = [i \in fits |-> PackingLength - RowLength(packed[i])]
                        /\ u = [i \in fits |-> i]
        OBVIOUS
      <4>3. v \in [fits -> Nat] /\ u \in [fits -> Nat]
        <5> HIDE DEF fits
        <5> QED BY <4>1, <4>2
      <4>4. PICK i \in fits : \A j \in fits : v[i] < v[j] \/ (v[i] = v[j] /\ u[i] <= u[j])
        <5> HIDE DEF fits
        <5> QED BY <1>3, <4>3, FirstByTwo
      <4>5. ASSUME NEW j \in fits
            PROVE  \/ RowLength(packed[j]) < RowLength(packed[i])
                   \/ (RowLength(packed[j]) = RowLength(packed[i]) /\ i <= j)
        <5>1. /\ v[i] = PackingLength - RowLength(packed[i]) /\ u[i] = i
              /\ v[j] = PackingLength - RowLength(packed[j]) /\ u[j] = j
          <6> HIDE DEF fits
          <6> QED BY <4>2
        <5>2. PICK x \in Nat, y \in Nat : x = RowLength(packed[i]) /\ y = RowLength(packed[j])
          BY <4>1
        <5>3. v[i] < v[j] \/ (v[i] = v[j] /\ i <= j)
          BY <4>4, <5>1
        <5>4. y < x \/ (y = x /\ i <= j)
          BY <5>1, <5>2, <5>3, PackingConstants
        <5>5. QED BY <5>2, <5>4
      <4> HIDE DEF fits
      <4>6. QED BY <4>5
    <3> HIDE DEF fits, fullest
    <3>3. QED BY <3>1, <3>2
  <2>2. a \in 1..n /\ RowLength(packed[a]) + item.length <= PackingLength
    BY <1>1, <2>1
  <2>3. PICK row \in Seq(Items) : row = packed[a]
    BY <1>1, <2>2 DEF Row
  <2>4. PICK longer \in Row : longer = Append(row, item) /\ Short(longer)
    <3>1. Append(row, item) \in Seq(Items) /\ Append(row, item) # << >>
      BY AppendProperties
    <3>2. RowLength(Append(row, item)) <= PackingLength
      BY <2>2, <2>3, RowLengthGrows
    <3>3. QED BY <3>1, <3>2 DEF Row, Short
  <2>5. PICK more : more = [packed EXCEPT ![a] = longer]
    OBVIOUS
  <2>6. more \in [1..n -> Row] /\ more[a] = longer /\ \A i \in 1..n : i # a => more[i] = packed[i]
    <3> HIDE DEF Row
    <3> QED BY <1>1, <2>2, <2>5
  <2>7. more \in Seq(Row) /\ Len(more) = n
    BY <2>6
  <2>8. AllShort(packed) => AllShort(more)
    <3> SUFFICES ASSUME AllShort(packed), NEW i \in 1..n PROVE Short(more[i])
      BY <2>7 DEF AllShort
    <3>1. QED BY <1>1, <2>4, <2>6 DEF AllShort
  <2>9. PlaceInRow(packed, item) = more
    BY <2>1, <2>3, <2>4, <2>5
  <2>10. PICK b \in Nat : b = Len(packed[a]) + 1
    BY <2>3
  <2>11. OneMore(packed, more, item, a, b)
    <3>1. OneMore(packed, [packed EXCEPT ![a] = Append(@, item)], item, a, Len(packed[a]) + 1)
      BY <1>1, <2>2, FullerRow
    <3>2. QED BY <2>1, <2>9, <2>10, <3>1
  <2>12. QED BY <2>2, <2>7, <2>8, <2>9, <2>10, <2>11
<1>4. QED BY <1>2, <1>3


(* What the grouping is given: the samples of a set, each encoded once, and  *)
(* places where encoding has failed.                                         *)
Answers == Items \cup {Failed}

Encodings(items) == {i \in 1..Len(items) : items[i] \in Items}
Distinct(items) == \A i, j \in Encodings(items) : items[i].of = items[j].of => i = j
Holding(items, s) == {items[i].of : i \in s}
Each(items, T) == Distinct(items) /\ Holding(items, Encodings(items)) = T

LEMMA ShortestIs ==
  ASSUME NEW items \in Seq(Answers), NEW s \in SUBSET Encodings(items), s # {}
  PROVE  Shortest(items, s) \in s
<1>1. PICK n \in Nat : n = Len(items)
  OBVIOUS
<1>2. ASSUME NEW i \in s PROVE i \in 1..n /\ items[i].length \in Nat /\ n - i \in Nat
  <2>1. i \in 1..n /\ items[i] \in Items
    BY <1>1 DEF Encodings
  <2>2. QED BY <2>1 DEF Items
<1>3. PICK v, u : v = [i \in s |-> items[i].length] /\ u = [i \in s |-> n - i]
  OBVIOUS
<1>4. v \in [s -> Nat] /\ u \in [s -> Nat]
  BY <1>2, <1>3
<1>5. PICK i \in s : \A j \in s : v[i] < v[j] \/ (v[i] = v[j] /\ u[i] <= u[j])
  BY <1>4, FirstByTwo
<1>6. ASSUME NEW j \in s
      PROVE  items[i].length < items[j].length \/ (items[i].length = items[j].length /\ j <= i)
  <2>1. v[i] = items[i].length /\ v[j] = items[j].length /\ u[i] = n - i /\ u[j] = n - j
    BY <1>3
  <2>2. i \in 1..n /\ j \in 1..n
    BY <1>2
  <2>3. u[i] <= u[j] => j <= i
    BY <2>1, <2>2
  <2>4. QED BY <1>5, <2>1, <2>3
<1>7. QED BY <1>6 DEF Shortest

(* What binpacking returns, by recursion over the places.                    *)
PacksPlaces(h, items) ==
  \A s \in SUBSET Encodings(items) :
    h[s] = IF s = {} THEN << >>
           ELSE PlaceInRow(h[s \ {Shortest(items, s)}], items[Shortest(items, s)])

LEMMA BinPackingRuns ==
  ASSUME NEW items \in Seq(Answers)
  PROVE  \E h : PacksPlaces(h, items) /\ BinPacking(items) = h[Encodings(items)]
<1> DEFINE E == Encodings(items)
           X == Seq(Row)
           pick == [s \in SUBSET E |-> Shortest(items, s)]
           step == [p \in E \X X |-> PlaceInRow(p[2], items[p[1]])]
           Is(f) == f = [s \in SUBSET E |->
                          IF s = {} THEN << >>
                          ELSE PlaceInRow(f[s \ {Shortest(items, s)}], items[Shortest(items, s)])]
<1>1. IsFiniteSet(E)
  <2>1. IsFiniteSet(1..Len(items)) /\ E \subseteq 1..Len(items)
    BY FS_Interval DEF Encodings
  <2>2. QED BY <2>1, FS_Subset
<1>2. Picks(pick, E)
  BY ShortestIs DEF Picks
<1>3. << >> \in X
  OBVIOUS
<1>4. step \in [E \X X -> X]
  <2>1. ASSUME NEW i \in E, NEW packed \in X PROVE PlaceInRow(packed, items[i]) \in X
    <3>1. items[i] \in Items
      BY DEF Encodings
    <3>2. QED BY <3>1, Places
  <2> HIDE DEF E, X
  <2>2. QED BY <2>1
<1> HIDE DEF X
<1>5. PICK f \in [SUBSET E -> X] : Builds(f, SUBSET E, << >>, pick, step)
  <2> HIDE DEF E, step, pick
  <2> QED BY <1>1, <1>2, <1>3, <1>4, SubsetIterates
<1>6. ASSUME NEW s \in SUBSET E, s # {}
      PROVE  step[<<pick[s], f[s \ {pick[s]}]>>]
               = PlaceInRow(f[s \ {Shortest(items, s)}], items[Shortest(items, s)])
  <2>1. pick[s] = Shortest(items, s) /\ Shortest(items, s) \in E
    BY <1>6, ShortestIs
  <2> HIDE DEF E
  <2>2. s \ {Shortest(items, s)} \in SUBSET E
    OBVIOUS
  <2>3. f[s \ {Shortest(items, s)}] \in X
    BY <1>5, <2>2
  <2>4. QED BY <2>1, <2>3
<1>7. \A s \in SUBSET E :
        f[s] = IF s = {} THEN << >>
               ELSE PlaceInRow(f[s \ {Shortest(items, s)}], items[Shortest(items, s)])
  <2> HIDE DEF E, step, pick
  <2> QED BY <1>5, <1>6 DEF Builds
<1>8. Is(f)
  <2> HIDE DEF E
  <2> QED BY <1>5, <1>7
<1>9. Is(CHOOSE h : Is(h))
  <2> HIDE DEF Is
  <2> QED BY <1>8
<1>10. PICK h \in {CHOOSE h : Is(h)} : h[E] = BinPacking(items)
  <2>1. {i \in DOMAIN items : items[i] \in Items} = E
    BY DEF Encodings
  <2> HIDE DEF E
  <2>2. QED BY <2>1 DEF BinPacking
<1>11. Is(h)
  BY <1>9, <1>10
<1>12. PacksPlaces(h, items)
  <2>1. \A s \in SUBSET E :
          h[s] = IF s = {} THEN << >>
                 ELSE PlaceInRow(h[s \ {Shortest(items, s)}], items[Shortest(items, s)])
    <3> HIDE DEF E
    <3> QED BY <1>11
  <2>2. QED BY <2>1 DEF PacksPlaces
<1>13. QED BY <1>10, <1>12

LEMMA PlacesOnce ==
  ASSUME NEW items \in Seq(Answers), NEW s \in SUBSET Encodings(items), NEW i \in s,
         NEW packed \in Seq(Row), Distinct(items), Once(packed, Holding(items, s \ {i}))
  PROVE  Once(PlaceInRow(packed, items[i]), Holding(items, s))
<1>1. items[i] \in Items
  BY DEF Encodings
<1>2. PICK more : more = PlaceInRow(packed, items[i])
  OBVIOUS
<1>3. PICK a \in Nat, b \in Nat : OneMore(packed, more, items[i], a, b)
  BY <1>1, <1>2, Places
<1>4. items[i].of \notin Holding(items, s \ {i})
  BY DEF Distinct, Holding
<1>5. Holding(items, s) = Holding(items, s \ {i}) \cup {items[i].of}
  BY DEF Holding
<1>6. PICK S, item : S = Holding(items, s \ {i}) /\ item = items[i]
  OBVIOUS
<1>7. Once(packed, S) /\ item.of \notin S /\ OneMore(packed, more, item, a, b)
  BY <1>3, <1>4, <1>6
<1>8. Once(more, S \cup {item.of})
  BY <1>7, OnceMore
<1>9. QED BY <1>2, <1>5, <1>6, <1>8

LEMMA Packs ==
  ASSUME NEW items \in Seq(Answers)
  PROVE  /\ BinPacking(items) \in Seq(Row)
         /\ AllShort(BinPacking(items))
         /\ \A T : Each(items, T) => Once(BinPacking(items), T)
<1>1. PICK E : E = Encodings(items)
  OBVIOUS
<1>2. PICK h : PacksPlaces(h, items) /\ BinPacking(items) = h[E]
  BY <1>1, BinPackingRuns
<1>3. \A s \in SUBSET E :
        h[s] = IF s = {} THEN << >>
               ELSE PlaceInRow(h[s \ {Shortest(items, s)}], items[Shortest(items, s)])
  BY <1>1, <1>2 DEF PacksPlaces
<1>4. PICK pick : pick = [s \in SUBSET E |-> Shortest(items, s)]
  OBVIOUS
<1>5. Picks(pick, E)
  BY <1>1, <1>4, ShortestIs DEF Picks
<1>6. IsFiniteSet(E)
  <2>1. IsFiniteSet(1..Len(items)) /\ E \subseteq 1..Len(items)
    BY <1>1, FS_Interval DEF Encodings
  <2>2. QED BY <2>1, FS_Subset
<1> DEFINE Good(s) == /\ h[s] \in Seq(Row) /\ AllShort(h[s])
                      /\ Distinct(items) => Once(h[s], Holding(items, s))
           P == {s \in SUBSET E : Good(s)}
<1>7. {} \in P
  <2>1. h[{}] = << >>
    BY <1>3
  <2>2. << >> \in Seq(Row) /\ Len(<< >>) = 0
    OBVIOUS
  <2>3. AllShort(<< >>)
    BY <2>2 DEF AllShort
  <2>4. Once(<< >>, Holding(items, {}))
    BY <2>2 DEF Once, At, Holding
  <2>5. QED BY <2>1, <2>2, <2>3, <2>4
<1>8. ASSUME NEW s \in SUBSET E, s # {}, s \ {pick[s]} \in P PROVE s \in P
  <2>1. PICK i \in s : i = Shortest(items, s) /\ i = pick[s]
    BY <1>1, <1>4, <1>8, ShortestIs
  <2>2. PICK packed : packed = h[s \ {i}]
    OBVIOUS
  <2>3. h[s] = PlaceInRow(packed, items[i])
    BY <1>3, <1>8, <2>1, <2>2
  <2>4. /\ packed \in Seq(Row) /\ AllShort(packed)
        /\ Distinct(items) => Once(packed, Holding(items, s \ {i}))
    BY <1>8, <2>1, <2>2
  <2>5. items[i] \in Items
    BY <1>1 DEF Encodings
  <2>6. h[s] \in Seq(Row) /\ AllShort(h[s])
    BY <2>3, <2>4, <2>5, Places
  <2>7. Distinct(items) => Once(h[s], Holding(items, s))
    BY <1>1, <2>3, <2>4, PlacesOnce
  <2>8. QED BY <2>6, <2>7
<1>9. SUBSET E \subseteq P
  <2> HIDE DEF P
  <2> QED BY <1>5, <1>6, <1>7, <1>8, SubsetInduction
<1>10. Good(E)
  BY <1>9
<1>11. QED BY <1>1, <1>2, <1>10 DEF Each


-----------------------------------------------------------------------------
(* Lists of rows, put together and taken apart.                              *)
Lists == Seq(Seq(Items))

LEMMA OnceSame ==
  ASSUME NEW list, NEW same, NEW S, Once(list, S),
         \A i, j \in Nat : At(same, i, j) <=> At(list, i, j),
         \A i, j \in Nat : At(list, i, j) => same[i][j] = list[i][j]
  PROVE  Once(same, S)
<1>1. /\ \A i, j \in Nat : At(list, i, j) => list[i][j].of \in S
      /\ \A s \in S : \E i, j \in Nat : At(list, i, j) /\ list[i][j].of = s
      /\ \A i, j, k, l \in Nat :
           At(list, i, j) /\ At(list, k, l) /\ list[i][j].of = list[k][l].of => i = k /\ j = l
  BY DEF Once
<1>2. \A i, j \in Nat : At(same, i, j) => same[i][j].of \in S
  BY <1>1
<1>3. ASSUME NEW s \in S PROVE \E i, j \in Nat : At(same, i, j) /\ same[i][j].of = s
  <2>1. PICK i \in Nat, j \in Nat : At(list, i, j) /\ list[i][j].of = s
    BY <1>1
  <2>2. QED BY <2>1
<1>4. ASSUME NEW i \in Nat, NEW j \in Nat, NEW k \in Nat, NEW l \in Nat,
             At(same, i, j), At(same, k, l), same[i][j].of = same[k][l].of
      PROVE  i = k /\ j = l
  <2>1. At(list, i, j) /\ At(list, k, l)
    BY <1>4
  <2>2. same[i][j] = list[i][j] /\ same[k][l] = list[k][l]
    BY <2>1
  <2>3. list[i][j].of = list[k][l].of
    BY <1>4, <2>2
  <2>4. QED BY <1>1, <2>1, <2>3
<1>5. QED BY <1>2, <1>3, <1>4 DEF Once

LEMMA NothingMore ==
  ASSUME NEW list \in Lists, NEW S, Once(list, S)
  PROVE  Once(Append(list, << >>), S)
<1>1. PICK n \in Nat : n = Len(list)
  BY DEF Lists
<1>2. PICK more : more = Append(list, << >>)
  OBVIOUS
<1>3. Len(more) = n + 1 /\ more[n + 1] = << >> /\ \A i \in 1..n : more[i] = list[i]
  BY <1>1, <1>2, AppendProperties DEF Lists
<1>4. ASSUME NEW i \in Nat, NEW j \in Nat PROVE At(more, i, j) <=> At(list, i, j)
  <2>1. CASE i \in 1..n
    <3>1. i \in 1..(n + 1) /\ more[i] = list[i]
      BY <1>3, <2>1
    <3>2. QED BY <1>1, <1>3, <2>1, <3>1 DEF At
  <2>2. CASE i = n + 1
    <3>1. i \notin 1..n /\ Len(<< >>) = 0 /\ j \notin 1..0
      BY <2>2
    <3>2. QED BY <1>1, <1>3, <2>2, <3>1 DEF At
  <2>3. CASE i \notin 1..(n + 1)
    <3>1. i \notin 1..n
      BY <2>3
    <3>2. QED BY <1>1, <1>3, <2>3, <3>1 DEF At
  <2>4. QED BY <2>1, <2>2, <2>3
<1>5. ASSUME NEW i \in Nat, NEW j \in Nat, At(list, i, j) PROVE more[i][j] = list[i][j]
  BY <1>1, <1>3, <1>5 DEF At
<1>6. Once(more, S)
  BY <1>4, <1>5, OnceSame
<1>7. QED BY <1>2, <1>6

(* One list after the other.                                                 *)
Joined(all, a, b, n) ==
  /\ \A i, j \in Nat : At(all, i, j) <=> At(a, i, j) \/ (i > n /\ At(b, i - n, j))
  /\ \A i, j \in Nat : At(a, i, j) => i <= n /\ all[i][j] = a[i][j]
  /\ \A i, j \in Nat : i > n /\ At(b, i - n, j) => all[i][j] = b[i - n][j]

LEMMA JoinedIs ==
  ASSUME NEW a \in Lists, NEW b \in Lists
  PROVE  Len(a) \in Nat /\ Joined(a \o b, a, b, Len(a))
<1>1. PICK n \in Nat, m \in Nat : n = Len(a) /\ m = Len(b)
  BY DEF Lists
<1>2. PICK all : all = a \o b
  OBVIOUS
<1>3. /\ Len(all) = n + m
      /\ \A i \in 1..(n + m) : all[i] = IF i <= n THEN a[i] ELSE b[i - n]
  BY <1>1, <1>2, ConcatProperties DEF Lists
<1>4. ASSUME NEW i \in Nat
      PROVE  /\ i \in 1..n => i \in 1..(n + m) /\ all[i] = a[i] /\ i <= n /\ ~(i > n)
             /\ i > n /\ i - n \in 1..m => i \in 1..(n + m) /\ all[i] = b[i - n] /\ i \notin 1..n
             /\ i \in 1..(n + m) => i \in 1..n \/ (i > n /\ i - n \in 1..m)
  <2>1. i \in 1..n => i \in 1..(n + m) /\ i <= n /\ ~(i > n)
    OBVIOUS
  <2>2. i > n /\ i - n \in 1..m => i \in 1..(n + m) /\ ~(i <= n) /\ i \notin 1..n
    OBVIOUS
  <2>3. i \in 1..(n + m) => i \in 1..n \/ (i > n /\ i - n \in 1..m)
    OBVIOUS
  <2>4. QED BY <1>3, <2>1, <2>2, <2>3
<1>5. ASSUME NEW i \in Nat, NEW j \in Nat
      PROVE  At(all, i, j) <=> At(a, i, j) \/ (i > n /\ At(b, i - n, j))
  <2>1. CASE i \in 1..n
    BY <1>1, <1>3, <1>4, <2>1 DEF At
  <2>2. CASE i > n /\ i - n \in 1..m
    BY <1>1, <1>3, <1>4, <2>2 DEF At
  <2>3. CASE i \notin 1..(n + m)
    BY <1>1, <1>3, <1>4, <2>3 DEF At
  <2>4. QED BY <1>4, <2>1, <2>2, <2>3
<1>6. ASSUME NEW i \in Nat, NEW j \in Nat
      PROVE  /\ At(a, i, j) => i <= n /\ all[i][j] = a[i][j]
             /\ i > n /\ At(b, i - n, j) => all[i][j] = b[i - n][j]
  BY <1>1, <1>4 DEF At
<1>7. Joined(all, a, b, n)
  BY <1>5, <1>6 DEF Joined
<1>8. QED BY <1>1, <1>2, <1>7

LEMMA OnceJoined ==
  ASSUME NEW a, NEW b, NEW all, NEW n \in Nat, NEW S, NEW T, Joined(all, a, b, n),
         Once(a, S), Once(b, T), S \cap T = {}
  PROVE  Once(all, S \cup T)
<1>1. /\ \A i, j \in Nat : At(all, i, j) <=> At(a, i, j) \/ (i > n /\ At(b, i - n, j))
      /\ \A i, j \in Nat : At(a, i, j) => i <= n /\ all[i][j] = a[i][j]
      /\ \A i, j \in Nat : i > n /\ At(b, i - n, j) => all[i][j] = b[i - n][j]
  BY DEF Joined
<1>2. /\ \A i, j \in Nat : At(a, i, j) => a[i][j].of \in S
      /\ \A s \in S : \E i, j \in Nat : At(a, i, j) /\ a[i][j].of = s
      /\ \A i, j, k, l \in Nat :
           At(a, i, j) /\ At(a, k, l) /\ a[i][j].of = a[k][l].of => i = k /\ j = l
  BY DEF Once
<1>3. /\ \A i, j \in Nat : At(b, i, j) => b[i][j].of \in T
      /\ \A s \in T : \E i, j \in Nat : At(b, i, j) /\ b[i][j].of = s
      /\ \A i, j, k, l \in Nat :
           At(b, i, j) /\ At(b, k, l) /\ b[i][j].of = b[k][l].of => i = k /\ j = l
  BY DEF Once
<1>4. ASSUME NEW i \in Nat, NEW j \in Nat, At(all, i, j)
      PROVE  \/ At(a, i, j) /\ all[i][j].of = a[i][j].of /\ all[i][j].of \in S
             \/ /\ i > n /\ i - n \in Nat /\ At(b, i - n, j)
                /\ all[i][j].of = b[i - n][j].of /\ all[i][j].of \in T
  <2>1. CASE At(a, i, j)
    BY <1>1, <1>2, <2>1
  <2>2. CASE i > n /\ At(b, i - n, j)
    <3>1. i - n \in Nat
      BY <2>2
    <3>2. QED BY <1>1, <1>3, <2>2, <3>1
  <2>3. QED BY <1>1, <1>4, <2>1, <2>2
<1>5. ASSUME NEW s \in S \cup T PROVE \E i, j \in Nat : At(all, i, j) /\ all[i][j].of = s
  <2>1. CASE s \in S
    <3>1. PICK i \in Nat, j \in Nat : At(a, i, j) /\ a[i][j].of = s
      BY <1>2, <2>1
    <3>2. QED BY <1>1, <3>1
  <2>2. CASE s \in T
    <3>1. PICK k \in Nat, j \in Nat : At(b, k, j) /\ b[k][j].of = s
      BY <1>3, <2>2
    <3>2. PICK i \in Nat : i = n + k
      OBVIOUS
    <3>3. k \in 1..Len(b)
      BY <3>1 DEF At
    <3>4. i > n /\ i - n = k
      BY <3>2, <3>3
    <3>5. QED BY <1>1, <3>1, <3>4
  <2>3. QED BY <2>1, <2>2
<1>6. ASSUME NEW i \in Nat, NEW j \in Nat, NEW k \in Nat, NEW l \in Nat,
             At(all, i, j), At(all, k, l), all[i][j].of = all[k][l].of
      PROVE  i = k /\ j = l
  <2>1. CASE At(a, i, j) /\ At(a, k, l)
    <3>1. all[i][j] = a[i][j] /\ all[k][l] = a[k][l]
      BY <1>1, <2>1
    <3>2. a[i][j].of = a[k][l].of
      BY <1>6, <3>1
    <3>3. QED BY <1>2, <2>1, <3>2
  <2>2. CASE i > n /\ At(b, i - n, j) /\ k > n /\ At(b, k - n, l)
    <3>1. i - n \in Nat /\ k - n \in Nat /\ (i - n = k - n => i = k)
      BY <2>2
    <3>2. b[i - n][j].of = b[k - n][l].of
      BY <1>1, <1>6, <2>2
    <3>3. i - n = k - n /\ j = l
      BY <1>3, <2>2, <3>1, <3>2
    <3>4. QED BY <3>1, <3>3
  <2>3. QED BY <1>4, <1>6, <2>1, <2>2
<1>7. QED BY <1>4, <1>5, <1>6 DEF Once


(* The last row apart from the others.                                       *)
LEMMA EachOfRow ==
  ASSUME NEW row \in Seq(Items)
  PROVE  Encodings(row) = 1..Len(row) /\ row \in Seq(Answers)
<1>1. \A i \in 1..Len(row) : row[i] \in Items
  OBVIOUS
<1>2. row \in Seq(Answers)
  BY DEF Answers
<1>3. QED BY <1>1, <1>2 DEF Encodings

Parted(list, row, S) ==
  \E R, T : Once(list, R) /\ Each(row, T) /\ R \cap T = {} /\ R \cup T = S

LEMMA OnceApart ==
  ASSUME NEW list \in Lists, NEW row \in Seq(Items), NEW S, Once(Append(list, row), S)
  PROVE  Parted(list, row, S)
<1>1. PICK n \in Nat, m \in Nat : n = Len(list) /\ m = Len(row)
  BY DEF Lists
<1>2. PICK all : all = Append(list, row)
  OBVIOUS
<1>3. Len(all) = n + 1 /\ all[n + 1] = row /\ \A i \in 1..n : all[i] = list[i]
  BY <1>1, <1>2, AppendProperties DEF Lists
<1>4. /\ \A i, j \in Nat : At(all, i, j) => all[i][j].of \in S
      /\ \A s \in S : \E i, j \in Nat : At(all, i, j) /\ all[i][j].of = s
      /\ \A i, j, k, l \in Nat :
           At(all, i, j) /\ At(all, k, l) /\ all[i][j].of = all[k][l].of => i = k /\ j = l
  BY <1>2 DEF Once
<1>5. ASSUME NEW i \in Nat, NEW j \in Nat, At(list, i, j)
      PROVE  At(all, i, j) /\ all[i][j] = list[i][j] /\ i # n + 1
  <2>1. i \in 1..n /\ i \in 1..(n + 1) /\ i # n + 1
    BY <1>1, <1>5 DEF At
  <2>2. all[i] = list[i]
    BY <1>3, <2>1
  <2>3. QED BY <1>3, <1>5, <2>1, <2>2 DEF At
<1>6. ASSUME NEW j \in 1..m PROVE j \in Nat /\ At(all, n + 1, j) /\ all[n + 1][j] = row[j]
  <2>1. n + 1 \in 1..(n + 1) /\ j \in Nat
    OBVIOUS
  <2>2. QED BY <1>1, <1>3, <2>1 DEF At
<1>7. ASSUME NEW i \in Nat, NEW j \in Nat, At(all, i, j)
      PROVE  At(list, i, j) \/ (i = n + 1 /\ j \in 1..m)
  <2>1. i \in 1..(n + 1) /\ j \in 1..Len(all[i])
    BY <1>3, <1>7 DEF At
  <2>2. CASE i = n + 1
    BY <1>1, <1>3, <2>1, <2>2
  <2>3. CASE i # n + 1
    <3>1. i \in 1..n
      BY <2>1, <2>3
    <3>2. QED BY <1>1, <1>3, <2>1, <3>1 DEF At
  <2>4. QED BY <2>2, <2>3
<1>8. PICK T : T = {row[j].of : j \in 1..m}
  OBVIOUS
<1>9. PICK R : R = S \ T
  OBVIOUS
<1>10. T \subseteq S
  <2>1. ASSUME NEW j \in 1..m PROVE row[j].of \in S
    <3>1. n + 1 \in Nat
      OBVIOUS
    <3>2. QED BY <1>4, <1>6, <3>1
  <2>2. QED BY <1>8, <2>1
<1>11. Each(row, T)
  <2>1. Encodings(row) = 1..m
    BY <1>1, EachOfRow
  <2>2. ASSUME NEW i \in 1..m, NEW j \in 1..m, row[i].of = row[j].of PROVE i = j
    <3>1. n + 1 \in Nat
      OBVIOUS
    <3>2. all[n + 1][i].of = all[n + 1][j].of
      BY <1>6, <2>2
    <3>3. QED BY <1>4, <1>6, <3>1, <3>2
  <2>3. QED BY <1>8, <2>1, <2>2 DEF Each, Distinct, Holding
<1>12. Once(list, R)
  <2>1. ASSUME NEW i \in Nat, NEW j \in Nat, At(list, i, j) PROVE list[i][j].of \in R
    <3>1. list[i][j].of \in S
      BY <1>4, <1>5, <2>1
    <3>2. ASSUME NEW k \in 1..m, row[k].of = list[i][j].of PROVE FALSE
      <4>1. n + 1 \in Nat /\ k \in Nat /\ At(all, n + 1, k) /\ all[n + 1][k].of = all[i][j].of
        BY <1>5, <1>6, <2>1, <3>2
      <4>2. At(all, i, j) /\ i # n + 1
        BY <1>5, <2>1
      <4>3. QED BY <1>4, <4>1, <4>2
    <3>3. QED BY <1>8, <1>9, <3>1, <3>2
  <2>2. ASSUME NEW s \in R PROVE \E i, j \in Nat : At(list, i, j) /\ list[i][j].of = s
    <3>1. PICK i \in Nat, j \in Nat : At(all, i, j) /\ all[i][j].of = s
      BY <1>4, <1>9
    <3>2. ~(i = n + 1 /\ j \in 1..m)
      BY <1>6, <1>8, <1>9, <3>1
    <3>3. At(list, i, j)
      BY <1>7, <3>1, <3>2
    <3>4. QED BY <1>5, <3>1, <3>3
  <2>3. ASSUME NEW i \in Nat, NEW j \in Nat, NEW k \in Nat, NEW l \in Nat,
               At(list, i, j), At(list, k, l), list[i][j].of = list[k][l].of
        PROVE  i = k /\ j = l
    <3>1. /\ At(all, i, j) /\ all[i][j] = list[i][j]
          /\ At(all, k, l) /\ all[k][l] = list[k][l]
      BY <1>5, <2>3
    <3>2. all[i][j].of = all[k][l].of
      BY <2>3, <3>1
    <3>3. QED BY <1>4, <3>1, <3>2
  <2>4. QED BY <2>1, <2>2, <2>3 DEF Once
<1>13. R \cap T = {} /\ R \cup T = S
  BY <1>9, <1>10
<1>14. QED BY <1>11, <1>12, <1>13 DEF Parted

(* What was held back, followed by the answers of the next interval.         *)
LEMMA EachJoined ==
  ASSUME NEW a \in Seq(Answers), NEW b \in Seq(Answers), NEW S, NEW T,
         Each(a, S), Each(b, T), S \cap T = {}
  PROVE  Each(a \o b, S \cup T)
<1>1. PICK n \in Nat, m \in Nat : n = Len(a) /\ m = Len(b)
  OBVIOUS
<1>2. PICK all : all = a \o b
  OBVIOUS
<1>3. /\ Len(all) = n + m
      /\ \A i \in 1..(n + m) : all[i] = IF i <= n THEN a[i] ELSE b[i - n]
  BY <1>1, <1>2, ConcatProperties
<1>4. PICK EA, EB, E : EA = Encodings(a) /\ EB = Encodings(b) /\ E = Encodings(all)
  OBVIOUS
<1>5. EA \subseteq 1..n /\ EB \subseteq 1..m
  BY <1>1, <1>4 DEF Encodings
<1>6. ASSUME NEW i \in EA PROVE i \in E /\ all[i] = a[i] /\ a[i].of \in S
  <2>1. i \in 1..n /\ a[i] \in Items
    BY <1>1, <1>4 DEF Encodings
  <2>2. i \in 1..(n + m) /\ i <= n
    BY <2>1
  <2>3. all[i] = a[i]
    BY <1>3, <2>2
  <2>4. a[i].of \in S
    BY <1>4 DEF Each, Holding
  <2>5. QED BY <1>3, <1>4, <2>1, <2>2, <2>3, <2>4 DEF Encodings
<1>7. ASSUME NEW i \in EB PROVE n + i \in E /\ all[n + i] = b[i] /\ b[i].of \in T
  <2>1. i \in 1..m /\ b[i] \in Items
    BY <1>1, <1>4 DEF Encodings
  <2>2. n + i \in 1..(n + m) /\ ~(n + i <= n) /\ (n + i) - n = i
    BY <2>1
  <2>3. all[n + i] = b[i]
    BY <1>3, <2>2
  <2>4. b[i].of \in T
    BY <1>4 DEF Each, Holding
  <2>5. QED BY <1>3, <1>4, <2>1, <2>2, <2>3, <2>4 DEF Encodings
<1>8. ASSUME NEW i \in E PROVE i \in EA \/ \E j \in EB : i = n + j
  <2>1. i \in 1..(n + m) /\ all[i] \in Items
    BY <1>3, <1>4 DEF Encodings
  <2>2. CASE i <= n
    <3>1. i \in 1..n /\ all[i] = a[i]
      BY <1>3, <2>1, <2>2
    <3>2. QED BY <1>1, <1>4, <2>1, <3>1 DEF Encodings
  <2>3. CASE ~(i <= n)
    <3>1. i - n \in 1..m /\ i = n + (i - n)
      BY <2>1, <2>3
    <3>2. all[i] = b[i - n]
      BY <1>3, <2>1, <2>3
    <3>3. i - n \in EB
      BY <1>1, <1>4, <2>1, <3>1, <3>2 DEF Encodings
    <3>4. QED BY <3>1, <3>3
  <2>4. QED BY <2>2, <2>3
<1>9. Holding(all, E) = S \cup T
  <2>1. ASSUME NEW i \in E PROVE all[i].of \in S \cup T
    BY <1>6, <1>7, <1>8
  <2>2. ASSUME NEW s \in S PROVE \E i \in E : all[i].of = s
    <3>1. PICK i \in EA : a[i].of = s
      BY <1>4 DEF Each, Holding
    <3>2. QED BY <1>6, <3>1
  <2>3. ASSUME NEW t \in T PROVE \E i \in E : all[i].of = t
    <3>1. PICK i \in EB : b[i].of = t
      BY <1>4 DEF Each, Holding
    <3>2. QED BY <1>7, <3>1
  <2>4. QED BY <2>1, <2>2, <2>3 DEF Holding
<1>10. ASSUME NEW i \in E, NEW j \in E, all[i].of = all[j].of PROVE i = j
  <2>1. \A k, l \in EA : a[k].of = a[l].of => k = l
    BY <1>4 DEF Each, Distinct
  <2>2. \A k, l \in EB : b[k].of = b[l].of => k = l
    BY <1>4 DEF Each, Distinct
  <2>3. CASE i \in EA /\ j \in EA
    BY <1>6, <1>10, <2>1, <2>3
  <2>4. CASE i \in EA /\ \E l \in EB : j = n + l
    BY <1>6, <1>7, <1>10, <2>4
  <2>5. CASE j \in EA /\ \E k \in EB : i = n + k
    BY <1>6, <1>7, <1>10, <2>5
  <2>6. CASE \E k, l \in EB : i = n + k /\ j = n + l
    BY <1>7, <1>10, <2>2, <2>6
  <2>7. QED BY <1>8, <2>3, <2>4, <2>5, <2>6
<1>11. QED BY <1>2, <1>4, <1>9, <1>10 DEF Each, Distinct


-----------------------------------------------------------------------------
(* calculate_matched_group: the rows and what is held back have every sample *)
(* once, and nothing is held back of the last interval.                      *)
LEMMA MatchedTyped ==
  ASSUME NEW items \in Seq(Answers), NEW finished \in BOOLEAN
  PROVE  /\ MatchedGroup(items, finished) \in State
         /\ finished => MatchedGroup(items, finished).rest = << >>
         /\ AllShort(MatchedGroup(items, finished).rows)
         /\ \A T : Each(items, T) =>
              Once(Append(MatchedGroup(items, finished).rows,
                          MatchedGroup(items, finished).rest), T)
<1>1. PICK packed \in Seq(Row) :
        /\ packed = BinPacking(items) /\ AllShort(packed)
        /\ \A T : Each(items, T) => Once(packed, T)
  BY Packs
<1>2. MatchedGroup(items, finished) =
        IF finished \/ packed = << >> THEN [rows |-> packed, rest |-> << >>]
        ELSE [rows |-> Front(packed), rest |-> Last(packed)]
  BY <1>1 DEF MatchedGroup
<1>3. << >> \in Seq(Items)
  OBVIOUS
<1>4. CASE finished \/ packed = << >>
  <2>1. packed \in Lists
    BY DEF Row, Lists
  <2>2. \A T : Each(items, T) => Once(Append(packed, << >>), T)
    BY <1>1, <2>1, NothingMore
  <2>3. QED BY <1>1, <1>2, <1>3, <1>4, <2>2 DEF State
<1>5. CASE ~(finished \/ packed = << >>)
  <2>1. PICK n \in Nat : n = Len(packed) /\ n # 0
    BY <1>5
  <2>2. packed[n] \in Row /\ Last(packed) = packed[n]
    BY <2>1 DEF Last
  <2>3. PICK front : front = Front(packed)
    OBVIOUS
  <2>4. front \in Seq(Row) /\ Len(front) = n - 1 /\ \A i \in 1..n - 1 : front[i] = packed[i]
    <3>1. front = [i \in 1..n - 1 |-> packed[i]]
      BY <2>1, <2>3 DEF Front
    <3>2. \A i \in 1..n - 1 : packed[i] \in Row
      BY <2>1
    <3>3. n - 1 \in Nat /\ [i \in 1..n - 1 |-> packed[i]] \in [1..n - 1 -> Row]
      BY <2>1, <3>2
    <3>4. QED BY <3>1, <3>3
  <2>5. Last(packed) \in Seq(Items)
    BY <2>2 DEF Row
  <2>6. AllShort(front)
    <3>1. \A i \in 1..n - 1 : i \in 1..n
      BY <2>1
    <3>2. QED BY <1>1, <2>1, <2>4, <3>1 DEF AllShort
  <2>7. Append(front, packed[n]) = packed
    <3>1. PICK whole : whole = Append(front, packed[n])
      OBVIOUS
    <3>2. whole \in Seq(Row) /\ Len(whole) = n /\ whole[n] = packed[n]
          /\ \A i \in 1..n - 1 : whole[i] = front[i]
      <4>1. Append(front, packed[n]) \in Seq(Row) /\ Len(Append(front, packed[n])) = (n - 1) + 1
            /\ Append(front, packed[n])[(n - 1) + 1] = packed[n]
            /\ \A i \in 1..n - 1 : Append(front, packed[n])[i] = front[i]
        BY <2>2, <2>4, AppendProperties
      <4>2. (n - 1) + 1 = n
        BY <2>1
      <4>3. QED BY <3>1, <4>1, <4>2
    <3>3. \A i \in 1..n : whole[i] = packed[i]
      <4>1. \A i \in 1..n : i = n \/ i \in 1..n - 1
        BY <2>1
      <4>2. QED BY <2>4, <3>2, <4>1
    <3>4. whole = packed
      BY <2>1, <3>2, <3>3, SeqEqual
    <3>5. QED BY <3>1, <3>4
  <2>8. \A T : Each(items, T) => Once(Append(front, packed[n]), T)
    BY <1>1, <2>7
  <2>9. QED BY <1>2, <1>5, <2>2, <2>3, <2>4, <2>5, <2>6, <2>8 DEF State
<1>6. QED BY <1>4, <1>5

(* One division for all that follows.                                       *)
LEMMA Division ==
  ASSUME NEW N \in Nat, NEW P \in Nat \ {0}
  PROVE  /\ N \div P \in Nat
         /\ P * (N \div P) <= N
         /\ N < P * (N \div P) + P
         /\ \A K \in Nat : K * P <= N => K <= N \div P
<1>1. PICK q \in Int : q = N \div P
  OBVIOUS
<1>2. P * q <= N /\ N < P * (q + 1)
  BY <1>1
<1>3. P * (q + 1) = P * q + P
  OBVIOUS
<1>4. q >= 0
  <2>1. q < 0 => P * (q + 1) <= 0
    OBVIOUS
  <2>2. QED BY <1>2, <2>1
<1>5. ASSUME NEW K \in Nat, K * P <= N PROVE K <= q
  <2>1. K >= q + 1 => K * P >= (q + 1) * P
    BY <1>4
  <2>2. QED BY <1>2, <1>5, <2>1
<1>6. QED BY <1>1, <1>2, <1>3, <1>4, <1>5

LEMMA EncodedTyped ==
  ASSUME NEW D \in Seq(Int), NEW s \in 1..Len(D)
  PROVE  Encoded(D, s) \in Answers
<1>1. D[s] \in Int /\ s \in Nat
  OBVIOUS
<1>2. QED BY <1>1 DEF Encoded, Answers, Items

(* The intervals divide the dataset, and only the last one is not full.     *)
LEMMA SizeIs ==
  ASSUME NEW D \in Seq(Int), NEW k \in Nat, k < Intervals(D)
  PROVE  /\ Size(D, k) \in Nat
         /\ Size(D, k) <= PackingInterval
         /\ k * PackingInterval + Size(D, k) <= Len(D)
<1>1. PICK N \in Nat : N = Len(D)
  OBVIOUS
<1>2. PICK P \in Nat \ {0} : P = PackingInterval
  BY PackingConstants
<1>3. PICK q \in Nat : q = N \div P
  BY Division
<1>4. k <= q
  BY <1>1, <1>2, <1>3 DEF Intervals
<1>5. P * q <= N
  BY <1>3, Division
<1>6. PICK kP \in Nat : kP = k * P
  OBVIOUS
<1>7. kP <= N
  <2>1. k * P <= q * P
    BY <1>4
  <2>2. QED BY <1>5, <1>6, <2>1
<1>8. Size(D, k) = IF N - kP < P THEN N - kP ELSE P
  BY <1>1, <1>2, <1>6 DEF Size
<1>9. PICK n : n = Size(D, k)
  OBVIOUS
<1>10. n \in Nat /\ n <= P /\ kP + n <= N
  BY <1>7, <1>8, <1>9
<1>11. k * PackingInterval = kP
  BY <1>2, <1>6
<1>12. QED BY <1>1, <1>2, <1>9, <1>10, <1>11

LEMMA IntervalTyped ==
  ASSUME NEW D \in Seq(Int), NEW k \in Nat, k < Intervals(D)
  PROVE  Interval(D, k) \in Seq(Answers)
<1>1. PICK n \in Nat : n = Size(D, k)
  BY SizeIs
<1>2. PICK b \in Nat : b = k * PackingInterval
  BY PackingConstants
<1>3. b + n <= Len(D)
  BY <1>1, <1>2, SizeIs
<1>4. ASSUME NEW i \in 1..n PROVE Encoded(D, b + i) \in Answers
  <2>1. b + i \in 1..Len(D)
    BY <1>3
  <2>2. QED BY <2>1, EncodedTyped
<1>5. Interval(D, k) = [i \in 1..n |-> Encoded(D, b + i)]
  BY <1>1, <1>2 DEF Interval
<1>6. QED BY <1>4, <1>5

LEMMA AfterTyped ==
  ASSUME NEW D \in Seq(Int), NEW k \in Nat, k < Intervals(D), NEW before \in State
  PROVE  AfterInterval(D, before, k) \in State
<1>1. PICK items : items = before.rest \o Interval(D, k)
  OBVIOUS
<1>2. before.rest \in Seq(Answers) /\ before.rows \in Seq(Row)
  BY DEF State, Answers
<1>3. items \in Seq(Answers)
  BY <1>1, <1>2, IntervalTyped
<1>4. PICK grouped \in State : grouped = MatchedGroup(items, Size(D, k) # PackingInterval)
  <2>1. (Size(D, k) # PackingInterval) \in BOOLEAN
    OBVIOUS
  <2>2. QED BY <1>3, <2>1, MatchedTyped
<1>5. AfterInterval(D, before, k) = [rows |-> before.rows \o grouped.rows, rest |-> grouped.rest]
  BY <1>1, <1>4 DEF AfterInterval
<1>6. grouped.rows \in Seq(Row) /\ grouped.rest \in Seq(Items)
  BY <1>4 DEF State
<1>7. before.rows \o grouped.rows \in Seq(Row)
  BY <1>2, <1>6
<1>8. QED BY <1>5, <1>6, <1>7 DEF State

Start == [rows |-> << >>, rest |-> << >>]

LEMMA StartTyped == Start \in State
<1>1. << >> \in Seq(Row) /\ << >> \in Seq(Items)
  OBVIOUS
<1>2. QED BY <1>1 DEF Start, State

LEMMA IntervalsCount ==
  ASSUME NEW D \in Seq(Int)
  PROVE  Intervals(D) \in Nat /\ 0 < Intervals(D)
<1>1. PICK N \in Nat : N = Len(D)
  OBVIOUS
<1>2. N \div PackingInterval \in Nat
  BY PackingConstants, Division
<1>3. QED BY <1>1, <1>2 DEF Intervals

LEMMA GroupedSteps ==
  ASSUME NEW D \in Seq(Int)
  PROVE  /\ Grouped(D)[0] = Start
         /\ \A k \in Nat : k < Intervals(D) =>
              Grouped(D)[k + 1] = AfterInterval(D, Grouped(D)[k], k)
<1>1. PICK n \in Nat : n = Intervals(D)
  BY IntervalsCount
<1> DEFINE step == [p \in State \X (1..n) |-> AfterInterval(D, p[1], p[2] - 1)]
           Groups(f) == f = [k \in 0..n |-> IF k = 0 THEN Start
                                            ELSE AfterInterval(D, f[k - 1], k - 1)]
           after == CHOOSE f : Groups(f)
<1>2. step \in [State \X (1..n) -> State]
  <2>1. ASSUME NEW before \in State, NEW i \in 1..n PROVE AfterInterval(D, before, i - 1) \in State
    <3>1. i - 1 \in Nat /\ i - 1 < Intervals(D)
      BY <1>1
    <3>2. QED BY <3>1, AfterTyped
  <2>2. QED BY <2>1
<1>3. PICK f \in [0..n -> State] : Runs(f, n, Start, step)
  <2> HIDE DEF step
  <2> QED BY <1>2, StartTyped, Iterates
<1>4. \A i \in 0..n : f[i] = IF i = 0 THEN Start ELSE AfterInterval(D, f[i - 1], i - 1)
  <2> SUFFICES ASSUME NEW i \in 0..n, i # 0 PROVE f[i] = AfterInterval(D, f[i - 1], i - 1)
    <3> HIDE DEF step
    <3> QED BY <1>3 DEF Runs
  <2>1. i \in 1..n /\ i - 1 \in 0..n
    OBVIOUS
  <2>2. <<f[i - 1], i>> \in State \X (1..n)
    BY <1>3, <2>1
  <2>3. step[<<f[i - 1], i>>] = AfterInterval(D, f[i - 1], i - 1)
    BY <2>2
  <2> HIDE DEF step
  <2>4. QED BY <1>3, <2>1, <2>3 DEF Runs
<1>5. Groups(after)
  <2>1. Groups(f)
    BY <1>3, <1>4
  <2> HIDE DEF Groups
  <2>2. QED BY <2>1
<1>6. Grouped(D) = after
  BY <1>1 DEF Grouped, Start
<1> HIDE DEF after
<1>7. after[0] = Start
  BY <1>5
<1>8. ASSUME NEW k \in Nat, k < n PROVE after[k + 1] = AfterInterval(D, after[k], k)
  <2>1. k + 1 \in 0..n /\ k + 1 # 0 /\ (k + 1) - 1 = k
    BY <1>8
  <2>2. QED BY <1>5, <2>1
<1>9. QED BY <1>1, <1>6, <1>7, <1>8

LEMMA GroupedTyped ==
  ASSUME NEW D \in Seq(Int), NEW k \in Nat, k <= Intervals(D)
  PROVE  Grouped(D)[k] \in State
<1>1. PICK n \in Nat : n = Intervals(D)
  BY IntervalsCount
<1>2. PICK P : P = {i \in Nat : Grouped(D)[i] \in State}
  OBVIOUS
<1>3. 0 \in P
  BY <1>2, GroupedSteps, StartTyped
<1>4. ASSUME NEW i \in Nat, i < n, i \in P PROVE i + 1 \in P
  <2>1. AfterInterval(D, Grouped(D)[i], i) \in State
    BY <1>1, <1>2, <1>4, AfterTyped
  <2>2. QED BY <1>1, <1>2, <1>4, <2>1, GroupedSteps
<1>5. 0..n \subseteq P
  BY <1>3, <1>4, UpTo
<1>6. QED BY <1>1, <1>2, <1>5

-----------------------------------------------------------------------------
(* The rows of the first k intervals, and what is held back of them, have    *)
(* every sample of these intervals that can be encoded once.                 *)
Upto(D, k) == {s \in 1..Len(D) : s <= k * PackingInterval /\ D[s] > 0}

Held(D, k) ==
  /\ AllShort(Grouped(D)[k].rows)
  /\ Once(Append(Grouped(D)[k].rows, Grouped(D)[k].rest), Upto(D, k))

LEMMA EncodedIs ==
  ASSUME NEW D \in Seq(Int), NEW s \in 1..Len(D)
  PROVE  /\ Encoded(D, s) \in Items <=> D[s] > 0
         /\ D[s] > 0 => Encoded(D, s).of = s
<1>1. D[s] \in Int /\ s \in Nat
  OBVIOUS
<1>2. CASE D[s] > 0
  <2>1. Encoded(D, s) = [of |-> s, length |-> D[s]]
    BY <1>2 DEF Encoded
  <2>2. [of |-> s, length |-> D[s]] \in Items
    BY <1>1, <1>2 DEF Items
  <2>3. QED BY <1>2, <2>1, <2>2
<1>3. CASE ~(D[s] > 0)
  <2>1. Encoded(D, s) = Failed
    BY <1>3 DEF Encoded
  <2>2. Failed.length = 0
    BY DEF Failed
  <2>3. Failed \notin Items
    BY <2>2 DEF Items
  <2>4. QED BY <1>3, <2>1, <2>3
<1>4. QED BY <1>2, <1>3

LEMMA NextInterval ==
  ASSUME NEW N \in Nat, NEW P \in Nat \ {0}, NEW kP \in Nat, NEW n, kP <= N,
         n = IF N - kP < P THEN N - kP ELSE P
  PROVE  /\ n \in Nat
         /\ \A i \in 1..n : kP + i \in 1..N /\ kP + i <= kP + P /\ ~(kP + i <= kP)
         /\ \A s \in 1..N : s <= kP + P /\ ~(s <= kP) => s - kP \in 1..n /\ kP + (s - kP) = s
<1>1. n \in Nat /\ n <= P /\ kP + n <= N
  OBVIOUS
<1>2. \A i \in 1..n : kP + i \in 1..N /\ kP + i <= kP + P /\ ~(kP + i <= kP)
  BY <1>1
<1>3. ASSUME NEW s \in 1..N, s <= kP + P, ~(s <= kP) PROVE s - kP \in 1..n /\ kP + (s - kP) = s
  <2>1. s - kP \in Nat \ {0} /\ s - kP <= P /\ s - kP <= N - kP
    BY <1>3
  <2>2. QED BY <1>1, <2>1
<1>4. QED BY <1>1, <1>2, <1>3

LEMMA IntervalEach ==
  ASSUME NEW D \in Seq(Int), NEW k \in Nat, k < Intervals(D)
  PROVE  Each(Interval(D, k), Upto(D, k + 1) \ Upto(D, k))
<1>1. PICK N \in Nat : N = Len(D)
  OBVIOUS
<1>2. PICK P \in Nat \ {0} : P = PackingInterval
  BY PackingConstants
<1>3. PICK kP \in Nat : kP = k * PackingInterval
  BY PackingConstants
<1>4. PICK n : n = Size(D, k)
  OBVIOUS
<1>5. n = IF N - kP < P THEN N - kP ELSE P
  BY <1>1, <1>2, <1>3, <1>4 DEF Size
<1>6. kP <= N
  <2>1. n \in Nat /\ kP + n <= N
    BY <1>1, <1>3, <1>4, SizeIs
  <2>2. QED BY <2>1
<1>7. /\ n \in Nat
      /\ \A i \in 1..n : kP + i \in 1..N /\ kP + i <= kP + P /\ ~(kP + i <= kP)
      /\ \A s \in 1..N : s <= kP + P /\ ~(s <= kP) => s - kP \in 1..n /\ kP + (s - kP) = s
  BY <1>5, <1>6, NextInterval
<1>8. (k + 1) * PackingInterval = kP + P
  BY <1>2, <1>3
<1>9. PICK new : new = Interval(D, k)
  OBVIOUS
<1>10. new = [i \in 1..n |-> Encoded(D, kP + i)]
  BY <1>3, <1>4, <1>9 DEF Interval
<1>11. Len(new) = n /\ \A i \in 1..n : new[i] = Encoded(D, kP + i)
  BY <1>7, <1>10
<1>12. \A i \in 1..n : /\ new[i] \in Items <=> D[kP + i] > 0
                       /\ D[kP + i] > 0 => new[i].of = kP + i
  BY <1>1, <1>7, <1>11, EncodedIs
<1>13. Encodings(new) = {i \in 1..n : D[kP + i] > 0}
  BY <1>11, <1>12 DEF Encodings
<1>14. PICK U : U = Upto(D, k + 1) \ Upto(D, k)
  OBVIOUS
<1>15. U = {s \in 1..N : s <= kP + P /\ ~(s <= kP) /\ D[s] > 0}
  BY <1>1, <1>3, <1>8, <1>14 DEF Upto
<1>16. Distinct(new)
  <2> SUFFICES ASSUME NEW i \in Encodings(new), NEW j \in Encodings(new), new[i].of = new[j].of
               PROVE  i = j
    BY DEF Distinct
  <2>1. i \in 1..n /\ j \in 1..n /\ new[i].of = kP + i /\ new[j].of = kP + j
    BY <1>12, <1>13
  <2>2. kP + i = kP + j
    BY <2>1
  <2>3. i \in Nat /\ j \in Nat
    BY <2>1
  <2>4. QED BY <2>2, <2>3
<1>17. Holding(new, Encodings(new)) = U
  <2>1. ASSUME NEW i \in Encodings(new) PROVE new[i].of \in U
    <3>1. i \in 1..n /\ D[kP + i] > 0 /\ new[i].of = kP + i
      BY <1>12, <1>13
    <3>2. QED BY <1>7, <1>15, <3>1
  <2>2. ASSUME NEW s \in U PROVE \E i \in Encodings(new) : new[i].of = s
    <3>1. s \in 1..N /\ s <= kP + P /\ ~(s <= kP) /\ D[s] > 0
      BY <1>15
    <3>2. PICK i \in 1..n : kP + i = s
      BY <1>7, <3>1
    <3>3. QED BY <1>12, <1>13, <3>1, <3>2
  <2>3. QED BY <2>1, <2>2 DEF Holding
<1>18. QED BY <1>9, <1>14, <1>16, <1>17 DEF Each

LEMMA RowsThenRest ==
  ASSUME NEW a \in Lists, NEW b \in Lists, NEW row \in Seq(Items)
  PROVE  a \o Append(b, row) = Append(a \o b, row)
<1>1. a \in Seq(Seq(Items)) /\ b \in Seq(Seq(Items))
  BY DEF Lists
<1>2. <<row>> \in Seq(Seq(Items))
  OBVIOUS
<1>3. a \o b \in Seq(Seq(Items))
  BY <1>1, ConcatProperties
<1>4. Append(b, row) = b \o <<row>> /\ Append(a \o b, row) = (a \o b) \o <<row>>
  BY <1>1, <1>3, AppendIsConcat
<1>5. QED BY <1>1, <1>2, <1>4, ConcatAssociative

LEMMA AllShortJoined ==
  ASSUME NEW a \in Seq(Row), NEW b \in Seq(Row), AllShort(a), AllShort(b)
  PROVE  AllShort(a \o b)
<1>1. PICK n \in Nat, m \in Nat : n = Len(a) /\ m = Len(b)
  OBVIOUS
<1>2. /\ Len(a \o b) = n + m
      /\ \A i \in 1..(n + m) : (a \o b)[i] = IF i <= n THEN a[i] ELSE b[i - n]
  BY <1>1, ConcatProperties
<1>3. ASSUME NEW i \in 1..(n + m) PROVE Short((a \o b)[i])
  <2>1. CASE i <= n
    <3>1. i \in 1..n
      BY <2>1
    <3>2. QED BY <1>1, <1>2, <2>1, <3>1 DEF AllShort
  <2>2. CASE ~(i <= n)
    <3>1. i - n \in 1..m
      BY <2>2
    <3>2. QED BY <1>1, <1>2, <2>2, <3>1 DEF AllShort
  <2>3. QED BY <2>1, <2>2
<1>4. QED BY <1>2, <1>3 DEF AllShort

LEMMA HeldStep ==
  ASSUME NEW D \in Seq(Int), NEW k \in Nat, k < Intervals(D), Held(D, k)
  PROVE  /\ Held(D, k + 1)
         /\ Size(D, k) # PackingInterval => Grouped(D)[k + 1].rest = << >>
<1>1. PICK before \in State : before = Grouped(D)[k]
  BY GroupedTyped, IntervalsCount
<1>2. before.rows \in Seq(Row) /\ before.rest \in Seq(Items)
  BY DEF State
<1>3. PICK kept, rest : kept = before.rows /\ rest = before.rest
  OBVIOUS
<1>4. kept \in Seq(Row) /\ kept \in Lists /\ rest \in Seq(Items)
  BY <1>2, <1>3 DEF Row, Lists
<1>5. AllShort(kept) /\ Once(Append(kept, rest), Upto(D, k))
  BY <1>1, <1>3 DEF Held
<1>6. PICK R, T : Once(kept, R) /\ Each(rest, T) /\ R \cap T = {} /\ R \cup T = Upto(D, k)
  <2>1. PICK S : S = Upto(D, k)
    OBVIOUS
  <2>2. Once(Append(kept, rest), S)
    BY <1>5, <2>1
  <2>3. Parted(kept, rest, S)
    BY <1>4, <2>2, OnceApart
  <2>4. QED BY <2>1, <2>3 DEF Parted
<1>7. PICK U : U = Upto(D, k + 1) \ Upto(D, k)
  OBVIOUS
<1>8. PICK new \in Seq(Answers) : new = Interval(D, k) /\ Each(new, U)
  BY <1>7, IntervalTyped, IntervalEach
<1>9. rest \in Seq(Answers)
  BY <1>4, EachOfRow
<1>10. T \cap U = {} /\ R \cap (T \cup U) = {}
  BY <1>6, <1>7
<1>11. Each(rest \o new, T \cup U)
  BY <1>6, <1>8, <1>9, <1>10, EachJoined
<1>12. PICK items \in Seq(Answers) : items = rest \o new
  BY <1>8, <1>9, ConcatProperties
<1>13. PICK finished \in BOOLEAN : finished = (Size(D, k) # PackingInterval)
  OBVIOUS
<1>14. PICK grouped \in State :
         /\ grouped = MatchedGroup(items, finished)
         /\ finished => grouped.rest = << >>
         /\ AllShort(grouped.rows)
         /\ Once(Append(grouped.rows, grouped.rest), T \cup U)
  BY <1>11, <1>12, MatchedTyped
<1>15. PICK rows2, rest2 : rows2 = grouped.rows /\ rest2 = grouped.rest
  OBVIOUS
<1>16. rows2 \in Seq(Row) /\ rows2 \in Lists /\ rest2 \in Seq(Items)
  BY <1>14, <1>15 DEF State, Row, Lists
<1>17. Grouped(D)[k + 1] = [rows |-> kept \o rows2, rest |-> rest2]
  <2>1. Grouped(D)[k + 1] = AfterInterval(D, before, k)
    BY <1>1, GroupedSteps
  <2>2. AfterInterval(D, before, k) = [rows |-> kept \o rows2, rest |-> rest2]
    BY <1>3, <1>8, <1>12, <1>13, <1>14, <1>15 DEF AfterInterval
  <2>3. QED BY <2>1, <2>2
<1>18. Once(Append(kept \o rows2, rest2), Upto(D, k + 1))
  <2>1. PICK more \in Lists : more = Append(rows2, rest2)
    BY <1>16, AppendProperties DEF Lists
  <2>2. Once(more, T \cup U)
    BY <1>14, <1>15, <2>1
  <2>3. Len(kept) \in Nat /\ Joined(kept \o more, kept, more, Len(kept))
    BY <1>4, <2>1, JoinedIs
  <2>4. Once(kept \o more, R \cup (T \cup U))
    BY <1>6, <1>10, <2>2, <2>3, OnceJoined
  <2>5. R \cup (T \cup U) = Upto(D, k + 1)
    <3>1. Upto(D, k) \subseteq Upto(D, k + 1)
      <4>1. k * PackingInterval \in Nat /\ PackingInterval \in Nat
        BY PackingConstants
      <4>2. (k + 1) * PackingInterval = k * PackingInterval + PackingInterval
        BY PackingConstants
      <4>3. PICK x \in Nat, y \in Nat :
              x = k * PackingInterval /\ y = (k + 1) * PackingInterval /\ x <= y
        BY <4>1, <4>2
      <4>4. ASSUME NEW s \in 1..Len(D), s <= x PROVE s <= y
        BY <4>3, <4>4
      <4>5. QED BY <4>3, <4>4 DEF Upto
    <3>2. QED BY <1>6, <1>7, <3>1
  <2>6. kept \o more = Append(kept \o rows2, rest2)
    BY <1>4, <1>16, <2>1, RowsThenRest
  <2>7. QED BY <2>4, <2>5, <2>6
<1>19. AllShort(kept \o rows2)
  BY <1>4, <1>5, <1>14, <1>15, <1>16, AllShortJoined
<1>20. Held(D, k + 1)
  BY <1>17, <1>18, <1>19 DEF Held
<1>21. Size(D, k) # PackingInterval => Grouped(D)[k + 1].rest = << >>
  <2>1. Grouped(D)[k + 1].rest = rest2
    BY <1>17
  <2>2. QED BY <1>13, <1>14, <1>15, <2>1
<1>22. QED BY <1>20, <1>21

LEMMA AllHeld ==
  ASSUME NEW D \in Seq(Int), NEW k \in Nat, k <= Intervals(D)
  PROVE  Held(D, k)
<1>1. PICK n \in Nat : n = Intervals(D)
  BY IntervalsCount
<1>2. PICK P : P = {i \in Nat : Held(D, i)}
  OBVIOUS
<1>3. 0 \in P
  <2>1. << >> \in Lists /\ Len(<< >>) = 0
    BY DEF Lists
  <2>2. AllShort(<< >>)
    BY <2>1 DEF AllShort
  <2>3. Once(<< >>, {})
    BY <2>1 DEF Once, At
  <2>4. Once(Append(<< >>, << >>), {})
    BY <2>1, <2>3, NothingMore
  <2>5. Upto(D, 0) = {}
    <3>1. 0 * PackingInterval = 0
      BY PackingConstants
    <3>2. QED BY <3>1 DEF Upto
  <2>6. Held(D, 0)
    <3>1. Grouped(D)[0].rows = << >> /\ Grouped(D)[0].rest = << >>
      BY GroupedSteps DEF Start
    <3>2. QED BY <2>2, <2>4, <2>5, <3>1 DEF Held
  <2>7. QED BY <1>2, <2>6
<1>4. \A i \in Nat : i < n /\ i \in P => i + 1 \in P
  BY <1>1, <1>2, HeldStep
<1>5. 0..n \subseteq P
  BY <1>3, <1>4, UpTo
<1>6. QED BY <1>1, <1>2, <1>5

-----------------------------------------------------------------------------
(* The samples of all rows, one after the other.                             *)
LEMMA FunctionIsSeq ==
  ASSUME NEW T, NEW n \in Nat, NEW f \in [1..n -> T]
  PROVE  f \in Seq(T) /\ Len(f) = n /\ DOMAIN f = 1..n
<1>1. f \in Seq(T)
  BY SeqDef
<1>2. Len(f) \in Nat /\ DOMAIN f = 1..Len(f)
  BY <1>1, LenProperties
<1>3. 1..Len(f) = 1..n
  BY <1>2
<1>4. QED BY <1>1, <1>2, <1>3

Joins(f, n, lists) == f[0] = << >> /\ \A i \in 1..n : f[i] = f[i - 1] \o lists[i]

(* FlattenSeq appends one list after the other.                             *)
LEMMA JoinRuns ==
  ASSUME NEW T, NEW n \in Nat \ {0}, NEW lists \in [1..n -> Seq(T)]
  PROVE  \E f \in [0..n -> Seq(T)] : Joins(f, n, lists) /\ FlattenSeq(lists) = f[n]
<1> DEFINE X == Seq(T)
           grow == [p \in X \X (1..n) |-> p[1] \o lists[p[2]]]
           Flat(h) == h = [i \in 1..n |-> IF i = 1 THEN lists[i] ELSE h[i - 1] \o lists[i]]
           flat == CHOOSE h : Flat(h)
<1>1. << >> \in X
  OBVIOUS
<1>2. grow \in [X \X (1..n) -> X]
  <2>1. ASSUME NEW x \in X, NEW i \in 1..n PROVE x \o lists[i] \in X
    <3>1. lists[i] \in X
      OBVIOUS
    <3>2. QED BY <3>1, ConcatProperties
  <2> HIDE DEF X
  <2>2. QED BY <2>1
<1>3. PICK f \in [0..n -> X] : Runs(f, n, << >>, grow)
  <2> HIDE DEF grow, X
  <2> QED BY <1>1, <1>2, Iterates
<1> HIDE DEF X
<1>4. f[0] = << >> /\ \A i \in 1..n : f[i] = f[i - 1] \o lists[i]
  <2>1. f[0] = << >>
    <3> HIDE DEF grow
    <3>1. 0 \in 0..n
      OBVIOUS
    <3>2. QED BY <1>3, <3>1 DEF Runs
  <2>2. ASSUME NEW i \in 1..n PROVE f[i] = f[i - 1] \o lists[i]
    <3>1. i \in 0..n /\ i # 0 /\ i - 1 \in 0..n
      OBVIOUS
    <3>2. <<f[i - 1], i>> \in X \X (1..n)
      BY <1>3, <3>1
    <3>3. grow[<<f[i - 1], i>>] = f[i - 1] \o lists[i]
      BY <3>2
    <3> HIDE DEF grow
    <3>4. f[i] = grow[<<f[i - 1], i>>]
      BY <1>3, <3>1 DEF Runs
    <3>5. QED BY <3>3, <3>4
  <2>3. QED BY <2>1, <2>2
<1>5. f[1] = lists[1]
  <2>1. 1 \in 1..n /\ 1 - 1 = 0
    OBVIOUS
  <2>2. lists[1] \in Seq(T)
    BY <2>1
  <2>3. << >> \o lists[1] = lists[1]
    BY <2>2, ConcatEmptySeq
  <2>4. QED BY <1>4, <2>1, <2>3
<1>6. Flat(flat)
  <2>1. PICK g : g = [i \in 1..n |-> f[i]]
    OBVIOUS
  <2>2. \A i \in 1..n : g[i] = IF i = 1 THEN lists[i] ELSE g[i - 1] \o lists[i]
    <3>1. ASSUME NEW i \in 1..n, i # 1 PROVE g[i] = g[i - 1] \o lists[i]
      <4>1. i - 1 \in 1..n
        BY <3>1
      <4>2. QED BY <1>4, <2>1, <4>1
    <3>2. QED BY <1>5, <2>1, <3>1
  <2>3. Flat(g)
    BY <2>1, <2>2
  <2> HIDE DEF Flat
  <2>4. QED BY <2>3
<1>7. lists \in Seq(Seq(T)) /\ Len(lists) = n
  BY FunctionIsSeq
<1>8. FlattenSeq(lists) = flat[n]
  BY <1>7 DEF FlattenSeq
<1> HIDE DEF flat
<1> DEFINE P == {i \in Nat : i >= 1 /\ i <= n => flat[i] = f[i]}
<1>9. 0 \in P
  OBVIOUS
<1>10. ASSUME NEW i \in Nat, i < n, i \in P PROVE i + 1 \in P
  <2>1. i + 1 \in 1..n /\ (i + 1) - 1 = i
    BY <1>10
  <2>2. flat[i + 1] = IF i + 1 = 1 THEN lists[i + 1] ELSE flat[i] \o lists[i + 1]
    BY <1>6, <2>1
  <2>3. f[i + 1] = f[i] \o lists[i + 1]
    BY <1>4, <2>1
  <2>4. CASE i = 0
    BY <1>5, <2>2, <2>4
  <2>5. CASE i # 0
    <3>1. flat[i] = f[i]
      BY <1>10, <2>5
    <3>2. i + 1 # 1
      BY <2>5
    <3>3. flat[i + 1] = flat[i] \o lists[i + 1]
      BY <2>2, <3>2
    <3>4. flat[i + 1] = f[i + 1]
      BY <2>3, <3>1, <3>3
    <3>5. QED BY <3>4
  <2>6. QED BY <2>4, <2>5
<1> HIDE DEF P
<1>11. n \in P
  <2>1. 0..n \subseteq P
    BY <1>9, <1>10, UpTo
  <2>2. QED BY <2>1
<1>12. flat[n] = f[n]
  BY <1>11 DEF P
<1>13. QED BY <1>3, <1>4, <1>8, <1>12 DEF X, Joins

OfSeq(flat) == {flat[i].of : i \in 1..Len(flat)}
Counted(flat, S) == IsFiniteSet(S) /\ Len(flat) = Cardinality(S) /\ OfSeq(flat) = S

LEMMA RowCounted ==
  ASSUME NEW list, NEW S, Once(list, S), NEW i \in Nat, i \in 1..Len(list), list[i] \in Seq(Items)
  PROVE  Counted(list[i], OfSeq(list[i]))
<1>1. PICK row \in Seq(Items), m \in Nat : row = list[i] /\ m = Len(row)
  OBVIOUS
<1>2. PICK T : T = OfSeq(row)
  OBVIOUS
<1>3. T = {row[j].of : j \in 1..m}
  BY <1>1, <1>2 DEF OfSeq
<1>4. ASSUME NEW j \in 1..m, NEW l \in 1..m, row[j].of = row[l].of PROVE j = l
  <2>1. At(list, i, j) /\ At(list, i, l) /\ j \in Nat /\ l \in Nat
    BY <1>1 DEF At
  <2>2. list[i][j].of = list[i][l].of
    BY <1>1, <1>4
  <2>3. QED BY <2>1, <2>2 DEF Once
<1>5. PICK b : b = [j \in 1..m |-> row[j].of]
  OBVIOUS
<1>6. b \in [1..m -> T] /\ (\A j, l \in 1..m : b[j] = b[l] => j = l) /\ \A t \in T : \E j \in 1..m : b[j] = t
  BY <1>3, <1>4, <1>5
<1>7. b \in Bijection(1..m, T)
  BY <1>6 DEF Bijection, Injection, Surjection, IsInjective
<1>8. IsFiniteSet(1..m) /\ Cardinality(1..m) = m
  <2>1. Cardinality(1..m) = IF 1 > m THEN 0 ELSE m - 1 + 1
    BY FS_Interval
  <2>2. QED BY <2>1, FS_Interval
<1>9. IsFiniteSet(T) /\ Cardinality(T) = Cardinality(1..m)
  BY <1>7, <1>8, FS_Bijection DEF ExistsBijection
<1>10. QED BY <1>1, <1>2, <1>8, <1>9 DEF Counted

LEMMA CountedJoined ==
  ASSUME NEW a \in Seq(Items), NEW b \in Seq(Items), NEW S, NEW T,
         Counted(a, S), Counted(b, T), S \cap T = {}
  PROVE  Counted(a \o b, S \cup T)
<1>1. PICK n \in Nat, m \in Nat : n = Len(a) /\ m = Len(b)
  OBVIOUS
<1>2. PICK all : all = a \o b
  OBVIOUS
<1>3. /\ Len(all) = n + m
      /\ \A i \in 1..(n + m) : all[i] = IF i <= n THEN a[i] ELSE b[i - n]
  BY <1>1, <1>2, ConcatProperties
<1>4. S = {a[i].of : i \in 1..n} /\ T = {b[i].of : i \in 1..m}
  BY <1>1 DEF Counted, OfSeq
<1>5. OfSeq(all) = S \cup T
  <2>1. ASSUME NEW i \in 1..(n + m) PROVE all[i].of \in S \cup T
    <3>1. CASE i <= n
      <4>1. i \in 1..n
        BY <3>1
      <4>2. QED BY <1>3, <1>4, <3>1, <4>1
    <3>2. CASE ~(i <= n)
      <4>1. i - n \in 1..m
        BY <3>2
      <4>2. QED BY <1>3, <1>4, <3>2, <4>1
    <3>3. QED BY <3>1, <3>2
  <2>2. ASSUME NEW s \in S PROVE \E i \in 1..(n + m) : all[i].of = s
    <3>1. PICK i \in 1..n : a[i].of = s
      BY <1>4
    <3>2. i \in 1..(n + m) /\ i <= n
      OBVIOUS
    <3>3. QED BY <1>3, <3>1, <3>2
  <2>3. ASSUME NEW t \in T PROVE \E i \in 1..(n + m) : all[i].of = t
    <3>1. PICK i \in 1..m : b[i].of = t
      BY <1>4
    <3>2. n + i \in 1..(n + m) /\ ~(n + i <= n) /\ (n + i) - n = i
      OBVIOUS
    <3>3. all[n + i] = b[i]
      BY <1>3, <3>2
    <3>4. QED BY <3>1, <3>2, <3>3
  <2>4. QED BY <1>3, <2>1, <2>2, <2>3 DEF OfSeq
<1>6. IsFiniteSet(S \cup T) /\ Cardinality(S \cup T) = n + m
  <2>1. IsFiniteSet(S) /\ IsFiniteSet(T) /\ Cardinality(S) = n /\ Cardinality(T) = m
    BY <1>1 DEF Counted
  <2>2. Cardinality(S \cap T) = 0
    BY FS_EmptySet
  <2>3. /\ IsFiniteSet(S \cup T)
        /\ Cardinality(S \cup T) = Cardinality(S) + Cardinality(T) - Cardinality(S \cap T)
    BY <2>1, FS_Union
  <2>4. QED BY <2>1, <2>2, <2>3
<1>7. QED BY <1>2, <1>3, <1>5, <1>6 DEF Counted

(* Flattened, a list of rows has each of the samples once.                   *)
LEMMA Flattened ==
  ASSUME NEW list \in Seq(Row), NEW S, Once(list, S)
  PROVE  Counted(FlattenSeq(list), S)
<1>1. PICK n \in Nat : n = Len(list)
  OBVIOUS
<1>2. CASE n = 0
  <2>1. list = << >>
    BY <1>1, <1>2, EmptySeq
  <2>2. FlattenSeq(list) = << >> /\ Len(<< >>) = 0
    BY <2>1 DEF FlattenSeq
  <2>3. S = {}
    BY <1>1, <1>2 DEF Once, At
  <2>4. QED BY <2>2, <2>3, FS_EmptySet DEF Counted, OfSeq
<1>3. CASE n # 0
  <2>1. n \in Nat \ {0} /\ list \in [1..n -> Seq(Items)]
    BY <1>1, <1>3 DEF Row
  <2>2. PICK f \in [0..n -> Seq(Items)] : Joins(f, n, list) /\ FlattenSeq(list) = f[n]
    BY <2>1, JoinRuns
  <2>3. f[0] = << >> /\ \A i \in 1..n : f[i] = f[i - 1] \o list[i]
    BY <2>2 DEF Joins
  <2>4. PICK F : F = [k \in 0..n |-> {s \in S : \E i, j \in Nat : i <= k /\ At(list, i, j) /\ list[i][j].of = s}]
    OBVIOUS
  <2>5. /\ \A i, j \in Nat : At(list, i, j) => list[i][j].of \in S
        /\ \A s \in S : \E i, j \in Nat : At(list, i, j) /\ list[i][j].of = s
        /\ \A i, j, k, l \in Nat :
             At(list, i, j) /\ At(list, k, l) /\ list[i][j].of = list[k][l].of => i = k /\ j = l
    BY DEF Once
  <2>6. PICK P : P = {k \in Nat : k <= n => Counted(f[k], F[k])}
    OBVIOUS
  <2>7. 0 \in P
    <3>1. F[0] = {}
      <4>1. \A i, j \in Nat : At(list, i, j) => ~(i <= 0)
        BY DEF At
      <4>2. F[0] = {s \in S : \E i, j \in Nat : i <= 0 /\ At(list, i, j) /\ list[i][j].of = s}
        BY <2>4
      <4>3. QED BY <4>1, <4>2
    <3>2. Len(<< >>) = 0
      OBVIOUS
    <3>3. Counted(f[0], F[0])
      BY <2>3, <3>1, <3>2, FS_EmptySet DEF Counted, OfSeq
    <3>4. QED BY <2>6, <3>3
  <2>8. ASSUME NEW k \in Nat, k < n, k \in P PROVE k + 1 \in P
    <3>1. k \in 0..n /\ k + 1 \in 0..n /\ k + 1 \in 1..n /\ (k + 1) - 1 = k /\ k + 1 \in Nat
      BY <2>8
    <3>2. PICK a \in Seq(Items), b \in Seq(Items) : a = f[k] /\ b = list[k + 1]
      BY <2>1, <2>2, <3>1
    <3>3. f[k + 1] = a \o b
      BY <2>3, <3>1, <3>2
    <3>4. Counted(a, F[k])
      BY <2>6, <2>8, <3>2
    <3>5. PICK T : T = OfSeq(b)
      OBVIOUS
    <3>6. Counted(b, T)
      BY <1>1, <3>1, <3>2, <3>5, RowCounted
    <3>7. T = {b[j].of : j \in 1..Len(b)}
      BY <3>5 DEF OfSeq
    <3>8. \A j \in Nat : At(list, k + 1, j) <=> j \in 1..Len(b)
      BY <1>1, <3>1, <3>2 DEF At
    <3>9. F[k] = {s \in S : \E i, j \in Nat : i <= k /\ At(list, i, j) /\ list[i][j].of = s}
      BY <2>4, <3>1
    <3>10. F[k + 1] = {s \in S : \E i, j \in Nat : i <= k + 1 /\ At(list, i, j) /\ list[i][j].of = s}
      BY <2>4, <3>1
    <3>11. F[k] \cap T = {}
      <4> SUFFICES ASSUME NEW s \in F[k], s \in T PROVE FALSE
        OBVIOUS
      <4>1. PICK i \in Nat, j \in Nat : i <= k /\ At(list, i, j) /\ list[i][j].of = s
        BY <3>9
      <4>2. PICK l \in 1..Len(b) : b[l].of = s
        BY <3>7
      <4>3. l \in Nat /\ At(list, k + 1, l) /\ list[k + 1][l].of = s
        BY <3>2, <3>8, <4>2
      <4>4. i = k + 1
        BY <2>5, <3>1, <4>1, <4>3
      <4>5. QED BY <4>1, <4>4
    <3>12. F[k + 1] = F[k] \cup T
      <4>1. ASSUME NEW s \in F[k + 1] PROVE s \in F[k] \cup T
        <5>1. PICK i \in Nat, j \in Nat : i <= k + 1 /\ At(list, i, j) /\ list[i][j].of = s
          BY <3>10
        <5>2. CASE i <= k
          BY <3>9, <3>10, <5>1, <5>2
        <5>3. CASE ~(i <= k)
          <6>1. i = k + 1
            BY <5>1, <5>3
          <6>2. j \in 1..Len(b) /\ b[j].of = s
            BY <3>2, <3>8, <5>1, <6>1
          <6>3. QED BY <3>7, <6>2
        <5>4. QED BY <5>2, <5>3
      <4>2. ASSUME NEW s \in F[k] PROVE s \in F[k + 1]
        <5>1. PICK i \in Nat, j \in Nat : i <= k /\ At(list, i, j) /\ list[i][j].of = s
          BY <3>9
        <5>2. i <= k + 1
          BY <5>1
        <5>3. QED BY <3>9, <3>10, <5>1, <5>2
      <4>3. ASSUME NEW s \in T PROVE s \in F[k + 1]
        <5>1. PICK l \in 1..Len(b) : b[l].of = s
          BY <3>7
        <5>2. l \in Nat /\ At(list, k + 1, l) /\ list[k + 1][l].of = s
          BY <3>2, <3>8, <5>1
        <5>3. s \in S
          BY <2>5, <3>1, <5>2
        <5>4. k + 1 <= k + 1
          OBVIOUS
        <5>5. QED BY <3>1, <3>10, <5>2, <5>3, <5>4
      <4>4. QED BY <4>1, <4>2, <4>3
    <3>13. Counted(f[k + 1], F[k + 1])
      <4>1. PICK Fk : Fk = F[k]
        OBVIOUS
      <4>2. Counted(a \o b, Fk \cup T)
        BY <3>4, <3>6, <3>11, <4>1, CountedJoined
      <4>3. QED BY <3>3, <3>12, <4>1, <4>2
    <3>14. QED BY <2>6, <3>1, <3>13
  <2>9. Counted(f[n], F[n])
    <3>1. 0..n \subseteq P
      BY <2>7, <2>8, UpTo
    <3>2. n \in P
      BY <3>1
    <3>3. QED BY <2>6, <3>2
  <2>10. F[n] = S
    <3>1. F[n] = {s \in S : \E i, j \in Nat : i <= n /\ At(list, i, j) /\ list[i][j].of = s}
      BY <2>4
    <3>2. \A i, j \in Nat : At(list, i, j) => i <= n
      BY <1>1 DEF At
    <3>3. QED BY <2>5, <3>1, <3>2
  <2>11. QED BY <2>2, <2>9, <2>10
<1>4. QED BY <1>2, <1>3

(* After the last interval nothing is held back.                             *)
LEMMA AllPacked ==
  ASSUME NEW D \in Seq(Int)
  PROVE  /\ Grouped(D)[Intervals(D)].rows \in Seq(Row)
         /\ AllShort(Grouped(D)[Intervals(D)].rows)
         /\ Once(Grouped(D)[Intervals(D)].rows, {s \in 1..Len(D) : D[s] > 0})
<1>1. PICK n \in Nat : n = Intervals(D) /\ 0 < n
  BY IntervalsCount
<1>2. PICK N \in Nat, P \in Nat \ {0}, q \in Nat :
        N = Len(D) /\ P = PackingInterval /\ q = N \div P /\ n = q + 1
  <2>1. PICK N \in Nat, P \in Nat \ {0} : N = Len(D) /\ P = PackingInterval
    BY PackingConstants
  <2>2. N \div P \in Nat
    BY Division
  <2>3. QED BY <1>1, <2>1, <2>2 DEF Intervals
<1>3. PICK qP \in Nat : qP = q * P /\ qP <= N /\ N < qP + P
  <2>1. P * q <= N /\ N < P * q + P
    BY <1>2, Division
  <2>2. PICK z \in Nat : z = P * q
    OBVIOUS
  <2>3. z = q * P
    BY <2>2
  <2>4. QED BY <2>1, <2>2, <2>3
<1>4. (q + 1) * P = qP + P
  BY <1>3
<1>5. Size(D, q) # PackingInterval
  <2>1. Size(D, q) = IF N - qP < P THEN N - qP ELSE P
    BY <1>2, <1>3 DEF Size
  <2>2. QED BY <1>2, <1>3, <2>1
<1>6. Held(D, q) /\ q < n
  <2>1. q < n /\ q <= n
    BY <1>2
  <2>2. QED BY <1>1, <1>2, <2>1, AllHeld
<1>7. Held(D, n) /\ Grouped(D)[n].rest = << >>
  BY <1>1, <1>2, <1>5, <1>6, HeldStep
<1>8. PICK rows1 : rows1 = Grouped(D)[n].rows
  OBVIOUS
<1>9. rows1 \in Seq(Row) /\ rows1 \in Lists
  <2>1. Grouped(D)[n] \in State
    BY <1>1, GroupedTyped
  <2>2. QED BY <1>8, <2>1 DEF State, Row, Lists
<1>10. PICK S : S = {s \in 1..Len(D) : D[s] > 0}
  OBVIOUS
<1>11. S = Upto(D, n)
  <2>1. n * PackingInterval = qP + P
    BY <1>2, <1>4
  <2>2. \A s \in 1..N : s <= qP + P
    BY <1>3
  <2>3. QED BY <1>2, <1>10, <2>1, <2>2 DEF Upto
<1>12. AllShort(rows1) /\ Once(Append(rows1, << >>), S)
  BY <1>7, <1>8, <1>11 DEF Held
<1>13. Parted(rows1, << >>, S)
  <2>1. << >> \in Seq(Items)
    OBVIOUS
  <2>2. QED BY <1>9, <1>12, <2>1, OnceApart
<1>14. PICK R, T : Once(rows1, R) /\ Each(<< >>, T) /\ R \cup T = S
  BY <1>13 DEF Parted
<1>15. T = {}
  <2>1. Len(<< >>) = 0
    OBVIOUS
  <2>2. Encodings(<< >>) = {}
    BY <2>1 DEF Encodings
  <2>3. QED BY <1>14, <2>2 DEF Each, Holding
<1>16. Once(rows1, S)
  BY <1>14, <1>15
<1>17. QED BY <1>1, <1>8, <1>9, <1>10, <1>12, <1>16

LEMMA FlatTyped ==
  ASSUME NEW list \in Seq(Row)
  PROVE  FlattenSeq(list) \in Seq(Items)
<1>1. PICK n \in Nat : n = Len(list)
  OBVIOUS
<1>2. CASE n = 0
  <2>1. list = << >>
    BY <1>1, <1>2, EmptySeq
  <2>2. FlattenSeq(list) = << >>
    BY <2>1 DEF FlattenSeq
  <2>3. QED BY <2>2
<1>3. CASE n # 0
  <2>1. n \in Nat \ {0} /\ list \in [1..n -> Seq(Items)]
    BY <1>1, <1>3 DEF Row
  <2>2. PICK f \in [0..n -> Seq(Items)] : Joins(f, n, list) /\ FlattenSeq(list) = f[n]
    BY <2>1, JoinRuns
  <2>3. QED BY <2>2
<1>4. QED BY <1>2, <1>3

LEMMA GroupingKeepsAll ==
  ASSUME length \in Seq(Int)
  PROVE  PackedOnce
<1>0. PICK all : all = ExpectedRows
  OBVIOUS
<1>1. PICK D \in Seq(Int) : D = length /\ all = ExpectedRows
  BY <1>0
<1>2. PICK S : S = {s \in 1..Len(D) : D[s] > 0}
  OBVIOUS
<1>3. all \in Seq(Row) /\ AllShort(all) /\ Once(all, S)
  BY <1>1, <1>2, AllPacked DEF ExpectedRows
<1>4. PICK flat : flat = FlattenSeq(all)
  OBVIOUS
<1>5. Len(flat) = Cardinality(S) /\ OfSeq(flat) = S
  BY <1>3, <1>4, Flattened DEF Counted
<1>6. {item.of : item \in ToSet(flat)} = S
  <2>1. flat \in Seq(Items)
    BY <1>3, <1>4, FlatTyped
  <2>2. DOMAIN flat = 1..Len(flat)
    BY <2>1, LenProperties
  <2>3. ToSet(flat) = {flat[i] : i \in 1..Len(flat)}
    BY <2>2 DEF ToSet
  <2>4. QED BY <1>5, <2>3 DEF OfSeq
<1>7. S = {s \in Samples : length[s] > 0}
  BY <1>1, <1>2 DEF Samples
<1>8. \A i \in DOMAIN all : RowLength(all[i]) <= PackingLength \/ Len(all[i]) = 1
  BY <1>3 DEF AllShort, Short
<1>9. QED BY <1>1, <1>4, <1>5, <1>6, <1>7, <1>8 DEF PackedOnce

-----------------------------------------------------------------------------
(* The rows of the first intervals are the first of all rows.               *)
Begins(rows1, rows2) ==
  Len(rows1) <= Len(rows2) /\ \A i \in 1..Len(rows1) : rows2[i] = rows1[i]

LEMMA RowsGrow ==
  ASSUME NEW D \in Seq(Int), NEW k \in Nat, k <= Intervals(D)
  PROVE  Begins(Grouped(D)[k].rows, Grouped(D)[Intervals(D)].rows)
<1>1. PICK n \in Nat : n = Intervals(D)
  BY IntervalsCount
<1>2. PICK m \in Nat : m = n - k
  BY <1>1
<1>3. PICK first \in Seq(Row) : first = Grouped(D)[k].rows
  BY GroupedTyped DEF State
<1>4. PICK P : P = {i \in Nat : Begins(first, Grouped(D)[k + i].rows)}
  OBVIOUS
<1>5. 0 \in P
  <2>1. Begins(first, first)
    BY DEF Begins
  <2>2. k + 0 = k
    OBVIOUS
  <2>3. QED BY <1>3, <1>4, <2>1, <2>2
<1>6. ASSUME NEW i \in Nat, i < m, i \in P PROVE i + 1 \in P
  <2>1. k + i \in Nat /\ k + i < n /\ k + (i + 1) = (k + i) + 1
    BY <1>2, <1>6
  <2>2. PICK j \in Nat : j = k + i
    BY <2>1
  <2>3. PICK before \in State : before = Grouped(D)[j]
    BY <1>1, <2>1, <2>2, GroupedTyped
  <2>4. Grouped(D)[j + 1] = AfterInterval(D, before, j)
    BY <1>1, <2>1, <2>2, <2>3, GroupedSteps
  <2>5. PICK new \in Seq(Row) : AfterInterval(D, before, j).rows = before.rows \o new
    <3>1. before.rest \in Seq(Answers)
      BY DEF State, Answers
    <3>2. Interval(D, j) \in Seq(Answers)
      BY <1>1, <2>1, <2>2, IntervalTyped
    <3>3. PICK items \in Seq(Answers) : items = before.rest \o Interval(D, j)
      <4>1. PICK rest \in Seq(Answers), more \in Seq(Answers) :
              rest = before.rest /\ more = Interval(D, j)
        BY <3>1, <3>2
      <4>2. rest \o more \in Seq(Answers)
        OBVIOUS
      <4>3. QED BY <4>1, <4>2
    <3>4. (Size(D, j) # PackingInterval) \in BOOLEAN
      OBVIOUS
    <3>5. MatchedGroup(items, Size(D, j) # PackingInterval) \in State
      BY <3>4, MatchedTyped
    <3>6. QED BY <3>3, <3>5 DEF AfterInterval, State
  <2>6. before.rows \in Seq(Row) /\ Begins(first, before.rows)
    BY <1>4, <1>6, <2>2, <2>3 DEF State
  <2>7. Begins(first, before.rows \o new)
    BY <2>6 DEF Begins
  <2>8. Grouped(D)[k + (i + 1)].rows = before.rows \o new
    BY <2>1, <2>2, <2>4, <2>5
  <2>9. Begins(first, Grouped(D)[k + (i + 1)].rows)
    BY <2>7, <2>8
  <2>10. QED BY <1>4, <2>9
<1>7. 0..m \subseteq P
  BY <1>5, <1>6, UpTo
<1>8. m \in P /\ k + m = n
  BY <1>1, <1>2, <1>7
<1>9. QED BY <1>1, <1>3, <1>4, <1>8

-----------------------------------------------------------------------------
(* The way of an interval's samples: n of them are put, each is in one place *)
(* at a time, and f answers have been fetched.  The sample put at place a of *)
(* the interval after the first b samples is sample b + a.                   *)
Task(n) == [at : 1..n, sample : Nat]
Got(n) == [at : 1..n, answer : Answers]
Apart(q) == \A i, j \in DOMAIN q : q[i].at = q[j].at => i = j

Waiting(q, n, b, where) ==
  /\ q \in Seq(Task(n)) /\ Apart(q)
  /\ \A i \in DOMAIN q : q[i].sample = b + q[i].at
  /\ \A i \in DOMAIN q : where[q[i].at] = <<"in", 0>>

Answered(q, n, b, where, D) ==
  /\ q \in Seq(Got(n)) /\ Apart(q)
  /\ \A i \in DOMAIN q : q[i].answer = Encoded(D, b + q[i].at)
  /\ \A i \in DOMAIN q : where[q[i].at] = <<"out", 0>>

Idle(t) == t \in {NoTask, Dead}
AtWork(t, w, n, b, where) ==
  t \in Task(n) /\ t.sample = b + t.at /\ where[t.at] = <<"busy", w>>
Working(held, n, b, where) ==
  /\ DOMAIN held = Workers
  /\ \A w \in Workers : Idle(held[w]) \/ AtWork(held[w], w, n, b, where)

Done(n, where) == {a \in 1..n : where[a] = <<"done", 0>>}
Found(result, n, b, where, D) ==
  /\ result \in [1..n -> Answers]
  /\ \A a \in Done(n, where) : result[a] = Encoded(D, b + a)

Way(in, out, held, n, b, where, D) ==
  Waiting(in, n, b, where) /\ Answered(out, n, b, where, D) /\ Working(held, n, b, where)

Putting(in, out, held, n, b, D) ==
  \E where : Way(in, out, held, n, b, where, D) /\ Done(n, where) = {}
Fetching(in, out, held, n, b, D, f, result) ==
  \E where : /\ Way(in, out, held, n, b, where, D)
             /\ Cardinality(Done(n, where)) = f /\ Found(result, n, b, where, D)

Moved(where, n, a, place) == [i \in 1..n |-> IF i = a THEN place ELSE where[i]]

LEMMA TasksGrow ==
  ASSUME NEW n \in Nat
  PROVE  /\ \A t \in Task(n) : t.at \in 1..n /\ t \in Task(n + 1)
         /\ \A t \in Got(n) : t.at \in 1..n /\ t \in Got(n + 1)
<1>1. 1..n \subseteq 1..n + 1
  OBVIOUS
<1>2. ASSUME NEW t \in Task(n) PROVE t.at \in 1..n /\ t \in Task(n + 1)
  BY <1>1 DEF Task
<1>3. ASSUME NEW t \in Got(n) PROVE t.at \in 1..n /\ t \in Got(n + 1)
  BY <1>1 DEF Got
<1>4. QED BY <1>2, <1>3

LEMMA PutsOne ==
  ASSUME NEW in, NEW out, NEW held, NEW n \in Nat, NEW b \in Nat, NEW D,
         Putting(in, out, held, n, b, D)
  PROVE  Putting(Append(in, [at |-> n + 1, sample |-> b + (n + 1)]), out, held, n + 1, b, D)
<1>1. PICK where : Way(in, out, held, n, b, where, D) /\ Done(n, where) = {}
  BY DEF Putting
<1>2. PICK new : new = Moved(where, n + 1, n + 1, <<"in", 0>>)
  OBVIOUS
<1>3. new[n + 1] = <<"in", 0>> /\ \A i \in 1..n : new[i] = where[i] /\ i # n + 1 /\ i \in 1..n + 1
  BY <1>2 DEF Moved
<1>4. PICK t \in Task(n + 1) : t = [at |-> n + 1, sample |-> b + (n + 1)]
  <2>1. n + 1 \in 1..n + 1 /\ b + (n + 1) \in Nat
    OBVIOUS
  <2>2. QED BY <2>1 DEF Task
<1>5. Waiting(Append(in, t), n + 1, b, new)
  <2>1. in \in Seq(Task(n)) /\ Apart(in)
    BY <1>1 DEF Way, Waiting
  <2>2. \A i \in DOMAIN in : in[i].at \in 1..n /\ in[i] \in Task(n + 1)
    BY <2>1, TasksGrow
  <2>3. in \in Seq(Task(n + 1))
    BY <2>1, <2>2
  <2>4. PICK l \in Nat : l = Len(in)
    BY <2>1
  <2>5. Append(in, t) \in Seq(Task(n + 1)) /\ DOMAIN Append(in, t) = 1..l + 1
    BY <2>3, <2>4
  <2>6. Append(in, t)[l + 1] = t /\ \A i \in 1..l : Append(in, t)[i] = in[i] /\ i \in DOMAIN in
    BY <2>3, <2>4
  <2>7. t.at = n + 1 /\ t.sample = b + t.at
    BY <1>4
  <2>8. \A i \in 1..l : in[i].sample = b + in[i].at /\ where[in[i].at] = <<"in", 0>> /\ in[i].at \in 1..n
    BY <1>1, <2>2, <2>6 DEF Way, Waiting
  <2>9. ASSUME NEW i \in 1..l + 1
        PROVE  /\ Append(in, t)[i].sample = b + Append(in, t)[i].at
               /\ new[Append(in, t)[i].at] = <<"in", 0>>
    <3>1. CASE i = l + 1
      BY <1>3, <2>6, <2>7, <3>1
    <3>2. CASE i # l + 1
      <4>1. i \in 1..l
        BY <3>2
      <4>2. QED BY <1>3, <2>6, <2>8, <4>1
    <3>3. QED BY <3>1, <3>2
  <2>10. ASSUME NEW i \in 1..l + 1, NEW j \in 1..l + 1, Append(in, t)[i].at = Append(in, t)[j].at
         PROVE  i = j
    <3>1. CASE i \in 1..l /\ j \in 1..l
      BY <2>1, <2>6, <2>10, <3>1 DEF Apart
    <3>2. CASE i \in 1..l /\ j = l + 1
      BY <1>3, <2>6, <2>7, <2>8, <2>10, <3>2
    <3>3. CASE i = l + 1 /\ j \in 1..l
      BY <1>3, <2>6, <2>7, <2>8, <2>10, <3>3
    <3>4. QED BY <3>1, <3>2, <3>3
  <2>11. Apart(Append(in, t))
    BY <2>5, <2>10 DEF Apart
  <2>12. QED BY <2>5, <2>9, <2>11 DEF Waiting
<1>6. Answered(out, n + 1, b, new, D)
  <2>1. out \in Seq(Got(n)) /\ Apart(out)
    BY <1>1 DEF Way, Answered
  <2>2. \A i \in DOMAIN out : out[i].at \in 1..n /\ out[i] \in Got(n + 1)
    BY <2>1, TasksGrow
  <2>3. out \in Seq(Got(n + 1))
    BY <2>1, <2>2
  <2>4. \A i \in DOMAIN out : out[i].answer = Encoded(D, b + out[i].at) /\ new[out[i].at] = <<"out", 0>>
    BY <1>1, <1>3, <2>2 DEF Way, Answered
  <2>5. QED BY <2>1, <2>3, <2>4 DEF Answered
<1>7. Working(held, n + 1, b, new)
  <2>1. DOMAIN held = Workers
    BY <1>1 DEF Way, Working
  <2>2. ASSUME NEW w \in Workers, ~Idle(held[w]) PROVE AtWork(held[w], w, n + 1, b, new)
    <3>1. AtWork(held[w], w, n, b, where)
      BY <1>1, <2>2 DEF Way, Working
    <3>2. held[w].at \in 1..n /\ held[w] \in Task(n + 1)
      BY <3>1 DEF AtWork, Task
    <3>3. QED BY <1>3, <3>1, <3>2 DEF AtWork
  <2>3. QED BY <2>1, <2>2 DEF Working
<1>8. Done(n + 1, new) = {}
  <2>1. ASSUME NEW a \in 1..n + 1 PROVE new[a] # <<"done", 0>>
    <3>1. CASE a = n + 1
      BY <1>3, <3>1
    <3>2. CASE a \in 1..n
      BY <1>1, <1>3, <3>2 DEF Done
    <3>3. QED BY <3>1, <3>2
  <2>2. QED BY <2>1 DEF Done
<1>9. QED BY <1>4, <1>5, <1>6, <1>7, <1>8 DEF Putting, Way

LEMMA PutsEnd ==
  ASSUME NEW in, NEW out, NEW held, NEW n \in Nat, NEW b \in Nat, NEW D,
         Putting(in, out, held, n, b, D)
  PROVE  Fetching(in, out, held, n, b, D, 0, [i \in 1..n |-> Failed])
<1>1. PICK where : Way(in, out, held, n, b, where, D) /\ Done(n, where) = {}
  BY DEF Putting
<1>2. Cardinality(Done(n, where)) = 0
  BY <1>1, FS_EmptySet
<1>3. [i \in 1..n |-> Failed] \in [1..n -> Answers]
  BY DEF Answers
<1>4. Found([i \in 1..n |-> Failed], n, b, where, D)
  BY <1>1, <1>3 DEF Found
<1>5. QED BY <1>1, <1>2, <1>4 DEF Fetching

(* A queue without its first entry, and the place of that entry.            *)
LEMMA Behead ==
  ASSUME NEW S, NEW q \in Seq(S), q # << >>, Apart(q)
  PROVE  /\ Head(q) \in S /\ Tail(q) \in Seq(S) /\ Apart(Tail(q))
         /\ 1 \in DOMAIN q /\ Head(q) = q[1]
         /\ \A i \in DOMAIN Tail(q) : /\ i + 1 \in DOMAIN q /\ Tail(q)[i] = q[i + 1]
                                      /\ Tail(q)[i].at # Head(q).at
<1>1. PICK l \in Nat : l = Len(q) /\ l # 0
  OBVIOUS
<1>2. DOMAIN q = 1..l /\ Head(q) = q[1] /\ 1 \in 1..l /\ Head(q) \in S
  BY <1>1
<1>3. Tail(q) \in Seq(S) /\ DOMAIN Tail(q) = 1..l - 1
  BY <1>1
<1>4. \A i \in 1..l - 1 : i + 1 \in 1..l /\ i + 1 # 1 /\ Tail(q)[i] = q[i + 1]
  BY <1>1
<1>5. \A i \in 1..l - 1 : Tail(q)[i].at # Head(q).at
  BY <1>2, <1>4 DEF Apart
<1>6. ASSUME NEW i \in 1..l - 1, NEW j \in 1..l - 1, Tail(q)[i].at = Tail(q)[j].at PROVE i = j
  <2>1. i + 1 = j + 1
    BY <1>2, <1>4, <1>6 DEF Apart
  <2>2. QED BY <2>1
<1>7. Apart(Tail(q))
  BY <1>3, <1>6 DEF Apart
<1>8. QED BY <1>2, <1>3, <1>4, <1>5, <1>7

(* Another sample's move disturbs no one.                                   *)
LEMMA OthersWait ==
  ASSUME NEW q, NEW n \in Nat, NEW b, NEW where, NEW a, NEW place, Waiting(q, n, b, where),
         \A i \in DOMAIN q : q[i].at # a
  PROVE  Waiting(q, n, b, Moved(where, n, a, place))
<1>1. \A i \in DOMAIN q : q[i].at \in 1..n
  BY TasksGrow DEF Waiting
<1>2. QED BY <1>1 DEF Waiting, Moved

LEMMA OthersAnswered ==
  ASSUME NEW q, NEW n \in Nat, NEW b, NEW where, NEW a, NEW place, NEW D,
         Answered(q, n, b, where, D), \A i \in DOMAIN q : q[i].at # a
  PROVE  Answered(q, n, b, Moved(where, n, a, place), D)
<1>1. \A i \in DOMAIN q : q[i].at \in 1..n
  BY TasksGrow DEF Answered
<1>2. QED BY <1>1 DEF Answered, Moved

LEMMA OthersWork ==
  ASSUME NEW t, NEW w, NEW n \in Nat, NEW b, NEW where, NEW a, NEW place,
         AtWork(t, w, n, b, where), t.at # a
  PROVE  AtWork(t, w, n, b, Moved(where, n, a, place))
<1>1. t.at \in 1..n
  BY TasksGrow DEF AtWork
<1>2. QED BY <1>1 DEF AtWork, Moved

LEMMA SameDone ==
  ASSUME NEW n \in Nat, NEW where, NEW a \in 1..n, NEW place,
         where[a] # <<"done", 0>>, place # <<"done", 0>>
  PROVE  Done(n, Moved(where, n, a, place)) = Done(n, where)
BY DEF Done, Moved

LEMMA Gets ==
  ASSUME NEW in, NEW out, NEW held, NEW n \in Nat, NEW b \in Nat, NEW D, NEW where,
         Way(in, out, held, n, b, where, D), in # << >>, NEW w \in Workers, Idle(held[w])
  PROVE  \E new : /\ Way(Tail(in), out, [held EXCEPT ![w] = Head(in)], n, b, new, D)
                  /\ Done(n, new) = Done(n, where)
<1>1. in \in Seq(Task(n)) /\ Apart(in)
  BY DEF Way, Waiting
<1>2. PICK t \in Task(n) : t = Head(in)
  BY <1>1, Behead
<1>3. t.at \in 1..n /\ t.sample = b + t.at /\ where[t.at] = <<"in", 0>>
  <2>1. 1 \in DOMAIN in /\ t = in[1]
    BY <1>1, <1>2, Behead
  <2>2. t.at \in 1..n
    BY TasksGrow
  <2>3. t.sample = b + t.at
    BY <2>1 DEF Way, Waiting
  <2>4. where[t.at] = <<"in", 0>>
    BY <2>1 DEF Way, Waiting
  <2>5. QED BY <2>2, <2>3, <2>4
<1>4. PICK a \in 1..n : a = t.at
  BY <1>3
<1>5. PICK new : new = Moved(where, n, a, <<"busy", w>>)
  OBVIOUS
<1>6. Waiting(Tail(in), n, b, new)
  <2>1. Waiting(Tail(in), n, b, where)
    <3>1. Tail(in) \in Seq(Task(n)) /\ Apart(Tail(in))
      BY <1>1, Behead
    <3>2. \A i \in DOMAIN Tail(in) : i + 1 \in DOMAIN in /\ Tail(in)[i] = in[i + 1]
      BY <1>1, Behead
    <3>3. QED BY <3>1, <3>2 DEF Way, Waiting
  <2>2. \A i \in DOMAIN Tail(in) : Tail(in)[i].at # a
    BY <1>1, <1>2, <1>4, Behead
  <2>3. QED BY <1>5, <2>1, <2>2, OthersWait
<1>7. Answered(out, n, b, new, D)
  <2>1. \A i \in DOMAIN out : out[i].at # a
    BY <1>3, <1>4 DEF Way, Answered
  <2>2. QED BY <1>5, <2>1, OthersAnswered DEF Way
<1>8. Working([held EXCEPT ![w] = t], n, b, new)
  <2>1. DOMAIN held = Workers
    BY DEF Way, Working
  <2>2. DOMAIN [held EXCEPT ![w] = t] = Workers /\ [held EXCEPT ![w] = t][w] = t
    BY <2>1
  <2>3. AtWork(t, w, n, b, new)
    BY <1>3, <1>4, <1>5 DEF AtWork, Moved
  <2>4. ASSUME NEW v \in Workers, v # w, ~Idle(held[v]) PROVE AtWork(held[v], v, n, b, new)
    <3>1. AtWork(held[v], v, n, b, where)
      BY <2>4 DEF Way, Working
    <3>2. held[v].at # a
      BY <1>3, <1>4, <3>1 DEF AtWork
    <3>3. QED BY <1>5, <3>1, <3>2, OthersWork
  <2>5. \A v \in Workers : v # w => [held EXCEPT ![w] = t][v] = held[v]
    BY <2>1
  <2>6. QED BY <2>2, <2>3, <2>4, <2>5 DEF Working
<1>9. Done(n, new) = Done(n, where)
  BY <1>3, <1>4, <1>5, SameDone
<1>10. QED BY <1>2, <1>6, <1>7, <1>8, <1>9 DEF Way

HandsOver(in, out, held, w, n, b, where, D) ==
  \E new :
    /\ Way(in, Append(out, [at |-> held[w].at, answer |-> Encoded(D, held[w].sample)]),
           [held EXCEPT ![w] = NoTask], n, b, new, D)
    /\ Done(n, new) = Done(n, where)

LEMMA Encodes ==
  ASSUME NEW in, NEW out, NEW held, NEW n \in Nat, NEW b \in Nat, NEW D \in Seq(Int), NEW where,
         Way(in, out, held, n, b, where, D), NEW w \in Workers, ~Idle(held[w]), b + n <= Len(D)
  PROVE  HandsOver(in, out, held, w, n, b, where, D)
<1>1. PICK t \in Task(n) : t = held[w]
  BY DEF Way, Working, AtWork
<1>2. t.at \in 1..n /\ t.sample = b + t.at /\ where[t.at] = <<"busy", w>>
  BY <1>1, TasksGrow DEF Way, Working, AtWork
<1>3. PICK a \in 1..n : a = t.at
  BY <1>2
<1>4. PICK answer \in Answers : answer = Encoded(D, t.sample)
  <2>1. b + a \in 1..Len(D)
    OBVIOUS
  <2>2. QED BY <1>2, <1>3, <2>1, EncodedTyped
<1>5. PICK new : new = Moved(where, n, a, <<"out", 0>>)
  OBVIOUS
<1>6. Waiting(in, n, b, new)
  <2>1. ASSUME NEW i \in DOMAIN in PROVE in[i].at # a
    <3>1. where[in[i].at] = <<"in", 0>>
      BY DEF Way, Waiting
    <3>2. where[a] = <<"busy", w>> /\ <<"in", 0>> # <<"busy", w>>
      BY <1>2, <1>3
    <3>3. QED BY <3>1, <3>2
  <2>2. QED BY <1>5, <2>1, OthersWait DEF Way
<1>7. PICK got \in Got(n) : got = [at |-> t.at, answer |-> answer]
  BY <1>2 DEF Got
<1>8. Answered(Append(out, got), n, b, new, D)
  <2>1. out \in Seq(Got(n)) /\ Apart(out)
    BY DEF Way, Answered
  <2>2. ASSUME NEW i \in DOMAIN out PROVE out[i].at # a
    <3>1. where[out[i].at] = <<"out", 0>>
      BY DEF Way, Answered
    <3>2. where[a] = <<"busy", w>> /\ <<"out", 0>> # <<"busy", w>>
      BY <1>2, <1>3
    <3>3. QED BY <3>1, <3>2
  <2>3. Answered(out, n, b, new, D)
    BY <1>5, <2>2, OthersAnswered DEF Way
  <2>4. PICK l \in Nat : l = Len(out)
    BY <2>1
  <2>5. Append(out, got) \in Seq(Got(n)) /\ DOMAIN Append(out, got) = 1..l + 1
    BY <2>1, <2>4
  <2>6. Append(out, got)[l + 1] = got /\ \A i \in 1..l : Append(out, got)[i] = out[i] /\ i \in DOMAIN out
    BY <2>1, <2>4
  <2>7. got.at = a /\ got.answer = Encoded(D, b + a) /\ new[a] = <<"out", 0>>
    BY <1>2, <1>3, <1>4, <1>5, <1>7 DEF Moved
  <2>8. ASSUME NEW i \in 1..l + 1
        PROVE  /\ Append(out, got)[i].answer = Encoded(D, b + Append(out, got)[i].at)
               /\ new[Append(out, got)[i].at] = <<"out", 0>>
    <3>1. CASE i = l + 1
      BY <2>6, <2>7, <3>1
    <3>2. CASE i # l + 1
      <4>1. i \in 1..l
        BY <3>2
      <4>2. QED BY <2>3, <2>6, <4>1 DEF Answered
    <3>3. QED BY <3>1, <3>2
  <2>9. ASSUME NEW i \in 1..l + 1, NEW j \in 1..l + 1, Append(out, got)[i].at = Append(out, got)[j].at
        PROVE  i = j
    <3>1. CASE i \in 1..l /\ j \in 1..l
      BY <2>1, <2>6, <2>9, <3>1 DEF Apart
    <3>2. CASE i \in 1..l /\ j = l + 1
      BY <2>2, <2>6, <2>7, <2>9, <3>2
    <3>3. CASE i = l + 1 /\ j \in 1..l
      BY <2>2, <2>6, <2>7, <2>9, <3>3
    <3>4. QED BY <3>1, <3>2, <3>3
  <2>10. Apart(Append(out, got))
    BY <2>5, <2>9 DEF Apart
  <2>11. QED BY <2>5, <2>8, <2>10 DEF Answered
<1>9. Working([held EXCEPT ![w] = NoTask], n, b, new)
  <2>1. DOMAIN held = Workers
    BY DEF Way, Working
  <2>2. ASSUME NEW v \in Workers, v # w, ~Idle(held[v]) PROVE AtWork(held[v], v, n, b, new)
    <3>1. AtWork(held[v], v, n, b, where)
      BY <2>2 DEF Way, Working
    <3>2. held[v].at # a
      BY <1>2, <1>3, <2>2, <3>1 DEF AtWork
    <3>3. QED BY <1>5, <3>1, <3>2, OthersWork
  <2>3. QED BY <2>1, <2>2 DEF Working, Idle
<1>10. Done(n, new) = Done(n, where)
  <2>1. <<"busy", w>> # <<"done", 0>> /\ <<"out", 0>> # <<"done", 0>>
    OBVIOUS
  <2>2. where[a] # <<"done", 0>>
    BY <1>2, <1>3, <2>1
  <2>3. QED BY <1>5, <2>1, <2>2, SameDone
<1>11. QED BY <1>1, <1>4, <1>6, <1>7, <1>8, <1>9, <1>10 DEF Way, HandsOver

(* The process of a worker that raises has no sample any more.              *)
LEMMA Dies ==
  ASSUME NEW in, NEW out, NEW held, NEW n \in Nat, NEW b \in Nat, NEW D, NEW where,
         Way(in, out, held, n, b, where, D), NEW w \in Workers
  PROVE  Way(in, out, [held EXCEPT ![w] = Dead], n, b, where, D)
<1>1. DOMAIN held = Workers
  BY DEF Way, Working
<1>2. Working([held EXCEPT ![w] = Dead], n, b, where)
  BY <1>1 DEF Way, Working, Idle
<1>3. QED BY <1>2 DEF Way

LEMMA DoneFinite ==
  ASSUME NEW n \in Nat, NEW where
  PROVE  IsFiniteSet(Done(n, where)) /\ Done(n, where) \subseteq 1..n
<1>1. IsFiniteSet(1..n)
  BY FS_Interval
<1>2. Done(n, where) \subseteq 1..n
  BY DEF Done
<1>3. QED BY <1>1, <1>2, FS_Subset

(* An answer fetched is put in its own place.                               *)
LEMMA FetchesOne ==
  ASSUME NEW in, NEW out, NEW held, NEW n \in Nat, NEW b \in Nat, NEW D, NEW f \in Nat, NEW result,
         Fetching(in, out, held, n, b, D, f, result), out # << >>
  PROVE  Fetching(in, Tail(out), held, n, b, D, f + 1,
                  [result EXCEPT ![Head(out).at] = Head(out).answer])
<1>1. PICK where : /\ Way(in, out, held, n, b, where, D)
                   /\ Cardinality(Done(n, where)) = f /\ Found(result, n, b, where, D)
  BY DEF Fetching
<1>2. out \in Seq(Got(n)) /\ Apart(out)
  BY <1>1 DEF Way, Answered
<1>3. PICK t \in Got(n) : t = Head(out)
  BY <1>2, Behead
<1>4. t.at \in 1..n /\ t.answer = Encoded(D, b + t.at) /\ where[t.at] = <<"out", 0>>
  <2>1. 1 \in DOMAIN out /\ t = out[1]
    BY <1>2, <1>3, Behead
  <2>2. t.at \in 1..n
    BY TasksGrow
  <2>3. t.answer = Encoded(D, b + t.at)
    BY <1>1, <2>1 DEF Way, Answered
  <2>4. where[t.at] = <<"out", 0>>
    BY <1>1, <2>1 DEF Way, Answered
  <2>5. QED BY <2>2, <2>3, <2>4
<1>5. PICK a \in 1..n : a = t.at
  BY <1>4
<1>6. PICK new : new = Moved(where, n, a, <<"done", 0>>)
  OBVIOUS
<1>7. Waiting(in, n, b, new)
  <2>1. \A i \in DOMAIN in : in[i].at # a
    BY <1>1, <1>4, <1>5 DEF Way, Waiting
  <2>2. QED BY <1>1, <1>6, <2>1, OthersWait DEF Way
<1>8. Answered(Tail(out), n, b, new, D)
  <2>1. Answered(Tail(out), n, b, where, D)
    <3>1. Tail(out) \in Seq(Got(n)) /\ Apart(Tail(out))
      BY <1>2, Behead
    <3>2. \A i \in DOMAIN Tail(out) : i + 1 \in DOMAIN out /\ Tail(out)[i] = out[i + 1]
      BY <1>2, Behead
    <3>3. QED BY <1>1, <3>1, <3>2 DEF Way, Answered
  <2>2. \A i \in DOMAIN Tail(out) : Tail(out)[i].at # a
    BY <1>2, <1>3, <1>5, Behead
  <2>3. QED BY <1>6, <2>1, <2>2, OthersAnswered
<1>9. Working(held, n, b, new)
  <2>1. ASSUME NEW v \in Workers, ~Idle(held[v]) PROVE AtWork(held[v], v, n, b, new)
    <3>1. AtWork(held[v], v, n, b, where)
      BY <1>1, <2>1 DEF Way, Working
    <3>2. held[v].at # a
      BY <1>4, <1>5, <3>1 DEF AtWork
    <3>3. QED BY <1>6, <3>1, <3>2, OthersWork
  <2>2. QED BY <1>1, <2>1 DEF Way, Working
<1>10. Done(n, new) = Done(n, where) \cup {a} /\ a \notin Done(n, where)
  <2>1. <<"out", 0>> # <<"done", 0>>
    OBVIOUS
  <2>2. QED BY <1>4, <1>5, <1>6, <2>1 DEF Done, Moved
<1>11. Cardinality(Done(n, new)) = f + 1
  BY <1>1, <1>10, DoneFinite, FS_AddElement
<1>12. PICK later : later = [result EXCEPT ![a] = t.answer]
  OBVIOUS
<1>13. Found(later, n, b, new, D)
  <2>1. result \in [1..n -> Answers] /\ t.answer \in Answers
    BY <1>1 DEF Found, Got
  <2>2. later \in [1..n -> Answers] /\ later[a] = t.answer /\ \A i \in 1..n : i # a => later[i] = result[i]
    BY <1>12, <2>1
  <2>3. ASSUME NEW i \in Done(n, new) PROVE later[i] = Encoded(D, b + i)
    <3>1. CASE i = a
      BY <1>4, <1>5, <2>2, <3>1
    <3>2. CASE i # a
      BY <1>1, <1>10, <2>2, <3>2, DoneFinite DEF Found
    <3>3. QED BY <3>1, <3>2
  <2>4. QED BY <2>2, <2>3 DEF Found
<1>14. Way(in, Tail(out), held, n, b, new, D)
  BY <1>7, <1>8, <1>9 DEF Way
<1>15. QED BY <1>3, <1>5, <1>11, <1>12, <1>13, <1>14 DEF Fetching

(* When all answers are there, nothing is on its way, and each is where its *)
(* sample was taken from.                                                   *)
LEMMA AllFetched ==
  ASSUME NEW in, NEW out, NEW held, NEW n \in Nat, NEW b \in Nat, NEW D, NEW result,
         Fetching(in, out, held, n, b, D, n, result), NEW b2
  PROVE  /\ result = [a \in 1..n |-> Encoded(D, b + a)]
         /\ Putting(in, out, held, 0, b2, D)
<1>1. PICK where : /\ Way(in, out, held, n, b, where, D)
                   /\ Cardinality(Done(n, where)) = n /\ Found(result, n, b, where, D)
  BY DEF Fetching
<1>2. Done(n, where) = 1..n
  <2>1. IsFiniteSet(1..n) /\ Cardinality(1..n) = n
    BY FS_Interval
  <2>2. QED BY <1>1, <2>1, DoneFinite, FS_Subset
<1>3. \A a \in 1..n : where[a] = <<"done", 0>>
  BY <1>2 DEF Done
<1>4. result = [a \in 1..n |-> Encoded(D, b + a)]
  BY <1>1, <1>2 DEF Found
<1>5. in = << >>
  <2>1. in \in Seq(Task(n))
    BY <1>1 DEF Way, Waiting
  <2>2. ASSUME in # << >> PROVE FALSE
    <3>1. 1 \in DOMAIN in
      BY <2>1, <2>2
    <3>2. in[1].at \in 1..n
      BY <2>1, <3>1, TasksGrow
    <3>3. where[in[1].at] = <<"in", 0>>
      BY <1>1, <3>1 DEF Way, Waiting
    <3>4. QED BY <1>3, <3>2, <3>3
  <2>3. QED BY <2>2
<1>6. out = << >>
  <2>1. out \in Seq(Got(n))
    BY <1>1 DEF Way, Answered
  <2>2. ASSUME out # << >> PROVE FALSE
    <3>1. 1 \in DOMAIN out
      BY <2>1, <2>2
    <3>2. out[1].at \in 1..n
      BY <2>1, <3>1, TasksGrow
    <3>3. where[out[1].at] = <<"out", 0>>
      BY <1>1, <3>1 DEF Way, Answered
    <3>4. QED BY <1>3, <3>2, <3>3
  <2>3. QED BY <2>2
<1>7. \A w \in Workers : Idle(held[w])
  <2>1. ASSUME NEW w \in Workers, AtWork(held[w], w, n, b, where) PROVE FALSE
    <3>1. held[w].at \in 1..n /\ where[held[w].at] = <<"busy", w>>
      BY <2>1, TasksGrow DEF AtWork
    <3>2. QED BY <1>3, <3>1
  <2>2. QED BY <1>1, <2>1 DEF Way, Working
<1>8. PICK new : new = << >>
  OBVIOUS
<1>9. Waiting(<< >>, 0, b2, new)
  <2>1. << >> \in Seq(Task(0)) /\ DOMAIN << >> = {}
    OBVIOUS
  <2>2. QED BY <2>1 DEF Waiting, Apart
<1>10. Answered(<< >>, 0, b2, new, D)
  <2>1. << >> \in Seq(Got(0)) /\ DOMAIN << >> = {}
    OBVIOUS
  <2>2. QED BY <2>1 DEF Answered, Apart
<1>11. Working(held, 0, b2, new)
  BY <1>1, <1>7 DEF Way, Working
<1>12. Done(0, new) = {}
  BY DEF Done
<1>13. QED BY <1>4, <1>5, <1>6, <1>9, <1>10, <1>11, <1>12 DEF Putting, Way

-----------------------------------------------------------------------------
(* Of all rows made so far, c are gone.                                     *)
Remains(all, c, rest) ==
  /\ all \in Seq(Row) /\ rest \in Seq(Row) /\ Len(all) = c + Len(rest)
  /\ \A i \in 1..Len(rest) : rest[i] = all[c + i]

LEMMA OneGone ==
  ASSUME NEW all, NEW c \in Nat, NEW rest, Remains(all, c, rest), rest # << >>
  PROVE  /\ Remains(all, c + 1, Tail(rest))
         /\ c + 1 <= Len(all) /\ Head(rest) = all[c + 1] /\ Head(rest) \in Row
<1>1. PICK l \in Nat : l = Len(rest) /\ l # 0
  BY DEF Remains
<1>2. Tail(rest) \in Seq(Row) /\ Len(Tail(rest)) = l - 1 /\ Head(rest) = rest[1] /\ Head(rest) \in Row
  BY <1>1 DEF Remains
<1>3. Head(rest) = all[c + 1]
  BY <1>1, <1>2 DEF Remains
<1>4. \A i \in 1..l - 1 : Tail(rest)[i] = rest[i + 1] /\ i + 1 \in 1..l /\ c + (i + 1) = (c + 1) + i
  BY <1>1 DEF Remains
<1>5. \A i \in 1..l - 1 : Tail(rest)[i] = all[(c + 1) + i]
  BY <1>1, <1>4 DEF Remains
<1>6. Len(all) = (c + 1) + (l - 1) /\ c + 1 <= Len(all)
  BY <1>1 DEF Remains
<1>7. QED BY <1>2, <1>3, <1>5, <1>6 DEF Remains

LEMMA MoreCome ==
  ASSUME NEW all, NEW c \in Nat, Remains(all, c, << >>), NEW new \in Seq(Row)
  PROVE  Remains(all \o new, c, new)
<1>1. all \in Seq(Row) /\ Len(all) = c
  BY DEF Remains
<1>2. PICK l \in Nat : l = Len(new)
  OBVIOUS
<1>3. all \o new \in Seq(Row) /\ Len(all \o new) = c + l
  BY <1>1, <1>2
<1>4. \A i \in 1..l : new[i] = (all \o new)[c + i]
  BY <1>1, <1>2
<1>5. QED BY <1>2, <1>3, <1>4 DEF Remains

-----------------------------------------------------------------------------
(* What rank 0 has done with the c rows: skd skipped, s for each rank sent, *)
(* the others taken.                                                        *)
Place(sk, k, r) == (sk + k - 1) * Ranks + r
Right(R, sk, got) ==
  \A r \in 1..Ranks : \A k \in DOMAIN got[r] :
    Place(sk, k, r) <= Len(R) /\ got[r][k] = R[Place(sk, k, r)]

Coming(R, sk, s, sent, got, r) ==
  \/ sent[r] = << >> /\ Len(got[r]) = s
  \/ /\ s > 0 /\ Len(got[r]) = s - 1
     /\ Place(sk, s, r) <= Len(R) /\ sent[r] = <<R[Place(sk, s, r)]>>

InHand(R, c, gone, tk) ==
  /\ tk \in Seq(Row) /\ Len(tk) <= Ranks /\ c = gone + Len(tk) /\ c <= Len(R)
  /\ \A i \in 1..Len(tk) : tk[i] = R[gone + i]

Dealing(R, c, sk, skd, s, tk, sent, got, lf) ==
  /\ lf = {}
  /\ InHand(R, c, skd + s * Ranks, tk)
  /\ s > 0 \/ tk # << >> => skd = sk * Ranks
  /\ \A r \in 1..Ranks : Coming(R, sk, s, sent, got, r)

Told(sent, lf) ==
  \A r \in 1..Ranks : sent[r] = <<Nothing>> \/ (sent[r] = << >> /\ r \in lf)

LEMMA Skips ==
  ASSUME NEW R \in Seq(Row), NEW c \in Nat, NEW sk \in Nat, NEW skd \in Nat, NEW s \in Nat,
         NEW tk, NEW sent, NEW got, NEW lf,
         Dealing(R, c, sk, skd, s, tk, sent, got, lf), skd < sk * Ranks, c + 1 <= Len(R)
  PROVE  Dealing(R, c + 1, sk, skd + 1, s, tk, sent, got, lf)
<1>1. PICK m \in Nat : m = sk * Ranks
  BY PackingConstants
<1>2. s = 0 /\ tk = << >>
  BY <1>1 DEF Dealing
<1>3. s * Ranks = 0
  BY <1>2, PackingConstants
<1>4. InHand(R, c, skd, << >>)
  BY <1>2, <1>3 DEF Dealing
<1>5. Len(<< >>) = 0 /\ << >> \in Seq(Row)
  OBVIOUS
<1>6. c = skd
  BY <1>4, <1>5 DEF InHand
<1>7. InHand(R, c + 1, skd + 1, << >>)
  BY <1>5, <1>6, PackingConstants DEF InHand
<1>8. QED BY <1>2, <1>3, <1>7 DEF Dealing

LEMMA Takes ==
  ASSUME NEW R \in Seq(Row), NEW c \in Nat, NEW sk \in Nat, NEW skd \in Nat, NEW s \in Nat,
         NEW tk, NEW sent, NEW got, NEW lf,
         Dealing(R, c, sk, skd, s, tk, sent, got, lf), skd = sk * Ranks, c + 1 <= Len(R),
         Len(tk) < Ranks
  PROVE  Dealing(R, c + 1, sk, skd, s, Append(tk, R[c + 1]), sent, got, lf)
<1>1. PICK gone \in Nat : gone = skd + s * Ranks
  BY PackingConstants
<1>2. PICK l \in Nat : l = Len(tk)
  BY DEF Dealing, InHand
<1>3. tk \in Seq(Row) /\ c = gone + l /\ l < Ranks /\ l + 1 <= Ranks
  BY <1>1, <1>2, PackingConstants DEF Dealing, InHand
<1>4. R[c + 1] \in Row
  OBVIOUS
<1>5. PICK row \in Row : row = R[c + 1]
  BY <1>4
<1>6. Append(tk, row) \in Seq(Row) /\ Len(Append(tk, row)) = l + 1
  BY <1>2, <1>3
<1>7. ASSUME NEW i \in 1..l + 1 PROVE Append(tk, row)[i] = R[gone + i]
  <2>1. CASE i = l + 1
    <3>1. gone + i = c + 1
      BY <1>3, <2>1
    <3>2. QED BY <1>2, <1>3, <1>5, <2>1, <3>1
  <2>2. CASE i # l + 1
    <3>1. i \in 1..l
      BY <2>2
    <3>2. tk[i] = R[gone + i]
      BY <1>1, <1>2, <3>1 DEF Dealing, InHand
    <3>3. QED BY <1>2, <1>3, <3>1, <3>2
  <2>3. QED BY <2>1, <2>2
<1>8. c + 1 = gone + (l + 1)
  BY <1>3
<1>9. InHand(R, c + 1, gone, Append(tk, row))
  BY <1>3, <1>6, <1>7, <1>8 DEF InHand
<1>10. QED BY <1>1, <1>5, <1>9 DEF Dealing

LEMMA Sends ==
  ASSUME NEW R \in Seq(Row), NEW c \in Nat, NEW sk \in Nat, NEW skd \in Nat, NEW s \in Nat,
         NEW tk, NEW sent, NEW got, NEW lf, NEW new,
         Dealing(R, c, sk, skd, s, tk, sent, got, lf), Len(tk) = Ranks,
         \A r \in 1..Ranks : sent[r] = << >> /\ new[r] = <<tk[r]>>
  PROVE  Dealing(R, c, sk, skd, s + 1, << >>, new, got, lf)
<1>1. PICK gone \in Nat : gone = skd + s * Ranks
  BY PackingConstants
<1>2. tk \in Seq(Row) /\ tk # << >> /\ c = gone + Ranks /\ c <= Len(R)
  BY <1>1, PackingConstants DEF Dealing, InHand
<1>3. skd = sk * Ranks
  BY <1>2 DEF Dealing
<1>4. skd + (s + 1) * Ranks = c
  BY <1>1, <1>2, PackingConstants
<1>5. InHand(R, c, c, << >>)
  <2>1. Len(<< >>) = 0 /\ << >> \in Seq(Row)
    OBVIOUS
  <2>2. QED BY <1>2, <2>1, PackingConstants DEF InHand
<1>6. ASSUME NEW r \in 1..Ranks PROVE Coming(R, sk, s + 1, new, got, r)
  <2>1. Len(got[r]) = s
    <3>1. sent[r] = << >>
      OBVIOUS
    <3>2. \A row : << >> # <<row>>
      OBVIOUS
    <3>3. Coming(R, sk, s, sent, got, r)
      BY DEF Dealing
    <3>4. QED BY <3>1, <3>2, <3>3 DEF Coming
  <2>2. Place(sk, s + 1, r) = gone + r
    <3>1. sk + (s + 1) - 1 = sk + s
      OBVIOUS
    <3>2. (sk + s) * Ranks = sk * Ranks + s * Ranks
      BY PackingConstants
    <3>3. QED BY <1>1, <1>3, <3>1, <3>2 DEF Place
  <2>3. gone + r <= Len(R)
    BY <1>2, PackingConstants
  <2>4. tk[r] = R[gone + r]
    BY <1>1 DEF Dealing, InHand
  <2>5. new[r] = <<R[Place(sk, s + 1, r)]>>
    BY <2>2, <2>4
  <2>6. s + 1 > 0 /\ (s + 1) - 1 = s
    OBVIOUS
  <2>7. QED BY <2>1, <2>2, <2>3, <2>5, <2>6 DEF Coming
<1>7. QED BY <1>3, <1>4, <1>5, <1>6 DEF Dealing

LEMMA Receives ==
  ASSUME NEW R \in Seq(Row), NEW c \in Nat, NEW sk \in Nat, NEW skd \in Nat, NEW s \in Nat,
         NEW tk, NEW sent, NEW got \in [1..Ranks -> Seq(Row)], NEW lf, NEW r \in 1..Ranks,
         DOMAIN sent = 1..Ranks,
         Dealing(R, c, sk, skd, s, tk, sent, got, lf), sent[r] # << >>,
         Right(R, sk, got)
  PROVE  /\ Head(sent[r]) # Nothing
         /\ Dealing(R, c, sk, skd, s, tk, [sent EXCEPT ![r] = Tail(@)],
                    [got EXCEPT ![r] = Append(@, Head(sent[r]))], lf)
         /\ [got EXCEPT ![r] = Append(@, Head(sent[r]))] \in [1..Ranks -> Seq(Row)]
         /\ Right(R, sk, [got EXCEPT ![r] = Append(@, Head(sent[r]))])
<1>1. PICK p \in Nat : p = Place(sk, s, r) /\ p # 0 /\ p <= Len(R) /\ sent[r] = <<R[p]>> /\ s > 0 /\ Len(got[r]) = s - 1
  <2>1. Coming(R, sk, s, sent, got, r)
    BY DEF Dealing
  <2>2. s > 0 /\ Len(got[r]) = s - 1 /\ Place(sk, s, r) <= Len(R) /\ sent[r] = <<R[Place(sk, s, r)]>>
    BY <2>1 DEF Coming
  <2>3. PICK j \in Nat : j = sk + s - 1
    BY <2>2
  <2>4. j * Ranks \in Nat /\ r \in Nat /\ r # 0
    BY PackingConstants
  <2>5. Place(sk, s, r) = j * Ranks + r
    BY <2>3 DEF Place
  <2>6. QED BY <2>2, <2>4, <2>5
<1>2. PICK row \in Row : row = R[p]
  <2>1. p \in DOMAIN R
    BY <1>1
  <2>2. QED BY <2>1
<1>3. Head(sent[r]) = row /\ Tail(sent[r]) = << >>
  BY <1>1, <1>2
<1>4. row # Nothing
  BY DEF Row, Nothing
<1>5. PICK after : after = [got EXCEPT ![r] = Append(@, row)]
  OBVIOUS
<1>6. PICK more \in Seq(Row) : more = Append(got[r], row)
  <2>1. got[r] \in Seq(Row)
    OBVIOUS
  <2>2. \A q \in Seq(Row) : Append(q, row) \in Seq(Row)
    OBVIOUS
  <2>3. QED BY <2>1, <2>2
<1>7. PICK l \in Nat : l = Len(got[r]) /\ l + 1 = s
  BY <1>1
<1>8. Len(more) = s /\ DOMAIN more = 1..s /\ more[s] = row /\ \A k \in 1..s : k # s => more[k] = got[r][k] /\ k \in DOMAIN got[r]
  <2>1. got[r] \in Seq(Row)
    OBVIOUS
  <2>2. Len(more) = l + 1 /\ more[l + 1] = row /\ \A k \in 1..l : more[k] = got[r][k] /\ k \in DOMAIN got[r]
    BY <1>6, <1>7, <2>1
  <2>3. \A k \in 1..s : k # s => k \in 1..l
    BY <1>7
  <2>4. QED BY <1>6, <1>7, <2>2, <2>3
<1>9. after \in [1..Ranks -> Seq(Row)] /\ after[r] = more /\ \A q \in 1..Ranks : q # r => after[q] = got[q]
  BY <1>5, <1>6
<1>10. Right(R, sk, after)
  <2>1. ASSUME NEW q \in 1..Ranks, NEW k \in DOMAIN after[q]
        PROVE  Place(sk, k, q) <= Len(R) /\ after[q][k] = R[Place(sk, k, q)]
    <3>1. CASE q # r
      BY <1>9, <2>1, <3>1 DEF Right
    <3>2. CASE q = r /\ k = s
      BY <1>1, <1>2, <1>8, <1>9, <3>2
    <3>3. CASE q = r /\ k # s
      <4>1. k \in DOMAIN got[r] /\ after[q][k] = got[r][k]
        BY <1>8, <1>9, <2>1, <3>3
      <4>2. QED BY <3>3, <4>1 DEF Right
    <3>4. QED BY <3>1, <3>2, <3>3
  <2>2. QED BY <2>1 DEF Right
<1>11. PICK now : now = [sent EXCEPT ![r] = << >>]
  OBVIOUS
<1>12. now[r] = << >> /\ \A q \in 1..Ranks : q # r => now[q] = sent[q]
  BY <1>11
<1>13. \A q \in 1..Ranks : Coming(R, sk, s, now, after, q)
  <2>1. Coming(R, sk, s, now, after, r)
    BY <1>8, <1>9, <1>12 DEF Coming
  <2>2. ASSUME NEW q \in 1..Ranks, q # r PROVE Coming(R, sk, s, now, after, q)
    <3>1. Coming(R, sk, s, sent, got, q)
      BY DEF Dealing
    <3>2. QED BY <1>9, <1>12, <2>2, <3>1 DEF Coming
  <2>3. QED BY <2>1, <2>2
<1>14. Dealing(R, c, sk, skd, s, tk, now, after, lf)
  BY <1>13 DEF Dealing
<1>15. now = [sent EXCEPT ![r] = Tail(@)]
  BY <1>3, <1>11
<1>16. after = [got EXCEPT ![r] = Append(@, Head(sent[r]))]
  BY <1>3, <1>5
<1>17. QED BY <1>3, <1>4, <1>9, <1>10, <1>14, <1>15, <1>16

-----------------------------------------------------------------------------
(* The invariant.  K intervals have been grouped and c of their rows are    *)
(* gone from rows.                                                          *)
Counts ==
  /\ length \in Seq(Int) /\ skip \in Nat /\ skipped \in Nat
  /\ pos \in Nat /\ num \in Nat /\ num <= pos /\ pos <= Len(length)
  /\ num <= PackingInterval /\ phase \in {"put", "fetch", "over"}

Feeding ==
  /\ phase = "put" =>
       /\ fetched = 0 /\ num <= pos
       /\ Putting(inQueue, outQueue, busy, num, pos - num, length)
  /\ phase = "fetch" =>
       /\ fetched \in Nat /\ rows = << >>
       /\ num = PackingInterval \/ pos = Len(length)
       /\ Fetching(inQueue, outQueue, busy, num, pos - num, length, fetched, res)

Made(K) == Grouped(length)[K].rows

Making(K) ==
  phase # "over" => K * PackingInterval = pos - num /\ data = Grouped(length)[K].rest

Served(c) ==
  \/ \E s \in Nat : Dealing(ExpectedRows, c, skip, skipped, s, taken, wire, batches, left)
  \/ phase = "over" /\ rows = << >> /\ Told(wire, left)

Serving ==
  \E K, c \in Nat :
    K <= Intervals(length) /\ Making(K) /\ Remains(Made(K), c, rows) /\ Served(c)

Received ==
  /\ DOMAIN wire = 1..Ranks /\ batches \in [1..Ranks -> Seq(Row)]
  /\ Right(ExpectedRows, skip, batches)

IInv == Counts /\ Feeding /\ Serving /\ Received

LEMMA AllRows ==
  ASSUME length \in Seq(Int)
  PROVE  /\ ExpectedRows \in Seq(Row)
         /\ \A K \in Nat : K <= Intervals(length) => Begins(Made(K), ExpectedRows)
<1>1. Intervals(length) \in Nat
  BY IntervalsCount
<1>2. ExpectedRows \in Seq(Row)
  BY <1>1, GroupedTyped DEF ExpectedRows, State
<1>3. ASSUME NEW K \in Nat, K <= Intervals(length) PROVE Begins(Made(K), ExpectedRows)
  BY <1>3, RowsGrow DEF Made, ExpectedRows
<1>4. QED BY <1>2, <1>3

(* The next row is the one that is due.                                     *)
LEMMA NextRow ==
  ASSUME length \in Seq(Int), NEW K \in Nat, K <= Intervals(length), NEW c \in Nat,
         Remains(Made(K), c, rows), rows # << >>
  PROVE  /\ Remains(Made(K), c + 1, Tail(rows))
         /\ c + 1 <= Len(ExpectedRows) /\ Head(rows) = ExpectedRows[c + 1]
<1>1. PICK all : all = Made(K)
  OBVIOUS
<1>2. /\ Remains(all, c + 1, Tail(rows)) /\ c + 1 <= Len(all) /\ Head(rows) = all[c + 1]
      /\ all \in Seq(Row)
  BY <1>1, OneGone DEF Remains
<1>3. Begins(all, ExpectedRows) /\ ExpectedRows \in Seq(Row)
  BY <1>1, AllRows
<1>4. PICK l \in Nat, m \in Nat : l = Len(all) /\ m = Len(ExpectedRows) /\ l <= m
  BY <1>2, <1>3 DEF Begins
<1>5. c + 1 \in 1..l
  BY <1>2, <1>4
<1>6. ExpectedRows[c + 1] = all[c + 1]
  BY <1>3, <1>4, <1>5 DEF Begins
<1>7. QED BY <1>1, <1>2, <1>4, <1>5, <1>6

LEMMA InitInv ==
  ASSUME Init PROVE IInv
<1>1. length \in Seq(Int)
  <2>1. PICK n \in Nat : length \in [1..n -> Lengths]
    BY PackingConstants DEF Init
  <2>2. length \in [1..n -> Int]
    BY <2>1, PackingConstants
  <2>3. QED BY <2>2
<1>2. Counts
  BY <1>1, PackingConstants DEF Init, Counts
<1>3. Feeding
  <2>1. phase # "fetch"
    BY DEF Init
  <2>2. PICK where : where = << >>
    OBVIOUS
  <2>3. Waiting(<< >>, 0, 0, where)
    <3>1. << >> \in Seq(Task(0)) /\ DOMAIN << >> = {}
      OBVIOUS
    <3>2. QED BY <3>1 DEF Waiting, Apart
  <2>4. Answered(<< >>, 0, 0, where, length)
    <3>1. << >> \in Seq(Got(0)) /\ DOMAIN << >> = {}
      OBVIOUS
    <3>2. QED BY <3>1 DEF Answered, Apart
  <2>5. Working(busy, 0, 0, where)
    BY DEF Init, Working, Idle
  <2>6. Done(0, where) = {}
    BY DEF Done
  <2>7. Putting(inQueue, outQueue, busy, num, pos - num, length)
    BY <2>3, <2>4, <2>5, <2>6 DEF Init, Putting, Way
  <2>8. QED BY <2>1, <2>7 DEF Feeding, Init
<1>4. Serving
  <2>1. 0 <= Intervals(length)
    BY <1>1, IntervalsCount
  <2>2. Grouped(length)[0] = Start
    BY <1>1, GroupedSteps
  <2>3. Making(0)
    BY <2>2, PackingConstants DEF Making, Start, Init
  <2>4. << >> \in Seq(Row) /\ Len(<< >>) = 0
    OBVIOUS
  <2>5. Remains(Made(0), 0, rows)
    BY <2>2, <2>4 DEF Made, Start, Init, Remains
  <2>6. 0 * Ranks = 0
    BY PackingConstants
  <2>7. InHand(ExpectedRows, 0, 0, << >>)
    <3>1. Len(ExpectedRows) \in Nat
      BY <1>1, AllRows
    <3>2. QED BY <2>4, <3>1, PackingConstants DEF InHand
  <2>8. \A r \in 1..Ranks : Coming(ExpectedRows, skip, 0, wire, batches, r)
    BY <2>4 DEF Init, Coming
  <2>9. Dealing(ExpectedRows, 0, skip, skipped, 0, taken, wire, batches, left)
    <3>1. skipped = 0 /\ skipped + 0 * Ranks = 0 /\ taken = << >> /\ left = {} /\ ~(0 > 0)
      BY <2>6 DEF Init
    <3>2. InHand(ExpectedRows, 0, skipped + 0 * Ranks, taken)
      BY <2>7, <3>1
    <3>3. QED BY <2>8, <3>1, <3>2 DEF Dealing
  <2>10. QED BY <2>1, <2>3, <2>5, <2>9 DEF Serving, Served
<1>5. Received
  <2>1. << >> \in Seq(Row)
    OBVIOUS
  <2>2. QED BY <2>1 DEF Init, Received, Right
<1>6. QED BY <1>2, <1>3, <1>4, <1>5 DEF IInv

LEMMA InvIsSafe ==
  ASSUME IInv PROVE SameBatches
BY DEF IInv, Received, Right, Place, SameBatches

LEMMA Kept ==
  ASSUME length' = length
  PROVE  /\ ExpectedRows' = ExpectedRows
         /\ \A K : Made(K)' = Made(K)
BY DEF ExpectedRows, Made

LEMMA ServingKept ==
  ASSUME IInv, UNCHANGED <<length, skip, rows, dispatch>>,
         phase' = "over" <=> phase = "over",
         phase # "over" => pos' - num' = pos - num /\ data' = data
  PROVE  Serving' /\ Received'
<1>1. PICK K \in Nat, c \in Nat :
        K <= Intervals(length) /\ Making(K) /\ Remains(Made(K), c, rows) /\ Served(c)
  BY DEF IInv, Serving
<1>2. ExpectedRows' = ExpectedRows /\ Made(K)' = Made(K) /\ Intervals(length)' = Intervals(length)
  BY Kept
<1>3. Making(K)'
  BY <1>1 DEF Making
<1>4. Remains(Made(K), c, rows)'
  BY <1>1, <1>2
<1>5. Served(c)'
  BY <1>1, <1>2 DEF Served, dispatch
<1>6. Received'
  BY <1>2 DEF IInv, Received, dispatch
<1>7. QED BY <1>1, <1>2, <1>3, <1>4, <1>5, <1>6 DEF Serving

LEMMA CountsKept ==
  ASSUME Counts, UNCHANGED <<length, skip, pos, num>>, skipped' \in Nat,
         phase' \in {"put", "fetch", "over"}
  PROVE  Counts'
BY DEF Counts

LEMMA PutStep ==
  ASSUME IInv, Put PROVE IInv'
<1>1. Counts'
  <2>1. /\ length' \in Seq(Int) /\ skip' \in Nat /\ skipped' \in Nat
        /\ phase' \in {"put", "fetch", "over"}
    BY DEF IInv, Counts, Put, dispatch
  <2>2. num' = num + 1 /\ pos' = pos + 1 /\ num < PackingInterval /\ pos < Len(length) /\ length' = length
    BY DEF Put
  <2>3. num \in Nat /\ pos \in Nat /\ num <= pos /\ Len(length) \in Nat
    BY DEF IInv, Counts
  <2>4. num' \in Nat /\ pos' \in Nat /\ num' <= pos' /\ pos' <= Len(length') /\ num' <= PackingInterval
    BY <2>2, <2>3, PackingConstants
  <2>5. QED BY <2>1, <2>4 DEF Counts
<1>2. Feeding'
  <2>1. PICK b \in Nat : b = pos - num
    BY DEF IInv, Counts
  <2>2. Putting(inQueue, outQueue, busy, num, b, length)
    BY <2>1 DEF IInv, Feeding, Put
  <2>3. [at |-> num + 1, sample |-> pos + 1] = [at |-> num + 1, sample |-> b + (num + 1)]
    BY <2>1 DEF IInv, Counts
  <2>4. Putting(inQueue', outQueue', busy', num', b, length')
    BY <2>2, <2>3, PutsOne DEF IInv, Counts, Put, queues
  <2>5. pos' - num' = b
    BY <2>1 DEF IInv, Counts, Put
  <2>6. phase' = "put" /\ fetched' = 0 /\ num' <= pos'
    BY DEF IInv, Feeding, Counts, Put
  <2>7. QED BY <2>4, <2>5, <2>6 DEF Feeding
<1>3. pos' - num' = pos - num /\ data' = data
  BY DEF IInv, Counts, Put
<1>4. QED BY <1>1, <1>2, <1>3, ServingKept DEF IInv, Put

LEMMA PutEndsStep ==
  ASSUME IInv, PutEnds PROVE IInv'
<1>1. Counts'
  <2>1. UNCHANGED <<length, skip, pos, num>> /\ skipped' = skipped
    BY DEF PutEnds, dispatch
  <2>2. skipped \in Nat /\ phase' \in {"put", "fetch", "over"}
    BY DEF IInv, Counts, PutEnds, dispatch
  <2>3. QED BY <2>1, <2>2, CountsKept DEF IInv
<1>2. Feeding'
  <2>1. PICK b \in Nat : b = pos - num
    BY DEF IInv, Counts
  <2>2. Putting(inQueue, outQueue, busy, num, b, length)
    BY <2>1 DEF IInv, Feeding, PutEnds
  <2>3. Fetching(inQueue, outQueue, busy, num, b, length, 0, [i \in 1..num |-> Failed])
    BY <2>2, PutsEnd DEF IInv, Counts
  <2>4. Fetching(inQueue', outQueue', busy', num', b, length', fetched', res')
    BY <2>3 DEF PutEnds, queues
  <2>5. pos' - num' = b
    BY <2>1 DEF PutEnds
  <2>6. /\ phase' = "fetch" /\ fetched' \in Nat /\ rows' = << >>
        /\ num' = PackingInterval \/ pos' = Len(length')
    BY DEF PutEnds
  <2>7. QED BY <2>4, <2>5, <2>6 DEF Feeding
<1>3. QED BY <1>1, <1>2, ServingKept DEF IInv, PutEnds

LEMMA GetStep ==
  ASSUME IInv, NEW w \in Workers, Get(w) PROVE IInv'
<1>1. Counts'
  <2>1. UNCHANGED <<length, skip, pos, num>> /\ skipped' = skipped
    BY DEF Get, packing, dispatch
  <2>2. skipped \in Nat /\ phase' \in {"put", "fetch", "over"}
    BY DEF IInv, Counts, Get, packing, dispatch
  <2>3. QED BY <2>1, <2>2, CountsKept DEF IInv
<1>2. Feeding'
  <2>1. PICK b \in Nat : b = pos - num /\ b = pos' - num'
    BY DEF IInv, Counts, Get, packing
  <2>2. PICK n \in Nat : n = num /\ n = num'
    BY DEF IInv, Counts, Get, packing
  <2>3. ASSUME NEW where, Way(inQueue, outQueue, busy, n, b, where, length)
        PROVE  \E new : /\ Way(inQueue', outQueue', busy', n, b, new, length')
                        /\ Done(n, new) = Done(n, where)
    <3>1. inQueue # << >> /\ Idle(busy[w])
      BY DEF Get, Idle
    <3>2. \E new : /\ Way(Tail(inQueue), outQueue, [busy EXCEPT ![w] = Head(inQueue)], n, b, new, length)
                   /\ Done(n, new) = Done(n, where)
      BY <2>3, <3>1, Gets
    <3>3. QED BY <3>2 DEF Get
  <2>4. ASSUME phase' = "put" PROVE Putting(inQueue', outQueue', busy', n, b, length')
    <3>1. Putting(inQueue, outQueue, busy, n, b, length)
      BY <2>1, <2>2, <2>4 DEF IInv, Feeding, Get, packing
    <3>2. QED BY <2>3, <3>1 DEF Putting
  <2>5. ASSUME phase' = "fetch" PROVE Fetching(inQueue', outQueue', busy', n, b, length', fetched', res')
    <3>1. Fetching(inQueue, outQueue, busy, n, b, length, fetched, res)
      BY <2>1, <2>2, <2>5 DEF IInv, Feeding, Get, packing
    <3>2. PICK where : /\ Way(inQueue, outQueue, busy, n, b, where, length)
                       /\ Cardinality(Done(n, where)) = fetched /\ Found(res, n, b, where, length)
      BY <3>1 DEF Fetching
    <3>3. PICK new : /\ Way(inQueue', outQueue', busy', n, b, new, length')
                     /\ Done(n, new) = Done(n, where)
      BY <2>3, <3>2
    <3>4. Cardinality(Done(n, new)) = fetched' /\ Found(res', n, b, new, length')
      BY <3>2, <3>3 DEF Found, Get, packing
    <3>5. QED BY <3>3, <3>4 DEF Fetching
  <2>6. /\ phase' = phase /\ fetched' = fetched /\ num' = num /\ pos' = pos /\ rows' = rows
        /\ length' = length
    BY DEF Get, packing
  <2>7. QED BY <2>1, <2>2, <2>4, <2>5, <2>6 DEF IInv, Feeding
<1>3. pos' = pos /\ num' = num /\ data' = data /\ phase' = phase
  BY DEF Get, packing
<1>4. QED BY <1>1, <1>2, <1>3, ServingKept DEF IInv, Get

LEMMA EncodeStep ==
  ASSUME IInv, NEW w \in Workers, Encode(w) PROVE IInv'
<1>1. Counts'
  <2>1. UNCHANGED <<length, skip, pos, num>> /\ skipped' = skipped
    BY DEF Encode, packing, dispatch
  <2>2. skipped \in Nat /\ phase' \in {"put", "fetch", "over"}
    BY DEF IInv, Counts, Encode, packing, dispatch
  <2>3. QED BY <2>1, <2>2, CountsKept DEF IInv
<1>2. Feeding'
  <2>1. PICK b \in Nat : b = pos - num /\ b = pos' - num'
    BY DEF IInv, Counts, Encode, packing
  <2>2. PICK n \in Nat : n = num /\ n = num'
    BY DEF IInv, Counts, Encode, packing
  <2>3. b + n <= Len(length)
    BY <2>1, <2>2 DEF IInv, Counts
  <2>4. ASSUME NEW where, Way(inQueue, outQueue, busy, n, b, where, length)
        PROVE  \E new : /\ Way(inQueue', outQueue', busy', n, b, new, length')
                        /\ Done(n, new) = Done(n, where)
    <3>1. CASE Raises(busy[w].sample)
      <4>1. Way(inQueue, outQueue, [busy EXCEPT ![w] = Dead], n, b, where, length)
        BY <2>4, Dies
      <4>2. QED BY <3>1, <4>1 DEF Encode
    <3>2. CASE ~Raises(busy[w].sample)
      <4>1. ~Idle(busy[w])
        BY DEF Encode, Idle
      <4>2. HandsOver(inQueue, outQueue, busy, w, n, b, where, length)
        <5>1. length \in Seq(Int)
          BY DEF IInv, Counts
        <5>2. QED BY <2>3, <2>4, <4>1, <5>1, Encodes
      <4>3. QED BY <3>2, <4>2 DEF Encode, HandsOver
    <3>3. QED BY <3>1, <3>2
  <2>5. ASSUME phase' = "put" PROVE Putting(inQueue', outQueue', busy', n, b, length')
    <3>1. Putting(inQueue, outQueue, busy, n, b, length)
      BY <2>1, <2>2, <2>5 DEF IInv, Feeding, Encode, packing
    <3>2. QED BY <2>4, <3>1 DEF Putting
  <2>6. ASSUME phase' = "fetch" PROVE Fetching(inQueue', outQueue', busy', n, b, length', fetched', res')
    <3>1. Fetching(inQueue, outQueue, busy, n, b, length, fetched, res)
      BY <2>1, <2>2, <2>6 DEF IInv, Feeding, Encode, packing
    <3>2. PICK where : /\ Way(inQueue, outQueue, busy, n, b, where, length)
                       /\ Cardinality(Done(n, where)) = fetched /\ Found(res, n, b, where, length)
      BY <3>1 DEF Fetching
    <3>3. PICK new : /\ Way(inQueue', outQueue', busy', n, b, new, length')
                     /\ Done(n, new) = Done(n, where)
      BY <2>4, <3>2
    <3>4. Cardinality(Done(n, new)) = fetched' /\ Found(res', n, b, new, length')
      BY <3>2, <3>3 DEF Found, Encode, packing
    <3>5. QED BY <3>3, <3>4 DEF Fetching
  <2>7. /\ phase' = phase /\ fetched' = fetched /\ num' = num /\ pos' = pos /\ rows' = rows
        /\ length' = length
    BY DEF Encode, packing
  <2>8. QED BY <2>1, <2>2, <2>5, <2>6, <2>7 DEF IInv, Feeding
<1>3. pos' = pos /\ num' = num /\ data' = data /\ phase' = phase
  BY DEF Encode, packing
<1>4. QED BY <1>1, <1>2, <1>3, ServingKept DEF IInv, Encode

LEMMA FetchStep ==
  ASSUME IInv, Fetch PROVE IInv'
<1>1. Counts'
  <2>1. UNCHANGED <<length, skip, pos, num>> /\ skipped' = skipped
    BY DEF Fetch, dispatch
  <2>2. skipped \in Nat /\ phase' \in {"put", "fetch", "over"}
    BY DEF IInv, Counts, Fetch, dispatch
  <2>3. QED BY <2>1, <2>2, CountsKept DEF IInv
<1>2. Feeding'
  <2>1. PICK b \in Nat : b = pos - num /\ b = pos' - num'
    BY DEF IInv, Counts, Fetch
  <2>2. Fetching(inQueue, outQueue, busy, num, b, length, fetched, res) /\ fetched \in Nat
    BY <2>1 DEF IInv, Feeding, Fetch
  <2>3. Fetching(inQueue, Tail(outQueue), busy, num, b, length, fetched + 1,
                 [res EXCEPT ![Head(outQueue).at] = Head(outQueue).answer])
    BY <2>2, FetchesOne DEF IInv, Counts, Fetch
  <2>4. Fetching(inQueue', outQueue', busy', num', b, length', fetched', res')
    BY <2>3 DEF Fetch, Placed
  <2>5. /\ phase' = "fetch" /\ fetched' \in Nat /\ rows' = << >>
        /\ num' = PackingInterval \/ pos' = Len(length')
    BY <2>2 DEF IInv, Feeding, Fetch
  <2>6. QED BY <2>1, <2>4, <2>5 DEF Feeding
<1>3. QED BY <1>1, <1>2, ServingKept DEF IInv, Fetch

LEMMA GroupStep ==
  ASSUME IInv, Group PROVE IInv'
<1>1. PICK D \in Seq(Int), n \in Nat, b \in Nat, N \in Nat :
        D = length /\ n = num /\ b = pos - num /\ N = Len(length)
  <2>1. length \in Seq(Int) /\ num \in Nat /\ pos - num \in Nat /\ Len(length) \in Nat
    BY DEF IInv, Counts
  <2>2. QED BY <2>1
<1>2. PICK P \in Nat \ {0} : P = PackingInterval
  BY PackingConstants
<1>3. phase = "fetch" /\ fetched = n /\ n <= P /\ b + n = pos /\ b + n <= N /\ rows = << >>
  BY <1>1, <1>2 DEF IInv, Counts, Feeding, Group
<1>4. n = P \/ b + n = N
  BY <1>1, <1>2, <1>3 DEF IInv, Feeding
<1>5. Fetching(inQueue, outQueue, busy, n, b, D, n, res)
  BY <1>1, <1>3 DEF IInv, Feeding
<1>6. res = [a \in 1..n |-> Encoded(D, b + a)] /\ Putting(inQueue, outQueue, busy, 0, pos, D)
  BY <1>5, AllFetched
<1>7. PICK K \in Nat, c \in Nat :
        K <= Intervals(D) /\ Making(K) /\ Remains(Made(K), c, rows) /\ Served(c)
  BY <1>1 DEF IInv, Serving
<1>8. K * P = b /\ data = Grouped(D)[K].rest
  BY <1>1, <1>2, <1>3, <1>7 DEF Making
<1>9. K < Intervals(D)
  <2>1. K * P <= N
    BY <1>3, <1>8
  <2>2. K <= N \div P /\ N \div P \in Nat
    BY <2>1, Division
  <2>3. QED BY <1>1, <1>2, <2>2 DEF Intervals
<1>10. Size(D, K) = n
  <2>1. Size(D, K) = IF N - b < P THEN N - b ELSE P
    BY <1>1, <1>2, <1>8 DEF Size
  <2>2. QED BY <1>3, <1>4, <2>1
<1>11. res = Interval(D, K)
  BY <1>2, <1>6, <1>8, <1>10 DEF Interval
<1>12. PICK finished \in BOOLEAN : finished <=> n # P
  OBVIOUS
<1>13. PICK before \in State : before = Grouped(D)[K]
  BY <1>9, GroupedTyped, IntervalsCount
<1>14. PICK grouped \in State : grouped = MatchedGroup(data \o res, finished)
  <2>1. PICK rest \in Seq(Answers), more \in Seq(Answers) : rest = data /\ more = res
    <3>1. data \in Seq(Answers)
      BY <1>8, <1>13 DEF State, Answers
    <3>2. res \in Seq(Answers)
      BY <1>9, <1>11, IntervalTyped
    <3>3. QED BY <3>1, <3>2
  <2>2. rest \o more \in Seq(Answers)
    OBVIOUS
  <2>3. QED BY <2>1, <2>2, MatchedTyped
<1>15. rows' = grouped.rows /\ data' = grouped.rest /\ phase' = IF finished THEN "over" ELSE "put"
  <2>1. finished = (num # PackingInterval)
    BY <1>1, <1>2, <1>12
  <2>2. QED BY <1>14, <2>1 DEF Group
<1>16. Grouped(D)[K + 1] = [rows |-> before.rows \o grouped.rows, rest |-> grouped.rest]
  <2>1. Grouped(D)[K + 1] = AfterInterval(D, before, K)
    BY <1>9, <1>13, GroupedSteps
  <2>2. finished = (Size(D, K) # PackingInterval)
    BY <1>2, <1>10, <1>12
  <2>3. before.rest \o Interval(D, K) = data \o res
    BY <1>8, <1>11, <1>13
  <2>4. QED BY <1>14, <2>1, <2>2, <2>3 DEF AfterInterval
<1>17. length' = D /\ num' = 0 /\ pos' = pos /\ fetched' = 0 /\ skip' = skip /\ UNCHANGED <<dispatch, queues>>
  BY <1>1 DEF Group
<1>18. Counts'
  <2>1. skip \in Nat /\ skipped \in Nat /\ pos \in Nat /\ pos <= Len(D)
    BY <1>1 DEF IInv, Counts
  <2>2. phase' \in {"put", "fetch", "over"}
    BY <1>15
  <2>3. QED BY <1>1, <1>17, <2>1, <2>2, PackingConstants DEF Counts, dispatch
<1>19. Feeding'
  <2>1. phase' # "fetch"
    BY <1>15
  <2>2. pos' - num' = pos /\ num' <= pos'
    BY <1>1, <1>3, <1>17
  <2>3. Putting(inQueue', outQueue', busy', num', pos, length')
    BY <1>6, <1>17 DEF queues
  <2>4. QED BY <1>17, <2>1, <2>2, <2>3 DEF Feeding
<1>20. Serving'
  <2>1. K + 1 \in Nat /\ K + 1 <= Intervals(D)
    BY <1>9, IntervalsCount
  <2>2. ASSUME phase' # "over"
        PROVE  (K + 1) * PackingInterval = pos' - num' /\ data' = Grouped(length')[K + 1].rest
    <3>1. n = P
      BY <1>12, <1>15, <2>2
    <3>2. (K + 1) * P = b + P
      BY <1>8
    <3>3. pos' - num' = b + P
      BY <1>1, <1>3, <1>17, <3>1
    <3>4. data' = Grouped(length')[K + 1].rest
      BY <1>15, <1>16, <1>17
    <3>5. QED BY <1>2, <3>2, <3>3, <3>4
  <2>3. Making(K + 1)'
    BY <2>2 DEF Making
  <2>4. Remains(before.rows \o grouped.rows, c, grouped.rows)
    <3>1. Remains(before.rows, c, << >>)
      BY <1>1, <1>3, <1>7, <1>13 DEF Made
    <3>2. grouped.rows \in Seq(Row)
      BY <1>14 DEF State
    <3>3. QED BY <3>1, <3>2, MoreCome
  <2>5. Remains(Made(K + 1)', c, rows')
    <3>1. Made(K + 1)' = Grouped(D)[K + 1].rows
      BY <1>17 DEF Made
    <3>2. PICK new : new = before.rows \o grouped.rows
      OBVIOUS
    <3>3. Grouped(D)[K + 1].rows = new
      <4>1. PICK made, rest : made = Grouped(D)[K + 1] /\ rest = grouped.rest
        OBVIOUS
      <4>2. made = [rows |-> new, rest |-> rest]
        BY ONLY <1>16, <3>2, <4>1
      <4>3. made.rows = new
        BY ONLY <4>2
      <4>4. QED BY <4>1, <4>3
    <3>4. rows' = grouped.rows
      BY <1>15
    <3>5. QED BY <2>4, <3>1, <3>2, <3>3, <3>4
  <2>6. Served(c)'
    <3>1. PICK s \in Nat : Dealing(ExpectedRows, c, skip, skipped, s, taken, wire, batches, left)
      BY <1>3, <1>7 DEF Served
    <3>2. ExpectedRows' = ExpectedRows
      BY <1>1, <1>17, Kept
    <3>3. Dealing(ExpectedRows', c, skip', skipped', s, taken', wire', batches', left')
      BY <1>17, <3>1, <3>2 DEF dispatch
    <3>4. QED BY <3>3 DEF Served
  <2>7. QED BY <1>17, <2>1, <2>3, <2>5, <2>6 DEF Serving
<1>21. Received'
  <2>1. ExpectedRows' = ExpectedRows
    BY <1>1, <1>17, Kept
  <2>2. QED BY <1>17, <2>1 DEF IInv, Received, dispatch
<1>22. QED BY <1>18, <1>19, <1>20, <1>21 DEF IInv

LEMMA FeedingKept ==
  ASSUME Feeding, UNCHANGED <<length, packing, queues>>, phase = "fetch" => rows' = rows
  PROVE  Feeding'
BY DEF Feeding, packing, queues

LEMMA SkipRowStep ==
  ASSUME IInv, SkipRow PROVE IInv'
<1>1. Counts'
  <2>1. UNCHANGED <<length, skip, pos, num>> /\ skipped' = skipped + 1 /\ phase' = phase
    BY DEF SkipRow, packing
  <2>2. skipped \in Nat /\ phase \in {"put", "fetch", "over"}
    BY DEF IInv, Counts
  <2>3. skipped + 1 \in Nat
    BY <2>2
  <2>4. QED BY <2>1, <2>2, <2>3, CountsKept DEF IInv
<1>2. Feeding'
  BY FeedingKept DEF IInv, Feeding, SkipRow
<1>3. PICK K \in Nat, c \in Nat :
        K <= Intervals(length) /\ Making(K) /\ Remains(Made(K), c, rows) /\ Served(c)
  BY DEF IInv, Serving
<1>4. length \in Seq(Int) /\ rows # << >> /\ skipped \in Nat /\ skip \in Nat
  BY DEF IInv, Counts, SkipRow
<1>5. /\ Remains(Made(K), c + 1, Tail(rows)) /\ c + 1 <= Len(ExpectedRows)
  BY <1>3, <1>4, NextRow
<1>6. PICK s \in Nat : Dealing(ExpectedRows, c, skip, skipped, s, taken, wire, batches, left)
  BY <1>3, <1>4 DEF Served
<1>7. Dealing(ExpectedRows, c + 1, skip, skipped + 1, s, taken, wire, batches, left)
  BY <1>4, <1>5, <1>6, Skips, AllRows DEF SkipRow, ToSkip
<1>8. ExpectedRows' = ExpectedRows /\ Made(K)' = Made(K)
  BY Kept DEF SkipRow
<1>9. Served(c + 1)'
  BY <1>7, <1>8 DEF Served, SkipRow
<1>10. Making(K)'
  BY <1>3 DEF Making, SkipRow, packing
<1>11. Remains(Made(K)', c + 1, rows')
  BY <1>5, <1>8 DEF SkipRow
<1>12. Serving'
  <2>1. c + 1 \in Nat /\ K <= Intervals(length')
    BY <1>3 DEF SkipRow
  <2>2. QED BY <1>9, <1>10, <1>11, <2>1 DEF Serving
<1>13. Received'
  BY <1>8 DEF IInv, Received, SkipRow
<1>14. QED BY <1>1, <1>2, <1>12, <1>13 DEF IInv

LEMMA TakeRowStep ==
  ASSUME IInv, TakeRow PROVE IInv'
<1>1. Counts'
  <2>1. UNCHANGED <<length, skip, pos, num>> /\ skipped' = skipped /\ phase' = phase
    BY DEF TakeRow, packing
  <2>2. skipped \in Nat /\ phase \in {"put", "fetch", "over"}
    BY DEF IInv, Counts
  <2>3. QED BY <2>1, <2>2, CountsKept DEF IInv
<1>2. Feeding'
  BY FeedingKept DEF IInv, Feeding, TakeRow
<1>3. PICK K \in Nat, c \in Nat :
        K <= Intervals(length) /\ Making(K) /\ Remains(Made(K), c, rows) /\ Served(c)
  BY DEF IInv, Serving
<1>4. length \in Seq(Int) /\ rows # << >> /\ skipped \in Nat /\ skip \in Nat
  BY DEF IInv, Counts, TakeRow
<1>5. /\ Remains(Made(K), c + 1, Tail(rows)) /\ c + 1 <= Len(ExpectedRows)
      /\ Head(rows) = ExpectedRows[c + 1]
  BY <1>3, <1>4, NextRow
<1>6. PICK s \in Nat : Dealing(ExpectedRows, c, skip, skipped, s, taken, wire, batches, left)
  BY <1>3, <1>4 DEF Served
<1>7. Dealing(ExpectedRows, c + 1, skip, skipped, s, Append(taken, Head(rows)), wire, batches, left)
  BY <1>4, <1>5, <1>6, Takes, AllRows DEF TakeRow, Asks, ToSkip
<1>8. ExpectedRows' = ExpectedRows /\ Made(K)' = Made(K)
  BY Kept DEF TakeRow
<1>9. Served(c + 1)'
  BY <1>7, <1>8 DEF Served, TakeRow
<1>10. Making(K)'
  BY <1>3 DEF Making, TakeRow, packing
<1>11. Remains(Made(K)', c + 1, rows')
  BY <1>5, <1>8 DEF TakeRow
<1>12. Serving'
  <2>1. c + 1 \in Nat /\ K <= Intervals(length')
    BY <1>3 DEF TakeRow
  <2>2. QED BY <1>9, <1>10, <1>11, <2>1 DEF Serving
<1>13. Received'
  BY <1>8 DEF IInv, Received, TakeRow
<1>14. QED BY <1>1, <1>2, <1>12, <1>13 DEF IInv

LEMMA ScatterStep ==
  ASSUME IInv, Scatter PROVE IInv'
<1>1. Counts'
  <2>1. UNCHANGED <<length, skip, pos, num>> /\ skipped' = skipped /\ phase' = phase
    BY DEF Scatter, packing
  <2>2. skipped \in Nat /\ phase \in {"put", "fetch", "over"}
    BY DEF IInv, Counts
  <2>3. QED BY <2>1, <2>2, CountsKept DEF IInv
<1>2. Feeding'
  BY FeedingKept DEF IInv, Scatter
<1>3. PICK K \in Nat, c \in Nat :
        K <= Intervals(length) /\ Making(K) /\ Remains(Made(K), c, rows) /\ Served(c)
  BY DEF IInv, Serving
<1>4. length \in Seq(Int) /\ skipped \in Nat /\ skip \in Nat
  BY DEF IInv, Counts
<1>5. left = {} /\ \A r \in 1..Ranks : wire[r] = << >>
  BY DEF Scatter, Asks
<1>6. PICK s \in Nat : Dealing(ExpectedRows, c, skip, skipped, s, taken, wire, batches, left)
  <2>1. 1 \in 1..Ranks
    BY PackingConstants
  <2>2. << >> # <<Nothing>>
    OBVIOUS
  <2>3. ~Told(wire, left)
    BY <1>5, <2>1, <2>2 DEF Told
  <2>4. QED BY <1>3, <2>3 DEF Served
<1>7. ExpectedRows' = ExpectedRows /\ Made(K)' = Made(K)
  BY Kept DEF Scatter
<1>8. \A r \in 1..Ranks : wire'[r] = <<Share(taken)[r]>>
  BY DEF Scatter
<1>9. Served(c)'
  <2>1. CASE Len(taken) = Ranks
    <3>1. \A r \in 1..Ranks : wire[r] = << >> /\ wire'[r] = <<taken[r]>>
      BY <1>5, <1>8, <2>1 DEF Share
    <3>2. Dealing(ExpectedRows, c, skip, skipped, s + 1, << >>, wire', batches, left)
      BY <1>4, <1>6, <2>1, <3>1, Sends, AllRows
    <3>3. Dealing(ExpectedRows', c, skip', skipped', s + 1, taken', wire', batches', left')
      BY <1>7, <3>2 DEF Scatter
    <3>4. s + 1 \in Nat
      OBVIOUS
    <3>5. QED BY <3>3, <3>4 DEF Served
  <2>2. CASE Len(taken) # Ranks
    <3>1. phase = "over" /\ rows = << >>
      BY <2>2 DEF Scatter
    <3>2. \A r \in 1..Ranks : wire'[r] = <<Nothing>>
      BY <1>8, <2>2 DEF Share
    <3>3. phase' = "over" /\ rows' = << >> /\ Told(wire', left')
      BY <3>1, <3>2 DEF Scatter, packing, Told
    <3>4. QED BY <3>3 DEF Served
  <2>3. QED BY <2>1, <2>2
<1>10. Making(K)'
  BY <1>3 DEF Making, Scatter, packing
<1>11. Remains(Made(K)', c, rows')
  BY <1>3, <1>7 DEF Scatter
<1>12. Serving'
  <2>1. K <= Intervals(length')
    BY <1>3 DEF Scatter
  <2>2. QED BY <1>9, <1>10, <1>11, <2>1 DEF Serving
<1>13. Received'
  <2>1. DOMAIN wire' = 1..Ranks
    BY DEF Scatter
  <2>2. QED BY <1>7, <2>1 DEF IInv, Received, Scatter
<1>14. QED BY <1>1, <1>2, <1>12, <1>13 DEF IInv

LEMMA ReceiveStep ==
  ASSUME IInv, NEW r \in 1..Ranks, Receive(r) PROVE IInv'
<1>1. Counts'
  <2>1. UNCHANGED <<length, skip, pos, num>> /\ skipped' = skipped /\ phase' = phase
    BY DEF Receive, packing
  <2>2. skipped \in Nat /\ phase \in {"put", "fetch", "over"}
    BY DEF IInv, Counts
  <2>3. QED BY <2>1, <2>2, CountsKept DEF IInv
<1>2. Feeding'
  BY FeedingKept DEF IInv, Receive
<1>3. PICK K \in Nat, c \in Nat :
        K <= Intervals(length) /\ Making(K) /\ Remains(Made(K), c, rows) /\ Served(c)
  BY DEF IInv, Serving
<1>4. length \in Seq(Int) /\ skipped \in Nat /\ skip \in Nat
  BY DEF IInv, Counts
<1>5. ExpectedRows' = ExpectedRows /\ Made(K)' = Made(K)
  BY Kept DEF Receive
<1>6. Making(K)' /\ Remains(Made(K)', c, rows') /\ K <= Intervals(length')
  BY <1>3, <1>5 DEF Making, Receive, packing
<1>7. DOMAIN wire = 1..Ranks /\ batches \in [1..Ranks -> Seq(Row)] /\ Right(ExpectedRows, skip, batches)
  BY DEF IInv, Received
<1>8. wire[r] # << >> /\ wire' = [wire EXCEPT ![r] = Tail(@)] /\ DOMAIN wire' = 1..Ranks
  BY <1>7 DEF Receive
<1>9. CASE \E s \in Nat : Dealing(ExpectedRows, c, skip, skipped, s, taken, wire, batches, left)
  <2>1. PICK s \in Nat : Dealing(ExpectedRows, c, skip, skipped, s, taken, wire, batches, left)
    BY <1>9
  <2>2. PICK after : after = [batches EXCEPT ![r] = Append(@, Head(wire[r]))]
    OBVIOUS
  <2>3. /\ Head(wire[r]) # Nothing
        /\ Dealing(ExpectedRows, c, skip, skipped, s, taken, wire', after, left)
        /\ after \in [1..Ranks -> Seq(Row)] /\ Right(ExpectedRows, skip, after)
    <3>1. ExpectedRows \in Seq(Row)
      BY <1>4, AllRows
    <3>2. QED BY <1>4, <1>7, <1>8, <2>1, <2>2, <3>1, Receives
  <2>4. batches' = after /\ left' = left
    BY <2>2, <2>3 DEF Receive
  <2>5. Received'
    BY <1>5, <1>8, <2>3, <2>4 DEF Received, Receive
  <2>6. Served(c)'
    BY <1>5, <2>3, <2>4 DEF Served, Receive
  <2>7. Serving'
    BY <1>6, <2>6 DEF Serving
  <2>8. QED BY <1>1, <1>2, <2>5, <2>7 DEF IInv
<1>10. CASE phase = "over" /\ rows = << >> /\ Told(wire, left)
  <2>1. wire[r] = <<Nothing>> /\ Head(wire[r]) = Nothing /\ Tail(wire[r]) = << >>
    BY <1>8, <1>10 DEF Told
  <2>2. left' = left \cup {r} /\ batches' = batches
    BY <2>1 DEF Receive
  <2>3. wire'[r] = << >> /\ \A q \in 1..Ranks : q # r => wire'[q] = wire[q]
    BY <1>7, <1>8, <2>1
  <2>4. Told(wire', left')
    BY <1>10, <2>2, <2>3 DEF Told
  <2>5. phase' = "over" /\ rows' = << >>
    BY <1>10 DEF Receive, packing
  <2>6. Served(c)'
    BY <2>4, <2>5 DEF Served
  <2>7. Serving'
    BY <1>6, <2>6 DEF Serving
  <2>8. Received'
    BY <1>5, <1>7, <1>8, <2>2 DEF Received, Receive
  <2>9. QED BY <1>1, <1>2, <2>7, <2>8 DEF IInv
<1>11. QED BY <1>3, <1>9, <1>10 DEF Served

LEMMA StepInv ==
  ASSUME IInv, [Next]_vars PROVE IInv'
<1>1. CASE Put
  BY <1>1, PutStep
<1>2. CASE PutEnds
  BY <1>2, PutEndsStep
<1>3. CASE Fetch
  BY <1>3, FetchStep
<1>4. CASE Group
  BY <1>4, GroupStep
<1>5. CASE SkipRow
  BY <1>5, SkipRowStep
<1>6. CASE TakeRow
  BY <1>6, TakeRowStep
<1>7. CASE Scatter
  BY <1>7, ScatterStep
<1>8. CASE \E w \in Workers : Worker(w)
  BY <1>8, GetStep, EncodeStep DEF Worker
<1>9. CASE \E r \in 1..Ranks : Receive(r)
  BY <1>9, ReceiveStep
<1>10. CASE UNCHANGED vars
  <2>1. UNCHANGED <<length, skip, pos, num, packing, queues, rows, dispatch>>
    BY <1>10 DEF vars, packing
  <2>2. UNCHANGED <<phase, data, skipped>>
    BY <2>1 DEF packing, dispatch
  <2>3. Counts'
    BY <2>1, <2>2, CountsKept DEF IInv, Counts
  <2>4. Feeding'
    BY <2>1, FeedingKept DEF IInv
  <2>5. Serving' /\ Received'
    BY <2>1, <2>2, ServingKept
  <2>6. QED BY <2>3, <2>4, <2>5 DEF IInv
<1>11. QED
  BY <1>1, <1>2, <1>3, <1>4, <1>5, <1>6, <1>7, <1>8, <1>9, <1>10
     DEF Next, Dataset, Rank0, EpochOver

(* The k-th batch of a rank is that of a single process, whatever order the *)
(* workers answer in (Fetch, Placed), whatever is held back between two     *)
(* intervals (Group), and however many batches were skipped (SkipRow).      *)
THEOREM BatchesAreTheSame == Spec => []SameBatches
<1>1. Init => IInv
  BY InitInv
<1>2. IInv /\ [Next]_vars => IInv'
  BY StepInv
<1>3. IInv => SameBatches
  BY InvIsSafe
<1>4. QED BY <1>1, <1>2, <1>3, PTL DEF Spec

(* Grouping loses no sample and doubles none, over all intervals and what   *)
(* each holds back (MatchedGroup), and binpacking makes no row too long     *)
(* that holds more than one sample (PlaceInRow).                            *)
THEOREM NothingIsLost == Spec => []PackedOnce
<1>1. Init => IInv
  BY InitInv
<1>2. IInv /\ [Next]_vars => IInv'
  BY StepInv
<1>3. IInv => PackedOnce
  BY GroupingKeepsAll DEF IInv, Counts
<1>4. QED BY <1>1, <1>2, <1>3, PTL DEF Spec

=============================================================================
