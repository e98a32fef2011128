------------------------------ MODULE GrpoProofs ------------------------------
(***************************************************************************)
(* What holds of the generation batches of GRPOTrainer for any number of   *)
(* ranks, samples, generations and mini batches.  First GrpoBatches: an    *)
(* advantage is its completion's own, a completion is compared with those  *)
(* of its prompt, dynamic sampling leaves groups that vary, and every      *)
(* completion is trained on alike.  Then SdpoRouting: the ranks wait for   *)
(* each other in the same collective, and, where the groups are not split  *)
(* over ranks, no rank reads an image another one is writing, and what a   *)
(* completion is corrected with is better than the completion.             *)
(***************************************************************************)
EXTENDS GrpoBatches, SdpoRouting, TLAPS, FiniteSetTheorems, WellFoundedInduction, SequenceTheorems

-----------------------------------------------------------------------------
(* Induction over the numbers, by sets: what FlattenSeq, Among and a sum    *)
(* over a finite set are is defined by recursion.                           *)
LEMMA Least ==
  ASSUME NEW T, T \subseteq Nat, T # {}
  PROVE  \E n \in T : \A m \in T : n <= m
<1> DEFINE Lt == {ss \in Nat \X Nat : ss[1] < ss[2]}
<1>1. IsWellFoundedOn(Lt, Nat)
  BY NatLessThanWellFounded DEF OpToRel
<1>2. PICK n \in T : \A m \in T : ~(<<m, n>> \in Lt)
  <2> HIDE DEF Lt
  <2> QED BY <1>1, WFMin
<1>3. ASSUME NEW m \in T PROVE ~(m < n)
  <2>1. <<m, n>> \in Nat \X Nat
    BY <1>3
  <2>2. <<m, n>> \notin {ss \in Nat \X Nat : ss[1] < ss[2]}
    BY <1>2
  <2>3. QED BY <2>1, <2>2
<1>4. QED BY <1>3

LEMMA Induction ==
  ASSUME NEW P, 0 \in P, \A n \in Nat : n \in P => n + 1 \in P
  PROVE  Nat \subseteq P
<1> SUFFICES ASSUME Nat \ P # {} PROVE FALSE
  OBVIOUS
<1>1. PICK n \in Nat \ P : \A m \in Nat \ P : n <= m
  BY Least
<1>2. n # 0 /\ n - 1 \in Nat /\ (n - 1) + 1 = n /\ ~(n <= n - 1)
  BY <1>1
<1>3. n - 1 \in P
  BY <1>1, <1>2
<1>4. QED BY <1>1, <1>2, <1>3

LEMMA UpTo ==
  ASSUME NEW n \in Nat, NEW P, 0 \in P, \A i \in Nat : i < n /\ i \in P => i + 1 \in P
  PROVE  0..n \subseteq P
<1> DEFINE Q == {i \in Nat : i <= n => i \in P}
<1>1. 0 \in Q
  OBVIOUS
<1>2. ASSUME NEW i \in Nat, i \in Q PROVE i + 1 \in Q
  <2>1. i + 1 <= n => i < n /\ i <= n
    OBVIOUS
  <2>2. QED BY <1>2, <2>1
<1> HIDE DEF Q
<1>3. Nat \subseteq Q
  BY <1>1, <1>2, Induction
<1>4. QED BY <1>3 DEF Q

(* A sequence of steps exists.                                              *)
Runs(f, n, first, grow) ==
  \A i \in 0..n : f[i] = IF i = 0 THEN first ELSE grow[<<f[i - 1], i>>]

(* What is defined by recursion exists: n steps from first.                 *)
LEMMA Iterates ==
  ASSUME NEW X, NEW first \in X, NEW n \in Nat, NEW grow \in [X \X (1..n) -> X]
  PROVE  \E f \in [0..n -> X] : Runs(f, n, first, grow)
<1> DEFINE Steps(f, m) == \A i \in 0..m : f[i] = IF i = 0 THEN first ELSE grow[<<f[i - 1], i>>]
           P == {m \in Nat : m <= n => \E f \in [0..m -> X] : Steps(f, m)}
<1>1. 0 \in P
  <2>1. [i \in 0..0 |-> first] \in [0..0 -> X] /\ Steps([i \in 0..0 |-> first], 0)
    OBVIOUS
  <2>2. QED BY <2>1
<1>2. ASSUME NEW m \in Nat, m \in P PROVE m + 1 \in P
  <2> SUFFICES ASSUME m + 1 <= n PROVE \E f \in [0..m + 1 -> X] : Steps(f, m + 1)
    OBVIOUS
  <2>1. PICK f \in [0..m -> X] : Steps(f, m)
    BY <1>2
  <2>2. PICK x \in X : x = grow[<<f[m], m + 1>>]
    OBVIOUS
  <2>3. PICK g : g = [i \in 0..m + 1 |-> IF i = m + 1 THEN x ELSE f[i]]
    OBVIOUS
  <2>4. g \in [0..m + 1 -> X]
    BY <2>3
  <2>5. ASSUME NEW i \in 0..m + 1 PROVE g[i] = IF i = 0 THEN first ELSE grow[<<g[i - 1], i>>]
    <3>1. CASE i = m + 1
      <4>1. i # 0 /\ i - 1 = m /\ m \in 0..m + 1 /\ m # m + 1 /\ i \in 0..m + 1
        BY <3>1
      <4>2. g[i] = x /\ g[m] = f[m]
        BY <2>3, <3>1, <4>1
      <4>3. QED BY <2>2, <3>1, <4>1, <4>2
    <3>2. CASE i # m + 1
      <4>1. i \in 0..m /\ (i # 0 => i - 1 \in 0..m)
        BY <3>2
      <4>2. g[i] = f[i] /\ (i # 0 => g[i - 1] = f[i - 1])
        BY <2>3, <4>1
      <4>3. QED BY <2>1, <4>1, <4>2
    <3>3. QED BY <3>1, <3>2
  <2>6. QED BY <2>4, <2>5
<1> HIDE DEF P
<1>3. n \in P
  BY <1>1, <1>2, Induction
<1>4. QED BY <1>3 DEF P, Runs

Keeps(f, s, S) ==
  \A n \in 0..Len(s) : f[n] = IF n = 0 THEN << >>
                              ELSE IF s[n] \in S THEN Append(f[n - 1], s[n]) ELSE f[n - 1]

(* Among keeps or drops one element after the other.                        *)
LEMMA AmongRuns ==
  ASSUME NEW T, NEW s \in Seq(T), NEW S
  PROVE  \E f \in [0..Len(s) -> Seq(T)] : Keeps(f, s, S) /\ Among(s, S) = f[Len(s)]
<1>1. PICK n \in Nat : n = Len(s) /\ \A i \in 1..n : s[i] \in T
  BY LenProperties, ElementOfSeq
<1> DEFINE X == Seq(T)
           grow == [p \in X \X (1..n) |-> IF s[p[2]] \in S THEN Append(p[1], s[p[2]]) ELSE p[1]]
           Kept(f) == f = [i \in 0..n |-> IF i = 0 THEN << >>
                             ELSE IF s[i] \in S THEN Append(f[i - 1], s[i]) ELSE f[i - 1]]
           kept == CHOOSE f : Kept(f)
<1> HIDE DEF X
<1>2. << >> \in X
  BY DEF X
<1>3. grow \in [X \X (1..n) -> X]
  <2>1. ASSUME NEW x \in X, NEW i \in 1..n PROVE Append(x, s[i]) \in X
    BY <1>1, AppendProperties DEF X
  <2>2. QED BY <2>1
<1>4. PICK f \in [0..n -> X] : Runs(f, n, << >>, grow)
  <2> HIDE DEF grow
  <2> QED BY <1>1, <1>2, <1>3, Iterates
<1>5. \A i \in 0..n : f[i] = IF i = 0 THEN << >>
                             ELSE IF s[i] \in S THEN Append(f[i - 1], s[i]) ELSE f[i - 1]
  <2> SUFFICES ASSUME NEW i \in 0..n
               PROVE  f[i] = IF i = 0 THEN << >>
                             ELSE IF s[i] \in S THEN Append(f[i - 1], s[i]) ELSE f[i - 1]
    OBVIOUS
  <2>1. f[i] = IF i = 0 THEN << >> ELSE grow[<<f[i - 1], i>>]
    <3> HIDE DEF grow
    <3> QED BY <1>4 DEF Runs
  <2>2. CASE i = 0
    BY <2>1, <2>2
  <2>3. CASE i # 0
    <3>1. i \in 1..n /\ i - 1 \in 0..n
      BY <2>3
    <3>2. <<f[i - 1], i>> \in X \X (1..n)
      BY <1>4, <3>1
    <3>3. grow[<<f[i - 1], i>>] = IF s[i] \in S THEN Append(f[i - 1], s[i]) ELSE f[i - 1]
      BY <3>2
    <3> HIDE DEF grow
    <3>4. QED BY <2>1, <2>3, <3>3
  <2>4. QED BY <2>2, <2>3
<1>6. Kept(kept)
  <2>1. Kept(f)
    BY <1>4, <1>5
  <2> HIDE DEF Kept
  <2>2. QED BY <2>1
<1>7. Among(s, S) = kept[n]
  BY <1>1 DEF Among
<1> HIDE DEF kept
<1> DEFINE P == {i \in Nat : i <= n => kept[i] = f[i]}
<1>8. 0 \in P
  BY <1>5, <1>6
<1>9. ASSUME NEW i \in Nat, i < n, i \in P PROVE i + 1 \in P
  <2>1. i + 1 \in 0..n /\ i + 1 # 0 /\ (i + 1) - 1 = i /\ kept[i] = f[i]
    BY <1>9
  <2>2. kept[i + 1] = IF s[i + 1] \in S THEN Append(kept[i], s[i + 1]) ELSE kept[i]
    BY <1>6, <2>1
  <2>3. f[i + 1] = IF s[i + 1] \in S THEN Append(f[i], s[i + 1]) ELSE f[i]
    BY <1>5, <2>1
  <2>4. QED BY <2>1, <2>2, <2>3
<1> HIDE DEF P
<1>10. 0..n \subseteq P
  BY <1>8, <1>9, UpTo
<1>11. Among(s, S) = f[Len(s)]
  <2>1. n \in P
    BY <1>10
  <2>2. QED BY <1>1, <1>7, <2>1 DEF P
<1>12. QED BY <1>1, <1>4, <1>5, <1>11 DEF Keeps, X

-----------------------------------------------------------------------------
(* What get_even_process_data and split_by_mini_batches return: the i-th of *)
(* n parts of L elements begins after From of them and has Many.            *)
From(L, i, n) == (i - 1) * (L \div n) + Min({i - 1, L % n})
Many(L, i, n) == L \div n + IF i <= L % n THEN 1 ELSE 0

LEMMA MinOfTwo ==
  ASSUME NEW a \in Int, NEW b \in Int
  PROVE  Min({a, b}) = IF a <= b THEN a ELSE b
<1> DEFINE m == IF a <= b THEN a ELSE b
<1>1. m \in {a, b} /\ \A y \in {a, b} : m <= y
  OBVIOUS
<1>2. \A x \in {a, b} : (\A y \in {a, b} : x <= y) => x = m
  OBVIOUS
<1> HIDE DEF m
<1>3. Min({a, b}) = m
  BY <1>1, <1>2 DEF Min
<1>4. QED BY <1>3 DEF m

LEMMA Remainder ==
  ASSUME NEW x \in Int, NEW d \in Int, d > 0
  PROVE  x % d = x - d * (x \div d)
OBVIOUS

LEMMA Division ==
  ASSUME NEW x \in Nat, NEW g \in Nat \ {0}
  PROVE  /\ x \div g \in Nat /\ x % g \in Nat /\ x % g < g
         /\ x = g * (x \div g) + (x % g)
         /\ g * (x \div g) <= x
         /\ x < g * (x \div g) + g
<1>1. x \div g \in Nat /\ g * (x \div g) <= x /\ x < g * (x \div g) + g
  OBVIOUS
<1>2. PICK y \in Int : y = g * (x \div g) /\ y <= x /\ x < y + g
  BY <1>1
<1>3. x % g = x - y
  <2>1. x \in Int /\ g \in Int /\ g > 0
    OBVIOUS
  <2>2. x % g = x - g * (x \div g)
    BY <2>1, Remainder
  <2>3. QED BY <1>2, <2>2
<1>4. x - y \in Nat /\ x - y < g /\ x = y + (x - y)
  BY <1>2
<1>5. QED
  <2>1. x % g \in Nat /\ x % g < g /\ x = y + (x % g)
    BY <1>3, <1>4
  <2>2. QED BY <1>1, <1>2, <2>1

LEMMA Product ==
  ASSUME NEW a \in Nat, NEW b \in Nat
  PROVE  a * b \in Nat
OBVIOUS

LEMMA Distribute ==
  ASSUME NEW a \in Int, NEW b \in Int, NEW c \in Int
  PROVE  (a + b) * c = a * c + b * c /\ c * (a + b) = c * a + c * b
OBVIOUS

LEMMA Successor ==
  ASSUME NEW k \in Nat, NEW b \in Nat
  PROVE  (k + 1) * b = k * b + b /\ b * (k + 1) = b * k + b
OBVIOUS

LEMMA Monotone ==
  ASSUME NEW a \in Nat, NEW b \in Nat, NEW c \in Nat, a <= b
  PROVE  a * c <= b * c /\ c * a <= c * b
OBVIOUS

(* The parts follow each other without a gap, from the first to the last    *)
(* element.                                                                 *)
LEMMA PartBounds ==
  ASSUME NEW L \in Nat, NEW n \in Nat \ {0}, NEW i \in 1..n
  PROVE  /\ From(L, i, n) \in Nat /\ Many(L, i, n) \in Nat
         /\ i = 1 => From(L, i, n) = 0
         /\ i < n => From(L, i + 1, n) = From(L, i, n) + Many(L, i, n)
         /\ i = n => From(L, i, n) + Many(L, i, n) = L
<1>1. PICK b \in Nat, e \in Nat : b = L \div n /\ e = L % n /\ e < n /\ L = n * b + e
  BY Division
<1>2. From(L, i, n) = (i - 1) * b + IF i - 1 <= e THEN i - 1 ELSE e
  BY <1>1, MinOfTwo DEF From
<1>3. From(L, i + 1, n) = i * b + IF i <= e THEN i ELSE e
  BY <1>1, MinOfTwo DEF From
<1>4. Many(L, i, n) = b + IF i <= e THEN 1 ELSE 0
  BY <1>1 DEF Many
<1>5. (i - 1) * b \in Nat /\ i * b = (i - 1) * b + b
  <2>1. PICK k \in Nat : k = i - 1 /\ i = k + 1
    OBVIOUS
  <2>2. k * b \in Nat /\ (k + 1) * b = k * b + b
    BY <1>1, <2>1, Product, Successor
  <2>3. QED BY <1>1, <2>1, <2>2
<1>6. PICK x \in Nat : x = (i - 1) * b /\ i * b = x + b
  BY <1>5
<1>7. i = n => x + b = n * b
  BY <1>6
<1>8. i \in Nat /\ i >= 1 /\ i <= n
  OBVIOUS
<1>9. PICK f \in Nat, g \in Nat, m \in Nat :
        /\ f = From(L, i, n) /\ g = From(L, i + 1, n) /\ m = Many(L, i, n)
        /\ f = x + IF i - 1 <= e THEN i - 1 ELSE e
        /\ g = x + b + IF i <= e THEN i ELSE e
        /\ m = b + IF i <= e THEN 1 ELSE 0
  BY <1>1, <1>2, <1>3, <1>4, <1>6, <1>8
<1>10. g = f + m /\ (i = n => f + m = L) /\ (i = 1 => x = 0 /\ f = 0)
  BY <1>1, <1>6, <1>7, <1>8, <1>9
<1>11. QED BY <1>9, <1>10

(* The parts follow each other.                                             *)
LEMMA PartsInOrder ==
  ASSUME NEW L \in Nat, NEW n \in Nat \ {0}, NEW i \in 1..n, NEW j \in 1..n, i < j
  PROVE  From(L, i, n) + Many(L, i, n) <= From(L, j, n)
<1> DEFINE P == {k \in Nat : i + 1 + k <= n => From(L, i, n) + Many(L, i, n) <= From(L, i + 1 + k, n)}
<1>1. 0 \in P
  BY PartBounds
<1>2. ASSUME NEW k \in Nat, k \in P PROVE k + 1 \in P
  <2> SUFFICES ASSUME i + 1 + (k + 1) <= n
               PROVE  From(L, i, n) + Many(L, i, n) <= From(L, i + 1 + (k + 1), n)
    OBVIOUS
  <2>1. i + 1 + k \in 1..n /\ i + 1 + k < n /\ i + 1 + (k + 1) = (i + 1 + k) + 1
    OBVIOUS
  <2>2. From(L, (i + 1 + k) + 1, n) = From(L, i + 1 + k, n) + Many(L, i + 1 + k, n)
        /\ From(L, i + 1 + k, n) \in Nat /\ Many(L, i + 1 + k, n) \in Nat
    BY <2>1, PartBounds
  <2>3. From(L, i, n) + Many(L, i, n) <= From(L, i + 1 + k, n)
    BY <1>2, <2>1
  <2>4. From(L, i, n) \in Nat /\ Many(L, i, n) \in Nat
    BY PartBounds
  <2>5. QED BY <2>1, <2>2, <2>3, <2>4
<1> HIDE DEF P
<1>3. j - i - 1 \in P
  <2>1. j - i - 1 \in Nat
    OBVIOUS
  <2>2. QED BY <1>1, <1>2, <2>1, Induction
<1>4. i + 1 + (j - i - 1) = j
  OBVIOUS
<1>5. QED BY <1>3, <1>4 DEF P

(* No part ends after the last element.                                     *)
LEMMA PartInside ==
  ASSUME NEW L \in Nat, NEW n \in Nat \ {0}, NEW i \in 1..n
  PROVE  From(L, i, n) + Many(L, i, n) <= L
<1>1. n \in 1..n /\ From(L, n, n) \in Nat /\ Many(L, n, n) \in Nat /\ From(L, n, n) + Many(L, n, n) = L
  BY PartBounds
<1>2. i < n \/ i = n
  OBVIOUS
<1>3. CASE i < n
  <2>1. From(L, i, n) + Many(L, i, n) <= From(L, n, n)
    BY <1>1, <1>3, PartsInOrder
  <2>2. QED BY <1>1, <2>1, PartBounds
<1>4. QED BY <1>1, <1>2, <1>3

(* Every element is in one part.                                            *)
LEMMA PartOf ==
  ASSUME NEW L \in Nat, NEW n \in Nat \ {0}, NEW p \in 1..L
  PROVE  \E i \in 1..n, t \in Nat : t \in 1..Many(L, i, n) /\ p = From(L, i, n) + t
<1> DEFINE S == {i \in Nat : i < n /\ p <= From(L, n - i, n) + Many(L, n - i, n)}
<1>1. n \in 1..n /\ From(L, n, n) + Many(L, n, n) = L
  BY PartBounds
<1>2. 0 \in S
  BY <1>1
<1> DEFINE Q == {i \in 1..n : p <= From(L, i, n) + Many(L, i, n)}
<1>3. n \in Q
  BY <1>1
<1>4. PICK i \in Q : \A j \in Q : i <= j
  <2>1. Q \subseteq Nat /\ Q # {}
    BY <1>3
  <2> HIDE DEF Q
  <2>2. QED BY <2>1, Least
<1>5. From(L, i, n) \in Nat /\ Many(L, i, n) \in Nat
  BY PartBounds
<1>6. From(L, i, n) < p
  <2>1. CASE i = 1
    BY <2>1, PartBounds
  <2>2. CASE i # 1
    <3>1. i - 1 \in 1..n /\ i - 1 < n /\ (i - 1) + 1 = i /\ ~(i <= i - 1)
      BY <2>2
    <3>2. ~(p <= From(L, i - 1, n) + Many(L, i - 1, n))
      BY <1>4, <3>1
    <3>3. From(L, i, n) = From(L, i - 1, n) + Many(L, i - 1, n)
      BY <3>1, PartBounds
    <3>4. QED BY <1>5, <3>2, <3>3
  <2>3. QED BY <2>1, <2>2
<1>7. PICK t \in Nat : t = p - From(L, i, n) /\ t >= 1 /\ t <= Many(L, i, n)
  BY <1>4, <1>5, <1>6
<1>8. QED BY <1>5, <1>7

(* No element is in two parts.                                              *)
LEMMA OnePart ==
  ASSUME NEW L \in Nat, NEW n \in Nat \ {0}, NEW i \in 1..n, NEW j \in 1..n,
         NEW t \in 1..Many(L, i, n), NEW u \in 1..Many(L, j, n),
         From(L, i, n) + t = From(L, j, n) + u
  PROVE  i = j /\ t = u
<1>1. /\ From(L, i, n) \in Nat /\ Many(L, i, n) \in Nat
      /\ From(L, j, n) \in Nat /\ Many(L, j, n) \in Nat
  BY PartBounds
<1>2. ~(i < j)
  <2>1. i < j => From(L, i, n) + Many(L, i, n) <= From(L, j, n)
    BY PartsInOrder
  <2>2. QED BY <1>1, <2>1
<1>3. ~(j < i)
  <2>1. j < i => From(L, j, n) + Many(L, j, n) <= From(L, i, n)
    BY PartsInOrder
  <2>2. QED BY <1>1, <2>1
<1>4. i = j
  BY <1>2, <1>3
<1>5. QED BY <1>1, <1>4

IsPart(p, s, from, many) ==
  /\ Len(p) = many
  /\ \A t \in 1..many : from + t \in 1..Len(s) /\ p[t] = s[from + t]

(* The i-th part has the Many elements after the first From.                *)
LEMMA EvenPartIs ==
  ASSUME NEW T, NEW s \in Seq(T), NEW n \in Nat \ {0}, NEW i \in 1..n
  PROVE  /\ EvenPart(s, i, n) \in Seq(T)
         /\ IsPart(EvenPart(s, i, n), s, From(Len(s), i, n), Many(Len(s), i, n))
<1>1. PICK L \in Nat : L = Len(s) /\ \A k \in 1..L : s[k] \in T
  BY LenProperties, ElementOfSeq
<1>2. PICK a \in Nat, m \in Nat : a = From(L, i, n) /\ m = Many(L, i, n) /\ a + m <= L
  BY PartBounds, PartInside
<1>3. Min({a + m, L}) = a + m
  BY <1>2, MinOfTwo
<1>4. EvenPart(s, i, n) = SubSeq(s, a + 1, a + m)
  BY <1>1, <1>2, <1>3 DEF EvenPart, Slice, From, Many
<1>5. a + 1 \in Int /\ a + m \in Int /\ \A k \in (a + 1)..(a + m) : s[k] \in T
  BY <1>1, <1>2
<1>6. /\ SubSeq(s, a + 1, a + m) \in Seq(T)
      /\ Len(SubSeq(s, a + 1, a + m)) = IF a + 1 <= a + m THEN (a + m) - (a + 1) + 1 ELSE 0
      /\ \A t \in 1..(a + m) - (a + 1) + 1 : SubSeq(s, a + 1, a + m)[t] = s[(a + 1) + t - 1]
  BY <1>5, SubSeqProperties
<1>7. (a + m) - (a + 1) + 1 = m /\ (IF a + 1 <= a + m THEN (a + m) - (a + 1) + 1 ELSE 0) = m
  BY <1>2
<1>8. \A t \in 1..m : (a + 1) + t - 1 = a + t /\ a + t \in 1..L
  BY <1>2
<1>9. Many(Len(s), i, n) = m /\ From(Len(s), i, n) = a /\ Len(s) = L
  BY <1>1, <1>2
<1>10. /\ EvenPart(s, i, n) \in Seq(T) /\ Len(EvenPart(s, i, n)) = m
       /\ \A t \in 1..m : a + t \in 1..L /\ EvenPart(s, i, n)[t] = s[a + t]
  <2> DEFINE part == SubSeq(s, a + 1, a + m)
  <2>1. part \in Seq(T) /\ Len(part) = m
    BY <1>6, <1>7
  <2>2. ASSUME NEW t \in 1..m PROVE a + t \in 1..L /\ part[t] = s[a + t]
    <3>1. t \in 1..(a + m) - (a + 1) + 1
      BY <1>7
    <3>2. part[t] = s[(a + 1) + t - 1]
      BY <1>6, <3>1
    <3>3. QED BY <1>8, <3>2
  <2> HIDE DEF part
  <2>3. EvenPart(s, i, n) = part
    BY <1>4 DEF part
  <2>4. QED BY <2>1, <2>2, <2>3
<1>11. QED BY <1>9, <1>10 DEF IsPart

-----------------------------------------------------------------------------
(* gather_object, of the parts and of lists of one length.                  *)
LEMMA FunctionIsSeq ==
  ASSUME NEW T, NEW n \in Nat, NEW f \in [1..n -> T]
  PROVE  f \in Seq(T) /\ Len(f) = n /\ DOMAIN f = 1..n
<1>1. f \in Seq(T)
  BY SeqDef
<1>2. Len(f) \in Nat /\ DOMAIN f = 1..Len(f)
  BY <1>1, LenProperties
<1>3. 1..Len(f) = 1..n
  BY <1>2
<1>4. QED BY <1>1, <1>2, <1>3

(* The first m lists, joined.                                               *)
Joined(f, lists, o, m) ==
  /\ Len(f[m]) = o[m + 1]
  /\ \A i \in 1..m : \A t \in 1..Len(lists[i]) : f[m][o[i] + t] = lists[i][t]

Joins(f, n, lists) == f[0] = << >> /\ \A i \in 1..n : f[i] = f[i - 1] \o lists[i]

Follows(c, a, b, l, k) ==
  Len(c) = l + k /\ \A i \in 1..l + k : c[i] = IF i <= l THEN a[i] ELSE b[i - l]

LEMMA Appended ==
  ASSUME NEW T, NEW a \in Seq(T), NEW b \in Seq(T), NEW l \in Nat, NEW k \in Nat,
         l = Len(a), k = Len(b)
  PROVE  a \o b \in Seq(T) /\ Follows(a \o b, a, b, l, k)
BY ConcatProperties DEF Follows

LEMMA Beyond ==
  ASSUME NEW l \in Nat, NEW k \in Nat, NEW t \in 1..k
  PROVE  l + t \in 1..l + k /\ ~(l + t <= l) /\ (l + t) - l = t
OBVIOUS

LEMMA Within ==
  ASSUME NEW l \in Nat, NEW k \in Nat, NEW x \in Nat, NEW y \in Nat, NEW t \in 1..y, x + y <= l
  PROVE  x + t \in 1..l + k /\ x + t <= l
OBVIOUS

LEMMA AtMost ==
  ASSUME NEW x \in Nat, NEW y \in Nat, NEW z \in Nat, x <= y
  PROVE  x <= y + z
OBVIOUS

(* FlattenSeq appends one list after the other.                             *)
LEMMA JoinRuns ==
  ASSUME NEW T, NEW n \in Nat \ {0}, NEW lists \in [1..n -> Seq(T)]
  PROVE  \E f \in [0..n -> Seq(T)] : Joins(f, n, lists) /\ FlattenSeq(lists) = f[n]
<1> DEFINE X == Seq(T)
           grow == [p \in X \X (1..n) |-> p[1] \o lists[p[2]]]
           Flat(h) == h = [i \in 1..n |-> IF i = 1 THEN lists[i] ELSE h[i - 1] \o lists[i]]
           flat == CHOOSE h : Flat(h)
<1>1. << >> \in X
  OBVIOUS
<1>2. grow \in [X \X (1..n) -> X]
  <2>1. ASSUME NEW x \in X, NEW i \in 1..n PROVE x \o lists[i] \in X
    <3>1. lists[i] \in X
      OBVIOUS
    <3>2. QED BY <3>1, ConcatProperties
  <2> HIDE DEF X
  <2>2. QED BY <2>1
<1>3. PICK f \in [0..n -> X] : Runs(f, n, << >>, grow)
  <2> HIDE DEF grow, X
  <2> QED BY <1>1, <1>2, Iterates
<1> HIDE DEF X
<1>4. f[0] = << >> /\ \A i \in 1..n : f[i] = f[i - 1] \o lists[i]
  <2>1. f[0] = << >>
    <3> HIDE DEF grow
    <3>1. 0 \in 0..n
      OBVIOUS
    <3>2. QED BY <1>3, <3>1 DEF Runs
  <2>2. ASSUME NEW i \in 1..n PROVE f[i] = f[i - 1] \o lists[i]
    <3>1. i \in 0..n /\ i # 0 /\ i - 1 \in 0..n
      OBVIOUS
    <3>2. <<f[i - 1], i>> \in X \X (1..n)
      BY <1>3, <3>1
    <3>3. grow[<<f[i - 1], i>>] = f[i - 1] \o lists[i]
      BY <3>2
    <3> HIDE DEF grow
    <3>4. f[i] = grow[<<f[i - 1], i>>]
      BY <1>3, <3>1 DEF Runs
    <3>5. QED BY <3>3, <3>4
  <2>3. QED BY <2>1, <2>2
<1>5. f[1] = lists[1]
  <2>1. 1 \in 1..n /\ 1 - 1 = 0
    OBVIOUS
  <2>2. lists[1] \in Seq(T)
    BY <2>1
  <2>3. << >> \o lists[1] = lists[1]
    BY <2>2, ConcatEmptySeq
  <2>4. QED BY <1>4, <2>1, <2>3
<1>6. Flat(flat)
  <2>1. PICK g : g = [i \in 1..n |-> f[i]]
    OBVIOUS
  <2>2. \A i \in 1..n : g[i] = IF i = 1 THEN lists[i] ELSE g[i - 1] \o lists[i]
    <3>1. ASSUME NEW i \in 1..n, i # 1 PROVE g[i] = g[i - 1] \o lists[i]
      <4>1. i - 1 \in 1..n
        BY <3>1
      <4>2. QED BY <1>4, <2>1, <4>1
    <3>2. QED BY <1>5, <2>1, <3>1
  <2>3. Flat(g)
    BY <2>1, <2>2
  <2> HIDE DEF Flat
  <2>4. QED BY <2>3
<1>7. lists \in Seq(Seq(T)) /\ Len(lists) = n
  BY FunctionIsSeq
<1>8. FlattenSeq(lists) = flat[n]
  BY <1>7 DEF FlattenSeq
<1> HIDE DEF flat
<1> DEFINE P == {i \in Nat : i >= 1 /\ i <= n => flat[i] = f[i]}
<1>9. 0 \in P
  OBVIOUS
<1>10. ASSUME NEW i \in Nat, i < n, i \in P PROVE i + 1 \in P
  <2>1. i + 1 \in 1..n /\ (i + 1) - 1 = i
    BY <1>10
  <2>2. flat[i + 1] = IF i + 1 = 1 THEN lists[i + 1] ELSE flat[i] \o lists[i + 1]
    BY <1>6, <2>1
  <2>3. f[i + 1] = f[i] \o lists[i + 1]
    BY <1>4, <2>1
  <2>4. CASE i = 0
    BY <1>5, <2>2, <2>4
  <2>5. CASE i # 0
    <3>1. flat[i] = f[i]
      BY <1>10, <2>5
    <3>2. i + 1 # 1
      BY <2>5
    <3>3. flat[i + 1] = flat[i] \o lists[i + 1]
      BY <2>2, <3>2
    <3>4. flat[i + 1] = f[i + 1]
      BY <2>3, <3>1, <3>3
    <3>5. QED BY <3>4
  <2>6. QED BY <2>4, <2>5
<1> HIDE DEF P
<1>11. n \in P
  <2>1. 0..n \subseteq P
    BY <1>9, <1>10, UpTo
  <2>2. QED BY <2>1
<1>12. flat[n] = f[n]
  BY <1>11 DEF P
<1>13. QED BY <1>3, <1>4, <1>8, <1>12 DEF X, Joins

(* Where each list begins in the joined one.                                *)
Offsets(o, lists, n) == o[1] = 0 /\ \A i \in 1..n : o[i + 1] = o[i] + Len(lists[i])

IsJoin(all, lists, o, n) ==
  /\ Len(all) = o[n + 1]
  /\ \A i \in 1..n : \A t \in 1..Len(lists[i]) : all[o[i] + t] = lists[i][t]

(* The joined list has each list at the sum of the lengths before it.       *)
LEMMA JoinIs ==
  ASSUME NEW T, NEW n \in Nat \ {0}, NEW lists \in [1..n -> Seq(T)],
         NEW o \in [1..n + 1 -> Nat], Offsets(o, lists, n)
  PROVE  FlattenSeq(lists) \in Seq(T) /\ IsJoin(FlattenSeq(lists), lists, o, n)
<1>0. o[1] = 0 /\ \A i \in 1..n : o[i + 1] = o[i] + Len(lists[i])
  BY DEF Offsets
<1>1. PICK f \in [0..n -> Seq(T)] : Joins(f, n, lists) /\ FlattenSeq(lists) = f[n]
  BY JoinRuns
<1>2. \A i \in 1..n : Len(lists[i]) \in Nat
  BY LenProperties
<1>3. \A i, j \in 1..n + 1 : i <= j => o[i] <= o[j]
  <2> SUFFICES ASSUME NEW i \in 1..n + 1 PROVE \A j \in 1..n + 1 : i <= j => o[i] <= o[j]
    OBVIOUS
  <2> DEFINE Q == {k \in Nat : i + k <= n + 1 => o[i] <= o[i + k]}
  <2>1. 0 \in Q
    OBVIOUS
  <2>2. ASSUME NEW k \in Nat, k \in Q PROVE k + 1 \in Q
    <3> SUFFICES ASSUME i + (k + 1) <= n + 1 PROVE o[i] <= o[i + (k + 1)]
      OBVIOUS
    <3>1. i + k \in 1..n /\ i + k \in 1..n + 1 /\ i + (k + 1) = (i + k) + 1
      OBVIOUS
    <3>2. o[(i + k) + 1] = o[i + k] + Len(lists[i + k]) /\ Len(lists[i + k]) \in Nat /\ o[i + k] \in Nat
      BY <1>0, <1>2, <3>1
    <3>3. o[i] <= o[i + k] /\ o[i] \in Nat
      BY <2>2, <3>1
    <3>4. PICK x \in Nat, y \in Nat, z \in Nat :
            x = o[i] /\ y = o[i + k] /\ z = Len(lists[i + k]) /\ o[(i + k) + 1] = y + z /\ x <= y
      BY <3>2, <3>3
    <3>5. x <= y + z
      BY <3>4, AtMost
    <3>6. QED BY <3>1, <3>4, <3>5
  <2> HIDE DEF Q
  <2>3. ASSUME NEW j \in 1..n + 1, i <= j PROVE o[i] <= o[j]
    <3>1. j - i \in Nat /\ i + (j - i) = j
      BY <2>3
    <3>2. j - i \in Q
      BY <2>1, <2>2, <3>1, Induction
    <3>3. QED BY <3>1, <3>2 DEF Q
  <2>4. QED BY <2>3
<1> DEFINE P == {m \in Nat : m <= n => Joined(f, lists, o, m)}
<1>4. 0 \in P
  BY <1>0, <1>1 DEF Joined, Joins
<1>5. ASSUME NEW m \in Nat, m < n, m \in P PROVE m + 1 \in P
  <2>1. m + 1 \in 1..n /\ (m + 1) - 1 = m /\ m \in 0..n /\ m + 1 \in 0..n /\ m + 1 \in 1..n + 1
    BY <1>5
  <2>2. PICK l \in Nat, k \in Nat :
          l = Len(f[m]) /\ k = Len(lists[m + 1]) /\ l = o[m + 1] /\ o[(m + 1) + 1] = l + k
    <3>1. Joined(f, lists, o, m)
      BY <1>5
    <3>2. Len(f[m]) = o[m + 1] /\ o[m + 1] \in Nat
      BY <2>1, <3>1 DEF Joined
    <3>3. Len(lists[m + 1]) \in Nat /\ o[(m + 1) + 1] = o[m + 1] + Len(lists[m + 1])
      BY <1>0, <1>2, <2>1
    <3>4. QED BY <3>2, <3>3
  <2>3. f[m] \in Seq(T) /\ lists[m + 1] \in Seq(T) /\ f[m + 1] = f[m] \o lists[m + 1]
    BY <1>1, <2>1 DEF Joins
  <2>4. /\ Len(f[m + 1]) = l + k
        /\ \A i \in 1..l + k : f[m + 1][i] = IF i <= l THEN f[m][i] ELSE lists[m + 1][i - l]
    <3>1. PICK a \in Seq(T), b \in Seq(T) : a = f[m] /\ b = lists[m + 1]
      BY <2>3
    <3>2. l = Len(a) /\ k = Len(b) /\ l \in Nat /\ k \in Nat
      BY <2>2, <3>1
    <3>3. Follows(a \o b, a, b, l, k)
      BY <3>1, <3>2, Appended
    <3>4. f[m + 1] = a \o b
      BY <2>3, <3>1
    <3>5. QED BY <3>1, <3>3, <3>4 DEF Follows
  <2>5. ASSUME NEW i \in 1..m + 1, NEW t \in 1..Len(lists[i])
        PROVE  f[m + 1][o[i] + t] = lists[i][t]
    <3>1. CASE i = m + 1
      <4>0. t \in 1..k /\ o[i] = l
        BY <2>2, <3>1
      <4>1. l + t \in 1..l + k /\ ~(l + t <= l) /\ (l + t) - l = t
        BY <2>2, <4>0, Beyond
      <4>2. QED BY <2>4, <3>1, <4>0, <4>1
    <3>2. CASE i # m + 1
      <4>1. i \in 1..m /\ i \in 1..n /\ i + 1 \in 1..n + 1 /\ i + 1 <= m + 1 /\ i \in 1..n + 1
        BY <2>1, <3>2
      <4>2. o[i + 1] <= o[m + 1] /\ o[i + 1] = o[i] + Len(lists[i]) /\ Len(lists[i]) \in Nat /\ o[i] \in Nat
        BY <1>0, <1>2, <1>3, <2>1, <4>1
      <4>3. o[i] + t \in 1..l + k /\ o[i] + t <= l
        <5>1. PICK x \in Nat, y \in Nat : x = o[i] /\ y = Len(lists[i]) /\ t \in 1..y /\ x + y <= l
          BY <2>2, <4>2
        <5>2. x + t \in 1..l + k /\ x + t <= l
          BY <2>2, <5>1, Within
        <5>3. QED BY <5>1, <5>2
      <4>4. f[m][o[i] + t] = lists[i][t]
        <5>1. m <= n /\ m \in P
          BY <1>5
        <5>2. Joined(f, lists, o, m)
          BY <5>1
        <5> HIDE DEF P
        <5>3. QED BY <4>1, <5>2 DEF Joined
      <4>5. QED BY <2>4, <4>3, <4>4
    <3>3. QED BY <3>1, <3>2
  <2>6. Joined(f, lists, o, m + 1)
    BY <2>2, <2>4, <2>5 DEF Joined
  <2>7. QED BY <2>6
<1> HIDE DEF P
<1>6. n \in P
  <2>1. 0..n \subseteq P
    BY <1>4, <1>5, UpTo
  <2>2. QED BY <2>1
<1>7. Joined(f, lists, o, n)
  BY <1>6 DEF P
<1>8. f[n] \in Seq(T)
  BY <1>1
<1>9. QED BY <1>1, <1>7, <1>8 DEF Joined, IsJoin

(* Gathering the parts of all ranks gives back what was split.              *)
LEMMA AllOfParts ==
  ASSUME NEW T, NEW s \in Seq(T), NEW n \in Nat \ {0}, n = Ranks,
         NEW lists, \A r \in Rank : lists[r] = EvenPart(s, r, n)
  PROVE  AllOf(lists) = s
<1>1. PICK L \in Nat : L = Len(s) /\ s \in [1..L -> T]
  BY LenProperties
<1>2. PICK ls : ls = [r \in Rank |-> lists[r]]
  OBVIOUS
<1>3. Rank = 1..n
  BY DEF Rank
<1>4. \A r \in 1..n :
        /\ ls[r] \in Seq(T) /\ Len(ls[r]) = Many(L, r, n)
        /\ \A t \in 1..Many(L, r, n) : From(L, r, n) + t \in 1..L /\ ls[r][t] = s[From(L, r, n) + t]
  <2> SUFFICES ASSUME NEW r \in 1..n
               PROVE  /\ ls[r] \in Seq(T) /\ Len(ls[r]) = Many(L, r, n)
                      /\ \A t \in 1..Many(L, r, n) :
                           From(L, r, n) + t \in 1..L /\ ls[r][t] = s[From(L, r, n) + t]
    OBVIOUS
  <2>1. ls[r] = EvenPart(s, r, n)
    BY <1>2, <1>3
  <2>2. EvenPart(s, r, n) \in Seq(T) /\ IsPart(EvenPart(s, r, n), s, From(L, r, n), Many(L, r, n))
    BY <1>1, EvenPartIs
  <2>3. QED BY <1>1, <2>1, <2>2 DEF IsPart
<1>5. PICK o : o = [i \in 1..n + 1 |-> IF i = n + 1 THEN L ELSE From(L, i, n)]
  OBVIOUS
<1>6. o \in [1..n + 1 -> Nat] /\ o[1] = 0 /\ o[n + 1] = L /\ \A i \in 1..n : o[i] = From(L, i, n)
  <2>1. \A i \in 1..n : From(L, i, n) \in Nat /\ (i = 1 => From(L, i, n) = 0)
    BY PartBounds
  <2>2. 1 \in 1..n /\ 1 # n + 1 /\ n + 1 \in 1..n + 1 /\ 1 \in 1..n + 1
    OBVIOUS
  <2>3. \A i \in 1..n + 1 : i # n + 1 => i \in 1..n
    OBVIOUS
  <2>4. \A i \in 1..n : i # n + 1 /\ i \in 1..n + 1
    OBVIOUS
  <2>5. QED BY <1>5, <2>1, <2>2, <2>3, <2>4
<1>7. ASSUME NEW i \in 1..n PROVE o[i + 1] = o[i] + Len(ls[i])
  <2>1. /\ i < n => From(L, i + 1, n) = From(L, i, n) + Many(L, i, n)
        /\ i = n => From(L, i, n) + Many(L, i, n) = L
    BY PartBounds
  <2>2. CASE i = n
    BY <1>4, <1>6, <2>1, <2>2
  <2>3. CASE i # n
    <3>1. i < n /\ i + 1 \in 1..n
      BY <2>3
    <3>2. QED BY <1>4, <1>6, <2>1, <3>1
  <2>4. QED BY <2>2, <2>3
<1>8. ls \in [1..n -> Seq(T)]
  BY <1>2, <1>3, <1>4
<1>9. FlattenSeq(ls) \in Seq(T) /\ IsJoin(FlattenSeq(ls), ls, o, n)
  <2>1. Offsets(o, ls, n)
    BY <1>6, <1>7 DEF Offsets
  <2>2. o \in [1..n + 1 -> Nat]
    BY <1>6
  <2>3. QED BY <1>8, <2>1, <2>2, JoinIs
<1>10. PICK all \in Seq(T) : all = FlattenSeq(ls) /\ Len(all) = L /\ IsJoin(all, ls, o, n)
  BY <1>6, <1>9 DEF IsJoin
<1>11. ASSUME NEW p \in 1..L PROVE all[p] = s[p]
  <2>1. PICK i \in 1..n, t \in Nat : t \in 1..Many(L, i, n) /\ p = From(L, i, n) + t
    BY PartOf
  <2>2. Len(ls[i]) = Many(L, i, n) /\ ls[i][t] = s[From(L, i, n) + t]
    BY <1>4, <2>1
  <2>3. o[i] = From(L, i, n) /\ t \in 1..Len(ls[i])
    BY <1>6, <2>1, <2>2
  <2>4. all[o[i] + t] = ls[i][t]
    BY <1>10, <2>3 DEF IsJoin
  <2>5. QED BY <2>1, <2>2, <2>3, <2>4
<1>12. all = s
  BY <1>1, <1>10, <1>11, SeqEqual
<1>13. QED BY <1>2, <1>10, <1>12 DEF AllOf

(* Lists of one length are gathered to a list of all ranks' lengths.        *)
LEMMA AllOfLists ==
  ASSUME NEW T, NEW n \in Nat \ {0}, n = Ranks, NEW l \in Nat, l = Local,
         NEW lists, \A r \in Rank : lists[r] \in Seq(T) /\ Len(lists[r]) = l
  PROVE  AllOf(lists) \in Seq(T) /\ Len(AllOf(lists)) = Global
<1>1. PICK ls : ls = [r \in Rank |-> lists[r]]
  OBVIOUS
<1>2. Rank = 1..n
  BY DEF Rank
<1>3. ls \in [1..n -> Seq(T)] /\ \A r \in 1..n : Len(ls[r]) = l
  BY <1>1, <1>2
<1>4. \A i \in 1..n + 1 : (i - 1) * l \in Nat
  BY Product
<1>5. PICK o \in [1..n + 1 -> Nat] : \A i \in 1..n + 1 : o[i] = (i - 1) * l
  <2>1. [i \in 1..n + 1 |-> (i - 1) * l] \in [1..n + 1 -> Nat]
    BY <1>4
  <2>2. QED BY <2>1
<1>6. o[1] = 0
  <2>1. 1 \in 1..n + 1 /\ 1 - 1 = 0 /\ 0 * l = 0
    OBVIOUS
  <2>2. QED BY <1>5, <2>1
<1>7. ASSUME NEW i \in 1..n PROVE o[i + 1] = o[i] + Len(ls[i])
  <2>1. PICK k \in Nat : k = i - 1 /\ (i + 1) - 1 = k + 1 /\ i \in 1..n + 1 /\ i + 1 \in 1..n + 1
    OBVIOUS
  <2>2. (k + 1) * l = k * l + l
    BY Successor
  <2>3. o[i] = k * l /\ o[i + 1] = (k + 1) * l /\ Len(ls[i]) = l
    BY <1>3, <1>5, <2>1
  <2>4. QED BY <2>2, <2>3
<1>8. FlattenSeq(ls) \in Seq(T) /\ Len(FlattenSeq(ls)) = o[n + 1]
  <2>1. Offsets(o, ls, n)
    BY <1>6, <1>7 DEF Offsets
  <2>2. FlattenSeq(ls) \in Seq(T) /\ IsJoin(FlattenSeq(ls), ls, o, n)
    BY <1>3, <1>5, <2>1, JoinIs
  <2>3. QED BY <2>2 DEF IsJoin
<1>9. o[n + 1] = n * l
  <2>1. n + 1 \in 1..n + 1 /\ (n + 1) - 1 = n
    OBVIOUS
  <2>2. QED BY <1>5, <2>1
<1>10. QED BY <1>1, <1>8, <1>9 DEF AllOf, Global

LEMMA Divides ==
  ASSUME NEW a \in Nat \ {0}, NEW b \in Nat
  PROVE  (a * b) \div a = b /\ (a * b) % a = 0
<1>1. PICK x \in Nat : x = a * b
  BY Product
<1>2. PICK q \in Nat, m \in Nat : q = x \div a /\ m = x % a /\ m < a /\ x = a * q + m
  BY <1>1, Division
<1>3. a * q <= a * b /\ a * b < a * q + a
  BY <1>1, <1>2, Product
<1>4. q = b
  <2>1. CASE q < b
    <3>1. a * (q + 1) <= a * b
      BY <2>1, Monotone
    <3>2. a * (q + 1) = a * q + a
      BY Successor
    <3>3. QED BY <1>1, <1>2, <1>3, <3>1, <3>2
  <2>2. CASE b < q
    <3>1. a * (b + 1) <= a * q
      BY <2>2, Monotone
    <3>2. a * (b + 1) = a * b + a
      BY Successor
    <3>3. QED BY <1>1, <1>2, <1>3, <3>1, <3>2
  <2>3. QED BY <2>1, <2>2
<1>5. m = 0
  <2>1. PICK y \in Nat : y = a * b /\ x = y + m /\ x = y
    BY <1>1, <1>2, <1>4
  <2>2. QED BY <1>2, <2>1
<1>6. QED BY <1>1, <1>2, <1>4, <1>5

(* What the constants are.                                                  *)
LEMMA Sizes ==
  /\ Ranks \in Nat \ {0} /\ Local \in Nat \ {0} /\ Group \in Nat \ {0}
  /\ MiniBatches \in Nat \ {0} /\ Iterations \in Nat \ {0}
  /\ Global \in Nat \ {0} /\ Global = Ranks * Local
BY BatchShape, BatchConstants DEF Global

LEMMA Groups == \E q \in Nat \ {0} : Global = Group * q /\ q = Global \div Group
<1>1. Global % Group = 0
  BY BatchShape
<1>2. PICK q \in Nat : q = Global \div Group /\ Global = Group * q + 0
  BY <1>1, Sizes, Division
<1>3. q # 0 /\ Global = Group * q
  BY <1>2, Sizes
<1>4. QED BY <1>2, <1>3

LEMMA SizeOfMiniBatch == MiniBatch \in Nat \ {0} /\ Local = MiniBatches * MiniBatch
<1>1. Local % MiniBatches = 0
  BY BatchShape
<1>2. PICK q \in Nat : q = Local \div MiniBatches /\ Local = MiniBatches * q + 0
  BY <1>1, Sizes, Division
<1>3. q # 0 /\ Local = MiniBatches * q
  BY <1>2, Sizes
<1>4. QED BY <1>2, <1>3 DEF MiniBatch

(* The part of a generation batch on a rank.                                *)
LEMMA LocalParts ==
  ASSUME NEW r \in 1..Ranks
  PROVE  From(Global, r, Ranks) = (r - 1) * Local /\ Many(Global, r, Ranks) = Local
<1>1. Global \div Ranks = Local /\ Global % Ranks = 0
  BY Sizes, Divides
<1>2. Min({r - 1, 0}) = 0
  <2>1. r - 1 \in Int /\ 0 \in Int /\ (r - 1 <= 0 => r - 1 = 0)
    BY Sizes
  <2>2. QED BY <2>1, MinOfTwo
<1>3. ~(r <= 0) /\ (r - 1) * Local + 0 = (r - 1) * Local
  BY Sizes
<1>4. From(Global, r, Ranks) = (r - 1) * Local + 0
  BY <1>1, <1>2 DEF From
<1>5. Many(Global, r, Ranks) = Local + 0
  BY <1>1, <1>3 DEF Many
<1>6. QED BY <1>3, <1>4, <1>5, Sizes

(* Of a whole generation batch each rank has Local samples in a row.        *)
LEMMA Sharding ==
  ASSUME NEW T, NEW s \in Seq(T), Len(s) = Global, NEW r \in 1..Ranks
  PROVE  /\ Slice(s, (r - 1) * Local, Local) = EvenPart(s, r, Ranks)
         /\ EvenPart(s, r, Ranks) \in Seq(T)
         /\ IsPart(EvenPart(s, r, Ranks), s, (r - 1) * Local, Local)
<1>1. From(Global, r, Ranks) = (r - 1) * Local /\ Many(Global, r, Ranks) = Local
  BY LocalParts
<1>2. /\ EvenPart(s, r, Ranks) \in Seq(T)
      /\ IsPart(EvenPart(s, r, Ranks), s, From(Global, r, Ranks), Many(Global, r, Ranks))
  <2>1. Ranks \in Nat \ {0}
    BY Sizes
  <2>2. QED BY <2>1, EvenPartIs
<1>3. EvenPart(s, r, Ranks) = Slice(s, From(Global, r, Ranks), Many(Global, r, Ranks))
  BY DEF EvenPart, From, Many
<1>4. QED BY <1>1, <1>2, <1>3

-----------------------------------------------------------------------------
(* A place and its group.                                                   *)
LEMMA SpotOf ==
  ASSUME NEW g \in Nat \ {0}, NEW q \in Nat, NEW i \in 1..g * q
  PROVE  \E b \in Nat, x \in 1..g : b < q /\ i = b * g + x /\ (i - 1) \div g = b
<1>1. PICK j \in Nat : j = i - 1 /\ j < g * q /\ i = j + 1
  BY Product
<1>2. PICK b \in Nat, m \in Nat : b = j \div g /\ m < g /\ j = g * b + m
  BY <1>1, Division
<1>3. PICK y \in Nat : y = g * b /\ y = b * g
  BY Product
<1>4. b < q
  <2>1. CASE q <= b
    <3>1. g * q <= g * b
      BY <2>1, Monotone
    <3>2. PICK z \in Nat : z = g * q
      BY Product
    <3>3. QED BY <1>1, <1>2, <1>3, <3>1, <3>2
  <2>2. QED BY <2>1
<1>5. m + 1 \in 1..g /\ i = y + (m + 1)
  BY <1>1, <1>2, <1>3
<1>6. QED BY <1>1, <1>2, <1>3, <1>4, <1>5

(* The group of a place ...                                                 *)
LEMMA SpotIs ==
  ASSUME NEW g \in Nat \ {0}, NEW b \in Nat, NEW x \in 1..g
  PROVE  /\ b * g \in Nat /\ b * g + x \in Nat /\ b * g + x >= 1
         /\ ((b * g + x) - 1) \div g = b
         /\ \A q \in Nat : b < q => b * g + x \in 1..g * q
<1>1. PICK y \in Nat : y = b * g /\ y = g * b
  BY Product
<1>2. PICK j \in Nat : j = (y + x) - 1 /\ j < y + g /\ y <= j
  BY <1>1
<1>3. PICK d \in Nat, m \in Nat : d = j \div g /\ m < g /\ j = g * d + m
  BY <1>2, Division
<1>4. PICK z \in Nat : z = g * d
  BY Product
<1>5. d = b
  <2>1. CASE d < b
    <3>1. g * (d + 1) <= g * b /\ g * (d + 1) = g * d + g
      BY <2>1, Monotone, Successor
    <3>2. QED BY <1>1, <1>2, <1>3, <1>4, <3>1
  <2>2. CASE b < d
    <3>1. g * (b + 1) <= g * d /\ g * (b + 1) = g * b + g
      BY <2>2, Monotone, Successor
    <3>2. QED BY <1>1, <1>2, <1>3, <1>4, <3>1
  <2>3. QED BY <2>1, <2>2
<1>6. ASSUME NEW q \in Nat, b < q PROVE y + x \in 1..g * q
  <2>1. g * (b + 1) <= g * q /\ g * (b + 1) = g * b + g
    BY <1>6, Monotone, Successor
  <2>2. PICK u \in Nat : u = g * q
    BY Product
  <2>3. y + x <= u /\ y + x >= 1 /\ y + x \in Nat
    BY <1>1, <2>1, <2>2
  <2>4. QED BY <2>2, <2>3
<1>7. QED BY <1>1, <1>2, <1>3, <1>5, <1>6

(* ... and its only place there.                                            *)
LEMMA OneSpot ==
  ASSUME NEW g \in Nat \ {0}, NEW b \in Nat, NEW x \in 1..g, NEW d \in Nat, NEW y \in 1..g,
         b * g + x = d * g + y
  PROVE  b = d /\ x = y
<1>1. b = d
  BY SpotIs
<1>2. PICK u \in Nat : u = b * g /\ u + x = u + y
  BY <1>1, SpotIs
<1>3. QED BY <1>1, <1>2

(* What Among returns.                                                      *)
LEMMA AmongIs ==
  ASSUME NEW T, NEW s \in Seq(T), NEW S
  PROVE  /\ Among(s, S) \in Seq(T) /\ Len(Among(s, S)) <= Len(s)
         /\ (\A i \in 1..Len(s) : s[i] \in S) => Among(s, S) = s
<1>1. PICK n \in Nat : n = Len(s) /\ s \in [1..n -> T]
  BY LenProperties
<1>2. PICK f \in [0..n -> Seq(T)] : Keeps(f, s, S) /\ Among(s, S) = f[n]
  BY <1>1, AmongRuns
<1>3. f[0] = << >>
  BY <1>1, <1>2 DEF Keeps
<1>4. ASSUME NEW i \in Nat, i < n
      PROVE  /\ s[i + 1] \in T /\ f[i] \in Seq(T) /\ Len(f[i]) \in Nat
             /\ f[i + 1] = IF s[i + 1] \in S THEN Append(f[i], s[i + 1]) ELSE f[i]
             /\ Len(Append(f[i], s[i + 1])) = Len(f[i]) + 1
             /\ \A k \in 1..Len(f[i]) : Append(f[i], s[i + 1])[k] = f[i][k]
             /\ Append(f[i], s[i + 1])[Len(f[i]) + 1] = s[i + 1]
  <2>1. i + 1 \in 1..n /\ i + 1 \in 0..n /\ i + 1 # 0 /\ (i + 1) - 1 = i /\ i \in 0..n
    BY <1>4
  <2>2. f[i] \in Seq(T) /\ s[i + 1] \in T
    BY <1>1, <1>2, <2>1
  <2>3. f[i + 1] = IF s[i + 1] \in S THEN Append(f[i], s[i + 1]) ELSE f[i]
    BY <1>1, <1>2, <2>1 DEF Keeps
  <2>4. Len(f[i]) \in Nat
    BY <2>2, LenProperties
  <2>5. /\ Len(Append(f[i], s[i + 1])) = Len(f[i]) + 1
        /\ \A k \in 1..Len(f[i]) : Append(f[i], s[i + 1])[k] = f[i][k]
        /\ Append(f[i], s[i + 1])[Len(f[i]) + 1] = s[i + 1]
    BY <2>2, <2>4, AppendProperties
  <2>6. QED BY <2>2, <2>3, <2>4, <2>5
<1>5. Len(f[n]) <= n
  <2> DEFINE P == {i \in Nat : i <= n => Len(f[i]) <= i}
  <2>1. 0 \in P
    BY <1>3
  <2>2. ASSUME NEW i \in Nat, i < n, i \in P PROVE i + 1 \in P
    <3>1. Len(f[i]) <= i /\ Len(f[i]) \in Nat
      BY <1>4, <2>2
    <3>2. Len(f[i + 1]) = Len(f[i]) + 1 \/ Len(f[i + 1]) = Len(f[i])
      BY <1>4, <2>2
    <3>3. QED BY <3>1, <3>2
  <2> HIDE DEF P
  <2>3. n \in P
    <3>1. 0..n \subseteq P
      BY <2>1, <2>2, UpTo
    <3>2. QED BY <3>1
  <2>4. QED BY <2>3 DEF P
<1>6. ASSUME \A i \in 1..Len(s) : s[i] \in S PROVE f[n] = s
  <2> DEFINE P == {i \in Nat : i <= n => Len(f[i]) = i /\ \A k \in 1..i : f[i][k] = s[k]}
  <2>1. 0 \in P
    BY <1>3
  <2>2. ASSUME NEW i \in Nat, i < n, i \in P PROVE i + 1 \in P
    <3>1. Len(f[i]) = i /\ \A k \in 1..i : f[i][k] = s[k]
      BY <2>2
    <3>2. f[i + 1] = Append(f[i], s[i + 1])
      <4>1. i + 1 \in 1..Len(s)
        BY <1>1, <2>2
      <4>2. s[i + 1] \in S
        BY <1>6, <4>1
      <4>3. QED BY <1>4, <2>2, <4>2
    <3>3. Len(f[i + 1]) = i + 1 /\ f[i + 1][i + 1] = s[i + 1] /\ \A k \in 1..i : f[i + 1][k] = s[k]
      BY <1>4, <2>2, <3>1, <3>2
    <3>4. \A k \in 1..i + 1 : k = i + 1 \/ k \in 1..i
      OBVIOUS
    <3>5. \A k \in 1..i + 1 : f[i + 1][k] = s[k]
      BY <3>3, <3>4
    <3>6. QED BY <3>3, <3>5
  <2> HIDE DEF P
  <2>3. n \in P
    <3>1. 0..n \subseteq P
      BY <2>1, <2>2, UpTo
    <3>2. QED BY <3>1
  <2>4. Len(f[n]) = n /\ \A k \in 1..n : f[n][k] = s[k]
    BY <2>3 DEF P
  <2>5. f[n] \in Seq(T)
    OBVIOUS
  <2>6. QED BY <1>1, <2>4, <2>5, SeqEqual
<1>7. QED BY <1>1, <1>2, <1>5, <1>6

(* When whole groups are kept of the places up to n.                        *)
KeepsGroups(V, g) == \A b \in Nat : \A x, y \in 1..g : b * g + x \in V <=> b * g + y \in V

KeptRun(f, n, V) ==
  \A i \in 0..n : i # 0 => f[i] = IF i \in V THEN Append(f[i - 1], i) ELSE f[i - 1]

Whole(a, V, g) == \A x, y \in 1..g : a + x \in V <=> a + y \in V

(* u is v and then the x places after a.                                    *)
Extends(u, v, a, x) ==
  /\ Len(u) = Len(v) + x
  /\ \A i \in 1..Len(v) : u[i] = v[i]
  /\ \A y \in 1..x : u[Len(v) + y] = a + y

GroupDone(f, a, g, V) == IF a + 1 \in V THEN Extends(f[a + g], f[a], a, g) ELSE f[a + g] = f[a]

LEMMA Reassociate ==
  ASSUME NEW l \in Nat, NEW x \in Nat
  PROVE  (l + x) + 1 = l + (x + 1) /\ l + 0 = l
OBVIOUS

(* A group of which all or nothing is to be kept stays a group.             *)
LEMMA GroupKept ==
  ASSUME NEW n \in Nat, NEW V, NEW f \in [0..n -> Seq(Nat)],
         KeptRun(f, n, V),
         NEW g \in Nat \ {0}, NEW a \in Nat, a + g <= n, Whole(a, V, g)
  PROVE  GroupDone(f, a, g, V)
<1>0. PICK l \in Nat : l = Len(f[a])
  <2>1. f[a] \in Seq(Nat)
    OBVIOUS
  <2>2. QED BY <2>1, LenProperties
<1>1. ASSUME NEW x \in Nat, x < g
      PROVE  /\ f[a + x] \in Seq(Nat) /\ Len(f[a + x]) \in Nat /\ x + 1 \in 1..g
             /\ f[a + (x + 1)] = IF a + (x + 1) \in V THEN Append(f[a + x], a + (x + 1)) ELSE f[a + x]
             /\ Len(Append(f[a + x], a + (x + 1))) = Len(f[a + x]) + 1
             /\ \A k \in 1..Len(f[a + x]) : Append(f[a + x], a + (x + 1))[k] = f[a + x][k]
             /\ Append(f[a + x], a + (x + 1))[Len(f[a + x]) + 1] = a + (x + 1)
  <2>1. PICK p \in 0..n : p = a + x /\ p + 1 = a + (x + 1) /\ p + 1 \in 0..n /\ p + 1 # 0 /\ (p + 1) - 1 = p /\ p + 1 \in Nat
    BY <1>1
  <2>2. f[p] \in Seq(Nat)
    BY <2>1
  <2>3. f[p + 1] = IF p + 1 \in V THEN Append(f[p], p + 1) ELSE f[p]
    BY <2>1 DEF KeptRun
  <2>4. Len(f[p]) \in Nat
    BY <2>2, LenProperties
  <2>5. /\ Len(Append(f[p], p + 1)) = Len(f[p]) + 1
        /\ \A k \in 1..Len(f[p]) : Append(f[p], p + 1)[k] = f[p][k]
        /\ Append(f[p], p + 1)[Len(f[p]) + 1] = p + 1
    BY <2>1, <2>2, <2>4, AppendProperties
  <2>6. x + 1 \in 1..g
    BY <1>1
  <2>7. QED BY <2>1, <2>2, <2>3, <2>4, <2>5, <2>6
<1>2. CASE a + 1 \in V
  <2>1. \A x \in 1..g : a + x \in V
    <3>1. 1 \in 1..g
      OBVIOUS
    <3>2. QED BY <1>2, <3>1 DEF Whole
  <2> DEFINE P == {x \in Nat : x <= g => Extends(f[a + x], f[a], a, x)}
  <2>2. 0 \in P
    <3>1. a + 0 = a /\ l + 0 = l
      OBVIOUS
    <3>2. QED BY <1>0, <3>1 DEF Extends
  <2>3. ASSUME NEW x \in Nat, x < g, x \in P PROVE x + 1 \in P
    <3>1. /\ Len(f[a + x]) = l + x
          /\ \A i \in 1..l : f[a + x][i] = f[a][i]
          /\ \A y \in 1..x : f[a + x][l + y] = a + y
      BY <1>0, <2>3 DEF Extends
    <3>2. x + 1 \in 1..g /\ a + (x + 1) \in V
      BY <1>1, <2>1, <2>3
    <3>3. PICK u : u = f[a + (x + 1)]
      OBVIOUS
    <3>4. /\ Len(u) = (l + x) + 1
          /\ \A k \in 1..l + x : u[k] = f[a + x][k]
          /\ u[(l + x) + 1] = a + (x + 1)
      <4>1. PICK v, w : v = f[a + x] /\ w = a + (x + 1)
        OBVIOUS
      <4>2. /\ u = Append(v, w) /\ Len(v) = l + x
            /\ Len(Append(v, w)) = Len(v) + 1 /\ Append(v, w)[Len(v) + 1] = w
            /\ \A k \in 1..Len(v) : Append(v, w)[k] = v[k]
        BY <1>1, <2>3, <3>1, <3>2, <3>3, <4>1
      <4>3. Len(u) = (l + x) + 1 /\ u[(l + x) + 1] = w /\ \A k \in 1..l + x : u[k] = v[k]
        BY <4>2
      <4>4. QED BY <4>1, <4>3
    <3>5. Len(u) = l + (x + 1)
      BY <1>0, <3>4, Reassociate
    <3>6. ASSUME NEW i \in 1..l PROVE u[i] = f[a][i]
      <4>1. i \in 1..l + x
        BY <1>0
      <4>2. QED BY <3>1, <3>4, <4>1
    <3>7. ASSUME NEW y \in 1..x + 1 PROVE u[l + y] = a + y
      <4>1. CASE y = x + 1
        <5>1. l + y = (l + x) + 1
          BY <1>0, <4>1, Reassociate
        <5>2. QED BY <3>4, <4>1, <5>1
      <4>2. CASE y # x + 1
        <5>1. y \in 1..x /\ l + y \in 1..l + x
          BY <1>0, <4>2
        <5>2. QED BY <3>1, <3>4, <5>1
      <4>3. QED BY <4>1, <4>2
    <3>8. Extends(u, f[a], a, x + 1)
      BY <1>0, <3>5, <3>6, <3>7 DEF Extends
    <3>9. QED BY <3>3, <3>8
  <2> HIDE DEF P
  <2>4. g \in P
    <3>1. 0..g \subseteq P
      BY <2>2, <2>3, UpTo
    <3>2. QED BY <3>1
  <2>5. QED BY <1>2, <2>4 DEF P, GroupDone
<1>3. CASE a + 1 \notin V
  <2>1. \A x \in 1..g : a + x \notin V
    <3>1. 1 \in 1..g
      OBVIOUS
    <3>2. QED BY <1>3, <3>1 DEF Whole
  <2> DEFINE P == {x \in Nat : x <= g => f[a + x] = f[a]}
  <2>2. 0 \in P
    <3>1. a + 0 = a
      OBVIOUS
    <3>2. QED BY <3>1
  <2>3. ASSUME NEW x \in Nat, x < g, x \in P PROVE x + 1 \in P
    <3>1. x + 1 \in 1..g /\ f[a + x] = f[a]
      BY <1>1, <2>3
    <3>2. a + (x + 1) \notin V
      BY <2>1, <3>1
    <3>3. f[a + (x + 1)] = f[a + x]
      BY <1>1, <2>3, <3>2
    <3>4. QED BY <3>1, <3>3
  <2> HIDE DEF P
  <2>4. g \in P
    <3>1. 0..g \subseteq P
      BY <2>2, <2>3, UpTo
    <3>2. QED BY <3>1
  <2>5. QED BY <1>3, <2>4 DEF P, GroupDone
<1>4. QED BY <1>2, <1>3

(* k consists of c whole groups of V, h says which, and each comes once.    *)
InGroups(k, c, h, V, g, q) ==
  /\ h \in [0..c - 1 -> 0..q - 1]
  /\ \A b, d \in 0..c - 1 : b < d => h[b] < h[d]
  /\ Len(k) = c * g
  /\ \A b \in 0..c - 1 : \A x \in 1..g : h[b] * g + x \in V /\ k[b * g + x] = h[b] * g + x

(* When a group is kept there is one more among those kept ...              *)
LEMMA GroupAdded ==
  ASSUME NEW V, NEW g \in Nat \ {0}, NEW c \in Nat, NEW q \in Nat, NEW v \in Seq(Nat), NEW u \in Seq(Nat),
         NEW h, InGroups(v, c, h, V, g, q), \A x \in 1..g : q * g + x \in V,
         Extends(u, v, q * g, g)
  PROVE  \E e : InGroups(u, c + 1, e, V, g, q + 1)
<1>1. /\ h \in [0..c - 1 -> 0..q - 1]
      /\ \A b, d \in 0..c - 1 : b < d => h[b] < h[d]
      /\ Len(v) = c * g
      /\ \A b \in 0..c - 1 : \A x \in 1..g : h[b] * g + x \in V /\ v[b * g + x] = h[b] * g + x
  BY DEF InGroups
<1>2. PICK l \in Nat : l = c * g /\ (c + 1) * g = l + g
  BY Product, Successor
<1>3. /\ Len(u) = l + g
      /\ \A i \in 1..l : u[i] = v[i]
      /\ \A y \in 1..g : u[l + y] = q * g + y
  BY <1>1, <1>2 DEF Extends
<1>4. PICK e : e = [b \in 0..(c + 1) - 1 |-> IF b = c THEN q ELSE h[b]]
  OBVIOUS
<1>5. \A b \in 0..(c + 1) - 1 : b = c \/ b \in 0..c - 1
  OBVIOUS
<1>6. c \in 0..(c + 1) - 1 /\ \A b \in 0..c - 1 : b \in 0..(c + 1) - 1 /\ b # c
  OBVIOUS
<1>7. e[c] = q /\ \A b \in 0..c - 1 : e[b] = h[b]
  BY <1>4, <1>6
<1>8. q \in 0..(q + 1) - 1 /\ \A x \in 0..q - 1 : x \in 0..(q + 1) - 1 /\ x < q
  OBVIOUS
<1>9. e \in [0..(c + 1) - 1 -> 0..(q + 1) - 1]
  BY <1>1, <1>4, <1>5, <1>7, <1>8
<1>10. \A b, d \in 0..(c + 1) - 1 : b < d => e[b] < e[d]
  <2> SUFFICES ASSUME NEW b \in 0..(c + 1) - 1, NEW d \in 0..(c + 1) - 1, b < d PROVE e[b] < e[d]
    OBVIOUS
  <2>1. b # c
    OBVIOUS
  <2>2. b \in 0..c - 1
    BY <1>5, <2>1
  <2>3. e[b] = h[b] /\ h[b] \in 0..q - 1
    BY <1>1, <1>7, <2>2
  <2>4. CASE d = c
    BY <1>7, <1>8, <2>3, <2>4
  <2>5. CASE d # c
    <3>1. d \in 0..c - 1
      BY <1>5, <2>5
    <3>2. QED BY <1>1, <1>7, <2>2, <2>3, <3>1
  <2>6. QED BY <2>4, <2>5
<1>11. ASSUME NEW b \in 0..(c + 1) - 1, NEW x \in 1..g
       PROVE  e[b] * g + x \in V /\ u[b * g + x] = e[b] * g + x
  <2>1. CASE b = c
    BY <1>2, <1>3, <1>7, <2>1
  <2>2. CASE b # c
    <3>1. b \in 0..c - 1 /\ b \in Nat /\ b < c
      BY <1>5, <2>2
    <3>2. b * g + x \in 1..g * c
      BY <3>1, SpotIs
    <3>3. g * c = l
      BY <1>2
    <3>4. u[b * g + x] = v[b * g + x]
      BY <1>3, <3>2, <3>3
    <3>5. QED BY <1>1, <1>7, <3>1, <3>4
  <2>3. QED BY <2>1, <2>2
<1>12. Len(u) = (c + 1) * g
  BY <1>2, <1>3
<1>13. InGroups(u, c + 1, e, V, g, q + 1)
  BY <1>9, <1>10, <1>11, <1>12 DEF InGroups
<1>14. QED BY <1>13

(* ... and otherwise as many as before.                                     *)
LEMMA GroupPassed ==
  ASSUME NEW V, NEW g, NEW c \in Nat, NEW q \in Nat, NEW v, NEW h, InGroups(v, c, h, V, g, q)
  PROVE  InGroups(v, c, h, V, g, q + 1)
<1>1. \A x \in 0..q - 1 : x \in 0..(q + 1) - 1
  OBVIOUS
<1>2. h \in [0..c - 1 -> 0..q - 1]
  BY DEF InGroups
<1>3. h \in [0..c - 1 -> 0..(q + 1) - 1]
  BY <1>1, <1>2
<1>4. QED BY <1>3 DEF InGroups

(* What keeps whole groups leaves a sequence of whole groups, in their      *)
(* order.                                                                   *)
LEMMA AmongGroups ==
  ASSUME NEW g \in Nat \ {0}, NEW q \in Nat, NEW n \in Nat, n = g * q, NEW V, KeepsGroups(V, g)
  PROVE  LET k == Among([i \in 1..n |-> i], V)
         IN  k \in Seq(Nat) /\ \E c \in Nat : \E h : InGroups(k, c, h, V, g, q)
<1>1. PICK s : s = [i \in 1..n |-> i]
  OBVIOUS
<1>2. s \in Seq(Nat) /\ Len(s) = n
  <2>1. s \in [1..n -> Nat]
    BY <1>1
  <2>2. QED BY <2>1, FunctionIsSeq
<1>3. PICK f \in [0..n -> Seq(Nat)] : Keeps(f, s, V) /\ Among(s, V) = f[n]
  BY <1>2, AmongRuns
<1>4. f[0] = << >> /\ KeptRun(f, n, V)
  <2>1. \A i \in 0..n : i # 0 => s[i] = i
    BY <1>1
  <2>2. \A i \in 0..n : f[i] = IF i = 0 THEN << >>
                            ELSE IF s[i] \in V THEN Append(f[i - 1], s[i]) ELSE f[i - 1]
    BY <1>2, <1>3 DEF Keeps
  <2>3. 0 \in 0..n
    OBVIOUS
  <2>4. f[0] = << >>
    BY <2>2, <2>3
  <2>5. QED BY <2>1, <2>2, <2>4 DEF KeptRun
<1> DEFINE Good(j) == \E c \in Nat : \E h : InGroups(f[j * g], c, h, V, g, j)
           P == {j \in Nat : j <= q => Good(j)}
<1>5. 0 \in P
  <2>1. PICK h : h = [b \in 0..0 - 1 |-> 0]
    OBVIOUS
  <2>2. InGroups(f[0], 0, h, V, g, 0)
    BY <1>4, <2>1 DEF InGroups
  <2>3. 0 * g = 0 /\ 0 \in Nat
    OBVIOUS
  <2>4. QED BY <2>2, <2>3
<1>6. ASSUME NEW j \in Nat, j < q, j \in P PROVE j + 1 \in P
  <2>1. PICK a \in Nat : a = j * g /\ (j + 1) * g = a + g
    BY Product, Successor
  <2>2. a + g <= n
    <3>1. g * (j + 1) <= g * q /\ g * (j + 1) = (j + 1) * g
      BY <1>6, Monotone
    <3>2. QED BY <2>1, <3>1
  <2>3. Good(j)
    BY <1>6
  <2>4. PICK c \in Nat : \E h : InGroups(f[a], c, h, V, g, j)
    BY <2>1, <2>3
  <2>5. PICK h : InGroups(f[a], c, h, V, g, j)
    BY <2>4
  <2>6. Whole(a, V, g)
    BY <2>1 DEF KeepsGroups, Whole
  <2>7. GroupDone(f, a, g, V)
    BY <1>4, <2>2, <2>6, GroupKept
  <2>8. CASE a + 1 \in V
    <3>1. 1 \in 1..g
      OBVIOUS
    <3>2. \A x \in 1..g : j * g + x \in V
      BY <2>1, <2>6, <2>8, <3>1 DEF Whole
    <3>3. a \in 0..n /\ a + g \in 0..n
      BY <2>2
    <3>4. f[a] \in Seq(Nat) /\ f[a + g] \in Seq(Nat)
      BY <3>3
    <3>5. Extends(f[a + g], f[a], j * g, g)
      BY <2>1, <2>7, <2>8 DEF GroupDone
    <3>6. \E e : InGroups(f[a + g], c + 1, e, V, g, j + 1)
      BY <2>5, <3>2, <3>4, <3>5, GroupAdded
    <3>7. c + 1 \in Nat
      OBVIOUS
    <3>8. Good(j + 1)
      BY <2>1, <3>6, <3>7
    <3>9. QED BY <3>8
  <2>9. CASE a + 1 \notin V
    <3>1. f[a + g] = f[a]
      BY <2>7, <2>9 DEF GroupDone
    <3>2. InGroups(f[a + g], c, h, V, g, j + 1)
      BY <2>5, <3>1, GroupPassed
    <3>3. Good(j + 1)
      BY <2>1, <3>2
    <3>4. QED BY <3>3
  <2>10. QED BY <2>8, <2>9
<1> HIDE DEF P
<1>7. q \in P
  <2>1. 0..q \subseteq P
    BY <1>5, <1>6, UpTo
  <2>2. QED BY <2>1
<1>8. Good(q)
  BY <1>7 DEF P
<1>9. q * g = n
  OBVIOUS
<1>10. \E c \in Nat : \E h : InGroups(f[n], c, h, V, g, q)
  BY <1>8, <1>9
<1>11. f[n] \in Seq(Nat)
  OBVIOUS
<1>12. QED BY <1>1, <1>3, <1>10, <1>11

-----------------------------------------------------------------------------
(* How often a step counts a completion.                                    *)
LEMMA MaxIs ==
  ASSUME NEW n \in Nat \ {0}, NEW f \in [1..n -> Nat]
  PROVE  Max({f[r] : r \in 1..n}) \in Nat /\ \A r \in 1..n : f[r] <= Max({f[s] : s \in 1..n})
<1> DEFINE P == {m \in Nat : m + 1 <= n => \E r \in 1..m + 1 : \A s \in 1..m + 1 : f[s] <= f[r]}
<1>1. 0 \in P
  <2>1. \A s \in 1..0 + 1 : s = 1
    OBVIOUS
  <2>2. 1 \in 1..0 + 1 /\ 1 \in 1..n
    OBVIOUS
  <2>3. f[1] <= f[1]
    BY <2>2
  <2>4. QED BY <2>1, <2>2, <2>3
<1>2. ASSUME NEW m \in Nat, m \in P PROVE m + 1 \in P
  <2> SUFFICES ASSUME (m + 1) + 1 <= n
               PROVE  \E r \in 1..(m + 1) + 1 : \A s \in 1..(m + 1) + 1 : f[s] <= f[r]
    OBVIOUS
  <2>1. m + 1 <= n
    OBVIOUS
  <2>2. PICK r \in 1..m + 1 : \A s \in 1..m + 1 : f[s] <= f[r]
    BY <1>2, <2>1
  <2>3. PICK k \in 1..n : k = (m + 1) + 1
    OBVIOUS
  <2>4. \A s \in 1..k : s \in 1..n /\ (s = k \/ s \in 1..m + 1)
    BY <2>3
  <2>5. r \in 1..k /\ k \in 1..k /\ r \in 1..n /\ f[r] \in Nat /\ f[k] \in Nat
    BY <2>2, <2>3
  <2>6. CASE f[k] <= f[r]
    BY <2>2, <2>3, <2>4, <2>5, <2>6
  <2>7. CASE ~(f[k] <= f[r])
    <3>1. ASSUME NEW s \in 1..k PROVE f[s] <= f[k]
      <4>1. f[s] \in Nat
        BY <2>4
      <4>2. s = k \/ f[s] <= f[r]
        BY <2>2, <2>4
      <4>3. QED BY <2>5, <2>7, <4>1, <4>2
    <3>2. QED BY <2>3, <2>5, <3>1
  <2>8. QED BY <2>6, <2>7
<1> HIDE DEF P
<1>3. n - 1 \in P
  <2>1. n - 1 \in Nat
    OBVIOUS
  <2>2. QED BY <1>1, <1>2, <2>1, Induction
<1>4. PICK r \in 1..n : \A s \in 1..n : f[s] <= f[r]
  <2>1. (n - 1) + 1 = n
    OBVIOUS
  <2>2. QED BY <1>3, <2>1 DEF P
<1> DEFINE S == {f[s] : s \in 1..n}
<1>5. f[r] \in S /\ \A y \in S : f[r] >= y
  BY <1>4
<1>6. S \subseteq Nat /\ \A s \in 1..n : f[s] \in S
  OBVIOUS
<1> HIDE DEF S
<1>7. Max(S) \in S /\ \A y \in S : Max(S) >= y
  BY <1>5 DEF Max
<1>8. Max(S) \in Nat /\ \A s \in 1..n : f[s] <= Max(S)
  BY <1>6, <1>7
<1>9. QED BY <1>8 DEF S

(* The chunks a rank makes of a mini batch cover it, each place once.       *)
InChunk(c, length, i) == i > c * length /\ i <= (c + 1) * length

(* Each element is in one chunk.                                            *)
LEMMA OneChunk ==
  ASSUME NEW length \in Nat \ {0}, NEW chunks \in Nat, NEW i \in 1..length * chunks
  PROVE  \E c \in 0..chunks - 1 : \A d \in Nat : InChunk(d, length, i) <=> d = c
<1>1. PICK c \in Nat, x \in 1..length :
        c < chunks /\ i = c * length + x /\ (i - 1) \div length = c
  BY SpotOf
<1>2. PICK y \in Nat : y = c * length /\ (c + 1) * length = y + length /\ i = y + x
  BY <1>1, Product, Successor
<1>3. InChunk(c, length, i)
  BY <1>2 DEF InChunk
<1>4. ASSUME NEW d \in Nat, InChunk(d, length, i) PROVE d = c
  <2>1. PICK z \in Nat : z = d * length /\ (d + 1) * length = z + length /\ i > z /\ i <= z + length
    BY <1>4, Product, Successor DEF InChunk
  <2>2. PICK w \in 1..length : w = i - z /\ i = z + w
    BY <1>2, <2>1
  <2>3. c * length + x = d * length + w
    BY <1>1, <2>1, <2>2
  <2>4. QED BY <2>3, OneSpot
<1>5. c \in 0..chunks - 1
  BY <1>1
<1>6. QED BY <1>3, <1>4, <1>5

(* The chunks have room for all of a mini batch.                            *)
LEMMA ChunksFit ==
  ASSUME NEW size \in Nat \ {0}, NEW chunks \in Nat \ {0}
  PROVE  ChunkSize(size, chunks) \in Nat \ {0} /\ size <= ChunkSize(size, chunks) * chunks
<1>1. PICK x \in Nat : x = size + chunks - 1
  OBVIOUS
<1>2. PICK l \in Nat : l = x \div chunks /\ x < chunks * l + chunks
  BY <1>1, Division
<1>3. PICK y \in Nat : y = chunks * l /\ y = l * chunks
  BY Product
<1>4. size <= y
  BY <1>1, <1>2, <1>3
<1>5. l # 0
  BY <1>3, <1>4
<1>6. QED BY <1>1, <1>2, <1>3, <1>4, <1>5 DEF ChunkSize

SizesIn(m) ==
  /\ Len(rewards) \in Nat
  /\ \A r \in Rank : Len(buffer[r][m]) \in Nat /\ Len(buffer[r][m]) <= Len(rewards)

Chunked(m) == MultiTurn /\ \E r \in Rank : Len(buffer[r][m]) > MiniBatch

Chunks(m) ==
  IF Chunked(m) THEN Max({(Len(buffer[r][m]) + MiniBatch - 1) \div MiniBatch : r \in Rank}) ELSE 1

ChunkLength(r, m) ==
  IF Chunked(m) THEN ChunkSize(Len(buffer[r][m]), Chunks(m)) ELSE Len(buffer[r][m])

(* The places of a completion in the buffer, with the chunk.                *)
Sights(m, s) ==
  {p \in Rank \X (0..Chunks(m) - 1) \X (1..Len(rewards)) :
     /\ p[3] \in 1..Len(buffer[p[1]][m])
     /\ InChunk(p[2], ChunkLength(p[1], m), p[3]) /\ buffer[p[1]][m][p[3]].sample = s}

(* A completion counts as often as it is seen in the mini batches of the    *)
(* ranks.                                                                   *)
LEMMA CountedIs ==
  ASSUME NEW m, NEW s
  PROVE  Counted(m, s) = Cardinality(Sights(m, s))
<1>1. ASSUME NEW p \in Rank \X (0..Chunks(m) - 1) \X (1..Len(rewards))
      PROVE  p[3] \in {i \in 1..Len(buffer[p[1]][m]) :
                         /\ i > p[2] * ChunkLength(p[1], m) /\ i <= (p[2] + 1) * ChunkLength(p[1], m)
                         /\ buffer[p[1]][m][i].sample = s}
             <=> /\ p[3] \in 1..Len(buffer[p[1]][m])
                 /\ InChunk(p[2], ChunkLength(p[1], m), p[3]) /\ buffer[p[1]][m][p[3]].sample = s
  BY DEF InChunk
<1>2. Counted(m, s) =
        Cardinality({p \in Rank \X (0..Chunks(m) - 1) \X (1..Len(rewards)) :
          p[3] \in {i \in 1..Len(buffer[p[1]][m]) :
                     /\ i > p[2] * ChunkLength(p[1], m) /\ i <= (p[2] + 1) * ChunkLength(p[1], m)
                     /\ buffer[p[1]][m][i].sample = s}})
  BY DEF Counted, Chunks, Chunked, ChunkLength
<1>3. {p \in Rank \X (0..Chunks(m) - 1) \X (1..Len(rewards)) :
          p[3] \in {i \in 1..Len(buffer[p[1]][m]) :
                     /\ i > p[2] * ChunkLength(p[1], m) /\ i <= (p[2] + 1) * ChunkLength(p[1], m)
                     /\ buffer[p[1]][m][i].sample = s}} = Sights(m, s)
  BY <1>1 DEF Sights
<1>4. QED BY <1>2, <1>3

LEMMA ChunksIs ==
  ASSUME NEW m, SizesIn(m)
  PROVE  Chunks(m) \in Nat \ {0}
<1>1. CASE ~Chunked(m)
  BY <1>1 DEF Chunks
<1>2. CASE Chunked(m)
  <2>1. PICK n \in Nat \ {0} : n = Ranks /\ Rank = 1..n
    BY Sizes DEF Rank
  <2>2. PICK b \in Nat \ {0} : b = MiniBatch
    BY SizeOfMiniBatch
  <2>3. PICK size \in [1..n -> Nat] : \A r \in 1..n : size[r] = Len(buffer[r][m])
    <3>1. [r \in 1..n |-> Len(buffer[r][m])] \in [1..n -> Nat]
      BY <2>1 DEF SizesIn
    <3>2. QED BY <3>1
  <2>4. \A r \in 1..n : (size[r] + b - 1) \div b \in Nat
    <3>1. \A r \in 1..n : size[r] + b - 1 \in Nat
      OBVIOUS
    <3>2. QED BY <3>1, Division
  <2>5. PICK f \in [1..n -> Nat] : \A r \in 1..n : f[r] = (size[r] + b - 1) \div b
    <3>1. [r \in 1..n |-> (size[r] + b - 1) \div b] \in [1..n -> Nat]
      BY <2>4
    <3>2. QED BY <3>1
  <2>6. Max({f[r] : r \in 1..n}) \in Nat /\ \A r \in 1..n : f[r] <= Max({f[s] : s \in 1..n})
    BY MaxIs
  <2>7. {(Len(buffer[r][m]) + MiniBatch - 1) \div MiniBatch : r \in Rank} = {f[r] : r \in 1..n}
    <3>1. \A r \in 1..n : (Len(buffer[r][m]) + MiniBatch - 1) \div MiniBatch = f[r]
      BY <2>2, <2>3, <2>5
    <3>2. QED BY <2>1, <3>1
  <2>8. PICK r \in 1..n : size[r] > b
    BY <1>2, <2>1, <2>2, <2>3 DEF Chunked
  <2>9. f[r] # 0
    <3>1. PICK x \in Nat : x = size[r] + b - 1 /\ x >= b
      BY <2>2, <2>8
    <3>2. x \div b \in Nat /\ x < b * (x \div b) + b
      BY <2>2, <3>1, Division
    <3>3. x \div b # 0
      BY <2>2, <3>1, <3>2
    <3>4. QED BY <2>5, <3>1, <3>3
  <2>10. Max({f[s] : s \in 1..n}) \in Nat \ {0}
    BY <2>6, <2>9
  <2>11. QED BY <1>2, <2>7, <2>10 DEF Chunks
<1>3. QED BY <1>1, <1>2

(* A completion that no rank has in its mini batch does not count, ...      *)
LEMMA NotCounted ==
  ASSUME NEW m, NEW s, \A r \in Rank : \A i \in 1..Len(buffer[r][m]) : buffer[r][m][i].sample # s
  PROVE  Counted(m, s) = 0
<1>1. Sights(m, s) = {}
  BY DEF Sights
<1>2. QED BY <1>1, CountedIs, FS_EmptySet

(* ... and one that is in one of them, once, counts once.                   *)
LEMMA CountedOnce ==
  ASSUME NEW m, NEW s, SizesIn(m), NEW r \in Rank, NEW i \in 1..Len(buffer[r][m]),
         buffer[r][m][i].sample = s,
         \A q \in Rank : \A j \in 1..Len(buffer[q][m]) : buffer[q][m][j].sample = s => q = r /\ j = i
  PROVE  Counted(m, s) = 1
<1>1. PICK size \in Nat : size = Len(buffer[r][m]) /\ size <= Len(rewards) /\ i \in 1..size
  BY DEF SizesIn
<1>2. PICK chunks \in Nat \ {0} : chunks = Chunks(m)
  BY ChunksIs
<1>3. PICK length \in Nat \ {0} : length = ChunkLength(r, m) /\ size <= length * chunks
  <2>1. size \in Nat \ {0}
    BY <1>1
  <2>2. CASE Chunked(m)
    <3>1. ChunkSize(size, chunks) \in Nat \ {0} /\ size <= ChunkSize(size, chunks) * chunks
      BY <1>2, <2>1, ChunksFit
    <3>2. ChunkLength(r, m) = ChunkSize(size, chunks)
      BY <1>1, <1>2, <2>2 DEF ChunkLength
    <3>3. QED BY <3>1, <3>2
  <2>3. CASE ~Chunked(m)
    <3>1. chunks = 1 /\ ChunkLength(r, m) = size
      BY <1>1, <1>2, <2>3 DEF Chunks, ChunkLength
    <3>2. size * 1 = size
      BY <2>1
    <3>3. QED BY <2>1, <3>1, <3>2
  <2>4. QED BY <2>2, <2>3
<1>4. i \in 1..length * chunks
  <2>1. PICK x \in Nat : x = length * chunks
    BY <1>2, <1>3, Product
  <2>2. QED BY <1>1, <1>3, <2>1
<1>5. PICK c \in 0..chunks - 1 : \A d \in Nat : InChunk(d, length, i) <=> d = c
  BY <1>2, <1>3, <1>4, OneChunk
<1>6. Sights(m, s) = {<<r, c, i>>}
  <2>1. <<r, c, i>> \in Sights(m, s)
    <3>1. i \in 1..Len(rewards) /\ c \in 0..Chunks(m) - 1 /\ c \in Nat
      BY <1>1, <1>2, <1>5 DEF SizesIn
    <3>2. InChunk(c, ChunkLength(r, m), i)
      BY <1>3, <1>5, <3>1
    <3>3. <<r, c, i>> \in Rank \X (0..Chunks(m) - 1) \X (1..Len(rewards))
      BY <3>1
    <3>4. QED BY <1>1, <3>2, <3>3 DEF Sights
  <2>2. ASSUME NEW p \in Sights(m, s) PROVE p = <<r, c, i>>
    <3>1. PICK q \in Rank, d \in 0..Chunks(m) - 1, j \in 1..Len(rewards) : p = <<q, d, j>>
      BY DEF Sights
    <3>2. j \in 1..Len(buffer[q][m]) /\ InChunk(d, ChunkLength(q, m), j) /\ buffer[q][m][j].sample = s
      BY <3>1 DEF Sights
    <3>3. q = r /\ j = i
      BY <3>2
    <3>4. d \in Nat
      BY <1>2
    <3>5. d = c
      BY <1>3, <1>5, <3>2, <3>3, <3>4
    <3>6. QED BY <3>1, <3>3, <3>5
  <2>3. QED BY <2>1, <2>2
<1>7. QED BY <1>6, CountedIs, FS_Singleton

-----------------------------------------------------------------------------
(* The invariant.  What the variables hold ...                              *)
Samples == [source : {"train", "dynamic", "single"}, n : Nat]
Completions == [prompt : Samples, request : Nat \X Nat \X Nat, prompt_id : Nat, turn : {1, 2}]
Rewards == [of : Completions, value : {0, 1}]
ValidSamples == [sample : Completions, reward : Rewards]

Typed ==
  /\ phase \in {"idle", "encode", "generate", "measure", "take", "prepare", "train"}
  /\ step \in Nat /\ resampled \in Nat
  /\ drawn \in [train : Nat, dynamic : Nat] /\ singles \in [Rank -> Nat]

(* ... of a sequence: each group is of one sample, or of completions of one *)
(* prompt, or its rewards vary; no completion is there twice.               *)
OneSample(all) ==
  \A b \in Nat : \A x, y \in 1..Group :
    b * Group + x \in 1..Len(all) /\ b * Group + y \in 1..Len(all)
      => all[b * Group + x] = all[b * Group + y]

OnePrompt(list) ==
  \A b \in Nat : \A x, y \in 1..Group :
    b * Group + x \in 1..Len(list) /\ b * Group + y \in 1..Len(list)
      => list[b * Group + x].of.prompt = list[b * Group + y].of.prompt

OneIdOnePrompt(list) ==
  \A i, j \in 1..Len(list) :
    list[i].of.prompt_id = list[j].of.prompt_id => list[i].of.prompt = list[j].of.prompt

AllVary(list) ==
  \A b \in Nat : b * Group + Group <= Len(list) =>
    \E x, y \in 1..Group : list[b * Group + x].value # list[b * Group + y].value

Distinct(list) == \A i, j \in 1..Len(list) : list[i].of = list[j].of => i = j

OfRound(list, k) == \A i \in 1..Len(list) : list[i].of.request[2] = k

(* The ranks have the completions the rewards were given to, in order.      *)
Of(list) == [i \in 1..Len(list) |-> list[i].of]

Matched(lists, list) == \A r \in Rank : lists[r] = EvenPart(Of(list), r, Ranks)

Sound(lists, list) ==
  /\ list \in Seq(Rewards)
  /\ Distinct(list)
  /\ Matched(lists, list)
  /\ mode = "dynamic_sample" => Len(list) = Global
  /\ bad = {} => IF Len(list) = Global THEN OnePrompt(list) ELSE OneIdOnePrompt(list)

Prompting ==
  phase \in {"encode", "generate"} =>
    /\ inputs \in [Rank -> Seq(Samples)] /\ \A r \in Rank : Len(inputs[r]) = Local
    /\ phase = "encode" \/ bad = {} => OneSample(AllOf(inputs))

Scoring ==
  /\ phase \in {"measure", "prepare", "train"} => Sound(inputs, rewards)
  /\ phase = "measure" => OfRound(rewards, resampled)
  /\ phase \in {"measure", "take"} => mode = "dynamic_sample"
  /\ resampled > 0 => mode = "dynamic_sample"

FirstBatch ==
  phase = "measure" \/ resampled > 0 =>
    Sound(origin.inputs, origin.rewards) /\ OfRound(origin.rewards, 0)

(* The samples kept so far: whole groups, that vary, each completion once.  *)
RewardsIn(list) == [i \in 1..Len(list) |-> list[i].reward]

Kept(list) ==
  /\ list \in Seq(ValidSamples)
  /\ \E c \in Nat : Len(list) = c * Group
  /\ \A i \in 1..Len(list) : list[i].sample = list[i].reward.of
  /\ Distinct(RewardsIn(list)) /\ AllVary(RewardsIn(list))
  /\ bad = {} => OnePrompt(RewardsIn(list))

Collecting ==
  phase \in {"encode", "generate", "measure", "take"} =>
    /\ Kept(valid)
    /\ IF phase = "take" THEN Len(valid) >= Global
       ELSE Len(valid) < Global /\ \A i \in 1..Len(valid) : valid[i].sample.request[2] < resampled

ChosenBatch ==
  phase \in {"prepare", "train"} /\ mode = "dynamic_sample" =>
    \/ AllVary(rewards)
    \/ Len(valid) < Global /\ OfRound(rewards, 0)

GenerationInv == Typed /\ Prompting /\ Scoring /\ FirstBatch /\ Collecting /\ ChosenBatch

(* The place of the t-th sample of mini batch m of rank r.                  *)
Place(r, m, t) ==
  LET n == Len(rewards)
  IN  From(n, r, Ranks) + From(Many(n, r, Ranks), m, MiniBatches) + t

SizeOf(r, m) == Many(Many(Len(rewards), r, Ranks), m, MiniBatches)

Buffered ==
  phase = "train" => \A r \in Rank :
    /\ DOMAIN buffer[r] = 1..MiniBatches /\ Len(buffer[r]) = MiniBatches
    /\ \A m \in 1..MiniBatches :
         /\ DOMAIN buffer[r][m] = 1..SizeOf(r, m) /\ Len(buffer[r][m]) = SizeOf(r, m)
         /\ \A t \in 1..SizeOf(r, m) : buffer[r][m][t].sample = rewards[Place(r, m, t)].of

Counting ==
  phase = "train" =>
    /\ DOMAIN trained = {rewards[i].of : i \in 1..Len(rewards)}
    /\ \A r \in Rank : \A m \in 1..MiniBatches : \A t \in 1..SizeOf(r, m) :
         trained[rewards[Place(r, m, t)].of] = Many(step % GenerateEvery, m, MiniBatches)

TrainingInv ==
  /\ phase # "train" => step % GenerateEvery = 0
  /\ Buffered /\ Counting
  /\ OwnAdvantage /\ WholeGroups /\ VariedGroups /\ TrainedAlike

(* A generation draws a batch for each of its rounds.                       *)
Bounded ==
  /\ resampled <= MaxResample /\ drawn.train <= Generations
  /\ phase # "idle" => drawn.train > 0
  /\ drawn.dynamic <= drawn.train * MaxResample
  /\ phase \in {"encode", "generate", "measure"} =>
       drawn.dynamic <= (drawn.train - 1) * MaxResample + resampled

IInv == GenerationInv /\ TrainingInv

-----------------------------------------------------------------------------
(* Drawing and encoding.                                                    *)
LEMMA BatchIs ==
  ASSUME NEW source \in {"train", "dynamic", "single"}, NEW k \in Nat
  PROVE  DataBatch(source, k) \in Seq(Samples) /\ Len(DataBatch(source, k)) = Global /\ OneSample(DataBatch(source, k))
<1>1. PICK q \in Nat \ {0} : Global = Group * q /\ q = Global \div Group
  BY Groups
<1>2. PICK n \in Nat : n = Global
  BY Sizes
<1>3. PICK s : s = DataBatch(source, k)
  OBVIOUS
<1>4. s = [i \in 1..n |-> [source |-> source, n |-> k * q + ((i - 1) \div Group)]]
  BY <1>1, <1>2, <1>3 DEF DataBatch
<1>5. ASSUME NEW i \in 1..n PROVE [source |-> source, n |-> k * q + ((i - 1) \div Group)] \in Samples
  <2>1. i - 1 \in Nat
    OBVIOUS
  <2>2. PICK x \in Nat, y \in Nat : x = (i - 1) \div Group /\ y = k * q
    BY <1>1, <2>1, Sizes, Division, Product
  <2>3. y + x \in Nat
    BY <2>2
  <2>4. QED BY <2>2, <2>3 DEF Samples
<1>6. s \in [1..n -> Samples]
  BY <1>4, <1>5
<1>7. s \in Seq(Samples) /\ Len(s) = n
  BY <1>6, FunctionIsSeq
<1>8. OneSample(s)
  <2> SUFFICES ASSUME NEW b \in Nat, NEW x \in 1..Group, NEW y \in 1..Group,
                      b * Group + x \in 1..n, b * Group + y \in 1..n
               PROVE  s[b * Group + x] = s[b * Group + y]
    BY <1>7 DEF OneSample
  <2>1. ((b * Group + x) - 1) \div Group = b /\ ((b * Group + y) - 1) \div Group = b
    BY Sizes, SpotIs
  <2>2. /\ s[b * Group + x] = [source |-> source, n |-> k * q + (((b * Group + x) - 1) \div Group)]
        /\ s[b * Group + y] = [source |-> source, n |-> k * q + (((b * Group + y) - 1) \div Group)]
    BY <1>4
  <2>3. QED BY <2>1, <2>2
<1>9. QED BY <1>2, <1>3, <1>7, <1>8

(* The samples of the ranks, gathered, are the batch.                       *)
LEMMA ShardIs ==
  ASSUME NEW s \in Seq(Samples), Len(s) = Global
  PROVE  /\ Shard(s) \in [Rank -> Seq(Samples)] /\ \A r \in Rank : Len(Shard(s)[r]) = Local
         /\ AllOf(Shard(s)) = s
<1>1. Rank = 1..Ranks /\ Ranks \in Nat \ {0}
  BY Sizes DEF Rank
<1>2. ASSUME NEW r \in Rank
      PROVE  /\ Shard(s)[r] = EvenPart(s, r, Ranks) /\ Shard(s)[r] \in Seq(Samples)
             /\ Len(Shard(s)[r]) = Local
  <2>1. /\ Slice(s, (r - 1) * Local, Local) = EvenPart(s, r, Ranks)
        /\ EvenPart(s, r, Ranks) \in Seq(Samples)
        /\ IsPart(EvenPart(s, r, Ranks), s, (r - 1) * Local, Local)
    BY <1>1, Sharding
  <2>2. Shard(s)[r] = Slice(s, (r - 1) * Local, Local)
    BY DEF Shard
  <2>3. QED BY <2>1, <2>2 DEF IsPart
<1>3. Shard(s) \in [Rank -> Seq(Samples)]
  <2>1. Shard(s) = [r \in Rank |-> Slice(s, (r - 1) * Local, Local)]
    BY DEF Shard
  <2>2. \A r \in Rank : Slice(s, (r - 1) * Local, Local) \in Seq(Samples)
    BY <1>2, <2>1
  <2>3. QED BY <2>1, <2>2
<1>4. AllOf(Shard(s)) = s
  BY <1>1, <1>2, AllOfParts
<1>5. QED BY <1>2, <1>3, <1>4

LEMMA DrawIs ==
  ASSUME NEW source \in {"train", "dynamic", "single"}, NEW k \in Nat
  PROVE  /\ Shard(DataBatch(source, k)) \in [Rank -> Seq(Samples)]
         /\ \A r \in Rank : Len(Shard(DataBatch(source, k))[r]) = Local
         /\ OneSample(AllOf(Shard(DataBatch(source, k))))
BY BatchIs, ShardIs

LEMMA SingleIs ==
  ASSUME NEW r \in Rank, NEW k \in Nat, NEW place \in Nat
  PROVE  Single(r, k, place) \in Samples
<1>1. r \in Nat /\ r >= 1
  BY Sizes DEF Rank
<1>2. PICK x \in Nat : x = k * Ranks
  BY Sizes, Product
<1>3. x + r - 1 \in Nat
  BY <1>1
<1>4. (x + r - 1) * MiniBatch \in Nat
  BY <1>3, SizeOfMiniBatch, Product
<1>5. (x + r - 1) * MiniBatch + place \in Nat
  BY <1>4
<1>6. ((x + r - 1) * MiniBatch + place) \div Iterations \in Nat
  BY <1>5, Sizes, Division
<1>7. QED BY <1>2, <1>6 DEF Single, Samples

(* If every prompt can be encoded, each rank keeps its samples; if not,     *)
(* their number.                                                            *)
LEMMA EncodeIs ==
  ASSUME ReplaceFailed, singles \in [Rank -> Nat],
         inputs \in [Rank -> Seq(Samples)], \A r \in Rank : Len(inputs[r]) = Local
  PROVE  /\ inputs' \in [Rank -> Seq(Samples)] /\ \A r \in Rank : Len(inputs'[r]) = Local
         /\ bad = {} => inputs' = inputs
         /\ singles' \in [Rank -> Nat]
<1> DEFINE kept(r) == Among(inputs[r], ToSet(inputs[r]) \ bad)
           missing(r) == Local - Len(kept(r))
           Fill(r, i) == Single(r, singles[r] + (i \div MiniBatch), i % MiniBatch)
           fill(r) == [i \in 1..missing(r) |-> Fill(r, i - 1)]
<1>1. /\ inputs' = [r \in Rank |-> kept(r) \o fill(r)]
      /\ singles' = [r \in Rank |-> singles[r] + ((missing(r) + MiniBatch - 1) \div MiniBatch)]
  BY DEF ReplaceFailed
<1>2. ASSUME NEW r \in Rank
      PROVE  kept(r) \in Seq(Samples) /\ Len(kept(r)) \in Nat /\ missing(r) \in Nat
             /\ (bad = {} => kept(r) = inputs[r])
  <2>1. inputs[r] \in Seq(Samples) /\ Len(inputs[r]) = Local
    OBVIOUS
  <2>2. /\ kept(r) \in Seq(Samples) /\ Len(kept(r)) <= Local
        /\ (\A i \in 1..Local : inputs[r][i] \in ToSet(inputs[r]) \ bad) => kept(r) = inputs[r]
    BY <2>1, AmongIs
  <2>3. \A i \in 1..Local : inputs[r][i] \in ToSet(inputs[r])
    <3>1. DOMAIN inputs[r] = 1..Local
      BY <2>1, LenProperties
    <3>2. QED BY <3>1 DEF ToSet
  <2> HIDE DEF kept
  <2>4. Len(kept(r)) \in Nat
    BY <2>2, LenProperties
  <2>5. missing(r) \in Nat
    BY <2>2, <2>4, Sizes
  <2>6. bad = {} => kept(r) = inputs[r]
    BY <2>2, <2>3
  <2>7. QED BY <2>2, <2>4, <2>5, <2>6
<1> HIDE DEF kept
<1>3. ASSUME NEW r \in Rank
      PROVE  fill(r) \in Seq(Samples) /\ Len(fill(r)) = missing(r)
  <2>1. PICK m \in Nat : m = missing(r)
    BY <1>2
  <2> HIDE DEF missing
  <2>2. ASSUME NEW i \in 1..m PROVE Fill(r, i - 1) \in Samples
    <3>1. i - 1 \in Nat
      OBVIOUS
    <3>2. (i - 1) \div MiniBatch \in Nat /\ (i - 1) % MiniBatch \in Nat
      BY <3>1, SizeOfMiniBatch, Division
    <3>3. singles[r] + ((i - 1) \div MiniBatch) \in Nat
      BY <3>2
    <3>4. QED BY <3>2, <3>3, SingleIs
  <2> HIDE DEF Fill
  <2>3. fill(r) \in [1..m -> Samples]
    BY <2>1, <2>2
  <2> HIDE DEF fill
  <2>4. QED BY <2>1, <2>3, FunctionIsSeq
<1> HIDE DEF fill
<1>4. ASSUME NEW r \in Rank
      PROVE  kept(r) \o fill(r) \in Seq(Samples) /\ Len(kept(r) \o fill(r)) = Local
             /\ (bad = {} => kept(r) \o fill(r) = inputs[r])
  <2>1. kept(r) \o fill(r) \in Seq(Samples) /\ Len(kept(r) \o fill(r)) = Len(kept(r)) + Len(fill(r))
    BY <1>2, <1>3, ConcatProperties
  <2>2. Len(kept(r)) + Len(fill(r)) = Local
    BY <1>2, <1>3, Sizes
  <2>3. ASSUME bad = {} PROVE kept(r) \o fill(r) = inputs[r]
    <3>1. kept(r) = inputs[r] /\ inputs[r] \in Seq(Samples)
      BY <1>2, <2>3
    <3>2. Len(fill(r)) = 0
      BY <1>3, <3>1, Sizes
    <3>3. fill(r) = << >>
      BY <1>3, <3>2, EmptySeq
    <3>4. QED BY <3>1, <3>3, ConcatEmptySeq
  <2>4. QED BY <2>1, <2>2, <2>3
<1>5. inputs' \in [Rank -> Seq(Samples)] /\ \A r \in Rank : Len(inputs'[r]) = Local
  BY <1>1, <1>4
<1>6. ASSUME bad = {} PROVE inputs' = inputs
  <2>1. \A r \in Rank : inputs'[r] = inputs[r]
    BY <1>1, <1>4, <1>6
  <2>2. QED BY <1>5, <2>1
<1>7. singles' \in [Rank -> Nat]
  <2>1. ASSUME NEW r \in Rank
        PROVE  singles[r] + ((missing(r) + MiniBatch - 1) \div MiniBatch) \in Nat
    <3>1. PICK m \in Nat, b \in Nat \ {0} : m = missing(r) /\ b = MiniBatch /\ m + b - 1 \in Nat
      BY <1>2, SizeOfMiniBatch
    <3>2. PICK x \in Nat : x = m + b - 1
      BY <3>1
    <3>3. x \div b \in Nat /\ singles[r] \in Nat
      BY <3>1, <3>2, Division
    <3>4. (missing(r) + MiniBatch - 1) \div MiniBatch = x \div b
      BY <3>1, <3>2
    <3> HIDE DEF missing
    <3>5. QED BY <3>3, <3>4
  <2> HIDE DEF missing
  <2>2. QED BY <1>1, <2>1
<1>8. QED BY <1>5, <1>6, <1>7

-----------------------------------------------------------------------------
(* Generating and scoring.                                                  *)
LEMMA MinIn ==
  ASSUME NEW S, S \subseteq Nat, S # {}
  PROVE  Min(S) \in S
<1>1. \E n \in S : \A m \in S : n <= m
  BY Least
<1>2. QED BY <1>1 DEF Min

(* The requests of all ranks: of the samples in order, prompt_id naming the *)
(* sample.                                                                  *)
LEMMA RequestsAre ==
  ASSUME Typed, NEW all, AllOf(inputs) = all, all \in Seq(Samples), Len(all) = Global
  PROVE  /\ Requests \in [1..Global -> Completions]
         /\ \A i \in 1..Global :
              /\ Requests[i].prompt = all[i]
              /\ Requests[i].request = <<drawn.train, resampled, i>>
              /\ all[Requests[i].prompt_id] = all[i] /\ Requests[i].turn = 1
<1>1. PICK n \in Nat : n = Global
  BY Sizes
<1>2. DOMAIN all = 1..n /\ \A i \in 1..n : all[i] \in Samples
  BY <1>1, LenProperties, ElementOfSeq
<1> DEFINE Same(i) == {j \in DOMAIN all : all[j] = all[i]}
           Request(i) == [prompt |-> all[i], request |-> <<drawn.train, resampled, i>>,
                          prompt_id |-> Min(Same(i)), turn |-> 1]
<1>3. Requests = [i \in 1..n |-> Request(i)]
  BY <1>1 DEF Requests
<1>4. ASSUME NEW i \in 1..n PROVE Min(Same(i)) \in Nat /\ all[Min(Same(i))] = all[i]
  <2>1. Same(i) \subseteq Nat /\ i \in Same(i)
    BY <1>2
  <2>2. Min(Same(i)) \in Same(i)
    BY <2>1, MinIn
  <2>3. QED BY <2>1, <2>2
<1>5. drawn.train \in Nat /\ resampled \in Nat
  BY DEF Typed
<1> HIDE DEF Same
<1>6. ASSUME NEW i \in 1..n PROVE Request(i) \in Completions
  BY <1>2, <1>4, <1>5 DEF Completions
<1>7. \A i \in 1..n : /\ Requests[i].prompt = all[i]
                      /\ Requests[i].request = <<drawn.train, resampled, i>>
                      /\ Requests[i].prompt_id = Min(Same(i)) /\ Requests[i].turn = 1
  BY <1>3
<1> HIDE DEF Request
<1>8. QED BY <1>1, <1>3, <1>4, <1>6, <1>7

(* Which request a turn belongs to, and its number.                         *)
RequestOf(k, i) == IF i <= 2 * k THEN (i + 1) \div 2 ELSE i - k
TurnOf(k, i) == IF i <= 2 * k THEN 2 - (i % 2) ELSE 1

LEMMA Half ==
  ASSUME NEW i \in Nat, i >= 1
  PROVE  /\ (i + 1) \div 2 \in Nat /\ 2 - (i % 2) \in {1, 2}
         /\ i = 2 * ((i + 1) \div 2) - 2 + (2 - (i % 2))
OBVIOUS

(* The first k requests have two outputs each, next to each other, the      *)
(* others one.                                                              *)
LEMMA TurnIs ==
  ASSUME NEW n \in Nat, NEW k \in 0..n, NEW i \in 1..n + k
  PROVE  /\ RequestOf(k, i) \in 1..n /\ TurnOf(k, i) \in {1, 2}
         /\ IF RequestOf(k, i) <= k THEN i = 2 * RequestOf(k, i) - 2 + TurnOf(k, i)
                                    ELSE i = RequestOf(k, i) + k
<1>1. CASE i <= 2 * k
  <2>1. PICK x \in Nat, t \in {1, 2} : x = (i + 1) \div 2 /\ t = 2 - (i % 2) /\ i = 2 * x - 2 + t
    BY Half
  <2>2. x \in 1..n /\ x <= k
    BY <1>1, <2>1
  <2>3. RequestOf(k, i) = x /\ TurnOf(k, i) = t
    BY <1>1, <2>1 DEF RequestOf, TurnOf
  <2>4. QED BY <2>1, <2>2, <2>3
<1>2. CASE ~(i <= 2 * k)
  BY <1>2 DEF RequestOf, TurnOf
<1>3. QED BY <1>1, <1>2

TurnedRequest(all, k, i) == [all[RequestOf(k, i)] EXCEPT !.turn = TurnOf(k, i)]

LEMMA TurnsAre ==
  ASSUME NEW n \in Nat, n = Global, NEW k \in 0..n, Requests \in [1..n -> Completions],
         \A i \in 1..n : Requests[i].turn = 1
  PROVE  /\ Turns(k) \in [1..n + k -> Completions]
         /\ \A i \in 1..n + k : Turns(k)[i] = TurnedRequest(Requests, k, i)
<1>1. PICK all \in [1..n -> Completions] : all = Requests /\ \A i \in 1..n : all[i].turn = 1
  OBVIOUS
<1> DEFINE turn(i) == IF i <= 2 * k THEN [all[(i + 1) \div 2] EXCEPT !.turn = 2 - (i % 2)] ELSE all[i - k]
<1>2. Turns(k) = [i \in 1..n + k |-> turn(i)]
  BY <1>1 DEF Turns
<1>3. ASSUME NEW i \in 1..n + k
      PROVE  turn(i) = TurnedRequest(all, k, i) /\ turn(i) \in Completions
  <2>1. PICK x \in 1..n, t \in {1, 2} : x = RequestOf(k, i) /\ t = TurnOf(k, i)
    BY TurnIs
  <2>2. all[x] \in Completions /\ all[x].turn = 1
    BY <1>1
  <2>3. [all[x] EXCEPT !.turn = t] \in Completions
    BY <2>1, <2>2 DEF Completions
  <2>4. [all[x] EXCEPT !.turn = 1] = all[x]
    BY <2>2 DEF Completions
  <2>5. turn(i) = [all[x] EXCEPT !.turn = t]
    BY <2>1, <2>4 DEF RequestOf, TurnOf
  <2>6. QED BY <2>1, <2>3, <2>5 DEF TurnedRequest
<1> HIDE DEF turn
<1>4. QED BY <1>1, <1>2, <1>3

Outputs(outputs, all, k) ==
  /\ \A i, j \in 1..Len(outputs) : outputs[i] = outputs[j] => i = j
  /\ \A i \in 1..Len(outputs) : outputs[i].request[2] = resampled
  /\ k = 0 => \A i \in 1..Len(outputs) : outputs[i].prompt = all[i]
  /\ \A i, j \in 1..Len(outputs) :
       outputs[i].prompt_id = outputs[j].prompt_id => outputs[i].prompt = outputs[j].prompt

LEMMA OutputsAre ==
  ASSUME Typed, NEW all, AllOf(inputs) = all, all \in Seq(Samples), Len(all) = Global,
         NEW k \in 0..Global
  PROVE  Turns(k) \in Seq(Completions) /\ Len(Turns(k)) = Global + k /\ Outputs(Turns(k), all, k)
<1>1. PICK n \in Nat : n = Global /\ k \in 0..n /\ n + k \in Nat
  BY Sizes
<1>2. PICK reqs : reqs = Requests
  OBVIOUS
<1>3. /\ reqs \in [1..n -> Completions]
      /\ \A i \in 1..n :
           /\ reqs[i].prompt = all[i]
           /\ reqs[i].request = <<drawn.train, resampled, i>>
           /\ all[reqs[i].prompt_id] = all[i] /\ reqs[i].turn = 1
  BY <1>1, <1>2, RequestsAre
<1>4. PICK out : out = Turns(k)
  OBVIOUS
<1>5. out \in [1..n + k -> Completions] /\ \A i \in 1..n + k : out[i] = TurnedRequest(reqs, k, i)
  BY <1>1, <1>2, <1>3, <1>4, TurnsAre
<1>6. out \in Seq(Completions) /\ Len(out) = n + k
  BY <1>1, <1>5, FunctionIsSeq
<1>7. ASSUME NEW i \in 1..n + k
      PROVE  /\ out[i].prompt = all[RequestOf(k, i)]
             /\ out[i].request = <<drawn.train, resampled, RequestOf(k, i)>>
             /\ all[out[i].prompt_id] = all[RequestOf(k, i)]
             /\ out[i].turn = TurnOf(k, i)
             /\ RequestOf(k, i) \in 1..n
  <2>1. PICK x \in 1..n : x = RequestOf(k, i)
    BY <1>1, TurnIs
  <2>2. PICK t \in {1, 2} : t = TurnOf(k, i)
    BY <1>1, TurnIs
  <2>3. out[i] = [reqs[x] EXCEPT !.turn = t]
    BY <1>5, <2>1, <2>2 DEF TurnedRequest
  <2>4. reqs[x] \in Completions
    BY <1>3
  <2>5. /\ out[i].prompt = reqs[x].prompt /\ out[i].request = reqs[x].request
        /\ out[i].prompt_id = reqs[x].prompt_id /\ out[i].turn = t
    BY <2>3, <2>4 DEF Completions
  <2>6. QED BY <1>3, <2>1, <2>2, <2>5
<1>8. ASSUME NEW i \in 1..n + k, NEW j \in 1..n + k, out[i] = out[j] PROVE i = j
  <2>1. TurnOf(k, i) = TurnOf(k, j)
    BY <1>7, <1>8
  <2>2. <<drawn.train, resampled, RequestOf(k, i)>> = <<drawn.train, resampled, RequestOf(k, j)>>
    BY <1>7, <1>8
  <2>3. RequestOf(k, i) = RequestOf(k, j)
    BY <2>2
  <2>4. QED BY <1>1, <2>1, <2>3, TurnIs
<1>9. ASSUME NEW i \in 1..n + k PROVE out[i].request[2] = resampled
  BY <1>7
<1>10. ASSUME k = 0, NEW i \in 1..n + k PROVE out[i].prompt = all[i]
  <2>1. RequestOf(k, i) = i
    BY <1>1, <1>10 DEF RequestOf
  <2>2. QED BY <1>7, <2>1
<1>11. ASSUME NEW i \in 1..n + k, NEW j \in 1..n + k, out[i].prompt_id = out[j].prompt_id
       PROVE  out[i].prompt = out[j].prompt
  BY <1>7, <1>11
<1>12. Outputs(out, all, k)
  BY <1>6, <1>8, <1>9, <1>10, <1>11 DEF Outputs
<1>13. QED BY <1>1, <1>4, <1>6, <1>12

LEMMA ScoredIs ==
  ASSUME NEW outputs \in Seq(Completions), NEW varied, NEW n \in Nat, Len(outputs) = n
  PROVE  /\ Scored(outputs, varied) \in Seq(Rewards) /\ Len(Scored(outputs, varied)) = n
         /\ \A i \in 1..n : Scored(outputs, varied)[i].of = outputs[i]
         /\ Of(Scored(outputs, varied)) = outputs
<1> DEFINE Score(i) == IF (i - 1) \div Group \in varied /\ i % Group = 0 THEN 1 ELSE 0
<1>1. DOMAIN outputs = 1..n /\ \A i \in 1..n : outputs[i] \in Completions
  BY LenProperties, ElementOfSeq
<1>2. PICK list : list = Scored(outputs, varied)
  OBVIOUS
<1>3. list = [i \in 1..n |-> [of |-> outputs[i], value |-> Score(i)]]
  BY <1>1, <1>2 DEF Scored
<1>4. \A i \in 1..n : Score(i) \in {0, 1}
  OBVIOUS
<1> HIDE DEF Score
<1>5. list \in [1..n -> Rewards]
  BY <1>1, <1>3, <1>4 DEF Rewards
<1>6. list \in Seq(Rewards) /\ Len(list) = n /\ \A i \in 1..n : list[i].of = outputs[i]
  BY <1>3, <1>5, FunctionIsSeq
<1>7. Of(list) = outputs
  <2>1. Of(list) = [i \in 1..n |-> outputs[i]]
    BY <1>6 DEF Of
  <2>2. Of(list) \in [1..n -> Completions]
    BY <1>1, <2>1
  <2>3. Of(list) \in Seq(Completions) /\ Len(Of(list)) = n
    BY <2>2, FunctionIsSeq
  <2>4. QED BY <1>1, <2>1, <2>3, SeqEqual
<1>8. QED BY <1>2, <1>6, <1>7

LEMMA GenerateIs ==
  ASSUME Generate, Typed, inputs \in [Rank -> Seq(Samples)], \A r \in Rank : Len(inputs[r]) = Local,
         bad = {} => OneSample(AllOf(inputs))
  PROVE  /\ rewards' \in Seq(Rewards) /\ Distinct(rewards') /\ OfRound(rewards', resampled)
         /\ Matched(inputs', rewards')
         /\ mode = "dynamic_sample" => Len(rewards') = Global
         /\ bad = {} => IF Len(rewards') = Global THEN OnePrompt(rewards') ELSE OneIdOnePrompt(rewards')
<1>1. PICK n \in Nat \ {0} : n = Global
  BY Sizes
<1>2. PICK all : all = AllOf(inputs) /\ all \in Seq(Samples) /\ Len(all) = Global
  BY AllOfLists, Sizes
<1>3. \E k \in 0..n : \E varied :
        /\ (mode = "dynamic_sample" => k = 0)
        /\ inputs' = [r \in Rank |-> EvenPart(Turns(k), r, Ranks)]
        /\ rewards' = Scored(Turns(k), varied)
  BY <1>1 DEF Generate
<1>4. PICK k \in 0..n :
        /\ (mode = "dynamic_sample" => k = 0)
        /\ inputs' = [r \in Rank |-> EvenPart(Turns(k), r, Ranks)]
        /\ \E varied : rewards' = Scored(Turns(k), varied)
  BY <1>3
<1>5. PICK out : out = Turns(k)
  OBVIOUS
<1>6. out \in Seq(Completions) /\ Len(out) = n + k /\ Outputs(out, all, k)
  BY <1>1, <1>2, <1>5, OutputsAre
<1>7. PICK list : list = rewards'
  OBVIOUS
<1>8. list \in Seq(Rewards) /\ Len(list) = n + k /\ (\A i \in 1..n + k : list[i].of = out[i]) /\ Of(list) = out
  BY <1>4, <1>5, <1>6, <1>7, ScoredIs
<1>9. Distinct(list) /\ OfRound(list, resampled) /\ OneIdOnePrompt(list)
  <2>1. Len(list) = Len(out) /\ \A i \in 1..Len(list) : list[i].of = out[i]
    BY <1>6, <1>8
  <2>2. Distinct(list)
    BY <1>6, <2>1 DEF Outputs, Distinct
  <2>3. OfRound(list, resampled)
    BY <1>6, <2>1 DEF Outputs, OfRound
  <2>4. OneIdOnePrompt(list)
    BY <1>6, <2>1 DEF Outputs, OneIdOnePrompt
  <2>5. QED BY <2>2, <2>3, <2>4
<1>10. Matched(inputs', list)
  BY <1>4, <1>5, <1>8 DEF Matched
<1>11. mode = "dynamic_sample" => Len(list) = Global
  BY <1>1, <1>4, <1>8
<1>12. ASSUME bad = {}, Len(list) = Global PROVE OnePrompt(list)
  <2>1. k = 0
    BY <1>1, <1>8, <1>12
  <2>2. \A i \in 1..n : list[i].of.prompt = all[i]
    BY <1>6, <1>8, <2>1 DEF Outputs
  <2>3. OneSample(all) /\ Len(list) = n /\ Len(all) = n
    BY <1>1, <1>2, <1>12
  <2>4. QED BY <2>2, <2>3 DEF OneSample, OnePrompt
<1>13. bad = {} => IF Len(list) = Global THEN OnePrompt(list) ELSE OneIdOnePrompt(list)
  BY <1>9, <1>12
<1>14. QED BY <1>7, <1>8, <1>9, <1>10, <1>11, <1>13

-----------------------------------------------------------------------------
(* Collecting the groups that vary.                                         *)
LEMMA GroupFits ==
  ASSUME NEW g \in Nat \ {0}, NEW c \in Nat, NEW e \in Nat, NEW x \in 1..g, e * g + x <= c * g
  PROVE  e < c
<1>1. e * g \in Nat /\ c * g \in Nat
  BY Product
<1>2. c <= e => c * g <= e * g
  BY Monotone
<1>3. QED BY <1>1, <1>2

(* A list of whole groups appended to another is one.                       *)
LEMMA GroupsFollow ==
  ASSUME NEW a, NEW b, NEW w, NEW c \in Nat, NEW d \in Nat,
         Len(a) = c * Group, Len(b) = d * Group, Follows(w, a, b, c * Group, d * Group)
  PROVE  /\ AllVary(a) /\ AllVary(b) => AllVary(w)
         /\ OnePrompt(a) /\ OnePrompt(b) => OnePrompt(w)
<1>1. Group \in Nat \ {0} /\ Group \in 1..Group
  BY Sizes
<1>2. PICK l \in Nat, k \in Nat : l = c * Group /\ k = d * Group /\ (c + d) * Group = l + k
  BY <1>1, Product, Distribute
<1>3. /\ Len(a) = l /\ Len(b) = k /\ Len(w) = l + k
      /\ \A i \in 1..l + k : w[i] = IF i <= l THEN a[i] ELSE b[i - l]
  BY <1>1, <1>2 DEF Follows
<1>4. ASSUME NEW e \in Nat, e < c, NEW x \in 1..Group
      PROVE  e * Group + x \in 1..l /\ w[e * Group + x] = a[e * Group + x]
  <2>1. e * Group + x \in 1..Group * c
    BY <1>1, <1>4, SpotIs
  <2>2. Group * c = l
    BY <1>1, <1>2
  <2>3. PICK p \in 1..l : p = e * Group + x
    BY <2>1, <2>2
  <2>4. w[p] = a[p]
    BY <1>3, <2>3
  <2>5. QED BY <2>3, <2>4
<1>5. ASSUME NEW f \in Nat, f < d, NEW x \in 1..Group
      PROVE  f * Group + x \in 1..k /\ w[(c + f) * Group + x] = b[f * Group + x]
  <2>1. f * Group + x \in 1..Group * d
    BY <1>1, <1>5, SpotIs
  <2>2. Group * d = k
    BY <1>1, <1>2
  <2>3. PICK p \in 1..k : p = f * Group + x
    BY <2>1, <2>2
  <2>4. (c + f) * Group = l + f * Group /\ f * Group \in Nat
    BY <1>1, <1>2, Distribute, Product
  <2>5. (c + f) * Group + x = l + p
    BY <2>3, <2>4
  <2>6. w[l + p] = b[p]
    BY <1>3, <2>3, Beyond
  <2>7. QED BY <2>3, <2>5, <2>6
<1>6. ASSUME NEW e \in Nat, NEW x \in 1..Group, e * Group + x <= l + k
      PROVE  e < c \/ \E f \in Nat : f < d /\ e = c + f
  <2>1. e < c + d
    BY <1>1, <1>2, <1>6, GroupFits
  <2>2. ~(e < c) => e - c \in Nat /\ e - c < d /\ e = c + (e - c)
    BY <2>1
  <2>3. QED BY <2>2
<1>7. ASSUME NEW e \in Nat PROVE e * Group \in Nat
  BY <1>1, Product
<1>8. ASSUME AllVary(a), AllVary(b) PROVE AllVary(w)
  <2> SUFFICES ASSUME NEW e \in Nat, e * Group + Group <= Len(w)
               PROVE  \E x, y \in 1..Group : w[e * Group + x].value # w[e * Group + y].value
    BY DEF AllVary
  <2>1. CASE e < c
    <3>1. e * Group + Group \in 1..l
      BY <1>1, <1>4, <2>1
    <3>2. e * Group + Group <= Len(a)
      BY <1>3, <3>1
    <3>3. PICK x \in 1..Group, y \in 1..Group : a[e * Group + x].value # a[e * Group + y].value
      BY <1>8, <3>2 DEF AllVary
    <3>4. w[e * Group + x] = a[e * Group + x] /\ w[e * Group + y] = a[e * Group + y]
      BY <1>4, <2>1, <3>3
    <3>5. QED BY <3>3, <3>4
  <2>2. CASE \E f \in Nat : f < d /\ e = c + f
    <3>1. PICK f \in Nat : f < d /\ e = c + f
      BY <2>2
    <3>2. f * Group + Group \in 1..k
      BY <1>1, <1>5, <3>1
    <3>3. f * Group + Group <= Len(b)
      BY <1>3, <3>2
    <3>4. PICK x \in 1..Group, y \in 1..Group : b[f * Group + x].value # b[f * Group + y].value
      BY <1>8, <3>1, <3>3 DEF AllVary
    <3>5. w[e * Group + x] = b[f * Group + x] /\ w[e * Group + y] = b[f * Group + y]
      BY <1>5, <3>1, <3>4
    <3>6. QED BY <3>4, <3>5
  <2>3. e * Group + Group <= l + k /\ Group \in 1..Group
    BY <1>1, <1>3
  <2>4. QED BY <1>6, <2>1, <2>2, <2>3
<1>9. ASSUME OnePrompt(a), OnePrompt(b) PROVE OnePrompt(w)
  <2> SUFFICES ASSUME NEW e \in Nat, NEW x \in 1..Group, NEW y \in 1..Group,
                      e * Group + x \in 1..Len(w), e * Group + y \in 1..Len(w)
               PROVE  w[e * Group + x].of.prompt = w[e * Group + y].of.prompt
    BY DEF OnePrompt
  <2>1. CASE e < c
    <3>1. /\ e * Group + x \in 1..Len(a) /\ e * Group + y \in 1..Len(a)
          /\ w[e * Group + x] = a[e * Group + x] /\ w[e * Group + y] = a[e * Group + y]
      BY <1>3, <1>4, <2>1
    <3>2. a[e * Group + x].of.prompt = a[e * Group + y].of.prompt
      BY <1>9, <3>1 DEF OnePrompt
    <3>3. QED BY <3>1, <3>2
  <2>2. CASE \E f \in Nat : f < d /\ e = c + f
    <3>1. PICK f \in Nat : f < d /\ e = c + f
      BY <2>2
    <3>2. /\ f * Group + x \in 1..Len(b) /\ f * Group + y \in 1..Len(b)
          /\ w[e * Group + x] = b[f * Group + x] /\ w[e * Group + y] = b[f * Group + y]
      BY <1>3, <1>5, <3>1
    <3>3. b[f * Group + x].of.prompt = b[f * Group + y].of.prompt
      BY <1>9, <3>1, <3>2 DEF OnePrompt
    <3>4. QED BY <3>2, <3>3
  <2>3. e * Group + x <= l + k
    BY <1>3
  <2>4. QED BY <1>6, <2>1, <2>2, <2>3
<1>10. QED BY <1>8, <1>9

LEMMA RewardOf ==
  ASSUME NEW list \in Seq(ValidSamples), NEW i \in 1..Len(list)
  PROVE  list[i] \in ValidSamples /\ list[i].reward \in Rewards
<1>1. list[i] \in ValidSamples
  BY ElementOfSeq
<1>2. QED BY <1>1 DEF ValidSamples

(* What a round adds to the valid samples leaves these as they must be.     *)
LEMMA Concatenated ==
  ASSUME NEW u, NEW v, Kept(u), Kept(v), NEW k \in Nat,
         \A i \in 1..Len(u) : u[i].sample.request[2] < k,
         \A i \in 1..Len(v) : v[i].sample.request[2] = k
  PROVE  Kept(u \o v) /\ \A i \in 1..Len(u \o v) : (u \o v)[i].sample.request[2] < k + 1
<1>1. PICK c \in Nat, d \in Nat : Len(u) = c * Group /\ Len(v) = d * Group
  BY DEF Kept
<1>2. PICK l \in Nat, m \in Nat : l = c * Group /\ m = d * Group
  BY Sizes, Product
<1>3. PICK w : w = u \o v
  OBVIOUS
<1>4. u \in Seq(ValidSamples) /\ v \in Seq(ValidSamples) /\ Len(u) = l /\ Len(v) = m
  BY <1>1, <1>2 DEF Kept
<1>5. w \in Seq(ValidSamples) /\ Follows(w, u, v, l, m)
  BY <1>3, <1>4, Appended
<1>6. Len(w) = l + m /\ \A i \in 1..l + m : w[i] = IF i <= l THEN u[i] ELSE v[i - l]
  BY <1>5 DEF Follows
<1>7. Len(w) = (c + d) * Group /\ c + d \in Nat
  BY <1>2, <1>6, Sizes, Distribute
<1>8. ASSUME NEW i \in 1..l + m
      PROVE  \/ i \in 1..l /\ w[i] = u[i]
             \/ ~(i \in 1..l) /\ i - l \in 1..m /\ w[i] = v[i - l]
  BY <1>6
<1>9. /\ \A i \in 1..l : u[i].sample = u[i].reward.of /\ u[i].sample.request[2] < k
      /\ \A i \in 1..m : v[i].sample = v[i].reward.of /\ v[i].sample.request[2] = k
  BY <1>4 DEF Kept
<1>10. \A i \in 1..l + m : w[i].sample = w[i].reward.of
  BY <1>8, <1>9
<1>11. ASSUME NEW i \in 1..l + m PROVE w[i].sample.request[2] < k + 1
  <2>1. CASE i \in 1..l /\ w[i] = u[i]
    <3>1. u[i] \in ValidSamples
      BY <1>4, <2>1, ElementOfSeq
    <3>2. w[i].sample.request[2] \in Nat /\ w[i].sample.request[2] < k
      BY <1>9, <2>1, <3>1 DEF ValidSamples, Completions
    <3>3. QED BY <3>2
  <2>2. CASE i - l \in 1..m /\ w[i] = v[i - l]
    BY <1>9, <2>2
  <2>3. QED BY <1>8, <2>1, <2>2
<1>12. PICK a, b, z : a = RewardsIn(u) /\ b = RewardsIn(v) /\ z = RewardsIn(w)
  OBVIOUS
<1>13. a = [i \in 1..l |-> u[i].reward] /\ b = [i \in 1..m |-> v[i].reward] /\ z = [i \in 1..l + m |-> w[i].reward]
  BY <1>4, <1>6, <1>12 DEF RewardsIn
<1>14. /\ Len(a) = l /\ Len(b) = m /\ Len(z) = l + m
  <2>1. \A i \in 1..l : u[i].reward \in Rewards
    BY <1>4, RewardOf
  <2>2. \A i \in 1..m : v[i].reward \in Rewards
    BY <1>4, RewardOf
  <2>3. \A i \in 1..l + m : w[i].reward \in Rewards
    BY <1>5, <1>6, RewardOf
  <2>4. a \in [1..l -> Rewards] /\ b \in [1..m -> Rewards] /\ z \in [1..l + m -> Rewards]
    BY <1>13, <2>1, <2>2, <2>3
  <2>5. l + m \in Nat
    OBVIOUS
  <2>6. QED BY <2>4, <2>5, FunctionIsSeq
<1>15. Follows(z, a, b, l, m)
  <2>1. ASSUME NEW i \in 1..l + m PROVE z[i] = IF i <= l THEN a[i] ELSE b[i - l]
    <3>1. z[i] = w[i].reward
      BY <1>13
    <3>2. CASE i \in 1..l /\ w[i] = u[i]
      <4>1. a[i] = u[i].reward /\ i <= l
        BY <1>13, <3>2
      <4>2. QED BY <3>1, <3>2, <4>1
    <3>3. CASE ~(i \in 1..l) /\ i - l \in 1..m /\ w[i] = v[i - l]
      <4>1. b[i - l] = v[i - l].reward /\ ~(i <= l)
        BY <1>13, <3>3
      <4>2. QED BY <3>1, <3>3, <4>1
    <3>4. QED BY <1>8, <3>2, <3>3
  <2>2. QED BY <1>14, <2>1 DEF Follows
<1>16. Distinct(a) /\ Distinct(b) /\ AllVary(a) /\ AllVary(b) /\ (bad = {} => OnePrompt(a) /\ OnePrompt(b))
  BY <1>12 DEF Kept
<1>17. AllVary(z) /\ (bad = {} => OnePrompt(z))
  BY <1>2, <1>14, <1>15, <1>16, GroupsFollow
<1>18. Distinct(z)
  <2> SUFFICES ASSUME NEW i \in 1..l + m, NEW j \in 1..l + m, z[i].of = z[j].of PROVE i = j
    BY <1>14 DEF Distinct
  <2>1. z[i] = w[i].reward /\ z[j] = w[j].reward
    BY <1>13
  <2>2. w[i].sample = w[j].sample
    BY <1>10, <2>1
  <2>3. CASE i \in 1..l /\ j \in 1..l
    <3>1. a[i].of = a[j].of
      BY <1>8, <1>13, <2>1, <2>3
    <3>2. QED BY <1>14, <1>16, <2>3, <3>1 DEF Distinct
  <2>4. CASE ~(i \in 1..l) /\ ~(j \in 1..l)
    <3>1. i - l \in 1..m /\ j - l \in 1..m /\ w[i] = v[i - l] /\ w[j] = v[j - l]
      BY <1>8, <2>4
    <3>2. b[i - l].of = b[j - l].of
      BY <1>13, <2>1, <3>1
    <3>3. i - l = j - l
      BY <1>14, <1>16, <3>1, <3>2 DEF Distinct
    <3>4. QED BY <3>3
  <2>5. ASSUME NEW x \in 1..l + m, NEW y \in 1..l + m, x \in 1..l, ~(y \in 1..l)
        PROVE  w[x].sample # w[y].sample
    <3>1. w[x] = u[x] /\ y - l \in 1..m /\ w[y] = v[y - l]
      BY <1>8, <2>5
    <3>2. u[x].sample.request[2] < k
      BY <1>9, <2>5
    <3>3. v[y - l].sample.request[2] = k
      BY <1>9, <3>1
    <3>4. ~(k < k)
      OBVIOUS
    <3>5. u[x].sample # v[y - l].sample
      BY <3>2, <3>3, <3>4
    <3>6. QED BY <3>1, <3>5
  <2>6. QED BY <2>2, <2>3, <2>4, <2>5
<1>19. Kept(w)
  BY <1>5, <1>6, <1>7, <1>10, <1>12, <1>17, <1>18 DEF Kept
<1>20. QED BY <1>3, <1>6, <1>11, <1>19

VariedAt == {i \in 1..Global : Varied(rewards, i)}

(* The places that are kept are whole groups, because a group varies as one.*)
LEMMA MeasuredIs ==
  ASSUME rewards \in Seq(Rewards), Len(rewards) = Global
  PROVE  Measured \in Seq(Nat) /\ \E c, q \in Nat : \E h : InGroups(Measured, c, h, VariedAt, Group, q)
<1>1. PICK q \in Nat \ {0}, n \in Nat : n = Global /\ n = Group * q
  BY Groups, Sizes
<1>2. Group \in Nat \ {0} /\ DOMAIN rewards = 1..n
  BY <1>1, Sizes, LenProperties
<1>3. Measured = Among([i \in 1..n |-> i], VariedAt)
  BY <1>1, <1>2 DEF Measured, VariedAt
<1>4. KeepsGroups(VariedAt, Group)
  <2>1. ASSUME NEW b \in Nat, NEW x \in 1..Group, NEW y \in 1..Group, b * Group + x \in VariedAt
        PROVE  b * Group + y \in VariedAt
    <3>1. PICK i : i = b * Group + x /\ i \in 1..n /\ Varied(rewards, i)
      BY <1>1, <2>1 DEF VariedAt
    <3>2. PICK j : j = b * Group + y
      OBVIOUS
    <3>3. (i - 1) \div Group = b /\ (j - 1) \div Group = b
      BY <1>2, <3>1, <3>2, SpotIs
    <3>4. b < q
      <4>1. b * Group + x <= q * Group
        BY <1>1, <1>2, <3>1
      <4>2. QED BY <1>1, <1>2, <4>1, GroupFits
    <3>5. j \in 1..n
      BY <1>1, <1>2, <3>2, <3>4, SpotIs
    <3>6. Varied(rewards, j)
      BY <3>1, <3>3 DEF Varied
    <3>7. QED BY <1>1, <3>2, <3>5, <3>6 DEF VariedAt
  <2>2. QED BY <2>1 DEF KeepsGroups
<1>5. QED BY <1>1, <1>2, <1>3, <1>4, AmongGroups

LEMMA VariedGroup ==
  ASSUME NEW b \in Nat, b * Group + 1 \in VariedAt
  PROVE  \E x, y \in 1..Group : rewards[b * Group + x].value # rewards[b * Group + y].value
<1>1. PICK g \in Nat \ {0}, a \in Nat : g = Group /\ a = b * g /\ (b + 1) * g = a + g
  BY Sizes, Product, Successor
<1>2. ((b * g + 1) - 1) \div g = b
  BY SpotIs
<1>3. Varied(rewards, b * g + 1)
  BY <1>1 DEF VariedAt
<1>4. PICK j \in b * g + 1..(b + 1) * g, k \in b * g + 1..(b + 1) * g :
        rewards[j].value # rewards[k].value
  BY <1>1, <1>2, <1>3 DEF Varied
<1>5. j \in a + 1..a + g /\ k \in a + 1..a + g
  BY <1>1, <1>4
<1>6. PICK x \in 1..g, y \in 1..g : j = a + x /\ k = a + y
  <2>1. j - a \in 1..g /\ k - a \in 1..g /\ j = a + (j - a) /\ k = a + (k - a)
    BY <1>5
  <2>2. QED BY <2>1
<1>7. QED BY <1>1, <1>4, <1>6

BlockOf(all, kept) == [t \in DOMAIN kept |-> [sample |-> all[kept[t]], reward |-> rewards[kept[t]]]]

HasSpot(t, g, c) == \E b \in Nat, x \in 1..g : b < c /\ t = b * g + x

LEMMA SpotIn ==
  ASSUME NEW g, g \in Nat \ {0}, NEW c \in Nat, NEW t, t \in 1..g * c
  PROVE  HasSpot(t, g, c)
<1>1. PICK b \in Nat, x \in 1..g : b < c /\ t = b * g + x /\ (t - 1) \div g = b
  BY SpotOf
<1>2. QED BY <1>1 DEF HasSpot

(* What a round adds: whole groups that vary, every sample with its own     *)
(* reward.                                                                  *)
LEMMA BlockIs ==
  ASSUME rewards \in Seq(Rewards), Len(rewards) = Global, Distinct(rewards), bad = {} => OnePrompt(rewards),
         NEW all, \A i \in 1..Global : all[i] = rewards[i].of,
         NEW kept \in Seq(Nat), NEW c \in Nat, NEW q \in Nat, NEW h,
         InGroups(kept, c, h, VariedAt, Group, q)
  PROVE  /\ Kept(BlockOf(all, kept))
         /\ \A t \in 1..Len(BlockOf(all, kept)) :
              \E i \in 1..Global : BlockOf(all, kept)[t].sample = rewards[i].of
<1>1. PICK n \in Nat : n = Global
  BY Sizes
<1>2. Group \in Nat \ {0} /\ 1 \in 1..Group
  BY Sizes
<1>3. PICK m \in Nat : m = c * Group /\ m = Group * c
  BY <1>2, Product
<1>4. /\ h \in [0..c - 1 -> 0..q - 1]
      /\ \A b, d \in 0..c - 1 : b < d => h[b] < h[d]
      /\ Len(kept) = m
      /\ \A b \in 0..c - 1 : \A x \in 1..Group :
           h[b] * Group + x \in VariedAt /\ kept[b * Group + x] = h[b] * Group + x
  BY <1>3 DEF InGroups
<1>5. DOMAIN kept = 1..m
  BY <1>4, LenProperties
<1>6. ASSUME NEW t \in 1..m
      PROVE  \E b \in Nat, x \in 1..Group : b < c /\ b \in 0..c - 1 /\ t = b * Group + x
  <2>1. t \in 1..Group * c
    BY <1>3
  <2>2. HasSpot(t, Group, c)
    BY <1>2, <2>1, SpotIn
  <2>3. \A b \in Nat : b < c => b \in 0..c - 1
    OBVIOUS
  <2>4. QED BY <2>2, <2>3 DEF HasSpot
<1>7. ASSUME NEW t \in 1..m PROVE kept[t] \in 1..n
  <2>1. PICK b \in Nat, x \in 1..Group : b < c /\ b \in 0..c - 1 /\ t = b * Group + x
    BY <1>6
  <2>2. kept[t] \in VariedAt
    BY <1>4, <2>1
  <2>3. QED BY <1>1, <2>2 DEF VariedAt
<1>8. ASSUME NEW t \in 1..m, NEW u \in 1..m, kept[t] = kept[u] PROVE t = u
  <2>1. PICK b \in Nat, x \in 1..Group : b < c /\ b \in 0..c - 1 /\ t = b * Group + x
    BY <1>6
  <2>2. PICK d \in Nat, y \in 1..Group : d < c /\ d \in 0..c - 1 /\ u = d * Group + y
    BY <1>6
  <2>3. h[b] * Group + x = h[d] * Group + y
    BY <1>4, <1>8, <2>1, <2>2
  <2>4. h[b] \in Nat /\ h[d] \in Nat
    BY <1>4, <2>1, <2>2
  <2>5. h[b] = h[d] /\ x = y
    <3>1. PICK v \in Nat, w \in Nat : v = h[b] /\ w = h[d] /\ v * Group + x = w * Group + y
      BY <2>3, <2>4
    <3>2. ((v * Group + x) - 1) \div Group = v /\ ((w * Group + y) - 1) \div Group = w
      BY <1>2, <2>1, <2>2, <3>1, SpotIs
    <3>3. v = w
      BY <3>1, <3>2
    <3>4. PICK z \in Nat : z = v * Group /\ z + x = z + y
      BY <1>2, <3>1, <3>3, Product
    <3>5. x = y
      <4>1. x \in Int /\ y \in Int /\ z \in Int /\ z + x = z + y
        BY <1>2, <2>1, <2>2, <3>4
      <4>2. QED BY <4>1
    <3>6. QED BY <3>1, <3>3, <3>5
  <2>6. ~(b < d) /\ ~(d < b)
    <3>1. (b < d => h[b] < h[d]) /\ (d < b => h[d] < h[b])
      BY <1>4, <2>1, <2>2
    <3>2. ~(h[b] < h[d]) /\ ~(h[d] < h[b])
      BY <2>4, <2>5
    <3>3. QED BY <3>1, <3>2
  <2>7. b = d
    BY <2>6
  <2>8. QED BY <2>1, <2>2, <2>5, <2>7
<1>9. PICK block : block = BlockOf(all, kept)
  OBVIOUS
<1>10. block = [t \in 1..m |-> [sample |-> all[kept[t]], reward |-> rewards[kept[t]]]]
  BY <1>5, <1>9 DEF BlockOf
<1>11. ASSUME NEW t \in 1..m
       PROVE  /\ block[t] \in ValidSamples /\ block[t].reward = rewards[kept[t]]
              /\ block[t].sample = rewards[kept[t]].of
  <2>1. kept[t] \in 1..n /\ kept[t] \in 1..Len(rewards)
    BY <1>1, <1>7
  <2>2. rewards[kept[t]] \in Rewards
    BY <2>1, ElementOfSeq
  <2>3. rewards[kept[t]].of \in Completions
    BY <2>2 DEF Rewards
  <2>4. all[kept[t]] = rewards[kept[t]].of
    BY <1>1, <2>1
  <2>5. block[t] = [sample |-> rewards[kept[t]].of, reward |-> rewards[kept[t]]]
    BY <1>10, <2>4
  <2>6. QED BY <2>2, <2>3, <2>5 DEF ValidSamples
<1>12. block \in Seq(ValidSamples) /\ Len(block) = m
  <2>1. block \in [1..m -> ValidSamples]
    BY <1>10, <1>11
  <2>2. QED BY <2>1, FunctionIsSeq
<1>13. PICK list : list = RewardsIn(block)
  OBVIOUS
<1>14. list = [t \in 1..m |-> rewards[kept[t]]]
  BY <1>11, <1>12, <1>13 DEF RewardsIn
<1>15. list \in Seq(Rewards) /\ Len(list) = m
  <2>1. \A t \in 1..m : rewards[kept[t]] \in Rewards
    BY <1>1, <1>7, ElementOfSeq
  <2>2. list \in [1..m -> Rewards]
    BY <1>14, <2>1
  <2>3. QED BY <2>2, FunctionIsSeq
<1>16. ASSUME NEW b \in Nat, b < c, NEW x \in 1..Group
       PROVE  b * Group + x \in 1..m /\ list[b * Group + x] = rewards[h[b] * Group + x]
  <2>1. b * Group + x \in 1..m /\ b \in 0..c - 1
    <3>1. b * Group + x \in 1..Group * c
      BY <1>2, <1>16, SpotIs
    <3>2. b \in 0..c - 1
      BY <1>16
    <3>3. QED BY <1>3, <3>1, <3>2
  <2>2. QED BY <1>4, <1>14, <2>1
<1>17. ASSUME NEW b \in Nat, NEW x \in 1..Group, b * Group + x <= m
       PROVE  b < c
  BY <1>2, <1>3, <1>17, GroupFits
<1>18. AllVary(list)
  <2> SUFFICES ASSUME NEW b \in Nat, b * Group + Group <= Len(list)
               PROVE  \E x, y \in 1..Group : list[b * Group + x].value # list[b * Group + y].value
    BY DEF AllVary
  <2>1. b < c /\ b \in 0..c - 1
    <3>1. Group \in 1..Group /\ b * Group + Group <= m
      BY <1>2, <1>15
    <3>2. b < c
      BY <1>17, <3>1
    <3>3. QED BY <3>2
  <2>2. h[b] \in Nat /\ h[b] * Group + 1 \in VariedAt
    BY <1>2, <1>4, <2>1
  <2>3. PICK x \in 1..Group, y \in 1..Group :
          rewards[h[b] * Group + x].value # rewards[h[b] * Group + y].value
    BY <2>2, VariedGroup
  <2>4. /\ list[b * Group + x] = rewards[h[b] * Group + x]
        /\ list[b * Group + y] = rewards[h[b] * Group + y]
    BY <1>16, <2>1
  <2>5. QED BY <2>3, <2>4
<1>19. ASSUME bad = {} PROVE OnePrompt(list)
  <2> SUFFICES ASSUME NEW b \in Nat, NEW x \in 1..Group, NEW y \in 1..Group,
                      b * Group + x \in 1..Len(list), b * Group + y \in 1..Len(list)
               PROVE  list[b * Group + x].of.prompt = list[b * Group + y].of.prompt
    BY DEF OnePrompt
  <2>1. b * Group + x <= m
    BY <1>15
  <2>2. b < c /\ b \in 0..c - 1
    <3>1. b < c
      BY <1>17, <2>1
    <3>2. QED BY <3>1
  <2>3. h[b] \in Nat /\ h[b] * Group + x \in 1..Len(rewards) /\ h[b] * Group + y \in 1..Len(rewards)
    <3>1. h[b] * Group + x \in VariedAt /\ h[b] * Group + y \in VariedAt /\ h[b] \in Nat
      BY <1>4, <2>2
    <3>2. QED BY <3>1 DEF VariedAt
  <2>4. rewards[h[b] * Group + x].of.prompt = rewards[h[b] * Group + y].of.prompt
    BY <1>19, <2>3 DEF OnePrompt
  <2>5. QED BY <1>16, <2>2, <2>4
<1>20. Distinct(list)
  <2> SUFFICES ASSUME NEW i \in 1..m, NEW j \in 1..m, list[i].of = list[j].of PROVE i = j
    BY <1>15 DEF Distinct
  <2>1. rewards[kept[i]].of = rewards[kept[j]].of
    BY <1>14
  <2>2. kept[i] \in 1..Len(rewards) /\ kept[j] \in 1..Len(rewards)
    BY <1>1, <1>7
  <2>3. kept[i] = kept[j]
    BY <2>1, <2>2 DEF Distinct
  <2>4. QED BY <1>8, <2>3
<1>21. \A i \in 1..m : block[i].sample = block[i].reward.of
  BY <1>11
<1>22. Kept(block)
  BY <1>3, <1>12, <1>13, <1>18, <1>19, <1>20, <1>21 DEF Kept
<1>23. \A t \in 1..m : \E i \in 1..n : block[t].sample = rewards[i].of
  BY <1>7, <1>11
<1>24. QED BY <1>1, <1>9, <1>12, <1>22, <1>23

-----------------------------------------------------------------------------
(* The steps that make a generation.                                        *)
LEMMA EmptyKept == Kept(<< >>) /\ Len(<< >>) = 0
<1>1. << >> \in Seq(ValidSamples) /\ Len(<< >>) = 0
  BY EmptySeq
<1>2. Len(<< >>) = 0 * Group
  BY <1>1, Sizes
<1>3. PICK list : list = RewardsIn(<< >>)
  OBVIOUS
<1>4. list = [i \in 1..0 |-> << >>[i].reward]
  BY <1>1, <1>3 DEF RewardsIn
<1>5. list \in [1..0 -> Rewards]
  BY <1>4
<1>6. Len(list) = 0
  BY <1>5, FunctionIsSeq
<1>7. ASSUME NEW b \in Nat PROVE ~(b * Group + Group <= 0)
  <2>1. b * Group \in Nat /\ Group \in Nat \ {0}
    BY Sizes, Product
  <2>2. QED BY <2>1
<1>8. Distinct(list) /\ AllVary(list) /\ OnePrompt(list)
  BY <1>6, <1>7 DEF Distinct, AllVary, OnePrompt
<1>9. \A i \in 1..Len(<< >>) : << >>[i].sample = << >>[i].reward.of
  BY <1>1
<1>10. QED BY <1>1, <1>2, <1>3, <1>8, <1>9 DEF Kept

LEMMA DrawStep == ASSUME GenerationInv, Draw PROVE GenerationInv'
<1>1. /\ phase = "idle" /\ inputs' = Shard(DataBatch("train", drawn.train))
      /\ drawn' = [drawn EXCEPT !.train = @ + 1] /\ valid' = << >> /\ resampled' = 0
      /\ phase' = "encode"
      /\ UNCHANGED <<mode, bad, step, singles, rewards, origin, buffer, trained>>
  BY DEF Draw
<1>2. Typed'
  BY <1>1 DEF GenerationInv, Typed
<1>3. drawn.train \in Nat
  BY DEF GenerationInv, Typed
<1>4. Prompting'
  BY <1>1, <1>3, DrawIs DEF Prompting
<1>5. Scoring' /\ FirstBatch' /\ ChosenBatch'
  BY <1>1 DEF Scoring, FirstBatch, ChosenBatch
<1>6. Collecting'
  <2>1. Kept(<< >>)' /\ Len(<< >>) = 0
    BY <1>1, EmptyKept DEF Kept
  <2>2. Kept(valid)' /\ Len(valid') = 0
    BY <1>1, <2>1
  <2>3. QED BY <1>1, <2>2, Sizes DEF Collecting
<1>7. QED BY <1>2, <1>4, <1>5, <1>6 DEF GenerationInv

LEMMA EncodeStep == ASSUME GenerationInv, ReplaceFailed PROVE GenerationInv'
<1>1. /\ phase = "encode" /\ phase' = "generate"
      /\ UNCHANGED <<mode, bad, step, drawn, rewards, origin, valid, resampled, buffer, trained>>
  BY DEF ReplaceFailed
<1>2. /\ inputs \in [Rank -> Seq(Samples)] /\ \A r \in Rank : Len(inputs[r]) = Local
      /\ OneSample(AllOf(inputs)) /\ singles \in [Rank -> Nat]
  BY <1>1 DEF GenerationInv, Prompting, Typed
<1>3. /\ inputs' \in [Rank -> Seq(Samples)] /\ \A r \in Rank : Len(inputs'[r]) = Local
      /\ bad = {} => inputs' = inputs
      /\ singles' \in [Rank -> Nat]
  BY <1>2, EncodeIs
<1>4. Typed'
  BY <1>1, <1>3 DEF GenerationInv, Typed
<1>5. Prompting'
  BY <1>1, <1>2, <1>3 DEF Prompting
<1>6. Scoring' /\ ChosenBatch'
  BY <1>1 DEF GenerationInv, Scoring, ChosenBatch
<1>7. FirstBatch'
  BY <1>1 DEF GenerationInv, FirstBatch, Sound
<1>8. Collecting'
  BY <1>1 DEF GenerationInv, Collecting, Kept
<1>9. QED BY <1>4, <1>5, <1>6, <1>7, <1>8 DEF GenerationInv

LEMMA GenerateStep == ASSUME GenerationInv, Generate PROVE GenerationInv'
<1>1. /\ phase = "generate" /\ phase' = IF mode = "dynamic_sample" THEN "measure" ELSE "prepare"
      /\ UNCHANGED <<mode, bad, step, drawn, singles, valid, resampled, buffer, trained>>
  BY DEF Generate
<1>2. origin' = IF resampled = 0 THEN [inputs |-> inputs', rewards |-> rewards'] ELSE origin
  BY DEF Generate
<1>3. /\ inputs \in [Rank -> Seq(Samples)] /\ \A r \in Rank : Len(inputs[r]) = Local
      /\ bad = {} => OneSample(AllOf(inputs))
  BY <1>1 DEF GenerationInv, Prompting
<1>4. /\ rewards' \in Seq(Rewards) /\ Distinct(rewards') /\ OfRound(rewards', resampled)
      /\ Matched(inputs', rewards')
      /\ mode = "dynamic_sample" => Len(rewards') = Global
      /\ bad = {} => IF Len(rewards') = Global THEN OnePrompt(rewards') ELSE OneIdOnePrompt(rewards')
  BY <1>3, GenerateIs DEF GenerationInv
<1>5. Sound(inputs, rewards)'
  BY <1>1, <1>4 DEF Sound
<1>6. Typed'
  BY <1>1 DEF GenerationInv, Typed
<1>7. Prompting'
  BY <1>1 DEF Prompting
<1>8. Scoring'
  BY <1>1, <1>4, <1>5 DEF GenerationInv, Scoring
<1>9. FirstBatch'
  <2>1. CASE resampled = 0
    <3>1. origin'.inputs = inputs' /\ origin'.rewards = rewards' /\ OfRound(rewards', 0)
      BY <1>2, <1>4, <2>1
    <3>2. Sound(origin.inputs, origin.rewards)'
      BY <1>5, <3>1 DEF Sound
    <3>3. QED BY <3>1, <3>2 DEF FirstBatch
  <2>2. CASE resampled # 0
    <3>1. resampled > 0 /\ origin' = origin
      BY <1>2, <2>2 DEF GenerationInv, Typed
    <3>2. Sound(origin.inputs, origin.rewards) /\ OfRound(origin.rewards, 0)
      BY <3>1 DEF GenerationInv, FirstBatch
    <3>3. QED BY <1>1, <3>1, <3>2 DEF FirstBatch, Sound
  <2>3. QED BY <2>1, <2>2
<1>10. Collecting'
  BY <1>1 DEF GenerationInv, Collecting, Kept
<1>11. ChosenBatch'
  BY <1>1 DEF ChosenBatch
<1>12. QED BY <1>6, <1>7, <1>8, <1>9, <1>10, <1>11 DEF GenerationInv

LEMMA OfIs ==
  ASSUME NEW list \in Seq(Rewards)
  PROVE  /\ Of(list) \in Seq(Completions) /\ Len(Of(list)) = Len(list)
         /\ \A i \in 1..Len(list) : Of(list)[i] = list[i].of
<1>1. PICK n \in Nat : n = Len(list)
  BY LenProperties
<1>2. \A i \in 1..n : list[i].of \in Completions
  <2>1. \A i \in 1..n : list[i] \in Rewards
    BY <1>1, ElementOfSeq
  <2>2. QED BY <2>1 DEF Rewards
<1>3. Of(list) = [i \in 1..n |-> list[i].of]
  BY <1>1 DEF Of
<1>4. Of(list) \in [1..n -> Completions]
  BY <1>2, <1>3
<1>5. Of(list) \in Seq(Completions) /\ Len(Of(list)) = n
  BY <1>4, FunctionIsSeq
<1>6. QED BY <1>1, <1>3, <1>5

(* all_inputs has the samples in the order of the rewards.                  *)
LEMMA Gathered ==
  ASSUME NEW list \in Seq(Rewards), NEW lists, Matched(lists, list)
  PROVE  AllOf(lists) = Of(list)
<1>1. \A r \in Rank : lists[r] = EvenPart(Of(list), r, Ranks)
  BY DEF Matched
<1>2. Of(list) \in Seq(Completions)
  BY OfIs
<1>3. QED BY <1>1, <1>2, Sizes, AllOfParts

LEMMA MeasuredKept ==
  ASSUME GenerationInv, Measure
  PROVE  /\ Kept(valid') /\ Len(valid') \in Nat
         /\ \A i \in 1..Len(valid') : valid'[i].sample.request[2] < resampled + 1
<1>1. /\ phase = "measure"
      /\ valid' = valid \o BlockOf(AllOf(inputs), Measured)
  BY DEF Measure, BlockOf
<1>2. /\ rewards \in Seq(Rewards) /\ Len(rewards) = Global /\ Distinct(rewards)
      /\ bad = {} => OnePrompt(rewards)
      /\ Matched(inputs, rewards) /\ OfRound(rewards, resampled) /\ resampled \in Nat
  BY <1>1 DEF GenerationInv, Scoring, Sound, Typed
<1>3. PICK all : all = AllOf(inputs) /\ all = Of(rewards)
  BY <1>2, Gathered
<1>4. \A i \in 1..Global : all[i] = rewards[i].of
  BY <1>2, <1>3, OfIs
<1>5. PICK kept \in Seq(Nat) : kept = Measured /\ \E c, q \in Nat : \E h : InGroups(kept, c, h, VariedAt, Group, q)
  BY <1>2, MeasuredIs
<1>6. PICK c \in Nat, q \in Nat : \E h : InGroups(kept, c, h, VariedAt, Group, q)
  BY <1>5
<1>h. PICK h : InGroups(kept, c, h, VariedAt, Group, q)
  BY <1>6
<1>7. PICK block : block = BlockOf(all, kept)
  OBVIOUS
<1>8. /\ Kept(block)
      /\ \A t \in 1..Len(block) : \E i \in 1..Global : block[t].sample = rewards[i].of
  <2>1. Kept(BlockOf(all, kept)) /\ \A t \in 1..Len(BlockOf(all, kept)) :
          \E i \in 1..Global : BlockOf(all, kept)[t].sample = rewards[i].of
    BY <1>2, <1>4, <1>5, <1>6, <1>h, BlockIs
  <2>2. QED BY <1>7, <2>1
<1>9. \A t \in 1..Len(block) : block[t].sample.request[2] = resampled
  BY <1>2, <1>8 DEF OfRound
<1>10. Kept(valid) /\ \A i \in 1..Len(valid) : valid[i].sample.request[2] < resampled
  BY <1>1 DEF GenerationInv, Collecting
<1>11. PICK new : new = valid'
  OBVIOUS
<1>12. new = valid \o block
  BY <1>1, <1>3, <1>5, <1>7, <1>11
<1>13. Kept(new) /\ \A i \in 1..Len(new) : new[i].sample.request[2] < resampled + 1
  BY <1>2, <1>8, <1>9, <1>10, <1>12, Concatenated
<1>14. Len(new) \in Nat
  BY <1>13, LenProperties DEF Kept
<1>15. QED BY <1>11, <1>13, <1>14

LEMMA MeasureStep == ASSUME GenerationInv, Measure PROVE GenerationInv'
<1>1. /\ phase = "measure"
      /\ UNCHANGED <<mode, bad, step, singles, rewards, origin, buffer, trained>>
      /\ IF Len(valid') >= Global
           THEN phase' = "take" /\ UNCHANGED <<drawn, inputs, resampled>>
           ELSE /\ inputs' = Shard(DataBatch("dynamic", drawn.dynamic))
                /\ drawn' = [drawn EXCEPT !.dynamic = @ + 1]
                /\ resampled' = resampled + 1
                /\ phase' = "encode"
  BY DEF Measure
<1>2. /\ Kept(valid') /\ Len(valid') \in Nat
      /\ \A i \in 1..Len(valid') : valid'[i].sample.request[2] < resampled + 1
  BY MeasuredKept
<1>3. /\ mode = "dynamic_sample" /\ drawn.dynamic \in Nat
      /\ Sound(origin.inputs, origin.rewards) /\ OfRound(origin.rewards, 0)
  BY <1>1 DEF GenerationInv, Scoring, FirstBatch, Typed
<1>4. Typed'
  BY <1>1 DEF GenerationInv, Typed
<1>5. FirstBatch'
  BY <1>1, <1>3 DEF FirstBatch, Sound
<1>6. Kept(valid)'
  BY <1>1, <1>2 DEF Kept
<1>7. Scoring'
  BY <1>1, <1>3 DEF Scoring
<1>8. ChosenBatch'
  BY <1>1 DEF ChosenBatch
<1>9. CASE Len(valid') >= Global
  <2>1. phase' = "take"
    BY <1>1, <1>9
  <2>2. Collecting'
    BY <1>6, <1>9, <2>1 DEF Collecting
  <2>3. Prompting'
    BY <2>1 DEF Prompting
  <2>4. QED BY <1>4, <1>5, <1>7, <1>8, <2>2, <2>3 DEF GenerationInv
<1>10. CASE ~(Len(valid') >= Global)
  <2>1. phase' = "encode" /\ inputs' = Shard(DataBatch("dynamic", drawn.dynamic)) /\ resampled' = resampled + 1
    BY <1>1, <1>10
  <2>2. Len(valid') < Global
    BY <1>2, <1>10, Sizes
  <2>3. Collecting'
    BY <1>2, <1>6, <2>1, <2>2 DEF Collecting
  <2>4. Prompting'
    BY <1>3, <2>1, DrawIs DEF Prompting
  <2>5. QED BY <1>4, <1>5, <1>7, <1>8, <2>3, <2>4 DEF GenerationInv
<1>11. QED BY <1>9, <1>10

LEMMA GiveUpStep == ASSUME GenerationInv, GiveUp PROVE GenerationInv'
<1>1. /\ phase = "measure" /\ inputs' = origin.inputs /\ rewards' = origin.rewards /\ phase' = "prepare"
      /\ UNCHANGED <<mode, bad, step, drawn, singles, origin, valid, resampled, buffer, trained>>
  BY DEF GiveUp
<1>2. /\ mode = "dynamic_sample" /\ Len(valid) < Global
      /\ Sound(origin.inputs, origin.rewards) /\ OfRound(origin.rewards, 0)
  BY <1>1 DEF GenerationInv, Scoring, FirstBatch, Collecting
<1>3. Typed' /\ Prompting' /\ Collecting'
  BY <1>1 DEF GenerationInv, Typed, Prompting, Collecting
<1>4. Sound(inputs, rewards)'
  BY <1>1, <1>2 DEF Sound
<1>5. Scoring'
  BY <1>1, <1>2, <1>4 DEF Scoring
<1>6. FirstBatch'
  BY <1>1, <1>2 DEF FirstBatch, Sound
<1>7. ChosenBatch'
  BY <1>1, <1>2 DEF ChosenBatch
<1>8. QED BY <1>3, <1>5, <1>6, <1>7 DEF GenerationInv

(* The first elements of a list of whole groups are whole groups.           *)
LEMMA FirstOf ==
  ASSUME NEW held, NEW taken, NEW m \in Nat, NEW n \in Nat, n <= m, Len(held) = m, Len(taken) = n,
         \A i \in 1..n : taken[i] = held[i]
  PROVE  /\ Distinct(held) => Distinct(taken)
         /\ AllVary(held) => AllVary(taken)
         /\ OnePrompt(held) => OnePrompt(taken)
<1>1. \A i \in 1..n : i \in 1..m
  OBVIOUS
<1>2. ASSUME Distinct(held) PROVE Distinct(taken)
  <2> SUFFICES ASSUME NEW i \in 1..n, NEW j \in 1..n, taken[i].of = taken[j].of PROVE i = j
    BY DEF Distinct
  <2>1. i \in 1..Len(held) /\ j \in 1..Len(held) /\ held[i].of = held[j].of
    BY <1>1
  <2>2. QED BY <1>2, <2>1 DEF Distinct
<1>3. ASSUME OnePrompt(held) PROVE OnePrompt(taken)
  <2> SUFFICES ASSUME NEW b \in Nat, NEW x \in 1..Group, NEW y \in 1..Group,
                      b * Group + x \in 1..Len(taken), b * Group + y \in 1..Len(taken)
               PROVE  taken[b * Group + x].of.prompt = taken[b * Group + y].of.prompt
    BY DEF OnePrompt
  <2>1. b * Group + x \in 1..Len(held) /\ b * Group + y \in 1..Len(held)
    BY <1>1
  <2>2. held[b * Group + x].of.prompt = held[b * Group + y].of.prompt
    BY <1>3, <2>1 DEF OnePrompt
  <2>3. b * Group + x \in 1..n /\ b * Group + y \in 1..n
    OBVIOUS
  <2>4. QED BY <2>2, <2>3
<1>4. ASSUME AllVary(held) PROVE AllVary(taken)
  <2> SUFFICES ASSUME NEW b \in Nat, b * Group + Group <= Len(taken)
               PROVE  \E x, y \in 1..Group : taken[b * Group + x].value # taken[b * Group + y].value
    BY DEF AllVary
  <2>1. PICK a \in Nat, g \in Nat \ {0} : a = b * Group /\ g = Group
    BY Sizes, Product
  <2>2. a + g <= n
    BY <2>1
  <2>3. b * Group + Group <= Len(held)
    BY <2>1, <2>2
  <2>4. PICK x \in 1..Group, y \in 1..Group : held[b * Group + x].value # held[b * Group + y].value
    BY <1>4, <2>3 DEF AllVary
  <2>5. \A z \in 1..g : a + z \in 1..n
    BY <2>2
  <2>6. a + x \in 1..n /\ a + y \in 1..n
    BY <2>1, <2>4, <2>5
  <2>7. QED BY <2>1, <2>4, <2>6
<1>5. QED BY <1>2, <1>3, <1>4

(* The samples each rank slices out of the valid ones have the rewards      *)
(* taken.                                                                   *)
LEMMA TakenIs ==
  ASSUME NEW list, Kept(list), Len(list) >= Global,
         NEW taken, taken = [i \in 1..Global |-> list[i].reward],
         NEW lists, lists = [r \in Rank |-> [i \in 1..Local |-> list[(r - 1) * Local + i].sample]]
  PROVE  /\ taken \in Seq(Rewards) /\ Len(taken) = Global
         /\ Distinct(taken) /\ AllVary(taken) /\ (bad = {} => OnePrompt(taken))
         /\ Matched(lists, taken)
<1>1. PICK n \in Nat, l \in Nat \ {0} : n = Global /\ l = Local
  BY Sizes
<1>2. PICK m \in Nat : m = Len(list) /\ n <= m
  BY <1>1, LenProperties DEF Kept
<1>3. PICK held : held = RewardsIn(list) /\ held = [i \in 1..m |-> list[i].reward]
  BY <1>2 DEF RewardsIn
<1>4. list \in Seq(ValidSamples) /\ \A i \in 1..m : list[i].sample = list[i].reward.of
  BY <1>2 DEF Kept
<1>5. held \in Seq(Rewards) /\ Len(held) = m
  <2>1. \A i \in 1..m : list[i].reward \in Rewards
    BY <1>2, <1>4, RewardOf
  <2>2. held \in [1..m -> Rewards]
    BY <1>3, <2>1
  <2>3. QED BY <2>2, FunctionIsSeq
<1>6. taken \in Seq(Rewards) /\ Len(taken) = n /\ \A i \in 1..n : taken[i] = held[i] /\ i \in 1..m
  <2>1. \A i \in 1..n : list[i].reward \in Rewards /\ i \in 1..m
    BY <1>2, <1>4, RewardOf
  <2>2. taken \in [1..n -> Rewards] /\ \A i \in 1..n : taken[i] = list[i].reward
    BY <1>1, <2>1
  <2>3. QED BY <1>3, <2>1, <2>2, FunctionIsSeq
<1>7. Distinct(held) /\ AllVary(held) /\ (bad = {} => OnePrompt(held))
  BY <1>3 DEF Kept
<1>8. Distinct(taken) /\ AllVary(taken) /\ (bad = {} => OnePrompt(taken))
  <2>1. n <= m /\ \A i \in 1..n : taken[i] = held[i]
    BY <1>2, <1>6
  <2>2. /\ Distinct(held) => Distinct(taken)
        /\ AllVary(held) => AllVary(taken)
        /\ OnePrompt(held) => OnePrompt(taken)
    BY <1>1, <1>2, <1>5, <1>6, <2>1, FirstOf
  <2>3. QED BY <1>7, <2>2
<1>11. Matched(lists, taken)
  <2>1. Of(taken) \in Seq(Completions) /\ Len(Of(taken)) = n /\ \A i \in 1..n : Of(taken)[i] = taken[i].of
    BY <1>6, OfIs
  <2>2. ASSUME NEW r \in Rank PROVE lists[r] = EvenPart(Of(taken), r, Ranks)
    <3>1. PICK part : part = EvenPart(Of(taken), r, Ranks)
      OBVIOUS
    <3>2. part \in Seq(Completions) /\ IsPart(part, Of(taken), (r - 1) * Local, Local)
      BY <1>1, <2>1, <3>1, Sharding DEF Rank
    <3>3. Len(part) = l /\ \A t \in 1..l : (r - 1) * Local + t \in 1..n /\ part[t] = Of(taken)[(r - 1) * Local + t]
      BY <1>1, <2>1, <3>2 DEF IsPart
    <3>4. \A t \in 1..l : part[t] = list[(r - 1) * Local + t].sample
      <4> SUFFICES ASSUME NEW t \in 1..l PROVE part[t] = list[(r - 1) * Local + t].sample
        OBVIOUS
      <4>1. PICK i \in 1..n : i = (r - 1) * Local + t /\ part[t] = Of(taken)[i]
        BY <3>3
      <4>2. Of(taken)[i] = taken[i].of /\ taken[i] = held[i] /\ i \in 1..m
        BY <1>6, <2>1
      <4>3. held[i] = list[i].reward /\ list[i].sample = list[i].reward.of
        BY <1>3, <1>4, <4>2
      <4>4. QED BY <4>1, <4>2, <4>3
    <3>5. PICK own : own = lists[r] /\ own = [i \in 1..l |-> list[(r - 1) * Local + i].sample]
      BY <1>1
    <3>6. DOMAIN part = 1..l /\ \A t \in 1..l : part[t] \in Completions
      BY <3>2, <3>3, LenProperties, ElementOfSeq
    <3>7. own \in [1..l -> Completions] /\ \A t \in 1..l : own[t] = part[t]
      BY <3>4, <3>5, <3>6
    <3>8. own \in Seq(Completions) /\ Len(own) = l
      BY <3>7, FunctionIsSeq
    <3>9. own = part
      BY <3>2, <3>3, <3>7, <3>8, SeqEqual
    <3>10. QED BY <3>1, <3>5, <3>9
  <2>3. QED BY <2>2 DEF Matched
<1>12. QED BY <1>1, <1>6, <1>8, <1>11

LEMMA TakeStep == ASSUME GenerationInv, TakeValid PROVE GenerationInv'
<1>1. /\ phase = "take" /\ phase' = "prepare"
      /\ inputs' = [r \in Rank |-> [i \in 1..Local |-> valid[(r - 1) * Local + i].sample]]
      /\ rewards' = [i \in 1..Global |-> valid[i].reward]
      /\ UNCHANGED <<mode, bad, step, drawn, singles, origin, valid, resampled, buffer, trained>>
  BY DEF TakeValid, KeptRewards
<1>2. mode = "dynamic_sample" /\ Kept(valid) /\ Len(valid) >= Global
  BY <1>1 DEF GenerationInv, Scoring, Collecting
<1>3. /\ rewards' \in Seq(Rewards) /\ Len(rewards') = Global
      /\ Distinct(rewards') /\ AllVary(rewards') /\ (bad = {} => OnePrompt(rewards'))
      /\ Matched(inputs', rewards')
  BY <1>1, <1>2, TakenIs
<1>4. Typed' /\ Prompting' /\ Collecting'
  BY <1>1 DEF GenerationInv, Typed, Prompting, Collecting
<1>5. Sound(inputs, rewards)'
  BY <1>1, <1>3 DEF Sound
<1>6. Scoring'
  BY <1>1, <1>2, <1>5 DEF Scoring
<1>7. FirstBatch'
  BY <1>1 DEF GenerationInv, FirstBatch, Sound
<1>8. ChosenBatch'
  BY <1>3 DEF ChosenBatch
<1>9. QED BY <1>4, <1>6, <1>7, <1>8 DEF GenerationInv

-----------------------------------------------------------------------------
(* Advantages and mini batches.                                             *)
AdvantageOf(all, i) ==
  LET group == Compared(all, i)
  IN  [of |-> rewards[i].of, prompts |-> {all[j].prompt : j \in group},
       varied |-> Cardinality({rewards[j].value : j \in group}) > 1]

AllAdvantages == [i \in DOMAIN rewards |-> AdvantageOf(AllOf(inputs), i)]

AttachedTo(r) ==
  [i \in DOMAIN inputs[r] |->
     [sample |-> inputs[r][i], advantage |-> EvenPart(AllAdvantages, r, Ranks)[i]]]

LEMMA PrepareIs ==
  ASSUME Prepare
  PROVE  buffer' = [r \in Rank |-> [m \in 1..MiniBatches |-> EvenPart(AttachedTo(r), m, MiniBatches)]]
BY DEF Prepare, AttachedTo, AllAdvantages, AdvantageOf

Placed(n, r, m) ==
  /\ SizeOf(r, m) \in Nat /\ SizeOf(r, m) <= n
  /\ \A t \in 1..SizeOf(r, m) :
       /\ From(Many(n, r, Ranks), m, MiniBatches) + t \in 1..Many(n, r, Ranks)
       /\ Place(r, m, t) = From(n, r, Ranks) + (From(Many(n, r, Ranks), m, MiniBatches) + t)
       /\ Place(r, m, t) \in 1..n

LEMMA PlaceIn ==
  ASSUME NEW n \in Nat, n = Len(rewards), NEW r \in Rank, NEW m \in 1..MiniBatches
  PROVE  Placed(n, r, m)
<1>1. r \in 1..Ranks /\ Ranks \in Nat \ {0} /\ MiniBatches \in Nat \ {0}
  BY Sizes DEF Rank
<1>2. PICK f \in Nat, k \in Nat : f = From(n, r, Ranks) /\ k = Many(n, r, Ranks) /\ f + k <= n
  <2>1. From(n, r, Ranks) \in Nat /\ Many(n, r, Ranks) \in Nat
    BY <1>1, PartBounds
  <2>2. From(n, r, Ranks) + Many(n, r, Ranks) <= n
    BY <1>1, PartInside
  <2>3. QED BY <2>1, <2>2
<1>3. PICK g \in Nat, l \in Nat : g = From(k, m, MiniBatches) /\ l = Many(k, m, MiniBatches) /\ g + l <= k
  BY <1>1, PartBounds, PartInside
<1>4. SizeOf(r, m) = l /\ \A t \in 1..l : Place(r, m, t) = f + g + t
  BY <1>2, <1>3 DEF SizeOf, Place
<1>5. \A t \in 1..l : g + t \in 1..k /\ f + g + t = f + (g + t) /\ f + g + t \in 1..n
  <2> SUFFICES ASSUME NEW t \in 1..l
               PROVE  g + t \in 1..k /\ f + g + t = f + (g + t) /\ f + g + t \in 1..n
    OBVIOUS
  <2>1. f \in Nat /\ g \in Nat /\ k \in Nat /\ l \in Nat /\ f + k <= n /\ g + l <= k
    BY <1>2, <1>3
  <2>2. QED BY <2>1
<1>6. l <= n
  BY <1>2, <1>3
<1>7. QED BY <1>2, <1>3, <1>4, <1>5, <1>6 DEF Placed

Attaches(own, all, n, r) ==
  /\ own \in Seq([sample : Completions, advantage : {AdvantageOf(all, i) : i \in 1..n}])
  /\ Len(own) = Many(n, r, Ranks)
  /\ \A u \in 1..Many(n, r, Ranks) :
       own[u] = [sample |-> rewards[From(n, r, Ranks) + u].of,
                 advantage |-> AdvantageOf(all, From(n, r, Ranks) + u)]

(* Each rank attaches the advantages at the places of its own samples.      *)
LEMMA AttachedIs ==
  ASSUME rewards \in Seq(Rewards), Matched(inputs, rewards), NEW n \in Nat, n = Len(rewards),
         NEW all, all = AllOf(inputs), NEW r \in Rank
  PROVE  Attaches(AttachedTo(r), all, n, r)
<1>1. r \in 1..Ranks /\ Ranks \in Nat \ {0}
  BY Sizes DEF Rank
<1>2. PICK f \in Nat, k \in Nat : f = From(n, r, Ranks) /\ k = Many(n, r, Ranks) /\ f + k <= n
  BY <1>1, PartBounds, PartInside
<1>3. Of(rewards) \in Seq(Completions) /\ Len(Of(rewards)) = n /\ \A i \in 1..n : Of(rewards)[i] = rewards[i].of
  BY OfIs
<1>4. PICK own : own = inputs[r] /\ own = EvenPart(Of(rewards), r, Ranks)
  BY DEF Matched
<1>5. own \in Seq(Completions) /\ IsPart(own, Of(rewards), f, k)
  BY <1>1, <1>2, <1>3, <1>4, EvenPartIs
<1>6. Len(own) = k /\ DOMAIN own = 1..k /\ \A u \in 1..k : f + u \in 1..n /\ own[u] = rewards[f + u].of
  <2>1. Len(own) = k /\ \A u \in 1..k : f + u \in 1..n /\ own[u] = Of(rewards)[f + u]
    BY <1>3, <1>5 DEF IsPart
  <2>2. QED BY <1>3, <1>5, <2>1, LenProperties
<1> DEFINE A == {AdvantageOf(all, i) : i \in 1..n}
<1>7. AllAdvantages = [i \in 1..n |-> AdvantageOf(all, i)]
  <2>1. DOMAIN rewards = 1..n
    BY LenProperties
  <2>2. QED BY <2>1 DEF AllAdvantages
<1>8. AllAdvantages \in Seq(A) /\ Len(AllAdvantages) = n
  <2>1. AllAdvantages \in [1..n -> A]
    BY <1>7
  <2>2. QED BY <2>1, FunctionIsSeq
<1>9. PICK some : some = EvenPart(AllAdvantages, r, Ranks)
  OBVIOUS
<1>10. some \in Seq(A) /\ IsPart(some, AllAdvantages, f, k)
  BY <1>1, <1>2, <1>8, <1>9, EvenPartIs
<1>11. \A u \in 1..k : some[u] = AdvantageOf(all, f + u) /\ some[u] \in A
  <2>1. \A u \in 1..k : f + u \in 1..n /\ some[u] = AllAdvantages[f + u]
    BY <1>8, <1>10 DEF IsPart
  <2>2. QED BY <1>7, <2>1
<1>12. PICK both : both = AttachedTo(r)
  OBVIOUS
<1>13. both = [u \in 1..k |-> [sample |-> own[u], advantage |-> some[u]]]
  BY <1>4, <1>6, <1>9, <1>12 DEF AttachedTo
<1>14. \A u \in 1..k : own[u] \in Completions
  BY <1>5, <1>6, ElementOfSeq
<1> HIDE DEF A
<1>15. both \in [1..k -> [sample : Completions, advantage : A]]
  BY <1>11, <1>13, <1>14
<1>16. both \in Seq([sample : Completions, advantage : A]) /\ Len(both) = k
  BY <1>15, FunctionIsSeq
<1>17. \A u \in 1..k : both[u] = [sample |-> rewards[f + u].of, advantage |-> AdvantageOf(all, f + u)]
  BY <1>6, <1>11, <1>13
<1>18. QED BY <1>2, <1>12, <1>16, <1>17 DEF A, Attaches

Filled(all, new) ==
  \A r \in Rank :
    /\ DOMAIN new[r] = 1..MiniBatches /\ Len(new[r]) = MiniBatches
    /\ \A m \in 1..MiniBatches :
         /\ DOMAIN new[r][m] = 1..SizeOf(r, m) /\ Len(new[r][m]) = SizeOf(r, m)
         /\ \A t \in 1..SizeOf(r, m) :
              new[r][m][t] = [sample |-> rewards[Place(r, m, t)].of, advantage |-> AdvantageOf(all, Place(r, m, t))]

(* Where everything is in the buffers after Prepare.                        *)
LEMMA FilledIs ==
  ASSUME rewards \in Seq(Rewards), Matched(inputs, rewards), Prepare,
         NEW all, all = AllOf(inputs), NEW new, new = buffer'
  PROVE  Filled(all, new)
<1>1. PICK n \in Nat : n = Len(rewards)
  BY LenProperties
<1>2. new = [r \in Rank |-> [m \in 1..MiniBatches |-> EvenPart(AttachedTo(r), m, MiniBatches)]]
  BY PrepareIs
<1>3. ASSUME NEW r \in Rank, NEW m \in 1..MiniBatches
      PROVE  /\ DOMAIN new[r][m] = 1..SizeOf(r, m) /\ Len(new[r][m]) = SizeOf(r, m)
             /\ \A t \in 1..SizeOf(r, m) :
                  new[r][m][t] = [sample |-> rewards[Place(r, m, t)].of, advantage |-> AdvantageOf(all, Place(r, m, t))]
  <2>1. Attaches(AttachedTo(r), all, n, r) /\ Placed(n, r, m)
    BY <1>1, AttachedIs, PlaceIn
  <2> DEFINE T == [sample : Completions, advantage : {AdvantageOf(all, i) : i \in 1..n}]
  <2>2. PICK both, k :
          /\ both = AttachedTo(r) /\ k = Many(n, r, Ranks) /\ both \in Seq(T) /\ Len(both) = k
          /\ \A u \in 1..k : both[u] = [sample |-> rewards[From(n, r, Ranks) + u].of,
                                         advantage |-> AdvantageOf(all, From(n, r, Ranks) + u)]
    BY <2>1 DEF Attaches
  <2> HIDE DEF T
  <2>3. PICK part : part = new[r][m] /\ part = EvenPart(both, m, MiniBatches)
    BY <1>2, <2>2
  <2>4. PICK s, g : s = SizeOf(r, m) /\ s = Many(k, m, MiniBatches) /\ g = From(k, m, MiniBatches)
    BY <1>1, <2>2 DEF SizeOf
  <2>5. part \in Seq(T) /\ IsPart(part, both, g, s)
    BY <2>2, <2>3, <2>4, Sizes, EvenPartIs
  <2>6. Len(part) = s /\ \A t \in 1..s : part[t] = both[g + t]
    BY <2>5 DEF IsPart
  <2>7. \A t \in 1..s : g + t \in 1..k /\ Place(r, m, t) = From(n, r, Ranks) + (g + t)
    BY <2>1, <2>2, <2>4 DEF Placed
  <2>8. DOMAIN part = 1..s
    BY <2>5, <2>6, LenProperties
  <2>9. \A t \in 1..s : part[t] = [sample |-> rewards[Place(r, m, t)].of, advantage |-> AdvantageOf(all, Place(r, m, t))]
    BY <2>2, <2>6, <2>7
  <2>10. QED BY <2>3, <2>4, <2>6, <2>8, <2>9
<1>4. ASSUME NEW r \in Rank PROVE DOMAIN new[r] = 1..MiniBatches /\ Len(new[r]) = MiniBatches
  <2>1. PICK k \in Nat : k = MiniBatches
    BY Sizes
  <2>2. PICK parts : parts = new[r] /\ parts = [m \in 1..k |-> EvenPart(AttachedTo(r), m, MiniBatches)]
    BY <1>2, <2>1
  <2>3. parts \in [1..k -> {EvenPart(AttachedTo(r), m, MiniBatches) : m \in 1..k}]
    BY <2>2
  <2>4. DOMAIN parts = 1..k /\ Len(parts) = k
    BY <2>3, FunctionIsSeq
  <2>5. QED BY <2>1, <2>2, <2>4
<1>5. QED BY <1>3, <1>4 DEF Filled

SameGroup(i, j) ==
  \E b \in Nat : \E x, y \in 1..Group : i = b * Group + x /\ j = b * Group + y

LEMMA InOneGroup ==
  ASSUME NEW i \in 1..Global, NEW j \in 1..Global, (i - 1) \div Group = (j - 1) \div Group
  PROVE  SameGroup(i, j)
<1>1. PICK g \in Nat \ {0}, q \in Nat : g = Group /\ Global = g * q
  BY Groups, Sizes
<1>2. i \in 1..g * q /\ j \in 1..g * q
  BY <1>1
<1>3. PICK b \in Nat, x \in 1..g : b < q /\ i = b * g + x /\ (i - 1) \div g = b
  BY <1>2, SpotOf
<1>4. PICK d \in Nat, y \in 1..g : d < q /\ j = d * g + y /\ (j - 1) \div g = d
  BY <1>2, SpotOf
<1>5. b = d
  BY <1>1, <1>3, <1>4
<1>6. QED BY <1>1, <1>3, <1>4, <1>5 DEF SameGroup

LEMMA PlaceInGroup ==
  ASSUME NEW i \in 1..Global
  PROVE  \E b \in Nat : \E x \in 1..Group :
           /\ i = b * Group + x /\ b * Group + Group <= Global
           /\ \A y \in 1..Group : b * Group + y \in 1..Global /\ ((b * Group + y) - 1) \div Group = (i - 1) \div Group
<1>1. PICK g \in Nat \ {0}, q \in Nat : g = Group /\ Global = g * q
  BY Groups, Sizes
<1>2. i \in 1..g * q
  BY <1>1
<1>3. PICK b \in Nat, x \in 1..g : b < q /\ i = b * g + x /\ (i - 1) \div g = b
  BY <1>2, SpotOf
<1>4. \A y \in 1..g : ((b * g + y) - 1) \div g = b /\ b * g + y \in 1..g * q
  BY <1>3, SpotIs
<1>5. b * g + g <= g * q
  BY <1>4
<1>6. QED BY <1>1, <1>3, <1>4, <1>5

(* What a completion is compared with: its group, or the outputs with its   *)
(* prompt_id.                                                               *)
LEMMA ComparedWith ==
  ASSUME rewards \in Seq(Rewards), NEW all, all = Of(rewards), NEW i \in 1..Len(rewards)
  PROVE  /\ Compared(all, i) \subseteq 1..Len(rewards) /\ i \in Compared(all, i)
         /\ \A j \in 1..Len(rewards) : all[j] = rewards[j].of
         /\ IF Len(rewards) # Global
            THEN \A j \in Compared(all, i) : rewards[j].of.prompt_id = rewards[i].of.prompt_id
            ELSE \A j \in 1..Len(rewards) : j \in Compared(all, i) <=> (j - 1) \div Group = (i - 1) \div Group
<1>1. PICK n \in Nat : n = Len(rewards)
  BY LenProperties
<1>2. all \in Seq(Completions) /\ Len(all) = n /\ \A j \in 1..n : all[j] = rewards[j].of
  BY <1>1, OfIs
<1>3. DOMAIN all = 1..n
  BY <1>2, LenProperties
<1>4. CASE n # Global
  <2>1. Compared(all, i) = {j \in 1..n : all[j].prompt_id = all[i].prompt_id}
    BY <1>1, <1>3, <1>4 DEF Compared, MultiTurn
  <2>2. QED BY <1>1, <1>2, <1>4, <2>1
<1>5. CASE n = Global
  <2>1. Compared(all, i) = {j \in 1..n : (j - 1) \div Group = (i - 1) \div Group}
    BY <1>1, <1>3, <1>5 DEF Compared, MultiTurn, ByPosition
  <2>2. QED BY <1>1, <1>2, <1>5, <2>1
<1>6. QED BY <1>4, <1>5

LEMMA ComparedOnePrompt ==
  ASSUME Sound(inputs, rewards), bad = {}, NEW all, all = Of(rewards), NEW i \in 1..Len(rewards)
  PROVE  AdvantageOf(all, i).prompts = {rewards[i].of.prompt}
<1>1. rewards \in Seq(Rewards)
  BY DEF Sound
<1>2. /\ Compared(all, i) \subseteq 1..Len(rewards) /\ i \in Compared(all, i)
      /\ \A j \in 1..Len(rewards) : all[j] = rewards[j].of
      /\ IF Len(rewards) # Global
         THEN \A j \in Compared(all, i) : rewards[j].of.prompt_id = rewards[i].of.prompt_id
         ELSE \A j \in 1..Len(rewards) : j \in Compared(all, i) <=> (j - 1) \div Group = (i - 1) \div Group
  BY <1>1, ComparedWith
<1>3. ASSUME NEW j \in Compared(all, i) PROVE rewards[j].of.prompt = rewards[i].of.prompt
  <2>1. j \in 1..Len(rewards)
    BY <1>2
  <2>2. CASE Len(rewards) # Global
    <3>1. OneIdOnePrompt(rewards)
      BY <2>2 DEF Sound
    <3>2. rewards[j].of.prompt_id = rewards[i].of.prompt_id
      BY <1>2, <2>2
    <3>3. QED BY <2>1, <3>1, <3>2 DEF OneIdOnePrompt
  <2>3. CASE Len(rewards) = Global
    <3>1. OnePrompt(rewards)
      BY <2>3 DEF Sound
    <3>2. (j - 1) \div Group = (i - 1) \div Group
      BY <1>2, <2>1, <2>3
    <3>3. SameGroup(j, i)
      BY <2>1, <2>3, <3>2, InOneGroup
    <3>4. QED BY <2>1, <3>1, <3>3 DEF SameGroup, OnePrompt
  <2>4. QED BY <2>2, <2>3
<1>4. AdvantageOf(all, i).prompts = {all[j].prompt : j \in Compared(all, i)}
  BY DEF AdvantageOf
<1>5. QED BY <1>2, <1>3, <1>4

LEMMA TwoValues ==
  ASSUME NEW S, S \subseteq {0, 1}, NEW x \in S, NEW y \in S, x # y
  PROVE  Cardinality(S) > 1
<1>1. 0 \in S /\ 1 \in S
  OBVIOUS
<1>2. \A z : z \in 0..1 <=> z = 0 \/ z = 1
  OBVIOUS
<1>3. S = 0..1
  BY <1>1, <1>2
<1>4. Cardinality(0..1) = IF 0 > 1 THEN 0 ELSE 1 - 0 + 1
  <2>1. 0 \in Int /\ 1 \in Int
    OBVIOUS
  <2>2. QED BY <2>1, FS_Interval
<1>5. QED BY <1>3, <1>4

(* If the rewards of every group vary, they do among those compared.        *)
LEMMA ComparedVary ==
  ASSUME rewards \in Seq(Rewards), Len(rewards) = Global, AllVary(rewards),
         NEW all, all = Of(rewards), NEW i \in 1..Len(rewards)
  PROVE  AdvantageOf(all, i).varied
<1>1. /\ Compared(all, i) \subseteq 1..Len(rewards)
      /\ \A j \in 1..Len(rewards) : j \in Compared(all, i) <=> (j - 1) \div Group = (i - 1) \div Group
  BY ComparedWith
<1>2. PICK b \in Nat :
        /\ b * Group + Group <= Global
        /\ \A y \in 1..Group : b * Group + y \in 1..Global /\ ((b * Group + y) - 1) \div Group = (i - 1) \div Group
  BY PlaceInGroup
<1>3. PICK x \in 1..Group, y \in 1..Group : rewards[b * Group + x].value # rewards[b * Group + y].value
  BY <1>2 DEF AllVary
<1>4. b * Group + x \in Compared(all, i) /\ b * Group + y \in Compared(all, i)
  BY <1>1, <1>2, <1>3
<1>5. \A j \in 1..Len(rewards) : rewards[j].value \in {0, 1}
  <2>1. \A j \in 1..Len(rewards) : rewards[j] \in Rewards
    BY ElementOfSeq
  <2>2. QED BY <2>1 DEF Rewards
<1>6. PICK S : S = {rewards[j].value : j \in Compared(all, i)}
  OBVIOUS
<1>7. S \subseteq {0, 1} /\ rewards[b * Group + x].value \in S /\ rewards[b * Group + y].value \in S
  BY <1>1, <1>4, <1>5, <1>6
<1>8. Cardinality(S) > 1
  BY <1>3, <1>7, TwoValues
<1>9. AdvantageOf(all, i).varied = (Cardinality(S) > 1)
  BY <1>6 DEF AdvantageOf
<1>10. QED BY <1>8, <1>9

(* How much of a generation its k-th step has made of mini batch m.         *)
LEMMA Rest ==
  ASSUME NEW g \in Nat \ {0}, NEW d \in Nat, NEW x \in 0..g - 1
  PROVE  (g * d + x) \div g = d /\ (g * d + x) % g = x
<1>1. x + 1 \in 1..g
  OBVIOUS
<1>2. d * g \in Nat /\ ((d * g + (x + 1)) - 1) \div g = d
  BY <1>1, SpotIs
<1>3. PICK y \in Nat : y = g * d + x /\ y = (d * g + (x + 1)) - 1
  BY <1>2
<1>4. y \div g = d
  BY <1>2, <1>3
<1>5. PICK w : w = y % g /\ w \in Nat /\ y = g * d + w
  BY <1>3, <1>4, Division
<1>6. PICK z \in Nat : z = g * d
  BY Product
<1>7. w = x
  BY <1>3, <1>5, <1>6
<1>8. QED BY <1>3, <1>4, <1>5, <1>7

LEMMA NextRest ==
  ASSUME NEW k \in Nat, NEW g \in Nat \ {0}
  PROVE  IF (k % g) + 1 = g THEN (k + 1) % g = 0 /\ (k + 1) \div g = (k \div g) + 1
         ELSE (k + 1) % g = (k % g) + 1 /\ (k + 1) \div g = k \div g
<1>1. PICK d \in Nat, e \in Nat : d = k \div g /\ e = k % g /\ e < g /\ k = g * d + e
  BY Division
<1>2. CASE e + 1 = g
  <2>1. k + 1 = g * (d + 1) + 0 /\ d + 1 \in Nat /\ 0 \in 0..g - 1
    <3>1. PICK z \in Nat : z = g * d /\ g * (d + 1) = z + g
      BY Product, Successor
    <3>2. QED BY <1>1, <1>2, <3>1
  <2>2. (g * (d + 1) + 0) \div g = d + 1 /\ (g * (d + 1) + 0) % g = 0
    BY <2>1, Rest
  <2>3. QED BY <1>1, <1>2, <2>1, <2>2
<1>3. CASE e + 1 # g
  <2>1. PICK x \in 0..g - 1 : x = e + 1
    BY <1>1, <1>3
  <2>2. k + 1 = g * d + x
    <3>1. PICK z \in Nat : z = g * d
      BY Product
    <3>2. QED BY <1>1, <2>1, <3>1
  <2>3. (g * d + x) \div g = d /\ (g * d + x) % g = x
    BY Rest
  <2>4. QED BY <1>1, <1>3, <2>1, <2>2, <2>3
<1>4. QED BY <1>2, <1>3

(* The next step makes one more of its mini batch and of no other.          *)
LEMMA ManyNext ==
  ASSUME NEW k \in Nat, NEW g \in Nat \ {0}, NEW m \in 1..g
  PROVE  /\ Many(k, m, g) \in Nat
         /\ Many(k + 1, m, g) = Many(k, m, g) + IF m = (k % g) + 1 THEN 1 ELSE 0
<1>1. PICK d \in Nat, e \in Nat : d = k \div g /\ e = k % g /\ e < g
  BY Division
<1>2. PICK u, v : u = (k + 1) \div g /\ v = (k + 1) % g
  OBVIOUS
<1>3. IF e + 1 = g THEN v = 0 /\ u = d + 1 ELSE v = e + 1 /\ u = d
  BY <1>1, <1>2, NextRest
<1>4. Many(k, m, g) = d + (IF m <= e THEN 1 ELSE 0) /\ Many(k + 1, m, g) = u + IF m <= v THEN 1 ELSE 0
  BY <1>1, <1>2 DEF Many
<1>5. CASE e + 1 = g
  <2>1. v = 0 /\ u = d + 1
    BY <1>3, <1>5
  <2>2. ~(m <= v) /\ (m <= e <=> m # e + 1)
    BY <1>5, <2>1
  <2>3. QED BY <1>1, <1>4, <2>1, <2>2
<1>6. CASE e + 1 # g
  <2>1. v = e + 1 /\ u = d
    BY <1>3, <1>6
  <2>2. QED BY <1>1, <1>4, <2>1
<1>7. QED BY <1>5, <1>6

LEMMA ManyAtFirst ==
  ASSUME NEW g \in Nat \ {0}, NEW m \in 1..g
  PROVE  Many(0, m, g) = 0
<1>1. 0 \in Nat /\ 0 \in 0..g - 1 /\ g * 0 + 0 = 0
  OBVIOUS
<1>2. (g * 0 + 0) \div g = 0 /\ (g * 0 + 0) % g = 0
  BY <1>1, Rest
<1>3. 0 \div g = 0 /\ 0 % g = 0
  BY <1>1, <1>2
<1>4. QED BY <1>3 DEF Many

LEMMA ManyAtLast ==
  ASSUME NEW g \in Nat \ {0}, NEW d \in Nat, NEW m \in 1..g
  PROVE  Many(g * d, m, g) = d
<1>1. (g * d) \div g = d /\ (g * d) % g = 0
  BY Divides
<1>2. QED BY <1>1 DEF Many

LEMMA RestOfRest ==
  ASSUME NEW k \in Nat, NEW g \in Nat \ {0}, NEW d \in Nat \ {0}
  PROVE  (k % (g * d)) % g = k % g
<1>1. PICK l \in Nat \ {0} : l = g * d
  <2>1. g * d \in Nat \ {0}
    OBVIOUS
  <2>2. QED BY <2>1
<1>2. PICK u \in Nat, r \in Nat : u = k \div l /\ r = k % l /\ k = l * u + r
  BY <1>1, Division
<1>3. PICK v \in Nat, e \in Nat : v = r \div g /\ e = r % g /\ e < g /\ r = g * v + e
  <2>1. r \in Nat /\ g \in Nat \ {0}
    BY <1>2
  <2>2. QED BY <2>1, Division
<1>4. k = g * (d * u + v) + e /\ d * u + v \in Nat
  <2>1. d * u \in Nat /\ l * u = g * (d * u)
    BY <1>1, Product
  <2>2. g * (d * u + v) = g * (d * u) + g * v
    BY <2>1, Distribute
  <2>3. PICK x \in Nat, y \in Nat : x = g * (d * u) /\ y = g * v
    BY <2>1, Product
  <2>4. k = (x + y) + e
    <3>1. r = y + e /\ r \in Nat /\ e \in Nat
      BY <1>2, <1>3, <2>3
    <3>2. l * u = x
      BY <2>1, <2>3
    <3>3. k = x + r
      BY <1>2, <3>2
    <3>4. QED BY <2>3, <3>1, <3>3
  <2>5. QED BY <2>1, <2>2, <2>3, <2>4
<1>5. e \in 0..g - 1
  BY <1>3
<1>6. (g * (d * u + v) + e) % g = e
  BY <1>4, <1>5, Rest
<1>7. QED BY <1>1, <1>2, <1>3, <1>4, <1>6

LEMMA Steps ==
  /\ GenerateEvery \in Nat \ {0} /\ GenerateEvery = MiniBatches * Iterations
<1>1. MiniBatches \in Nat \ {0} /\ Iterations \in Nat \ {0}
  BY Sizes
<1>2. MiniBatches * Iterations \in Nat \ {0}
  BY <1>1
<1>3. QED BY <1>2 DEF GenerateEvery

EntriesOf(new) == UNION {UNION {ToSet(new[r][m]) : m \in DOMAIN new[r]} : r \in Rank}

(* Every entry of the buffer is a completion with the advantage of its      *)
(* place.                                                                   *)
LEMMA EntryIs ==
  ASSUME NEW all, NEW new, Filled(all, new), NEW e \in EntriesOf(new), NEW n \in Nat, n = Len(rewards)
  PROVE  \E p \in 1..n : e = [sample |-> rewards[p].of, advantage |-> AdvantageOf(all, p)]
<1>1. PICK r \in Rank : e \in UNION {ToSet(new[r][m]) : m \in DOMAIN new[r]}
  BY DEF EntriesOf
<1>2. PICK m \in DOMAIN new[r] : e \in ToSet(new[r][m])
  BY <1>1
<1>3. m \in 1..MiniBatches /\ DOMAIN new[r][m] = 1..SizeOf(r, m)
  BY <1>2 DEF Filled
<1>4. PICK t \in 1..SizeOf(r, m) : e = new[r][m][t]
  BY <1>2, <1>3 DEF ToSet
<1>5. Place(r, m, t) \in 1..n
  BY <1>3, PlaceIn DEF Placed
<1>6. e = [sample |-> rewards[Place(r, m, t)].of, advantage |-> AdvantageOf(all, Place(r, m, t))]
  BY <1>3, <1>4 DEF Filled
<1>7. QED BY <1>5, <1>6

LEMMA PrepareStep == ASSUME IInv, Prepare PROVE IInv'
<1>1. /\ phase = "prepare" /\ phase' = "train"
      /\ UNCHANGED <<mode, bad, step, loop>>
      /\ trained' = [s \in {rewards[i].of : i \in DOMAIN rewards} |-> 0]
  BY DEF Prepare
<1>2. UNCHANGED <<drawn, singles, inputs, rewards, origin, valid, resampled>>
  BY <1>1 DEF loop
<1>3. GenerationInv'
  <2>1. Typed' /\ Prompting' /\ Collecting'
    BY <1>1, <1>2 DEF IInv, GenerationInv, Typed, Prompting, Collecting
  <2>2. Sound(inputs, rewards)'
    BY <1>1, <1>2 DEF IInv, GenerationInv, Scoring, Sound
  <2>3. Scoring'
    BY <1>1, <1>2, <2>2 DEF IInv, GenerationInv, Scoring
  <2>4. FirstBatch'
    BY <1>1, <1>2 DEF IInv, GenerationInv, FirstBatch, Sound
  <2>5. ChosenBatch'
    BY <1>1, <1>2 DEF IInv, GenerationInv, ChosenBatch
  <2>6. QED BY <2>1, <2>3, <2>4, <2>5 DEF GenerationInv
<1>4. Sound(inputs, rewards)
  BY <1>1 DEF IInv, GenerationInv, Scoring
<1>5. rewards \in Seq(Rewards) /\ Matched(inputs, rewards)
  BY <1>4 DEF Sound
<1>6. PICK n \in Nat : n = Len(rewards)
  BY <1>5, LenProperties
<1>7. PICK all : all = AllOf(inputs) /\ all = Of(rewards)
  BY <1>5, Gathered
<1>8. PICK new : new = buffer'
  OBVIOUS
<1>9. Filled(all, new)
  BY <1>5, <1>7, <1>8, FilledIs
<1>10. Buffered'
  <2>1. \A r \in Rank, m \in 1..MiniBatches :
          SizeOf(r, m)' = SizeOf(r, m) /\ \A t : Place(r, m, t)' = Place(r, m, t)
    BY <1>2 DEF SizeOf, Place
  <2>2. \A r \in Rank : DOMAIN buffer'[r] = 1..MiniBatches /\ Len(buffer'[r]) = MiniBatches
    BY <1>8, <1>9 DEF Filled
  <2>3. ASSUME NEW r \in Rank, NEW m \in 1..MiniBatches
        PROVE  /\ DOMAIN buffer'[r][m] = 1..SizeOf(r, m)' /\ Len(buffer'[r][m]) = SizeOf(r, m)'
               /\ \A t \in 1..SizeOf(r, m)' : buffer'[r][m][t].sample = rewards'[Place(r, m, t)'].of
    <3>1. /\ DOMAIN new[r][m] = 1..SizeOf(r, m) /\ Len(new[r][m]) = SizeOf(r, m)
          /\ \A t \in 1..SizeOf(r, m) : new[r][m][t].sample = rewards[Place(r, m, t)].of
      <4>1. /\ DOMAIN new[r][m] = 1..SizeOf(r, m) /\ Len(new[r][m]) = SizeOf(r, m)
            /\ \A t \in 1..SizeOf(r, m) :
                 new[r][m][t] = [sample |-> rewards[Place(r, m, t)].of, advantage |-> AdvantageOf(all, Place(r, m, t))]
        BY <1>9 DEF Filled
      <4>2. ASSUME NEW t \in 1..SizeOf(r, m) PROVE new[r][m][t].sample = rewards[Place(r, m, t)].of
        <5>1. new[r][m][t] = [sample |-> rewards[Place(r, m, t)].of, advantage |-> AdvantageOf(all, Place(r, m, t))]
          BY <4>1
        <5>2. QED BY <5>1
      <4>3. QED BY <4>1, <4>2
    <3>2. QED BY <1>2, <1>8, <2>1, <3>1
  <2>4. QED BY <2>2, <2>3 DEF Buffered
<1>11. step % GenerateEvery = 0
  BY <1>1 DEF IInv, TrainingInv
<1>12. Counting'
  <2>1. DOMAIN rewards = 1..n
    BY <1>5, <1>6, LenProperties
  <2>2. trained' = [s \in {rewards[i].of : i \in 1..n} |-> 0]
    BY <1>1, <2>1
  <2>3. ASSUME NEW r \in Rank, NEW m \in 1..MiniBatches, NEW t \in 1..SizeOf(r, m)
        PROVE  trained'[rewards[Place(r, m, t)].of] = Many(step % GenerateEvery, m, MiniBatches)
    <3>1. Place(r, m, t) \in 1..n
      BY <1>6, PlaceIn DEF Placed
    <3>2. trained'[rewards[Place(r, m, t)].of] = 0
      BY <2>2, <3>1
    <3>3. Many(0, m, MiniBatches) = 0
      BY Sizes, ManyAtFirst
    <3>4. QED BY <1>11, <3>2, <3>3
  <2>4. DOMAIN trained' = {rewards'[i].of : i \in 1..Len(rewards')}
    BY <1>2, <1>6, <2>2
  <2>5. \A r \in Rank, m \in 1..MiniBatches :
          SizeOf(r, m)' = SizeOf(r, m) /\ \A t : Place(r, m, t)' = Place(r, m, t)
    BY <1>2 DEF SizeOf, Place
  <2>6. step' = step
    BY <1>1
  <2>7. QED BY <1>2, <2>3, <2>4, <2>5, <2>6 DEF Counting
<1>13. ASSUME NEW e \in Entries'
       PROVE  \E p \in 1..n : e = [sample |-> rewards[p].of, advantage |-> AdvantageOf(all, p)]
  <2>1. e \in EntriesOf(new)
    BY <1>8, <1>13 DEF Entries, EntriesOf
  <2>2. QED BY <1>6, <1>9, <2>1, EntryIs
<1>14. OwnAdvantage'
  <2>1. \A p \in 1..n : AdvantageOf(all, p).of = rewards[p].of
    BY DEF AdvantageOf
  <2>2. QED BY <1>13, <2>1 DEF OwnAdvantage
<1>15. WholeGroups'
  <2>1. SUFFICES ASSUME bad = {}, NEW e \in Entries'
                 PROVE  e.advantage.prompts = {e.sample.prompt}
    BY <1>1 DEF WholeGroups, OnePromptGroups
  <2>2. PICK p \in 1..n : e = [sample |-> rewards[p].of, advantage |-> AdvantageOf(all, p)]
    BY <1>13
  <2>3. AdvantageOf(all, p).prompts = {rewards[p].of.prompt}
    BY <1>4, <1>6, <1>7, <2>1, <2>2, ComparedOnePrompt
  <2>4. QED BY <2>2, <2>3
<1>16. VariedGroups'
  <2>1. SUFFICES ASSUME mode = "dynamic_sample"
                 PROVE  \/ \A e \in Entries' : e.advantage.varied
                        \/ Len(valid) < Global /\ \A e \in Entries' : e.sample.request[2] = 0
    BY <1>1, <1>2 DEF VariedGroups
  <2>2. AllVary(rewards) \/ (Len(valid) < Global /\ OfRound(rewards, 0))
    BY <1>1, <2>1 DEF IInv, GenerationInv, ChosenBatch
  <2>3. CASE AllVary(rewards)
    <3>1. Len(rewards) = Global
      BY <1>4, <2>1 DEF Sound
    <3>2. \A p \in 1..n : AdvantageOf(all, p).varied
      BY <1>5, <1>6, <1>7, <2>3, <3>1, ComparedVary
    <3>3. QED BY <1>13, <3>2
  <2>4. CASE Len(valid) < Global /\ OfRound(rewards, 0)
    <3>1. \A p \in 1..n : rewards[p].of.request[2] = 0
      BY <1>6, <2>4 DEF OfRound
    <3>2. QED BY <1>13, <2>4, <3>1
  <2>5. QED BY <2>2, <2>3, <2>4
<1>17. TrainedAlike'
  BY <1>1 DEF TrainedAlike
<1>18. TrainingInv'
  BY <1>1, <1>10, <1>12, <1>14, <1>15, <1>16, <1>17 DEF TrainingInv
<1>19. QED BY <1>3, <1>18 DEF IInv

(* No completion is in two places of the buffers, ...                       *)
LEMMA OnePlace ==
  ASSUME NEW n \in Nat, n = Len(rewards), NEW r \in Rank, NEW q \in Rank,
         NEW m \in 1..MiniBatches, NEW k \in 1..MiniBatches,
         NEW t \in 1..SizeOf(r, m), NEW u \in 1..SizeOf(q, k), Place(r, m, t) = Place(q, k, u)
  PROVE  r = q /\ m = k /\ t = u
<1>1. PICK x, y : /\ x = From(Many(n, r, Ranks), m, MiniBatches) + t
                  /\ y = From(Many(n, q, Ranks), k, MiniBatches) + u
  OBVIOUS
<1>2. /\ x \in 1..Many(n, r, Ranks) /\ y \in 1..Many(n, q, Ranks)
      /\ From(n, r, Ranks) + x = From(n, q, Ranks) + y
  BY <1>1, PlaceIn DEF Placed
<1>3. Ranks \in Nat \ {0} /\ MiniBatches \in Nat \ {0} /\ r \in 1..Ranks /\ q \in 1..Ranks
  BY Sizes DEF Rank
<1>4. r = q /\ x = y
  BY <1>2, <1>3, OnePart
<1>5. PICK l \in Nat : l = Many(n, r, Ranks)
  BY <1>3, PartBounds
<1>6. t \in 1..Many(l, m, MiniBatches) /\ u \in 1..Many(l, k, MiniBatches)
  BY <1>4, <1>5 DEF SizeOf
<1>7. From(l, m, MiniBatches) + t = From(l, k, MiniBatches) + u
  BY <1>1, <1>4, <1>5
<1>8. m = k /\ t = u
  BY <1>3, <1>6, <1>7, OnePart
<1>9. QED BY <1>4, <1>8

(* ... and every one has a place.                                           *)
LEMMA PlaceOf ==
  ASSUME NEW n \in Nat, n = Len(rewards), NEW p \in 1..n
  PROVE  \E r \in Rank, m \in 1..MiniBatches : \E t \in 1..SizeOf(r, m) : p = Place(r, m, t)
<1>1. Ranks \in Nat \ {0} /\ MiniBatches \in Nat \ {0}
  BY Sizes
<1>2. PICK r \in 1..Ranks, x \in Nat : x \in 1..Many(n, r, Ranks) /\ p = From(n, r, Ranks) + x
  BY <1>1, PartOf
<1>3. PICK l \in Nat : l = Many(n, r, Ranks)
  BY <1>1, PartBounds
<1>4. x \in 1..l
  BY <1>2, <1>3
<1>5. PICK m \in 1..MiniBatches, t \in Nat : t \in 1..Many(l, m, MiniBatches) /\ x = From(l, m, MiniBatches) + t
  BY <1>1, <1>4, PartOf
<1>6. r \in Rank
  BY DEF Rank
<1>7. SizeOf(r, m) = Many(l, m, MiniBatches)
  BY <1>3 DEF SizeOf
<1>8. Place(r, m, t) = From(n, r, Ranks) + From(l, m, MiniBatches) + t
  BY <1>3 DEF Place
<1>9. From(n, r, Ranks) \in Nat /\ From(l, m, MiniBatches) \in Nat
  BY <1>1, PartBounds
<1>10. p = Place(r, m, t)
  BY <1>2, <1>5, <1>8, <1>9
<1>11. QED BY <1>5, <1>6, <1>7, <1>10

(* What a step counts: the completions of its mini batch, once.             *)
LEMMA CountedThere ==
  ASSUME Buffered, phase = "train", rewards \in Seq(Rewards), Distinct(rewards),
         NEW k \in 1..MiniBatches, NEW r \in Rank, NEW m \in 1..MiniBatches, NEW t \in 1..SizeOf(r, m)
  PROVE  Counted(k, rewards[Place(r, m, t)].of) = IF m = k THEN 1 ELSE 0
<1>1. PICK n \in Nat : n = Len(rewards)
  BY LenProperties
<1>2. PICK s : s = rewards[Place(r, m, t)].of
  OBVIOUS
<1>3. \A q \in Rank : Placed(n, q, k) /\ Len(buffer[q][k]) = SizeOf(q, k)
  BY <1>1, PlaceIn DEF Buffered
<1>4. SizesIn(k)
  BY <1>1, <1>3 DEF SizesIn, Placed
<1>5. Placed(n, r, m)
  BY <1>1, PlaceIn
<1>6. ASSUME NEW q \in Rank, NEW u \in 1..SizeOf(q, k), buffer[q][k][u].sample = s
      PROVE  r = q /\ m = k /\ t = u
  <2>1. buffer[q][k][u].sample = rewards[Place(q, k, u)].of
    BY DEF Buffered
  <2>2. Place(q, k, u) \in 1..n /\ Place(r, m, t) \in 1..n
    BY <1>3, <1>5 DEF Placed
  <2>3. Place(r, m, t) = Place(q, k, u)
    BY <1>1, <1>2, <1>6, <2>1, <2>2 DEF Distinct
  <2>4. QED BY <1>1, <2>3, OnePlace
<1>7. CASE m = k
  <2>1. buffer[r][k][t].sample = s /\ t \in 1..Len(buffer[r][k])
    BY <1>2, <1>3, <1>7 DEF Buffered
  <2>2. \A q \in Rank : \A j \in 1..Len(buffer[q][k]) : buffer[q][k][j].sample = s => q = r /\ j = t
    BY <1>3, <1>6
  <2>3. Counted(k, s) = 1
    BY <1>4, <2>1, <2>2, CountedOnce
  <2>4. QED BY <1>2, <1>7, <2>3
<1>8. CASE m # k
  <2>1. \A q \in Rank : \A j \in 1..Len(buffer[q][k]) : buffer[q][k][j].sample # s
    BY <1>3, <1>6, <1>8
  <2>2. Counted(k, s) = 0
    BY <2>1, NotCounted
  <2>3. QED BY <1>2, <1>8, <2>2
<1>9. QED BY <1>7, <1>8

(* After a step each completion has counted as often as its mini batch was  *)
(* used.                                                                    *)
LEMMA NextTrained ==
  ASSUME IInv, Train,
         NEW r \in Rank, NEW m \in 1..MiniBatches, NEW t \in 1..SizeOf(r, m)
  PROVE  trained'[rewards[Place(r, m, t)].of] = Many((step % GenerateEvery) + 1, m, MiniBatches)
<1>1. /\ phase = "train" /\ step \in Nat
      /\ trained' = [s \in DOMAIN trained |-> trained[s] + Counted((step % MiniBatches) + 1, s)]
  BY DEF Train, IInv, GenerationInv, Typed
<1>2. rewards \in Seq(Rewards) /\ Distinct(rewards) /\ Buffered
  BY <1>1 DEF IInv, GenerationInv, Scoring, Sound, TrainingInv
<1>3. PICK n \in Nat : n = Len(rewards)
  BY <1>2, LenProperties
<1>4. Place(r, m, t) \in 1..n
  BY <1>3, PlaceIn DEF Placed
<1>5. PICK s : s = rewards[Place(r, m, t)].of
  OBVIOUS
<1>6. s \in DOMAIN trained /\ trained[s] = Many(step % GenerateEvery, m, MiniBatches)
  <2>1. /\ DOMAIN trained = {rewards[i].of : i \in 1..Len(rewards)}
        /\ trained[rewards[Place(r, m, t)].of] = Many(step % GenerateEvery, m, MiniBatches)
    BY <1>1 DEF IInv, TrainingInv, Counting
  <2>2. QED BY <1>3, <1>4, <1>5, <2>1
<1>7. MiniBatches \in Nat \ {0} /\ Iterations \in Nat \ {0} /\ GenerateEvery = MiniBatches * Iterations
      /\ GenerateEvery \in Nat \ {0}
  BY Sizes, Steps
<1>8. PICK j \in Nat : j = step % GenerateEvery
  BY <1>1, <1>7, Division
<1>9. j % MiniBatches = step % MiniBatches
  <2>1. (step % (MiniBatches * Iterations)) % MiniBatches = step % MiniBatches
    BY <1>1, <1>7, RestOfRest
  <2>2. QED BY <1>7, <1>8, <2>1
<1>10. PICK k \in 1..MiniBatches : k = (step % MiniBatches) + 1
  <2>1. step % MiniBatches \in Nat /\ step % MiniBatches < MiniBatches
    BY <1>1, <1>7, Division
  <2>2. (step % MiniBatches) + 1 \in 1..MiniBatches
    BY <1>7, <2>1
  <2>3. QED BY <2>2
<1>11. Counted(k, s) = IF m = k THEN 1 ELSE 0
  BY <1>1, <1>2, <1>5, CountedThere
<1>12. Many(j + 1, m, MiniBatches) = Many(j, m, MiniBatches) + IF m = (j % MiniBatches) + 1 THEN 1 ELSE 0
  BY <1>7, ManyNext
<1>13. trained'[s] = trained[s] + Counted(k, s)
  BY <1>1, <1>6, <1>10
<1>14. (j % MiniBatches) + 1 = k
  BY <1>9, <1>10
<1>15. QED BY <1>5, <1>6, <1>8, <1>11, <1>12, <1>13, <1>14

LEMMA TrainStep == ASSUME IInv, Train PROVE IInv'
<1>1. /\ phase = "train" /\ step \in Nat /\ step' = step + 1
      /\ phase' = IF step' % GenerateEvery = 0 THEN "idle" ELSE "train"
      /\ UNCHANGED <<mode, bad, loop, buffer>>
      /\ DOMAIN trained' = DOMAIN trained
  BY DEF Train, IInv, GenerationInv, Typed
<1>2. UNCHANGED <<drawn, singles, inputs, rewards, origin, valid, resampled>>
  BY <1>1 DEF loop
<1>3. phase' \in {"idle", "train"}
  BY <1>1
<1>4. GenerationInv'
  <2>1. Typed' /\ Prompting' /\ Collecting'
    BY <1>1, <1>2, <1>3 DEF IInv, GenerationInv, Typed, Prompting, Collecting
  <2>2. Sound(inputs, rewards)'
    BY <1>1, <1>2 DEF IInv, GenerationInv, Scoring, Sound
  <2>3. Scoring'
    BY <1>1, <1>2, <1>3, <2>2 DEF IInv, GenerationInv, Scoring
  <2>4. FirstBatch'
    BY <1>1, <1>2, <1>3 DEF IInv, GenerationInv, FirstBatch, Sound
  <2>5. ChosenBatch'
    BY <1>1, <1>2, <1>3 DEF IInv, GenerationInv, ChosenBatch
  <2>6. QED BY <2>1, <2>3, <2>4, <2>5 DEF GenerationInv
<1>5. \A r \in Rank, m \in 1..MiniBatches :
        SizeOf(r, m)' = SizeOf(r, m) /\ \A t : Place(r, m, t)' = Place(r, m, t)
  BY <1>2 DEF SizeOf, Place
<1>6. /\ Buffered /\ OwnAdvantage /\ WholeGroups /\ VariedGroups
      /\ DOMAIN trained = {rewards[i].of : i \in 1..Len(rewards)}
  BY <1>1 DEF IInv, TrainingInv, Counting
<1>7. Buffered'
  <2>1. \A r \in Rank :
          /\ DOMAIN buffer[r] = 1..MiniBatches /\ Len(buffer[r]) = MiniBatches
          /\ \A m \in 1..MiniBatches :
               /\ DOMAIN buffer[r][m] = 1..SizeOf(r, m) /\ Len(buffer[r][m]) = SizeOf(r, m)
               /\ \A t \in 1..SizeOf(r, m) : buffer[r][m][t].sample = rewards[Place(r, m, t)].of
    BY <1>1, <1>6 DEF Buffered
  <2>2. QED BY <1>1, <1>2, <1>5, <2>1 DEF Buffered
<1>8. Entries' = Entries
  BY <1>1 DEF Entries
<1>9. OwnAdvantage' /\ WholeGroups' /\ VariedGroups'
  <2>1. OwnAdvantage'
    BY <1>1, <1>6, <1>8 DEF OwnAdvantage
  <2>2. WholeGroups'
    BY <1>1, <1>6, <1>8 DEF WholeGroups, OnePromptGroups
  <2>3. VariedGroups'
    BY <1>1, <1>2, <1>6, <1>8 DEF VariedGroups
  <2>4. QED BY <2>1, <2>2, <2>3
<1>10. MiniBatches \in Nat \ {0} /\ Iterations \in Nat \ {0} /\ GenerateEvery = MiniBatches * Iterations
       /\ GenerateEvery \in Nat \ {0}
  BY Sizes, Steps
<1>11. PICK j \in Nat : j = step % GenerateEvery
  BY <1>1, <1>10, Division
<1>12. IF j + 1 = GenerateEvery THEN step' % GenerateEvery = 0 ELSE step' % GenerateEvery = j + 1
  BY <1>1, <1>10, <1>11, NextRest
<1>13. \A r \in Rank, m \in 1..MiniBatches : \A t \in 1..SizeOf(r, m) :
         trained'[rewards[Place(r, m, t)].of] = Many(j + 1, m, MiniBatches)
  BY <1>11, NextTrained
<1>14. CASE j + 1 = GenerateEvery
  <2>1. phase' = "idle" /\ step' % GenerateEvery = 0
    BY <1>1, <1>12, <1>14
  <2>2. Counting'
    BY <2>1 DEF Counting
  <2>3. TrainedAlike'
    <3>1. PICK n \in Nat : n = Len(rewards)
      BY <1>1, LenProperties DEF IInv, GenerationInv, Scoring, Sound
    <3>2. ASSUME NEW s \in DOMAIN trained PROVE trained'[s] = Iterations
      <4>1. PICK p \in 1..n : s = rewards[p].of
        BY <1>6, <3>1, <3>2
      <4>2. PICK r \in Rank, m \in 1..MiniBatches : \E t \in 1..SizeOf(r, m) : p = Place(r, m, t)
        BY <3>1, <4>1, PlaceOf
      <4>3. PICK t \in 1..SizeOf(r, m) : p = Place(r, m, t)
        BY <4>2
      <4>4. trained'[s] = Many(MiniBatches * Iterations, m, MiniBatches)
        BY <1>10, <1>13, <1>14, <4>1, <4>2, <4>3
      <4>5. Many(MiniBatches * Iterations, m, MiniBatches) = Iterations
        BY <1>10, <4>2, ManyAtLast
      <4>6. QED BY <4>4, <4>5
    <3>3. QED BY <1>1, <3>2 DEF TrainedAlike
  <2>4. TrainingInv'
    BY <1>7, <1>9, <2>1, <2>2, <2>3 DEF TrainingInv
  <2>5. QED BY <1>4, <2>4 DEF IInv
<1>15. CASE j + 1 # GenerateEvery
  <2>1. step' % GenerateEvery = j + 1 /\ j + 1 # 0
    BY <1>12, <1>15
  <2>2. phase' = "train"
    BY <1>1, <2>1
  <2>3. Counting'
    <3>1. DOMAIN trained' = {rewards'[i].of : i \in 1..Len(rewards')}
      BY <1>1, <1>2, <1>6
    <3>2. \A r \in Rank : \A m \in 1..MiniBatches : \A t \in 1..SizeOf(r, m)' :
            trained'[rewards'[Place(r, m, t)'].of] = Many(step' % GenerateEvery, m, MiniBatches)
      BY <1>2, <1>5, <1>13, <2>1
    <3>3. QED BY <3>1, <3>2 DEF Counting
  <2>4. TrainedAlike'
    BY <2>2 DEF TrainedAlike
  <2>5. TrainingInv'
    BY <1>7, <1>9, <2>2, <2>3, <2>4 DEF TrainingInv
  <2>6. QED BY <1>4, <2>5 DEF IInv
<1>16. QED BY <1>14, <1>15

-----------------------------------------------------------------------------
(* The invariant holds at first, and every step preserves it.               *)
LEMMA BeforeTraining ==
  ASSUME IInv, phase # "train", phase' \notin {"train", "idle"}, step' = step
  PROVE  TrainingInv'
<1>1. step % GenerateEvery = 0
  BY DEF IInv, TrainingInv
<1>2. Buffered' /\ Counting' /\ OwnAdvantage' /\ WholeGroups' /\ VariedGroups' /\ TrainedAlike'
  BY DEF Buffered, Counting, OwnAdvantage, WholeGroups, OnePromptGroups, VariedGroups, TrainedAlike
<1>3. QED BY <1>1, <1>2 DEF TrainingInv

LEMMA Unchanged == ASSUME IInv, UNCHANGED grpoVars PROVE IInv'
<1>1. UNCHANGED <<mode, bad, phase, step, drawn, singles, inputs, rewards, origin, valid, resampled, buffer, trained>>
  BY DEF grpoVars, loop
<1>2. Typed' /\ Prompting' /\ ChosenBatch'
  BY <1>1 DEF IInv, GenerationInv, Typed, Prompting, ChosenBatch
<1>3. Scoring' /\ FirstBatch'
  BY <1>1 DEF IInv, GenerationInv, Scoring, FirstBatch, Sound
<1>4. Collecting'
  BY <1>1 DEF IInv, GenerationInv, Collecting, Kept
<1>5. \A r \in Rank, m \in 1..MiniBatches :
        SizeOf(r, m)' = SizeOf(r, m) /\ \A t : Place(r, m, t)' = Place(r, m, t)
  BY <1>1 DEF SizeOf, Place
<1>6. Buffered' /\ Counting'
  BY <1>1, <1>5 DEF IInv, TrainingInv, Buffered, Counting
<1>7. Entries' = Entries
  BY <1>1 DEF Entries
<1>8. OwnAdvantage' /\ WholeGroups' /\ VariedGroups' /\ TrainedAlike'
  BY <1>1, <1>7 DEF IInv, TrainingInv, OwnAdvantage, WholeGroups, OnePromptGroups, VariedGroups, TrainedAlike
<1>9. (phase # "train" => step % GenerateEvery = 0)'
  BY <1>1 DEF IInv, TrainingInv
<1>10. QED BY <1>2, <1>3, <1>4, <1>6, <1>8, <1>9 DEF IInv, GenerationInv, TrainingInv

(* For every number of ranks, samples, generations, mini batches,           *)
(* iterations and resamplings: what each list holds in each phase, which    *)
(* completion each entry of the buffer is, and how often each has counted   *)
(* (_prepare_inputs and what it calls).                                     *)
THEOREM Invariance == GrpoSpec => []IInv
<1>1. GrpoInit => IInv
  <2> SUFFICES ASSUME GrpoInit PROVE IInv
    OBVIOUS
  <2>1. /\ phase = "idle" /\ step = 0 /\ resampled = 0 /\ trained = << >>
        /\ drawn = [train |-> 0, dynamic |-> 0] /\ singles = [r \in Rank |-> 0]
    BY DEF GrpoInit
  <2>2. Typed
    BY <2>1 DEF Typed
  <2>3. GenerationInv
    BY <2>1, <2>2 DEF GenerationInv, Prompting, Scoring, FirstBatch, Collecting, ChosenBatch
  <2>4. 0 % GenerateEvery = 0
    <3>1. 0 \in 0..GenerateEvery - 1 /\ GenerateEvery \in Nat \ {0} /\ GenerateEvery * 0 + 0 = 0
      BY Steps
    <3>2. (GenerateEvery * 0 + 0) % GenerateEvery = 0
      BY <3>1, Rest
    <3>3. QED BY <3>1, <3>2
  <2>5. TrainingInv
    BY <2>1, <2>4 DEF TrainingInv, Buffered, Counting, OwnAdvantage, WholeGroups, OnePromptGroups,
                      VariedGroups, TrainedAlike
  <2>6. QED BY <2>3, <2>5 DEF IInv
<1>2. IInv /\ [GrpoNext]_grpoVars => IInv'
  <2> SUFFICES ASSUME IInv, [GrpoNext]_grpoVars PROVE IInv'
    OBVIOUS
  <2>1. GenerationInv
    BY DEF IInv
  <2>2. CASE Draw
    BY <2>1, <2>2, DrawStep, BeforeTraining DEF Draw, IInv
  <2>3. CASE ReplaceFailed
    BY <2>1, <2>3, EncodeStep, BeforeTraining DEF ReplaceFailed, IInv
  <2>4. CASE Generate
    <3>1. phase = "generate" /\ phase' \in {"measure", "prepare"} /\ step' = step
      BY <2>4 DEF Generate
    <3>2. QED BY <2>1, <2>4, <3>1, GenerateStep, BeforeTraining DEF IInv
  <2>5. CASE Measure
    <3>1. phase = "measure" /\ phase' \in {"take", "encode"} /\ step' = step
      BY <2>5 DEF Measure
    <3>2. QED BY <2>1, <2>5, <3>1, MeasureStep, BeforeTraining DEF IInv
  <2>6. CASE TakeValid
    BY <2>1, <2>6, TakeStep, BeforeTraining DEF TakeValid, IInv
  <2>7. CASE GiveUp
    BY <2>1, <2>7, GiveUpStep, BeforeTraining DEF GiveUp, IInv
  <2>8. CASE Prepare
    BY <2>8, PrepareStep
  <2>9. CASE Train
    BY <2>9, TrainStep
  <2>10. CASE UNCHANGED grpoVars
    BY <2>10, Unchanged
  <2>11. QED
    BY <2>2, <2>3, <2>4, <2>5, <2>6, <2>7, <2>8, <2>9, <2>10 DEF GrpoNext, GrpoTerminated
<1>3. QED BY <1>1, <1>2, PTL DEF GrpoSpec

(* An advantage is attached to the completion its reward was given to,      *)
(* however the samples and the rewards were resampled, truncated and split  *)
(* (_dynamic_sampling, _generate_and_score_completions).                    *)
THEOREM AdvantagesAreOwn == GrpoSpec => []OwnAdvantage
<1>1. IInv => OwnAdvantage
  BY DEF IInv, TrainingInv
<1>2. QED BY <1>1, Invariance, PTL

(* If every prompt can be encoded, a completion is compared with            *)
(* completions of its own prompt only, also when a request has several      *)
(* outputs (_compute_advantages).                                           *)
THEOREM GroupsAreWhole == GrpoSpec => []WholeGroups
<1>1. IInv => WholeGroups
  BY DEF IInv, TrainingInv
<1>2. QED BY <1>1, Invariance, PTL

(* With dynamic_sample every group that is trained on has rewards that      *)
(* vary, or all rounds together had too few of them (_dynamic_sampling).    *)
THEOREM GroupsVary == GrpoSpec => []VariedGroups
<1>1. IInv => VariedGroups
  BY DEF IInv, TrainingInv
<1>2. QED BY <1>1, Invariance, PTL

(* When a generation is over each of its completions has counted            *)
(* num_iterations times, in mini batches of whatever different lengths      *)
(* (split_by_mini_batches, _compute_loss_chunked).                          *)
THEOREM AllTrainedAlike == GrpoSpec => []TrainedAlike
<1>1. IInv => TrainedAlike
  BY DEF IInv, TrainingInv
<1>2. QED BY <1>1, Invariance, PTL

-----------------------------------------------------------------------------
(* How many batches are drawn.                                              *)
LEMMA Limits ==
  ASSUME Bounded, Typed
  PROVE  /\ drawn.dynamic \in Nat /\ drawn.train \in Nat /\ resampled \in Nat
         /\ drawn.dynamic <= Generations * MaxResample
<1>1. Generations \in Nat /\ MaxResample \in Nat
  BY BatchConstants DEF BatchConstants
<1>2. PICK t \in Nat, d \in Nat : t = drawn.train /\ d = drawn.dynamic
  BY DEF Typed
<1>3. PICK z \in Nat, w \in Nat : z = t * MaxResample /\ w = Generations * MaxResample
  BY <1>1, Product
<1>4. t <= Generations /\ d <= z
  BY <1>2, <1>3 DEF Bounded
<1>5. z <= w
  BY <1>1, <1>3, <1>4, Monotone
<1>6. d <= w
  BY <1>3, <1>4, <1>5
<1>7. QED BY <1>2, <1>3, <1>6 DEF Typed

LEMMA BoundedStep == ASSUME Bounded, Typed, [GrpoNext]_grpoVars PROVE Bounded'
<1>1. Generations \in Nat /\ MaxResample \in Nat
  BY BatchConstants DEF BatchConstants
<1>2. PICK t \in Nat, d \in Nat : t = drawn.train /\ d = drawn.dynamic /\ drawn \in [train : Nat, dynamic : Nat]
  BY DEF Typed
<1>3. resampled \in Nat
  BY DEF Typed
<1>4. CASE Draw
  <2>1. /\ phase = "idle" /\ t < Generations /\ drawn'.train = t + 1 /\ drawn'.dynamic = d
        /\ resampled' = 0 /\ phase' = "encode"
    BY <1>2, <1>4 DEF Draw
  <2>2. PICK z \in Nat : z = t * MaxResample
    BY <1>1, Product
  <2>3. d <= z
    BY <1>2, <2>2 DEF Bounded
  <2>4. (t + 1) * MaxResample = z + MaxResample /\ ((t + 1) - 1) * MaxResample + 0 = z
    BY <1>1, <2>2, Successor
  <2>5. d <= (t + 1) * MaxResample
    BY <1>1, <2>3, <2>4
  <2>6. 0 <= MaxResample /\ t + 1 <= Generations /\ t + 1 > 0
    BY <1>1, <2>1
  <2>7. d <= ((t + 1) - 1) * MaxResample + 0
    BY <2>3, <2>4
  <2>8. QED BY <2>1, <2>5, <2>6, <2>7 DEF Bounded
<1>5. CASE Measure
  <2>1. phase = "measure" /\ resampled < MaxResample
    BY <1>5 DEF Measure
  <2>2. CASE phase' = "take" /\ UNCHANGED <<drawn, inputs, resampled>>
    BY <2>1, <2>2 DEF Bounded
  <2>3. CASE /\ drawn' = [drawn EXCEPT !.dynamic = @ + 1] /\ resampled' = resampled + 1 /\ phase' = "encode"
    <3>1. drawn'.train = t /\ drawn'.dynamic = d + 1
      BY <1>2, <2>3
    <3>2. t > 0 /\ t <= Generations /\ d <= (t - 1) * MaxResample + resampled
      BY <1>2, <2>1 DEF Bounded
    <3>3. PICK s \in Nat : s = t - 1 /\ t = s + 1
      BY <3>2
    <3>4. PICK z \in Nat : z = s * MaxResample /\ (s + 1) * MaxResample = z + MaxResample
      BY <1>1, Product, Successor
    <3>5. (t - 1) * MaxResample = z /\ t * MaxResample = z + MaxResample
      BY <3>3, <3>4
    <3>6. d <= z + resampled
      BY <3>2, <3>5
    <3>7. d + 1 <= z + (resampled + 1) /\ d + 1 <= z + MaxResample /\ resampled + 1 <= MaxResample
      BY <1>1, <1>3, <2>1, <3>6
    <3>8. d + 1 <= (t - 1) * MaxResample + (resampled + 1) /\ d + 1 <= t * MaxResample
      BY <3>5, <3>7
    <3>9. QED BY <2>3, <3>1, <3>2, <3>7, <3>8 DEF Bounded
  <2>4. QED BY <1>5, <2>2, <2>3 DEF Measure
<1>6. CASE ReplaceFailed
  BY <1>6 DEF ReplaceFailed, Bounded
<1>7. CASE Generate
  BY <1>7 DEF Generate, Bounded
<1>8. CASE TakeValid
  BY <1>8 DEF TakeValid, Bounded
<1>9. CASE GiveUp
  BY <1>9 DEF GiveUp, Bounded
<1>10. CASE Prepare
  <2>1. phase = "prepare" /\ phase' = "train" /\ UNCHANGED <<drawn, resampled>>
    BY <1>10 DEF Prepare, loop
  <2>2. QED BY <2>1 DEF Bounded
<1>11. CASE Train
  <2>1. phase = "train" /\ phase' \in {"idle", "train"} /\ UNCHANGED <<drawn, resampled>>
    BY <1>11 DEF Train, loop
  <2>2. QED BY <2>1 DEF Bounded
<1>12. CASE UNCHANGED grpoVars
  BY <1>12 DEF grpoVars, loop, Bounded
<1>13. QED
  BY <1>4, <1>5, <1>6, <1>7, <1>8, <1>9, <1>10, <1>11, <1>12 DEF GrpoNext, GrpoTerminated

LEMMA InvTypeOK == ASSUME IInv, Bounded PROVE GrpoTypeOK
<1>1. Typed
  BY DEF IInv, GenerationInv
<1>2. resampled <= MaxResample /\ drawn.dynamic <= Generations * MaxResample
  BY <1>1, Limits DEF Bounded
<1>3. ASSUME phase = "measure", NEW r \in Rank PROVE Len(inputs[r]) = Local
  <2>1. /\ rewards \in Seq(Rewards) /\ Len(rewards) = Global /\ Matched(inputs, rewards)
    BY <1>3 DEF IInv, GenerationInv, Scoring, Sound
  <2>2. Of(rewards) \in Seq(Completions) /\ Len(Of(rewards)) = Global
    BY <2>1, OfIs
  <2>3. IsPart(EvenPart(Of(rewards), r, Ranks), Of(rewards), (r - 1) * Local, Local)
    BY <2>2, Sharding DEF Rank
  <2>4. QED BY <2>1, <2>3 DEF Matched, IsPart
<1>4. phase = "generate" => \A r \in Rank : Len(inputs[r]) = Local
  BY DEF IInv, GenerationInv, Prompting
<1>5. phase = "take" => Len(valid) >= Global
  BY DEF IInv, GenerationInv, Collecting
<1>6. phase = "train" => \A r \in Rank : Len(buffer[r]) = MiniBatches
  BY DEF IInv, TrainingInv, Buffered
<1>7. QED BY <1>1, <1>2, <1>3, <1>4, <1>5, <1>6 DEF GrpoTypeOK, Typed

(* The type invariant: each rank has its number of samples to generate for  *)
(* and of mini batches to train on, and resampling keeps to its limit       *)
(* (_dynamic_sampling, split_by_mini_batches).                              *)
THEOREM TypeCorrect == GrpoSpec => []GrpoTypeOK
<1>1. GrpoInit => Bounded
  <2> SUFFICES ASSUME GrpoInit PROVE Bounded
    OBVIOUS
  <2>1. phase = "idle" /\ resampled = 0 /\ drawn.train = 0 /\ drawn.dynamic = 0
    BY DEF GrpoInit
  <2>2. Generations \in Nat /\ MaxResample \in Nat
    BY BatchConstants DEF BatchConstants
  <2>3. 0 * MaxResample = 0
    BY <2>2
  <2>4. QED BY <2>1, <2>2, <2>3 DEF Bounded
<1>2. IInv /\ Bounded /\ [GrpoNext]_grpoVars => Bounded'
  BY BoundedStep DEF IInv, GenerationInv
<1>3. IInv /\ Bounded => GrpoTypeOK
  BY InvTypeOK
<1>4. QED BY <1>1, <1>2, <1>3, Invariance, PTL DEF GrpoSpec

-----------------------------------------------------------------------------
(* The distillation loss (SdpoRouting).                                     *)

(* How far the ranks may be apart: only between the two collectives around  *)
(* the teacher's batch, or after a rank has raised.                         *)
LockStep ==
  \A q, r \in Rank :
    /\ pc[q] \in {"route", "reduce", "done"} => pc[r] = pc[q]
    /\ pc[q] = "gather" => pc[r] \in {"gather", "raised"}

PcOK == pc \in [Rank -> {"route", "reduce", "open", "save", "encode", "forward",
                         "gather", "done", "raised"}]

LEMMA LockStepInit == SdpoInit => PcOK /\ LockStep
BY DEF SdpoInit, PcOK, LockStep

(* Both ways out of the all_reduce are taken by all ranks alike, because    *)
(* they are decided by the mask of all of them.                             *)
LEMMA LockStepNext == PcOK /\ LockStep /\ [SdpoNext]_sdpoVars => PcOK' /\ LockStep'
<1> SUFFICES ASSUME PcOK, LockStep, [SdpoNext]_sdpoVars PROVE PcOK' /\ LockStep'
  OBVIOUS
<1>1. CASE Routing
  BY <1>1 DEF Routing, PcOK, LockStep
<1>2. CASE AllReduce
  <2>1. \A q, r \in Rank : AnyMasked(q) = AnyMasked(r)
    BY DEF AnyMasked
  <2>2. CASE \A r \in Rank : AnyMasked(r)
    BY <1>2, <2>2 DEF AllReduce, PcOK, LockStep
  <2>3. CASE \A r \in Rank : ~AnyMasked(r)
    BY <1>2, <2>3 DEF AllReduce, PcOK, LockStep
  <2> QED
    BY <2>1, <2>2, <2>3
<1>3. CASE Forward
  BY <1>3 DEF Forward, PcOK, LockStep
<1>4. CASE Gather
  <2>1. CASE mini' = MiniBatches
    BY <1>4, <2>1 DEF Gather, PcOK, LockStep
  <2>2. CASE mini' # MiniBatches
    BY <1>4, <2>2 DEF Gather, PcOK, LockStep
  <2> QED
    BY <2>1, <2>2
<1>5. ASSUME NEW r \in Rank, Raise(r) \/ Open(r) \/ Save(r) \/ Encode(r) \/ EncodePlain(r)
      PROVE  PcOK' /\ LockStep'
  <2>1. /\ pc[r] \in {"open", "save", "encode"}
        /\ \E p \in {"open", "save", "encode", "forward", "raised"} : pc' = [pc EXCEPT ![r] = p]
    <3>1. CASE Raise(r)
      BY <3>1 DEF Raise
    <3>2. CASE Open(r)
      BY <3>2 DEF Open
    <3>3. CASE Save(r)
      BY <3>3 DEF Save
    <3>4. CASE Encode(r)
      BY <3>4 DEF Encode, AddRow
    <3>5. CASE EncodePlain(r)
      BY <3>5 DEF EncodePlain, AddRow
    <3> QED
      BY <1>5, <3>1, <3>2, <3>3, <3>4, <3>5
  <2> QED
    BY <2>1 DEF PcOK, LockStep
<1>6. CASE UNCHANGED sdpoVars
  BY <1>6 DEF sdpoVars, PcOK, LockStep
<1> QED
  BY <1>1, <1>2, <1>3, <1>4, <1>5, <1>6 DEF SdpoNext, SdpoTerminated

(* No rank waits in the teacher's forward pass for one that has left it out *)
(* (_compute_sdpo_loss), for every number of ranks and mini batches.        *)
THEOREM CollectivesAgree == SdpoSpec => []SameCollective
<1>1. PcOK /\ LockStep => SameCollective
  BY DEF PcOK, LockStep, SameCollective, Collectives
<1> QED
  BY <1>1, LockStepInit, LockStepNext, PTL DEF SdpoSpec

-----------------------------------------------------------------------------
Aligned == Local % Group = 0

(* The samples of two ranks are never of one prompt.                        *)
LEMMA PromptsApart ==
  ASSUME Aligned, NEW q \in Rank, NEW r \in Rank, q < r, NEW i \in Sample, NEW j \in Sample
  PROVE  Prompt(q, i) # Prompt(r, j)
<1> DEFINE k == Local \div Group
           x == (q - 1) * Local + i - 1
           y == (r - 1) * Local + j - 1
<1>1. Local \in Nat \ {0} /\ Group \in Nat \ {0} /\ q \in Nat /\ r \in Nat /\ i \in Nat /\ j \in Nat
      /\ i >= 1 /\ i <= Local /\ j >= 1 /\ q >= 1 /\ q <= r - 1
  BY BatchShape, SdpoConstants DEF Rank, Sample
<1>2. k \in Nat /\ Local = Group * k
  BY <1>1 DEF Aligned
<1>3. x \in Nat /\ x < q * Local
  BY <1>1
<1>4. q * Local <= (r - 1) * Local
  BY <1>1
<1>5. y \in Nat /\ q * Local <= y
  BY <1>1, <1>4
<1> HIDE DEF k, x, y
<1>6. Group * (x \div Group) < Group * (q * k) /\ x \div Group \in Nat
  BY <1>1, <1>2, <1>3, Division
<1>7. x \div Group < q * k
  BY <1>1, <1>2, <1>6
<1>8. Group * (q * k) < Group * (y \div Group + 1) /\ y \div Group \in Nat
  BY <1>1, <1>2, <1>5, Division
<1>9. q * k < y \div Group + 1
  BY <1>1, <1>2, <1>8
<1> QED
  BY <1>1, <1>2, <1>6, <1>7, <1>8, <1>9 DEF Prompt, x, y

(* ... and so two ranks never have a file in common.                        *)
LEMMA FilesApart ==
  ASSUME Aligned, NEW q \in Rank, NEW r \in Rank, q # r, NEW i \in Sample, NEW j \in Sample
  PROVE  FileName(q, i) # FileName(r, j)
<1>1. q < r \/ r < q
  BY BatchShape, SdpoConstants DEF Rank
<1>2. Prompt(q, i) # Prompt(r, j)
  BY <1>1, PromptsApart
<1> QED
  BY <1>2 DEF FileName

-----------------------------------------------------------------------------
(* What the teacher may be shown with sample i of rank r.                   *)
Shown(image, r, i) ==
  \/ image = Drawn(r, i)
  \/ hint[r][i].type = "skip" /\ image = Plain(Prompt(r, i))

RowOK ==
  /\ row \in [Rank -> Int] /\ DOMAIN images = Rank
  /\ \A r \in Rank : pc[r] \in {"save", "encode"} => row[r] \in Sample

FileOK ==
  \A r \in Rank : pc[r] = "encode" =>
    /\ FileName(r, row[r]) \in DOMAIN files
    /\ files[FileName(r, row[r])] = Drawn(r, row[r])

ImagesOK ==
  \A r \in Rank : \A e \in images[r] : e.sample \in Sample /\ Shown(e.shows, r, e.sample)

(* The hints are known before the first image is drawn.                     *)
NothingDrawn == \A r \in Rank : pc[r] = "route" => images[r] = {} /\ taught = {}

DrawingInv == PcOK /\ RowOK /\ FileOK /\ ImagesOK /\ NothingDrawn /\ OwnImage

LEMMA DrawingInit == SdpoInit => DrawingInv
BY DEF SdpoInit, DrawingInv, PcOK, RowOK, FileOK, ImagesOK, NothingDrawn, OwnImage

LEMMA FollowingInBatch ==
  ASSUME NEW r \in Rank PROVE Following(r) \subseteq Sample
BY DEF Following, Chosen, Failed, Batch

(* What a rank has saved stays as it is while another rank writes.          *)
LEMMA FileKept ==
  ASSUME Aligned, PcOK, RowOK, FileOK, NEW q \in Rank, NEW i \in Sample,
         \E image : files' = Written(FileName(q, i), image),
         \E p \in {"save", "encode"} : pc' = [pc EXCEPT ![q] = p],
         row' = row \/ row' = [row EXCEPT ![q] = i],
         UNCHANGED <<args, hint>>
  PROVE  \A r \in Rank \ {q} : pc'[r] = "encode" =>
           /\ FileName(r, row[r])' \in DOMAIN files'
           /\ files'[FileName(r, row[r])'] = Drawn(r, row[r])'
<1> SUFFICES ASSUME NEW r \in Rank, r # q, pc'[r] = "encode"
             PROVE  /\ FileName(r, row[r])' \in DOMAIN files'
                    /\ files'[FileName(r, row[r])'] = Drawn(r, row[r])'
  OBVIOUS
<1>1. pc[r] = "encode" /\ row[r] \in Sample /\ row'[r] = row[r]
  BY DEF RowOK, PcOK
<1>2. FileName(r, row[r])' = FileName(r, row[r])
  BY <1>1 DEF FileName
<1>3. FileName(r, row[r]) \in DOMAIN files /\ files[FileName(r, row[r])] = Drawn(r, row[r])
  BY <1>1 DEF FileOK
<1>4. FileName(r, row[r]) # FileName(q, i)
  BY <1>1, FilesApart
<1>5. files'[FileName(r, row[r])] = files[FileName(r, row[r])] /\ FileName(r, row[r]) \in DOMAIN files'
  BY <1>3, <1>4 DEF Written
<1>6. Drawn(r, row[r])' = Drawn(r, row[r])
  BY <1>1 DEF Drawn, Prompt, Shows
<1> QED
  BY <1>1, <1>2, <1>3, <1>5, <1>6

(* An image that may be shown with a sample is of its prompt, and complete. *)
LEMMA ShownIsOwn ==
  ASSUME NEW r, NEW i, NEW image, Shown(image, r, i)
  PROVE  image.kind # "truncated" /\ image.prompt = Prompt(r, i)
<1>1. CASE image = Drawn(r, i)
  BY <1>1 DEF Drawn, Shows
<1>2. CASE image = Plain(Prompt(r, i))
  BY <1>2 DEF Plain, Shows
<1> QED
  BY <1>1, <1>2 DEF Shown

LEMMA ImagesKept ==
  ASSUME ImagesOK, UNCHANGED <<hint, images>> PROVE ImagesOK'
BY DEF ImagesOK, Shown, Drawn, Plain, Shows, Prompt

(* A row of the teacher's batch shows what the hint of its sample says.     *)
LEMMA RowAdded ==
  ASSUME ImagesOK, RowOK, NEW r \in Rank, NEW i \in Sample, NEW image,
         AddRow(r, i, image), Shown(image, r, i)
  PROVE  ImagesOK' /\ DOMAIN images' = Rank
<1>1. UNCHANGED hint /\ images' = [images EXCEPT ![r] = @ \cup {[sample |-> i, shows |-> image]}]
  BY DEF AddRow
<1>2. \A q, j, m : Shown(m, q, j)' = Shown(m, q, j)
  BY <1>1 DEF Shown, Drawn, Plain, Shows, Prompt
<1>3. ASSUME NEW q \in Rank, NEW e \in images'[q]
      PROVE  e.sample \in Sample /\ Shown(e.shows, q, e.sample)
  <2>1. CASE e \in images[q]
    BY <2>1 DEF ImagesOK
  <2>2. CASE e \notin images[q]
    <3>1. q = r /\ e = [sample |-> i, shows |-> image]
      BY <1>1, <2>2 DEF RowOK
    <3> QED
      BY <3>1
  <2> QED
    BY <2>1, <2>2
<1>4. ImagesOK'
  BY <1>2, <1>3 DEF ImagesOK
<1> QED
  BY <1>1, <1>4 DEF RowOK

LEMMA DrawingNext == Aligned /\ DrawingInv /\ [SdpoNext]_sdpoVars => DrawingInv'
<1> SUFFICES ASSUME Aligned, DrawingInv, [SdpoNext]_sdpoVars PROVE DrawingInv'
  OBVIOUS
<1> USE DEF DrawingInv
<1>1. CASE Routing
  <2>1. \A r \in Rank : pc[r] = "route" /\ pc'[r] = "reduce" /\ images'[r] = {}
    BY <1>1 DEF Routing, NothingDrawn
  <2>2. PcOK' /\ RowOK' /\ FileOK' /\ ImagesOK' /\ NothingDrawn'
    BY <1>1, <2>1 DEF Routing, PcOK, RowOK, FileOK, ImagesOK, NothingDrawn
  <2> QED
    BY <1>1, <2>2 DEF Routing, data, OwnImage, Prompt
<1>2. CASE AllReduce
  <2>1. \A r \in Rank : pc'[r] \in {"open", "gather"}
    BY <1>2 DEF AllReduce
  <2>2. PcOK'
    BY <1>2 DEF AllReduce, PcOK
  <2> QED
    BY <1>2, <2>1, <2>2, ImagesKept DEF AllReduce, data, RowOK, FileOK, NothingDrawn, OwnImage, Prompt
<1>3. CASE Forward
  <2>1. \A r \in Rank : pc'[r] \in {"gather", "raised"}
    BY <1>3 DEF Forward
  <2>2. PcOK'
    BY <1>3 DEF Forward, PcOK
  <2>3. OwnImage'
    <3> SUFFICES ASSUME NEW t \in taught'
                 PROVE  t.shows.kind # "truncated" /\ t.shows.prompt = Prompt(t.rank, t.sample)
      BY DEF OwnImage, Prompt
    <3>1. CASE t \in taught
      BY <3>1 DEF OwnImage
    <3>2. CASE t \notin taught
      <4>1. PICK r \in Rank : \E e \in images[r] :
              t = [rank |-> r, sample |-> e.sample, shows |-> e.shows]
        BY <1>3, <3>2 DEF Forward
      <4>2. PICK e \in images[r] : t = [rank |-> r, sample |-> e.sample, shows |-> e.shows]
        BY <4>1
      <4>3. Shown(e.shows, r, e.sample)
        BY <4>2 DEF ImagesOK
      <4>4. e.shows.kind # "truncated" /\ e.shows.prompt = Prompt(r, e.sample)
        BY <4>3, ShownIsOwn
      <4> QED
        BY <4>2, <4>4
    <3> QED
      BY <3>1, <3>2
  <2> QED
    BY <1>3, <2>1, <2>2, <2>3, ImagesKept DEF Forward, RowOK, FileOK, NothingDrawn
<1>4. CASE Gather
  <2>1. \A r \in Rank : pc'[r] \in {"done", "reduce"} /\ row'[r] = 0 /\ images'[r] = {}
    BY <1>4 DEF Gather
  <2>2. PcOK' /\ RowOK'
    BY <1>4, <2>1 DEF Gather, PcOK, RowOK
  <2>3. FileOK' /\ ImagesOK' /\ NothingDrawn'
    BY <2>1 DEF FileOK, ImagesOK, NothingDrawn
  <2>4. OwnImage'
    BY <1>4 DEF Gather, data, OwnImage, Prompt
  <2> QED
    BY <2>2, <2>3, <2>4
<1>5. ASSUME NEW r \in Rank, Raise(r) PROVE DrawingInv'
  <2>1. PcOK' /\ pc'[r] = "raised" /\ \A q \in Rank : q # r => pc'[q] = pc[q]
    BY <1>5 DEF Raise, PcOK
  <2>2. RowOK' /\ NothingDrawn' /\ OwnImage'
    BY <1>5, <2>1 DEF Raise, data, RowOK, NothingDrawn, OwnImage, Prompt
  <2>3. FileOK'
    BY <1>5, <2>1 DEF Raise, data, FileOK, FileName, Drawn, Shows, Prompt
  <2>4. ImagesOK'
    BY <1>5, ImagesKept DEF Raise
  <2> QED
    BY <2>1, <2>2, <2>3, <2>4
<1>6. ASSUME NEW r \in Rank, Open(r) PROVE DrawingInv'
  <2>1. PICK i \in Sample : /\ row' = [row EXCEPT ![r] = i]
                            /\ files' = Written(FileName(r, i), Truncated)
    BY <1>6, FollowingInBatch DEF Open
  <2>2. PcOK' /\ pc' = [pc EXCEPT ![r] = "save"] /\ pc'[r] = "save"
    BY <1>6 DEF Open, PcOK
  <2>3. RowOK'
    BY <1>6, <2>1, <2>2 DEF Open, RowOK, Sample, PcOK
  <2>4. UNCHANGED <<args, hint>>
    BY <1>6 DEF Open, data
  <2>5. \A q \in Rank \ {r} : pc'[q] = "encode" =>
          /\ FileName(q, row[q])' \in DOMAIN files'
          /\ files'[FileName(q, row[q])'] = Drawn(q, row[q])'
    BY <2>1, <2>2, <2>4, FileKept
  <2>6. FileOK'
    BY <2>2, <2>5 DEF FileOK, Drawn, Prompt
  <2> QED
    BY <1>6, <2>2, <2>3, <2>6, ImagesKept DEF Open, data, NothingDrawn, OwnImage, Prompt
<1>7. ASSUME NEW r \in Rank, Save(r) PROVE DrawingInv'
  <2>1. row[r] \in Sample /\ row' = row /\ files' = Written(FileName(r, row[r]), Drawn(r, row[r]))
    BY <1>7 DEF Save, RowOK
  <2>2. PcOK' /\ pc' = [pc EXCEPT ![r] = "encode"] /\ pc'[r] = "encode"
    BY <1>7 DEF Save, PcOK
  <2>3. RowOK'
    BY <1>7, <2>1, <2>2 DEF Save, RowOK, PcOK
  <2>4. FileName(r, row[r])' = FileName(r, row[r])
    BY <1>7 DEF Save, data, FileName
  <2>5. /\ FileName(r, row[r])' \in DOMAIN files'
        /\ files'[FileName(r, row[r])'] = Drawn(r, row[r])'
    <3>1. Drawn(r, row[r])' = Drawn(r, row[r])
      BY <1>7 DEF Save, data, Drawn, Shows, Prompt
    <3> QED
      BY <2>1, <2>4, <3>1 DEF Written
  <2>6. UNCHANGED <<args, hint>>
    BY <1>7 DEF Save, data
  <2>7. \A q \in Rank \ {r} : pc'[q] = "encode" =>
          /\ FileName(q, row[q])' \in DOMAIN files'
          /\ files'[FileName(q, row[q])'] = Drawn(q, row[q])'
    BY <2>1, <2>2, <2>6, FileKept
  <2>8. FileOK'
    BY <2>5, <2>7 DEF FileOK, Drawn, Prompt
  <2> QED
    BY <1>7, <2>2, <2>3, <2>8, ImagesKept DEF Save, data, NothingDrawn, OwnImage, Prompt
<1>8. ASSUME NEW r \in Rank, Encode(r) PROVE DrawingInv'
  <2>1. files[FileName(r, row[r])] = Drawn(r, row[r])
    BY <1>8 DEF Encode, FileOK
  <2>2. PcOK' /\ pc'[r] \in {"open", "forward"} /\ \A q \in Rank : q # r => pc'[q] = pc[q]
    BY <1>8 DEF Encode, AddRow, PcOK
  <2>3. ImagesOK' /\ DOMAIN images' = Rank
    <3>1. row[r] \in Sample /\ AddRow(r, row[r], files[FileName(r, row[r])])
      BY <1>8 DEF Encode, RowOK
    <3>2. Shown(files[FileName(r, row[r])], r, row[r])
      BY <2>1 DEF Shown
    <3> QED
      BY <3>1, <3>2, RowAdded
  <2>4. RowOK' /\ NothingDrawn' /\ OwnImage'
    BY <1>8, <2>2, <2>3 DEF Encode, AddRow, data, RowOK, NothingDrawn, OwnImage, Prompt
  <2>5. FileOK'
    BY <1>8, <2>2 DEF Encode, AddRow, data, FileOK, FileName, Drawn, Shows, Prompt
  <2> QED
    BY <2>2, <2>3, <2>4, <2>5
<1>9. ASSUME NEW r \in Rank, EncodePlain(r) PROVE DrawingInv'
  <2>1. PICK i \in Sample : /\ row' = [row EXCEPT ![r] = i] /\ hint[r][i].type = "skip"
                            /\ AddRow(r, i, Plain(Prompt(r, i)))
    BY <1>9, FollowingInBatch DEF EncodePlain
  <2>2. PcOK' /\ pc'[r] \in {"open", "forward"} /\ \A q \in Rank : q # r => pc'[q] = pc[q]
    BY <2>1 DEF AddRow, PcOK
  <2>3. ImagesOK' /\ DOMAIN images' = Rank
    <3>1. Shown(Plain(Prompt(r, i)), r, i)
      BY <2>1 DEF Shown
    <3> QED
      BY <2>1, <3>1, RowAdded
  <2>4. RowOK'
    BY <2>1, <2>2, <2>3 DEF RowOK, Sample
  <2>5. FileOK'
    <3> SUFFICES ASSUME NEW q \in Rank, q # r, pc[q] = "encode"
                 PROVE  /\ FileName(q, row[q])' \in DOMAIN files'
                        /\ files'[FileName(q, row[q])'] = Drawn(q, row[q])'
      BY <2>2 DEF FileOK, Drawn, Prompt
    <3>1. row'[q] = row[q] /\ UNCHANGED <<hint, args, files>>
      BY <2>1 DEF RowOK, AddRow, data
    <3>2. /\ FileName(q, row[q])' = FileName(q, row[q])
          /\ Drawn(q, row[q])' = Drawn(q, row[q])
      BY <3>1 DEF FileName, Prompt, Drawn, Shows
    <3> QED
      BY <3>1, <3>2 DEF FileOK
  <2> QED
    BY <1>9, <2>1, <2>2, <2>3, <2>4, <2>5 DEF EncodePlain, AddRow, NothingDrawn, OwnImage, Prompt
<1>10. CASE UNCHANGED sdpoVars
  <2>1. PcOK' /\ RowOK' /\ NothingDrawn' /\ OwnImage'
    BY <1>10 DEF sdpoVars, data, PcOK, RowOK, NothingDrawn, OwnImage, Prompt
  <2>2. FileOK'
    BY <1>10 DEF sdpoVars, data, FileOK, FileName, Drawn, Shows, Prompt
  <2>3. ImagesOK'
    BY <1>10, ImagesKept DEF sdpoVars
  <2> QED
    BY <2>1, <2>2, <2>3
<1> QED
  BY <1>1, <1>2, <1>3, <1>4, <1>5, <1>6, <1>7, <1>8, <1>9, <1>10 DEF SdpoNext, SdpoTerminated

(* With whole groups on each rank, no completion is distilled from an image *)
(* of another prompt, or from one that another rank is writing, however     *)
(* many ranks share the directory (sdpo_mask_processor).                    *)
THEOREM ImagesAreOwn == Aligned /\ SdpoSpec => []OwnImage
<1> SUFFICES ASSUME Aligned PROVE SdpoSpec => []OwnImage
  OBVIOUS
<1>1. DrawingInv /\ [SdpoNext]_sdpoVars => DrawingInv'
  BY DrawingNext
<1>2. DrawingInv => OwnImage
  BY DEF DrawingInv
<1> QED
  BY <1>1, <1>2, DrawingInit, PTL DEF SdpoSpec

-----------------------------------------------------------------------------
(* The sum of w over a subset s of a finite set, as MapThenSumSet computes it. *)
First(s) == CHOOSE x \in s : TRUE
Adds(f, D, w) ==
  \A s \in D : f[s] = IF s = {} THEN 0 ELSE w[First(s)] + f[s \ {First(s)}]

LEMMA WithoutOne ==
  ASSUME NEW S, IsFiniteSet(S), NEW s \in SUBSET S
  PROVE  /\ IsFiniteSet(s) /\ Cardinality(s) \in Nat /\ Cardinality(s) <= Cardinality(S)
         /\ Cardinality(s) = 0 <=> s = {}
         /\ s # {} => /\ First(s) \in S /\ s \ {First(s)} \in SUBSET S
                      /\ Cardinality(s \ {First(s)}) = Cardinality(s) - 1
<1>1. IsFiniteSet(s) /\ Cardinality(s) \in Nat /\ Cardinality(s) <= Cardinality(S)
  BY FS_Subset, FS_CardinalityType
<1>2. Cardinality(s) = 0 <=> s = {}
  BY <1>1, FS_EmptySet
<1>3. ASSUME s # {}
      PROVE  /\ First(s) \in S /\ s \ {First(s)} \in SUBSET S
             /\ Cardinality(s \ {First(s)}) = Cardinality(s) - 1
  <2>1. First(s) \in s
    BY <1>3 DEF First
  <2>2. QED BY <1>1, <2>1, FS_RemoveElement
<1>4. QED BY <1>1, <1>2, <1>3

(* The sums over all subsets of a finite set exist.                         *)
LEMMA SumsExist ==
  ASSUME NEW S, IsFiniteSet(S), NEW w \in [S -> Int]
  PROVE  \E f \in [SUBSET S -> Int] : Adds(f, SUBSET S, w)
<1> DEFINE Upto(k) == {s \in SUBSET S : Cardinality(s) <= k}
           P == {k \in Nat : \E f \in [Upto(k) -> Int] : Adds(f, Upto(k), w)}
<1>1. \A s \in SUBSET S : Cardinality(s) \in Nat /\ Cardinality(s) <= Cardinality(S)
  BY WithoutOne
<1>2. \A s \in SUBSET S : Cardinality(s) = 0 <=> s = {}
  BY WithoutOne
<1>3. ASSUME NEW s \in SUBSET S, s # {}
      PROVE  /\ First(s) \in S /\ s \ {First(s)} \in SUBSET S
             /\ Cardinality(s \ {First(s)}) = Cardinality(s) - 1
  BY <1>3, WithoutOne
<1>4. 0 \in P
  <2>1. ASSUME NEW s \in Upto(0) PROVE s = {}
    <3>1. Cardinality(s) = 0
      BY <1>1
    <3>2. QED BY <1>2, <3>1
  <2>2. [s \in Upto(0) |-> 0] \in [Upto(0) -> Int] /\ Adds([s \in Upto(0) |-> 0], Upto(0), w)
    BY <2>1 DEF Adds
  <2>3. QED BY <2>2
<1>5. ASSUME NEW k \in Nat, k \in P PROVE k + 1 \in P
  <2>1. PICK f \in [Upto(k) -> Int] : Adds(f, Upto(k), w)
    BY <1>5
  <2>2. PICK g : g = [s \in Upto(k + 1) |-> IF s \in Upto(k) THEN f[s]
                                            ELSE w[First(s)] + f[s \ {First(s)}]]
    OBVIOUS
  <2>3. ASSUME NEW s \in Upto(k + 1), s # {}
        PROVE  First(s) \in S /\ s \ {First(s)} \in Upto(k) /\ s \ {First(s)} \in Upto(k + 1)
    <3>1. s \in SUBSET S /\ Cardinality(s) \in Nat /\ Cardinality(s) <= k + 1
      BY <1>1
    <3>2. First(s) \in S /\ s \ {First(s)} \in SUBSET S
          /\ Cardinality(s \ {First(s)}) = Cardinality(s) - 1
      BY <1>3, <2>3, <3>1
    <3>3. Cardinality(s \ {First(s)}) <= k /\ Cardinality(s \ {First(s)}) <= k + 1
      BY <3>1, <3>2
    <3>4. QED BY <3>2, <3>3
  <2>4. {} \in Upto(k)
    BY <1>2
  <2>5. \A s \in Upto(k + 1) : s # {} => g[s] = w[First(s)] + f[s \ {First(s)}]
    <3> SUFFICES ASSUME NEW s \in Upto(k + 1), s # {}
                 PROVE  g[s] = w[First(s)] + f[s \ {First(s)}]
      OBVIOUS
    <3>1. s \in Upto(k) => f[s] = w[First(s)] + f[s \ {First(s)}]
      BY <2>1 DEF Adds
    <3>2. QED
      <4> HIDE DEF Upto
      <4> QED BY <2>2, <3>1
  <2>6. g[{}] = 0 /\ {} \in Upto(k + 1)
    <3>1. f[{}] = 0
      BY <2>1, <2>4 DEF Adds
    <3>2. {} \in Upto(k + 1)
      BY <1>2
    <3>3. QED
      <4> HIDE DEF Upto
      <4> QED BY <2>2, <2>4, <3>1, <3>2
  <2>7. \A s \in Upto(k) : g[s] = f[s]
    <3>1. Upto(k) \subseteq Upto(k + 1)
      BY <1>1
    <3>2. QED
      <4> HIDE DEF Upto
      <4> QED BY <2>2, <3>1
  <2>8. g \in [Upto(k + 1) -> Int]
    <3>1. ASSUME NEW s \in Upto(k + 1) PROVE g[s] \in Int
      <4>1. CASE s = {}
        BY <2>6, <4>1
      <4>2. CASE s # {}
        <5>1. w[First(s)] \in Int /\ f[s \ {First(s)}] \in Int
          BY <2>3, <4>2
        <5>2. QED BY <2>5, <4>2, <5>1
      <4>3. QED BY <4>1, <4>2
    <3>2. QED
      <4> HIDE DEF Upto
      <4> QED BY <2>2, <3>1
  <2>9. Adds(g, Upto(k + 1), w)
    <3> SUFFICES ASSUME NEW s \in Upto(k + 1)
                 PROVE  g[s] = IF s = {} THEN 0 ELSE w[First(s)] + g[s \ {First(s)}]
      BY DEF Adds
    <3>1. CASE s = {}
      BY <2>6, <3>1
    <3>2. CASE s # {}
      <4>1. g[s \ {First(s)}] = f[s \ {First(s)}]
        BY <2>3, <2>7, <3>2
      <4>2. QED BY <2>5, <3>2, <4>1
    <3>3. QED BY <3>1, <3>2
  <2>10. \E h \in [Upto(k + 1) -> Int] : Adds(h, Upto(k + 1), w)
    <3> HIDE DEF Upto
    <3> QED BY <2>8, <2>9
  <2>11. k + 1 \in Nat
    OBVIOUS
  <2>12. QED
    <3> HIDE DEF Upto
    <3> QED BY <2>10, <2>11
<1> HIDE DEF P
<1>6. Cardinality(S) \in P /\ Cardinality(S) \in Nat
  BY <1>1, <1>4, <1>5, Induction
<1>7. Upto(Cardinality(S)) = SUBSET S
  BY <1>1
<1>8. QED
  BY <1>6, <1>7 DEF P

LEMMA AddsToInt ==
  ASSUME NEW S, IsFiniteSet(S), NEW w \in [S -> Int], NEW h, Adds(h, SUBSET S, w)
  PROVE  h[S] \in Int
<1> DEFINE P == {k \in Nat : \A s \in SUBSET S : Cardinality(s) = k => h[s] \in Int}
<1>1. 0 \in P
  <2>1. ASSUME NEW s \in SUBSET S, Cardinality(s) = 0 PROVE h[s] \in Int
    <3>1. Cardinality(s) = 0 <=> s = {}
      BY WithoutOne
    <3>2. s = {}
      BY <2>1, <3>1
    <3>3. h[s] = 0
      BY <3>2 DEF Adds
    <3>4. QED BY <3>3
  <2>2. QED BY <2>1
<1>2. ASSUME NEW k \in Nat, k \in P PROVE k + 1 \in P
  <2>1. ASSUME NEW s \in SUBSET S, Cardinality(s) = k + 1 PROVE h[s] \in Int
    <3>0. Cardinality(s) = 0 <=> s = {}
      BY WithoutOne
    <3>1. s # {}
      BY <2>1, <3>0
    <3>2. First(s) \in S /\ s \ {First(s)} \in SUBSET S /\ Cardinality(s \ {First(s)}) = k
      BY <2>1, <3>1, WithoutOne
    <3>3. h[s \ {First(s)}] \in Int /\ w[First(s)] \in Int
      BY <1>2, <3>2
    <3>4. h[s] = w[First(s)] + h[s \ {First(s)}]
      BY <3>1 DEF Adds
    <3>5. QED BY <3>3, <3>4
  <2>2. QED BY <2>1
<1>3. Cardinality(S) \in Nat
  BY FS_CardinalityType
<1> HIDE DEF P
<1>4. Cardinality(S) \in P
  BY <1>1, <1>2, <1>3, Induction
<1>5. QED BY <1>4 DEF P

-----------------------------------------------------------------------------
(* What the scores are, and what the argument combinations must not be for  *)
(* a hint to be better.                                                     *)
Scores == [iou : Nat, valid : BOOLEAN, reward : Int]
Comparable == TauGood > 0 /\ \A r \in Rank : ScoresOf[r] \subseteq Scores
TrueBoxOnly == \A a \in Args : a.target = "gt" => a.source = "gt"

(* A box that is not valid, or that has no image size to compare it with,   *)
(* does not overlap the true one.                                           *)
ScoreOK ==
  /\ args \in Args
  /\ score \in [Rank -> [Sample -> Scores]]
  /\ \A r \in Rank, i \in Sample :
       (~score[r][i].valid \/ Prompt(r, i) \in unsized) => score[r][i].iou = 0

LEMMA ScoreInit == Comparable /\ SdpoInit => ScoreOK
<1> SUFFICES ASSUME Comparable, SdpoInit PROVE ScoreOK
  OBVIOUS
<1>1. args \in Args
  BY DEF SdpoInit
<1>2. UNION {ScoresOf[r] : r \in Rank} \subseteq Scores
  BY DEF Comparable
<1>3. score \in [Rank -> [Sample -> Scores]]
  <2>1. score \in [Rank -> [Sample -> UNION {ScoresOf[r] : r \in Rank}]]
    BY DEF SdpoInit
  <2>2. QED BY <1>2, <2>1
<1>4. \A r \in Rank, i \in Sample :
        (~score[r][i].valid \/ Prompt(r, i) \in unsized) => score[r][i].iou = 0
  BY DEF SdpoInit
<1>5. QED BY <1>1, <1>3, <1>4 DEF ScoreOK

LEMMA Quotient ==
  ASSUME NEW g \in Nat \ {0}, NEW a \in Nat, NEW x \in Nat
  PROVE  (g * a + x) \div g = a + x \div g
<1> DEFINE q == x \div g
           p == (g * a + x) \div g
<1>1. q \in Nat /\ g * q <= x /\ x < g * q + g
  BY Division
<1>2. g * a + x \in Nat
  OBVIOUS
<1>3. p \in Nat /\ g * p <= g * a + x /\ g * a + x < g * p + g
  BY <1>2, Division
<1> HIDE DEF p, q
<1>4. g * p < g * (a + q + 1) /\ g * (a + q) < g * (p + 1)
  BY <1>1, <1>3
<1>5. p < a + q + 1 /\ a + q < p + 1
  BY <1>1, <1>3, <1>4
<1>6. p = a + q
  BY <1>1, <1>3, <1>5
<1>7. QED BY <1>6 DEF p, q

LEMMA Below ==
  ASSUME NEW g \in Nat \ {0}, NEW k \in Nat, NEW x \in Nat, x < g * k
  PROVE  x \div g < k
<1> DEFINE q == x \div g
<1>1. q \in Nat /\ g * q <= x
  BY Division
<1> HIDE DEF q
<1>2. g * q < g * k
  BY <1>1
<1>3. q < k
  BY <1>1, <1>2
<1>4. QED BY <1>3 DEF q

LEMMA InInterval ==
  ASSUME NEW g \in Nat \ {0}, NEW k \in Nat, NEW x \in Nat
  PROVE  x \div g = k <=> g * k <= x /\ x < g * k + g
<1> DEFINE q == x \div g
<1>1. q \in Nat /\ g * q <= x /\ x < g * q + g
  BY Division
<1> HIDE DEF q
<1>2. q = k => g * k <= x /\ x < g * k + g
  BY <1>1
<1>3. ASSUME g * k <= x, x < g * k + g PROVE q = k
  <2>1. g * q < g * (k + 1) /\ g * k < g * (q + 1)
    BY <1>1, <1>3
  <2>2. q < k + 1 /\ k < q + 1
    BY <1>1, <2>1
  <2>3. QED BY <1>1, <2>2
<1>4. QED BY <1>2, <1>3 DEF q

(* With whole groups on a rank every sample is in one, its siblings are of  *)
(* its own prompt and have the same group.                                  *)
LEMMA WholeGroup ==
  ASSUME Aligned, NEW i \in Sample
  PROVE  InGroup(i) /\ IsFiniteSet(GroupOf(i)) /\ i \in GroupOf(i)
<1>1. PICK m \in Nat : Local = Group * m /\ m = Local \div Group
  BY BatchShape, SdpoConstants DEF Aligned
<1>2. Group \in Nat \ {0} /\ i \in Nat /\ i - 1 \in Nat /\ i - 1 < Group * m
  BY <1>1, BatchShape, SdpoConstants DEF Sample
<1>3. PICK k \in Nat : k = (i - 1) \div Group /\ k < m
  BY <1>2, Division, Below
<1>4. k + 1 <= m
  BY <1>3
<1>5. Group * (k + 1) <= Local /\ Group * (k + 1) = Group * k + Group
  BY <1>1, <1>2, <1>4
<1>6. GroupOf(i) = (Group * k + 1)..(Group * k + Group)
  <2>1. ASSUME NEW j \in Sample
        PROVE  (j - 1) \div Group = k <=> j \in (Group * k + 1)..(Group * k + Group)
    <3>1. j - 1 \in Nat /\ j \in Nat
      BY <1>2, BatchShape, SdpoConstants DEF Sample
    <3>2. (j - 1) \div Group = k <=> Group * k <= j - 1 /\ j - 1 < Group * k + Group
      BY <1>2, <3>1, InInterval
    <3>3. QED BY <1>2, <3>1, <3>2
  <2>2. (Group * k + 1)..(Group * k + Group) \subseteq Sample
    BY <1>2, <1>5, BatchShape, SdpoConstants DEF Sample
  <2>3. QED BY <1>3, <2>1, <2>2 DEF GroupOf
<1>7. PICK a \in Int : a = Group * k
  BY <1>2
<1>8. Cardinality((a + 1)..(a + Group)) = Group /\ IsFiniteSet((a + 1)..(a + Group))
  <2>1. a + 1 \in Int /\ a + Group \in Int /\ ~(a + 1 > a + Group) /\ (a + Group) - (a + 1) + 1 = Group
    BY <1>2
  <2>2. QED BY <2>1, FS_Interval
<1>9. QED BY <1>6, <1>7, <1>8 DEF InGroup, GroupOf

LEMMA Siblings ==
  ASSUME Aligned, NEW r \in Rank, NEW i \in Sample, NEW j \in GroupOf(i)
  PROVE  j \in Sample /\ GroupOf(j) = GroupOf(i) /\ Prompt(r, j) = Prompt(r, i)
<1>1. PICK m \in Nat : Local = Group * m /\ m = Local \div Group
  BY BatchShape, SdpoConstants DEF Aligned
<1>2. Group \in Nat \ {0} /\ i - 1 \in Nat /\ r - 1 \in Nat /\ j \in Sample /\ j - 1 \in Nat
  BY BatchShape, SdpoConstants DEF Sample, GroupOf, Rank
<1>3. PICK a \in Nat : a = (r - 1) * m /\ (r - 1) * Local = Group * a
  BY <1>1, <1>2
<1>4. \A x \in Sample : Prompt(r, x) = (Group * a + (x - 1)) \div Group
  <2>1. ASSUME NEW x \in Sample PROVE (r - 1) * Local + x - 1 = Group * a + (x - 1)
    BY <1>2, <1>3, BatchShape, SdpoConstants DEF Sample
  <2>2. QED BY <2>1 DEF Prompt
<1>5. Prompt(r, i) = a + (i - 1) \div Group /\ Prompt(r, j) = a + (j - 1) \div Group
  BY <1>2, <1>4, Quotient
<1>6. QED BY <1>2, <1>5 DEF GroupOf

-----------------------------------------------------------------------------
(* max: among the good siblings of a group one is ahead of all.             *)
LEMMA AheadOrders ==
  ASSUME ScoreOK, NEW r \in Rank, NEW j \in Sample, NEW k \in Sample
  PROVE  /\ Ahead(r, j, k) \/ Ahead(r, k, j)
         /\ \A l \in Sample : Ahead(r, j, k) /\ Ahead(r, k, l) => Ahead(r, j, l)
<1>1. \A i \in Sample : score[r][i].iou \in Int /\ score[r][i].reward \in Int /\ i \in Int
  <2>1. \A i \in Sample : score[r][i] \in Scores
    BY DEF ScoreOK
  <2>2. \A i \in Sample : i \in Int
    BY BatchShape, SdpoConstants DEF Sample
  <2>3. QED BY <2>1, <2>2 DEF Scores
<1>2. CASE args.metric = "iou"
  BY <1>1, <1>2 DEF Ahead
<1>3. CASE args.metric # "iou"
  BY <1>1, <1>3 DEF Ahead
<1>4. QED BY <1>2, <1>3

LEMMA OneIsAhead ==
  ASSUME ScoreOK, NEW r \in Rank, NEW G, G \subseteq Sample, G # {}
  PROVE  \E j \in G : \A k \in G : Ahead(r, j, k)
<1> DEFINE Low(n) == {j \in G : j <= n}
           P == {n \in 0..Local : Low(n) # {} => \E j \in Low(n) : \A k \in Low(n) : Ahead(r, j, k)}
<1>1. \A j \in G : j \in Sample /\ j \in Nat /\ j >= 1 /\ j <= Local
  BY BatchShape, SdpoConstants DEF Sample
<1>2. Local \in Nat
  BY BatchShape, SdpoConstants
<1>3. 0 \in P
  <2>1. Low(0) = {}
    BY <1>1
  <2>2. QED BY <1>2, <2>1
<1>4. ASSUME NEW n \in Nat, n < Local, n \in P PROVE n + 1 \in P
  <2>1. n + 1 \in 0..Local
    BY <1>2, <1>4
  <2>2. CASE n + 1 \notin G
    <3>1. Low(n + 1) = Low(n)
      BY <1>1, <2>2
    <3>2. QED BY <1>4, <2>1, <3>1
  <2>3. CASE n + 1 \in G
    <3>1. Low(n + 1) = Low(n) \cup {n + 1}
      BY <1>1, <2>3
    <3>2. Low(n + 1) \subseteq Sample
      BY <1>1
    <3>3. Ahead(r, n + 1, n + 1)
      BY <1>1, <2>3, AheadOrders
    <3>4. CASE Low(n) = {}
      BY <2>1, <3>1, <3>3, <3>4
    <3>5. CASE Low(n) # {}
      <4>1. PICK j \in Low(n) : \A k \in Low(n) : Ahead(r, j, k)
        BY <1>4, <3>5
      <4>2. j \in Sample /\ n + 1 \in Sample /\ j \in Low(n + 1) /\ n + 1 \in Low(n + 1)
        BY <1>1, <2>3, <3>1
      <4>3. CASE Ahead(r, j, n + 1)
        <5>1. \A k \in Low(n + 1) : Ahead(r, j, k)
          <6> HIDE DEF Low
          <6> QED BY <3>1, <4>1, <4>3
        <5>2. QED BY <2>1, <4>2, <5>1
      <4>4. CASE Ahead(r, n + 1, j)
        <5>1. \A k \in Low(n + 1) : Ahead(r, n + 1, k)
          <6> SUFFICES ASSUME NEW k \in Low(n) PROVE Ahead(r, n + 1, k)
            <7> HIDE DEF Low
            <7> QED BY <3>1, <3>3
          <6>1. k \in Sample /\ Ahead(r, j, k)
            BY <1>1, <4>1
          <6>2. QED BY <4>2, <4>4, <6>1, AheadOrders
        <5>2. QED BY <2>1, <4>2, <5>1
      <4>5. QED BY <4>2, <4>3, <4>4, AheadOrders
    <3>6. QED BY <3>4, <3>5
  <2>4. QED BY <2>2, <2>3
<1> HIDE DEF P
<1>5. 0..Local \subseteq P
  BY <1>2, <1>3, <1>4, UpTo
<1>6. Local \in P
  BY <1>2, <1>5
<1>7. Low(Local) = G
  BY <1>1
<1>8. QED BY <1>6, <1>7 DEF P

LEMMA BestIsGood ==
  ASSUME ScoreOK, NEW r \in Rank, NEW g, g \subseteq Sample,
         \E j \in g : Route(r, j) = "good"
  PROVE  Best(r, g) \in g /\ Route(r, Best(r, g)) = "good"
<1> DEFINE G == {j \in g : Route(r, j) = "good"}
<1>1. PICK j \in G : \A k \in G : Ahead(r, j, k)
  <2>1. G \subseteq Sample /\ G # {}
    OBVIOUS
  <2> HIDE DEF G
  <2>2. QED BY <2>1, OneIsAhead
<1>2. \E l \in g : Route(r, l) = "good" /\ \A k \in g : Route(r, k) = "good" => Ahead(r, l, k)
  BY <1>1
<1>3. QED BY <1>2 DEF Best

-----------------------------------------------------------------------------
LEMMA RewardSumIsInt ==
  ASSUME ScoreOK, NEW r \in Rank, NEW g, IsFiniteSet(g), g \subseteq Sample
  PROVE  RewardSum(r, g) \in Int
<1> DEFINE w == [j \in g |-> score[r][j].reward]
           Is(f) == f = [s \in SUBSET g |-> IF s = {} THEN 0
                           ELSE score[r][CHOOSE x \in s : TRUE].reward
                                  + f[s \ {CHOOSE x \in s : TRUE}]]
<1>1. w \in [g -> Int]
  BY DEF ScoreOK, Scores
<1>2. PICK f \in [SUBSET g -> Int] : Adds(f, SUBSET g, w)
  <2> HIDE DEF w
  <2> QED BY <1>1, SumsExist
<1>3. \A s \in SUBSET g : s # {} => w[First(s)] = score[r][First(s)].reward
  BY DEF First
<1>4. Is(f)
  <2>1. \A s \in SUBSET g : f[s] = IF s = {} THEN 0 ELSE score[r][First(s)].reward + f[s \ {First(s)}]
    <3> HIDE DEF w
    <3> QED BY <1>2, <1>3 DEF Adds
  <2>2. QED BY <2>1 DEF First
<1>5. Is(CHOOSE h : Is(h))
  <2> HIDE DEF Is
  <2> QED BY <1>4
<1>6. PICK h \in {CHOOSE h : Is(h)} : h[g] = RewardSum(r, g)
  BY DEF RewardSum, MapThenSumSet, MapThenFoldSet
<1>7. Is(h)
  BY <1>5, <1>6
<1>8. Adds(h, SUBSET g, w)
  <2>1. \A s \in SUBSET g : h[s] = IF s = {} THEN 0 ELSE score[r][First(s)].reward + h[s \ {First(s)}]
    BY <1>7 DEF First
  <2>2. QED
    <3> HIDE DEF w
    <3> QED BY <1>3, <2>1 DEF Adds
<1>9. QED
  <2> HIDE DEF w
  <2> QED BY <1>1, <1>6, <1>8, AddsToInt

(* What is better in a good sibling: the mean of the group is between its   *)
(* reward and the reward of a completion that is below the mean.            *)
LEMMA GoodBeats ==
  ASSUME Aligned, Comparable, ScoreOK, NEW r \in Rank, NEW i \in Sample, NEW j \in GroupOf(i),
         Route(r, j) = "good", Route(r, i) # "good"
  PROVE  score[r][j].iou > score[r][i].iou \/ score[r][j].reward > score[r][i].reward
<1>1. j \in Sample /\ GroupOf(j) = GroupOf(i)
  BY Siblings
<1>2. score[r][i] \in Scores /\ score[r][j] \in Scores
  BY <1>1 DEF ScoreOK
<1>3. score[r][j].valid /\ score[r][j].iou >= TauGood /\ AtMean(r, j, GroupOf(i))
  BY <1>1 DEF Route
<1>4. ~(score[r][i].valid /\ score[r][i].iou >= TauGood /\ AtMean(r, i, GroupOf(i)))
  BY DEF Route
<1>5. TauGood \in Nat /\ TauGood > 0 /\ Group \in Nat \ {0}
  BY BatchShape, SdpoConstants DEF Comparable
<1>6. CASE ~score[r][i].valid
  <2>1. score[r][i].iou = 0
    BY <1>6 DEF ScoreOK
  <2>2. QED BY <1>2, <1>3, <1>5, <2>1 DEF Scores
<1>7. CASE ~(score[r][i].iou >= TauGood)
  BY <1>2, <1>3, <1>5, <1>7 DEF Scores
<1>8. CASE ~AtMean(r, i, GroupOf(i))
  <2>1. RewardSum(r, GroupOf(i)) \in Int
    <3>1. IsFiniteSet(GroupOf(i)) /\ GroupOf(i) \subseteq Sample
      BY WholeGroup DEF GroupOf
    <3>2. QED BY <3>1, RewardSumIsInt
  <2>2. score[r][i].reward \in Int /\ score[r][j].reward \in Int
    BY <1>2 DEF Scores
  <2>3. Group * score[r][j].reward > Group * score[r][i].reward
    BY <1>3, <1>5, <1>8, <2>1, <2>2 DEF AtMean
  <2>4. QED BY <1>5, <2>2, <2>3
<1>9. QED BY <1>4, <1>6, <1>7, <1>8

-----------------------------------------------------------------------------
(* Each rank has routed its completions, and knows their hints.             *)
Routed ==
  \A r \in Rank : pc[r] # "route" => \A i \in Sample : route[r][i] = Route(r, i) /\ hint[r][i] = Hint(r, i)

(* The image for sample i of rank r is a hint in the sense of BetterHint.   *)
Better(r, i, image) ==
  \/ image.kind = "gt" /\ args.source # "sibling"
  \/ /\ image.kind = "sibling"
     /\ LET q == image.by[1]
            j == image.by[2]
        IN  /\ Prompt(q, j) = Prompt(r, i) /\ route[q][j] = "good"
            /\ \/ route[r][i] = "good"
               \/ score[q][j].iou > score[r][i].iou \/ score[q][j].reward > score[r][i].reward

LEMMA HintIsBetter ==
  ASSUME Aligned, Comparable, ScoreOK, Routed,
         NEW r \in Rank, pc[r] # "route", NEW i \in Sample, hint[r][i].type # "skip"
  PROVE  Better(r, i, Drawn(r, i))
<1> DEFINE g == GroupOf(i)
<1>1. hint[r][i] = Hint(r, i) /\ \A j \in Sample : route[r][j] = Route(r, j)
  BY DEF Routed
<1>2. args.source \in {"gt", "sibling", "sibling_gt_fallback"}
  BY BatchShape, SdpoConstants DEF ScoreOK
<1>3. CASE args.source = "gt"
  <2>1. hint[r][i].type = "gt"
    BY <1>1, <1>3 DEF Hint
  <2>2. Drawn(r, i).kind = "gt"
    BY <2>1 DEF Drawn, Shows
  <2>3. QED BY <1>3, <2>2 DEF Better
<1>4. CASE args.source # "gt" /\ \A j \in g : Route(r, j) # "good"
  <2>1. hint[r][i].type = IF args.source = "sibling" \/ args.fallback = "skip" THEN "skip" ELSE "gt_fallback"
    BY <1>1, <1>4 DEF Hint
  <2>2. args.source # "sibling" /\ hint[r][i].type = "gt_fallback"
    BY <2>1
  <2>3. Drawn(r, i).kind = "gt"
    BY <2>2 DEF Drawn, Shows
  <2>4. QED BY <2>2, <2>3 DEF Better
<1>5. CASE args.source # "gt" /\ \E j \in g : Route(r, j) = "good"
  <2> DEFINE j == Best(r, g)
  <2>1. g \subseteq Sample
    BY DEF GroupOf
  <2>2. j \in g /\ Route(r, j) = "good"
    <3> HIDE DEF g
    <3> QED BY <1>5, <2>1, BestIsGood
  <2>3. j \in Sample /\ Prompt(r, j) = Prompt(r, i)
    <3> HIDE DEF j
    <3> QED BY <2>2, Siblings
  <2>4. Prompt(r, i) \notin unsized
    <3>1. score[r][j].iou >= TauGood /\ TauGood > 0 /\ TauGood \in Nat
      BY <2>2, BatchShape, SdpoConstants DEF Route, Comparable
    <3>2. score[r][j].iou # 0
      BY <3>1
    <3>3. QED BY <2>3, <3>2 DEF ScoreOK
  <2>5. hint[r][i] = [type |-> "sibling", by |-> <<r, j>>]
    BY <1>1, <1>5, <2>4 DEF Hint
  <2>6. Drawn(r, i).kind = "sibling" /\ Drawn(r, i).by = <<r, j>>
    BY <2>5 DEF Drawn, Shows
  <2>7. route[r][j] = "good"
    BY <1>1, <2>2, <2>3
  <2>8. route[r][i] = "good" \/ score[r][j].iou > score[r][i].iou \/ score[r][j].reward > score[r][i].reward
    <3>1. CASE Route(r, i) = "good"
      BY <1>1, <3>1
    <3>2. CASE Route(r, i) # "good"
      <4> HIDE DEF j
      <4> QED BY <2>2, <3>2, GoodBeats
    <3>3. QED BY <3>1, <3>2
  <2>9. QED
    <3> HIDE DEF j
    <3> QED BY <2>3, <2>6, <2>7, <2>8 DEF Better
<1>6. QED BY <1>3, <1>4, <1>5

-----------------------------------------------------------------------------
(* Scores and arguments stay what they are, and so does what follows from   *)
(* them.                                                                    *)
LEMMA RouteKept ==
  ASSUME UNCHANGED data, NEW r, NEW i
  PROVE  Route(r, i)' = Route(r, i) /\ Hint(r, i)' = Hint(r, i)
<1>1. UNCHANGED score /\ UNCHANGED args /\ UNCHANGED unsized
  BY DEF data
<1>2. \A g : RewardSum(r, g)' = RewardSum(r, g)
  BY <1>1 DEF RewardSum, MapThenSumSet, MapThenFoldSet
<1>3. \A g : SquareSum(r, g)' = SquareSum(r, g)
  BY <1>1 DEF SquareSum, MapThenSumSet, MapThenFoldSet
<1>4. \A j, g : AtMean(r, j, g)' = AtMean(r, j, g) /\ Weak(r, j, g)' = Weak(r, j, g)
  BY <1>1, <1>2, <1>3 DEF AtMean, Weak
<1>5. \A j : Route(r, j)' = Route(r, j)
  BY <1>1, <1>4 DEF Route, GroupOf
<1>6. \A j, k : Ahead(r, j, k)' = Ahead(r, j, k)
  BY <1>1 DEF Ahead
<1>7. Best(r, GroupOf(i))' = Best(r, GroupOf(i))
  BY <1>5, <1>6 DEF Best, GroupOf
<1>8. Hint(r, i)' = Hint(r, i)
  BY <1>1, <1>5, <1>7 DEF Hint, GroupOf, Prompt
<1> QED
  BY <1>5, <1>8

(* Only Routing changes a hint, and only Forward teaches.                   *)
LEMMA WhoChanges ==
  ASSUME PcOK, [SdpoNext]_sdpoVars
  PROVE  /\ UNCHANGED data
         /\ Routing \/ UNCHANGED <<route, hint>>
         /\ Routing \/ \A r \in Rank : pc'[r] # "route" => pc[r] # "route"
         /\ Forward \/ UNCHANGED taught
<1>1. CASE Routing
  BY <1>1 DEF Routing
<1>2. CASE AllReduce
  BY <1>2 DEF AllReduce
<1>3. CASE Forward
  BY <1>3 DEF Forward
<1>4. CASE Gather
  BY <1>4 DEF Gather
<1>5. ASSUME NEW r \in Rank, Raise(r) \/ Open(r) \/ Save(r) \/ Encode(r) \/ EncodePlain(r)
      PROVE  /\ UNCHANGED <<data, route, hint, taught>>
             /\ pc[r] # "route" /\ \E p : pc' = [pc EXCEPT ![r] = p]
  <2>1. CASE Raise(r)
    BY <2>1 DEF Raise
  <2>2. CASE Open(r)
    BY <2>2 DEF Open
  <2>3. CASE Save(r)
    BY <2>3 DEF Save
  <2>4. CASE Encode(r)
    BY <2>4 DEF Encode, AddRow
  <2>5. CASE EncodePlain(r)
    BY <2>5 DEF EncodePlain, AddRow
  <2> QED
    BY <1>5, <2>1, <2>2, <2>3, <2>4, <2>5
<1>6. ASSUME NEW r \in Rank, Raise(r) \/ Open(r) \/ Save(r) \/ Encode(r) \/ EncodePlain(r)
      PROVE  \A q \in Rank : pc'[q] # "route" => pc[q] # "route"
  BY <1>5, <1>6 DEF PcOK
<1>7. CASE UNCHANGED sdpoVars
  BY <1>7 DEF sdpoVars
<1> QED
  BY <1>1, <1>2, <1>3, <1>4, <1>5, <1>6, <1>7 DEF SdpoNext, SdpoTerminated

LEMMA RoutedNext ==
  ASSUME Aligned, PcOK, Routed, [SdpoNext]_sdpoVars
  PROVE  Routed'
<1>1. UNCHANGED data
  BY WhoChanges
<1>2. CASE Routing
  <2>1. \A r \in Rank, i \in Sample : route'[r][i] = Route(r, i) /\ hint'[r][i] = Hint(r, i)
    BY <1>2, WholeGroup DEF Routing
  <2> QED
    BY <1>1, <2>1, RouteKept DEF Routed
<1>3. CASE ~Routing
  <2>1. UNCHANGED <<route, hint>> /\ \A r \in Rank : pc'[r] # "route" => pc[r] # "route"
    BY <1>3, WhoChanges
  <2>2. \A r, i : Route(r, i)' = Route(r, i) /\ Hint(r, i)' = Hint(r, i)
    BY <1>1, RouteKept
  <2> QED
    BY <2>1, <2>2 DEF Routed
<1> QED
  BY <1>2, <1>3

-----------------------------------------------------------------------------
HintInv == DrawingInv /\ ScoreOK /\ Routed /\ BetterHint

LEMMA HintInit == Comparable /\ SdpoInit => HintInv
<1> SUFFICES ASSUME Comparable, SdpoInit PROVE HintInv
  OBVIOUS
<1>1. Routed /\ BetterHint
  BY DEF SdpoInit, Routed, BetterHint
<1> QED
  BY <1>1, DrawingInit, ScoreInit DEF HintInv

LEMMA BetterFollows ==
  (\A t \in taught : Better(t.rank, t.sample, t.shows)) <=> BetterHint
BY DEF Better, BetterHint

(* What is distilled has a hint: without one its tokens have no weight.     *)
LEMMA WeightedHasHint ==
  ASSUME TrueBoxOnly, ScoreOK, Routed, NEW r \in Rank, pc[r] # "route",
         NEW i \in Sample, i \in Weighted(r)
  PROVE  hint[r][i].type # "skip"
<1>1. CASE args.target = "gt"
  <2>1. args.source = "gt"
    BY <1>1 DEF TrueBoxOnly, ScoreOK
  <2>2. hint[r][i].type = "gt"
    BY <2>1 DEF Routed, Hint
  <2> QED
    BY <2>2
<1>2. CASE args.target # "gt"
  BY <1>2 DEF Weighted, Masked
<1> QED
  BY <1>1, <1>2

LEMMA HintNext ==
  Aligned /\ Comparable /\ TrueBoxOnly /\ HintInv /\ [SdpoNext]_sdpoVars => HintInv'
<1> SUFFICES ASSUME Aligned, Comparable, TrueBoxOnly, HintInv, [SdpoNext]_sdpoVars PROVE HintInv'
  OBVIOUS
<1>1. PcOK /\ DrawingInv /\ ScoreOK /\ Routed /\ BetterHint
  BY DEF HintInv, DrawingInv
<1>2. DrawingInv' /\ Routed'
  BY <1>1, DrawingNext, RoutedNext
<1>3. UNCHANGED data
  BY <1>1, WhoChanges
<1>4. ScoreOK'
  BY <1>1, <1>3 DEF ScoreOK, data, Prompt
<1>5. ASSUME NEW r \in Rank, NEW i \in Sample, NEW image, UNCHANGED route
      PROVE  Better(r, i, image)' = Better(r, i, image)
  BY <1>3, <1>5 DEF Better, data, Prompt
<1>6. BetterHint'
  <2>1. CASE Routing
    <3>1. Rank # {}
      BY BatchShape, SdpoConstants DEF Rank
    <3>2. taught = {} /\ taught' = taught
      BY <1>1, <2>1, <3>1 DEF Routing, DrawingInv, NothingDrawn
    <3> QED
      BY <3>2 DEF BetterHint
  <2>2. CASE Forward
    <3>1. UNCHANGED route
      BY <2>2 DEF Forward
    <3>2. ASSUME NEW t \in taught' PROVE Better(t.rank, t.sample, t.shows)'
      <4>1. CASE t \in taught
        <5>1. Better(t.rank, t.sample, t.shows)
          BY <1>1, <4>1, BetterFollows
        <5> QED
          BY <1>3, <3>1, <5>1 DEF Better, data, Prompt
      <4>2. CASE t \notin taught
        <5>1. PICK r \in Rank : \E e \in images[r] :
                e.sample \in Weighted(r) /\ t = [rank |-> r, sample |-> e.sample, shows |-> e.shows]
          BY <2>2, <4>2 DEF Forward
        <5>2. PICK e \in images[r] :
                e.sample \in Weighted(r) /\ t = [rank |-> r, sample |-> e.sample, shows |-> e.shows]
          BY <5>1
        <5>3. e.sample \in Sample /\ Shown(e.shows, r, e.sample)
          BY <1>1, <5>2 DEF DrawingInv, ImagesOK
        <5>4. pc[r] # "route"
          BY <2>2 DEF Forward
        <5>5. hint[r][e.sample].type # "skip"
          BY <1>1, <5>2, <5>3, <5>4, WeightedHasHint
        <5>6. e.shows = Drawn(r, e.sample)
          BY <5>3, <5>5 DEF Shown
        <5>7. Better(r, e.sample, e.shows)
          BY <1>1, <5>3, <5>4, <5>5, <5>6, HintIsBetter
        <5>8. Better(r, e.sample, e.shows)'
          BY <1>5, <3>1, <5>3, <5>7
        <5> QED
          BY <5>2, <5>8
      <4> QED
        BY <4>1, <4>2
    <3> QED
      BY <3>2 DEF Better, BetterHint
  <2>3. CASE ~Routing /\ ~Forward
    <3>1. UNCHANGED <<route, taught>>
      BY <1>1, <2>3, WhoChanges
    <3> QED
      BY <1>1, <1>3, <3>1 DEF BetterHint, data, Prompt
  <2> QED
    BY <2>1, <2>2, <2>3
<1> QED
  BY <1>2, <1>4, <1>6 DEF HintInv

(* With whole groups on each rank, and the true box as the hint where the   *)
(* target is the true box, what is distilled has the hint the arguments     *)
(* promise, and a sibling's box is better than the completion it corrects,  *)
(* for every group, every score and every threshold (_prepare_sdpo_routing, *)
(* _select_sdpo_sibling_hint, _attach_sdpo_batch).                          *)
THEOREM HintsAreBetter ==
  Aligned /\ Comparable /\ TrueBoxOnly /\ SdpoSpec => []BetterHint
<1> SUFFICES ASSUME Aligned, Comparable, TrueBoxOnly PROVE SdpoSpec => []BetterHint
  OBVIOUS
<1>1. SdpoInit => HintInv
  BY HintInit
<1>2. HintInv /\ [SdpoNext]_sdpoVars => HintInv'
  BY HintNext
<1>3. HintInv => BetterHint
  BY DEF HintInv
<1> QED
  BY <1>1, <1>2, <1>3, PTL DEF SdpoSpec
=============================================================================
