-------------------------- MODULE InferWorkerProofs --------------------------
(***************************************************************************)
(* Proofs about InferWorker, for any number of requests, any configs and   *)
(* adapters, any batch size, strict or not, and whatever fails to encode:  *)
(* every request receives its own outputs, in their order, and a stream is *)
(* not over before its last text.                                          *)
(***************************************************************************)
EXTENDS InferWorker, TLAPS, SequenceTheorems, WellFoundedInduction

(* The requests of one config are for one adapter.                          *)
SameAdapter ==
  \A p, q \in Request : ConfigOf[p] = ConfigOf[q] => AdapterOf[p] = AdapterOf[q]

(* No two streams are generated in one batch.                               *)
StreamsAlone ==
  \/ MaxBatch = 1
  \/ \A p, q \in Request : Streams(p) /\ ConfigOf[p] = ConfigOf[q] => p = q

-----------------------------------------------------------------------------
(* The inductive invariant.                                                 *)
In(s, r) == \E i \in DOMAIN s : s[i] = r
Once(s) == \A i, j \in DOMAIN s : s[i] = s[j] => i = j

(* The task of a config has only requests of it, and the adapter of one.    *)
Configs == {ConfigOf[r] : r \in Request}
Adapters == {AdapterOf[r] : r \in Request}
AdaptersOf(config) == {AdapterOf[r] : r \in {q \in Request : ConfigOf[q] = config}}

AnyTask == [config : Configs, adapter : Adapters, data : Seq(Request)]

GoodTask(task) ==
  /\ Once(task.data)
  /\ \A i \in DOMAIN task.data : ConfigOf[task.data[i]] = task.config
  /\ task.adapter \in AdaptersOf(task.config)

GoodPool(tasks) ==
  /\ tasks \in Seq(AnyTask) /\ \A k \in DOMAIN tasks : GoodTask(tasks[k])
  /\ \A k, l \in DOMAIN tasks : tasks[k].config = tasks[l].config => k = l

InPool(tasks, r) == \E k \in DOMAIN tasks : In(tasks[k].data, r)

GoodBatch(b) ==
  /\ b \in [adapter : Adapters \cup {"none"}, data : Seq(Request)] /\ Once(b.data)
  /\ \A i, j \in DOMAIN b.data : ConfigOf[b.data[i]] = ConfigOf[b.data[j]]
  /\ \A i \in DOMAIN b.data : b.adapter \in AdaptersOf(ConfigOf[b.data[i]])
  /\ MaxBatch = 1 => Len(b.data) <= 1

(* What may be put into the queue of a request.                             *)
Error(r) == [kind |-> "error", of |-> {r}]

Answers(r) ==
  [kind : {"answer", "text", "last"}, of : {{r}}, adapter : AdaptersOf(ConfigOf[r]), n : Nat]

Due(r) == IF r \in malformed THEN {Error(r)} ELSE Answers(r)

Types ==
  /\ malformed \subseteq Request /\ chunks \in Nat
  /\ client \in [Request -> {"new", "put", "waiting", "done"}]
  /\ worker \in {"off", "idle", "infer", "stream", "stop", "dead"}
  /\ queue \in Seq(Request) /\ GoodPool(pool) /\ GoodBatch(batch)
  /\ DOMAIN inbox = Request /\ DOMAIN got = Request
  /\ \A r \in Request : inbox[r] \in Seq(Due(r) \cup {End}) /\ got[r] \in Seq(Due(r))

(* A request is in one place of the engine.                                 *)
Places ==
  /\ Once(queue)
  /\ worker \in {"off", "idle"} => batch.data = << >>
  /\ \A r \in Request :
       /\ client[r] = "new" => ~In(queue, r) /\ ~InPool(pool, r) /\ ~In(batch.data, r)
       /\ In(queue, r) => ~InPool(pool, r) /\ ~In(batch.data, r)
       /\ In(batch.data, r) => ~InPool(pool, r)

(* It has received nothing before its batch is generated.                   *)
Unserved(r) ==
  \/ client[r] = "new" \/ In(queue, r) \/ InPool(pool, r)
  \/ worker \in {"infer", "dead"} /\ In(batch.data, r)

Served(r) == Unserved(r) => got[r] = << >> /\ inbox[r] = << >>

(* What it receives is numbered in the order it was generated: g is what it *)
(* has received, s what is still in its queue.                              *)
Rises(g, s) ==
  /\ \A i, j \in DOMAIN g : i < j => g[i].n < g[j].n
  /\ \A i, j \in DOMAIN s : i < j /\ s[i] # End /\ s[j] # End => s[i].n < s[j].n
  /\ \A i \in DOMAIN g, j \in DOMAIN s : s[j] # End => g[i].n < s[j].n

Bounded(g, s, c) ==
  /\ \A i \in DOMAIN g : g[i].n <= c
  /\ \A j \in DOMAIN s : s[j] # End => s[j].n <= c

Rising(r) == r \notin malformed =>
  /\ Rises(got[r], inbox[r])
  /\ worker = "stream" /\ In(batch.data, r) => Bounded(got[r], inbox[r], chunks)

(* The text of a stream before place j of its queue is the last one.        *)
HasLast(g) == g # << >> /\ g[Len(g)].kind = "last"
LastBefore(g, s, j) == IF j = 1 THEN HasLast(g) ELSE s[j - 1].kind = "last"
Ends(g, s) == \A j \in DOMAIN s : s[j] = End => LastBefore(g, s, j)

Whole(r) == StreamsAlone /\ Streams(r) /\ r \notin malformed =>
  IF client[r] = "done" THEN HasLast(got[r])
  ELSE /\ Ends(got[r], inbox[r])
       /\ worker = "stop" /\ In(batch.data, r) =>
            LastBefore(got[r], inbox[r], Len(inbox[r]) + 1)

IInv ==
  /\ Types /\ Places
  /\ \A r \in Request : Served(r) /\ Rising(r) /\ Whole(r)

-----------------------------------------------------------------------------
(* Induction over the numbers, by sets: what a recursive function computes  *)
(* is in reach of the provers that way.                                     *)
LEMMA Least ==
  ASSUME NEW T, T \subseteq Nat, T # {}
  PROVE  \E n \in T : \A m \in T : n <= m
<1> DEFINE Lt == {ss \in Nat \X Nat : ss[1] < ss[2]}
<1>1. IsWellFoundedOn(Lt, Nat)
  BY NatLessThanWellFounded DEF OpToRel
<1>2. PICK n \in T : \A m \in T : ~(<<m, n>> \in Lt)
  <2> HIDE DEF Lt
  <2> QED BY <1>1, WFMin
<1>3. ASSUME NEW m \in T PROVE ~(m < n)
  <2>1. <<m, n>> \in Nat \X Nat
    BY <1>3
  <2>2. <<m, n>> \notin {ss \in Nat \X Nat : ss[1] < ss[2]}
    BY <1>2
  <2>3. QED BY <2>1, <2>2
<1>4. QED BY <1>3

LEMMA Induction ==
  ASSUME NEW P, 0 \in P, \A n \in Nat : n \in P => n + 1 \in P
  PROVE  Nat \subseteq P
<1> SUFFICES ASSUME Nat \ P # {} PROVE FALSE
  OBVIOUS
<1>1. PICK n \in Nat \ P : \A m \in Nat \ P : n <= m
  BY Least
<1>2. n # 0 /\ n - 1 \in Nat /\ (n - 1) + 1 = n /\ ~(n <= n - 1)
  BY <1>1
<1>3. n - 1 \in P
  BY <1>1, <1>2
<1>4. QED BY <1>1, <1>2, <1>3

LEMMA UpTo ==
  ASSUME NEW n \in Nat, NEW P, 0 \in P, \A i \in Nat : i < n /\ i \in P => i + 1 \in P
  PROVE  0..n \subseteq P
<1> DEFINE Q == {i \in Nat : i <= n => i \in P}
<1>1. 0 \in Q
  OBVIOUS
<1>2. ASSUME NEW i \in Nat, i \in Q PROVE i + 1 \in Q
  <2>1. i + 1 <= n => i < n /\ i <= n
    OBVIOUS
  <2>2. QED BY <1>2, <2>1
<1> HIDE DEF Q
<1>3. Nat \subseteq Q
  BY <1>1, <1>2, Induction
<1>4. QED BY <1>3 DEF Q

(* A sequence of steps exists.                                              *)
Runs(f, n, first, step) ==
  \A i \in 0..n : f[i] = IF i = 0 THEN first ELSE step[<<f[i - 1], i>>]

LEMMA Iterates ==
  ASSUME NEW X, NEW first \in X, NEW n \in Nat, NEW step \in [X \X (1..n) -> X]
  PROVE  \E f \in [0..n -> X] : Runs(f, n, first, step)
<1> DEFINE Steps(f, m) == \A i \in 0..m : f[i] = IF i = 0 THEN first ELSE step[<<f[i - 1], i>>]
           P == {m \in Nat : m <= n => \E f \in [0..m -> X] : Steps(f, m)}
<1>1. 0 \in P
  <2>1. [i \in 0..0 |-> first] \in [0..0 -> X] /\ Steps([i \in 0..0 |-> first], 0)
    OBVIOUS
  <2>2. QED BY <2>1
<1>2. ASSUME NEW m \in Nat, m \in P PROVE m + 1 \in P
  <2> SUFFICES ASSUME m + 1 <= n PROVE \E f \in [0..m + 1 -> X] : Steps(f, m + 1)
    OBVIOUS
  <2>1. PICK f \in [0..m -> X] : Steps(f, m)
    BY <1>2
  <2>2. PICK x \in X : x = step[<<f[m], m + 1>>]
    OBVIOUS
  <2>3. PICK g : g = [i \in 0..m + 1 |-> IF i = m + 1 THEN x ELSE f[i]]
    OBVIOUS
  <2>4. g \in [0..m + 1 -> X]
    BY <2>3
  <2>5. ASSUME NEW i \in 0..m + 1 PROVE g[i] = IF i = 0 THEN first ELSE step[<<g[i - 1], i>>]
    <3>1. CASE i = m + 1
      <4>1. i # 0 /\ i - 1 = m /\ m \in 0..m + 1 /\ m # m + 1 /\ i \in 0..m + 1
        BY <3>1
      <4>2. g[i] = x /\ g[m] = f[m]
        BY <2>3, <3>1, <4>1
      <4>3. QED BY <2>2, <3>1, <4>1, <4>2
    <3>2. CASE i # m + 1
      <4>1. i \in 0..m /\ (i # 0 => i - 1 \in 0..m)
        BY <3>2
      <4>2. g[i] = f[i] /\ (i # 0 => g[i - 1] = f[i - 1])
        BY <2>3, <4>1
      <4>3. QED BY <2>1, <4>1, <4>2
    <3>3. QED BY <3>1, <3>2
  <2>6. QED BY <2>4, <2>5
<1> HIDE DEF P
<1>3. n \in P
  BY <1>1, <1>2, Induction
<1>4. QED BY <1>3 DEF P, Runs

-----------------------------------------------------------------------------
(* What the recursive functions of the model compute.                       *)

(* The elements of a sequence that are in a set: the n-th of them is known  *)
(* from what was kept before.                                               *)
Keeps(f, s, S) ==
  \A n \in 0..Len(s) : f[n] = IF n = 0 THEN << >>
                              ELSE IF s[n] \in S THEN Append(f[n - 1], s[n]) ELSE f[n - 1]

LEMMA AmongRuns ==
  ASSUME NEW T, NEW s \in Seq(T), NEW S
  PROVE  \E f \in [0..Len(s) -> Seq(T)] : Keeps(f, s, S) /\ Among(s, S) = f[Len(s)]
<1>1. PICK n \in Nat : n = Len(s) /\ \A i \in 1..n : s[i] \in T
  BY LenProperties, ElementOfSeq
<1> DEFINE X == Seq(T)
           step == [p \in X \X (1..n) |-> IF s[p[2]] \in S THEN Append(p[1], s[p[2]]) ELSE p[1]]
           Kept(f) == f = [i \in 0..n |-> IF i = 0 THEN << >>
                             ELSE IF s[i] \in S THEN Append(f[i - 1], s[i]) ELSE f[i - 1]]
           kept == CHOOSE f : Kept(f)
<1> HIDE DEF X
<1>2. << >> \in X
  BY DEF X
<1>3. step \in [X \X (1..n) -> X]
  <2>1. ASSUME NEW x \in X, NEW i \in 1..n PROVE Append(x, s[i]) \in X
    BY <1>1, AppendProperties DEF X
  <2>2. QED BY <2>1
<1>4. PICK f \in [0..n -> X] : Runs(f, n, << >>, step)
  <2> HIDE DEF step
  <2> QED BY <1>1, <1>2, <1>3, Iterates
<1>5. \A i \in 0..n : f[i] = IF i = 0 THEN << >>
                             ELSE IF s[i] \in S THEN Append(f[i - 1], s[i]) ELSE f[i - 1]
  <2> SUFFICES ASSUME NEW i \in 0..n
               PROVE  f[i] = IF i = 0 THEN << >>
                             ELSE IF s[i] \in S THEN Append(f[i - 1], s[i]) ELSE f[i - 1]
    OBVIOUS
  <2>1. f[i] = IF i = 0 THEN << >> ELSE step[<<f[i - 1], i>>]
    <3> HIDE DEF step
    <3> QED BY <1>4 DEF Runs
  <2>2. CASE i = 0
    BY <2>1, <2>2
  <2>3. CASE i # 0
    <3>1. i \in 1..n /\ i - 1 \in 0..n
      BY <2>3
    <3>2. <<f[i - 1], i>> \in X \X (1..n)
      BY <1>4, <3>1
    <3>3. step[<<f[i - 1], i>>] = IF s[i] \in S THEN Append(f[i - 1], s[i]) ELSE f[i - 1]
      BY <3>2
    <3> HIDE DEF step
    <3>4. QED BY <2>1, <2>3, <3>3
  <2>4. QED BY <2>2, <2>3
<1>6. Kept(kept)
  <2>1. Kept(f)
    BY <1>4, <1>5
  <2> HIDE DEF Kept
  <2>2. QED BY <2>1
<1>7. Among(s, S) = kept[n]
  BY <1>1 DEF Among
<1> HIDE DEF kept
<1> DEFINE P == {i \in Nat : i <= n => kept[i] = f[i]}
<1>8. 0 \in P
  BY <1>5, <1>6
<1>9. ASSUME NEW i \in Nat, i < n, i \in P PROVE i + 1 \in P
  <2>1. i + 1 \in 0..n /\ i + 1 # 0 /\ (i + 1) - 1 = i /\ kept[i] = f[i]
    BY <1>9
  <2>2. kept[i + 1] = IF s[i + 1] \in S THEN Append(kept[i], s[i + 1]) ELSE kept[i]
    BY <1>6, <2>1
  <2>3. f[i + 1] = IF s[i + 1] \in S THEN Append(f[i], s[i + 1]) ELSE f[i]
    BY <1>5, <2>1
  <2>4. QED BY <2>1, <2>2, <2>3
<1> HIDE DEF P
<1>10. 0..n \subseteq P
  BY <1>8, <1>9, UpTo
<1>11. Among(s, S) = f[Len(s)]
  <2>1. n \in P
    BY <1>10
  <2>2. QED BY <1>1, <1>7, <2>1 DEF P
<1>12. QED BY <1>1, <1>4, <1>5, <1>11 DEF Keeps, X

(* ... is a beginning of all that is kept, and grows with every element.    *)
Grows(f, l) ==
  \A n \in 0..l : Len(f[n]) <= Len(f[l]) /\ \A i \in 1..Len(f[n]) : f[l][i] = f[n][i]

LEMMA KeptGrow ==
  ASSUME NEW T, NEW s \in Seq(T), NEW S, NEW f \in [0..Len(s) -> Seq(T)], Keeps(f, s, S)
  PROVE  Grows(f, Len(s))
<1>1. PICK n \in Nat : n = Len(s)
  BY LenProperties
<1> DEFINE P == {k \in Nat : k <= n =>
                   /\ Len(f[n - k]) <= Len(f[n])
                   /\ \A i \in 1..Len(f[n - k]) : f[n][i] = f[n - k][i]}
<1>2. 0 \in P
  <2>1. n - 0 = n /\ n \in 0..n
    OBVIOUS
  <2>2. Len(f[n]) \in Nat
    BY <1>1, <2>1, LenProperties
  <2>3. QED BY <2>1, <2>2
<1>3. ASSUME NEW k \in Nat, k < n, k \in P PROVE k + 1 \in P
  <2>1. PICK m \in 1..n : m = n - k /\ m - 1 = n - (k + 1) /\ m \in 0..n /\ m - 1 \in 0..n /\ m # 0
    BY <1>3
  <2>2. PICK l \in Nat, x \in Seq(T), y \in Seq(T) : x = f[m - 1] /\ y = f[m] /\ l = Len(x)
    BY <1>1, <2>1, LenProperties
  <2>3. y = IF s[m] \in S THEN Append(x, s[m]) ELSE x
    BY <1>1, <2>1, <2>2 DEF Keeps
  <2>4. s[m] \in T
    BY <1>1, <2>1, ElementOfSeq
  <2>5. l <= Len(y) /\ Len(y) \in Nat /\ \A i \in 1..l : y[i] = x[i]
    BY <2>2, <2>3, <2>4, AppendProperties
  <2>6. Len(y) <= Len(f[n]) /\ \A i \in 1..Len(y) : f[n][i] = y[i]
    BY <1>3, <2>1, <2>2
  <2>7. Len(f[n]) \in Nat
    BY <1>1, LenProperties
  <2>8. l <= Len(f[n]) /\ \A i \in 1..l : f[n][i] = x[i]
    BY <2>5, <2>6, <2>7
  <2>9. QED BY <2>1, <2>2, <2>8
<1> HIDE DEF P
<1>4. 0..n \subseteq P
  BY <1>2, <1>3, UpTo
<1>5. ASSUME NEW k \in 0..n
      PROVE  Len(f[k]) <= Len(f[n]) /\ \A i \in 1..Len(f[k]) : f[n][i] = f[k][i]
  <2>1. n - k \in 0..n /\ n - (n - k) = k /\ n - k <= n
    OBVIOUS
  <2>2. n - k \in P
    BY <1>4, <2>1
  <2>3. QED BY <2>1, <2>2 DEF P
<1>6. QED BY <1>1, <1>5 DEF Grows

Inserted(t, T, s, i, e) ==
  /\ t \in Seq(T) /\ Len(t) = Len(s) + 1
  /\ \A j \in 1..Len(s) + 1 : t[j] = IF j < i THEN s[j] ELSE IF j = i THEN e ELSE s[j - 1]

LEMMA InsertFacts ==
  ASSUME NEW T, NEW s \in Seq(T), NEW e \in T, NEW i \in 1..Len(s) + 1
  PROVE  Inserted(InsertAt(s, i, e), T, s, i, e)
<1>1. PICK n \in Nat : n = Len(s) /\ i \in 1..n + 1 /\ \A j \in 1..n : s[j] \in T
  BY LenProperties, ElementOfSeq
<1>2. PICK a \in Seq(T) : /\ a = SubSeq(s, 1, i - 1) /\ Len(a) = i - 1
                          /\ \A j \in 1..i - 1 : a[j] = s[j]
  <2>1. \A j \in 1..i - 1 : s[j] \in T
    BY <1>1
  <2>2. /\ SubSeq(s, 1, i - 1) \in Seq(T)
        /\ Len(SubSeq(s, 1, i - 1)) = IF 1 <= i - 1 THEN (i - 1) - 1 + 1 ELSE 0
        /\ \A j \in 1..(i - 1) - 1 + 1 : SubSeq(s, 1, i - 1)[j] = s[1 + j - 1]
    BY <1>1, <2>1, SubSeqProperties
  <2>3. (i - 1) - 1 + 1 = i - 1 /\ (~(1 <= i - 1) => i - 1 = 0)
    BY <1>1
  <2>4. ASSUME NEW j \in 1..i - 1 PROVE SubSeq(s, 1, i - 1)[j] = s[j]
    <3>1. 1 + j - 1 = j /\ j \in 1..(i - 1) - 1 + 1
      BY <2>3
    <3>2. QED BY <2>2, <3>1
  <2>5. Len(SubSeq(s, 1, i - 1)) = i - 1
    BY <2>2, <2>3
  <2>6. QED BY <2>2, <2>4, <2>5
<1>3. PICK b \in Seq(T) : /\ b = SubSeq(s, i, n) /\ Len(b) = n - i + 1
                          /\ \A j \in 1..n - i + 1 : b[j] = s[i + j - 1]
  <2>1. \A j \in i..n : s[j] \in T
    BY <1>1
  <2>2. /\ SubSeq(s, i, n) \in Seq(T)
        /\ Len(SubSeq(s, i, n)) = IF i <= n THEN n - i + 1 ELSE 0
        /\ \A j \in 1..n - i + 1 : SubSeq(s, i, n)[j] = s[i + j - 1]
    BY <1>1, <2>1, SubSeqProperties
  <2>3. ~(i <= n) => n - i + 1 = 0
    BY <1>1
  <2>4. Len(SubSeq(s, i, n)) = n - i + 1
    BY <2>2, <2>3
  <2>5. QED BY <2>2, <2>4
<1>4. PICK c \in Seq(T) : /\ c = a \o <<e>> /\ Len(c) = i /\ c[i] = e
                          /\ \A j \in 1..i - 1 : c[j] = s[j]
  <2>1. <<e>> \in Seq(T) /\ Len(<<e>>) = 1 /\ <<e>>[1] = e
    OBVIOUS
  <2>2. /\ a \o <<e>> \in Seq(T) /\ Len(a \o <<e>>) = Len(a) + Len(<<e>>)
        /\ \A j \in 1..Len(a) + Len(<<e>>) :
             (a \o <<e>>)[j] = IF j <= Len(a) THEN a[j] ELSE <<e>>[j - Len(a)]
    BY <2>1, ConcatProperties
  <2>3. Len(a \o <<e>>) = i /\ \A j \in 1..i : (a \o <<e>>)[j] = IF j <= i - 1 THEN a[j] ELSE <<e>>[j - (i - 1)]
    BY <1>1, <1>2, <2>1, <2>2
  <2>4. (a \o <<e>>)[i] = e
    <3>1. i \in 1..i /\ ~(i <= i - 1) /\ i - (i - 1) = 1
      BY <1>1
    <3>2. QED BY <2>1, <2>3, <3>1
  <2>5. \A j \in 1..i - 1 : (a \o <<e>>)[j] = s[j]
    BY <1>1, <1>2, <2>3
  <2>6. QED BY <2>2, <2>3, <2>4, <2>5
<1>5. PICK d \in Seq(T) : /\ d = c \o b /\ Len(d) = n + 1
                          /\ \A j \in 1..n + 1 : d[j] = IF j <= i THEN c[j] ELSE b[j - i]
  <2>1. /\ c \o b \in Seq(T) /\ Len(c \o b) = Len(c) + Len(b)
        /\ \A j \in 1..Len(c) + Len(b) :
             (c \o b)[j] = IF j <= Len(c) THEN c[j] ELSE b[j - Len(c)]
    BY ConcatProperties
  <2>2. Len(c) = i /\ Len(b) = n - i + 1 /\ i + (n - i + 1) = n + 1
    BY <1>1, <1>3, <1>4
  <2>3. Len(c \o b) = n + 1
    BY <2>1, <2>2
  <2>4. \A j \in 1..n + 1 : (c \o b)[j] = IF j <= i THEN c[j] ELSE b[j - i]
    BY <2>1, <2>2
  <2>5. QED BY <2>1, <2>3, <2>4
<1>6. InsertAt(s, i, e) = d
  BY <1>1, <1>2, <1>3, <1>4, <1>5 DEF InsertAt
<1>7. ASSUME NEW j \in 1..n + 1
      PROVE  d[j] = IF j < i THEN s[j] ELSE IF j = i THEN e ELSE s[j - 1]
  <2>1. CASE j < i
    <3>1. j <= i /\ j \in 1..i - 1
      BY <1>1, <2>1
    <3>2. d[j] = c[j] /\ c[j] = s[j]
      BY <1>4, <1>5, <3>1
    <3>3. QED BY <2>1, <3>2
  <2>2. CASE j = i
    BY <1>1, <1>4, <1>5, <2>2
  <2>3. CASE i < j
    <3>1. j - i \in 1..n - i + 1 /\ i + (j - i) - 1 = j - 1 /\ ~(j <= i)
      BY <1>1, <2>3
    <3>2. d[j] = s[j - 1]
      BY <1>3, <1>5, <3>1
    <3>3. QED BY <1>1, <2>3, <3>2
  <2>4. QED BY <1>1, <2>1, <2>2, <2>3
<1>8. QED BY <1>1, <1>5, <1>6, <1>7 DEF Inserted

(* Each error is at the place of its request, and the outputs, one for each *)
(* of the other requests, are at theirs.                                    *)
Fit(results, outputs) ==
  LET data == batch.data
  IN  /\ DOMAIN results = DOMAIN data
      /\ \A i \in DOMAIN data :
           IF data[i] \in malformed THEN results[i] = Error(data[i])
           ELSE \E k \in DOMAIN Good(data) : Good(data)[k] = data[i] /\ results[i] = outputs[k]

(* The places of a list of m outputs, x of them used, with k - 1 and with k *)
(* of the requests behind it.                                               *)
LEMMA Shifted ==
  ASSUME NEW k \in Nat, 1 <= k, NEW m \in Nat, NEW x \in Nat, x <= m
  PROVE  m + (k - 1) - x + 1 = m + k - x /\ k \in 1..m + (k - 1) - x + 1
OBVIOUS

LEMMA ShiftedBefore ==
  ASSUME NEW k \in Nat, NEW m \in Nat, NEW x \in Nat, x <= m, NEW j \in 1..m + k - x, j < k
  PROVE  j \in 1..m + (k - 1) - x /\ j <= k - 1 /\ j <= k
OBVIOUS

LEMMA ShiftedBehind ==
  ASSUME NEW k \in Nat, 1 <= k, NEW m \in Nat, NEW x \in Nat, x <= m, NEW j \in 1..m + k - x, k < j
  PROVE  /\ j - 1 \in 1..m + (k - 1) - x /\ ~(j - 1 <= k - 1) /\ ~(j <= k)
         /\ ~(j < k) /\ j # k /\ (j - 1) - (k - 1) + x = j - k + x
OBVIOUS

LEMMA Behind ==
  ASSUME NEW k \in Nat, NEW m \in Nat, NEW x \in Nat, x <= m, NEW j \in 1..m + k - x, ~(j <= k)
  PROVE  j - k + x \in 1..m
OBVIOUS

LEMMA ErrorsPutBack ==
  ASSUME batch.data \in Seq(Request), NEW T, NEW outputs \in Seq(T),
         Len(outputs) = Len(Good(batch.data))
  PROVE  Fit(WithErrors(outputs), outputs)
<1>1. PICK data \in Seq(Request), n \in Nat :
        data = batch.data /\ n = Len(data) /\ DOMAIN data = 1..n
  BY LenProperties
<1>2. PICK f \in [0..n -> Seq(Request)] : Keeps(f, data, Request \ malformed) /\ Good(data) = f[n]
  BY <1>1, AmongRuns DEF Good
<1>3. PICK c : c = [k \in 0..n |-> Len(f[k])]
  OBVIOUS
<1>4. c \in [0..n -> Nat]
  BY <1>2, <1>3, LenProperties
<1>5. \A k \in 0..n : c[k] <= c[n] /\ \A i \in 1..c[k] : f[n][i] = f[k][i]
  <2>1. f \in [0..Len(data) -> Seq(Request)] /\ Keeps(f, data, Request \ malformed)
    BY <1>1, <1>2
  <2>2. Grows(f, n)
    BY <1>1, <2>1, KeptGrow
  <2>3. n \in 0..n
    OBVIOUS
  <2>4. QED BY <1>3, <2>2, <2>3 DEF Grows
<1>6. c[0] = 0
  BY <1>1, <1>2, <1>3 DEF Keeps
<1>7. ASSUME NEW k \in 1..n
      PROVE  IF data[k] \in malformed THEN c[k] = c[k - 1]
             ELSE c[k] = c[k - 1] + 1 /\ f[k][c[k]] = data[k]
  <2>1. k \in 0..n /\ k - 1 \in 0..n /\ k # 0 /\ data[k] \in Request
    BY <1>1, ElementOfSeq
  <2>2. f[k] = IF data[k] \in Request \ malformed THEN Append(f[k - 1], data[k]) ELSE f[k - 1]
    BY <1>1, <1>2, <2>1 DEF Keeps
  <2>3. CASE data[k] \in malformed
    BY <1>3, <2>1, <2>2, <2>3
  <2>4. CASE data[k] \notin malformed
    <3>1. f[k] = Append(f[k - 1], data[k]) /\ f[k - 1] \in Seq(Request)
      BY <1>2, <2>1, <2>2, <2>4
    <3>2. Len(f[k]) = Len(f[k - 1]) + 1 /\ f[k][Len(f[k])] = data[k]
      BY <2>1, <3>1, AppendProperties
    <3>3. QED BY <1>3, <2>1, <2>4, <3>2
  <2>5. QED BY <2>3, <2>4
<1>8. c[n] = Len(outputs)
  BY <1>1, <1>2, <1>3
<1> DEFINE At(k, j) == IF j <= k THEN IF data[j] \in malformed THEN Error(data[j]) ELSE outputs[c[j]]
                                 ELSE outputs[j - k + c[k]]
           g == [k \in 0..n |-> [j \in 1..c[n] + k - c[k] |-> At(k, j)]]
           W == T \cup {Error(r) : r \in Request}
<1>9. ASSUME NEW k \in 0..n, NEW j \in 1..c[n] + k - c[k] PROVE At(k, j) \in W
  <2>1. PICK x \in Nat, y \in Nat : x = c[k] /\ y = c[n] /\ x <= y /\ \A i \in 1..y : outputs[i] \in T
    BY <1>4, <1>5, <1>8, ElementOfSeq
  <2>2. CASE j <= k
    <3>1. j \in 1..n /\ j \in 0..n /\ data[j] \in Request
      BY <1>1, <2>2, ElementOfSeq
    <3>2. data[j] \notin malformed => c[j] \in 1..c[n]
      <4>1. j - 1 \in 0..n /\ n \in 0..n
        BY <3>1
      <4>2. c[j - 1] \in Nat /\ c[j] \in Nat /\ c[n] \in Nat /\ c[j] <= c[n]
        BY <1>4, <1>5, <3>1, <4>1
      <4>3. data[j] \notin malformed => c[j] = c[j - 1] + 1
        BY <1>7, <3>1
      <4>4. QED BY <4>2, <4>3
    <3>3. QED BY <2>1, <2>2, <3>1, <3>2
  <2>3. CASE ~(j <= k)
    <3>1. j - k + x \in 1..y
      <4>1. k \in Nat
        BY <1>1
      <4>2. j \in 1..y + k - x
        BY <2>1
      <4>3. QED BY <2>1, <2>3, <4>1, <4>2, Behind
    <3>2. QED BY <2>1, <2>3, <3>1
  <2>4. QED BY <2>2, <2>3
<1>10. ASSUME NEW k \in 0..n
       PROVE  /\ g[k] \in Seq(W) /\ Len(g[k]) = c[n] + k - c[k]
              /\ \A j \in 1..c[n] + k - c[k] : g[k][j] = At(k, j)
  <2>1. PICK l \in Nat : l = c[n] + k - c[k]
    BY <1>4, <1>5
  <2>2. g[k] = [j \in 1..l |-> At(k, j)]
    BY <2>1
  <2> HIDE DEF At, W
  <2>3. g[k] \in [1..l -> W]
    BY <1>9, <2>1, <2>2
  <2> HIDE DEF g
  <2>4. g[k] \in Seq(W) /\ Len(g[k]) = l
    <3>1. PICK h : h = g[k]
      OBVIOUS
    <3>2. h \in [1..l -> W]
      BY <2>3, <3>1
    <3>3. h \in Seq(W) /\ Len(h) = l
      BY <3>2
    <3>4. QED BY <3>1, <3>3
  <2>5. QED BY <2>1, <2>2, <2>4
<1>11. \A r \in Request : Error(r) \in W
  OBVIOUS
<1> HIDE DEF g, W
<1>12. g[0] = outputs
  <2>1. g[0] \in Seq(W) /\ Len(g[0]) = Len(outputs) /\ c[n] + 0 - c[0] = Len(outputs)
    <3>1. 0 \in 0..n
      OBVIOUS
    <3>2. c[n] + 0 - c[0] = c[n]
      <4>1. n \in 0..n
        OBVIOUS
      <4>2. QED BY <1>4, <1>6, <4>1
    <3>3. g[0] \in Seq(W) /\ Len(g[0]) = c[n] + 0 - c[0]
      BY <1>10, <3>1
    <3>4. QED BY <1>8, <3>2, <3>3
  <2>2. ASSUME NEW j \in 1..Len(outputs) PROVE g[0][j] = outputs[j]
    <3>1. g[0][j] = At(0, j)
      BY <1>10, <2>1
    <3>2. ~(j <= 0) /\ j - 0 + c[0] = j
      BY <1>6, <1>8, <1>4
    <3>3. QED BY <3>1, <3>2
  <2>3. outputs \in Seq(W)
    <3>1. T \subseteq W
      BY DEF W
    <3>2. QED BY <3>1, SeqMonotonic
  <2> HIDE DEF At
  <2>4. QED BY <2>1, <2>2, <2>3, SeqEqual
<1>13. ASSUME NEW k \in 1..n
       PROVE  g[k] = IF data[k] \in malformed THEN InsertAt(g[k - 1], k, Error(data[k])) ELSE g[k - 1]
  <2>1. k \in 0..n /\ k - 1 \in 0..n /\ data[k] \in Request /\ k \in Nat /\ 1 <= k
    BY <1>1, ElementOfSeq
  <2>2. PICK x \in Nat, y \in Nat, m \in Nat :
          x = c[k - 1] /\ y = c[k] /\ m = c[n] /\ x <= m /\ y <= m
    <3>1. n \in 0..n
      OBVIOUS
    <3>2. c[k - 1] \in Nat /\ c[k] \in Nat /\ c[n] \in Nat
      BY <1>4, <2>1, <3>1
    <3>3. c[k - 1] <= c[n] /\ c[k] <= c[n]
      BY <1>5, <2>1
    <3>4. QED BY <3>2, <3>3
  <2>3. /\ g[k - 1] \in Seq(W) /\ Len(g[k - 1]) = m + (k - 1) - x
        /\ \A j \in 1..m + (k - 1) - x : g[k - 1][j] = At(k - 1, j)
    BY <1>10, <2>1, <2>2
  <2>4. /\ g[k] \in Seq(W) /\ Len(g[k]) = m + k - y
        /\ \A j \in 1..m + k - y : g[k][j] = At(k, j)
    BY <1>10, <2>1, <2>2
  <2>5. CASE data[k] \in malformed
    <3>1. y = x
      BY <1>7, <2>2, <2>5
    <3>2. PICK t \in Seq(W) :
            /\ t = InsertAt(g[k - 1], k, Error(data[k])) /\ Len(t) = m + k - y
            /\ \A j \in 1..m + k - y :
                 t[j] = IF j < k THEN g[k - 1][j] ELSE IF j = k THEN Error(data[k]) ELSE g[k - 1][j - 1]
      <4>1. k \in 1..Len(g[k - 1]) + 1 /\ Error(data[k]) \in W /\ Len(g[k - 1]) + 1 = m + k - y
        <5>1. m + (k - 1) - x + 1 = m + k - y /\ k \in 1..m + (k - 1) - x + 1
          <6>1. k \in Nat /\ 1 <= k /\ x <= m
            BY <2>1, <2>2
          <6>2. m + (k - 1) - x + 1 = m + k - x /\ k \in 1..m + (k - 1) - x + 1
            BY <6>1, Shifted
          <6>3. QED BY <3>1, <6>2
        <5>2. QED BY <1>11, <2>1, <2>3, <5>1
      <4>2. PICK q \in Seq(W) : q = g[k - 1]
        BY <2>3
      <4>3. Inserted(InsertAt(q, k, Error(data[k])), W, q, k, Error(data[k]))
        <5>1. k \in 1..Len(q) + 1 /\ Error(data[k]) \in W
          BY <4>1, <4>2
        <5>2. QED BY <5>1, InsertFacts
      <4>4. QED BY <4>1, <4>2, <4>3 DEF Inserted
    <3>3. ASSUME NEW j \in 1..m + k - y PROVE t[j] = g[k][j]
      <4>1. CASE j < k
        <5>2. j \in 1..m + (k - 1) - x /\ j <= k - 1 /\ j <= k
          <6>1. j \in 1..m + k - x
            BY <3>1
          <6>2. QED BY <2>1, <2>2, <4>1, <6>1, ShiftedBefore
        <5>3. t[j] = g[k - 1][j] /\ g[k - 1][j] = At(k - 1, j) /\ g[k][j] = At(k, j)
          BY <2>3, <2>4, <3>2, <4>1, <5>2
        <5>4. QED BY <5>2, <5>3
      <4>2. CASE j = k
        <5>1. t[j] = Error(data[k])
          BY <3>2, <4>2
        <5>2. g[k][j] = At(k, j)
          BY <2>4
        <5>3. j <= k
          BY <2>1, <4>2
        <5>4. QED BY <2>5, <4>2, <5>1, <5>2, <5>3
      <4>3. CASE k < j
        <5>1. /\ j - 1 \in 1..m + (k - 1) - x /\ ~(j - 1 <= k - 1) /\ ~(j <= k)
              /\ ~(j < k) /\ j # k /\ (j - 1) - (k - 1) + x = j - k + y
          <6>1. j \in 1..m + k - x
            BY <3>1
          <6>2. /\ j - 1 \in 1..m + (k - 1) - x /\ ~(j - 1 <= k - 1) /\ ~(j <= k)
                /\ ~(j < k) /\ j # k /\ (j - 1) - (k - 1) + x = j - k + x
            <7>1. k \in Nat /\ 1 <= k /\ x <= m
              BY <2>1, <2>2
            <7>2. QED BY <4>3, <6>1, <7>1, ShiftedBehind
          <6>3. QED BY <3>1, <6>2
        <5>4. At(k - 1, j - 1) = At(k, j)
          BY <2>2, <5>1
        <5>5. t[j] = g[k - 1][j - 1] /\ g[k - 1][j - 1] = At(k - 1, j - 1) /\ g[k][j] = At(k, j)
          BY <2>3, <2>4, <3>2, <5>1
        <5>6. QED BY <5>4, <5>5
      <4>4. QED BY <4>1, <4>2, <4>3
    <3>4. t = g[k]
      <4>1. PICK q \in Seq(W) : q = g[k]
        BY <2>4
      <4>2. Len(t) = Len(q) /\ \A j \in 1..Len(t) : t[j] = q[j]
        BY <2>4, <3>2, <3>3, <4>1
      <4>3. QED BY <4>1, <4>2, SeqEqual
    <3>5. QED BY <2>5, <3>2, <3>4
  <2>6. CASE data[k] \notin malformed
    <3>1. y = x + 1
      BY <1>7, <2>2, <2>6
    <3>2. m + k - y = m + (k - 1) - x
      BY <3>1
    <3>3. ASSUME NEW j \in 1..m + k - y PROVE g[k - 1][j] = g[k][j]
      <4>1. CASE j < k
        <5>1. j <= k - 1 /\ j <= k
          BY <4>1
        <5>2. QED BY <2>3, <2>4, <3>2, <5>1
      <4>2. CASE j = k
        <5>1. ~(j <= k - 1) /\ j - (k - 1) + x = y /\ j <= k
          BY <3>1, <4>2
        <5>2. QED BY <2>2, <2>3, <2>4, <2>6, <3>2, <4>2, <5>1
      <4>3. CASE k < j
        <5>1. ~(j <= k - 1) /\ ~(j <= k) /\ j - (k - 1) + x = j - k + y
          BY <3>1, <4>3
        <5>2. QED BY <2>2, <2>3, <2>4, <3>2, <5>1
      <4>4. QED BY <4>1, <4>2, <4>3
    <3>4. PICK p \in Seq(W), q \in Seq(W) :
            p = g[k - 1] /\ q = g[k] /\ Len(p) = Len(q) /\ \A j \in 1..Len(p) : p[j] = q[j]
      <4>1. Len(g[k - 1]) = m + k - y /\ Len(g[k]) = m + k - y
        BY <2>3, <2>4, <3>2
      <4>2. PICK p \in Seq(W), q \in Seq(W) : p = g[k - 1] /\ q = g[k]
        BY <2>3, <2>4
      <4>3. Len(p) = Len(q)
        BY <4>1, <4>2
      <4>4. \A j \in 1..Len(p) : p[j] = q[j]
        BY <3>3, <4>1, <4>2
      <4>5. QED BY <4>2, <4>3, <4>4
    <3>5. p = q
      BY <3>4, SeqEqual
    <3>6. QED BY <2>6, <3>4, <3>5
  <2>7. QED BY <2>5, <2>6
<1> DEFINE Puts(h) == h = [k \in 0..n |-> IF k = 0 THEN outputs
                            ELSE IF data[k] \in malformed
                              THEN InsertAt(h[k - 1], k, [kind |-> "error", of |-> {data[k]}])
                              ELSE h[k - 1]]
           list == CHOOSE h : Puts(h)
<1>14. Puts(list)
  <2>1. Puts(g)
    <3>1. DOMAIN g = 0..n /\ g = [k \in 0..n |-> g[k]]
      BY DEF g
    <3>2. ASSUME NEW k \in 0..n
          PROVE  g[k] = IF k = 0 THEN outputs
                        ELSE IF data[k] \in malformed
                          THEN InsertAt(g[k - 1], k, [kind |-> "error", of |-> {data[k]}])
                          ELSE g[k - 1]
      <4>1. k # 0 => k \in 1..n
        OBVIOUS
      <4>2. QED BY <1>12, <1>13, <4>1 DEF Error
    <3>3. QED BY <3>1, <3>2
  <2> HIDE DEF Puts
  <2>2. QED BY <2>1
<1>15. WithErrors(outputs) = list[n]
  BY <1>1 DEF WithErrors
<1> HIDE DEF list
<1> DEFINE P == {i \in Nat : i <= n => list[i] = g[i]}
<1>16. 0 \in P
  BY <1>12, <1>14
<1>17. ASSUME NEW i \in Nat, i < n, i \in P PROVE i + 1 \in P
  <2>1. i + 1 \in 0..n /\ i + 1 \in 1..n /\ i + 1 # 0 /\ (i + 1) - 1 = i /\ list[i] = g[i]
    BY <1>17
  <2>2. list[i + 1] = IF data[i + 1] \in malformed
                        THEN InsertAt(list[i], i + 1, Error(data[i + 1])) ELSE list[i]
    BY <1>14, <2>1 DEF Error
  <2>3. g[i + 1] = IF data[i + 1] \in malformed
                     THEN InsertAt(g[i], i + 1, Error(data[i + 1])) ELSE g[i]
    BY <1>13, <2>1
  <2>4. QED BY <2>1, <2>2, <2>3
<1> HIDE DEF P
<1>18. 0..n \subseteq P
  BY <1>16, <1>17, UpTo
<1>19. WithErrors(outputs) = g[n]
  <2>1. n \in P
    BY <1>18
  <2>2. QED BY <1>15, <2>1 DEF P
<1>20. Len(g[n]) = n /\ DOMAIN g[n] = 1..n /\ \A j \in 1..n : g[n][j] = At(n, j)
  <2>1. n \in 0..n /\ c[n] + n - c[n] = n
    BY <1>4
  <2>2. g[n] \in Seq(W) /\ Len(g[n]) = n /\ \A j \in 1..n : g[n][j] = At(n, j)
    BY <1>10, <2>1
  <2>3. QED BY <2>2, LenProperties
<1>21. ASSUME NEW j \in 1..n, data[j] \notin malformed
       PROVE  \E k \in DOMAIN Good(data) : Good(data)[k] = data[j] /\ g[n][j] = outputs[k]
  <2>1. j \in 0..n /\ j - 1 \in 0..n
    OBVIOUS
  <2>2. c[j] = c[j - 1] + 1 /\ f[j][c[j]] = data[j]
    BY <1>7, <1>21
  <2>3. c[j] \in 1..c[j] /\ c[j] \in 1..c[n]
    <3>1. n \in 0..n
      OBVIOUS
    <3>2. c[j - 1] \in Nat /\ c[j] \in Nat /\ c[n] \in Nat /\ c[j] <= c[n]
      BY <1>4, <1>5, <2>1, <3>1
    <3>3. c[j] = c[j - 1] + 1
      BY <2>2
    <3>4. QED BY <3>2, <3>3
  <2>4. f[n][c[j]] = data[j]
    BY <1>5, <2>1, <2>2, <2>3
  <2>5. DOMAIN Good(data) = 1..c[n]
    BY <1>2, <1>3, LenProperties
  <2>6. g[n][j] = outputs[c[j]]
    BY <1>20, <1>21
  <2>7. QED BY <1>2, <2>3, <2>4, <2>5, <2>6
<1>22. ASSUME NEW j \in 1..n, data[j] \in malformed PROVE g[n][j] = Error(data[j])
  BY <1>20, <1>22
<1> HIDE DEF At
<1>23. QED BY <1>1, <1>19, <1>20, <1>21, <1>22 DEF Fit

-----------------------------------------------------------------------------
(* What is delivered: each request of the batch gets an element of its set. *)
Adds(X) ==
  /\ DOMAIN inbox' = Request
  /\ \A r \in Request : IF In(batch.data, r) THEN \E x \in X[r] : inbox'[r] = Append(inbox[r], x)
                                             ELSE inbox'[r] = inbox[r]

Matches(results, X) ==
  /\ DOMAIN results = DOMAIN batch.data
  /\ \A i \in DOMAIN batch.data : results[i] \in X[batch.data[i]]

LEMMA DeliverAdds ==
  ASSUME NEW X, NEW results, Once(batch.data), Matches(results, X), Deliver(results)
  PROVE  Adds(X)
<1>1. DOMAIN inbox' = Request
  BY DEF Deliver
<1>2. ASSUME NEW r \in Request
      PROVE  IF In(batch.data, r) THEN \E x \in X[r] : inbox'[r] = Append(inbox[r], x)
                                  ELSE inbox'[r] = inbox[r]
  <2> DEFINE places == {i \in DOMAIN batch.data : batch.data[i] = r}
  <2>1. inbox'[r] = IF places = {} THEN inbox[r]
                    ELSE Append(inbox[r], results[CHOOSE i \in places : TRUE])
    BY DEF Deliver
  <2>2. CASE In(batch.data, r)
    <3>1. PICK i \in places : i = CHOOSE j \in places : TRUE
      BY <2>2 DEF In
    <3>2. inbox'[r] = Append(inbox[r], results[i]) /\ results[i] \in X[r]
      BY <2>1, <3>1 DEF Matches
    <3>3. QED BY <2>2, <3>2
  <2>3. CASE ~In(batch.data, r)
    <3>1. places = {}
      BY <2>3 DEF In
    <3>2. QED BY <2>1, <2>3, <3>1
  <2>4. QED BY <2>2, <2>3
<1>3. QED BY <1>1, <1>2 DEF Adds

(* The outputs of the requests that are not malformed, and the errors.      *)
Outputs(outputs, X) ==
  /\ \A k \in DOMAIN Good(batch.data) : outputs[k] \in X[Good(batch.data)[k]]
  /\ \A r \in Request \cap malformed : Error(r) \in X[r]

LEMMA OutputsAdd ==
  ASSUME GoodBatch(batch), NEW X, NEW T, NEW outputs \in Seq(T),
         Len(outputs) = Len(Good(batch.data)), Outputs(outputs, X), Deliver(WithErrors(outputs))
  PROVE  Adds(X)
<1>1. batch.data \in Seq(Request) /\ Once(batch.data)
  BY DEF GoodBatch
<1>2. PICK results : results = WithErrors(outputs)
  OBVIOUS
<1>3. Fit(results, outputs) /\ Deliver(results)
  BY <1>1, <1>2, ErrorsPutBack
<1>4. Matches(results, X)
  <2>1. ASSUME NEW i \in DOMAIN batch.data PROVE results[i] \in X[batch.data[i]]
    <3>1. batch.data[i] \in Request
      BY <1>1, LenProperties, ElementOfSeq
    <3>2. CASE batch.data[i] \in malformed
      BY <1>3, <3>1, <3>2 DEF Fit, Outputs
    <3>3. CASE batch.data[i] \notin malformed
      BY <1>3, <3>1, <3>3 DEF Fit, Outputs
    <3>4. QED BY <3>2, <3>3
  <2>2. QED BY <1>3, <2>1 DEF Fit, Matches
<1>5. QED BY <1>1, <1>3, <1>4, DeliverAdds

LEMMA OneMore ==
  ASSUME NEW l \in Nat, NEW k \in Nat, l <= k
  PROVE  l <= k + 1 /\ l + 1 <= k + 1
OBVIOUS

(* The requests that are generated are some of the batch, at most as many.  *)
LEMMA GoodData ==
  ASSUME batch.data \in Seq(Request)
  PROVE  /\ Good(batch.data) \in Seq(Request)
         /\ Len(Good(batch.data)) \in Nat /\ DOMAIN Good(batch.data) = 1..Len(Good(batch.data))
         /\ \A k \in DOMAIN Good(batch.data) : Good(batch.data)[k] \notin malformed
         /\ Len(Good(batch.data)) <= Len(batch.data)
<1>1. PICK data \in Seq(Request), n \in Nat :
        data = batch.data /\ n = Len(data) /\ \A i \in 1..n : data[i] \in Request
  BY LenProperties, ElementOfSeq
<1>2. PICK f \in [0..n -> Seq(Request)] : Keeps(f, data, Request \ malformed) /\ Good(data) = f[n]
  BY <1>1, AmongRuns DEF Good
<1> DEFINE P == {k \in Nat : k <= n =>
                   /\ f[k] \in Seq(Request) /\ Len(f[k]) \in Nat /\ Len(f[k]) <= k
                   /\ \A i \in 1..Len(f[k]) : f[k][i] \notin malformed}
<1>3. 0 \in P
  <2>1. 0 \in 0..n /\ f[0] = << >>
    BY <1>1, <1>2 DEF Keeps
  <2>2. QED BY <2>1
<1>4. ASSUME NEW k \in Nat, k < n, k \in P PROVE k + 1 \in P
  <2>1. k + 1 \in 0..n /\ k \in 0..n /\ k + 1 # 0 /\ (k + 1) - 1 = k /\ k + 1 \in 1..n /\ k <= n
    BY <1>4
  <2>2. PICK s \in Seq(Request), t \in Seq(Request), l \in Nat :
          s = f[k] /\ t = f[k + 1] /\ l = Len(s) /\ l <= k /\ \A i \in 1..l : s[i] \notin malformed
    BY <1>4, <2>1
  <2>3. t = IF data[k + 1] \in Request \ malformed THEN Append(s, data[k + 1]) ELSE s
    BY <1>1, <1>2, <2>1, <2>2 DEF Keeps
  <2>4. CASE data[k + 1] \in malformed
    <3>1. t = s
      BY <2>3, <2>4
    <3>2. l <= k
      BY <2>2
    <3>3. l <= k + 1
      BY <3>2, OneMore
    <3>4. s = f[k + 1] /\ Len(s) \in Nat /\ Len(s) <= k + 1
      BY <2>2, <3>1, <3>3
    <3>5. \A i \in 1..Len(s) : s[i] \notin malformed
      BY <2>2
    <3>6. k + 1 \in Nat
      OBVIOUS
    <3>7. QED BY <3>4, <3>5, <3>6
  <2>5. CASE data[k + 1] \notin malformed
    <3>1. PICK e \in Request : e = data[k + 1] /\ e \notin malformed
      BY <1>1, <2>1, <2>5
    <3>2. Len(t) = l + 1 /\ t[l + 1] = e /\ \A i \in 1..l : t[i] = s[i]
      BY <2>2, <2>3, <3>1, AppendProperties
    <3>3. l + 1 \in Nat /\ l + 1 <= k + 1
      BY <2>2
    <3>4. ASSUME NEW i \in 1..l + 1 PROVE t[i] \notin malformed
      <4>1. i \in 1..l \/ i = l + 1
        OBVIOUS
      <4>2. QED BY <2>2, <3>1, <3>2, <4>1
    <3>5. QED BY <2>2, <3>2, <3>3, <3>4
  <2>6. QED BY <2>4, <2>5
<1> HIDE DEF P
<1>5. 0..n \subseteq P
  BY <1>3, <1>4, UpTo
<1>6. n \in P
  BY <1>5
<1>7. PICK g \in Seq(Request) : g = f[n]
  BY <1>2
<1>8. Len(g) \in Nat /\ Len(g) <= n /\ DOMAIN g = 1..Len(g) /\ \A i \in 1..Len(g) : g[i] \notin malformed
  BY <1>6, <1>7, LenProperties DEF P
<1>9. QED BY <1>1, <1>2, <1>7, <1>8

(* What a step gives the requests of its batch.                             *)
Now(r, kind) == IF r \in malformed THEN Error(r) ELSE Output(kind, r)

Given(kind) == [r \in Request |-> {Now(r, kind)}]
Stepped == [r \in Request |-> IF r \in malformed THEN {Error(r)} ELSE {Output("text", r), End}]
Ended == [r \in Request |-> {End}]

LEMMA FullGiven ==
  ASSUME GoodBatch(batch), NEW kind,
         Deliver(WithErrors([i \in DOMAIN Good(batch.data) |-> Output(kind, Good(batch.data)[i])]))
  PROVE  Adds(Given(kind))
<1>1. batch.data \in Seq(Request)
  BY DEF GoodBatch
<1>2. PICK good \in Seq(Request), n \in Nat :
        /\ good = Good(batch.data) /\ n = Len(good) /\ DOMAIN good = 1..n
        /\ \A k \in 1..n : good[k] \notin malformed /\ good[k] \in Request
  BY <1>1, GoodData, ElementOfSeq
<1>3. PICK T : T = {Output(kind, r) : r \in Request}
  OBVIOUS
<1>4. PICK outputs : outputs = [i \in 1..n |-> Output(kind, good[i])]
  OBVIOUS
<1>5. outputs \in [1..n -> T]
  BY <1>2, <1>3, <1>4
<1>6. outputs \in Seq(T) /\ Len(outputs) = n
  BY <1>5
<1>7. Outputs(outputs, Given(kind))
  BY <1>2, <1>4 DEF Outputs, Given, Now
<1>8. Deliver(WithErrors(outputs))
  BY <1>2, <1>4
<1>9. QED BY <1>2, <1>6, <1>7, <1>8, OutputsAdd

LEMMA StepGiven ==
  ASSUME GoodBatch(batch), StreamStep
  PROVE  Adds(Stepped) /\ (Len(batch.data) <= 1 => Adds(Given("text")))
<1>1. batch.data \in Seq(Request) /\ Len(batch.data) \in Nat
  BY LenProperties DEF GoodBatch
<1>2. PICK good \in Seq(Request), n \in Nat :
        /\ good = Good(batch.data) /\ n = Len(good) /\ DOMAIN good = 1..n /\ n <= Len(batch.data)
        /\ \A k \in 1..n : good[k] \notin malformed /\ good[k] \in Request
  BY <1>1, GoodData, ElementOfSeq
<1>3. PICK T : T = {Output("text", r) : r \in Request} \cup {End}
  OBVIOUS
<1>4. PICK printable \in SUBSET (1..n) :
        /\ Yielded(printable)
        /\ Deliver(WithErrors([i \in 1..n |-> IF i \in printable THEN Output("text", good[i]) ELSE End]))
  BY <1>2 DEF StreamStep
<1>5. PICK outputs : outputs = [i \in 1..n |-> IF i \in printable THEN Output("text", good[i]) ELSE End]
  OBVIOUS
<1>6. outputs \in [1..n -> T]
  BY <1>2, <1>3, <1>5
<1>7. outputs \in Seq(T) /\ Len(outputs) = n
  BY <1>6
<1>8. Deliver(WithErrors(outputs))
  BY <1>4, <1>5
<1>9. Outputs(outputs, Stepped)
  BY <1>2, <1>5 DEF Outputs, Stepped
<1>10. ASSUME Len(batch.data) <= 1 PROVE Outputs(outputs, Given("text"))
  <2>1. \A k \in 1..n : k \in printable
    <3>1. n <= 1
      BY <1>1, <1>2, <1>10
    <3>2. PICK p \in printable : TRUE
      BY <1>4 DEF Yielded
    <3>3. \A k \in 1..n : k = p
      BY <3>1
    <3>4. QED BY <3>2, <3>3
  <2>2. QED BY <1>2, <1>5, <2>1 DEF Outputs, Given, Now
<1>11. QED BY <1>2, <1>7, <1>8, <1>9, <1>10, OutputsAdd

LEMMA EndGiven ==
  ASSUME GoodBatch(batch), StreamEnd
  PROVE  Adds(Ended)
<1>1. PICK results : results = [i \in DOMAIN batch.data |-> End] /\ Deliver(results)
  BY DEF StreamEnd
<1>2. batch.data \in Seq(Request) /\ Once(batch.data)
  BY DEF GoodBatch
<1>3. \A i \in DOMAIN batch.data : batch.data[i] \in Request
  BY <1>2, LenProperties, ElementOfSeq
<1>4. Matches(results, Ended)
  BY <1>1, <1>3 DEF Matches, Ended
<1>5. QED BY <1>1, <1>2, <1>4, DeliverAdds

-----------------------------------------------------------------------------
(* The pool of tasks.  A request joins it: one task of each config, and     *)
(* nobody in it but those that were and the one that joins.                 *)
Joined(p, r, t) ==
  /\ GoodPool(t) /\ t # << >>
  /\ \A q : InPool(t, q) => q = r \/ InPool(p, q)

LEMMA AppendedTo ==
  ASSUME NEW T, NEW s \in Seq(T), NEW e \in T, Once(s), ~In(s, e)
  PROVE  Once(Append(s, e)) /\ \A x : In(Append(s, e), x) => x = e \/ In(s, x)
<1>1. PICK n \in Nat, t \in Seq(T) :
        /\ n = Len(s) /\ DOMAIN s = 1..n /\ t = Append(s, e) /\ DOMAIN t = 1..n + 1
        /\ t[n + 1] = e /\ \A i \in 1..n : t[i] = s[i]
  <2>1. Len(s) \in Nat /\ DOMAIN s = 1..Len(s)
    BY LenProperties
  <2>2. /\ Append(s, e) \in Seq(T) /\ Len(Append(s, e)) = Len(s) + 1
        /\ \A i \in 1..Len(s) : Append(s, e)[i] = s[i]
        /\ Append(s, e)[Len(s) + 1] = e
    BY AppendProperties
  <2>3. DOMAIN Append(s, e) = 1..Len(s) + 1
    BY <2>2, LenProperties
  <2>4. QED BY <2>1, <2>2, <2>3
<1>2. \A i \in 1..n + 1 : i \in 1..n \/ i = n + 1
  OBVIOUS
<1>3. \A i \in 1..n : s[i] # e
  BY <1>1 DEF In
<1>4. \A i, j \in 1..n : s[i] = s[j] => i = j
  BY <1>1 DEF Once
<1>5. ASSUME NEW i \in 1..n + 1, NEW j \in 1..n + 1, t[i] = t[j] PROVE i = j
  <2>1. CASE i \in 1..n /\ j \in 1..n
    BY <1>1, <1>4, <1>5, <2>1
  <2>2. CASE i = n + 1 /\ j \in 1..n
    BY <1>1, <1>3, <1>5, <2>2
  <2>3. CASE i \in 1..n /\ j = n + 1
    BY <1>1, <1>3, <1>5, <2>3
  <2>4. QED BY <1>2, <2>1, <2>2, <2>3
<1>6. ASSUME NEW i \in 1..n + 1 PROVE t[i] = e \/ In(s, t[i])
  BY <1>1, <1>2 DEF In
<1>7. QED BY <1>1, <1>5, <1>6 DEF Once, In

LEMMA TaskJoined ==
  ASSUME NEW task \in AnyTask, GoodTask(task), NEW r \in Request,
         task.config = ConfigOf[r], ~In(task.data, r)
  PROVE  /\ [task EXCEPT !.data = Append(@, r)] \in AnyTask
         /\ GoodTask([task EXCEPT !.data = Append(@, r)])
         /\ \A q : In([task EXCEPT !.data = Append(@, r)].data, q) => q = r \/ In(task.data, q)
<1>1. PICK s \in Seq(Request) : s = task.data
  BY DEF AnyTask
<1>2. PICK t : t = [task EXCEPT !.data = Append(@, r)]
  OBVIOUS
<1>3. t.config = task.config /\ t.adapter = task.adapter /\ t.data = Append(s, r)
  BY <1>1, <1>2 DEF AnyTask
<1>4. Append(s, r) \in Seq(Request)
  BY AppendProperties
<1>5. t \in AnyTask
  BY <1>1, <1>2, <1>4 DEF AnyTask
<1>6. Once(s) /\ ~In(s, r)
  BY <1>1 DEF GoodTask
<1>7. Once(Append(s, r)) /\ \A q : In(Append(s, r), q) => q = r \/ In(s, q)
  BY <1>6, AppendedTo
<1>8. ASSUME NEW i \in DOMAIN t.data PROVE ConfigOf[t.data[i]] = t.config
  <2>1. In(Append(s, r), t.data[i])
    BY <1>3 DEF In
  <2>2. t.data[i] = r \/ In(s, t.data[i])
    BY <1>7, <2>1
  <2>3. QED BY <1>1, <1>3, <2>2 DEF In, GoodTask
<1>9. GoodTask(t)
  BY <1>3, <1>7, <1>8 DEF GoodTask
<1>10. QED BY <1>1, <1>2, <1>3, <1>5, <1>7, <1>9

LEMMA JoinFacts ==
  ASSUME NEW p, GoodPool(p), NEW r \in Request, ~InPool(p, r)
  PROVE  Joined(p, r, Join(p, r))
<1>1. PICK n \in Nat : n = Len(p) /\ DOMAIN p = 1..n /\ p \in [1..n -> AnyTask]
  <2>1. p \in Seq(AnyTask)
    BY DEF GoodPool
  <2>2. Len(p) \in Nat /\ DOMAIN p = 1..Len(p) /\ p \in [1..Len(p) -> AnyTask]
    BY <2>1, LenProperties
  <2>3. QED BY <2>2
<1>2. \A k, l \in 1..n : p[k].config = p[l].config => k = l
  BY <1>1 DEF GoodPool
<1>3. \A k \in 1..n : GoodTask(p[k]) /\ ~In(p[k].data, r)
  BY <1>1 DEF GoodPool, InPool
<1>4. CASE \E k \in DOMAIN p : p[k].config = ConfigOf[r]
  <2> DEFINE Task(k) == IF p[k].config = ConfigOf[r]
                          THEN [p[k] EXCEPT !.data = Append(@, r)] ELSE p[k]
  <2>1. PICK t : t = [k \in 1..n |-> Task(k)]
    OBVIOUS
  <2>2. Join(p, r) = t
    BY <1>1, <1>4, <2>1 DEF Join
  <2>3. ASSUME NEW k \in 1..n
        PROVE  /\ Task(k) \in AnyTask /\ GoodTask(Task(k))
               /\ \A q : In(Task(k).data, q) => q = r \/ In(p[k].data, q)
               /\ Task(k).config = p[k].config
    <3>1. PICK task \in AnyTask : task = p[k] /\ GoodTask(task) /\ ~In(task.data, r)
      BY <1>1, <1>3
    <3>2. CASE p[k].config = ConfigOf[r]
      <4>1. /\ [task EXCEPT !.data = Append(@, r)] \in AnyTask
            /\ GoodTask([task EXCEPT !.data = Append(@, r)])
            /\ \A q : In([task EXCEPT !.data = Append(@, r)].data, q) => q = r \/ In(task.data, q)
        BY <3>1, <3>2, TaskJoined
      <4>2. Task(k) = [task EXCEPT !.data = Append(@, r)]
        BY <3>1, <3>2
      <4>3. [task EXCEPT !.data = Append(@, r)].config = task.config
        BY DEF AnyTask
      <4> HIDE DEF Task
      <4>4. QED BY <3>1, <4>1, <4>2, <4>3
    <3>3. CASE p[k].config # ConfigOf[r]
      BY <3>1, <3>3
    <3>4. QED BY <3>2, <3>3
  <2> HIDE DEF Task
  <2>4. t \in [1..n -> AnyTask]
    BY <2>1, <2>3
  <2>5. t \in Seq(AnyTask) /\ DOMAIN t = 1..n
    BY <2>4
  <2>6. \A k \in 1..n : GoodTask(t[k]) /\ t[k].config = p[k].config
    BY <2>1, <2>3
  <2>7. GoodPool(t)
    BY <1>2, <2>5, <2>6 DEF GoodPool
  <2>8. t # << >>
    BY <1>1, <1>4, <2>5
  <2>9. ASSUME NEW q, InPool(t, q) PROVE q = r \/ InPool(p, q)
    <3>1. PICK k \in 1..n : In(Task(k).data, q)
      BY <2>1, <2>5, <2>9 DEF InPool
    <3>2. q = r \/ In(p[k].data, q)
      BY <2>3, <3>1
    <3>3. QED BY <1>1, <3>2 DEF InPool
  <2>10. QED BY <2>2, <2>7, <2>8, <2>9 DEF Joined
<1>5. CASE ~\E k \in DOMAIN p : p[k].config = ConfigOf[r]
  <2>1. PICK x : x = [config |-> ConfigOf[r], adapter |-> AdapterOf[r], data |-> <<r>>]
    OBVIOUS
  <2>2. x \in AnyTask
    BY <2>1 DEF AnyTask, Configs, Adapters
  <2>3. DOMAIN x.data = {1} /\ x.data[1] = r /\ x.config = ConfigOf[r]
    BY <2>1
  <2>4. GoodTask(x)
    BY <2>1, <2>3 DEF GoodTask, Once, AdaptersOf
  <2>5. PICK t : t = Append(p, x)
    OBVIOUS
  <2>6. Join(p, r) = t
    BY <1>5, <2>1, <2>5 DEF Join
  <2>7. /\ t \in Seq(AnyTask) /\ Len(t) = n + 1 /\ t[n + 1] = x /\ t # << >>
        /\ \A k \in 1..n : t[k] = p[k]
    <3>1. p \in Seq(AnyTask)
      BY DEF GoodPool
    <3>2. /\ Append(p, x) \in Seq(AnyTask) /\ Append(p, x) # << >> /\ Len(Append(p, x)) = Len(p) + 1
          /\ \A k \in 1..Len(p) : Append(p, x)[k] = p[k]
          /\ Append(p, x)[Len(p) + 1] = x
      BY <2>2, <3>1, AppendProperties
    <3>3. QED BY <1>1, <2>5, <3>2
  <2>8. DOMAIN t = 1..n + 1
    BY <2>7, LenProperties
  <2>9. \A k \in 1..n + 1 : k \in 1..n \/ k = n + 1
    OBVIOUS
  <2>10. \A k \in 1..n + 1 : GoodTask(t[k])
    BY <1>3, <2>4, <2>7, <2>9
  <2>11. ASSUME NEW k \in 1..n + 1, NEW l \in 1..n + 1, t[k].config = t[l].config PROVE k = l
    <3>1. \A m \in 1..n : t[m].config # x.config
      BY <1>1, <1>5, <2>3, <2>7
    <3>2. CASE k \in 1..n /\ l \in 1..n
      BY <1>2, <2>7, <2>11, <3>2
    <3>3. CASE k = n + 1 /\ l \in 1..n
      BY <2>7, <2>11, <3>1, <3>3
    <3>4. CASE k \in 1..n /\ l = n + 1
      BY <2>7, <2>11, <3>1, <3>4
    <3>5. QED BY <2>9, <3>2, <3>3, <3>4
  <2>12. GoodPool(t)
    BY <2>7, <2>8, <2>10, <2>11 DEF GoodPool
  <2>13. ASSUME NEW q, InPool(t, q) PROVE q = r \/ InPool(p, q)
    <3>1. PICK k \in 1..n + 1 : In(t[k].data, q)
      BY <2>8, <2>13 DEF InPool
    <3>2. CASE k \in 1..n
      BY <1>1, <2>7, <3>1, <3>2 DEF InPool
    <3>3. CASE k = n + 1
      BY <2>3, <2>7, <3>1, <3>3 DEF In
    <3>4. QED BY <2>9, <3>2, <3>3
  <2>14. QED BY <2>6, <2>7, <2>12, <2>13 DEF Joined
<1>6. QED BY <1>4, <1>5

(* A pool is a sequence of tasks whoever joins it.                          *)
LEMMA JoinType ==
  ASSUME NEW p \in Seq(AnyTask), NEW r \in Request
  PROVE  Join(p, r) \in Seq(AnyTask)
<1>1. PICK n \in Nat : n = Len(p) /\ DOMAIN p = 1..n /\ p \in [1..n -> AnyTask]
  BY LenProperties
<1>2. CASE \E k \in DOMAIN p : p[k].config = ConfigOf[r]
  <2> DEFINE Task(k) == IF p[k].config = ConfigOf[r]
                          THEN [p[k] EXCEPT !.data = Append(@, r)] ELSE p[k]
  <2>1. PICK t : t = [k \in 1..n |-> Task(k)]
    OBVIOUS
  <2>2. Join(p, r) = t
    BY <1>1, <1>2, <2>1 DEF Join
  <2>3. ASSUME NEW k \in 1..n PROVE Task(k) \in AnyTask
    <3>1. p[k] \in AnyTask /\ p[k].data \in Seq(Request)
      BY <1>1 DEF AnyTask
    <3>2. Append(p[k].data, r) \in Seq(Request)
      BY <3>1, AppendProperties
    <3>3. QED BY <3>1, <3>2 DEF AnyTask
  <2> HIDE DEF Task
  <2>4. t \in [1..n -> AnyTask]
    BY <2>1, <2>3
  <2>5. QED BY <2>2, <2>4
<1>3. CASE ~\E k \in DOMAIN p : p[k].config = ConfigOf[r]
  <2>1. [config |-> ConfigOf[r], adapter |-> AdapterOf[r], data |-> <<r>>] \in AnyTask
    BY DEF AnyTask, Configs, Adapters
  <2>2. QED BY <1>3, <2>1, AppendProperties DEF Join
<1>4. QED BY <1>2, <1>3

(* The whole queue joins the pool.                                          *)
Filled(t) ==
  /\ GoodPool(t) /\ (queue # << >> \/ pool # << >> => t # << >>)
  /\ \A q : InPool(t, q) => In(queue, q) \/ InPool(pool, q)

LEMMA TasksFilled ==
  ASSUME queue \in Seq(Request), Once(queue), GoodPool(pool),
         \A r \in Request : In(queue, r) => ~InPool(pool, r)
  PROVE  Filled(Tasks)
<1>1. PICK n \in Nat : /\ n = Len(queue) /\ DOMAIN queue = 1..n
                       /\ \A i \in 1..n : queue[i] \in Request
  BY LenProperties, ElementOfSeq
<1> DEFINE X == Seq(AnyTask)
           step == [a \in X \X (1..n) |-> Join(a[1], queue[a[2]])]
           All(f) == f = [i \in 0..n |-> IF i = 0 THEN pool ELSE Join(f[i - 1], queue[i])]
           joined == CHOOSE f : All(f)
<1> HIDE DEF X
<1>2. pool \in X
  BY DEF X, GoodPool
<1>3. step \in [X \X (1..n) -> X]
  <2>1. ASSUME NEW x \in X, NEW i \in 1..n PROVE Join(x, queue[i]) \in X
    BY <1>1, JoinType DEF X
  <2>2. QED BY <2>1
<1>4. PICK f \in [0..n -> X] : Runs(f, n, pool, step)
  <2> HIDE DEF step
  <2> QED BY <1>2, <1>3, Iterates
<1>5. \A i \in 0..n : f[i] = IF i = 0 THEN pool ELSE Join(f[i - 1], queue[i])
  <2> SUFFICES ASSUME NEW i \in 0..n
               PROVE  f[i] = IF i = 0 THEN pool ELSE Join(f[i - 1], queue[i])
    OBVIOUS
  <2>1. f[i] = IF i = 0 THEN pool ELSE step[<<f[i - 1], i>>]
    <3> HIDE DEF step
    <3> QED BY <1>4 DEF Runs
  <2>2. CASE i = 0
    BY <2>1, <2>2
  <2>3. CASE i # 0
    <3>1. i \in 1..n /\ i - 1 \in 0..n
      BY <2>3
    <3>2. <<f[i - 1], i>> \in X \X (1..n)
      BY <1>4, <3>1
    <3>3. step[<<f[i - 1], i>>] = Join(f[i - 1], queue[i])
      BY <3>2
    <3> HIDE DEF step
    <3>4. QED BY <2>1, <2>3, <3>3
  <2>4. QED BY <2>2, <2>3
<1>6. All(joined)
  <2>1. All(f)
    BY <1>4, <1>5
  <2> HIDE DEF All
  <2>2. QED BY <2>1
<1>7. Tasks = joined[n]
  BY <1>1 DEF Tasks
<1> HIDE DEF joined
<1>8. joined[0] = pool /\ \A i \in 1..n : joined[i] = Join(joined[i - 1], queue[i])
  <2>1. 0 \in 0..n /\ \A i \in 1..n : i \in 0..n /\ i # 0
    OBVIOUS
  <2>2. QED BY <1>6, <2>1
<1> DEFINE Sofar(i, t) ==
             /\ GoodPool(t) /\ (i # 0 \/ pool # << >> => t # << >>)
             /\ \A q : InPool(t, q) => InPool(pool, q) \/ \E j \in 1..i : queue[j] = q
           P == {i \in Nat : i <= n => Sofar(i, joined[i])}
<1>9. 0 \in P
  BY <1>8
<1>10. ASSUME NEW i \in Nat, i < n, i \in P PROVE i + 1 \in P
  <2>1. i + 1 \in 1..n /\ (i + 1) - 1 = i /\ i <= n /\ i + 1 # 0
    BY <1>10
  <2>2. PICK t, r : t = joined[i] /\ r = queue[i + 1]
    OBVIOUS
  <2>3. Sofar(i, t)
    BY <1>10, <2>1, <2>2
  <2>4. r \in Request
    BY <1>1, <2>1, <2>2
  <2>5. ~InPool(t, r)
    <3>1. In(queue, r)
      BY <1>1, <2>1, <2>2 DEF In
    <3>2. ~InPool(pool, r)
      BY <2>4, <3>1
    <3>3. ASSUME NEW j \in 1..i PROVE queue[j] # r
      <4>1. j \in 1..n /\ j # i + 1
        BY <1>10
      <4>2. QED BY <1>1, <2>1, <2>2, <4>1 DEF Once
    <3>4. QED BY <2>3, <3>2, <3>3
  <2>6. PICK u : u = joined[i + 1]
    OBVIOUS
  <2>7. Joined(t, r, u)
    <3>1. GoodPool(t)
      BY <2>3
    <3>2. Joined(t, r, Join(t, r))
      BY <2>4, <2>5, <3>1, JoinFacts
    <3>3. QED BY <1>8, <2>1, <2>2, <2>6, <3>2
  <2>8. ASSUME NEW q, InPool(u, q) PROVE InPool(pool, q) \/ \E j \in 1..i + 1 : queue[j] = q
    <3>1. q = r \/ InPool(t, q)
      BY <2>7, <2>8 DEF Joined
    <3>2. CASE q = r
      <4>1. i + 1 \in 1..i + 1
        OBVIOUS
      <4>2. QED BY <2>2, <3>2, <4>1
    <3>3. CASE InPool(t, q)
      <4>1. \A j \in 1..i : j \in 1..i + 1
        OBVIOUS
      <4>2. QED BY <2>3, <3>3, <4>1
    <3>4. QED BY <3>1, <3>2, <3>3
  <2>9. Sofar(i + 1, u)
    BY <2>7, <2>8 DEF Joined
  <2> HIDE DEF Sofar
  <2>10. QED BY <2>6, <2>9
<1> HIDE DEF P
<1>11. 0..n \subseteq P
  BY <1>9, <1>10, UpTo
<1>12. n \in P
  BY <1>11
<1>13. Sofar(n, Tasks)
  BY <1>7, <1>12 DEF P
<1>14. \A q : (\E j \in 1..n : queue[j] = q) => In(queue, q)
  BY <1>1 DEF In
<1>15. queue # << >> => n # 0
  BY <1>1, EmptySeq
<1>16. QED BY <1>13, <1>14, <1>15 DEF Filled

(* A task is cut in two: its batch and what remains.                        *)
Cut(data, n, first, rest) ==
  /\ first \in Seq(Request) /\ rest \in Seq(Request) /\ Once(first) /\ Once(rest)
  /\ Len(first) = n
  /\ \A q : In(first, q) => In(data, q)
  /\ \A q : In(rest, q) => In(data, q) /\ ~In(first, q)

LEMMA CutFacts ==
  ASSUME NEW data \in Seq(Request), Once(data), NEW n \in 0..Len(data)
  PROVE  Cut(data, n, SubSeq(data, 1, n), SubSeq(data, n + 1, Len(data)))
<1>1. PICK m \in Nat : m = Len(data) /\ DOMAIN data = 1..m /\ \A i \in 1..m : data[i] \in Request
  BY LenProperties, ElementOfSeq
<1>2. PICK first \in Seq(Request) :
        /\ first = SubSeq(data, 1, n) /\ Len(first) = n /\ DOMAIN first = 1..n
        /\ \A i \in 1..n : first[i] = data[i]
  <2>1. \A i \in 1..n : data[i] \in Request
    BY <1>1
  <2>2. /\ SubSeq(data, 1, n) \in Seq(Request)
        /\ Len(SubSeq(data, 1, n)) = IF 1 <= n THEN n - 1 + 1 ELSE 0
        /\ \A i \in 1..n - 1 + 1 : SubSeq(data, 1, n)[i] = data[1 + i - 1]
    BY <1>1, <2>1, SubSeqProperties
  <2>3. n - 1 + 1 = n /\ (~(1 <= n) => n = 0) /\ \A i \in 1..n : 1 + i - 1 = i
    BY <1>1
  <2>4. Len(SubSeq(data, 1, n)) = n
    BY <2>2, <2>3
  <2>5. \A i \in 1..n : SubSeq(data, 1, n)[i] = data[i]
    BY <2>2, <2>3
  <2>6. QED BY <2>2, <2>4, <2>5, LenProperties
<1>3. PICK rest \in Seq(Request) :
        /\ rest = SubSeq(data, n + 1, m) /\ Len(rest) = m - n /\ DOMAIN rest = 1..m - n
        /\ \A i \in 1..m - n : rest[i] = data[n + i]
  <2>1. \A i \in n + 1..m : data[i] \in Request
    BY <1>1
  <2>2. /\ SubSeq(data, n + 1, m) \in Seq(Request)
        /\ Len(SubSeq(data, n + 1, m)) = IF n + 1 <= m THEN m - (n + 1) + 1 ELSE 0
        /\ \A i \in 1..m - (n + 1) + 1 : SubSeq(data, n + 1, m)[i] = data[n + 1 + i - 1]
    BY <1>1, <2>1, SubSeqProperties
  <2>3. m - (n + 1) + 1 = m - n /\ (~(n + 1 <= m) => m - n = 0)
        /\ \A i \in 1..m - n : n + 1 + i - 1 = n + i
    BY <1>1
  <2>4. Len(SubSeq(data, n + 1, m)) = m - n
    BY <2>2, <2>3
  <2>5. \A i \in 1..m - n : SubSeq(data, n + 1, m)[i] = data[n + i]
    BY <2>2, <2>3
  <2>6. QED BY <2>2, <2>4, <2>5, LenProperties
<1>4. /\ \A i \in 1..n : i \in 1..m
      /\ \A i \in 1..m - n : n + i \in 1..m
      /\ \A i \in 1..n, j \in 1..m - n : i # n + j
      /\ \A i, j \in 1..m - n : n + i = n + j => i = j
  BY <1>1
<1>5. \A i, j \in 1..m : data[i] = data[j] => i = j
  BY <1>1 DEF Once
<1>6. Once(first) /\ Once(rest)
  <2>1. \A i, j \in 1..n : first[i] = first[j] => i = j
    BY <1>2, <1>4, <1>5
  <2>2. ASSUME NEW i \in 1..m - n, NEW j \in 1..m - n, rest[i] = rest[j] PROVE i = j
    <3>1. data[n + i] = data[n + j] /\ n + i \in 1..m /\ n + j \in 1..m
      BY <1>3, <1>4, <2>2
    <3>2. n + i = n + j
      BY <1>5, <3>1
    <3>3. QED BY <3>2
  <2>3. QED BY <1>2, <1>3, <2>1, <2>2 DEF Once
<1>7. ASSUME NEW q, In(first, q) PROVE In(data, q)
  BY <1>1, <1>2, <1>4, <1>7 DEF In
<1>8. ASSUME NEW q, In(rest, q) PROVE In(data, q) /\ ~In(first, q)
  <2>1. PICK j \in 1..m - n : q = data[n + j]
    BY <1>3, <1>8 DEF In
  <2>2. \A i \in 1..n : first[i] # q
    BY <1>2, <1>4, <1>5, <2>1
  <2>3. QED BY <1>1, <1>2, <1>4, <2>1, <2>2 DEF In
<1>9. QED BY <1>1, <1>2, <1>3, <1>6, <1>7, <1>8 DEF Cut

(* What the pool keeps of the requests, and what it does not.               *)
Left(t, n, u) ==
  /\ GoodPool(u)
  /\ \A q : InPool(u, q) => InPool(t, q) /\ ~In(SubSeq(t[1].data, 1, n), q)

LEMMA RemainingLeft ==
  ASSUME NEW t, GoodPool(t), t # << >>, NEW n \in 0..Len(t[1].data)
  PROVE  Left(t, n, Remaining(t, n))
<1>1. PICK m \in Nat : m = Len(t) /\ m # 0 /\ DOMAIN t = 1..m /\ t \in [1..m -> AnyTask]
  <2>1. t \in Seq(AnyTask)
    BY DEF GoodPool
  <2>2. Len(t) \in Nat \ {0} /\ DOMAIN t = 1..Len(t) /\ t \in [1..Len(t) -> AnyTask]
    BY <2>1, EmptySeq, LenProperties
  <2>3. QED BY <2>2
<1>2. 1 \in 1..m /\ t[1] \in AnyTask
  BY <1>1
<1>3. PICK task \in AnyTask, data \in Seq(Request) : task = t[1] /\ data = task.data
  BY <1>2 DEF AnyTask
<1>4. GoodTask(task) /\ \A k \in 1..m : GoodTask(t[k])
  BY <1>1, <1>2, <1>3 DEF GoodPool
<1>5. \A k, l \in 1..m : t[k].config = t[l].config => k = l
  BY <1>1 DEF GoodPool
<1>6. PICK first, rest : first = SubSeq(data, 1, n) /\ rest = SubSeq(data, n + 1, Len(data))
  OBVIOUS
<1>7. Cut(data, n, first, rest)
  <2>1. Once(data) /\ n \in 0..Len(data)
    BY <1>3, <1>4 DEF GoodTask
  <2>2. QED BY <1>6, <2>1, CutFacts
<1>8. \A q : \A k \in 2..m : In(t[k].data, q) => ~In(first, q)
  <2>1. SUFFICES ASSUME NEW k \in 2..m, NEW q, In(t[k].data, q), In(first, q) PROVE FALSE
    OBVIOUS
  <2>2. k \in 1..m /\ k # 1
    OBVIOUS
  <2>3. ConfigOf[q] = t[k].config
    BY <1>4, <2>1, <2>2 DEF In, GoodTask
  <2>4. ConfigOf[q] = task.config
    <3>1. In(data, q)
      BY <1>7, <2>1 DEF Cut
    <3>2. QED BY <1>3, <1>4, <3>1 DEF In, GoodTask
  <2>5. QED BY <1>2, <1>3, <1>5, <2>2, <2>3, <2>4
<1>9. PICK w \in Seq(AnyTask) :
        /\ w = Tail(t) /\ DOMAIN w = 1..m - 1 /\ Len(w) = m - 1
        /\ \A k \in 1..m - 1 : w[k] = t[k + 1]
  <2>1. t \in Seq(AnyTask)
    BY DEF GoodPool
  <2>2. /\ Tail(t) \in Seq(AnyTask) /\ Len(Tail(t)) = Len(t) - 1
        /\ \A k \in 1..Len(Tail(t)) : Tail(t)[k] = t[k + 1]
    BY <2>1, HeadTailProperties
  <2>3. QED BY <1>1, <2>2, LenProperties
<1>10. \A k \in 1..m - 1 : k + 1 \in 1..m /\ k + 1 \in 2..m /\ k + 1 # 1
  BY <1>1
<1>11. GoodPool(w)
  <2>1. \A k \in 1..m - 1 : GoodTask(w[k])
    BY <1>4, <1>9, <1>10
  <2>2. ASSUME NEW k \in 1..m - 1, NEW l \in 1..m - 1, w[k].config = w[l].config PROVE k = l
    <3>1. k + 1 = l + 1
      BY <1>5, <1>9, <1>10, <2>2
    <3>2. QED BY <3>1
  <2>3. QED BY <1>9, <2>1, <2>2 DEF GoodPool
<1>12. ASSUME NEW q, InPool(w, q) PROVE InPool(t, q) /\ ~In(first, q)
  <2>1. PICK k \in 1..m - 1 : In(t[k + 1].data, q)
    BY <1>9, <1>12 DEF InPool
  <2>2. k + 1 \in 1..m /\ k + 1 \in 2..m
    BY <1>10
  <2>3. QED BY <1>1, <1>8, <2>1, <2>2 DEF InPool
<1>13. SubSeq(t[1].data, 1, n) = first
  BY <1>3, <1>6
<1>14. CASE rest = << >>
  <2>1. Remaining(t, n) = w
    BY <1>3, <1>6, <1>9, <1>14 DEF Remaining
  <2>2. QED BY <1>11, <1>12, <1>13, <2>1 DEF Left
<1>15. CASE rest # << >>
  <2>1. PICK x : x = [task EXCEPT !.data = rest]
    OBVIOUS
  <2>2. rest \in Seq(Request)
    BY <1>7 DEF Cut
  <2>3. x \in AnyTask /\ x.data = rest /\ x.config = task.config /\ x.adapter = task.adapter
    BY <2>1, <2>2 DEF AnyTask
  <2>4. PICK v \in Seq(AnyTask) :
          /\ v = <<x>> \o w /\ DOMAIN v = 1..m /\ v[1] = x
          /\ \A k \in 2..m : v[k] = t[k]
    <3>1. <<x>> \in Seq(AnyTask) /\ Len(<<x>>) = 1 /\ <<x>>[1] = x
      BY <2>3
    <3>2. /\ <<x>> \o w \in Seq(AnyTask) /\ Len(<<x>> \o w) = 1 + (m - 1)
          /\ \A k \in 1..1 + (m - 1) : (<<x>> \o w)[k] = IF k <= 1 THEN <<x>>[k] ELSE w[k - 1]
      <4>1. PICK y \in Seq(AnyTask) : y = <<x>> /\ Len(y) = 1
        BY <3>1
      <4>2. /\ y \o w \in Seq(AnyTask) /\ Len(y \o w) = Len(y) + Len(w)
            /\ \A k \in 1..Len(y) + Len(w) : (y \o w)[k] = IF k <= Len(y) THEN y[k] ELSE w[k - Len(y)]
        BY ConcatProperties
      <4>3. QED BY <1>9, <4>1, <4>2
    <3>3. 1 + (m - 1) = m
      OBVIOUS
    <3>4. (<<x>> \o w)[1] = x
      <4>1. 1 \in 1..1 + (m - 1)
        BY <1>2, <3>3
      <4>2. QED BY <3>1, <3>2, <4>1
    <3>5. ASSUME NEW k \in 2..m PROVE (<<x>> \o w)[k] = t[k]
      <4>1. k \in 1..1 + (m - 1) /\ ~(k <= 1) /\ k - 1 \in 1..m - 1 /\ (k - 1) + 1 = k
        OBVIOUS
      <4>2. (<<x>> \o w)[k] = w[k - 1]
        BY <3>2, <4>1
      <4>3. w[k - 1] = t[k]
        BY <1>9, <4>1
      <4>4. QED BY <4>2, <4>3
    <3>6. DOMAIN (<<x>> \o w) = 1..m
      BY <3>2, <3>3, LenProperties
    <3>7. QED BY <3>2, <3>4, <3>5, <3>6
  <2>5. Remaining(t, n) = v
    <3>1. Remaining(t, n) = <<[t[1] EXCEPT !.data = SubSeq(t[1].data, n + 1, Len(t[1].data))]>> \o Tail(t)
      BY <1>3, <1>6, <1>15 DEF Remaining
    <3>2. [t[1] EXCEPT !.data = SubSeq(t[1].data, n + 1, Len(t[1].data))] = x
      BY <1>3, <1>6, <2>1
    <3>3. QED BY <1>9, <2>4, <3>1, <3>2
  <2>6. \A k \in 1..m : k = 1 \/ k \in 2..m
    OBVIOUS
  <2>7. GoodTask(x)
    <3>1. Once(rest)
      BY <1>7 DEF Cut
    <3>2. ASSUME NEW i \in DOMAIN rest PROVE ConfigOf[rest[i]] = task.config
      <4>1. In(rest, rest[i])
        BY DEF In
      <4>2. In(data, rest[i])
        BY <1>7, <4>1 DEF Cut
      <4>3. QED BY <1>3, <1>4, <4>2 DEF In, GoodTask
    <3>3. task.adapter \in AdaptersOf(task.config)
      BY <1>4 DEF GoodTask
    <3>4. QED BY <2>3, <3>1, <3>2, <3>3 DEF GoodTask
  <2>8. \A k \in 1..m : GoodTask(v[k]) /\ v[k].config = t[k].config
    <3>1. \A k \in 2..m : GoodTask(v[k]) /\ v[k].config = t[k].config
      <4>1. \A k \in 2..m : k \in 1..m
        OBVIOUS
      <4>2. QED BY <1>4, <2>4, <4>1
    <3>2. GoodTask(v[1]) /\ v[1].config = t[1].config
      BY <1>3, <2>3, <2>4, <2>7
    <3>3. QED BY <2>6, <3>1, <3>2
  <2>9. GoodPool(v)
    <3>1. ASSUME NEW k \in 1..m, NEW l \in 1..m, v[k].config = v[l].config PROVE k = l
      <4>1. t[k].config = t[l].config
        BY <2>8, <3>1
      <4>2. QED BY <1>5, <4>1
    <3>2. \A k \in 1..m : GoodTask(v[k])
      BY <2>8
    <3>3. QED BY <2>4, <3>1, <3>2 DEF GoodPool
  <2>10. ASSUME NEW q, InPool(v, q) PROVE InPool(t, q) /\ ~In(first, q)
    <3>1. PICK k \in 1..m : In(v[k].data, q)
      BY <2>4, <2>10 DEF InPool
    <3>2. CASE k = 1
      <4>1. In(rest, q)
        BY <2>3, <2>4, <3>1, <3>2
      <4>2. In(data, q) /\ ~In(first, q)
        BY <1>7, <4>1 DEF Cut
      <4>3. QED BY <1>1, <1>2, <1>3, <4>2 DEF InPool
    <3>3. CASE k \in 2..m
      <4>1. In(t[k].data, q)
        BY <2>4, <3>1, <3>3
      <4>2. QED BY <1>1, <1>8, <3>3, <4>1 DEF InPool
    <3>4. QED BY <2>6, <3>2, <3>3
  <2>11. QED BY <1>13, <2>5, <2>9, <2>10 DEF Left
<1>16. QED BY <1>14, <1>15

(* A fetch: the batch has requests of one config, and they are no more in   *)
(* the pool.                                                                *)
Fetched ==
  /\ GoodBatch(batch)' /\ GoodPool(pool)'
  /\ \A q : In(batch'.data, q) => (In(queue, q) \/ InPool(pool, q)) /\ ~InPool(pool', q)
  /\ \A q : InPool(pool', q) => In(queue, q) \/ InPool(pool, q)

LEMMA FetchFetches ==
  ASSUME Types, Places, Fetch
  PROVE  Fetched
<1>1. PICK t : t = Tasks
  OBVIOUS
<1>2. Filled(t)
  BY <1>1, TasksFilled DEF Types, Places
<1>3. GoodPool(t) /\ t # << >>
  BY <1>2 DEF Filled, Fetch
<1>4. t \in Seq(AnyTask)
  BY <1>3 DEF GoodPool
<1>5. 1 \in DOMAIN t /\ t[1] \in AnyTask
  BY <1>3, <1>4, EmptySeq, LenProperties, ElementOfSeq
<1>6. PICK task \in AnyTask, data \in Seq(Request), l \in Nat :
        task = t[1] /\ data = task.data /\ l = Len(data)
  <2>1. t[1].data \in Seq(Request)
    BY <1>5 DEF AnyTask
  <2>2. QED BY <1>5, <2>1, LenProperties
<1>7. GoodTask(task)
  BY <1>3, <1>5, <1>6 DEF GoodPool
<1>8. PICK n \in 0..l : /\ n = IF MaxBatch <= 0 \/ MaxBatch > l THEN l ELSE MaxBatch
                        /\ MaxBatch = 1 => n <= 1
  BY InferConstants DEF InferConstants
<1>9. /\ batch' = [adapter |-> task.adapter, data |-> SubSeq(data, 1, n)]
      /\ pool' = Remaining(t, n)
  BY <1>1, <1>6, <1>8 DEF Fetch
<1>10. PICK first : first = SubSeq(data, 1, n) /\ Cut(data, n, first, SubSeq(data, n + 1, Len(data)))
  BY <1>6, <1>7, CutFacts DEF GoodTask
<1>11. Left(t, n, pool')
  BY <1>3, <1>6, <1>9, RemainingLeft
<1>12. \A i \in DOMAIN first : ConfigOf[first[i]] = task.config
  <2>1. ASSUME NEW i \in DOMAIN first PROVE ConfigOf[first[i]] = task.config
    <3>1. In(first, first[i])
      BY DEF In
    <3>2. In(data, first[i])
      BY <1>10, <3>1 DEF Cut
    <3>3. QED BY <1>6, <1>7, <3>2 DEF In, GoodTask
  <2>2. QED BY <2>1
<1>13. PICK b : b = [adapter |-> task.adapter, data |-> first]
  OBVIOUS
<1>14. b.data = first /\ b.adapter = task.adapter /\ batch' = b
  BY <1>9, <1>10, <1>13
<1>15. GoodBatch(b)
  <2>1. first \in Seq(Request) /\ Once(first) /\ Len(first) = n
    BY <1>10 DEF Cut
  <2>2. task.adapter \in Adapters /\ task.adapter \in AdaptersOf(task.config)
    BY <1>7 DEF AnyTask, GoodTask
  <2>3. b \in [adapter : Adapters \cup {"none"}, data : Seq(Request)]
    BY <1>13, <2>1, <2>2
  <2>4. MaxBatch = 1 => Len(first) <= 1
    BY <1>8, <2>1
  <2>5. QED BY <1>12, <1>14, <2>1, <2>2, <2>3, <2>4 DEF GoodBatch
<1>16. ASSUME NEW q, In(first, q) PROVE (In(queue, q) \/ InPool(pool, q)) /\ ~InPool(pool', q)
  <2>1. In(data, q)
    BY <1>10, <1>16 DEF Cut
  <2>2. InPool(t, q)
    BY <1>5, <1>6, <2>1 DEF InPool
  <2>3. ~InPool(pool', q)
    BY <1>6, <1>10, <1>11, <1>16 DEF Left
  <2>4. QED BY <1>2, <2>2, <2>3 DEF Filled
<1>17. ASSUME NEW q, InPool(pool', q) PROVE In(queue, q) \/ InPool(pool, q)
  BY <1>2, <1>11, <1>17 DEF Left, Filled
<1>18. GoodBatch(batch)'
  BY <1>14, <1>15 DEF GoodBatch
<1>19. GoodPool(pool)'
  BY <1>11 DEF Left, GoodPool
<1>20. QED BY <1>14, <1>16, <1>17, <1>18, <1>19 DEF Fetched

-----------------------------------------------------------------------------
(* The types, and the places of the requests.                               *)
LEMMA InitHolds == Init => IInv
<1> SUFFICES ASSUME Init PROVE IInv
  OBVIOUS
<1>1. malformed \subseteq Request
  BY InferConstants DEF InferConstants, Init
<1>2. GoodPool(pool)
  BY DEF Init, GoodPool
<1>3. GoodBatch(batch)
  <2>1. batch = NoBatch /\ NoBatch \in [adapter : Adapters \cup {"none"}, data : Seq(Request)]
    BY DEF Init, NoBatch
  <2>2. batch.data = << >> /\ DOMAIN batch.data = {} /\ Len(batch.data) = 0
    BY <2>1 DEF NoBatch
  <2>3. QED BY <2>1, <2>2 DEF GoodBatch, Once
<1>4. /\ DOMAIN inbox = Request /\ DOMAIN got = Request
      /\ \A r \in Request : inbox[r] = << >> /\ got[r] = << >>
  BY DEF Init
<1>5. Types
  <2>1. \A r \in Request : inbox[r] \in Seq(Due(r) \cup {End}) /\ got[r] \in Seq(Due(r))
    BY <1>4, EmptySeq
  <2>2. queue = << >> /\ worker = "off" /\ chunks = 0 /\ client = [r \in Request |-> "new"]
    BY DEF Init
  <2>3. queue \in Seq(Request) /\ chunks \in Nat
    BY <2>2
  <2>4. QED BY <1>1, <1>2, <1>3, <1>4, <2>1, <2>2, <2>3 DEF Types
<1>6. queue = << >> /\ pool = << >> /\ batch.data = << >>
  BY DEF Init, NoBatch
<1>7. \A r \in Request : ~In(queue, r) /\ ~InPool(pool, r) /\ ~In(batch.data, r)
  BY <1>6 DEF In, InPool
<1>8. Places
  BY <1>6, <1>7 DEF Places, Once
<1>9. ASSUME NEW r \in Request PROVE Served(r) /\ Rising(r) /\ Whole(r)
  <2>1. Served(r)
    BY <1>4 DEF Served
  <2>2. DOMAIN inbox[r] = {} /\ DOMAIN got[r] = {} /\ worker = "off" /\ client[r] = "new"
    BY <1>4, <1>9 DEF Init
  <2>3. Rising(r)
    BY <2>2 DEF Rising, Rises
  <2>4. Whole(r)
    BY <2>2 DEF Whole, Ends
  <2>5. QED BY <2>1, <2>3, <2>4
<1>10. QED BY <1>5, <1>8, <1>9 DEF IInv

(* What a request of the batch is given is due to it.                       *)
LEMMA NowDue ==
  ASSUME Types, NEW r \in Request, In(batch.data, r), NEW kind \in {"answer", "text", "last"}
  PROVE  /\ Now(r, kind) \in Due(r)
         /\ r \notin malformed => /\ Now(r, kind) = Output(kind, r) /\ Output(kind, r).n = chunks + 1
                                  /\ Output(kind, r).kind = kind
<1>1. batch.adapter \in AdaptersOf(ConfigOf[r]) /\ chunks + 1 \in Nat
  BY DEF Types, GoodBatch, In
<1>2. Output(kind, r) = [kind |-> kind, of |-> {r}, adapter |-> batch.adapter, n |-> chunks + 1]
  BY DEF Output
<1>3. Output(kind, r) \in Answers(r)
  BY <1>1, <1>2 DEF Answers
<1>4. QED BY <1>2, <1>3 DEF Now, Due

Mailed ==
  /\ DOMAIN inbox' = Request /\ DOMAIN got' = Request
  /\ \A r \in Request : inbox'[r] \in Seq(Due(r) \cup {End}) /\ got'[r] \in Seq(Due(r))

LEMMA TypesFrom ==
  ASSUME Types, Mailed, malformed' = malformed, chunks' \in Nat, queue' \in Seq(Request),
         client' \in [Request -> {"new", "put", "waiting", "done"}],
         worker' \in {"off", "idle", "infer", "stream", "stop", "dead"},
         GoodPool(pool)', GoodBatch(batch)'
  PROVE  Types'
<1>1. \A r \in Request : Due(r)' = Due(r)
  BY DEF Due, Answers, Error, AdaptersOf
<1>2. QED BY <1>1 DEF Types, Mailed

LEMMA AddsMailed ==
  ASSUME Types, NEW X, Adds(X), got' = got,
         \A r \in Request : In(batch.data, r) => X[r] \subseteq Due(r) \cup {End}
  PROVE  Mailed
<1>1. ASSUME NEW r \in Request PROVE inbox'[r] \in Seq(Due(r) \cup {End})
  <2>1. PICK D : D = Due(r) \cup {End}
    OBVIOUS
  <2>2. inbox[r] \in Seq(D)
    BY <2>1 DEF Types
  <2>3. CASE In(batch.data, r)
    <3>1. PICK x \in D : inbox'[r] = Append(inbox[r], x)
      BY <2>1, <2>3 DEF Adds
    <3>2. QED BY <2>1, <2>2, <3>1, AppendProperties
  <2>4. CASE ~In(batch.data, r)
    BY <2>1, <2>2, <2>4 DEF Adds
  <2>5. QED BY <2>3, <2>4
<1>2. QED BY <1>1 DEF Types, Mailed, Adds

LEMMA EmptyBatch ==
  ASSUME batch' = NoBatch
  PROVE  GoodBatch(batch)' /\ batch'.data = << >> /\ \A q : ~In(batch'.data, q)
<1>1. NoBatch \in [adapter : Adapters \cup {"none"}, data : Seq(Request)]
  BY DEF NoBatch
<1>2. batch'.data = << >> /\ DOMAIN batch'.data = {} /\ Len(batch'.data) = 0
  BY DEF NoBatch
<1>3. QED BY <1>1, <1>2 DEF GoodBatch, Once, In

(* Each step that delivers, and to whom it delivers what.                   *)
LEMMA FullAdds == Types /\ InferFull => Adds(Given("answer"))
  BY FullGiven DEF Types, InferFull

LEMMA StepAdds ==
  Types /\ StreamStep => Adds(Stepped) /\ (Len(batch.data) <= 1 => Adds(Given("text")))
  BY StepGiven DEF Types

LEMMA LastAdds == Types /\ StreamLast => Adds(Given("last"))
  BY FullGiven DEF Types, StreamLast

LEMMA EndAdds == Types /\ StreamEnd => Adds(Ended)
  BY EndGiven DEF Types

LEMMA ItemReceived ==
  ASSUME Types, NEW r \in Request, Receive(r)
  PROVE  /\ Head(inbox[r]) \in Due(r) \cup {End} /\ inbox[r] \in Seq(Due(r) \cup {End})
         /\ inbox' = [inbox EXCEPT ![r] = Tail(inbox[r])]
         /\ inbox'[r] = Tail(inbox[r]) /\ inbox'[r] \in Seq(Due(r) \cup {End})
         /\ Len(inbox'[r]) = Len(inbox[r]) - 1 /\ Len(inbox[r]) \in Nat \ {0}
         /\ \A j \in 1..Len(inbox'[r]) : inbox'[r][j] = inbox[r][j + 1]
         /\ Head(inbox[r]) = inbox[r][1]
         /\ IF Head(inbox[r]) = End THEN got' = got
            ELSE /\ Head(inbox[r]) \in Due(r)
                 /\ got' = [got EXCEPT ![r] = Append(got[r], Head(inbox[r]))]
                 /\ got'[r] = Append(got[r], Head(inbox[r]))
<1> DEFINE D == Due(r) \cup {End}
<1>1. PICK s \in Seq(D) : s = inbox[r] /\ s # << >>
  BY DEF Types, Receive
<1>2. /\ Head(s) \in D /\ Tail(s) \in Seq(D) /\ Len(Tail(s)) = Len(s) - 1
      /\ \A i \in 1..Len(Tail(s)) : Tail(s)[i] = s[i + 1]
  BY <1>1, HeadTailProperties
<1>3. Len(s) \in Nat \ {0} /\ Head(s) = s[1]
  BY <1>1, EmptySeq
<1>4. inbox' = [inbox EXCEPT ![r] = Tail(inbox[r])]
  BY DEF Receive
<1>5. DOMAIN inbox = Request /\ DOMAIN got = Request
  BY DEF Types
<1>6. inbox'[r] = Tail(s)
  BY <1>1, <1>4, <1>5
<1>7. IF Head(s) = End THEN got' = got ELSE got' = [got EXCEPT ![r] = Append(got[r], Head(s))]
  BY <1>1 DEF Receive
<1>8. Head(s) # End => Head(s) \in Due(r) /\ got'[r] = Append(got[r], Head(s))
  BY <1>1, <1>2, <1>5, <1>7
<1>9. QED BY <1>1, <1>2, <1>3, <1>4, <1>6, <1>7, <1>8

LEMMA OthersKeep ==
  ASSUME Types, NEW q \in Request, Receive(q), NEW r \in Request, q # r
  PROVE  inbox'[r] = inbox[r] /\ got'[r] = got[r]
<1>1. DOMAIN inbox = Request /\ DOMAIN got = Request
  BY DEF Types
<1>2. inbox' = [inbox EXCEPT ![q] = Tail(inbox[q])]
  BY ItemReceived
<1>3. got' = got \/ got' = [got EXCEPT ![q] = Append(got[q], Head(inbox[q]))]
  BY ItemReceived
<1>4. QED BY <1>1, <1>2, <1>3

LEMMA TypesNext ==
  ASSUME Types, Places, [Next]_vars
  PROVE  Types'
<1>1. got' = got /\ inbox' = inbox => Mailed
  BY DEF Types, Mailed
<1>2. UNCHANGED pool => GoodPool(pool)'
  BY DEF Types, GoodPool
<1>3. UNCHANGED batch => GoodBatch(batch)'
  BY DEF Types, GoodBatch
<1> DEFINE Deliveries(X) == \A r \in Request : In(batch.data, r) => X[r] \subseteq Due(r) \cup {End}
<1>4. \A kind \in {"answer", "text", "last"} : Deliveries(Given(kind))
  BY NowDue DEF Given
<1>5. Deliveries(Ended)
  BY DEF Ended
<1>6. Deliveries(Stepped)
  <2> SUFFICES ASSUME NEW r \in Request, In(batch.data, r)
               PROVE  Stepped[r] \subseteq Due(r) \cup {End}
    OBVIOUS
  <2>1. Now(r, "text") \in Due(r)
    BY NowDue
  <2>2. QED BY <2>1 DEF Stepped, Now
<1> HIDE DEF Deliveries
<1>7. CASE UNCHANGED vars
  BY <1>1, <1>2, <1>3, <1>7, TypesFrom DEF vars, Types
<1>8. ASSUME NEW r \in Request, Put(r) PROVE Types'
  <2>1. queue' \in Seq(Request)
    BY <1>8, AppendProperties DEF Put, Types
  <2>2. client' \in [Request -> {"new", "put", "waiting", "done"}]
    BY <1>8 DEF Put, Types
  <2>3. QED BY <1>1, <1>2, <1>3, <1>8, <2>1, <2>2, TypesFrom DEF Put, Types
<1>9. ASSUME NEW r \in Request, StartWorker(r) PROVE Types'
  <2>1. client' \in [Request -> {"new", "put", "waiting", "done"}]
    BY <1>9 DEF StartWorker, Types
  <2>2. worker' \in {"off", "idle", "infer", "stream", "stop", "dead"}
    BY <1>9 DEF StartWorker, Types
  <2>3. QED BY <1>1, <1>2, <1>3, <1>9, <2>1, <2>2, TypesFrom DEF StartWorker, Types
<1>10. ASSUME NEW r \in Request, Receive(r) PROVE Types'
  <2>1. Mailed
    <3>1. DOMAIN inbox' = Request /\ DOMAIN got' = Request
      BY <1>10, ItemReceived DEF Types
    <3>2. ASSUME NEW q \in Request, q # r
          PROVE  inbox'[q] \in Seq(Due(q) \cup {End}) /\ got'[q] \in Seq(Due(q))
      <4>1. inbox'[q] = inbox[q] /\ got'[q] = got[q]
        BY <1>10, <3>2, OthersKeep
      <4>2. QED BY <4>1 DEF Types
    <3>3. got'[r] \in Seq(Due(r))
      <4>1. got[r] \in Seq(Due(r))
        BY DEF Types
      <4>2. CASE Head(inbox[r]) = End
        BY <1>10, <4>1, <4>2, ItemReceived
      <4>3. CASE Head(inbox[r]) # End
        <5>1. Head(inbox[r]) \in Due(r) /\ got'[r] = Append(got[r], Head(inbox[r]))
          BY <1>10, <4>3, ItemReceived
        <5>2. QED BY <4>1, <5>1, AppendProperties
      <4>4. QED BY <4>2, <4>3
    <3>4. inbox'[r] \in Seq(Due(r) \cup {End})
      BY <1>10, ItemReceived
    <3>5. QED BY <3>1, <3>2, <3>3, <3>4 DEF Mailed
  <2>2. client' \in [Request -> {"new", "put", "waiting", "done"}]
    BY <1>10 DEF Receive, Types
  <2>3. QED BY <1>2, <1>3, <1>10, <2>1, <2>2, TypesFrom DEF Receive, Types
<1>11. CASE Fetch
  <2>1. GoodBatch(batch)' /\ GoodPool(pool)'
    BY <1>11, FetchFetches DEF Fetched
  <2>2. queue' \in Seq(Request)
    BY <1>11 DEF Fetch
  <2>3. QED BY <1>1, <1>11, <2>1, <2>2, TypesFrom DEF Fetch, Types
<1>12. CASE InferRaises
  BY <1>1, <1>2, <1>3, <1>12, TypesFrom DEF InferRaises, Types
<1>13. CASE InferFull
  <2>1. Mailed
    BY <1>4, <1>13, FullAdds, AddsMailed DEF InferFull, Deliveries
  <2>2. QED BY <1>2, <1>13, <2>1, EmptyBatch, TypesFrom DEF InferFull, Types
<1>14. CASE InferStream
  BY <1>1, <1>2, <1>3, <1>14, TypesFrom DEF InferStream, Types
<1>15. CASE StreamStep
  <2>1. Mailed
    BY <1>6, <1>15, StepAdds, AddsMailed DEF StreamStep, Deliveries
  <2>2. QED BY <1>2, <1>3, <1>15, <2>1, TypesFrom DEF StreamStep, Types
<1>16. CASE StreamLast
  <2>1. Mailed
    BY <1>4, <1>16, LastAdds, AddsMailed DEF StreamLast, Deliveries
  <2>2. QED BY <1>2, <1>3, <1>16, <2>1, TypesFrom DEF StreamLast, Types
<1>17. CASE StreamEnd
  <2>1. Mailed
    BY <1>5, <1>17, EndAdds, AddsMailed DEF StreamEnd, Deliveries
  <2>2. QED BY <1>2, <1>17, <2>1, EmptyBatch, TypesFrom DEF StreamEnd, Types
<1>18. QED BY <1>7, <1>8, <1>9, <1>10, <1>11, <1>12, <1>13, <1>14, <1>15, <1>16, <1>17
       DEF Next, Worker, Coroutine, Terminated

LEMMA PlacesNext ==
  ASSUME Types, Places, [Next]_vars
  PROVE  Places'
<1>1. CASE UNCHANGED <<queue, pool, batch, client>> /\ (worker' = worker \/ worker' \notin {"off", "idle"})
  BY <1>1 DEF Places, In, InPool, Once
<1>2. ASSUME NEW r \in Request, Put(r) PROVE Places'
  <2>1. client[r] = "new" /\ ~In(queue, r) /\ ~InPool(pool, r) /\ ~In(batch.data, r)
    BY <1>2 DEF Put, Places
  <2>2. queue' = Append(queue, r) /\ queue \in Seq(Request) /\ Once(queue)
    BY <1>2 DEF Put, Types, Places
  <2>3. Once(queue') /\ \A q : In(queue', q) => q = r \/ In(queue, q)
    BY <2>1, <2>2, AppendedTo
  <2>4. UNCHANGED <<pool, batch, worker>> /\ client'[r] = "put"
        /\ \A q \in Request : q # r => client'[q] = client[q]
    BY <1>2 DEF Put, Types
  <2>5. QED BY <2>1, <2>3, <2>4 DEF Places, InPool, In, Once
<1>3. ASSUME NEW r \in Request, StartWorker(r) PROVE Places'
  <2>1. UNCHANGED <<queue, pool, batch>> /\ \A q \in Request : client'[q] = "new" => client[q] = "new"
    BY <1>3 DEF StartWorker, Types
  <2>2. worker' \in {"off", "idle"} => worker \in {"off", "idle"}
    BY <1>3 DEF StartWorker
  <2>3. QED BY <2>1, <2>2 DEF Places, In, InPool, Once
<1>4. ASSUME NEW r \in Request, Receive(r) PROVE Places'
  <2>1. UNCHANGED <<queue, pool, batch, worker>>
        /\ \A q \in Request : client'[q] = "new" => client[q] = "new"
    BY <1>4 DEF Receive, Types
  <2>2. QED BY <2>1 DEF Places, In, InPool, Once
<1>5. CASE Fetch
  <2>1. Fetched
    BY <1>5, FetchFetches
  <2>2. queue' = << >> /\ worker' = "infer" /\ UNCHANGED client
    BY <1>5 DEF Fetch
  <2>3. Once(queue)' /\ \A q : ~In(queue', q)
    BY <2>2 DEF Once, In
  <2>4. ASSUME NEW r \in Request
        PROVE  /\ client'[r] = "new" => ~In(queue', r) /\ ~InPool(pool', r) /\ ~In(batch'.data, r)
               /\ In(queue', r) => ~InPool(pool', r) /\ ~In(batch'.data, r)
               /\ In(batch'.data, r) => ~InPool(pool', r)
    BY <2>1, <2>2, <2>3 DEF Fetched, Places
  <2>5. QED BY <2>2, <2>3, <2>4 DEF Places, In, InPool
<1>6. ASSUME UNCHANGED <<queue, pool, client>>, batch' = NoBatch PROVE Places'
  <2>1. batch'.data = << >> /\ \A q : ~In(batch'.data, q)
    BY <1>6, EmptyBatch
  <2>2. QED BY <1>6, <2>1 DEF Places, In, InPool, Once
<1>7. CASE UNCHANGED vars
  BY <1>1, <1>7 DEF vars
<1>8. CASE InferRaises \/ InferStream \/ StreamStep \/ StreamLast
  BY <1>1, <1>8 DEF InferRaises, InferStream, StreamStep, StreamLast
<1>9. CASE InferFull \/ StreamEnd
  BY <1>6, <1>9 DEF InferFull, StreamEnd
<1>10. QED BY <1>2, <1>3, <1>4, <1>5, <1>7, <1>8, <1>9 DEF Next, Worker, Coroutine, Terminated

-----------------------------------------------------------------------------
(* What a request has received, and what is still in its queue.             *)
Longer(t, s, x) ==
  /\ Len(s) \in Nat /\ DOMAIN s = 1..Len(s) /\ Len(t) = Len(s) + 1 /\ DOMAIN t = 1..Len(s) + 1
  /\ t[Len(s) + 1] = x /\ \A i \in 1..Len(s) : t[i] = s[i]
  /\ \A i \in 1..Len(s) + 1 : i \in 1..Len(s) \/ i = Len(s) + 1

LEMMA Appended ==
  ASSUME NEW T, NEW s \in Seq(T), NEW x \in T
  PROVE  Longer(Append(s, x), s, x)
<1>1. Len(s) \in Nat /\ DOMAIN s = 1..Len(s)
  BY LenProperties
<1>2. /\ Append(s, x) \in Seq(T) /\ Len(Append(s, x)) = Len(s) + 1
      /\ Append(s, x)[Len(s) + 1] = x /\ \A i \in 1..Len(s) : Append(s, x)[i] = s[i]
  BY AppendProperties
<1>3. DOMAIN Append(s, x) = 1..Len(s) + 1
  BY <1>2, LenProperties
<1>4. \A i \in 1..Len(s) + 1 : i \in 1..Len(s) \/ i = Len(s) + 1
  BY <1>1
<1>5. QED BY <1>1, <1>2, <1>3, <1>4 DEF Longer

Numbered == [kind : {"answer", "text", "last"}, of : SUBSET Request, adapter : Adapters, n : Nat]

LEMMA AnswersNumbered ==
  ASSUME NEW r \in Request
  PROVE  Answers(r) \subseteq Numbered
<1>1. AdaptersOf(ConfigOf[r]) \subseteq Adapters
  BY DEF AdaptersOf, Adapters
<1>2. QED BY <1>1 DEF Answers, Numbered

LEMMA Numbers ==
  ASSUME NEW g \in Seq(Numbered), NEW s \in Seq(Numbered \cup {End})
  PROVE  /\ \A i \in DOMAIN g : g[i].n \in Nat
         /\ \A j \in DOMAIN s : s[j] # End => s[j].n \in Nat
<1>1. ASSUME NEW i \in DOMAIN g PROVE g[i].n \in Nat
  <2>1. g[i] \in Numbered
    BY LenProperties, ElementOfSeq
  <2>2. QED BY <2>1 DEF Numbered
<1>2. ASSUME NEW j \in DOMAIN s, s[j] # End PROVE s[j].n \in Nat
  <2>1. s[j] \in Numbered \cup {End}
    BY LenProperties, ElementOfSeq
  <2>2. QED BY <1>2, <2>1 DEF Numbered
<1>3. QED BY <1>1, <1>2

LEMMA Below ==
  ASSUME NEW a \in Nat, NEW c \in Nat, a <= c
  PROVE  a < c + 1 /\ a <= c + 1
OBVIOUS

LEMMA AppendRises ==
  ASSUME NEW g \in Seq(Numbered), NEW s \in Seq(Numbered \cup {End}), NEW c \in Nat,
         NEW x \in Numbered \cup {End}, Rises(g, s),
         x # End => x.n = c + 1 /\ Bounded(g, s, c)
  PROVE  Rises(g, Append(s, x)) /\ (Bounded(g, s, c) => Bounded(g, Append(s, x), c + 1))
<1>1. PICK t : t = Append(s, x)
  OBVIOUS
<1>2. PICK n \in Nat : /\ n = Len(s) /\ DOMAIN s = 1..n /\ DOMAIN t = 1..n + 1
                       /\ t[n + 1] = x /\ \A i \in 1..n : t[i] = s[i]
                       /\ \A i \in 1..n + 1 : i \in 1..n \/ i = n + 1
  <2>1. Longer(t, s, x)
    BY <1>1, Appended
  <2>2. QED BY <2>1 DEF Longer
<1>3. /\ \A i \in DOMAIN g : g[i].n \in Nat
      /\ \A j \in 1..n : s[j] # End => s[j].n \in Nat
  BY <1>2, Numbers
<1>4. Bounded(g, s, c) => /\ \A i \in DOMAIN g : g[i].n < c + 1 /\ g[i].n <= c + 1
                          /\ \A j \in 1..n : s[j] # End => s[j].n < c + 1 /\ s[j].n <= c + 1
  BY <1>2, <1>3, Below DEF Bounded
<1>5. ASSUME NEW i \in 1..n + 1, NEW j \in 1..n + 1, i < j, t[i] # End, t[j] # End
      PROVE  t[i].n < t[j].n
  <2>1. CASE j \in 1..n
    <3>1. i \in 1..n
      BY <1>5, <2>1
    <3>2. QED BY <1>2, <1>5, <2>1, <3>1 DEF Rises
  <2>2. CASE j = n + 1
    <3>1. i \in 1..n
      BY <1>5, <2>2
    <3>2. QED BY <1>2, <1>4, <1>5, <2>2, <3>1
  <2>3. QED BY <1>2, <2>1, <2>2
<1>6. ASSUME NEW i \in DOMAIN g, NEW j \in 1..n + 1, t[j] # End PROVE g[i].n < t[j].n
  <2>1. CASE j \in 1..n
    BY <1>2, <1>6, <2>1 DEF Rises
  <2>2. CASE j = n + 1
    BY <1>2, <1>4, <1>6, <2>2
  <2>3. QED BY <1>2, <2>1, <2>2
<1>7. Rises(g, t)
  BY <1>2, <1>5, <1>6 DEF Rises
<1>8. ASSUME Bounded(g, s, c) PROVE Bounded(g, t, c + 1)
  <2>1. ASSUME NEW j \in 1..n + 1, t[j] # End PROVE t[j].n <= c + 1
    <3>1. CASE j \in 1..n
      BY <1>2, <1>4, <1>8, <2>1, <3>1
    <3>2. CASE j = n + 1
      BY <1>2, <2>1, <3>2
    <3>3. QED BY <1>2, <3>1, <3>2
  <2>2. QED BY <1>2, <1>4, <1>8, <2>1 DEF Bounded
<1>9. QED BY <1>1, <1>7, <1>8

(* The first element of the queue is received, unless it is the end.        *)
Shortened(t, s) ==
  /\ Len(s) \in Nat \ {0} /\ DOMAIN s = 1..Len(s) /\ Len(t) = Len(s) - 1 /\ DOMAIN t = 1..Len(s) - 1
  /\ \A j \in 1..Len(s) - 1 : t[j] = s[j + 1]

LEMMA DropRises ==
  ASSUME NEW g, NEW s, NEW t, NEW c, Shortened(t, s), Rises(g, s)
  PROVE  Rises(g, t) /\ (Bounded(g, s, c) => Bounded(g, t, c))
<1>1. PICK n \in Nat : /\ n = Len(s) /\ DOMAIN s = 1..n /\ DOMAIN t = 1..n - 1
                       /\ \A j \in 1..n - 1 : t[j] = s[j + 1]
  BY DEF Shortened
<1>2. \A j \in 1..n - 1 : j + 1 \in 1..n /\ \A i \in 1..n - 1 : i < j => i + 1 < j + 1
  BY <1>1
<1>3. Rises(g, t)
  BY <1>1, <1>2 DEF Rises
<1>4. Bounded(g, s, c) => Bounded(g, t, c)
  BY <1>1, <1>2 DEF Bounded
<1>5. QED BY <1>3, <1>4

LEMMA TakeRises ==
  ASSUME NEW g \in Seq(Numbered), NEW s, NEW t, NEW c, Shortened(t, s), Rises(g, s),
         s[1] # End, s[1] \in Numbered
  PROVE  Rises(Append(g, s[1]), t) /\ (Bounded(g, s, c) => Bounded(Append(g, s[1]), t, c))
<1>1. PICK n \in Nat : /\ n = Len(s) /\ n # 0 /\ DOMAIN s = 1..n /\ DOMAIN t = 1..n - 1
                       /\ \A j \in 1..n - 1 : t[j] = s[j + 1]
  BY DEF Shortened
<1>2. PICK h : h = Append(g, s[1])
  OBVIOUS
<1>3. PICK m \in Nat : /\ m = Len(g) /\ DOMAIN g = 1..m /\ DOMAIN h = 1..m + 1
                       /\ h[m + 1] = s[1] /\ \A i \in 1..m : h[i] = g[i]
                       /\ \A i \in 1..m + 1 : i \in 1..m \/ i = m + 1
  <2>1. Longer(h, g, s[1])
    BY <1>2, Appended
  <2>2. QED BY <2>1 DEF Longer
<1>4. 1 \in 1..n /\ \A j \in 1..n - 1 : 1 < j + 1 /\ j + 1 \in 1..n
  BY <1>1
<1>5. Rises(g, t) /\ (Bounded(g, s, c) => Bounded(g, t, c))
  BY DropRises
<1>6. ASSUME NEW i \in 1..m + 1, NEW j \in 1..m + 1, i < j PROVE h[i].n < h[j].n
  <2>1. CASE j \in 1..m
    <3>1. i \in 1..m
      BY <1>6, <2>1
    <3>2. QED BY <1>3, <1>6, <2>1, <3>1 DEF Rises
  <2>2. CASE j = m + 1
    <3>1. i \in 1..m
      BY <1>6, <2>2
    <3>2. g[i].n < s[1].n
      BY <1>1, <1>3, <1>4, <3>1 DEF Rises
    <3>3. QED BY <1>3, <2>2, <3>1, <3>2
  <2>3. QED BY <1>3, <2>1, <2>2
<1>7. ASSUME NEW i \in 1..m + 1, NEW j \in 1..n - 1, t[j] # End PROVE h[i].n < t[j].n
  <2>1. CASE i \in 1..m
    BY <1>1, <1>3, <1>5, <1>7, <2>1 DEF Rises
  <2>2. CASE i = m + 1
    <3>1. s[1].n < s[j + 1].n
      BY <1>1, <1>4, <1>7 DEF Rises
    <3>2. QED BY <1>1, <1>3, <2>2, <3>1
  <2>3. QED BY <1>3, <2>1, <2>2
<1>8. Rises(h, t)
  BY <1>1, <1>3, <1>5, <1>6, <1>7 DEF Rises
<1>9. ASSUME Bounded(g, s, c) PROVE Bounded(h, t, c)
  <2>1. s[1].n <= c
    BY <1>1, <1>4, <1>9 DEF Bounded
  <2>2. \A i \in 1..m + 1 : h[i].n <= c
    BY <1>3, <1>9, <2>1 DEF Bounded
  <2>3. QED BY <1>3, <1>5, <1>9, <2>2 DEF Bounded
<1>10. QED BY <1>2, <1>8, <1>9

LEMMA AppendEnds ==
  ASSUME NEW T, NEW g, NEW s \in Seq(T), NEW x \in T, Ends(g, s),
         x = End => LastBefore(g, s, Len(s) + 1)
  PROVE  Ends(g, Append(s, x))
<1>1. PICK t : t = Append(s, x)
  OBVIOUS
<1>2. PICK n \in Nat : /\ n = Len(s) /\ DOMAIN s = 1..n /\ DOMAIN t = 1..n + 1
                       /\ t[n + 1] = x /\ \A i \in 1..n : t[i] = s[i]
                       /\ \A i \in 1..n + 1 : i \in 1..n \/ i = n + 1
  <2>1. Longer(t, s, x)
    BY <1>1, Appended
  <2>2. QED BY <2>1 DEF Longer
<1>3. ASSUME NEW j \in 1..n + 1, LastBefore(g, s, j) PROVE LastBefore(g, t, j)
  <2>1. j # 1 => j - 1 \in 1..n
    OBVIOUS
  <2>2. QED BY <1>2, <1>3, <2>1 DEF LastBefore
<1>4. ASSUME NEW j \in 1..n + 1, t[j] = End PROVE LastBefore(g, s, j)
  <2>1. CASE j \in 1..n
    BY <1>2, <1>4, <2>1 DEF Ends
  <2>2. CASE j = n + 1
    BY <1>2, <1>4, <2>2
  <2>3. QED BY <1>2, <2>1, <2>2
<1>5. QED BY <1>1, <1>2, <1>3, <1>4 DEF Ends

LEMMA TakeEnds ==
  ASSUME NEW T, NEW g \in Seq(T), NEW s, NEW t, Shortened(t, s), Ends(g, s), s[1] \in T
  PROVE  /\ Ends(Append(g, s[1]), t)
         /\ LastBefore(g, s, Len(s) + 1) => LastBefore(Append(g, s[1]), t, Len(t) + 1)
<1>1. PICK n \in Nat : /\ n = Len(s) /\ n # 0 /\ DOMAIN s = 1..n /\ DOMAIN t = 1..n - 1
                       /\ Len(t) = n - 1 /\ \A j \in 1..n - 1 : t[j] = s[j + 1]
  BY DEF Shortened
<1>2. PICK h : h = Append(g, s[1])
  OBVIOUS
<1>3. h # << >> /\ h[Len(h)] = s[1]
  <2>1. /\ h # << >> /\ Len(h) = Len(g) + 1 /\ h[Len(g) + 1] = s[1]
    BY <1>2, AppendProperties
  <2>2. QED BY <2>1
<1>4. ASSUME NEW j \in 1..n, LastBefore(g, s, j + 1) PROVE LastBefore(h, t, j)
  <2>1. j + 1 # 1 /\ (j + 1) - 1 = j /\ (j # 1 => j - 1 \in 1..n - 1 /\ (j - 1) + 1 = j)
    OBVIOUS
  <2>2. s[j].kind = "last"
    BY <1>4, <2>1 DEF LastBefore
  <2>3. CASE j = 1
    BY <1>3, <2>2, <2>3 DEF LastBefore, HasLast
  <2>4. CASE j # 1
    BY <1>1, <2>1, <2>2, <2>4 DEF LastBefore
  <2>5. QED BY <2>3, <2>4
<1>5. ASSUME NEW j \in 1..n - 1, t[j] = End PROVE LastBefore(h, t, j)
  <2>1. j \in 1..n /\ j + 1 \in 1..n
    BY <1>1
  <2>2. LastBefore(g, s, j + 1)
    BY <1>1, <1>5, <2>1 DEF Ends
  <2>3. QED BY <1>4, <2>1, <2>2
<1>6. Ends(h, t)
  BY <1>1, <1>5 DEF Ends
<1>7. LastBefore(g, s, Len(s) + 1) => LastBefore(h, t, Len(t) + 1)
  <2>1. Len(s) + 1 = n + 1 /\ Len(t) + 1 = n /\ n \in 1..n
    BY <1>1
  <2>2. QED BY <1>4, <2>1
<1>8. QED BY <1>2, <1>6, <1>7

-----------------------------------------------------------------------------
(* The steps.                                                               *)
LEMMA Streamed ==
  ASSUME Types, NEW r \in Request, r \notin malformed
  PROVE  got[r] \in Seq(Numbered) /\ inbox[r] \in Seq(Numbered \cup {End})
<1>1. Due(r) \subseteq Numbered /\ Due(r) \cup {End} \subseteq Numbered \cup {End}
  BY AnswersNumbered DEF Due
<1>2. got[r] \in Seq(Due(r)) /\ inbox[r] \in Seq(Due(r) \cup {End})
  BY DEF Types
<1>3. QED BY <1>1, <1>2, SeqMonotonic

(* A request of the batch is nowhere else.                                  *)
LEMMA OnlyInBatch ==
  ASSUME Places, NEW r \in Request, In(batch.data, r)
  PROVE  client[r] # "new" /\ ~In(queue, r) /\ ~InPool(pool, r)
BY DEF Places

LEMMA ServedNext ==
  ASSUME Types, Places, [Next]_vars, NEW r \in Request, Served(r)
  PROVE  Served(r)'
<1> DEFINE Same == inbox'[r] = inbox[r] /\ got'[r] = got[r]
<1>1. ASSUME Same, Unserved(r)' => Unserved(r) PROVE Served(r)'
  BY <1>1 DEF Served
<1>2. ASSUME NEW X, Adds(X), UNCHANGED <<client, queue, pool, got>>, worker' \notin {"infer", "dead"}
      PROVE  Served(r)'
  <2>1. Unserved(r)' => client[r] = "new" \/ In(queue, r) \/ InPool(pool, r)
    BY <1>2 DEF Unserved, In, InPool
  <2>2. CASE In(batch.data, r)
    BY <2>1, <2>2, OnlyInBatch DEF Served
  <2>3. CASE ~In(batch.data, r)
    <3>1. Same
      BY <1>2, <2>3 DEF Adds
    <3>2. Unserved(r)' => Unserved(r)
      BY <2>1 DEF Unserved
    <3>3. QED BY <1>1, <3>1, <3>2
  <2>4. QED BY <2>2, <2>3
<1>3. CASE UNCHANGED vars
  BY <1>1, <1>3 DEF vars, Unserved, In, InPool
<1>4. ASSUME NEW q \in Request, Put(q) PROVE Served(r)'
  <2>1. Same /\ UNCHANGED <<pool, worker, batch>>
    BY <1>4 DEF Put
  <2>2. client[q] = "new" /\ \A p \in Request : client'[p] = "new" => client[p] = "new"
    BY <1>4 DEF Put, Types
  <2>3. \A p : In(queue', p) => p = q \/ In(queue, p)
    <3>1. queue' = Append(queue, q) /\ queue \in Seq(Request) /\ Once(queue) /\ ~In(queue, q)
      BY <1>4, <2>2 DEF Put, Types, Places
    <3>2. QED BY <3>1, AppendedTo
  <2>4. Unserved(r)' => Unserved(r)
    BY <2>1, <2>2, <2>3 DEF Unserved, In, InPool
  <2>5. QED BY <1>1, <2>1, <2>4
<1>5. ASSUME NEW q \in Request, StartWorker(q) PROVE Served(r)'
  <2>1. Same /\ UNCHANGED <<queue, pool, batch>>
    BY <1>5 DEF StartWorker
  <2>2. client'[r] = "new" => client[r] = "new"
    BY <1>5 DEF StartWorker, Types
  <2>3. worker' \in {"infer", "dead"} => worker' = worker
    BY <1>5 DEF StartWorker
  <2>4. Unserved(r)' => Unserved(r)
    BY <2>1, <2>2, <2>3 DEF Unserved, In, InPool
  <2>5. QED BY <1>1, <2>1, <2>4
<1>6. ASSUME NEW q \in Request, Receive(q) PROVE Served(r)'
  <2>1. UNCHANGED <<queue, pool, worker, batch>> /\ (client'[r] = "new" => client[r] = "new")
    BY <1>6 DEF Receive, Types
  <2>2. Unserved(r)' => Unserved(r)
    BY <2>1 DEF Unserved, In, InPool
  <2>3. CASE q = r
    <3>1. inbox[r] # << >>
      BY <1>6, <2>3 DEF Receive
    <3>2. QED BY <2>2, <3>1 DEF Served
  <2>4. CASE q # r
    <3>1. Same
      BY <1>6, <2>4, OthersKeep
    <3>2. QED BY <1>1, <2>2, <3>1
  <2>5. QED BY <2>3, <2>4
<1>7. CASE Fetch
  <2>1. Same /\ UNCHANGED client /\ queue' = << >>
    BY <1>7 DEF Fetch
  <2>2. Fetched
    BY <1>7, FetchFetches
  <2>3. In(batch'.data, r) => In(queue, r) \/ InPool(pool, r)
    BY <2>2 DEF Fetched
  <2>4. InPool(pool', r) => In(queue, r) \/ InPool(pool, r)
    BY <2>2 DEF Fetched
  <2>5. ~In(queue', r)
    BY <2>1 DEF In
  <2>6. Unserved(r)' => client'[r] = "new" \/ In(queue', r) \/ InPool(pool', r) \/ In(batch'.data, r)
    BY DEF Unserved, In, InPool
  <2>7. Unserved(r)' => Unserved(r)
    BY <2>1, <2>3, <2>4, <2>5, <2>6 DEF Unserved
  <2>8. QED BY <1>1, <2>1, <2>7
<1>8. CASE InferRaises \/ InferStream
  <2>1. Same /\ UNCHANGED <<client, queue, pool, batch>> /\ worker = "infer"
    BY <1>8 DEF InferRaises, InferStream
  <2>2. Unserved(r)' => Unserved(r)
    BY <2>1 DEF Unserved, In, InPool
  <2>3. QED BY <1>1, <2>1, <2>2
<1>9. CASE InferFull
  BY <1>2, <1>9, FullAdds DEF InferFull
<1>10. CASE StreamStep
  BY <1>2, <1>10, StepAdds DEF StreamStep
<1>11. CASE StreamLast
  BY <1>2, <1>11, LastAdds DEF StreamLast
<1>12. CASE StreamEnd
  BY <1>2, <1>12, EndAdds DEF StreamEnd
<1>13. QED BY <1>3, <1>4, <1>5, <1>6, <1>7, <1>8, <1>9, <1>10, <1>11, <1>12
       DEF Next, Worker, Coroutine, Terminated

LEMMA EmptyRises == Rises(<< >>, << >>) /\ \A c : Bounded(<< >>, << >>, c)
BY DEF Rises, Bounded

(* A request of a batch that is not generated yet has nothing.              *)
LEMMA NothingYet ==
  ASSUME NEW r \in Request, Served(r), In(batch.data, r), worker = "infer"
  PROVE  got[r] = << >> /\ inbox[r] = << >>
BY DEF Served, Unserved

LEMMA RisingNext ==
  ASSUME Types, Places, [Next]_vars, NEW r \in Request, Served(r), Rising(r)
  PROVE  Rising(r)'
<1>1. malformed' = malformed
  BY DEF Next, Worker, Coroutine, Terminated, vars, Put, StartWorker, Receive, Fetch, InferRaises,
         InferFull, InferStream, StreamStep, StreamLast, StreamEnd
<1> SUFFICES ASSUME r \notin malformed PROVE Rising(r)'
  BY <1>1 DEF Rising
<1>2. Rises(got[r], inbox[r]) /\ (worker = "stream" /\ In(batch.data, r) => Bounded(got[r], inbox[r], chunks))
  BY DEF Rising
<1>3. got[r] \in Seq(Numbered) /\ inbox[r] \in Seq(Numbered \cup {End}) /\ chunks \in Nat
  BY Streamed DEF Types
<1> DEFINE Same == inbox'[r] = inbox[r] /\ got'[r] = got[r]
<1>4. ASSUME Same, worker' = "stream" /\ In(batch'.data, r) =>
                     worker = "stream" /\ In(batch.data, r) /\ chunks' = chunks
      PROVE  Rising(r)'
  BY <1>2, <1>4 DEF Rising, In
<1>5. ASSUME NEW x \in Numbered \cup {End}, inbox'[r] = Append(inbox[r], x), got'[r] = got[r],
             x # End => x.n = chunks + 1 /\ Bounded(got[r], inbox[r], chunks)
      PROVE  /\ Rises(got'[r], inbox'[r])
             /\ Bounded(got[r], inbox[r], chunks) => Bounded(got'[r], inbox'[r], chunks + 1)
  <2>1. PICK g \in Seq(Numbered), s \in Seq(Numbered \cup {End}), c \in Nat :
          g = got[r] /\ s = inbox[r] /\ c = chunks
    BY <1>3
  <2>2. Rises(g, s) /\ (x # End => x.n = c + 1 /\ Bounded(g, s, c))
    BY <1>2, <1>5, <2>1
  <2>3. Rises(g, Append(s, x)) /\ (Bounded(g, s, c) => Bounded(g, Append(s, x), c + 1))
    BY <2>2, AppendRises
  <2>4. QED BY <1>5, <2>1, <2>3
<1>6. ASSUME In(batch.data, r), NEW kind \in {"answer", "text", "last"}
      PROVE  /\ Now(r, kind) \in Numbered \cup {End} /\ Now(r, kind).n = chunks + 1
  <2>1. Now(r, kind) \in Due(r) /\ Now(r, kind) = Output(kind, r) /\ Output(kind, r).n = chunks + 1
    BY <1>6, NowDue
  <2>2. Due(r) \subseteq Numbered
    BY AnswersNumbered DEF Due
  <2>3. QED BY <2>1, <2>2
<1>7. ASSUME In(batch.data, r), Rises(got'[r], inbox'[r]), worker' # "stream" PROVE Rising(r)'
  BY <1>7 DEF Rising
<1>8. ASSUME NEW X, Adds(X), ~In(batch.data, r), got' = got, batch' = batch \/ batch' = NoBatch
      PROVE  Rising(r)'
  <2>1. Same
    BY <1>8 DEF Adds
  <2>2. ~In(batch'.data, r)
    BY <1>8, EmptyBatch
  <2>3. QED BY <1>4, <2>1, <2>2
<1>9. CASE UNCHANGED vars
  <2>1. Same /\ UNCHANGED <<worker, batch, chunks>>
    BY <1>9 DEF vars
  <2>2. QED BY <1>4, <2>1
<1>10. ASSUME NEW q \in Request, Put(q) \/ StartWorker(q) PROVE Rising(r)'
  <2>1. Same /\ UNCHANGED <<batch, chunks>> /\ (worker' = "stream" => worker = "stream")
    BY <1>10 DEF Put, StartWorker
  <2>2. QED BY <1>4, <2>1
<1>11. ASSUME NEW q \in Request, Receive(q) PROVE Rising(r)'
  <2>1. UNCHANGED <<worker, batch, chunks>>
    BY <1>11 DEF Receive
  <2>2. CASE q # r
    <3>1. Same
      BY <1>11, <2>2, OthersKeep
    <3>2. QED BY <1>4, <2>1, <3>1
  <2>3. CASE q = r
    <3>1. PICK g \in Seq(Numbered), c \in Nat,
                 s \in Seq(Numbered \cup {End}), t \in {inbox'[r]} :
            g = got[r] /\ s = inbox[r] /\ t = inbox'[r] /\ c = chunks
      BY <1>3
    <3>2. Shortened(t, s)
      <4>1. t \in Seq(Due(r) \cup {End}) /\ Len(t) = Len(s) - 1 /\ Len(s) \in Nat \ {0}
            /\ \A j \in 1..Len(t) : t[j] = s[j + 1]
        BY <1>11, <2>3, <3>1, ItemReceived
      <4>2. DOMAIN t = 1..Len(t) /\ DOMAIN s = 1..Len(s)
        BY <4>1, LenProperties
      <4>3. QED BY <4>1, <4>2 DEF Shortened
    <3>3. Rises(g, s)
      BY <1>2, <3>1
    <3>4. CASE s[1] = End
      <4>1. got'[r] = g
        BY <1>11, <2>3, <3>1, <3>4, ItemReceived
      <4>2. Rises(g, t) /\ (Bounded(g, s, c) => Bounded(g, t, c))
        BY <3>2, <3>3, DropRises
      <4>3. QED BY <1>2, <2>1, <3>1, <4>1, <4>2 DEF Rising
    <3>5. CASE s[1] # End
      <4>1. got'[r] = Append(g, s[1]) /\ s[1] \in Due(r)
        BY <1>11, <2>3, <3>1, <3>5, ItemReceived
      <4>2. s[1] \in Numbered
        BY <4>1, AnswersNumbered DEF Due
      <4>3. Rises(Append(g, s[1]), t) /\ (Bounded(g, s, c) => Bounded(Append(g, s[1]), t, c))
        BY <3>2, <3>3, <3>5, <4>2, TakeRises
      <4>4. QED BY <1>2, <2>1, <3>1, <4>1, <4>3 DEF Rising
    <3>6. QED BY <3>4, <3>5
  <2>4. QED BY <2>2, <2>3
<1>12. CASE Fetch \/ InferRaises
  <2>1. Same /\ worker' # "stream"
    BY <1>12 DEF Fetch, InferRaises
  <2>2. QED BY <1>4, <2>1
<1>13. CASE InferStream
  <2>1. Same /\ worker = "infer" /\ UNCHANGED <<batch, chunks>>
    BY <1>13 DEF InferStream
  <2>2. CASE In(batch.data, r)
    <3>1. got[r] = << >> /\ inbox[r] = << >>
      BY <2>1, <2>2, NothingYet
    <3>2. QED BY <2>1, <3>1, EmptyRises DEF Rising
  <2>3. CASE ~In(batch.data, r)
    BY <1>4, <2>1, <2>3
  <2>4. QED BY <2>2, <2>3
<1>14. CASE InferFull
  <2>1. Adds(Given("answer")) /\ worker = "infer" /\ worker' = "idle" /\ got' = got /\ batch' = NoBatch
    BY <1>14, FullAdds DEF InferFull
  <2>2. CASE In(batch.data, r)
    <3>1. inbox'[r] = Append(inbox[r], Now(r, "answer"))
      BY <2>1, <2>2 DEF Adds, Given
    <3>2. Bounded(got[r], inbox[r], chunks)
      BY <2>1, <2>2, NothingYet, EmptyRises
    <3>3. QED BY <1>5, <1>6, <1>7, <2>1, <2>2, <3>1, <3>2
  <2>3. QED BY <1>8, <2>1, <2>2
<1>15. CASE StreamStep
  <2>1. /\ Adds(Stepped) /\ worker = "stream" /\ worker' = "stream" /\ got' = got /\ batch' = batch
        /\ chunks' = chunks + 1
    BY <1>15, StepAdds DEF StreamStep
  <2>2. CASE In(batch.data, r)
    <3>1. PICK x \in {Now(r, "text"), End} : inbox'[r] = Append(inbox[r], x)
      BY <2>1, <2>2 DEF Adds, Stepped, Now
    <3>2. Bounded(got[r], inbox[r], chunks)
      BY <1>2, <2>1, <2>2
    <3>3. x \in Numbered \cup {End} /\ (x # End => x.n = chunks + 1)
      BY <1>6, <2>2, <3>1
    <3>4. Rises(got'[r], inbox'[r]) /\ Bounded(got'[r], inbox'[r], chunks')
      BY <1>5, <2>1, <3>1, <3>2, <3>3
    <3>5. QED BY <3>4 DEF Rising
  <2>3. QED BY <1>8, <2>1, <2>2
<1>16. CASE StreamLast
  <2>1. Adds(Given("last")) /\ worker = "stream" /\ worker' = "stop" /\ got' = got /\ batch' = batch
    BY <1>16, LastAdds DEF StreamLast
  <2>2. CASE In(batch.data, r)
    <3>1. inbox'[r] = Append(inbox[r], Now(r, "last"))
      BY <2>1, <2>2 DEF Adds, Given
    <3>2. Bounded(got[r], inbox[r], chunks)
      BY <1>2, <2>1, <2>2
    <3>3. QED BY <1>5, <1>6, <1>7, <2>1, <2>2, <3>1, <3>2
  <2>3. QED BY <1>8, <2>1, <2>2
<1>17. CASE StreamEnd
  <2>1. Adds(Ended) /\ worker' = "idle" /\ got' = got /\ batch' = NoBatch
    BY <1>17, EndAdds DEF StreamEnd
  <2>2. CASE In(batch.data, r)
    <3>1. inbox'[r] = Append(inbox[r], End)
      BY <2>1, <2>2 DEF Adds, Ended
    <3>2. QED BY <1>5, <1>7, <2>1, <2>2, <3>1
  <2>3. QED BY <1>8, <2>1, <2>2
<1>18. QED BY <1>9, <1>10, <1>11, <1>12, <1>13, <1>14, <1>15, <1>16, <1>17
       DEF Next, Worker, Coroutine, Terminated

(* A stream is alone in its batch.                                          *)
LEMMA Alone ==
  ASSUME Types, StreamsAlone, NEW r \in Request, In(batch.data, r), Streams(r)
  PROVE  Len(batch.data) <= 1 /\ Streams(batch.data[1])
<1>1. PICK data \in Seq(Request), n \in Nat : data = batch.data /\ n = Len(data) /\ DOMAIN data = 1..n
  BY LenProperties DEF Types, GoodBatch
<1>2. \A i \in 1..n : data[i] \in Request
  BY <1>1, ElementOfSeq
<1>3. PICK i \in 1..n : data[i] = r
  BY <1>1 DEF In
<1>4. 1 \in 1..n
  BY <1>3
<1>5. /\ \A k, l \in 1..n : data[k] = data[l] => k = l
      /\ \A k, l \in 1..n : ConfigOf[data[k]] = ConfigOf[data[l]]
      /\ MaxBatch = 1 => n <= 1
  BY <1>1 DEF Types, GoodBatch, Once
<1>6. Streams(data[1])
  BY <1>3, <1>4, <1>5 DEF Streams
<1>7. CASE MaxBatch = 1
  BY <1>1, <1>5, <1>6, <1>7
<1>8. CASE \A p, q \in Request : Streams(p) /\ ConfigOf[p] = ConfigOf[q] => p = q
  <2>1. \A k \in 1..n : data[k] = r
    BY <1>2, <1>3, <1>5, <1>8
  <2>2. \A k \in 1..n : k = i
    BY <1>3, <1>5, <2>1
  <2>3. n <= 1
    <3>1. n \in 1..n /\ 1 = i
      BY <1>4, <2>2
    <3>2. QED BY <2>2, <3>1
  <2>4. QED BY <1>1, <1>6, <2>3
<1>9. QED BY <1>7, <1>8 DEF StreamsAlone

LEMMA WholeNext ==
  ASSUME Types, Places, [Next]_vars, NEW r \in Request, Whole(r)
  PROVE  Whole(r)'
<1>1. malformed' = malformed
  BY DEF Next, Worker, Coroutine, Terminated, vars, Put, StartWorker, Receive, Fetch, InferRaises,
         InferFull, InferStream, StreamStep, StreamLast, StreamEnd
<1> SUFFICES ASSUME StreamsAlone, Streams(r), r \notin malformed PROVE Whole(r)'
  BY <1>1 DEF Whole
<1>2. IF client[r] = "done" THEN HasLast(got[r])
      ELSE /\ Ends(got[r], inbox[r])
           /\ worker = "stop" /\ In(batch.data, r) => LastBefore(got[r], inbox[r], Len(inbox[r]) + 1)
  BY DEF Whole
<1> DEFINE Same == inbox'[r] = inbox[r] /\ got'[r] = got[r]
<1>3. ASSUME Same, client'[r] = "done" <=> client[r] = "done",
             worker' = "stop" /\ In(batch'.data, r) => worker = "stop" /\ In(batch.data, r)
      PROVE  Whole(r)'
  BY <1>2, <1>3 DEF Whole, In
<1>4. ASSUME NEW X, Adds(X), ~In(batch.data, r), UNCHANGED <<got, client>>,
             batch' = batch \/ batch' = NoBatch
      PROVE  Whole(r)'
  <2>1. Same
    BY <1>4 DEF Adds
  <2>2. ~In(batch'.data, r)
    BY <1>4, EmptyBatch
  <2>3. QED BY <1>3, <1>4, <2>1, <2>2
<1>5. inbox[r] \in Seq(Due(r) \cup {End}) /\ got[r] \in Seq(Due(r))
  BY DEF Types
<1>6. ASSUME NEW kind \in {"answer", "text", "last"}, In(batch.data, r)
      PROVE  Now(r, kind) \in Due(r) /\ Now(r, kind).kind = kind /\ Now(r, kind) # End
  <2>1. Now(r, kind) \in Due(r) /\ Now(r, kind).kind = kind
    BY <1>6, NowDue
  <2>2. End.kind = "end" /\ kind # "end"
    BY DEF End
  <2>3. QED BY <2>1, <2>2
<1>7. ASSUME NEW x \in Due(r) \cup {End}, inbox'[r] = Append(inbox[r], x), UNCHANGED <<got, client>>,
             x = End /\ client[r] # "done" => LastBefore(got[r], inbox[r], Len(inbox[r]) + 1),
             worker' = "stop" => x.kind = "last"
      PROVE  Whole(r)'
  <2>1. CASE client[r] = "done"
    BY <1>2, <1>7, <2>1 DEF Whole
  <2>2. CASE client[r] # "done"
    <3>1. PICK s \in Seq(Due(r) \cup {End}) : s = inbox[r]
      BY <1>5
    <3>2. Ends(got[r], s) /\ (x = End => LastBefore(got[r], s, Len(s) + 1))
      BY <1>2, <1>7, <2>2, <3>1
    <3>3. Ends(got[r], Append(s, x))
      BY <3>2, AppendEnds
    <3>4. ASSUME x.kind = "last" PROVE LastBefore(got[r], Append(s, x), Len(Append(s, x)) + 1)
      <4>1. PICK n \in Nat : Len(Append(s, x)) = n + 1 /\ Append(s, x)[n + 1] = x
        <5>1. Len(s) \in Nat
          BY LenProperties
        <5>2. Len(Append(s, x)) = Len(s) + 1 /\ Append(s, x)[Len(s) + 1] = x
          BY AppendProperties
        <5>3. QED BY <5>1, <5>2
      <4>2. (n + 1) + 1 # 1 /\ ((n + 1) + 1) - 1 = n + 1
        OBVIOUS
      <4>3. QED BY <3>4, <4>1, <4>2 DEF LastBefore
    <3>5. QED BY <1>7, <2>2, <3>1, <3>3, <3>4 DEF Whole
  <2>3. QED BY <2>1, <2>2
<1>8. CASE UNCHANGED vars
  <2>1. Same /\ UNCHANGED <<client, worker, batch>>
    BY <1>8 DEF vars
  <2>2. QED BY <1>3, <2>1
<1>9. ASSUME NEW q \in Request, Put(q) \/ StartWorker(q) PROVE Whole(r)'
  <2>1. Same /\ UNCHANGED <<batch>> /\ (worker' = "stop" => worker = "stop")
    BY <1>9 DEF Put, StartWorker
  <2>2. client'[r] = "done" <=> client[r] = "done"
    <3>1. client[q] \in {"new", "put"} /\ DOMAIN client = Request
      BY <1>9 DEF Put, StartWorker, Types
    <3>2. client' = [client EXCEPT ![q] = "put"] \/ client' = [client EXCEPT ![q] = "waiting"]
      BY <1>9 DEF Put, StartWorker
    <3>3. CASE q = r
      <4>1. client'[r] \in {"put", "waiting"}
        BY <3>1, <3>2, <3>3
      <4>2. QED BY <3>1, <3>3, <4>1
    <3>4. CASE q # r
      BY <3>1, <3>2, <3>4
    <3>5. QED BY <3>3, <3>4
  <2>3. QED BY <1>3, <2>1, <2>2
<1>10. ASSUME NEW q \in Request, Receive(q) PROVE Whole(r)'
  <2>1. UNCHANGED <<worker, batch>> /\ DOMAIN client = Request
    BY <1>10 DEF Receive, Types
  <2>2. CASE q # r
    <3>1. Same
      BY <1>10, <2>2, OthersKeep
    <3>2. client'[r] = client[r]
      BY <1>10, <2>1, <2>2 DEF Receive
    <3>3. QED BY <1>3, <2>1, <3>1, <3>2
  <2>3. CASE q = r
    <3>1. PICK g \in Seq(Due(r)), s \in Seq(Due(r) \cup {End}), t \in {inbox'[r]} :
            g = got[r] /\ s = inbox[r] /\ t = inbox'[r]
      BY <1>5
    <3>2. Shortened(t, s)
      <4>1. t \in Seq(Due(r) \cup {End}) /\ Len(t) = Len(s) - 1 /\ Len(s) \in Nat \ {0}
            /\ \A j \in 1..Len(t) : t[j] = s[j + 1]
        BY <1>10, <2>3, <3>1, ItemReceived
      <4>2. DOMAIN t = 1..Len(t) /\ DOMAIN s = 1..Len(s)
        BY <4>1, LenProperties
      <4>3. QED BY <4>1, <4>2 DEF Shortened
    <3>3. client[r] = "waiting" /\ Head(inbox[r]) = s[1]
      BY <1>10, <2>3, <3>1, ItemReceived DEF Receive
    <3>4. Ends(g, s) /\ (worker = "stop" /\ In(batch.data, r) => LastBefore(g, s, Len(s) + 1))
      BY <1>2, <3>1, <3>3
    <3>5. CASE s[1] = End
      <4>1. got'[r] = g
        BY <1>10, <2>3, <3>1, <3>5, ItemReceived
      <4>2. client'[r] = "done"
        BY <1>10, <2>1, <2>3, <3>3, <3>5 DEF Receive, EndsWait
      <4>3. HasLast(g)
        <5>1. 1 \in DOMAIN s
          BY <3>2 DEF Shortened
        <5>2. QED BY <3>4, <3>5, <5>1 DEF Ends, LastBefore
      <4>4. QED BY <4>1, <4>2, <4>3 DEF Whole
    <3>6. CASE s[1] # End
      <4>1. got'[r] = Append(g, s[1]) /\ s[1] \in Due(r)
        BY <1>10, <2>3, <3>1, <3>6, ItemReceived
      <4>2. client'[r] # "done"
        BY <1>10, <2>3, <3>3, <3>6 DEF Receive, EndsWait
      <4>3. /\ Ends(Append(g, s[1]), t)
            /\ LastBefore(g, s, Len(s) + 1) => LastBefore(Append(g, s[1]), t, Len(t) + 1)
        BY <3>2, <3>4, <4>1, TakeEnds
      <4>4. QED BY <2>1, <3>1, <3>4, <4>1, <4>2, <4>3 DEF Whole
    <3>7. QED BY <3>5, <3>6
  <2>4. QED BY <2>2, <2>3
<1>11. CASE Fetch \/ InferRaises \/ InferStream
  <2>1. Same /\ UNCHANGED client /\ worker' # "stop"
    BY <1>11 DEF Fetch, InferRaises, InferStream
  <2>2. QED BY <1>3, <2>1
<1>12. CASE InferFull
  <2>1. Adds(Given("answer")) /\ UNCHANGED <<got, client>> /\ batch' = NoBatch
    BY <1>12, FullAdds DEF InferFull
  <2>2. ~In(batch.data, r)
    BY <1>12, Alone DEF InferFull
  <2>3. QED BY <1>4, <2>1, <2>2
<1>13. CASE StreamStep
  <2>1. UNCHANGED <<got, client, batch>> /\ worker' # "stop" /\ Adds(Stepped)
    BY <1>13, StepAdds DEF StreamStep
  <2>2. CASE In(batch.data, r)
    <3>1. Adds(Given("text"))
      BY <1>13, <2>2, Alone, StepAdds
    <3>2. inbox'[r] = Append(inbox[r], Now(r, "text"))
      BY <2>2, <3>1 DEF Adds, Given
    <3>3. Now(r, "text") \in Due(r) /\ Now(r, "text") # End
      BY <1>6, <2>2
    <3>4. QED BY <1>7, <2>1, <3>2, <3>3
  <2>3. QED BY <1>4, <2>1, <2>2
<1>14. CASE StreamLast
  <2>1. UNCHANGED <<got, client, batch>> /\ Adds(Given("last"))
    BY <1>14, LastAdds DEF StreamLast
  <2>2. CASE In(batch.data, r)
    <3>1. inbox'[r] = Append(inbox[r], Now(r, "last"))
      BY <2>1, <2>2 DEF Adds, Given
    <3>2. Now(r, "last") \in Due(r) /\ Now(r, "last") # End /\ Now(r, "last").kind = "last"
      BY <1>6, <2>2
    <3>3. QED BY <1>7, <2>1, <3>1, <3>2
  <2>3. QED BY <1>4, <2>1, <2>2
<1>15. CASE StreamEnd
  <2>1. UNCHANGED <<got, client>> /\ Adds(Ended) /\ batch' = NoBatch /\ worker = "stop" /\ worker' # "stop"
    BY <1>15, EndAdds DEF StreamEnd
  <2>2. CASE In(batch.data, r)
    <3>1. inbox'[r] = Append(inbox[r], End)
      BY <2>1, <2>2 DEF Adds, Ended
    <3>2. client[r] # "done" => LastBefore(got[r], inbox[r], Len(inbox[r]) + 1)
      BY <1>2, <2>1, <2>2
    <3>3. QED BY <1>7, <2>1, <3>1, <3>2
  <2>3. QED BY <1>4, <2>1, <2>2
<1>16. QED BY <1>8, <1>9, <1>10, <1>11, <1>12, <1>13, <1>14, <1>15
       DEF Next, Worker, Coroutine, Terminated

-----------------------------------------------------------------------------
LEMMA Step == IInv /\ [Next]_vars => IInv'
<1> SUFFICES ASSUME IInv, [Next]_vars PROVE IInv'
  OBVIOUS
<1>1. Types /\ Places
  BY DEF IInv
<1>2. Types' /\ Places'
  BY <1>1, TypesNext, PlacesNext
<1>3. ASSUME NEW r \in Request PROVE Served(r)' /\ Rising(r)' /\ Whole(r)'
  <2>1. Served(r) /\ Rising(r) /\ Whole(r)
    BY DEF IInv
  <2>2. Served(r)'
    BY <1>1, <2>1, ServedNext
  <2>3. Rising(r)'
    BY <1>1, <2>1, RisingNext
  <2>4. Whole(r)'
    BY <1>1, <2>1, WholeNext
  <2>5. QED BY <2>2, <2>3, <2>4
<1>4. QED BY <1>2, <1>3 DEF IInv

(* The inductive invariant: where the requests are, what is due to each of  *)
(* them, and what it has received of it (infer_async, _infer_worker,        *)
(* _fetch_infer_requests, _add_error_list).                                 *)
THEOREM Invariance == Spec => []IInv
BY InitHolds, Step, PTL DEF Spec

LEMMA ReceivedOwn == ASSUME SameAdapter, IInv PROVE OwnAnswers
<1> SUFFICES ASSUME NEW r \in Request, NEW i \in DOMAIN got[r]
             PROVE  /\ got[r][i].of = {r}
                    /\ got[r][i].kind # "error" =>
                         /\ got[r][i].adapter = AdapterOf[r]
                         /\ \A j \in 1..i - 1 : got[r][j].n < got[r][i].n
  BY DEF OwnAnswers
<1>1. got[r] \in Seq(Due(r)) /\ Rising(r)
  BY DEF IInv, Types
<1>2. got[r][i] \in Due(r) /\ DOMAIN got[r] = 1..Len(got[r]) /\ Len(got[r]) \in Nat
  BY <1>1, LenProperties, ElementOfSeq
<1>3. CASE r \in malformed
  <2>1. got[r][i] = Error(r)
    BY <1>2, <1>3 DEF Due
  <2>2. QED BY <2>1 DEF Error
<1>4. CASE r \notin malformed
  <2>1. got[r][i] \in Answers(r)
    BY <1>2, <1>4 DEF Due
  <2>2. got[r][i].of = {r} /\ got[r][i].adapter \in AdaptersOf(ConfigOf[r])
    BY <2>1 DEF Answers
  <2>3. got[r][i].adapter = AdapterOf[r]
    BY <2>2 DEF SameAdapter, AdaptersOf
  <2>4. \A j \in 1..i - 1 : j \in DOMAIN got[r] /\ j < i
    BY <1>2
  <2>5. \A j \in 1..i - 1 : got[r][j].n < got[r][i].n
    BY <1>1, <1>4, <2>4 DEF Rising, Rises
  <2>6. QED BY <2>2, <2>3, <2>5
<1>5. QED BY <1>3, <1>4

(* When the requests of a config are for one adapter, each request receives *)
(* its own outputs, with its own adapter and in order, and no error but its *)
(* own (_infer_worker, _add_error_list).                                    *)
THEOREM OwnAnswersHold == ASSUME SameAdapter PROVE Spec => []OwnAnswers
<1>1. IInv => OwnAnswers
  BY ReceivedOwn
<1>2. QED BY <1>1, Invariance, PTL

LEMMA EndedWhole == ASSUME StreamsAlone, IInv PROVE StreamComplete
<1> SUFFICES ASSUME NEW r \in Request \ malformed, Streams(r), client[r] = "done"
             PROVE  got[r] # << >> /\ Last(got[r]).kind = "last"
  BY DEF StreamComplete
<1>1. Whole(r)
  BY DEF IInv
<1>2. QED BY <1>1 DEF Whole, HasLast, Last

(* When no two streams share a batch, a stream that is over has delivered   *)
(* its last text (_infer_stream, _gen_wrapper).                             *)
THEOREM StreamIsComplete == ASSUME StreamsAlone PROVE Spec => []StreamComplete
<1>1. IInv => StreamComplete
  BY EndedWhole
<1>2. QED BY <1>1, Invariance, PTL
=============================================================================
