------------------------------ MODULE Packing -------------------------------
(***************************************************************************)
(* Streamed packing and its dispatch.  IterablePackingDataset encodes the  *)
(* dataset interval by interval with worker processes that answer in any   *)
(* order, groups the encoded samples into rows no longer than              *)
(* packing_length and keeps the last row back as the start of the next     *)
(* interval.  Rank 0 iterates over the rows, and DataLoaderDispatcher      *)
(* scatters one to every rank, after skipping the batches a resumed run    *)
(* has trained on already.  A batch is one row, as packing has it.         *)
(***************************************************************************)
EXTENDS Integers, FiniteSets, SequencesExt

CONSTANTS
  Workers,        \* the num_proc processes
  Ranks,          \* the world size
  MaxSamples,     \* bounds the dataset
  Lengths,        \* of an encoded sample; 0: longer than max_length, -1: not encodable
  PackingInterval, PackingLength,
  MaxSkip,        \* bounds skip_batches
  Strict,         \* strict: a sample that is not encodable is an error
  PastEnd         \* the skipped batches may be more than the data has

ASSUME PackingConstants ==
  /\ Ranks \in Nat \ {0} /\ PackingInterval \in Nat \ {0} /\ PackingLength \in Nat \ {0}
  /\ MaxSamples \in Nat /\ MaxSkip \in Nat /\ Lengths \subseteq Int
  /\ Strict \in BOOLEAN /\ PastEnd \in BOOLEAN

VARIABLES
  length,  \* the dataset, by the length of its samples
  skip,    \* skip_batches
  pos,     \* samples the iterator has given
  phase,   \* of __iter__: "put", "fetch" or "over"
  num,     \* samples put in this interval
  fetched, \* answers fetched of this interval
  res,     \* the answers of this interval, by place
  data,    \* what waits for the next interval
  inQueue, outQueue,
  busy,    \* the task of each worker, NoTask, or Dead
  rows,    \* rows not yet yielded
  skipped, \* rows skipped by rank 0
  taken,   \* rows rank 0 holds for the next scatter
  wire,    \* rows scattered to each rank and not received
  batches, \* rows each rank has received
  left     \* the ranks whose loop has ended

packing == <<pos, phase, num, fetched, res, data>>
queues == <<inQueue, outQueue, busy>>
dispatch == <<skipped, taken, wire, batches, left>>
vars == <<length, skip, packing, queues, rows, dispatch>>

Samples == DOMAIN length
NoTask == [at |-> 0, sample |-> 0]
Dead == [at |-> -1, sample |-> 0]
Nothing == << >>          \* None, where a row is expected

-----------------------------------------------------------------------------
(* What a worker answers: the encoded sample with its length, or, after an  *)
(* error that is forgiven, nothing.                                         *)
Items == [of : Nat, length : Nat \ {0}]
Failed == [of |-> 0, length |-> 0]

Encoded(lengths, s) == IF lengths[s] > 0 THEN [of |-> s, length |-> lengths[s]] ELSE Failed
Raises(s) == Strict /\ length[s] < 0

(* binpacking takes the longest item first, of those as long as each other  *)
(* the one that came first, and puts it into the fullest row it fits in;    *)
(* what failed has been filtered out.  So the item of the shortest place is *)
(* put last.                                                                *)
RowLength(row) == FoldLeft(LAMBDA sum, item: sum + item.length, 0, row)

PlaceInRow(packed, item) ==
  LET fits == {i \in DOMAIN packed : RowLength(packed[i]) + item.length <= PackingLength}
      fullest == CHOOSE i \in fits : \A j \in fits :
                   \/ RowLength(packed[j]) < RowLength(packed[i])
                   \/ (RowLength(packed[j]) = RowLength(packed[i]) /\ i <= j)
  IN IF fits = {} THEN Append(packed, <<item>>)
     ELSE [packed EXCEPT ![fullest] = Append(@, item)]

Shortest(items, places) ==
  CHOOSE i \in places : \A j \in places :
    \/ items[i].length < items[j].length
    \/ (items[i].length = items[j].length /\ j <= i)

BinPacking(items) ==
  LET places == {i \in DOMAIN items : items[i] \in Items}
      packed[s \in SUBSET places] ==
        IF s = {} THEN << >>
        ELSE PlaceInRow(packed[s \ {Shortest(items, s)}], items[Shortest(items, s)])
  IN packed[places]

(* calculate_matched_group.                                                 *)
(* With a bug: what should wait for the next interval is lost.              *)
ForgetsRest(items, finished) ==
  LET packed == BinPacking(items)
  IN [rows |-> IF finished \/ packed = << >> THEN packed ELSE Front(packed), rest |-> << >>]

MatchedGroup(items, finished) ==
  LET packed == BinPacking(items)
  IN IF finished \/ packed = << >> THEN [rows |-> packed, rest |-> << >>]
     ELSE [rows |-> Front(packed), rest |-> Last(packed)]

-----------------------------------------------------------------------------
(* What the workers' order must not change: the rows as one process that    *)
(* encodes and groups interval after interval would yield them.             *)
Intervals(lengths) == (Len(lengths) \div PackingInterval) + 1

Size(lengths, k) ==
  LET rest == Len(lengths) - k * PackingInterval
  IN IF rest < PackingInterval THEN rest ELSE PackingInterval

Interval(lengths, k) ==
  [i \in 1..Size(lengths, k) |-> Encoded(lengths, k * PackingInterval + i)]

AfterInterval(lengths, before, k) ==
  LET grouped == MatchedGroup(before.rest \o Interval(lengths, k),
                              Size(lengths, k) # PackingInterval)
  IN [rows |-> before.rows \o grouped.rows, rest |-> grouped.rest]

(* The rows of the first k intervals, and what is held back.                *)
Grouped(lengths) ==
  LET after[k \in 0..Intervals(lengths)] ==
        IF k = 0 THEN [rows |-> << >>, rest |-> << >>]
        ELSE AfterInterval(lengths, after[k - 1], k - 1)
  IN after

ExpectedRows == Grouped(length)[Intervals(length)].rows

Init ==
  /\ \E n \in 0..MaxSamples : length \in [1..n -> Lengths]
  /\ skip \in 0..MaxSkip
  /\ PastEnd \/ skip * Ranks <= Len(ExpectedRows)
  /\ pos = 0 /\ num = 0 /\ fetched = 0 /\ res = << >> /\ data = << >>
  /\ phase = IF length = << >> THEN "over" ELSE "put"
  /\ inQueue = << >> /\ outQueue = << >> /\ busy = [w \in Workers |-> NoTask]
  /\ rows = << >> /\ skipped = 0 /\ taken = << >>
  /\ wire = [r \in 1..Ranks |-> << >>] /\ batches = [r \in 1..Ranks |-> << >>]
  /\ left = {}

-----------------------------------------------------------------------------
(* _put_data_in_queue: one sample, or the end of the interval or the data.  *)
Put ==
  /\ phase = "put" /\ rows = << >>
  /\ num < PackingInterval /\ pos < Len(length)
  /\ inQueue' = Append(inQueue, [at |-> num + 1, sample |-> pos + 1])
  /\ num' = num + 1 /\ pos' = pos + 1
  /\ UNCHANGED <<length, skip, phase, fetched, res, data, outQueue, busy, rows, dispatch>>

PutEnds ==
  /\ phase = "put" /\ rows = << >>
  /\ num = PackingInterval \/ pos = Len(length)
  /\ phase' = "fetch" /\ fetched' = 0
  /\ res' = [i \in 1..num |-> Failed]
  /\ UNCHANGED <<length, skip, pos, num, data, queues, rows, dispatch>>

(* _processor: an error that strict does not forgive ends the process.      *)
Get(w) ==
  /\ busy[w] = NoTask /\ inQueue # << >>
  /\ busy' = [busy EXCEPT ![w] = Head(inQueue)] /\ inQueue' = Tail(inQueue)
  /\ UNCHANGED <<length, skip, packing, outQueue, rows, dispatch>>

Encode(w) ==
  /\ busy[w] \notin {NoTask, Dead}
  /\ LET s == busy[w].sample
     IN IF Raises(s)
        THEN busy' = [busy EXCEPT ![w] = Dead] /\ UNCHANGED outQueue
        ELSE /\ busy' = [busy EXCEPT ![w] = NoTask]
             /\ outQueue' = Append(outQueue, [at |-> busy[w].at, answer |-> Encoded(length, s)])
  /\ UNCHANGED <<length, skip, packing, inQueue, rows, dispatch>>

(* _fetch_data_out_queue.  With a bug, an answer is appended as it comes.   *)
AsItComes(found, got) == Append(SelectSeq(found, LAMBDA item: item # Failed), got.answer)

Placed(found, got) == [found EXCEPT ![got.at] = got.answer]

Fetch ==
  /\ phase = "fetch" /\ fetched < num /\ outQueue # << >>
  /\ res' = Placed(res, Head(outQueue))
  /\ outQueue' = Tail(outQueue) /\ fetched' = fetched + 1
  /\ UNCHANGED <<length, skip, pos, phase, num, data, inQueue, busy, rows, dispatch>>

(* The rest of the loop body of __iter__: group what was fetched, yield the *)
(* rows, and stop after an interval that was not full.                      *)
Group ==
  /\ phase = "fetch" /\ fetched = num
  /\ LET finished == num # PackingInterval
         grouped == MatchedGroup(data \o res, finished)
     IN /\ rows' = grouped.rows /\ data' = grouped.rest
        /\ phase' = IF finished THEN "over" ELSE "put"
  /\ num' = 0 /\ fetched' = 0 /\ res' = << >>
  /\ UNCHANGED <<length, skip, pos, queues, dispatch>>

-----------------------------------------------------------------------------
(* _skip_batches, on rank 0 only.                                           *)
ToSkip == skip * Ranks

SkipRow ==
  /\ skipped < ToSkip /\ rows # << >>
  /\ rows' = Tail(rows) /\ skipped' = skipped + 1
  /\ UNCHANGED <<length, skip, packing, queues, taken, wire, batches, left>>

(* Rank 0 comes back for more when all ranks have trained on what they got. *)
Asks == skipped = ToSkip /\ left = {} /\ \A r \in 1..Ranks : wire[r] = << >>

TakeRow ==
  /\ Asks /\ Len(taken) < Ranks /\ rows # << >>
  /\ taken' = Append(taken, Head(rows)) /\ rows' = Tail(rows)
  /\ UNCHANGED <<length, skip, packing, queues, skipped, wire, batches, left>>

(* On StopIteration all ranks get None.  With a bug, what is left goes out. *)
GivesRest(list) == [r \in 1..Ranks |-> IF r \in DOMAIN list THEN list[r] ELSE Nothing]

Share(list) == [r \in 1..Ranks |-> IF Len(list) = Ranks THEN list[r] ELSE Nothing]

(* scatter_object_list, when rank 0 has a row for every rank or no more.    *)
Scatter ==
  /\ Asks
  /\ \/ Len(taken) = Ranks
     \/ phase = "over" /\ rows = << >>
  /\ wire' = [r \in 1..Ranks |-> <<Share(taken)[r]>>] /\ taken' = << >>
  /\ UNCHANGED <<length, skip, packing, queues, rows, skipped, batches, left>>

(* The end of the iterator's turn on a rank: a batch, or the end.           *)
Receive(r) ==
  /\ wire[r] # << >>
  /\ wire' = [wire EXCEPT ![r] = Tail(@)]
  /\ IF Head(wire[r]) = Nothing
     THEN left' = left \cup {r} /\ UNCHANGED batches
     ELSE batches' = [batches EXCEPT ![r] = Append(@, Head(wire[r]))] /\ UNCHANGED left
  /\ UNCHANGED <<length, skip, packing, queues, rows, skipped, taken>>

EpochOver == left = 1..Ranks /\ UNCHANGED vars

Dataset == Put \/ PutEnds \/ Fetch \/ Group
Rank0 == SkipRow \/ TakeRow \/ Scatter
Worker(w) == Get(w) \/ Encode(w)

Next ==
  \/ Dataset \/ Rank0 \/ EpochOver
  \/ \E w \in Workers : Worker(w)
  \/ \E r \in 1..Ranks : Receive(r)

Spec ==
  /\ Init /\ [][Next]_vars
  /\ WF_vars(Dataset) /\ WF_vars(Rank0)
  /\ \A w \in Workers : WF_vars(Worker(w))
  /\ \A r \in 1..Ranks : WF_vars(Receive(r))

-----------------------------------------------------------------------------
(* Grouping loses nothing: every sample that can be encoded is in one row,  *)
(* once, and a row longer than packing_length holds a single sample, over   *)
(* all the intervals of calculate_matched_group and its held back rows.     *)
PackedOnce ==
  LET flat == FlattenSeq(ExpectedRows)
      encodable == {s \in Samples : length[s] > 0}
  IN /\ Len(flat) = Cardinality(encodable)
     /\ {item.of : item \in ToSet(flat)} = encodable
     /\ \A i \in DOMAIN ExpectedRows :
          RowLength(ExpectedRows[i]) <= PackingLength \/ Len(ExpectedRows[i]) = 1

(* The k-th batch of a rank is the same whatever order the workers answered *)
(* in, and whether the run started afresh or skipped what it had trained    *)
(* on: ranks never share a row and a resumed run repeats and misses none.   *)
SameBatches ==
  \A r \in 1..Ranks : \A k \in DOMAIN batches[r] :
    LET place == (skip + k - 1) * Ranks + r
    IN place <= Len(ExpectedRows) /\ batches[r][k] = ExpectedRows[place]

(* Every rank leaves its loop, after the same number of batches, the most   *)
(* the data has for all of them.                                            *)
EpochEnds ==
  <>[](/\ left = 1..Ranks
       /\ \A r \in 1..Ranks : Len(batches[r]) = (Len(ExpectedRows) \div Ranks) - skip)

=============================================================================
