----------------------------- MODULE GrpoBatches -----------------------------
(***************************************************************************)
(* How GRPOTrainer makes and uses a generation batch.  The ranks draw the  *)
(* prompts of a batch, each prompt num_generations times in a row, replace *)
(* those that cannot be encoded, generate and score, resample the groups   *)
(* whose rewards do not vary (dynamic_sample), compute each completion's   *)
(* advantage in its group, split what they have into mini batches, and     *)
(* train on these until the next generation.  All but the replacement is   *)
(* done by all ranks together.                                             *)
(***************************************************************************)
EXTENDS GenerationBatch, SequencesExt, FiniteSetsExt

CONSTANTS
  Iterations,   \* num_iterations
  MaxResample,  \* max_resample_times
  Generations,  \* bounds the generations
  Modes,        \* subset of {"plain", "dynamic_sample", "multi_turn"}
  MaybeBad      \* the prompts of the dataset that may fail to encode

GenerateEvery == MiniBatches * Iterations

ASSUME BatchConstants ==
  /\ Iterations \in Nat \ {0} /\ {MaxResample, Generations} \subseteq Nat
  /\ Modes \subseteq {"plain", "dynamic_sample", "multi_turn"}

VARIABLES
  mode, bad,   \* the arguments of the run, and the prompts that fail to encode
  phase, step, \* where the ranks are, and _step
  drawn,       \* batches taken from the train and the dynamic_resample dataloader
  singles,     \* batches each rank took from its truncated_resample_iterator
  inputs,      \* the samples of each rank
  rewards,     \* rewards_per_func: of which completion, and its value, for all ranks
  origin,      \* origin_data of _dynamic_sampling
  valid,       \* valid_samples with valid_rewards_per_func
  resampled,   \* resample_count
  buffer,      \* _buffered_inputs of each rank
  trained      \* how often each completion of the buffer was trained on

loop == <<drawn, singles, inputs, rewards, origin, valid, resampled>>
grpoVars == <<mode, bad, phase, step, loop, buffer, trained>>

NoInputs == [r \in Rank |-> << >>]

GrpoInit ==
  /\ mode \in Modes /\ bad \in SUBSET MaybeBad
  /\ phase = "idle" /\ step = 0
  /\ drawn = [train |-> 0, dynamic |-> 0] /\ singles = [r \in Rank |-> 0]
  /\ inputs = NoInputs /\ rewards = << >> /\ origin = [inputs |-> NoInputs, rewards |-> << >>]
  /\ valid = << >> /\ resampled = 0
  /\ buffer = [r \in Rank |-> << >>] /\ trained = << >>

-----------------------------------------------------------------------------
Slice(s, first, length) == SubSeq(s, first + 1, Min({first + length, Len(s)}))

(* The elements of a sequence that are in a set, in their order.            *)
Among(s, S) ==
  LET kept[n \in 0..Len(s)] == IF n = 0 THEN << >>
                               ELSE IF s[n] \in S THEN Append(kept[n - 1], s[n]) ELSE kept[n - 1]
  IN  kept[Len(s)]

AllOf(lists) == FlattenSeq([r \in Rank |-> lists[r]])    \* gather_object

(* With a bug: what does not divide is dropped.                             *)
EqualPart(s, i, n) == Slice(s, (i - 1) * (Len(s) \div n), Len(s) \div n)

(* get_even_process_data, and split_by_mini_batches on one rank: the first  *)
(* parts get one more of what does not divide.                              *)
EvenPart(s, i, n) ==
  LET base == Len(s) \div n
      extra == Len(s) % n
  IN  Slice(s, (i - 1) * base + Min({i - 1, extra}), base + IF i <= extra THEN 1 ELSE 0)

(* The sampler: batch b holds Global \div Group prompts, each repeated.     *)
DataBatch(source, b) ==
  [i \in 1..Global |-> [source |-> source, n |-> b * (Global \div Group) + (i - 1) \div Group]]

(* With a bug: the ranks take samples in turn.                              *)
Strided(batch) == [r \in Rank |-> [i \in 1..Local |-> batch[(i - 1) * Ranks + r]]]

Shard(batch) == [r \in Rank |-> Slice(batch, (r - 1) * Local, Local)]

(* _prepare_inputs: a new generation; the dataloader gives the same batch   *)
(* for the GenerateEvery steps of a generation.                             *)
Draw ==
  /\ phase = "idle" /\ step % GenerateEvery = 0 /\ drawn.train < Generations
  /\ inputs' = Shard(DataBatch("train", drawn.train))
  /\ drawn' = [drawn EXCEPT !.train = @ + 1]
  /\ valid' = << >> /\ resampled' = 0
  /\ phase' = "encode"
  /\ UNCHANGED <<mode, bad, step, singles, rewards, origin, buffer, trained>>

(* The sample at a place of batch b of the truncated_resample_iterator:     *)
(* single_sample_context makes num_generations 1, so the sampler repeats a  *)
(* prompt only num_iterations times in a row.                               *)
Single(r, b, place) ==
  [source |-> "single", n |-> ((b * Ranks + r - 1) * MiniBatch + place) \div Iterations]

(* resample_encode_failed_inputs: a rank keeps what it can encode, in       *)
(* order, and fills up from batches of its own iterator, whose samples are  *)
(* taken to encode. What is left of the last of these batches is dropped.   *)
ReplaceFailed ==
  /\ phase = "encode"
  /\ LET kept == [r \in Rank |-> Among(inputs[r], ToSet(inputs[r]) \ bad)]
         missing == [r \in Rank |-> Local - Len(kept[r])]
         Fill(r, i) == Single(r, singles[r] + (i \div MiniBatch), i % MiniBatch)
     IN  /\ inputs' = [r \in Rank |-> kept[r] \o [i \in 1..missing[r] |-> Fill(r, i - 1)]]
         /\ singles' = [r \in Rank |-> singles[r] + ((missing[r] + MiniBatch - 1) \div MiniBatch)]
  /\ phase' = "generate"
  /\ UNCHANGED <<mode, bad, step, drawn, rewards, origin, valid, resampled, buffer, trained>>

-----------------------------------------------------------------------------
(* A request for each sample; _add_prompt_id_to_inputs numbers the prompts. *)
Requests ==
  LET prompts == AllOf(inputs)
  IN  [i \in 1..Global |->
        [prompt |-> prompts[i], request |-> <<drawn.train, resampled, i>>,
         prompt_id |-> Min({j \in DOMAIN prompts : prompts[j] = prompts[i]}), turn |-> 1]]

(* A multi-turn server returns the turns of some requests one by one.       *)
Turns(k) ==
  LET all == Requests
  IN  [i \in 1..Global + k |->
        IF i <= 2 * k THEN [all[(i + 1) \div 2] EXCEPT !.turn = 2 - (i % 2)] ELSE all[i - k]]

(* Only whether the rewards of a group vary matters to what follows.        *)
Scored(outputs, varied) ==
  [i \in DOMAIN outputs |->
    [of |-> outputs[i], value |-> IF (i - 1) \div Group \in varied /\ i % Group = 0 THEN 1 ELSE 0]]

(* _generate_completions and _score_completions. Without a mismatch each    *)
(* rank gets the outputs of its requests.                                   *)
Generate ==
  /\ phase = "generate"
  /\ \E k \in IF mode = "multi_turn" THEN 0..Global ELSE {0} :
     \E varied \in IF mode = "dynamic_sample" THEN SUBSET (0..Global \div Group - 1) ELSE {{}} :
       LET outputs == Turns(k)
       IN  /\ inputs' = [r \in Rank |-> EvenPart(outputs, r, Ranks)]
           /\ rewards' = Scored(outputs, varied)
           /\ origin' = IF resampled = 0 THEN [inputs |-> inputs', rewards |-> rewards'] ELSE origin
  /\ phase' = IF mode = "dynamic_sample" THEN "measure" ELSE "prepare"
  /\ UNCHANGED <<mode, bad, step, drawn, singles, valid, resampled, buffer, trained>>

(* compute_std, for the group of a position of the gathered rewards.        *)
Varied(list, i) ==
  LET g == (i - 1) \div Group
  IN  \E j, k \in g * Group + 1..(g + 1) * Group : list[j].value # list[k].value

(* With a bug: the rewards of the first batch are measured again.           *)
StaleMeasured == Among([i \in DOMAIN rewards |-> i], {i \in DOMAIN rewards : Varied(origin.rewards, i)})

Measured == Among([i \in DOMAIN rewards |-> i], {i \in DOMAIN rewards : Varied(rewards, i)})

(* A round of _dynamic_sampling: the samples of the groups that vary are    *)
(* kept, with their rewards; the next batch, if they are not enough.        *)
Measure ==
  /\ phase = "measure" /\ resampled < MaxResample
  /\ LET all == AllOf(inputs)
         kept == Measured
     IN  valid' = valid \o [n \in DOMAIN kept |-> [sample |-> all[kept[n]], reward |-> rewards[kept[n]]]]
  /\ IF Len(valid') >= Global
       THEN phase' = "take" /\ UNCHANGED <<drawn, inputs, resampled>>
       ELSE /\ inputs' = Shard(DataBatch("dynamic", drawn.dynamic))
            /\ drawn' = [drawn EXCEPT !.dynamic = @ + 1]
            /\ resampled' = resampled + 1
            /\ phase' = "encode"
  /\ UNCHANGED <<mode, bad, step, singles, rewards, origin, buffer, trained>>

(* With a bug: the rewards are those of the last round.                     *)
LastRewards(i) == rewards[i]

KeptRewards(i) == valid[i].reward

TakeValid ==
  /\ phase = "take"
  /\ inputs' = [r \in Rank |->
       [i \in 1..Local |-> valid[(r - 1) * Local + i].sample]]
  /\ rewards' = [i \in 1..Global |-> KeptRewards(i)]
  /\ phase' = "prepare"
  /\ UNCHANGED <<mode, bad, step, drawn, singles, origin, valid, resampled, buffer, trained>>

(* After the last resampling, which is not measured, the first batch.       *)
GiveUp ==
  /\ phase = "measure" /\ resampled = MaxResample
  /\ inputs' = origin.inputs /\ rewards' = origin.rewards
  /\ phase' = "prepare"
  /\ UNCHANGED <<mode, bad, step, drawn, singles, origin, valid, resampled, buffer, trained>>

-----------------------------------------------------------------------------
MultiTurn == Len(rewards) # Global     \* dynamic_num_samples

(* The completions an advantage is relative to: num_generations in a row,   *)
(* or, when their number is not the requests', those of the prompt.         *)
(* With a bug, always those in a row.                                       *)
ByPosition(all, i) == {j \in DOMAIN all : (j - 1) \div Group = (i - 1) \div Group}

Compared(all, i) ==
  IF MultiTurn THEN {j \in DOMAIN all : all[j].prompt_id = all[i].prompt_id}
               ELSE ByPosition(all, i)

(* The local part of the advantages goes to the local inputs, one by one.   *)
Prepare ==
  /\ phase = "prepare"
  /\ LET all == AllOf(inputs)
         Advantage(i) ==
           LET group == Compared(all, i)
           IN  [of |-> rewards[i].of, prompts |-> {all[j].prompt : j \in group},
                varied |-> Cardinality({rewards[j].value : j \in group}) > 1]
         total == [i \in DOMAIN rewards |-> Advantage(i)]
         Attached(r) ==
           LET own == EvenPart(total, r, Ranks)
           IN  [i \in DOMAIN inputs[r] |-> [sample |-> inputs[r][i], advantage |-> own[i]]]
     IN  buffer' = [r \in Rank |->
           LET own == Attached(r) IN [m \in 1..MiniBatches |-> EvenPart(own, m, MiniBatches)]]
  /\ trained' = [s \in {rewards[i].of : i \in DOMAIN rewards} |-> 0]
  /\ phase' = "train"
  /\ UNCHANGED <<mode, bad, step, loop>>

-----------------------------------------------------------------------------
(* With a bug: the chunks are rounded down.                                 *)
RoundedDown(size, chunks) == size \div chunks

ChunkSize(size, chunks) == (size + chunks - 1) \div chunks

(* _compute_loss: when a rank has more than its mini batch, all ranks make  *)
(* the same number of chunks. How often mini batch m counts a completion.   *)
Counted(m, s) ==
  LET size(r) == Len(buffer[r][m])
      chunked == MultiTurn /\ \E r \in Rank : size(r) > MiniBatch
      chunks == IF chunked THEN Max({(size(r) + MiniBatch - 1) \div MiniBatch : r \in Rank}) ELSE 1
      InChunk(r, c, i) ==
        LET length == IF chunked THEN ChunkSize(size(r), chunks) ELSE size(r)
        IN  i > c * length /\ i <= (c + 1) * length
      Sees(r, c) == {i \in 1..size(r) : InChunk(r, c, i) /\ buffer[r][m][i].sample = s}
  IN  Cardinality({p \in Rank \X (0..chunks - 1) \X (1..Len(rewards)) : p[3] \in Sees(p[1], p[2])})

(* A step on a slice of the buffer; _step is on all ranks the same.         *)
Train ==
  /\ phase = "train"
  /\ trained' = [s \in DOMAIN trained |-> trained[s] + Counted((step % MiniBatches) + 1, s)]
  /\ step' = step + 1
  /\ phase' = IF step' % GenerateEvery = 0 THEN "idle" ELSE "train"
  /\ UNCHANGED <<mode, bad, loop, buffer>>

GrpoTerminated == phase = "idle" /\ drawn.train = Generations /\ step % GenerateEvery = 0 /\ UNCHANGED grpoVars

GrpoNext ==
  \/ Draw \/ ReplaceFailed \/ Generate \/ Measure \/ TakeValid \/ GiveUp \/ Prepare \/ Train
  \/ GrpoTerminated

GrpoSpec == GrpoInit /\ [][GrpoNext]_grpoVars

-----------------------------------------------------------------------------
Entries == UNION {UNION {ToSet(buffer[r][m]) : m \in DOMAIN buffer[r]} : r \in Rank}

(* A generation has what the ranks' loops expect of it: each rank generates *)
(* for Local samples, a round that is taken has enough of them, and no more *)
(* batches are drawn than rounds were made.                                 *)
GrpoTypeOK ==
  /\ phase \in {"idle", "encode", "generate", "measure", "take", "prepare", "train"}
  /\ phase \in {"generate", "measure"} => \A r \in Rank : Len(inputs[r]) = Local
  /\ phase = "take" => Len(valid) >= Global
  /\ resampled <= MaxResample /\ drawn.dynamic <= Generations * MaxResample
  /\ phase = "train" => \A r \in Rank : Len(buffer[r]) = MiniBatches

(* An advantage is attached to the completion its reward was given to,      *)
(* wherever resampling and splitting have moved the two                     *)
(* (_dynamic_sampling, _generate_and_score_completions).                    *)
OwnAdvantage == phase = "train" => \A e \in Entries : e.advantage.of = e.sample

(* A completion is compared with the completions of its own prompt only     *)
(* (_compute_advantages).                                                   *)
OnePromptGroups ==
  phase = "train" => \A e \in Entries : e.advantage.prompts = {e.sample.prompt}

(* ... as long as every prompt can be encoded.                              *)
WholeGroups == bad = {} => OnePromptGroups

(* With dynamic_sample every group that is trained on has rewards that      *)
(* vary, or the rounds measured did not give enough of them and the first   *)
(* batch is used (_dynamic_sampling).                                       *)
VariedGroups ==
  phase = "train" /\ mode = "dynamic_sample" =>
    \/ \A e \in Entries : e.advantage.varied
    \/ Len(valid) < Global /\ \A e \in Entries : e.sample.request[2] = 0

(* When a generation is over, each of its completions has counted           *)
(* num_iterations times, on one rank, however many each rank had            *)
(* (split_by_mini_batches, _compute_loss_chunked, _prepare_inputs).         *)
TrainedAlike ==
  phase = "idle" => \A s \in DOMAIN trained : trained[s] = Iterations
=============================================================================
