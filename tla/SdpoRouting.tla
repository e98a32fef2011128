----------------------------- MODULE SdpoRouting -----------------------------
(***************************************************************************)
(* The self-distillation loss of GRPOTrainer (use_sdpo) on one generation  *)
(* batch.  Each rank routes its completions by IoU and reward, finds in    *)
(* each group the sibling whose box becomes the hint, and masks what is    *)
(* not to be distilled.  For every mini batch the ranks then agree whether *)
(* there is anything to distil, draw the hints into image files of a       *)
(* directory they share, read these for the teacher, and run the teacher,  *)
(* whose forward pass is collective when its weights are partitioned.      *)
(* Several completions per prompt and one per request: routing is off      *)
(* otherwise (num_generations = 1, dynamic_num_samples).                   *)
(***************************************************************************)
EXTENDS GenerationBatch, FiniteSetsExt

CONSTANTS
  TauGood, TauFail,    \* sdpo_tau_good, sdpo_tau_fail, as IoU levels
  DeltaNum, DeltaDen,  \* sdpo_delta
  ScoresOf,            \* the scores the completions of a rank may have
  MaybeUnsized,        \* prompts whose additional_paras may lack the image size
  Args                 \* the argument combinations

Sample == 1..Local

ASSUME SdpoConstants ==
  /\ Group > 1
  /\ DeltaDen \in Nat \ {0} /\ {TauGood, TauFail, DeltaNum} \subseteq Nat
  /\ Args \subseteq [source : {"gt", "sibling", "sibling_gt_fallback"},
                     fallback : {"gt", "skip"}, metric : {"reward", "iou"},
                     scope : {"failed", "failed_ambiguous", "all"},
                     target : {"rollout", "gt"}, ids : BOOLEAN]

VARIABLES
  args,    \* sdpo_hint_source, ..., and whether the samples have a sample_id
  unsized, \* prompts whose image size is missing
  score,   \* iou, valid box and reward of each completion
  route,   \* _sdpo_route
  hint,    \* _sdpo_hint_source_type, and the sibling whose box is the hint
  pc,      \* where each rank is
  mini,    \* the mini batch they train on
  row,     \* the sample each rank draws the hint of, or drew last
  files,   \* what the image files of opsd_mask_dir show
  images,  \* the rows of the teacher's batch: samples and what is shown
  taught   \* what was distilled, and what the teacher was shown for it

data == <<args, unsized, score>>
sdpoVars == <<data, route, hint, pc, mini, row, files, images, taught>>

(* The sampler repeats a prompt Group times in a row over all ranks; a rank *)
(* has Local of these in a row.                                             *)
Prompt(r, i) == ((r - 1) * Local + i - 1) \div Group

Nobody == <<0, 0>>
Shows(kind, p, by) == [kind |-> kind, prompt |-> p, by |-> by]
Truncated == Shows("truncated", -1, Nobody)
Plain(p) == Shows("plain", p, Nobody)

SdpoInit ==
  /\ score \in [Rank -> [Sample -> UNION {ScoresOf[r] : r \in Rank}]]
  /\ \A r \in Rank, i \in Sample :
       score[r][i] \in ScoresOf[r] /\ (score[r][i].valid \/ score[r][i].iou = 0)
  /\ unsized \in SUBSET MaybeUnsized
  /\ \A r \in Rank, i \in Sample : Prompt(r, i) \in unsized => score[r][i].iou = 0
  /\ args \in Args
  /\ route = [r \in Rank |-> [i \in Sample |-> "unknown"]]
  /\ hint = [r \in Rank |-> [i \in Sample |-> [type |-> "gt", by |-> Nobody]]]
  /\ pc = [r \in Rank |-> "route"] /\ mini = 0 /\ row = [r \in Rank |-> 0]
  /\ files = [name \in {} |-> Truncated]
  /\ images = [r \in Rank |-> {}] /\ taught = {}

-----------------------------------------------------------------------------
(* What a rank takes for a group: num_generations of its own samples in a   *)
(* row; the samples that are left over have none.                           *)
GroupOf(i) == {j \in Sample : (j - 1) \div Group = (i - 1) \div Group}
InGroup(i) == Cardinality(GroupOf(i)) = Group

RewardSum(r, g) == MapThenSumSet(LAMBDA j : score[r][j].reward, g)
SquareSum(r, g) == MapThenSumSet(LAMBDA j : score[r][j].reward * score[r][j].reward, g)

(* reward >= group_mean                                                     *)
AtMean(r, i, g) == Group * score[r][i].reward >= RewardSum(r, g)

(* adv < -sdpo_delta, where adv is in standard deviations of the group.     *)
Weak(r, i, g) ==
  LET short == RewardSum(r, g) - Group * score[r][i].reward
      spread == Group * SquareSum(r, g) - RewardSum(r, g) * RewardSum(r, g)
  IN  short > 0 /\ DeltaDen * DeltaDen * short * short > DeltaNum * DeltaNum * spread

Route(r, i) ==
  LET s == score[r][i]
      g == GroupOf(i)
  IN  IF s.valid /\ s.iou >= TauGood /\ AtMean(r, i, g) THEN "good"
      ELSE IF ~s.valid \/ s.iou < TauFail \/ Weak(r, i, g) THEN "failed"
      ELSE "ambiguous"

(* _select_sdpo_sibling_hint: max keeps the first of equals.                *)
Ahead(r, j, k) ==
  LET key(i) == IF args.metric = "iou" THEN <<score[r][i].iou, score[r][i].reward>>
                                       ELSE <<score[r][i].reward, score[r][i].iou>>
  IN  \/ key(j)[1] > key(k)[1]
      \/ key(j)[1] = key(k)[1] /\ key(j)[2] > key(k)[2]
      \/ key(j) = key(k) /\ j <= k

(* With a bug: whether the sibling is good does not matter.                 *)
BestOfAll(r, g) == CHOOSE j \in g : \A k \in g : Ahead(r, j, k)

Best(r, g) ==
  CHOOSE j \in g : Route(r, j) = "good" /\ \A k \in g : Route(r, k) = "good" => Ahead(r, j, k)

(* _attach_sdpo_hint_source, for one sample of a group.                     *)
Hint(r, i) ==
  LET g == GroupOf(i)
      Without(type) == [type |-> type, by |-> Nobody]
  IN  IF args.source = "gt" THEN Without("gt")
      ELSE IF \A j \in g : Route(r, j) # "good"
        THEN Without(IF args.source = "sibling" \/ args.fallback = "skip" THEN "skip" ELSE "gt_fallback")
      ELSE IF Prompt(r, i) \in unsized THEN Without("gt_fallback")
      ELSE [type |-> "sibling", by |-> <<r, Best(r, g)>>]

(* _prepare_sdpo_routing: the ranks share nothing in it.                    *)
Routing ==
  /\ \A r \in Rank : pc[r] = "route"
  /\ route' = [r \in Rank |-> [i \in Sample |-> IF InGroup(i) THEN Route(r, i) ELSE route[r][i]]]
  /\ hint' = [r \in Rank |-> [i \in Sample |-> IF InGroup(i) THEN Hint(r, i) ELSE hint[r][i]]]
  /\ pc' = [r \in Rank |-> "reduce"]
  /\ UNCHANGED <<data, mini, row, files, images, taught>>
-----------------------------------------------------------------------------
(* The samples of the mini batch (split_by_mini_batches).                   *)
Batch == {i \in Sample : (i - 1) \div MiniBatch = mini}

(* _attach_sdpo_batch: sdpo_sequence_mask.                                  *)
Masked(r, i) ==
  /\ hint[r][i].type # "skip"
  /\ CASE args.scope = "failed" -> route[r][i] = "failed"
       [] args.scope = "failed_ambiguous" -> route[r][i] # "good"
       [] args.scope = "all" -> TRUE

(* With a bug: the sum of the rank's own mask decides.                      *)
OwnMask(r) == \E i \in Batch : Masked(r, i)

AnyMasked(r) == \E q \in Rank : OwnMask(q)

(* The all_reduce of the mask's sum; without a masked sample on any rank    *)
(* there is no loss.                                                        *)
AllReduce ==
  /\ \A r \in Rank : pc[r] = "reduce"
  /\ pc' = [r \in Rank |-> IF AnyMasked(r) THEN "open" ELSE "gather"]
  /\ UNCHANGED <<data, route, hint, mini, row, files, images, taught>>

(* The samples the teacher's batch is made of, in order, and those whose    *)
(* tokens have weight. Target gt has the failed ones only; a rank without   *)
(* any makes a batch of no weight, as its teacher has to run too.           *)
Failed(r) == {i \in Batch : route[r][i] = "failed"}
Chosen(r) == IF args.target = "gt" /\ Failed(r) # {} THEN Failed(r) ELSE Batch
Weighted(r) == IF args.target = "gt" THEN Failed(r) ELSE {i \in Batch : Masked(r, i)}

Following(r) ==
  {i \in Chosen(r) : i > row[r] /\ \A j \in Chosen(r) : j > row[r] => i <= j}

(* With a bug: an image file is named after the image only, and all prompts *)
(* may be about one image.                                                  *)
NamedByImage(r, i) == <<hint[r][i].type, <<"sample", 0>>>>

(* sdpo_mask_processor: sample_id, or hash(image_path), which is another in *)
(* every process.                                                           *)
FileName(r, i) ==
  <<hint[r][i].type, IF args.ids THEN <<"sample", Prompt(r, i)>> ELSE <<"hash", r>>>>

Written(name, image) ==
  [n \in DOMAIN files \cup {name} |-> IF n = name THEN image ELSE files[n]]

(* _sdpo_gt_response_text needs the image size.                             *)
Raises(r, i) == args.target = "gt" /\ Failed(r) # {} /\ Prompt(r, i) \in unsized

Raise(r) ==
  /\ pc[r] = "open" /\ \E i \in Following(r) : Raises(r, i)
  /\ pc' = [pc EXCEPT ![r] = "raised"]
  /\ UNCHANGED <<data, route, hint, mini, row, files, images, taught>>

(* The image of a sample is drawn, saved and read by _make_sdpo_teacher_data *)
(* and template.encode; to open a file for writing empties it.              *)
Open(r) ==
  /\ pc[r] = "open"
  /\ \E i \in Following(r) :
       /\ ~Raises(r, i) /\ hint[r][i].type # "skip"
       /\ row' = [row EXCEPT ![r] = i]
       /\ files' = Written(FileName(r, i), Truncated)
  /\ pc' = [pc EXCEPT ![r] = "save"]
  /\ UNCHANGED <<data, route, hint, mini, images, taught>>

Drawn(r, i) ==
  Shows(IF hint[r][i].type = "sibling" THEN "sibling" ELSE "gt", Prompt(r, i), hint[r][i].by)

Save(r) ==
  /\ pc[r] = "save"
  /\ files' = Written(FileName(r, row[r]), Drawn(r, row[r]))
  /\ pc' = [pc EXCEPT ![r] = "encode"]
  /\ UNCHANGED <<data, route, hint, mini, row, images, taught>>

AddRow(r, i, image) ==
  /\ images' = [images EXCEPT ![r] = @ \cup {[sample |-> i, shows |-> image]}]
  /\ pc' = [pc EXCEPT ![r] = IF \E j \in Chosen(r) : j > i THEN "open" ELSE "forward"]
  /\ UNCHANGED <<data, route, hint, mini, files, taught>>

Encode(r) ==
  /\ pc[r] = "encode"
  /\ AddRow(r, row[r], files[FileName(r, row[r])])
  /\ UNCHANGED row

(* Without a hint the teacher sees what the student sees.                   *)
EncodePlain(r) ==
  /\ pc[r] = "open"
  /\ \E i \in Following(r) :
       /\ ~Raises(r, i) /\ hint[r][i].type = "skip"
       /\ row' = [row EXCEPT ![r] = i]
       /\ AddRow(r, i, Plain(Prompt(r, i)))

(* The student's logits are those of the whole mini batch: a mask of fewer  *)
(* rows does not fit them.                                                  *)
Fits(r) == Weighted(r) = {} \/ Chosen(r) = Batch

(* The forward pass of the teacher on all ranks, and the loss of each.      *)
Forward ==
  /\ \A r \in Rank : pc[r] = "forward"
  /\ taught' = taught \cup UNION {
       {[rank |-> r, sample |-> e.sample, shows |-> e.shows] :
          e \in {e \in images[r] : Fits(r) /\ e.sample \in Weighted(r)}} : r \in Rank}
  /\ pc' = [r \in Rank |-> IF Fits(r) THEN "gather" ELSE "raised"]
  /\ UNCHANGED <<data, route, hint, mini, row, files, images>>

(* gather_for_metrics of the losses; then the next mini batch.              *)
Gather ==
  /\ \A r \in Rank : pc[r] = "gather"
  /\ mini' = mini + 1
  /\ row' = [r \in Rank |-> 0] /\ images' = [r \in Rank |-> {}]
  /\ pc' = [r \in Rank |-> IF mini' = MiniBatches THEN "done" ELSE "reduce"]
  /\ UNCHANGED <<data, route, hint, files, taught>>

(* The batch is trained on, or a rank has raised and the job is stopped.    *)
SdpoTerminated ==
  /\ \E r \in Rank : pc[r] \in {"done", "raised"}
  /\ UNCHANGED sdpoVars

SdpoNext ==
  \/ Routing \/ AllReduce \/ Forward \/ Gather
  \/ \E r \in Rank : Raise(r) \/ Open(r) \/ Save(r) \/ Encode(r) \/ EncodePlain(r)
  \/ SdpoTerminated

SdpoSpec == SdpoInit /\ [][SdpoNext]_sdpoVars

-----------------------------------------------------------------------------
SdpoTypeOK ==
  /\ pc \in [Rank -> {"route", "reduce", "open", "save", "encode", "forward",
                      "gather", "done", "raised"}]
  /\ mini \in 0..MiniBatches
  /\ route \in [Rank -> [Sample -> {"unknown", "good", "failed", "ambiguous"}]]
  /\ \A r \in Rank : row[r] \in 0..Local /\ \A e \in images[r] : e.sample \in 1..row[r]

(* The teacher is shown an image of the completion's own prompt, and all of *)
(* it, whichever ranks draw hints at that time (sdpo_mask_processor).       *)
OwnImage ==
  \A t \in taught : t.shows.kind # "truncated" /\ t.shows.prompt = Prompt(t.rank, t.sample)

(* What is distilled has a hint: the true box, unless the hint source is    *)
(* "sibling", or the box of a good completion of the same prompt.  The      *)
(* sibling is better than a completion that is not good, in IoU or reward   *)
(* (_prepare_sdpo_routing, _select_sdpo_sibling_hint, _attach_sdpo_batch).  *)
BetterHint ==
  \A t \in taught :
    \/ t.shows.kind = "gt" /\ args.source # "sibling"
    \/ /\ t.shows.kind = "sibling"
       /\ LET r == t.shows.by[1]
              i == t.shows.by[2]
              own == score[t.rank][t.sample]
          IN  /\ Prompt(r, i) = Prompt(t.rank, t.sample) /\ route[r][i] = "good"
              /\ \/ route[t.rank][t.sample] = "good"
                 \/ score[r][i].iou > own.iou \/ score[r][i].reward > own.reward

Collectives == {"reduce", "forward", "gather"}

(* Ranks that wait for each other wait in the same collective operation: no *)
(* rank leaves out the teacher's forward pass because it has nothing to     *)
(* distil, and none runs it alone (_compute_sdpo_loss).                     *)
SameCollective ==
  \A q, r \in Rank : {pc[q], pc[r]} \subseteq Collectives => pc[q] = pc[r]
=============================================================================
