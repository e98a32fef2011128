------------------------------ MODULE MultiTurn ------------------------------
(***************************************************************************)
(* Multi-turn rollouts, from the prompts of each rank to the tokens it     *)
(* trains on.  In mode "colocate" all ranks run the turns in lock-step     *)
(* (_colocate_multi_turn_infer), with one engine for the requests of all   *)
(* of them; in mode "server" each request is a coroutine of the rollout    *)
(* server (MultiTurnScheduler.run).  Both add up a conversation's tokens,  *)
(* loss masks and log probabilities turn by turn, around a step of the     *)
(* scheduler that may truncate, extend or answer what was generated; the   *)
(* trainer then puts the tokens in the places of the assistant messages.   *)
(***************************************************************************)
EXTENDS Integers, SequencesExt

CONSTANTS
  Ranks,       \* ranks of a tensor parallel group (colocate), or of the trainer
  Local,       \* samples of each rank
  MaxTurns,    \* max_turns
  TurnTokens,  \* how many tokens a turn of each request may have
  Args         \* mode, scheduler, and whether log probabilities are returned

Member == 1..Ranks
Request == Member \X (1..Local)

(* What the schedulers' step makes of a turn: MathTips truncates it and     *)
(* appends its tip, ToolCall appends the tool's result, ThinkingModelTips   *)
(* answers as the user.  The others are of users, as step allows them:      *)
(* they answer as the user and return the turn's tokens, with a mask or     *)
(* without.                                                                 *)
Schedulers == {"tips", "tool", "thinking", "turns", "unmasked"}

ASSUME MultiTurnConstants ==
  /\ {Ranks, Local, MaxTurns} \subseteq Nat \ {0} /\ TurnTokens \in [Request -> SUBSET Nat]
  /\ Args \subseteq [mode : {"colocate", "server"}, scheduler : Schedulers, logprobs : BOOLEAN]

VARIABLES
  args,
  at,       \* where each rank is
  pending,  \* index_to_infer of each rank
  outputs,  \* what the engine returned for them
  conv,     \* what was added up for each request
  results,  \* the rollout outputs of each rank
  batch     \* what each rank trains on

turnsVars == <<args, at, pending, outputs, conv, results, batch>>

Own(r) == [i \in 1..Local |-> <<r, i>>]

(* A token is named by its request, its turn and its number in the turn, 0  *)
(* for text of the scheduler.  A response of turn t:                        *)
Sampled(q, t, n) == [k \in 1..n |-> <<q, t, k>>]
Text(q, t) == <<q, t, 0>>
Ones(s) == [k \in DOMAIN s |-> 1]
Message(role, content) == [role |-> role, content |-> content]

Fresh == [turn |-> 1, messages |-> <<Message("user", << >>)>>,
          ids |-> << >>, mask |-> << >>, logps |-> << >>, last |-> << >>, over |-> FALSE]

TurnsInit ==
  /\ args \in Args
  /\ at = [r \in Member |-> "rollout"]
  /\ pending = [r \in Member |-> Own(r)]
  /\ outputs = [r \in Member |-> << >>]
  /\ conv = [q \in Request |-> Fresh]
  /\ results = [r \in Member |-> << >>]
  /\ batch = [r \in Member |-> << >>]

-----------------------------------------------------------------------------
(* The elements of a sequence that are marked, in their order.              *)
Kept(s, marks) == FlattenSeq([k \in DOMAIN s |-> IF marks[k] THEN <<s[k]>> ELSE << >>])

ExtendLast(s, x) == [s EXCEPT ![Len(s)] = @ \o x]

(* The conversation with the response; the message without content that was *)
(* added for a continuation makes place for it.                             *)
Heard(messages, response) ==
  LET m == IF Last(messages).role = "dummy" THEN Front(messages) ELSE messages
  IN  IF Last(m).role = "assistant"
        THEN [m EXCEPT ![Len(m)].content = @ \o response]
        ELSE Append(m, Message("assistant", response))

Continues(messages) == Last(messages).role = "dummy"

(* With a bug: the tokens of the last turn go where run puts them in mode   *)
(* "server".                                                                *)
PlaceOfServer(c) ==
  IF c.ids = << >> THEN "first" ELSE IF Continues(c.messages) THEN "last" ELSE "nowhere"

(* Where they go.                                                           *)
LastPlace(c) ==
  IF c.ids = << >> THEN "first"
  ELSE IF Continues(c.messages) THEN "last"
  ELSE IF args.mode = "colocate" THEN "next" ELSE "nowhere"

PutTurn(place, s, x) ==
  IF x = << >> \/ place = "nowhere" THEN s
  ELSE CASE place = "first" -> <<x>>
         [] place = "last" -> IF s = << >> THEN s ELSE ExtendLast(s, x)
         [] place = "next" -> Append(s, x)

(* Log probabilities that are not one for each token trained on are dropped.*)
Complete(c) ==
  LET trained == IF c.mask # << >> THEN SelectSeq(FlattenSeq(c.mask), LAMBDA w : w = 1)
                                   ELSE FlattenSeq(c.ids)
  IN  Len(FlattenSeq(c.logps)) = Len(trained)

Finished(c, response) ==
  LET logps == IF args.logprobs THEN response ELSE << >>
      d == [c EXCEPT !.messages = Heard(@, response),
                     !.ids = PutTurn(LastPlace(c), @, response),
                     !.mask = PutTurn(LastPlace(c), @, Ones(response)),
                     !.logps = PutTurn(LastPlace(c), @, logps),
                     !.last = logps, !.over = TRUE]
  IN  [d EXCEPT !.logps = IF Complete(d) THEN @ ELSE << >>]

(* Whether there may be another turn: a tip is given once.                  *)
MayGoOn(c) == c.turn < MaxTurns /\ (args.scheduler \in {"tips", "thinking"} => c.turn = 1)

(* With a bug: the tip's place in the mask is before the tokens.            *)
TipsMaskReversed(kept) == <<0>> \o Ones(kept)

TipsMask(kept) == Append(Ones(kept), 0)

(* The scheduler's step on a turn, of which MathTips keeps the first tokens.*)
(* The tokens and the mask it returns are one turn's, or missing.           *)
Stepped(c, response, kept, text) ==
  LET said == Heard(c.messages, response)
      Says(content) == [said EXCEPT ![Len(said)].content = content]
      Answered == Append(said, Message("user", << >>))
      Returns(messages, ids, mask, logps) ==
        [messages |-> messages, ids |-> ids, mask |-> mask, logps |-> logps]
      Tip == Returns(Says(Append(kept, text)), <<Append(kept, text)>>, <<TipsMask(kept)>>, kept)
  IN  CASE args.scheduler = "tips" -> IF kept # << >> THEN Tip ELSE [Tip EXCEPT !.ids = << >>, !.mask = << >>]
        [] args.scheduler = "tool" ->
             Returns(Says(Append(Last(said).content, text)), <<Append(response, text)>>,
                     <<Append(Ones(response), 0)>>, response)
        [] args.scheduler = "thinking" -> Returns(Answered, << >>, << >>, response)
        [] args.scheduler = "turns" -> Returns(Answered, <<response>>, <<Ones(response)>>, response)
        [] args.scheduler = "unmasked" -> Returns(Answered, <<response>>, << >>, response)

(* What step returned is added up, and the next turn prepared: what the     *)
(* assistant said last is to be continued.                                  *)
Added(c, s, x) ==
  IF x # << >> /\ Continues(c.messages) /\ s # << >> THEN ExtendLast(s, x[1]) ELSE s \o x

Prepared(messages) ==
  IF Last(messages).role = "assistant" THEN Append(messages, Message("dummy", << >>)) ELSE messages

NextTurn(c, step) ==
  LET logps == IF args.logprobs /\ step.logps # << >> THEN <<step.logps>> ELSE << >>
  IN  [c EXCEPT !.messages = Prepared(step.messages), !.ids = Added(c, @, step.ids),
                !.mask = Added(c, @, step.mask), !.logps = Added(c, @, logps), !.turn = @ + 1]

(* The conversation c of request q after a turn.                            *)
AfterTurn(q, response) ==
  {Finished(conv[q], response)} \cup
    (IF MayGoOn(conv[q])
       THEN {NextTurn(conv[q], Stepped(conv[q], response, SubSeq(response, 1, k), Text(q, conv[q].turn))) :
               k \in IF args.scheduler = "tips" /\ response # << >> THEN DOMAIN response ELSE {Len(response)}}
       ELSE {})
-----------------------------------------------------------------------------
(* The ranks' lists one after the other, and the part of one rank in it.    *)
AllOf(lists) == FlattenSeq([r \in Member |-> lists[r]])

Part(all, lists, r) ==
  LET start == Len(FlattenSeq([q \in 1..(r - 1) |-> lists[q]]))
  IN  SubSeq(all, start + 1, start + Len(lists[r]))

(* _colocate_rollout: the requests of all ranks, also of those without any. *)
RolloutRound ==
  /\ args.mode = "colocate" /\ \A r \in Member : at[r] = "rollout"
  /\ \E n \in [Request -> UNION {TurnTokens[q] : q \in Request}] :
       LET all == AllOf(pending)
           answers == [k \in DOMAIN all |-> Sampled(all[k], conv[all[k]].turn, n[all[k]])]
       IN  /\ \A q \in Request : n[q] \in TurnTokens[q]
           /\ outputs' = [r \in Member |-> Part(answers, pending, r)]
  /\ at' = [r \in Member |-> "gather"]
  /\ UNCHANGED <<args, pending, conv, results, batch>>

(* With a bug: a rank leaves when its own requests are finished.            *)
OwnPending(r) == pending[r] # << >>

(* has_global_data                                                          *)
AnyPending(r) == \E q \in Member : pending[q] # << >>

Gather ==
  /\ \A r \in Member : at[r] = "gather"
  /\ at' = [r \in Member |-> IF AnyPending(r) THEN "process" ELSE "encode"]
  /\ results' = [r \in Member |-> IF AnyPending(r) THEN results[r]
                                ELSE [i \in 1..Local |-> conv[<<r, i>>]]]
  /\ UNCHANGED <<args, pending, outputs, conv, batch>>

(* The rest of the loop's body: each conversation in turn hears its output  *)
(* and is over or goes on; then those that go on are the next round.        *)
Process(r) ==
  /\ at[r] = "process" /\ outputs[r] # << >>
  /\ LET q == pending[r][Len(pending[r]) - Len(outputs[r]) + 1]
     IN  \E c \in AfterTurn(q, Head(outputs[r])) : conv' = [conv EXCEPT ![q] = c]
  /\ outputs' = [outputs EXCEPT ![r] = Tail(@)]
  /\ UNCHANGED <<args, at, pending, results, batch>>

EndTurn(r) ==
  /\ at[r] = "process" /\ outputs[r] = << >>
  /\ pending' = [pending EXCEPT ![r] = Kept(@, [k \in DOMAIN pending[r] |-> ~conv[pending[r][k]].over])]
  /\ at' = [at EXCEPT ![r] = "rollout"]
  /\ UNCHANGED <<args, outputs, conv, results, batch>>

-----------------------------------------------------------------------------
(* _server_rollout: the main rank sends the requests of all ranks; run goes *)
(* on with each of them whenever the engine has answered it; every rank     *)
(* gets its part of the outputs.                                            *)
Send ==
  /\ args.mode = "server" /\ \A r \in Member : at[r] = "rollout"
  /\ at' = [r \in Member |-> "wait"]
  /\ UNCHANGED <<args, pending, outputs, conv, results, batch>>

Run(q) ==
  /\ \A r \in Member : at[r] = "wait"
  /\ ~conv[q].over
  /\ \E n \in TurnTokens[q] : \E c \in AfterTurn(q, Sampled(q, conv[q].turn, n)) :
       conv' = [conv EXCEPT ![q] = c]
  /\ UNCHANGED <<args, at, pending, outputs, results, batch>>

Answer ==
  /\ \A r \in Member : at[r] = "wait"
  /\ \A q \in Request : conv[q].over
  /\ LET all == AllOf(pending)
         answers == [k \in DOMAIN all |-> conv[all[k]]]
     IN  results' = [r \in Member |-> Part(answers, pending, r)]
  /\ at' = [r \in Member |-> "encode"]
  /\ UNCHANGED <<args, pending, outputs, conv, batch>>

-----------------------------------------------------------------------------
(* replace_assistant_response_with_ids refuses tokens and masks of          *)
(* different shapes.                                                        *)
Refused(c) ==
  c.mask # << >> /\ [t \in DOMAIN c.mask |-> Len(c.mask[t])] # [t \in DOMAIN c.ids |-> Len(c.ids[t])]

(* It replaces the assistant messages, from the last one on, as long as     *)
(* there are tokens; the others are encoded from their text.                *)
Said(messages) == Kept(messages, [k \in DOMAIN messages |-> messages[k].role = "assistant"])

Replaced(c) ==
  LET said == Said(c.messages)
      ahead == Len(said) - Len(c.ids)
  IN  [t \in DOMAIN said |->
         LET text == said[t].content
             ids == IF t > ahead THEN c.ids[t - ahead] ELSE text
         IN  [text |-> text, ids |-> ids,
              mask |-> IF t > ahead /\ c.mask # << >> THEN c.mask[t - ahead] ELSE Ones(ids)]]

Sample(c) ==
  [refused |-> Refused(c), turns |-> IF Refused(c) THEN << >> ELSE Replaced(c),
   logps |-> IF c.logps # << >> THEN FlattenSeq(c.logps) ELSE c.last]

Encode(r) ==
  /\ at[r] = "encode"
  /\ batch' = [batch EXCEPT ![r] = [i \in 1..Local |-> Sample(results[r][i])]]
  /\ at' = [at EXCEPT ![r] = "done"]
  /\ UNCHANGED <<args, pending, outputs, conv, results>>

(* The tokens of a sample that completion_mask selects; the log             *)
(* probabilities are put on them if there are as many.                      *)
Chosen(ids, mask) == Kept(ids, [k \in DOMAIN ids |-> mask[k] = 1])

Trained(s) == FlattenSeq([t \in DOMAIN s.turns |-> Chosen(s.turns[t].ids, s.turns[t].mask)])

Scattered(s) == IF Len(s.logps) = Len(Trained(s)) THEN s.logps ELSE << >>

TurnsOver == (\A r \in Member : at[r] = "done") /\ UNCHANGED turnsVars

TurnsNext ==
  \/ RolloutRound \/ Gather \/ Send \/ Answer
  \/ \E r \in Member : Process(r) \/ EndTurn(r) \/ Encode(r)
  \/ \E q \in Request : Run(q)
  \/ TurnsOver

(* Ranks and coroutines go on; max_turns bounds the turns.                  *)
TurnsFairness ==
  /\ WF_turnsVars(RolloutRound) /\ WF_turnsVars(Gather) /\ WF_turnsVars(Send) /\ WF_turnsVars(Answer)
  /\ \A r \in Member : WF_turnsVars(Process(r)) /\ WF_turnsVars(EndTurn(r)) /\ WF_turnsVars(Encode(r))
  /\ \A q \in Request : WF_turnsVars(Run(q))

TurnsSpec == TurnsInit /\ [][TurnsNext]_turnsVars /\ TurnsFairness

-----------------------------------------------------------------------------
TurnsTypeOK ==
  /\ at \in [Member -> {"rollout", "gather", "process", "wait", "encode", "done"}]
  /\ \A q \in Request : /\ conv[q].turn \in 1..MaxTurns
                        /\ Last(conv[q].messages).role \in {"user", "assistant", "dummy"}
  /\ \A r \in Member : Len(outputs[r]) <= Len(pending[r])
  /\ \A r \in Member : at[r] \in {"encode", "done"} => \A i \in 1..Local : conv[<<r, i>>].over

Samples(r) == IF at[r] = "done" THEN 1..Local ELSE {}

(* What a rank trains on in the place of an assistant message is that       *)
(* message of its own conversation, token for token, and the loss is on     *)
(* what the model generated and not on what the scheduler added, whatever   *)
(* turns the others took (_colocate_multi_turn_infer, MultiTurnScheduler.   *)
(* run, replace_assistant_response_with_ids).                               *)
TurnsInPlace ==
  \A r \in Member : \A i \in Samples(r) :
    /\ ~batch[r][i].refused
    /\ \A t \in DOMAIN batch[r][i].turns :
         LET m == batch[r][i].turns[t]
         IN  /\ m.ids = m.text
             /\ \A k \in DOMAIN m.ids : m.ids[k][1] = <<r, i>> /\ (m.mask[k] = 1 <=> m.ids[k][3] # 0)

(* A rollout log probability that is used to correct the loss stands on the *)
(* very token it was computed for (_prepare_batch_inputs).                  *)
LogprobsFit ==
  \A r \in Member : \A i \in Samples(r) :
    Scattered(batch[r][i]) \in {<< >>, Trained(batch[r][i])}

(* Every rank gets all its conversations, however many turns those of the   *)
(* other ranks take (the gather_object in each round).                      *)
RolloutEnds == <>(\A r \in Member : at[r] = "done")
=============================================================================
