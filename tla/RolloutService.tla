--------------------------- MODULE RolloutService ---------------------------
(***************************************************************************)
(* What the asynchronous pipeline promises the trainer about its rollouts: *)
(* they are answered in the order they were asked, each one by the weights *)
(* of a single optimizer step, delivered in order within their kind, and   *)
(* the weights only change, to newer ones, when no rollout is open.        *)
(***************************************************************************)
EXTENDS Integers, Sequences

CONSTANTS Kind,    \* the kinds of rollouts: each kind is delivered on its own
          Limit    \* rollouts open at a time

VARIABLES weights,   \* optimizer step of the weights that answer
          loading,   \* new weights are on their way
          open,      \* kinds of the rollouts asked and not answered, in order
          ready      \* for each kind, the weights that generated the answers not yet delivered

Init ==
  /\ weights = -1
  /\ loading = FALSE
  /\ open = << >>
  /\ ready = [k \in Kind |-> << >>]

Ask(k) ==
  /\ ~loading /\ Len(open) < Limit
  /\ open' = Append(open, k)
  /\ UNCHANGED <<weights, loading, ready>>

Answer ==
  /\ ~loading /\ open # << >>
  /\ ready' = [ready EXCEPT ![Head(open)] = Append(@, weights)]
  /\ open' = Tail(open)
  /\ UNCHANGED <<weights, loading>>

(* A rollout may fail: it is never answered.                               *)
Lose ==
  /\ open # << >>
  /\ open' = Tail(open)
  /\ UNCHANGED <<weights, loading, ready>>

(* The first rollout of a kind is asked and answered at once.              *)
AskFirst(k) ==
  /\ ~loading /\ open = << >> /\ ready[k] = << >>
  /\ ready' = [ready EXCEPT ![k] = <<weights>>]
  /\ UNCHANGED <<weights, loading, open>>

Deliver(k) ==
  /\ ready[k] # << >>
  /\ ready' = [ready EXCEPT ![k] = Tail(@)]
  /\ UNCHANGED <<weights, loading, open>>

LoadBegin ==
  /\ ~loading /\ open = << >>
  /\ loading' = TRUE
  /\ UNCHANGED <<weights, open, ready>>

LoadEnd ==
  /\ loading
  /\ loading' = FALSE
  /\ weights' \in Nat /\ weights' > weights
  /\ UNCHANGED <<open, ready>>

Next ==
  \/ \E k \in Kind : Ask(k) \/ AskFirst(k) \/ Deliver(k)
  \/ Answer \/ Lose \/ LoadBegin \/ LoadEnd

Spec == Init /\ [][Next]_<<weights, loading, open, ready>>
=============================================================================
