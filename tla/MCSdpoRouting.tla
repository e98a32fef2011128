---------------------------- MODULE MCSdpoRouting ----------------------------
(* Two ranks with one prompt each.  The scores of the first rank are those  *)
(* routing tells apart; the second has a failed and a good completion.      *)
EXTENDS SdpoRouting, TLC

Scored(iou, valid, reward) == [iou |-> iou, valid |-> valid, reward |-> reward]

MCScoresOf ==
  1 :> {Scored(0, FALSE, 0), Scored(0, FALSE, 3), Scored(0, TRUE, 1), Scored(1, TRUE, 1),
        Scored(2, TRUE, 1), Scored(2, TRUE, 3), Scored(3, TRUE, 2)}
  @@ 2 :> {Scored(0, TRUE, 0), Scored(2, TRUE, 3)}

Arg(source, fallback, metric, scope, target, ids) ==
  [source |-> source, fallback |-> fallback, metric |-> metric,
   scope |-> scope, target |-> target, ids |-> ids]

MCArgs ==
  {Arg("gt", "gt", "reward", "failed", target, ids) : target \in {"rollout", "gt"}, ids \in BOOLEAN}
    \cup {Arg("sibling", "gt", metric, scope, "rollout", TRUE) :
            metric \in {"reward", "iou"}, scope \in {"failed", "failed_ambiguous", "all"}}
    \cup {Arg("sibling_gt_fallback", fallback, "reward", "failed_ambiguous", "rollout", ids) :
            fallback \in {"gt", "skip"}, ids \in BOOLEAN}
=============================================================================
