---------------------------- MODULE MCMultiTurn ----------------------------
(* The schedulers of the repository where they run, and in mode "colocate"  *)
(* also one that returns the tokens of a turn and answers as the user.      *)
EXTENDS MultiTurn

MCTurnTokens == [q \in Request |-> IF q[1] = q[2] THEN {1, 2} ELSE {1}]

Arg(mode, scheduler, logprobs) == [mode |-> mode, scheduler |-> scheduler, logprobs |-> logprobs]

MCArgs ==
  {Arg("colocate", scheduler, TRUE) : scheduler \in {"tips", "tool", "thinking", "turns"}}
    \cup {Arg("server", scheduler, TRUE) : scheduler \in {"tips", "tool"}}
    \cup {Arg(mode, "tool", FALSE) : mode \in {"colocate", "server"}}
=============================================================================
