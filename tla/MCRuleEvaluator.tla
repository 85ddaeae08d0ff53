--------------------------- MODULE MCRuleEvaluator ---------------------------
(* Policies for model checking: every strategy, with and without a reset     *)
(* tree, zero and non-zero holds, cooldowns and clear delays.                 *)
EXTENDS RuleEvaluator

MCPolicies ==
    {p \in [strategy : Strategies, for_duration : {0, 2}, cooldown : {0, 3},
            clear_for_duration : {0, 2}, has_reset : BOOLEAN,
            has_clear : BOOLEAN] :
        /\ ValidPolicy(p)
        /\ p.has_reset => p.strategy \in {"reset_condition", "latch"}
        /\ p.clear_for_duration > 0 => p.has_clear}
=============================================================================
