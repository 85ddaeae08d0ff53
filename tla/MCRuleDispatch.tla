---------------------------- MODULE MCRuleDispatch ----------------------------
(***************************************************************************)
(* One rule in the worker, for TLC: in a behaviour either a latching alarm   *)
(* that users run and reset, whose worker does not end, or a relay rule with *)
(* a hold and a clear delay under every fault.                               *)
(***************************************************************************)
EXTENDS RuleDispatch

CONSTANTS
    RelayRule,      \* the relay rule's policy
    Rules           \* the rules to look at: a subset of {"latch", "relay"}

VARIABLE rule

RelayPolicy ==
    [strategy |-> "edge", for_duration |-> 1, cooldown |-> 2,
     clear_for_duration |-> 1, has_reset |-> FALSE, has_clear |-> TRUE]

OrderPolicy == [RelayPolicy EXCEPT !.clear_for_duration = 0]

LatchPolicy ==
    [strategy |-> "latch", for_duration |-> 0, cooldown |-> 2,
     clear_for_duration |-> 0, has_reset |-> FALSE, has_clear |-> FALSE]

\* The timer poll alone asks for runs of the relay rule.
Relay == INSTANCE RuleDispatch WITH
    ThePolicy <- RelayRule, Requests <- {}, MaxQueue <- 1, MaxTime <- 4,
    Faults <- {"resolve", "publish", "redis", "reconnect", "crash", "stop"}

mcVars == <<vars, rule>>

MCInit == Init /\ rule \in Rules

OnRelay(A) == rule = "relay" /\ A /\ UNCHANGED rule
MCNext == (rule = "latch" /\ Next /\ UNCHANGED rule) \/ OnRelay(Relay!Next)

\* RuleDispatch's Fairness, for the relay rule.
MCFairness ==
    /\ WF_mcVars(OnRelay(Relay!HandleRequest))
    /\ \A l \in Loops : WF_mcVars(OnRelay(Relay!Dispatch(l)))
    /\ WF_mcVars(OnRelay(Relay!Tick))
    /\ WF_mcVars(OnRelay(Relay!Poll))
    /\ WF_mcVars(OnRelay(Relay!Boot \/ Relay!LoadCache \/ Relay!restore_rule_states))

MCSpec == MCInit /\ [][MCNext]_mcVars /\ MCFairness

-----------------------------------------------------------------------------
\* RuleDispatch's CooldownAcrossLoops, of the rule whose worker does not end:
\* the two loops never fire it twice within its cooldown, whatever users ask.
LatchKeepsCooldown ==
    [][rule = "latch" /\ lastFire' # lastFire /\ lastFire # NoTime =>
         lastFire' - lastFire >= ThePolicy.cooldown]_mcVars

\* RuleDispatch's PendingTimersSettle, of the relay rule: polling alone ends
\* every hold and clear delay.
RelayTimersSettle ==
    \A t \in 0..2 : (rule = "relay" /\ Relay!PendingSince(t)) ~> ~Relay!PendingSince(t)

\* "a relay must not be left on" (evaluators.py): when nothing is being
\* dispatched, the relay is where the rule's latest edge put it.
RelayIsNotLeftOn == rule = "relay" => RelayFollowsEpisode
=============================================================================
