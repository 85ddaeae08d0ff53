------------------------- MODULE RuleEvaluatorProofs -------------------------
(***************************************************************************)
(* Proofs that the evaluator keeps its promises for every policy, lag and  *)
(* length of run: EvaluatorInv is inductive, and the four action properties *)
(* of RuleEvaluator follow from it.                                         *)
(***************************************************************************)
EXTENDS RuleEvaluator, TLAPS

-----------------------------------------------------------------------------
(***************************************************************************)
(* Every kind of step preserves EvaluatorInv and is a good step.           *)
(***************************************************************************)

GoodStep == HoldStep /\ CooldownStep /\ RefireStep /\ ClearStep

\* A call that does not find the condition true keeps the invariant.
LEMMA CallNotTrue ==
    ASSUME EvaluatorInv, trigger = "metric",
           NEW t \in Nat, NEW ts \in Nat, NEW tr \in Kleene, NEW rs \in Kleene,
           Call(t, ts, tr, rs), tr # True
    PROVE  EvaluatorInv' /\ GoodStep
<1> DEFINE r     == Evaluate(policy, tr, rs, ts, st)
           since == IF st.clear_since = NoTime THEN ts ELSE st.clear_since
<1>0. TypeOK /\ policy \in Policy /\ st \in RuleState
  BY DEF EvaluatorInv, TypeOK
<1>1. /\ st' = r.st /\ now' = t /\ Observe(tr, rs, ts, r.edge)
      /\ trigger' = trigger /\ policy' = policy /\ lag' = lag
  BY DEF Call
<1>2. /\ r.st \in RuleState
      /\ r.edge \in {"none", "clear"}
      /\ r.st.condition_since = NoTime
      /\ r.st.armed = (st.armed \/ Rearms(policy, tr, rs))
      /\ r.st.last_fired_at = st.last_fired_at
      /\ r.st.active => st.active
      /\ r.st.clear_since # NoTime => r.st.clear_since = since /\ tr = False
      /\ r.st.active /\ tr = False => r.st.clear_since # NoTime
      /\ r.edge = "clear" => /\ st.active /\ tr = False
                             /\ ts - since >= policy.clear_for_duration
                             /\ ~r.st.active
  BY <1>0, EvaluateNotTrue
<1> HIDE DEF r
<1>3. TypeOK'
  BY <1>0, <1>1, <1>2 DEF TypeOK, Observe, Earliest, Time, NoTime, Edges
<1>4. (st.last_fired_at = lastFire)'
  BY <1>1, <1>2 DEF EvaluatorInv, Observe
<1>5. RearmedForCause'
  BY <1>0, <1>1, <1>2 DEF EvaluatorInv, RearmedForCause, Observe, Rearms, TypeOK, RuleState, Policy
<1>6. TimersWithinRun'
  BY <1>0, <1>1, <1>2 DEF EvaluatorInv, TimersWithinRun, Observe, Earliest, TypeOK, RuleState, Time, NoTime, True, False
<1>7. ActiveIsOpen'
  BY <1>0, <1>1, <1>2 DEF EvaluatorInv, ActiveIsOpen, Observe, TypeOK, RuleState
<1>8. GoodStep
  <2>1. edge' # "fire"
    BY <1>1, <1>2 DEF Observe
  <2>2. ClearStep
    BY <1>0, <1>1, <1>2 DEF ClearStep, EvaluatorInv, ActiveIsOpen, TimersWithinRun, Observe, Earliest, TypeOK, RuleState, Policy, Time, NoTime
  <2>3. QED
    BY <2>1, <2>2 DEF GoodStep, HoldStep, CooldownStep, RefireStep
<1>9. EventHasNoTimers'
  BY <1>1 DEF EventHasNoTimers
<1>10. QED
  BY <1>3, <1>4, <1>5, <1>6, <1>7, <1>8, <1>9 DEF EvaluatorInv

\* A call that finds the condition true keeps the invariant.
LEMMA CallTrue ==
    ASSUME EvaluatorInv, trigger = "metric",
           NEW t \in Nat, NEW ts \in Nat, NEW tr \in Kleene, NEW rs \in Kleene,
           Call(t, ts, tr, rs), tr = True
    PROVE  EvaluatorInv' /\ GoodStep
<1> DEFINE r     == Evaluate(policy, tr, rs, ts, st)
           since == IF st.condition_since = NoTime THEN ts
                    ELSE st.condition_since
<1>0. TypeOK /\ policy \in Policy /\ st \in RuleState
  BY DEF EvaluatorInv, TypeOK
<1>1. /\ st' = r.st /\ now' = t /\ Observe(tr, rs, ts, r.edge)
      /\ trigger' = trigger /\ policy' = policy /\ lag' = lag
  BY DEF Call
<1>2. /\ r.st \in RuleState
      /\ r.edge \in {"none", "fire"}
      /\ r.st.condition_since = since
      /\ r.st.clear_since = NoTime
      /\ r.edge = "none" =>
            /\ r.st.armed = (st.armed \/ Rearms(policy, tr, rs))
            /\ r.st.last_fired_at = st.last_fired_at
            /\ r.st.active = st.active
      /\ r.edge = "fire" =>
            /\ ts - since >= policy.for_duration
            /\ st.armed \/ Rearms(policy, tr, rs)
            /\ CooledDown(policy, ts, st)
            /\ r.st.armed = FALSE
            /\ r.st.last_fired_at = ts
            /\ r.st.active = policy.has_clear
  <2>1. TrueOutcome(policy, tr, rs, ts, st, r)
    BY <1>0, EvaluateTrue
  <2> HIDE DEF r
  <2>2. QED
    BY <2>1 DEF TrueOutcome
<1> HIDE DEF r
<1>3. TypeOK'
  BY <1>0, <1>1, <1>2 DEF TypeOK, Observe, Earliest, Time, NoTime, Edges, Kleene
<1>4. (st.last_fired_at = lastFire)'
  BY <1>1, <1>2 DEF EvaluatorInv, Observe
<1>5. RearmedForCause'
  BY <1>0, <1>1, <1>2 DEF EvaluatorInv, RearmedForCause, Observe, Rearms, TypeOK, RuleState, Policy, True, False
<1>6. TimersWithinRun'
  BY <1>0, <1>1, <1>2 DEF EvaluatorInv, TimersWithinRun, Observe, Earliest, TypeOK, RuleState, Time, NoTime, True, False
<1>7. ActiveIsOpen'
  <2>1. tree' = tr /\ open' = (r.edge = "fire" \/ (open /\ r.edge # "clear"))
    BY <1>1 DEF Observe
  <2>2. st'.active => r.edge = "fire" \/ st.active
    BY <1>1, <1>2
  <2>3. QED
    BY <1>1, <1>2, <2>1, <2>2 DEF EvaluatorInv, ActiveIsOpen, True, False
<1>8. GoodStep
  <2>1. edge' # "clear"
    BY <1>1, <1>2 DEF Observe
  <2>2. HoldStep
    BY <1>0, <1>1, <1>2 DEF HoldStep, EvaluatorInv, TimersWithinRun, Observe, Earliest, TypeOK, RuleState, Policy, Time, NoTime
  <2>3. CooldownStep
    BY <1>0, <1>1, <1>2 DEF CooldownStep, EvaluatorInv, CooledDown, Observe
  <2>4. RefireStep
    BY <1>0, <1>1, <1>2 DEF RefireStep, EvaluatorInv, RearmedForCause, Rearms, Observe, Policy, Strategies, True, False
  <2>5. QED
    BY <2>1, <2>2, <2>3, <2>4 DEF GoodStep, ClearStep
<1>9. EventHasNoTimers'
  BY <1>1 DEF EventHasNoTimers
<1>10. QED
  BY <1>3, <1>4, <1>5, <1>6, <1>7, <1>8, <1>9 DEF EvaluatorInv

\* A schedule tick or connectivity flip keeps the invariant (evaluate_event).
LEMMA EventStep ==
    ASSUME EvaluatorInv, Event
    PROVE  EvaluatorInv' /\ GoodStep
<1>0. TypeOK /\ policy \in Policy /\ st \in RuleState /\ now \in Nat
      /\ trigger = "event"
  BY DEF EvaluatorInv, TypeOK, Event
<1>1. PICK t \in Later, tr \in Kleene :
         /\ st' = EvaluateEvent(policy, tr, t, st).st
         /\ now' = t
         /\ Observe(tr, Unknown, t, EvaluateEvent(policy, tr, t, st).edge)
         /\ trigger' = trigger /\ policy' = policy /\ lag' = lag
  BY DEF Event
<1>2. t \in Nat
  BY <1>0, MaxTimeAssumption DEF Later
<1> DEFINE r == EvaluateEvent(policy, tr, t, st)
<1>3. /\ r.st \in RuleState /\ r.edge \in {"none", "fire"}
      /\ r.st.active = st.active
      /\ r.st.condition_since = st.condition_since
      /\ r.st.clear_since = st.clear_since
      /\ r.edge = "none" => r.st.last_fired_at = st.last_fired_at
      /\ r.edge = "fire" =>
            r.st.last_fired_at = t /\ CooledDown(policy, t, st)
  BY <1>0, <1>2 DEF EvaluateEvent, RuleState, Time
<1>4. st' = r.st /\ Observe(tr, Unknown, t, r.edge)
  BY <1>1
<1> HIDE DEF r
<1>5. TypeOK'
  BY <1>0, <1>1, <1>2, <1>3, <1>4 DEF TypeOK, Observe, Earliest, Time, NoTime, Edges, Kleene
<1>6. (st.last_fired_at = lastFire)'
  BY <1>3, <1>4 DEF EvaluatorInv, Observe
<1>7. RearmedForCause'
  BY <1>0, <1>1 DEF RearmedForCause
<1>8. EventHasNoTimers' /\ TimersWithinRun'
  BY <1>0, <1>3, <1>4 DEF EvaluatorInv, EventHasNoTimers, TimersWithinRun
<1>9. ActiveIsOpen'
  BY <1>0, <1>3, <1>4 DEF EvaluatorInv, ActiveIsOpen
<1>10. GoodStep
  <2>1. CooldownStep
    BY <1>0, <1>3, <1>4 DEF CooldownStep, EvaluatorInv, CooledDown, Observe
  <2>2. edge' # "clear"
    BY <1>3, <1>4 DEF Observe
  <2>3. QED
    BY <1>0, <2>1, <2>2 DEF GoodStep, HoldStep, RefireStep, ClearStep
<1>11. QED
  BY <1>5, <1>6, <1>7, <1>8, <1>9, <1>10 DEF EvaluatorInv

\* A manual reset keeps the invariant (reset_latch).
LEMMA ResetStep ==
    ASSUME EvaluatorInv, Reset
    PROVE  EvaluatorInv' /\ GoodStep
<1>1. /\ st' \in RuleState /\ st'.condition_since = NoTime
      /\ st'.last_fired_at = st.last_fired_at /\ st'.active = st.active
      /\ st'.clear_since = st.clear_since
  BY DEF Reset, ResetLatch, EvaluatorInv, TypeOK, RuleState, Time
<1>2. TypeOK'
  BY <1>1 DEF EvaluatorInv, TypeOK, Reset, Edges
<1>3. RearmedForCause'
  BY DEF Reset, RearmedForCause
<1>4. TimersWithinRun' /\ ActiveIsOpen' /\ EventHasNoTimers'
  BY <1>1 DEF Reset, EvaluatorInv, TimersWithinRun, ActiveIsOpen, EventHasNoTimers
<1>5. GoodStep
  BY DEF Reset, GoodStep, HoldStep, CooldownStep, RefireStep, ClearStep
<1>6. QED
  BY <1>1, <1>2, <1>3, <1>4, <1>5 DEF EvaluatorInv, Reset

\* An edit of the condition keeps the invariant (align_state_to_condition).
LEMMA EditConditionStep ==
    ASSUME EvaluatorInv, EditCondition
    PROVE  EvaluatorInv' /\ GoodStep
<1>1. /\ st' \in RuleState /\ st'.condition_since = NoTime
      /\ st'.last_fired_at = st.last_fired_at /\ st'.active = st.active
      /\ st'.clear_since = NoTime /\ st'.armed = st.armed
  BY DEF EditCondition, Realigned, EvaluatorInv, TypeOK, RuleState, Time
<1>2. TypeOK'
  BY <1>1 DEF EvaluatorInv, TypeOK, EditCondition, Edges, Kleene, Time
<1>3. RearmedForCause'
  BY <1>1 DEF EvaluatorInv, EditCondition, RearmedForCause
<1>4. TimersWithinRun' /\ ActiveIsOpen' /\ EventHasNoTimers'
  BY <1>1 DEF EditCondition, EvaluatorInv, TimersWithinRun, ActiveIsOpen, EventHasNoTimers, Unknown, False
<1>5. GoodStep
  BY DEF EditCondition, GoodStep, HoldStep, CooldownStep, RefireStep, ClearStep
<1>6. QED
  BY <1>1, <1>2, <1>3, <1>4, <1>5 DEF EvaluatorInv, EditCondition

\* Adding or removing clear actions keeps the invariant.
LEMMA EditClearActionsStep ==
    ASSUME EvaluatorInv, EditClearActions
    PROVE  EvaluatorInv' /\ GoodStep
<1>1. /\ policy' \in Policy /\ policy'.strategy = policy.strategy
      /\ policy'.has_reset = policy.has_reset
  BY DEF EditClearActions, EvaluatorInv, TypeOK, Policy
<1>2. TypeOK'
  BY <1>1 DEF EvaluatorInv, TypeOK, EditClearActions, Edges
<1>3. RearmedForCause'
  BY <1>1 DEF EvaluatorInv, EditClearActions, RearmedForCause
<1>4. TimersWithinRun' /\ ActiveIsOpen' /\ EventHasNoTimers'
  BY DEF EditClearActions, EvaluatorInv, TimersWithinRun, ActiveIsOpen, EventHasNoTimers
<1>5. GoodStep
  BY DEF EditClearActions, GoodStep, HoldStep, CooldownStep, RefireStep, ClearStep
<1>6. QED
  BY <1>2, <1>3, <1>4, <1>5 DEF EvaluatorInv, EditClearActions

-----------------------------------------------------------------------------
\* A fresh RuleState summarises an empty past.
LEMMA InitEstablishes == Init => EvaluatorInv
<1> SUFFICES ASSUME Init PROVE EvaluatorInv
  OBVIOUS
<1>1. /\ NewRuleState \in RuleState
      /\ NewRuleState.condition_since = NoTime
      /\ NewRuleState.clear_since = NoTime
      /\ NewRuleState.last_fired_at = NoTime
      /\ NewRuleState.active = FALSE
  BY DEF NewRuleState, RuleState, Time, NoTime
<1>2. TypeOK
  BY <1>1, PoliciesAssumption DEF Init, TypeOK, Time, Kleene, Edges
<1>3. QED
  BY <1>1, <1>2 DEF Init, EvaluatorInv, RearmedForCause, TimersWithinRun,
                    ActiveIsOpen, EventHasNoTimers

\* One step of the specification keeps the invariant and is a good step.
LEMMA NextPreserves ==
    ASSUME EvaluatorInv, Next
    PROVE  EvaluatorInv' /\ GoodStep
<1>0. /\ now \in Nat /\ tree \in Kleene /\ lag \in Nat
      /\ ResetResults \subseteq Kleene
      /\ \A t \in Later : t \in Nat
  BY MaxTimeAssumption, MaxLagAssumption DEF EvaluatorInv, TypeOK, ResetResults, Later, Kleene
<1>1. ASSUME NEW t \in Later, NEW tr \in Kleene, NEW rs \in ResetResults,
             NEW ts \in Nat, Call(t, ts, tr, rs), trigger = "metric"
      PROVE  EvaluatorInv' /\ GoodStep
  <2>1. CASE tr = True
    BY <1>0, <1>1, <2>1, CallTrue
  <2>2. CASE tr # True
    BY <1>0, <1>1, <2>2, CallNotTrue
  <2>3. QED
    BY <2>1, <2>2
<1>2. CASE Reading
  <2>1. PICK t \in Later, tr \in Kleene, rs \in ResetResults :
           \E ts \in {u \in (t - lag)..t : u >= 0} : Call(t, ts, tr, rs)
    BY <1>2 DEF Reading
  <2>2. PICK ts \in {u \in (t - lag)..t : u >= 0} : Call(t, ts, tr, rs)
    BY <2>1
  <2>3. ts \in Nat
    BY <1>0
  <2>4. QED
    BY <1>1, <1>2, <2>2, <2>3 DEF Reading
<1>3. CASE PendingTimer
  <2>1. PICK t \in Later, tr \in {tree, Unknown}, rs \in ResetResults :
           Call(t, t, tr, rs)
    BY <1>3 DEF PendingTimer
  <2>2. tr \in Kleene /\ t \in Nat
    BY <1>0 DEF Kleene
  <2>3. QED
    BY <1>1, <1>3, <2>1, <2>2 DEF PendingTimer
<1>4. QED
  BY <1>2, <1>3, EventStep, ResetStep, EditConditionStep, EditClearActionsStep
  DEF Next

\* A step that changes nothing is a good step too: edge can only say "fire" or
\* "clear" again in a stuttering step, which [A]_vars allows.
LEMMA StutterPreserves ==
    ASSUME EvaluatorInv, UNCHANGED vars
    PROVE  EvaluatorInv'
  BY DEF vars, code, ghost, EvaluatorInv, TypeOK, RearmedForCause,
     TimersWithinRun, ActiveIsOpen, EventHasNoTimers

-----------------------------------------------------------------------------
(***************************************************************************)
(* Theorems                                                                *)
(***************************************************************************)

\* RuleState is a faithful summary of the calls made on it, for every policy,
\* lag and number of calls.
THEOREM EvaluatorInvariant == Spec => []EvaluatorInv
<1>1. EvaluatorInv /\ [Next]_vars => EvaluatorInv'
  BY NextPreserves, StutterPreserves
<1>2. QED
  BY <1>1, InitEstablishes, PTL DEF Spec

\* Every step is a good step: what the four theorems below have in common.
LEMMA AlwaysGoodSteps == Spec => [][GoodStep]_vars
<1>1. EvaluatorInv /\ [Next]_vars => [GoodStep]_vars
  BY NextPreserves
<1>2. QED
  BY <1>1, EvaluatorInvariant, PTL DEF Spec

\* No metric rule ever fires before its condition has held for for_duration.
THEOREM HoldTheorem == Spec => HoldBeforeFire
<1>1. [GoodStep]_vars => [HoldStep]_vars
  BY DEF GoodStep
<1>2. QED
  BY <1>1, AlwaysGoodSteps, PTL DEF HoldBeforeFire

\* No rule ever fires twice within its cooldown.
THEOREM CooldownTheorem == Spec => CooldownBetweenFires
<1>1. [GoodStep]_vars => [CooldownStep]_vars
  BY DEF GoodStep
<1>2. QED
  BY <1>1, AlwaysGoodSteps, PTL DEF CooldownBetweenFires

\* No metric rule refires without what its strategy re-arms on.
THEOREM RefireTheorem == Spec => RefireNeedsRearm
<1>1. [GoodStep]_vars => [RefireStep]_vars
  BY DEF GoodStep
<1>2. QED
  BY <1>1, AlwaysGoodSteps, PTL DEF RefireNeedsRearm

\* Every clear closes one fired episode after a full known-false clear delay.
THEOREM ClearTheorem == Spec => ClearEndsEpisode
<1>1. [GoodStep]_vars => [ClearStep]_vars
  BY DEF GoodStep
<1>2. QED
  BY <1>1, AlwaysGoodSteps, PTL DEF ClearEndsEpisode

\* A running clear delay is always known to pending_timer_loop.
THEOREM ClearPolledTheorem == Spec => []ClearIsPolled
<1>1. EvaluatorInv => ClearIsPolled
  BY DEF EvaluatorInv, ActiveIsOpen, ClearIsPolled, HasPendingTimer
<1>2. QED
  BY <1>1, EvaluatorInvariant, PTL

\* Calls whose timestamps do not lag keep QuietRunIsHeld.
LEMMA QuietCall ==
    ASSUME EvaluatorInv, QuietRunIsHeld,
           NEW t \in Nat, NEW tr \in Kleene, NEW rs \in Kleene,
           t > now, Call(t, t, tr, rs)
    PROVE  QuietRunIsHeld'
<1> DEFINE r == Evaluate(policy, tr, rs, t, st)
<1>0. policy \in Policy /\ st \in RuleState /\ now \in Nat /\ lastFire \in Time
      /\ trueFrom \in Time /\ quiet \in BOOLEAN
  BY DEF EvaluatorInv, TypeOK
<1>1. /\ st' = r.st /\ now' = t /\ Observe(tr, rs, t, r.edge)
      /\ trigger' = trigger
  BY DEF Call
<1>2. lastFire' <= now'
  BY <1>0, <1>1 DEF Observe, QuietRunIsHeld, Time, NoTime
<1>3. trueFrom' # NoTime => tree' = True
  BY <1>1 DEF Observe
<1>4. ASSUME trigger' = "metric", tree' = True, quiet'
      PROVE  st'.condition_since # NoTime /\ lastFire' < st'.condition_since
  <2>1. tr = True
    BY <1>1, <1>4 DEF Observe
  <2>2. TrueOutcome(policy, tr, rs, t, st, r)
    BY <1>0, <2>1, EvaluateTrue
  <2> HIDE DEF r
  <2>3. st'.condition_since = IF st.condition_since = NoTime THEN t
                              ELSE st.condition_since
    BY <1>1, <2>2 DEF TrueOutcome
  <2>4. r.edge # "fire" /\ lastFire' = lastFire
    BY <1>1, <1>4 DEF Observe
  <2>5. quiet \/ trueFrom = NoTime
    BY <1>1, <1>4, <2>1 DEF Observe
  <2>6. CASE trueFrom = NoTime
    <3>1. st.condition_since = NoTime
      BY <2>6 DEF EvaluatorInv, TimersWithinRun
    <3>2. lastFire < t
      BY <1>0 DEF QuietRunIsHeld, Time, NoTime
    <3>3. QED
      BY <2>3, <2>4, <3>1, <3>2 DEF NoTime
  <2>7. CASE trueFrom # NoTime /\ quiet
    BY <1>1, <1>4, <2>3, <2>4, <2>7 DEF QuietRunIsHeld
  <2>8. QED
    BY <2>5, <2>6, <2>7
<1>5. QED
  BY <1>2, <1>3, <1>4 DEF QuietRunIsHeld

\* What is known of quiet runs where no timestamp lags.
NoLagInv == lag = 0 => QuietRunIsHeld

\* One step keeps it.
LEMMA NextKeepsQuietRuns ==
    ASSUME EvaluatorInv, NoLagInv, Next
    PROVE  NoLagInv'
<1> SUFFICES ASSUME lag' = 0 PROVE QuietRunIsHeld'
  BY DEF NoLagInv
<1>a. lag = 0 /\ QuietRunIsHeld
  BY DEF NoLagInv, Next, Reading, PendingTimer, Call, Event, Reset, EditCondition, EditClearActions
<1>0. /\ now \in Nat /\ tree \in Kleene /\ lastFire \in Time
      /\ ResetResults \subseteq Kleene
      /\ \A t \in Later : t \in Nat /\ t > now
  BY MaxTimeAssumption DEF EvaluatorInv, TypeOK, ResetResults, Later, Kleene
<1>1. CASE Reading
  <2>1. PICK t \in Later, tr \in Kleene, rs \in ResetResults :
           \E ts \in {u \in (t - lag)..t : u >= 0} : Call(t, ts, tr, rs)
    BY <1>1 DEF Reading
  <2>2. PICK ts \in {u \in (t - lag)..t : u >= 0} : Call(t, ts, tr, rs)
    BY <2>1
  <2>3. ts = t
    BY <1>a, <1>0
  <2>4. QED
    BY <1>a, <1>0, <2>2, <2>3, QuietCall
<1>2. CASE PendingTimer
  <2>1. PICK t \in Later, tr \in {tree, Unknown}, rs \in ResetResults :
           Call(t, t, tr, rs)
    BY <1>2 DEF PendingTimer
  <2>2. tr \in Kleene
    BY <1>0 DEF Kleene
  <2>3. QED
    BY <1>a, <1>0, <2>1, <2>2, QuietCall
<1>3. CASE Event
  <2>1. PICK t \in Later, tr \in Kleene :
           /\ now' = t
           /\ Observe(tr, Unknown, t, EvaluateEvent(policy, tr, t, st).edge)
    BY <1>3 DEF Event
  <2>2. trigger' = "event"
    BY <1>3 DEF Event
  <2>3. QED
    BY <1>a, <1>0, <2>1, <2>2 DEF Observe, QuietRunIsHeld, Time, NoTime
<1>4. CASE Reset
  BY <1>a, <1>4 DEF Reset, QuietRunIsHeld
<1>5. CASE EditCondition
  BY <1>a, <1>5 DEF EditCondition, QuietRunIsHeld, Unknown, True
<1>6. CASE EditClearActions
  BY <1>a, <1>6 DEF EditClearActions, QuietRunIsHeld
<1>7. QED
  BY <1>1, <1>2, <1>3, <1>4, <1>5, <1>6 DEF Next

\* pending_timer_loop knows of every timer that runs, for every policy, lag and
\* number of calls: a running clear delay always; and where no timestamp lags
\* the first hold of a run, so that an on-change input that is held fires
\* without a second reading.
THEOREM TimersPolledTheorem == Spec => []TimersArePolled
<1>1. Init => NoLagInv
  BY DEF Init, NoLagInv, QuietRunIsHeld, NoTime, Unknown, True
<1>2. NoLagInv /\ UNCHANGED vars => NoLagInv'
  BY DEF NoLagInv, QuietRunIsHeld, vars, code, ghost
<1>3. EvaluatorInv /\ NoLagInv /\ [Next]_vars => NoLagInv'
  BY <1>2, NextKeepsQuietRuns
<1>4. EvaluatorInv /\ NoLagInv /\ ClearIsPolled => TimersArePolled
  BY DEF EvaluatorInv, NoLagInv, QuietRunIsHeld, HoldIsPolled, HasPendingTimer, TimersArePolled
<1>5. QED
  BY <1>1, <1>3, <1>4, EvaluatorInvariant, ClearPolledTheorem, PTL DEF Spec
=============================================================================
