------------------------------ MODULE Evaluator ------------------------------
(***************************************************************************)
(* The rule evaluator of backend/src/app/rules/evaluators.py as pure        *)
(* operators: what one call of ThresholdEvaluator.evaluate, evaluate_event, *)
(* reset_latch, align_state_to_condition or has_pending_timer does to a     *)
(* RuleState.  The condition tree enters through its three-valued result    *)
(* (ConditionTree computes it); times are whole seconds, NoTime is None.    *)
(***************************************************************************)
EXTENDS Integers, TLAPS

NoTime == -1

True    == "true"       \* the three results of _evaluate_node
False   == "false"
Unknown == "unknown"
Kleene  == {True, False, Unknown}

Strategies == {"edge", "continuous", "reset_condition", "latch"}
Edges      == {"none", "fire", "clear"}

(***************************************************************************)
(* execution_policy with the two facts evaluate reads from the rule beside  *)
(* it: has_reset (policy["reset_condition"] is not None) and has_clear      *)
(* (bool(rule.clear_actions)).                                              *)
(***************************************************************************)
Policy == [strategy : Strategies, for_duration : Nat, cooldown : Nat,
           clear_for_duration : Nat, has_reset : BOOLEAN, has_clear : BOOLEAN]

\* _validate_latch: a latching rule holds until reset, so it cannot clear.
ValidPolicy(p) == p.strategy = "latch" => ~p.has_clear

Time == Nat \cup {NoTime}

RuleState == [condition_since : Time, armed : BOOLEAN, last_fired_at : Time,
              active : BOOLEAN, clear_since : Time]

NewRuleState == [condition_since |-> NoTime, armed |-> TRUE,
                 last_fired_at |-> NoTime, active |-> FALSE,
                 clear_since |-> NoTime]

-----------------------------------------------------------------------------
\* Mutant: a data gap re-arms as a known false does.
RearmsOnUnknown(p, tree, reset) ==
    \/ p.strategy = "continuous"
    \/ p.strategy \in {"reset_condition", "latch"} /\ p.has_reset /\ reset = True
    \/ p.strategy = "reset_condition" /\ ~p.has_reset /\ tree # True
    \/ p.strategy = "edge" /\ tree # True

\* The re-arm block at the head of evaluate: may a disarmed rule re-arm on
\* this evaluation?  reset is the reset tree's result.
Rearms(p, tree, reset) ==
    \/ p.strategy = "continuous"
    \/ p.strategy \in {"reset_condition", "latch"} /\ p.has_reset /\ reset = True
    \/ p.strategy = "reset_condition" /\ ~p.has_reset /\ tree = False
    \/ p.strategy = "edge" /\ tree = False

CooledDown(p, now, st) ==
    st.last_fired_at # NoTime => now - st.last_fired_at >= p.cooldown

\* Mutant: a data gap does not restart the clear delay.
MaybeClearAcrossGap(p, tree, now, st) ==
    LET since == IF st.clear_since = NoTime THEN now ELSE st.clear_since
    IN  IF tree = Unknown
        THEN [st |-> st, edge |-> "none"]
        ELSE IF ~st.active
        THEN [st |-> [st EXCEPT !.clear_since = NoTime], edge |-> "none"]
        ELSE IF p.has_clear /\ now - since < p.clear_for_duration
        THEN [st |-> [st EXCEPT !.clear_since = since], edge |-> "none"]
        ELSE [st   |-> [st EXCEPT !.active = FALSE, !.clear_since = NoTime],
              edge |-> IF p.has_clear THEN "clear" ELSE "none"]

\* _maybe_clear, called when the tree is not known to be true.
MaybeClear(p, tree, now, st) ==
    LET since == IF st.clear_since = NoTime THEN now ELSE st.clear_since
    IN  IF tree = Unknown \/ ~st.active
        THEN [st |-> [st EXCEPT !.clear_since = NoTime], edge |-> "none"]
        ELSE IF ~p.has_clear
        THEN [st   |-> [st EXCEPT !.active = FALSE, !.clear_since = NoTime],
              edge |-> "none"]
        ELSE IF now - since < p.clear_for_duration
        THEN [st |-> [st EXCEPT !.clear_since = since], edge |-> "none"]
        ELSE [st   |-> [st EXCEPT !.active = FALSE, !.clear_since = NoTime],
              edge |-> "clear"]

\* ThresholdEvaluator.evaluate: re-arm, hold, armed, cooldown, fire.
Evaluate(p, tree, reset, now, st) ==
    LET armed == st.armed \/ Rearms(p, tree, reset)
        since == IF st.condition_since = NoTime THEN now ELSE st.condition_since
        held  == [st EXCEPT !.armed = armed, !.clear_since = NoTime,
                            !.condition_since = since]
    IN  IF tree # True
        THEN MaybeClear(p, tree, now,
                        [st EXCEPT !.armed = armed, !.condition_since = NoTime])
        ELSE IF \/ now - since < p.for_duration
                \/ ~armed
                \/ ~CooledDown(p, now, st)
        THEN [st |-> held, edge |-> "none"]
        ELSE [st   |-> [held EXCEPT !.armed = FALSE, !.last_fired_at = now,
                                    !.active = p.has_clear],
              edge |-> "fire"]

\* ThresholdEvaluator.evaluate_event: a schedule tick or a device_status flip.
EvaluateEvent(p, tree, now, st) ==
    IF tree = True /\ CooledDown(p, now, st)
    THEN [st |-> [st EXCEPT !.last_fired_at = now], edge |-> "fire"]
    ELSE [st |-> st, edge |-> "none"]

\* Mutant: a reset starts from a fresh RuleState.
ResetLatchForgets(st) == NewRuleState

\* reset_latch: re-arm and restart the hold timer.
ResetLatch(st) == [st EXCEPT !.armed = TRUE, !.condition_since = NoTime]

\* Mutant: an edit keeps the hold of the old condition.
RealignedKeepsHold(st) == [st EXCEPT !.clear_since = NoTime]

\* align_state_to_condition when the fingerprint differs (the leaf latches it
\* also drops belong to ConditionTree).
Realigned(st) == [st EXCEPT !.condition_since = NoTime, !.clear_since = NoTime]

\* Mutant: clear delays are left to the next reading.
HasPendingHold(p, st) ==
    /\ st.condition_since # NoTime
    /\ st.armed
    /\ p.for_duration > 0
    /\ st.last_fired_at # NoTime => st.last_fired_at < st.condition_since

HasPendingTimer(p, st) ==
    \/ st.clear_since # NoTime /\ p.clear_for_duration > 0
    \/ /\ st.condition_since # NoTime
       /\ st.armed
       /\ p.for_duration > 0
       /\ st.last_fired_at # NoTime => st.last_fired_at < st.condition_since

-----------------------------------------------------------------------------
(* Lemmas about one evaluation, for every policy, state and timestamp.  The   *)
(* proofs about a rule (RuleEvaluatorProofs) and about the loops that         *)
(* evaluate it (RuleDispatchProofs) rest on them.                             *)

(***************************************************************************)
(* What one call does, field by field.                                     *)
(***************************************************************************)

\* An evaluation that does not find the tree true (the _maybe_clear branch of
\* evaluate): the hold ends, nothing fires, and only an active, known-false
\* rule with clear actions waits or clears.
LEMMA EvaluateNotTrue ==
    ASSUME NEW p \in Policy, NEW tr \in Kleene, NEW rs \in Kleene,
           NEW ts \in Nat, NEW s \in RuleState, tr # True
    PROVE  LET r     == Evaluate(p, tr, rs, ts, s)
               since == IF s.clear_since = NoTime THEN ts ELSE s.clear_since
           IN  /\ r.st \in RuleState
               /\ r.edge \in {"none", "clear"}
               /\ r.st.condition_since = NoTime
               /\ r.st.armed = (s.armed \/ Rearms(p, tr, rs))
               /\ r.st.last_fired_at = s.last_fired_at
               /\ r.st.active => s.active
               /\ r.st.clear_since # NoTime =>
                     r.st.clear_since = since /\ tr = False
               /\ r.st.active /\ tr = False => r.st.clear_since # NoTime
               /\ r.edge = "clear" =>
                     /\ s.active /\ tr = False
                     /\ ts - since >= p.clear_for_duration
                     /\ ~r.st.active
<1> DEFINE armed == s.armed \/ Rearms(p, tr, rs)
           a     == [s EXCEPT !.armed = armed, !.condition_since = NoTime]
           r     == Evaluate(p, tr, rs, ts, s)
           since == IF s.clear_since = NoTime THEN ts ELSE s.clear_since
<1>0. /\ armed \in BOOLEAN
      /\ since \in Nat /\ p.clear_for_duration \in Nat
      /\ s.active \in BOOLEAN /\ p.has_clear \in BOOLEAN
  BY DEF RuleState, Time, NoTime, Policy
<1>1. r = MaybeClear(p, tr, ts, a)
  BY DEF Evaluate
<1> HIDE DEF armed
<1>2. /\ a \in RuleState /\ a.condition_since = NoTime /\ a.active = s.active
      /\ a.armed = armed
      /\ a.last_fired_at = s.last_fired_at /\ a.clear_since = s.clear_since
  BY <1>0 DEF RuleState, Time, NoTime
<1> HIDE DEF a, r, since
<1> SUFFICES
      /\ r.st \in RuleState
      /\ r.edge \in {"none", "clear"}
      /\ r.st.condition_since = NoTime
      /\ r.st.armed = armed
      /\ r.st.last_fired_at = s.last_fired_at
      /\ r.st.active => s.active
      /\ r.st.clear_since # NoTime => r.st.clear_since = since /\ tr = False
      /\ r.st.active /\ tr = False => r.st.clear_since # NoTime
      /\ r.edge = "clear" => /\ s.active /\ tr = False
                             /\ ts - since >= p.clear_for_duration
                             /\ ~r.st.active
  BY DEF r, since, armed
<1>3. CASE tr = Unknown \/ ~s.active
  <2>1. r = [st |-> [a EXCEPT !.clear_since = NoTime], edge |-> "none"]
    BY <1>1, <1>2, <1>3 DEF MaybeClear
  <2>2. QED
    BY <2>1, <1>0, <1>2, <1>3 DEF RuleState, Time, NoTime, False, Unknown
<1>4. CASE ~(tr = Unknown \/ ~s.active) /\ ~p.has_clear
  <2>1. r = [st |-> [a EXCEPT !.active = FALSE, !.clear_since = NoTime],
             edge |-> "none"]
    BY <1>1, <1>2, <1>4 DEF MaybeClear
  <2>2. QED
    BY <2>1, <1>0, <1>2, <1>4 DEF RuleState, Time, NoTime
<1>5. CASE /\ ~(tr = Unknown \/ ~s.active) /\ p.has_clear
           /\ ts - since < p.clear_for_duration
  <2>1. r = [st |-> [a EXCEPT !.clear_since = since], edge |-> "none"]
    BY <1>1, <1>2, <1>5 DEF MaybeClear, since
  <2>2. tr = False
    BY <1>5 DEF Kleene
  <2>3. QED
    BY <2>1, <2>2, <1>0, <1>2, <1>5 DEF RuleState, Time, NoTime
<1>6. CASE /\ ~(tr = Unknown \/ ~s.active) /\ p.has_clear
           /\ ~(ts - since < p.clear_for_duration)
  <2>1. r = [st |-> [a EXCEPT !.active = FALSE, !.clear_since = NoTime],
             edge |-> "clear"]
    BY <1>1, <1>2, <1>6 DEF MaybeClear, since
  <2>2. tr = False
    BY <1>6 DEF Kleene
  <2>3. r.edge = "clear" /\ r.st = [a EXCEPT !.active = FALSE,
                                             !.clear_since = NoTime]
    BY <2>1
  <2>4. /\ r.st \in RuleState /\ r.st.condition_since = NoTime
        /\ r.st.armed = armed /\ r.st.last_fired_at = s.last_fired_at
        /\ r.st.active = FALSE /\ r.st.clear_since = NoTime
    BY <2>3, <1>0, <1>2 DEF RuleState, Time, NoTime
  <2>5. QED
    BY <2>2, <2>3, <2>4, <1>0, <1>6
<1>7. QED
  BY <1>3, <1>4, <1>5, <1>6

\* What r, the result of evaluating a rule in state s when the tree is true, is:
\* the clear timer stops, the hold runs from the first such evaluation, and the
\* rule fires only when held, armed and cooled down.
TrueOutcome(p, tr, rs, ts, s, r) ==
    LET since == IF s.condition_since = NoTime THEN ts ELSE s.condition_since
    IN  /\ r.st \in RuleState
        /\ r.edge \in {"none", "fire"}
        /\ r.st.condition_since = since
        /\ r.st.clear_since = NoTime
        /\ r.edge = "none" =>
              /\ r.st.armed = (s.armed \/ Rearms(p, tr, rs))
              /\ r.st.last_fired_at = s.last_fired_at
              /\ r.st.active = s.active
        /\ r.edge = "fire" =>
              /\ ts - since >= p.for_duration
              /\ s.armed \/ Rearms(p, tr, rs)
              /\ CooledDown(p, ts, s)
              /\ r.st.armed = FALSE
              /\ r.st.last_fired_at = ts
              /\ r.st.active = p.has_clear

\* An evaluation that finds the tree true has that outcome.
LEMMA EvaluateTrue ==
    ASSUME NEW p \in Policy, NEW tr \in Kleene, NEW rs \in Kleene,
           NEW ts \in Nat, NEW s \in RuleState, tr = True
    PROVE  TrueOutcome(p, tr, rs, ts, s, Evaluate(p, tr, rs, ts, s))
<1> DEFINE armed == s.armed \/ Rearms(p, tr, rs)
           r     == Evaluate(p, tr, rs, ts, s)
           since == IF s.condition_since = NoTime THEN ts ELSE s.condition_since
           held  == [s EXCEPT !.armed = armed, !.clear_since = NoTime,
                              !.condition_since = since]
           wait  == \/ ts - since < p.for_duration
                    \/ ~armed
                    \/ ~CooledDown(p, ts, s)
<1>0. /\ armed \in BOOLEAN /\ since \in Nat
      /\ p.for_duration \in Nat /\ p.has_clear \in BOOLEAN
  BY DEF RuleState, Time, NoTime, Policy
<1>1. /\ wait  => r = [st |-> held, edge |-> "none"]
      /\ ~wait => r = [st |-> [held EXCEPT !.armed = FALSE,
                                 !.last_fired_at = ts, !.active = p.has_clear],
                       edge |-> "fire"]
  BY DEF Evaluate
<1> HIDE DEF armed, since
<1>2. /\ held \in RuleState /\ held.armed = armed /\ held.clear_since = NoTime
      /\ held.condition_since = since /\ held.active = s.active
      /\ held.last_fired_at = s.last_fired_at
  BY <1>0 DEF RuleState, Time, NoTime
<1> HIDE DEF r, held
<1> SUFFICES
      /\ r.st \in RuleState
      /\ r.edge \in {"none", "fire"}
      /\ r.st.condition_since = since
      /\ r.st.clear_since = NoTime
      /\ r.edge = "none" => /\ r.st.armed = armed
                            /\ r.st.last_fired_at = s.last_fired_at
                            /\ r.st.active = s.active
      /\ r.edge = "fire" => /\ ts - since >= p.for_duration
                            /\ armed
                            /\ CooledDown(p, ts, s)
                            /\ r.st.armed = FALSE
                            /\ r.st.last_fired_at = ts
                            /\ r.st.active = p.has_clear
  BY DEF r, since, armed, TrueOutcome
<1>3. CASE wait
  BY <1>1, <1>2, <1>3
<1>4. CASE ~wait
  <2>1. r.edge = "fire" /\ r.st = [held EXCEPT !.armed = FALSE,
                                 !.last_fired_at = ts, !.active = p.has_clear]
    BY <1>1, <1>4
  <2>2. /\ r.st \in RuleState /\ r.st.condition_since = since
        /\ r.st.clear_since = NoTime /\ r.st.armed = FALSE
        /\ r.st.last_fired_at = ts /\ r.st.active = p.has_clear
    BY ZenonT(60), <2>1, <1>0, <1>2 DEF RuleState, Time, NoTime
  <2>3. QED
    BY <2>1, <2>2, <1>0, <1>4
<1>5. QED
  BY <1>3, <1>4

\* Whatever the tree is, an evaluation moves last_fired_at only when it fires,
\* and it fires only when the cooldown since the last one has passed.
LEMMA EvaluateKeepsCooldown ==
    ASSUME NEW p \in Policy, NEW tr \in Kleene, NEW rs \in Kleene,
           NEW ts \in Nat, NEW s \in RuleState
    PROVE  LET r == Evaluate(p, tr, rs, ts, s)
           IN  /\ r.st \in RuleState
               /\ r.edge \in Edges
               /\ r.edge # "fire" => r.st.last_fired_at = s.last_fired_at
               /\ r.edge = "fire" =>
                     /\ r.st.last_fired_at = ts
                     /\ s.last_fired_at # NoTime =>
                           ts - s.last_fired_at >= p.cooldown
<1> DEFINE r == Evaluate(p, tr, rs, ts, s)
<1> SUFFICES
      /\ r.st \in RuleState
      /\ r.edge \in Edges
      /\ r.edge # "fire" => r.st.last_fired_at = s.last_fired_at
      /\ r.edge = "fire" =>
            /\ r.st.last_fired_at = ts
            /\ s.last_fired_at # NoTime => ts - s.last_fired_at >= p.cooldown
  OBVIOUS
<1>1. CASE tr = True
  <2>1. TrueOutcome(p, tr, rs, ts, s, r)
    BY <1>1, EvaluateTrue
  <2> HIDE DEF r
  <2>2. QED
    BY <2>1 DEF TrueOutcome, CooledDown, Edges
<1>2. CASE tr # True
  <2>1. /\ r.st \in RuleState /\ r.edge \in {"none", "clear"}
        /\ r.st.last_fired_at = s.last_fired_at
    BY <1>2, EvaluateNotTrue
  <2> HIDE DEF r
  <2>2. QED
    BY <2>1 DEF Edges
<1>3. QED
  BY <1>1, <1>2
=============================================================================
