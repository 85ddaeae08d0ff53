---------------------------- MODULE RuleEvaluator ----------------------------
(***************************************************************************)
(* One rule and the evaluator calls the worker makes on its RuleState, as a *)
(* state machine.  A metric rule is evaluated on every reading of a signal  *)
(* its condition names (evaluate_and_dispatch, stamped with the device's    *)
(* own timestamp when it sent one), re-evaluated by pending_timer_loop while*)
(* a timer runs (stamped with the wall clock), re-armed by POST             *)
(* /rules/{id}/reset and edited by the API; an event rule is evaluated per  *)
(* schedule tick or connectivity flip.                                      *)
(*                                                                          *)
(* Beside the code's state the module keeps what an observer of the calls   *)
(* would remember (the ghost variables); the properties compare the edges   *)
(* the evaluator emits with that observation, never with RuleState itself.  *)
(***************************************************************************)
EXTENDS Evaluator

CONSTANTS
    Policies,   \* the execution policies a rule may have
    MaxLag,     \* how far device timestamps may lag behind the wall clock
    MaxTime     \* bound on the wall clock (model checking only)

ASSUME PoliciesAssumption ==
    Policies \subseteq Policy /\ \A p \in Policies : ValidPolicy(p)
ASSUME MaxLagAssumption  == MaxLag \in Nat
ASSUME MaxTimeAssumption == MaxTime \in Nat

VARIABLES
    trigger,    \* "metric", or "event" (a schedule or device_status rule)
    policy,     \* execution_policy of the rule
    lag,        \* how far its devices' timestamps lag at most
    st,         \* its RuleState
    now,        \* wall clock of the last call
    \* what an observer saw
    tree,       \* the condition's result at the last evaluation
    reset,      \* the reset tree's result then
    at,         \* the timestamp the last evaluation was made with
    edge,       \* the edge the last call emitted
    lastFire,   \* timestamp of the latest fire
    trueFrom,   \* earliest timestamp of the current run of true evaluations
    falseFrom,  \* earliest timestamp of the current run of known-false ones
    sawFalse,   \* a known-false evaluation happened since the latest fire
    sawReset,   \* the reset tree was true, or a manual reset came, since then
    quiet,      \* no fire and no manual reset since the current run began
    open        \* the latest edge was a fire

code  == <<trigger, policy, lag, st, now>>
ghost == <<tree, reset, at, edge, lastFire, trueFrom, falseFrom, sawFalse, sawReset,
           quiet, open>>
vars  == <<code, ghost>>

TypeOK ==
    /\ trigger \in {"metric", "event"}
    /\ policy \in Policy
    /\ lag \in 0..MaxLag
    /\ st \in RuleState
    /\ now \in Nat /\ at \in Nat
    /\ tree \in Kleene /\ reset \in Kleene /\ edge \in Edges
    /\ lastFire \in Time /\ trueFrom \in Time /\ falseFrom \in Time
    /\ sawFalse \in BOOLEAN /\ sawReset \in BOOLEAN
    /\ quiet \in BOOLEAN /\ open \in BOOLEAN

Init ==
    /\ policy \in Policies
    /\ lag \in 0..MaxLag
    /\ trigger \in {"metric", "event"}
    \* _validate_clear_actions and _validate_latch
    /\ trigger = "event" => ~policy.has_clear /\ policy.strategy # "latch"
    /\ st = NewRuleState
    /\ now = 0 /\ at = 0
    /\ tree = Unknown /\ reset = Unknown /\ edge = "none"
    /\ lastFire = NoTime /\ trueFrom = NoTime /\ falseFrom = NoTime
    /\ sawFalse = FALSE /\ sawReset = FALSE /\ quiet = TRUE /\ open = FALSE

-----------------------------------------------------------------------------
Earliest(t, u) == IF t = NoTime \/ u < t THEN u ELSE t

\* The observer's record of one evaluation: result tr, reset tree rs, stamped
\* ts, answered by the edge e.
Observe(tr, rs, ts, e) ==
    LET fired == e = "fire"
    IN  /\ tree' = tr /\ reset' = rs /\ at' = ts /\ edge' = e
        /\ trueFrom'  = IF tr = True  THEN Earliest(trueFrom, ts)  ELSE NoTime
        /\ falseFrom' = IF tr = False THEN Earliest(falseFrom, ts) ELSE NoTime
        /\ lastFire'  = IF fired THEN ts ELSE lastFire
        /\ sawFalse'  = (~fired /\ (sawFalse \/ tr = False))
        /\ sawReset'  = (~fired /\ (sawReset \/ rs = True))
        /\ quiet'     = (~fired /\ (quiet \/ tr # True \/ trueFrom = NoTime))
        /\ open'      = (fired \/ (open /\ e # "clear"))

\* The wall clock advances between any two calls (it has sub-second
\* resolution, so no two calls read the same instant).
Later == (now + 1)..MaxTime

\* What the reset tree may evaluate to.
ResetResults == IF policy.has_reset THEN Kleene ELSE {Unknown}

\* A call to ThresholdEvaluator.evaluate made at wall time t, stamped ts.
Call(t, ts, tr, rs) ==
    LET r == Evaluate(policy, tr, rs, ts, st)
    IN  /\ st' = r.st
        /\ now' = t
        /\ Observe(tr, rs, ts, r.edge)
        /\ UNCHANGED <<trigger, policy, lag>>

\* evaluate_and_dispatch: a reading arrives; the device may have stamped it.
Reading ==
    /\ trigger = "metric"
    /\ \E t \in Later, tr \in Kleene, rs \in ResetResults :
       \E ts \in {u \in (t - lag)..t : u >= 0} : Call(t, ts, tr, rs)

\* pending_timer_loop -> run_rule_out_of_band(..., "metric"): no reading came,
\* so the tree is what it was, or unknown if a signal it needs went stale.
PendingTimer ==
    /\ trigger = "metric"
    /\ HasPendingTimer(policy, st)
    /\ \E t \in Later, tr \in {tree, Unknown}, rs \in ResetResults : Call(t, t, tr, rs)

\* run_rule_out_of_band(..., "schedule" | "device_status")
Event ==
    /\ trigger = "event"
    /\ \E t \in Later, tr \in Kleene :
         LET r == EvaluateEvent(policy, tr, t, st)
         IN  /\ st' = r.st
             /\ now' = t
             /\ Observe(tr, Unknown, t, r.edge)
    /\ UNCHANGED <<trigger, policy, lag>>

\* reset_rule_latch: only a latching rule; POST /rules/{id}/reset.
Reset ==
    /\ policy.strategy = "latch"
    /\ st' = ResetLatch(st)
    /\ sawReset' = TRUE /\ quiet' = FALSE /\ edge' = "none"
    /\ UNCHANGED <<trigger, policy, lag, now, tree, reset, at, lastFire, trueFrom,
                   falseFrom, sawFalse, open>>

\* update_rule replaced the condition: the next evaluation starts from an
\* aligned state (_state_for).  The old condition's runs are over.
EditCondition ==
    /\ st' = Realigned(st)
    /\ tree' = Unknown /\ edge' = "none"
    /\ trueFrom' = NoTime /\ falseFrom' = NoTime
    /\ UNCHANGED <<trigger, policy, lag, now, reset, at, lastFire, sawFalse,
                   sawReset, quiet, open>>

\* update_rule added or removed the clear actions, possibly mid-episode.
EditClearActions ==
    /\ trigger = "metric"
    /\ policy.strategy # "latch"
    /\ policy' = [policy EXCEPT !.has_clear = ~@]
    /\ edge' = "none"
    /\ UNCHANGED <<trigger, lag, st, now, tree, reset, at, lastFire, trueFrom,
                   falseFrom, sawFalse, sawReset, quiet, open>>

Next == Reading \/ PendingTimer \/ Event \/ Reset \/ EditCondition
            \/ EditClearActions

Spec == Init /\ [][Next]_vars

-----------------------------------------------------------------------------
(***************************************************************************)
(* Properties                                                              *)
(***************************************************************************)

HoldStep ==
    edge' = "fire" /\ trigger = "metric" =>
      trueFrom' # NoTime /\ at' - trueFrom' >= policy.for_duration

\* A metric rule fires only at the end of an unbroken run of evaluations that
\* all found the condition true and that reaches back at least for_duration
\* (the duration hold in ThresholdEvaluator.evaluate); a data gap breaks it.
HoldBeforeFire == [][HoldStep]_vars

CooldownStep ==
    edge' = "fire" /\ lastFire # NoTime =>
      at' - lastFire >= policy.cooldown

\* Two fires of a rule are at least its cooldown apart, whatever resets, edits,
\* clears and late timestamps come between them (the cooldown check).
CooldownBetweenFires == [][CooldownStep]_vars

RefireStep ==
    edge' = "fire" /\ lastFire # NoTime /\ trigger = "metric" =>
      \/ policy.strategy = "continuous"
      \/ policy.strategy = "latch" /\ (sawReset \/ reset' = True)
      \/ policy.strategy = "edge" /\ sawFalse
      \/ policy.strategy = "reset_condition"
           /\ (IF policy.has_reset THEN sawReset \/ reset' = True ELSE sawFalse)

\* A metric rule never fires twice in one episode: an edge rule only after the
\* condition was known to be false (never because data went missing), a latch
\* or a rule with a reset tree only after a reset (the re-arm block).
RefireNeedsRearm == [][RefireStep]_vars

ClearStep ==
    edge' = "clear" =>
      /\ open
      /\ falseFrom' # NoTime
      /\ at' - falseFrom' >= policy.clear_for_duration

\* A clear closes exactly one episode: the edge before it was a fire, and the
\* condition was known false throughout the clear delay (_maybe_clear).
ClearEndsEpisode == [][ClearStep]_vars

\* While an episode waits out its clear delay, pending_timer_loop knows of it:
\* the relay is switched off even if the device never reports again
\* (has_pending_timer, first clause).
ClearIsPolled ==
    st.active /\ policy.has_clear /\ tree = False /\ policy.clear_for_duration > 0
        => HasPendingTimer(policy, st)

\* While a true condition waits out for_duration for its first fire of the
\* run, pending_timer_loop knows of it (has_pending_timer, second clause).
HoldIsPolled ==
    /\ trigger = "metric" /\ tree = True /\ st.armed /\ quiet
    /\ policy.for_duration > 0
    => HasPendingTimer(policy, st)

\* After a manual reset of a latch whose condition is still true the hold timer
\* restarts, so the latch sets again once for_duration has passed (the
\* docstring of reset_latch).
ResetRestartsHold ==
    /\ policy.strategy = "latch" /\ ~policy.has_reset /\ tree = True /\ st.armed
    /\ policy.for_duration > 0 /\ lastFire # NoTime /\ sawReset
    => HasPendingTimer(policy, st)

-----------------------------------------------------------------------------
(***************************************************************************)
(* The inductive invariant: how RuleState summarises what was observed.    *)
(***************************************************************************)

\* A disarmed-then-rearmed rule has seen what its strategy re-arms on.
RearmedForCause ==
    st.armed /\ lastFire # NoTime /\ trigger = "metric" =>
        /\ policy.strategy = "edge" => sawFalse
        /\ policy.strategy = "latch" => sawReset
        /\ policy.strategy = "reset_condition" =>
              IF policy.has_reset THEN sawReset ELSE sawFalse

\* The hold and clear timers never start before the run they measure.
TimersWithinRun ==
    /\ st.condition_since # NoTime =>
          trueFrom # NoTime /\ trueFrom <= st.condition_since
    /\ st.clear_since # NoTime =>
          falseFrom # NoTime /\ falseFrom <= st.clear_since

\* An active rule has an open episode, and is clearing once known false.
ActiveIsOpen ==
    st.active => /\ open
                 /\ trigger = "metric"
                 /\ tree = False => st.clear_since # NoTime

\* An event has no duration to hold across (evaluate_event).
EventHasNoTimers ==
    trigger = "event" => st.condition_since = NoTime /\ st.clear_since = NoTime

\* The RuleState of ThresholdEvaluator is a faithful summary of the calls made
\* on it: its fields carry what the re-arm, hold, cooldown and clear decisions
\* need to know of the past.
EvaluatorInv ==
    /\ TypeOK
    /\ st.last_fired_at = lastFire
    /\ RearmedForCause
    /\ TimersWithinRun
    /\ ActiveIsOpen
    /\ EventHasNoTimers

\* With timestamps that never lag: a quiet run of true evaluations
\* is being held, and began after the latest fire.
QuietRunIsHeld ==
    /\ lastFire <= now
    /\ trueFrom # NoTime => tree = True
    /\ trigger = "metric" /\ tree = True /\ quiet =>
          /\ st.condition_since # NoTime
          /\ lastFire < st.condition_since

\* pending_timer_loop knows of every timer that runs: a clear delay always, and,
\* when no timestamp lags, the hold of a condition that waits for its first fire
\* (has_pending_timer).
TimersArePolled == ClearIsPolled /\ (lag = 0 => HoldIsPolled /\ QuietRunIsHeld)
=============================================================================
