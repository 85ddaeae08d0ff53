---------------------------- MODULE ConditionTree ----------------------------
(***************************************************************************)
(* A rule's condition tree (backend/src/app/rules/evaluators.py): leaves    *)
(* compare a signal with a constant, another signal, a range, a set or its  *)
(* own previous reading; groups combine them in three-valued logic; each    *)
(* inequality leaf carries a Schmitt-trigger latch keyed by its path.       *)
(*                                                                          *)
(* The state machine is the hot path's use of it: readings enter the signal *)
(* cache (evaluate_and_dispatch), the rule is evaluated when it references  *)
(* the signal, and an edit of the condition drops the latches.  Only        *)
(* now - timestamp is ever used, so an entry carries its age, which stops   *)
(* growing once the entry is stale.                                         *)
(***************************************************************************)
EXTENDS Integers, Sequences, FiniteSets, SequencesExt

CONSTANTS
    Signals,    \* (device_id, metric) pairs
    Values,     \* what a reading may report, a set of integers
    Trees,      \* condition trees a rule may be given
    MaxAge      \* max_age_seconds, the staleness bound of a signal

ASSUME ValuesAssumption == Values \subseteq Int
ASSUME MaxAgeAssumption == MaxAge \in Nat

VARIABLES
    tree,       \* Rule.condition
    cache,      \* _signal_value_cache
    latches,    \* RuleState.leaf_states: path -> latched_true
    \* ghosts
    solo,       \* latches the leaves would have if each were evaluated alone
    flipped     \* {the value each leaf saw when its latch last flipped}

vars == <<tree, cache, latches, solo, flipped>>

True    == "true"
False   == "false"
Unknown == "unknown"
Truth(b) == IF b THEN True ELSE False

NoValue == [missing |-> TRUE]

-----------------------------------------------------------------------------
(***************************************************************************)
(* Leaves                                                                  *)
(***************************************************************************)

CHANGE_OPERATORS == {"changed", "increased", "decreased"}
RANGE_OPERATORS  == {"between", "not_between"}
SET_OPERATORS    == {"in", "not_in"}

_signal_state(mv) ==
    IF mv = NoValue THEN "missing"
    ELSE IF mv.age > MaxAge THEN "stale" ELSE "fresh"

Fresh(snap, s) == _signal_state(snap[s]) = "fresh"

_compare(v, op, threshold) ==
    CASE op = ">"  -> v > threshold
      [] op = ">=" -> v >= threshold
      [] op = "<"  -> v < threshold
      [] op = "<=" -> v <= threshold
      [] op = "==" -> v = threshold
      [] op = "!=" -> v # threshold

\* A signal seen only once (no previous value) cannot have changed yet.
_compare_change(op, mv) ==
    /\ mv.previous # NoValue
    /\ CASE op = "changed"   -> mv.value # mv.previous.value
         [] op = "increased" -> mv.value > mv.previous.value
         [] op = "decreased" -> mv.value < mv.previous.value

_compare_range(op, v, rhs) ==
    (op = "between") = (rhs.low <= v /\ v <= rhs.high)

_compare_set(op, v, rhs) == (op = "in") = (v \in rhs.values)

Scalar(leaf) ==
    leaf.operator \notin CHANGE_OPERATORS \cup RANGE_OPERATORS \cup SET_OPERATORS

\* _resolve_rhs_scalar: is there a right-hand value, and which.
RhsFresh(leaf, snap) ==
    leaf.rhs.source = "static" \/ Fresh(snap, leaf.rhs.signal)
RhsValue(leaf, snap) ==
    IF leaf.rhs.source = "static" THEN leaf.rhs.value
    ELSE snap[leaf.rhs.signal].value

\* Mutant: the latch releases at the threshold.
RearmAtThreshold(op, v, threshold, hysteresis, condition_true) == ~condition_true

_rearm_condition_met(op, v, threshold, hysteresis, condition_true) ==
    CASE op = ">"  -> v <= threshold - hysteresis
      [] op = ">=" -> v < threshold - hysteresis
      [] op = "<"  -> v >= threshold + hysteresis
      [] op = "<=" -> v > threshold + hysteresis
      [] OTHER     -> ~condition_true

\* Whether a leaf has everything it needs to be decided.
Decidable(leaf, snap) ==
    Fresh(snap, leaf.signal) /\ (Scalar(leaf) => RhsFresh(leaf, snap))

\* A leaf with a fixed hysteresis band.
Banded(leaf) ==
    leaf.operator \in {">", ">=", "<", "<="} /\ leaf.rhs.source = "static"

\* The bare comparison, no latch.
RawTrue(leaf, snap) ==
    LET mv == snap[leaf.signal]
        op == leaf.operator
    IN  CASE op \in CHANGE_OPERATORS -> _compare_change(op, mv)
          [] op \in RANGE_OPERATORS  -> _compare_range(op, mv.value, leaf.rhs)
          [] op \in SET_OPERATORS    -> _compare_set(op, mv.value, leaf.rhs)
          [] OTHER -> _compare(mv.value, op, RhsValue(leaf, snap))

\* _evaluate_leaf's effect on the latch; an undecidable leaf leaves it alone.
LatchAfter(leaf, snap, latched) ==
    IF ~Decidable(leaf, snap) THEN latched
    ELSE IF Scalar(leaf) /\ latched
    THEN ~_rearm_condition_met(leaf.operator, snap[leaf.signal].value,
                               RhsValue(leaf, snap), leaf.hysteresis,
                               RawTrue(leaf, snap))
    ELSE RawTrue(leaf, snap)

\* _evaluate_leaf's result.
_evaluate_leaf(leaf, snap, latched) ==
    IF Decidable(leaf, snap) THEN Truth(LatchAfter(leaf, snap, latched))
    ELSE Unknown

-----------------------------------------------------------------------------
(***************************************************************************)
(* Trees.  A group is [kind, op, predicates]; a path is the sequence of     *)
(* child positions from the root.                                           *)
(***************************************************************************)

\* Mutant: an unknown child counts as false.
CombineTwoValued(op, results) ==
    IF op = "OR" THEN Truth(True \in results) ELSE Truth(results \subseteq {True})

\* Kleene AND/OR: the dominant value wins, else unknown, else the other one.
Combine(op, results) ==
    LET dominant == Truth(op = "OR")
        other    == Truth(op # "OR")
    IN  IF dominant \in results THEN dominant
        ELSE IF Unknown \in results THEN Unknown ELSE other

\* Mutant: a child shares its parent's latch.
LatchedAtParent(states, path) ==
    \E p \in DOMAIN states : p # <<>> /\ path # <<>> /\ Front(p) = Front(path) /\ states[p]

\* leaf_states.setdefault(path, LeafState()).latched_true
LatchedAt(states, path) == path \in DOMAIN states /\ states[path]

\* _evaluate_node: the result and the leaf states it leaves behind.  Children
\* are evaluated in order, every one of them.
RECURSIVE _evaluate_node(_, _, _, _)
_evaluate_node(node, snap, states, path) ==
    IF node.kind = "leaf"
    THEN LET latched == LatchedAt(states, path)
         IN  [result |-> _evaluate_leaf(node, snap, latched),
              states |-> [p \in DOMAIN states \cup {path} |->
                            IF p = path THEN LatchAfter(node, snap, latched)
                            ELSE states[p]]]
    ELSE LET step(acc, i) ==
                 LET r == _evaluate_node(node.predicates[i], snap,
                                         acc.states, Append(path, i))
                 IN  [results |-> acc.results \cup {r.result},
                      states  |-> r.states]
             done == FoldLeft(step, [results |-> {}, states |-> states],
                              [i \in 1..Len(node.predicates) |-> i])
         IN  [result |-> Combine(node.op, done.results), states |-> done.states]

\* evaluate_condition: one shot, throwaway leaf states.
evaluate_condition(node, snap) ==
    _evaluate_node(node, snap, <<>>, <<>>).result = True

\* explain_condition's "result": stale and missing count as false, groups are
\* all() / any().
RECURSIVE explain_condition(_, _)
explain_condition(node, snap) ==
    IF node.kind = "leaf" THEN Decidable(node, snap) /\ RawTrue(node, snap)
    ELSE LET holds(i) == explain_condition(node.predicates[i], snap)
         IN  IF node.op = "AND" THEN \A i \in DOMAIN node.predicates : holds(i)
             ELSE \E i \in DOMAIN node.predicates : holds(i)

RECURSIVE referenced_signals(_)
referenced_signals(node) ==
    IF node.kind = "leaf"
    THEN {node.signal} \cup
         (IF Scalar(node) /\ node.rhs.source = "metric" THEN {node.rhs.signal}
          ELSE {})
    ELSE UNION {referenced_signals(node.predicates[i]) :
                   i \in DOMAIN node.predicates}

\* _snapshot_for_signals: the cache entries the rule asked for, nothing else.
_snapshot_for_signals(signals, c) ==
    [s \in Signals |-> IF s \in signals THEN c[s] ELSE NoValue]

\* Leaves by path.
RECURSIVE LeavesAt(_, _)
LeavesAt(node, path) ==
    IF node.kind = "leaf" THEN {[path |-> path, leaf |-> node]}
    ELSE UNION {LeavesAt(node.predicates[i], Append(path, i)) :
                   i \in DOMAIN node.predicates}
Leaves(node) == LeavesAt(node, <<>>)

-----------------------------------------------------------------------------
Init ==
    /\ tree \in Trees
    /\ cache = [s \in Signals |-> NoValue]
    /\ latches = <<>> /\ solo = <<>> /\ flipped = <<>>

\* evaluate_and_dispatch up to and including evaluate's tree walk: the outgoing
\* value moves to previous, and a rule that references the signal is walked.
Reading(s, v) ==
    LET prior == cache[s]
        next  == [cache EXCEPT ![s] =
                    [value |-> v, age |-> 0,
                     previous |-> IF prior = NoValue THEN NoValue
                                  ELSE [value |-> prior.value]]]
        snap  == _snapshot_for_signals(referenced_signals(tree), next)
        r     == _evaluate_node(tree, snap, latches, <<>>)
        paths == {l.path : l \in Leaves(tree)}
        at(p) == (CHOOSE l \in Leaves(tree) : l.path = p).leaf
        alone == [p \in paths |-> LatchAfter(at(p), next, LatchedAt(solo, p))]
    IN  /\ cache' = next
        /\ IF s \in referenced_signals(tree)
           THEN /\ latches' = r.states
                /\ solo' = alone
                /\ flipped' = [p \in paths |->
                      IF Banded(at(p)) /\ LatchedAt(latches, p) # r.states[p]
                      THEN {next[at(p).signal].value}
                      ELSE IF p \in DOMAIN flipped THEN flipped[p] ELSE {}]
           ELSE UNCHANGED <<latches, solo, flipped>>
        /\ UNCHANGED tree

Tick ==
    /\ cache' = [s \in Signals |->
          IF _signal_state(cache[s]) = "fresh" THEN [cache[s] EXCEPT !.age = @ + 1]
          ELSE cache[s]]
    /\ UNCHANGED <<tree, latches, solo, flipped>>

\* update_rule, seen through align_state_to_condition: a different condition
\* starts with no latches.
Edit(c) ==
    /\ c # tree
    /\ tree' = c
    /\ latches' = <<>> /\ solo' = <<>> /\ flipped' = <<>>
    /\ UNCHANGED cache

Next ==
    \/ \E s \in Signals, v \in Values : Reading(s, v)
    \/ Tick
    \/ \E c \in Trees : Edit(c)

Spec == Init /\ [][Next]_vars

-----------------------------------------------------------------------------
(***************************************************************************)
(* Properties                                                              *)
(***************************************************************************)

TypeOK ==
    /\ tree \in Trees
    /\ \A s \in Signals :
          cache[s] # NoValue =>
              cache[s].value \in Values /\ cache[s].age \in 0..(MaxAge + 1)
    /\ DOMAIN latches \in {{}, {l.path : l \in Leaves(tree)}}
    /\ \A p \in DOMAIN latches : latches[p] \in BOOLEAN

\* What the rule would evaluate to now, on the signals it references.
Current ==
    _evaluate_node(tree, _snapshot_for_signals(referenced_signals(tree), cache),
                   latches, <<>>)

\* The tree's value in two-valued logic when the leaf at path p is truth[p].
RECURSIVE Boolean(_, _, _)
Boolean(node, truth, path) ==
    IF node.kind = "leaf" THEN truth[path]
    ELSE LET child(i) == Boolean(node.predicates[i], truth, Append(path, i))
         IN  IF node.op = "AND" THEN \A i \in DOMAIN node.predicates : child(i)
             ELSE \E i \in DOMAIN node.predicates : child(i)

\* Every way the undecidable leaves could turn out to be.
Completions ==
    LET paths == {l.path : l \in Leaves(tree)}
    IN  {f \in [paths -> BOOLEAN] :
           \A l \in Leaves(tree) :
              Decidable(l.leaf, cache) =>
                f[l.path] = LatchAfter(l.leaf, cache,
                                       LatchedAt(latches, l.path))}

\* Stale and missing data are handled exactly: the tree is known true (false)
\* just when it is true (false) however the undecidable leaves turn out, and
\* unknown otherwise (_evaluate_node's Kleene logic, as _evaluate_leaf's docstring
\* has it; _signal_state's says otherwise, see StaleLeavesAreFalse).
KleeneIsExact ==
    LET outcomes == {Boolean(tree, f, <<>>) : f \in Completions}
    IN  Current.result = CASE outcomes = {TRUE}  -> True
                           [] outcomes = {FALSE} -> False
                           [] OTHER              -> Unknown

\* "_evaluate_leaf (which collapses stale and missing into a False leaf)"
\* (evaluators.py:230-231), "silently failing leaves closed" (schemas.py:319): the
\* code does not, and no run checks it.  Such a leaf is unknown, and it matters: a
\* false condition runs the clear delay and ends the episode, an unknown one never.
StaleLeavesAreFalse ==
    LET f == CHOOSE f \in Completions :
               \A l \in Leaves(tree) : ~Decidable(l.leaf, cache) => ~f[l.path]
    IN  Current.result = Truth(Boolean(tree, f, <<>>))

\* The simulate view and the "Run now" path agree on every reachable signal
\* cache, although one is two-valued and sees every signal and the other is
\* three-valued and sees only what referenced_signals asked for.
ExplainAgreesWithRun ==
    explain_condition(tree, cache) =
    evaluate_condition(tree,
        _snapshot_for_signals(referenced_signals(tree), cache))

\* A tree means one thing, to the evaluator and to the simulate view: what its
\* leaves say, with missing data neither invented nor ignored.
TreesMeanWhatTheySay == KleeneIsExact /\ ExplainAgreesWithRun

\* A leaf's latch never depends on its siblings: it is what it would be had the
\* leaf been evaluated alone, on every signal, at each of the rule's
\* evaluations (no short-circuit, no missing right-hand signal, no shared path).
LatchesAreIndependent == latches = solo

\* A latch of an inequality against a constant flips back only after its signal
\* has crossed the whole hysteresis band, whatever gaps, stale periods and
\* other readings came between (_rearm_condition_met): the relay cannot flap
\* inside the band.
FlipsCrossTheBand ==
    [][tree' = tree =>
         \A l \in Leaves(tree) :
            /\ Banded(l.leaf)
            /\ LatchedAt(latches, l.path) # LatchedAt(latches', l.path)
            /\ l.path \in DOMAIN flipped
            => \A u \in flipped[l.path] : \A v \in flipped'[l.path] :
                  u - v > l.leaf.hysteresis \/ v - u > l.leaf.hysteresis]_vars
=============================================================================
