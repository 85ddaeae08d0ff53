--------------------------- MODULE MCConditionTree ---------------------------
(* Trees that use every operator, both kinds of right-hand side and nested    *)
(* groups, over two signals.                                                  *)
EXTENDS ConditionTree

CONSTANTS a, b      \* the two signals

MCSignals == {a, b}

Static(v)  == [source |-> "static", value |-> v]
Metric(s)  == [source |-> "metric", signal |-> s]
Leaf(s, op, rhs, h) == [kind |-> "leaf", signal |-> s, operator |-> op,
                        rhs |-> rhs, hysteresis |-> h]
Group(op, children) == [kind |-> "group", op |-> op, predicates |-> children]
NoRhs == [source |-> "none"]

MCTrees == {
    \* one latched leaf (path <<>>)
    Leaf(a, ">", Static(1), 1),
    \* one leaf against another signal
    Leaf(a, "<=", Metric(b), 1),
    \* AND of a latch and a range
    Group("AND", <<Leaf(a, ">=", Static(2), 1),
                   Leaf(b, "not_between", [source |-> "range", low |-> 1, high |-> 2], 0)>>),
    \* OR of two latches on the same signal
    Group("OR", <<Leaf(a, "<", Static(1), 1), Leaf(a, ">", Static(2), 0)>>),
    \* nested: OR under AND, with change and set operators
    Group("AND", <<Leaf(a, "increased", NoRhs, 0),
                   Group("OR", <<Leaf(b, "in", [source |-> "set", values |-> {0, 3}], 0),
                                 Leaf(a, "==", Static(3), 0)>>)>>),
    \* nested: AND under OR, with metric-vs-metric
    Group("OR", <<Group("AND", <<Leaf(a, "changed", NoRhs, 0),
                                 Leaf(b, "!=", Metric(a), 0)>>),
                  Leaf(b, "decreased", NoRhs, 0),
                  Leaf(a, "not_in", [source |-> "set", values |-> {0, 1, 2}], 0)>>),
    Group("AND", <<Leaf(b, "between", [source |-> "range", low |-> 1, high |-> 3], 0),
                   Leaf(b, "<", Static(3), 1)>>)}
=============================================================================
