------------------------------- MODULE RuleEdit -------------------------------
(***************************************************************************)
(* Concurrent saves of one rule: PATCH requests running update_rule, each    *)
(* in its own READ COMMITTED transaction.  A request reads the row, applies  *)
(* its patch to the copy, validates the copy, writes the columns that differ *)
(* from what it read (the ORM's flush; the UPDATE takes the row lock) and    *)
(* appends a version with a snapshot of the copy.                            *)
(*                                                                           *)
(* Of the rule, strategy (in execution_policy), clear (clear_actions are     *)
(* not empty) and name stand for its columns.                                *)
(***************************************************************************)
EXTENDS Integers, Sequences, FiniteSets, TLAPS

CONSTANTS
    Requests,       \* the PATCH requests
    MaxPatches      \* bound on the columns one request patches

ASSUME EditBounds == MaxPatches \in Nat

Columns == {"strategy", "clear", "name"}
Rule == [strategy : {"edge", "latch"}, clear : BOOLEAN, name : {"a", "b"}]

\* What a request may send: some columns with new values.
Patch ==
    UNION {{[c \in cs |-> r[c]] : r \in Rule} :
              cs \in {s \in SUBSET Columns : s # {} /\ Cardinality(s) <= MaxPatches}}

VARIABLES
    row,        \* rules, committed
    history,    \* rule_versions, committed: the snapshots in version order
    lock,       \* who holds the row lock: a set of at most one request
    req         \* the requests

vars == <<row, history, lock, req>>

\* A request's transaction: what it read, what it wants saved, its version
\* number (0: none written).
Idle == [phase |-> "idle", before |-> row, after |-> row, number |-> 0]

Phases == {"idle", "read", "flushed", "done", "rejected", "conflict"}

TypeOK ==
    /\ row \in Rule
    /\ history \in Seq(Rule)
    /\ lock \subseteq Requests /\ \A p, q \in lock : p = q
    /\ req \in [Requests -> [phase : Phases, before : Rule, after : Rule, number : Nat]]

\* _validate_latch
ValidRule(r) == ~(r.strategy = "latch" /\ r.clear)

\* The rule was created with its first version (_persist_rule).
Init ==
    /\ row \in {r \in Rule : ValidRule(r) /\ r.name = "a"}
    /\ history = <<row>>
    /\ lock = {}
    /\ req = [q \in Requests |-> Idle]

Changed(before, after) == {c \in Columns : before[c] # after[c]}
Patched(r, patch) == [c \in Columns |-> IF c \in DOMAIN patch THEN patch[c] ELSE r[c]]

-----------------------------------------------------------------------------
\* get_rule, the assignments and the validation.
Read(q, patch) ==
    LET after == Patched(row, patch)
    IN  /\ req[q].phase = "idle"
        /\ req' = [req EXCEPT ![q] =
              [phase  |-> IF ValidRule(after) THEN "read" ELSE "rejected",
               before |-> row, after |-> after, number |-> 0]]
        /\ UNCHANGED <<row, history, lock>>

\* change_lines: nothing changed, nothing to record.
NextVersion(q) ==
    IF Changed(req[q].before, req[q].after) = {} THEN 0 ELSE Len(history) + 1

\* Mutant: the version is computed without the row lock.
FlushUnlocked(q) ==
    /\ req[q].phase = "read"
    /\ req' = [req EXCEPT ![q].phase = "flushed", ![q].number = NextVersion(q)]
    /\ UNCHANGED <<row, history, lock>>

\* session.flush, then record_version under the row lock the UPDATE took.  With
\* no column changed there is no UPDATE, no lock and no version.
Flush(q) ==
    /\ req[q].phase = "read"
    /\ \/ Changed(req[q].before, req[q].after) = {} /\ UNCHANGED lock
       \/ lock = {} /\ Changed(req[q].before, req[q].after) # {} /\ lock' = {q}
    /\ req' = [req EXCEPT ![q].phase = "flushed", ![q].number = NextVersion(q)]
    /\ UNCHANGED <<row, history>>

\* The row after the UPDATE: only the changed columns are written.
Written(q) ==
    [c \in Columns |->
        IF c \in Changed(req[q].before, req[q].after) THEN req[q].after[c] ELSE row[c]]

\* The commit; a version number that is taken violates
\* uq_rule_versions_rule_version and rolls the save back.
Commit(q) ==
    /\ req[q].phase = "flushed"
    /\ lock' = lock \ {q}
    /\ IF req[q].number = 0
       THEN req' = [req EXCEPT ![q].phase = "done"] /\ UNCHANGED <<row, history>>
       ELSE IF req[q].number # Len(history) + 1
       THEN req' = [req EXCEPT ![q].phase = "conflict"] /\ UNCHANGED <<row, history>>
       ELSE /\ row' = Written(q)
            /\ history' = Append(history, req[q].after)
            /\ req' = [req EXCEPT ![q].phase = "done"]

Next ==
    \E q \in Requests :
        \/ \E patch \in Patch : Read(q, patch)
        \/ Flush(q)
        \/ Commit(q)

Spec == Init /\ [][Next]_vars

-----------------------------------------------------------------------------
(***************************************************************************)
(* Properties                                                              *)
(***************************************************************************)

\* No save fails because a concurrent save took its version number: the number
\* is computed after the UPDATE took the row lock (update_rule flushes before
\* it calls record_version).
NoVersionConflict == \A q \in Requests : req[q].phase # "conflict"

\* The request that holds the row lock is the only one with a number to commit,
\* and its number is still the next one: nobody appends while it has the lock.
LockedNumber ==
    \A q \in Requests : req[q].phase = "flushed" /\ req[q].number # 0 =>
        lock = {q} /\ req[q].number = Len(history) + 1

\* The inductive invariant.
EditInv == TypeOK /\ LockedNumber /\ NoVersionConflict

\* The committed rule passes the validation every save passed.
SavedRuleIsValid == ValidRule(row)

\* The newest version is the committed rule.
LatestVersionIsRule == history[Len(history)] = row

-----------------------------------------------------------------------------
(***************************************************************************)
(* Proof that concurrent saves never collide on a version number, for any  *)
(* number of requests and any patches.                                     *)
(***************************************************************************)

\* A patch applied to a rule is a rule: every column a request sends has a
\* value of its type (the assignments of update_rule).
LEMMA PatchedIsRule ==
    ASSUME NEW r \in Rule, NEW patch \in Patch
    PROVE  Patched(r, patch) \in Rule
<1>1. PICK cs \in SUBSET Columns, s \in Rule : patch = [c \in cs |-> s[c]]
  BY DEF Patch
<1>2. Patched(r, patch) = [c \in Columns |-> IF c \in cs THEN s[c] ELSE r[c]]
  BY <1>1 DEF Patched
<1>3. QED
  BY <1>2 DEF Columns, Rule

\* What a request writes over the committed row is a rule.
LEMMA WrittenIsRule ==
    ASSUME TypeOK, NEW q \in Requests
    PROVE  Written(q) \in Rule
<1>1. row \in Rule /\ req[q].after \in Rule
  BY DEF TypeOK
<1>2. QED
  BY <1>1 DEF Written, Columns, Rule

\* Reading and validating changes only the request's own copy.
LEMMA ReadStep ==
    ASSUME EditInv, NEW q \in Requests, NEW patch \in Patch, Read(q, patch)
    PROVE  EditInv'
<1> DEFINE after == Patched(row, patch)
           new   == [phase  |-> IF ValidRule(after) THEN "read" ELSE "rejected",
                     before |-> row, after |-> after, number |-> 0]
<1>1. /\ req' = [req EXCEPT ![q] = new]
      /\ row' = row /\ history' = history /\ lock' = lock
  BY DEF Read
<1>2. after \in Rule
  BY PatchedIsRule DEF EditInv, TypeOK
<1> HIDE DEF after
<1>3. /\ new \in [phase : Phases, before : Rule, after : Rule, number : Nat]
      /\ new.phase \in {"read", "rejected"}
  BY <1>2 DEF EditInv, TypeOK, Phases
<1> HIDE DEF new
<1>4. TypeOK'
  BY <1>1, <1>3 DEF EditInv, TypeOK
<1>5. LockedNumber' /\ NoVersionConflict'
  BY <1>1, <1>3 DEF EditInv, TypeOK, LockedNumber, NoVersionConflict
<1>6. QED
  BY <1>4, <1>5 DEF EditInv

\* A flush that has something to save takes the free row lock before it computes
\* its number, so no other request has one (session.flush, record_version).
LEMMA FlushStep ==
    ASSUME EditInv, NEW q \in Requests, Flush(q)
    PROVE  EditInv'
<1>1. /\ req' = [req EXCEPT ![q].phase = "flushed", ![q].number = NextVersion(q)]
      /\ row' = row /\ history' = history
      /\ \/ NextVersion(q) = 0 /\ lock' = lock
         \/ NextVersion(q) = Len(history) + 1 /\ lock = {} /\ lock' = {q}
  BY DEF Flush, NextVersion
<1>2. TypeOK'
  <2>1. Len(history) \in Nat
    BY DEF EditInv, TypeOK
  <2>2. NextVersion(q) \in Nat
    BY <1>1, <2>1
  <2>3. req' \in [Requests -> [phase : Phases, before : Rule, after : Rule, number : Nat]]
    BY <1>1, <2>2 DEF EditInv, TypeOK, Phases
  <2>4. lock' \subseteq Requests /\ \A p, r \in lock' : p = r
    BY <1>1 DEF EditInv, TypeOK
  <2>5. QED
    BY <1>1, <2>3, <2>4 DEF EditInv, TypeOK
<1>3. LockedNumber'
  BY <1>1 DEF EditInv, TypeOK, LockedNumber
<1>4. NoVersionConflict'
  BY <1>1 DEF EditInv, TypeOK, NoVersionConflict
<1>5. QED
  BY <1>2, <1>3, <1>4 DEF EditInv

\* A commit finds its number free, appends its version and gives the lock back.
LEMMA CommitStep ==
    ASSUME EditInv, NEW q \in Requests, Commit(q)
    PROVE  EditInv'
<1>1. CASE req[q].number = 0
  <2>1. /\ req' = [req EXCEPT ![q].phase = "done"] /\ lock' = lock \ {q}
        /\ row' = row /\ history' = history
    BY <1>1 DEF Commit
  <2>2. TypeOK'
    BY <2>1 DEF EditInv, TypeOK, Phases
  <2>3. LockedNumber' /\ NoVersionConflict'
    BY <2>1 DEF EditInv, TypeOK, LockedNumber, NoVersionConflict
  <2>4. QED
    BY <2>2, <2>3 DEF EditInv
<1>2. CASE req[q].number # 0
  <2>1. lock = {q} /\ req[q].number = Len(history) + 1
    BY <1>2 DEF Commit, EditInv, LockedNumber
  <2>2. /\ req' = [req EXCEPT ![q].phase = "done"] /\ lock' = lock \ {q}
        /\ row' = Written(q) /\ history' = Append(history, req[q].after)
    BY <1>2, <2>1 DEF Commit
  <2>3. history' \in Seq(Rule)
    BY <2>2 DEF EditInv, TypeOK
  <2>4. TypeOK'
    BY <2>2, <2>3, WrittenIsRule DEF EditInv, TypeOK, Phases
  <2>5. NoVersionConflict'
    BY <2>2 DEF EditInv, TypeOK, NoVersionConflict
  <2>6. LockedNumber'
    <3> SUFFICES ASSUME NEW p \in Requests, req'[p].phase = "flushed",
                        req'[p].number # 0
                 PROVE  FALSE
      BY DEF LockedNumber
    <3>1. p # q
      BY <2>2 DEF EditInv, TypeOK
    <3>2. req[p].phase = "flushed" /\ req[p].number # 0
      BY <2>2, <3>1 DEF EditInv, TypeOK
    <3>3. QED
      BY <2>1, <3>1, <3>2 DEF EditInv, LockedNumber
  <2>7. QED
    BY <2>4, <2>5, <2>6 DEF EditInv
<1>3. QED
  BY <1>1, <1>2

\* The rule, its history, the lock and the requests fit together at all times:
\* whoever is about to commit a version holds the row lock.
THEOREM EditInvariant == Spec => []EditInv
<1>1. Init => EditInv
  <2> SUFFICES ASSUME Init PROVE EditInv
    OBVIOUS
  <2>1. /\ row \in Rule /\ history = <<row>> /\ lock = {}
        /\ req = [q \in Requests |-> Idle]
    BY DEF Init
  <2>2. history \in Seq(Rule)
    BY <2>1
  <2>3. Idle \in [phase : Phases, before : Rule, after : Rule, number : Nat]
    BY <2>1 DEF Idle, Phases
  <2>4. TypeOK
    BY <2>1, <2>2, <2>3 DEF TypeOK
  <2>5. QED
    BY <2>1, <2>4 DEF EditInv, LockedNumber, NoVersionConflict, Idle
<1>2. EditInv /\ [Next]_vars => EditInv'
  <2>1. CASE UNCHANGED vars
    BY <2>1 DEF vars, EditInv, TypeOK, LockedNumber, NoVersionConflict
  <2>2. QED
    BY <2>1, ReadStep, FlushStep, CommitStep DEF Next
<1>3. QED
  BY <1>1, <1>2, PTL DEF Spec

\* No save ever fails because a concurrent save took its version number, for any
\* number of concurrent PATCH requests (update_rule, record_version).
THEOREM NoVersionConflictTheorem == Spec => []NoVersionConflict
<1>1. EditInv => NoVersionConflict
  BY DEF EditInv
<1>2. QED
  BY <1>1, EditInvariant, PTL
=============================================================================
