------------------------------- MODULE Delivery -------------------------------
(***************************************************************************)
(* Webhook and e-mail deliveries of a rule (rules/service.py from the end   *)
(* of _dispatch_actions on, rules/executors.py).  A firing's deliveries run *)
(* as background tasks under a semaphore once its execution row is          *)
(* committed; each tries its endpoint a bounded number of times, appends    *)
(* one action_executions row and, when it failed, a notification.  A failed *)
(* delivery is listed until somebody retries it; the retry runs in the API  *)
(* process, which has a semaphore of its own.                               *)
(*                                                                          *)
(* "relay" stands for the actions that end before the rows are written, and *)
(* "notify" for a notification that is e-mailed as well.                    *)
(***************************************************************************)
EXTENDS Naturals, Sequences, FiniteSetsExt

CONSTANTS
    Permits,            \* _DEFERRED_SEMAPHORE
    MaxAttempts,        \* execute_with_retry's max_attempts
    DeliveryQuestions   \* the first actions of the rule, and how often each
                        \* kind of event may happen

VARIABLES
    actions,    \* the rule as stored: its actions per edge
    firing,     \* per loop of the worker: the firing it dispatches
    fired,      \* the firings so far: their edge, and the deliveries they owe
    tasks,      \* _BACKGROUND_TASKS of the worker and of the API
    rows,       \* action_executions, in the order written
    told,       \* the failed rows a delivery_failed notification tells of
    requests,   \* POST .../failed-actions/{id}/retry under way
    draining,   \* run()'s finally waits for the tasks
    deliveryBudget,
    \* ghosts
    resent,     \* the rows retried, one entry per retry
    raced,      \* rows two requests retried at once
    lost        \* deliveries an error or the end of their process cut off

deliveries == <<actions, firing, fired, tasks, rows, told, requests, draining, deliveryBudget,
                resent, raced, lost>>

DeliveryLoops == {"Ingest", "Manual"}
RetrySlots == {1, 2}
NoFiring == [n |-> 0, spawn |-> {}, inline |-> {}]
NoRetry  == [row |-> 0, spawn |-> {}]

\* A delivery: of which firing, its kind and position in the list, and the row
\* it retries (0 for the firing's own).
DeliveryOf(n, kind, index, by) == [firing |-> n, kind |-> kind, index |-> index, by |-> by]

\* _DeferredAction's kind of an action: a notification's e-mail is one too.
DeferredKind(action) == IF action = "webhook" THEN "webhook" ELSE "email"

\* The deferred actions of a list: every webhook and e-mail, and the e-mail of
\* the first notification.
DeferredOf(n, list) ==
  { DeliveryOf(n, DeferredKind(list[i]), i, 0) :
      i \in {j \in DOMAIN list : \/ list[j] \in {"webhook", "email"}
                                 \/ list[j] = "notify" /\ \A k \in 1..(j - 1) : list[k] # "notify"} }

\* A row, written with the execution's own or later by the delivery's task.
RowOf(d, status, byTask) == [of |-> d, status |-> status, byTask |-> byTask, retried |-> FALSE]

DeliveryInit ==
  /\ \E q \in DeliveryQuestions : actions = q.actions /\ deliveryBudget = q.budget
  /\ firing = [l \in DeliveryLoops |-> NoFiring]
  /\ fired = <<>> /\ tasks = {} /\ rows = <<>> /\ told = {} /\ draining = FALSE
  /\ requests = [q \in RetrySlots |-> NoRetry]
  /\ resent = <<>> /\ raced = {} /\ lost = {}

Spend(kind) ==
  /\ deliveryBudget[kind] > 0
  /\ deliveryBudget' = [deliveryBudget EXCEPT ![kind] = @ - 1]

-----------------------------------------------------------------------------
(* Dispatch: the end of _dispatch_actions                                   *)

TasksOf(host) == {t \in tasks : t.host = host}
Holders(host) == {t \in TasksOf(host) : t.phase \in {"trying", "writing", "telling"}}
Waiting(host) == {t \in TasksOf(host) : t.phase = "waiting"}

\* Semaphore.locked(): no permit is free, or somebody waits for one.
Locked(host) == Cardinality(Holders(host)) = Permits \/ Waiting(host) # {}

\* Mutant: the check for a saturated executor is gone.
NeverSaturated == FALSE

Saturated == Locked("worker")

Task(host, d) == [host |-> host, of |-> d, phase |-> "ready", tries |-> 0, status |-> "failed", row |-> 0]

\* A firing or a clear, up to the first await after the check: what the
\* executor has no room for is recorded as failed, the rest is spawned later.
Fire(l, edge) ==
  LET n    == Len(fired) + 1
      list == actions[edge]
      all  == DeferredOf(n, list)
  IN  /\ Spend("fire")
      /\ ~draining /\ firing[l] = NoFiring
      /\ fired' = Append(fired, [edge |-> edge, owes |-> all])
      /\ \E outcome \in {"success", "failed"} :
           LET relays == {RowOf(DeliveryOf(n, "relay", i, 0), outcome, FALSE) :
                            i \in {j \in DOMAIN list : list[j] = "relay"}}
           IN  firing' = [firing EXCEPT ![l] =
                 [n |-> n, spawn |-> IF Saturated THEN {} ELSE all,
                  inline |-> relays \cup (IF Saturated THEN {RowOf(d, "failed", FALSE) : d \in all} ELSE {})]]
      /\ UNCHANGED <<actions, tasks, rows, told, requests, draining, resent, raced, lost>>

AnyOrder(S) == {s \in [1..Cardinality(S) -> S] : \A i, j \in DOMAIN s : s[i] = s[j] => i = j}

\* _record_rule_execution commits, and the tasks are spawned.  The event loop
\* runs the tasks it already has before it hears of the commit.  (Two commits
\* heard in one pass of it are left out: the loops then spawn one after the
\* other, and neither checks saturation again before an await of the database.)
Recorded(l) ==
  /\ firing[l] # NoFiring
  /\ \A t \in TasksOf("worker") : t.phase # "ready"
  /\ \E new \in AnyOrder(firing[l].inline) : rows' = rows \o new
  /\ tasks' = tasks \cup {Task("worker", d) : d \in firing[l].spawn}
  /\ firing' = [firing EXCEPT ![l] = NoFiring]
  /\ UNCHANGED <<actions, fired, told, requests, draining, deliveryBudget, resent, raced, lost>>

\* The history write fails, or its event does after the commit: logged.
\* Without an execution id nothing is spawned.
RecordFails(l) ==
  /\ firing[l] # NoFiring
  /\ Spend("fault")
  /\ \/ /\ lost' = lost \cup fired[firing[l].n].owes
        /\ UNCHANGED rows
     \/ /\ lost' = lost \cup firing[l].spawn
        /\ \E new \in AnyOrder(firing[l].inline) : rows' = rows \o new
  /\ firing' = [firing EXCEPT ![l] = NoFiring]
  /\ UNCHANGED <<actions, fired, tasks, told, requests, draining, resent, raced>>

-----------------------------------------------------------------------------
(* _run_deferred_action                                                     *)

Becomes(t, u) == tasks' = (tasks \ {t}) \cup {u}
Ends(t)       == tasks' = tasks \ {t}
inTask == <<actions, firing, fired, requests, draining, resent, raced>>

\* The task runs up to `async with _DEFERRED_SEMAPHORE`, and past it when there
\* is room; later a permit is freed for it.
Enter(t) ==
  /\ \/ /\ t.phase = "ready"
        /\ Becomes(t, [t EXCEPT !.phase = IF Locked(t.host) THEN "waiting" ELSE "trying"])
     \/ /\ t.phase = "waiting" /\ Cardinality(Holders(t.host)) < Permits
        /\ Becomes(t, [t EXCEPT !.phase = "trying"])
  /\ UNCHANGED <<inTask, rows, told, lost, deliveryBudget>>

\* attempt < max_attempts, for the attempt now under way
AttemptsLeft(t) == t.tries + 1 < MaxAttempts

\* One attempt of execute_with_retry; an answer below 500 is a success.  Or an
\* e-mail has nobody to go to (no_recipients).
Attempt(t) ==
  /\ t.phase = "trying"
  /\ \/ Becomes(t, [t EXCEPT !.phase = "writing", !.status = "success", !.tries = @ + 1])
     \/ /\ AttemptsLeft(t)
        /\ Becomes(t, [t EXCEPT !.tries = @ + 1])
     \/ /\ ~AttemptsLeft(t)
        /\ Becomes(t, [t EXCEPT !.phase = "writing", !.tries = @ + 1])
     \/ /\ t.of.kind = "email" /\ t.tries = 0
        /\ Becomes(t, [t EXCEPT !.phase = "writing"])
  /\ UNCHANGED <<inTask, rows, told, lost, deliveryBudget>>

\* _write_deferred_result; a database error ends the task without a row, and an
\* error of the event after the commit ends it with one.
WriteResult(t) ==
  /\ t.phase = "writing"
  /\ \/ /\ rows' = Append(rows, RowOf(t.of, t.status, TRUE))
        /\ IF t.status = "failed"
           THEN Becomes(t, [t EXCEPT !.phase = "telling", !.row = Len(rows) + 1])
           ELSE Ends(t)
        /\ UNCHANGED <<lost, deliveryBudget>>
     \/ /\ Spend("fault")
        /\ lost' = lost \cup {t.of}
        /\ Ends(t)
        /\ UNCHANGED rows \/ rows' = Append(rows, RowOf(t.of, t.status, TRUE))
  /\ UNCHANGED <<inTask, told>>

\* _notify_delivery_failed, which swallows an error of its own.
Tell(t) ==
  /\ t.phase = "telling"
  /\ \/ told' = told \cup {t.row} /\ UNCHANGED <<lost, deliveryBudget>>
     \/ Spend("fault") /\ lost' = lost \cup {t.of} /\ UNCHANGED told
  /\ Ends(t)
  /\ UNCHANGED <<inTask, rows>>

TaskStep == \E t \in tasks : Enter(t) \/ Attempt(t) \/ WriteResult(t) \/ Tell(t)

-----------------------------------------------------------------------------
(* retry_failed_action, and edits of the rule                               *)

\* The action a retry sends: the one at the failed row's position now, if it is
\* still of the same kind.
Resend(r) ==
  LET d    == rows[r].of
      list == actions[fired[d.firing].edge]
  IN  { DeliveryOf(d.firing, d.kind, d.index, r) :
          i \in {j \in DOMAIN list : /\ j = d.index /\ list[j] \in {"webhook", "email", "notify"}
                                     /\ DeferredKind(list[j]) = d.kind} }

Retryable(r) ==
  /\ rows[r].status = "failed" /\ ~rows[r].retried
  /\ rows[r].of.kind \in {"webhook", "email"}

\* The request reads the row and the rule, without a lock.
RetryReads(q, r) ==
  /\ Spend("retry")
  /\ requests[q] = NoRetry
  /\ Retryable(r) /\ Resend(r) # {}
  /\ requests' = [requests EXCEPT ![q] = [row |-> r, spawn |-> Resend(r)]]
  /\ raced' = raced \cup (IF \E p \in RetrySlots : requests[p].row = r THEN {r} ELSE {})
  /\ UNCHANGED <<actions, firing, fired, tasks, rows, told, draining, resent, lost>>

\* retried_at is committed, and the post-commit callback spawns the task.
RetryCommits(q) ==
  LET r == requests[q].row
  IN  /\ requests[q] # NoRetry
      /\ rows' = [rows EXCEPT ![r].retried = TRUE]
      /\ tasks' = tasks \cup {Task("api", d) : d \in requests[q].spawn}
      /\ resent' = Append(resent, r)
      /\ requests' = [requests EXCEPT ![q] = NoRetry]
      /\ UNCHANGED <<actions, firing, fired, told, draining, deliveryBudget, raced, lost>>

EditActions(edge, list) ==
  /\ Spend("edit")
  /\ actions' = [actions EXCEPT ![edge] = list]
  /\ UNCHANGED <<firing, fired, tasks, rows, told, requests, draining, resent, raced, lost>>

-----------------------------------------------------------------------------
(* The ends of the processes                                                *)

Cut(host) == {t.of : t \in TasksOf(host)}
Dispatched == UNION {IF firing[l] = NoFiring THEN {} ELSE fired[firing[l].n].owes : l \in DeliveryLoops}

\* The loops are cancelled at their awaits; run() then waits for the tasks.
StopWorker ==
  /\ ~draining
  /\ Spend("end")
  /\ draining' = TRUE
  /\ lost' = lost \cup Dispatched
  /\ firing' = [l \in DeliveryLoops |-> NoFiring]
  /\ UNCHANGED <<actions, fired, tasks, rows, told, requests, resent, raced>>

\* The wait times out, or all are done; the worker restarts.
Drained ==
  /\ draining
  /\ draining' = FALSE
  /\ tasks' = tasks \ TasksOf("worker")
  /\ lost' = lost \cup Cut("worker")
  /\ UNCHANGED <<actions, firing, fired, rows, told, requests, deliveryBudget, resent, raced>>

EndApi ==
  /\ Spend("end")
  /\ tasks' = tasks \ TasksOf("api")
  /\ requests' = [q \in RetrySlots |-> NoRetry]
  /\ lost' = lost \cup Cut("api")
  /\ UNCHANGED <<actions, firing, fired, rows, told, draining, resent, raced>>

DeliveryNext ==
  \/ \E l \in DeliveryLoops : Recorded(l) \/ RecordFails(l) \/ \E edge \in DOMAIN actions : Fire(l, edge)
  \/ TaskStep
  \/ \E q \in RetrySlots : RetryCommits(q) \/ \E r \in DOMAIN rows : RetryReads(q, r)
  \/ \E edge \in DOMAIN actions, list \in {<<>>, <<"webhook">>, <<"email">>} : EditActions(edge, list)
  \/ StopWorker \/ Drained \/ EndApi

-----------------------------------------------------------------------------
(* Properties                                                               *)

DeliveryTypeOK ==
  /\ \A l \in DeliveryLoops : firing[l].n \in 0..Len(fired)
  /\ \A t \in tasks : t.phase \in {"ready", "waiting", "trying", "writing", "telling"}
  /\ told \subseteq DOMAIN rows
  /\ \A h \in {"worker", "api"} : Cardinality(Holders(h)) <= Permits

\* What is known of a delivery: its rows, its tasks that will write one, and
\* whether the firing that owes it is still being dispatched.
RowsOf(d)     == {r \in DOMAIN rows : rows[r].of = d}
PendingOf(d)  == {t \in tasks : t.of = d /\ t.phase # "telling"}
InDispatch(d) == d \in Dispatched

\* Every delivery a firing owes, and every retry, is under way or has exactly
\* one row, unless an error or the end of its process cut it off: a saturated
\* executor is recorded, nothing is sent for a firing and then recorded twice.
Accounted(d) ==
  LET known == Cardinality(RowsOf(d)) + Cardinality(PendingOf(d)) + (IF InDispatch(d) THEN 1 ELSE 0)
  IN  known <= 1 /\ (known = 0 => d \in lost)
EveryDeliveryAccounted ==
  /\ \A n \in DOMAIN fired : \A d \in fired[n].owes : Accounted(d)
  /\ \A r \in DOMAIN rows : rows[r].retried /\ r \notin raced =>
       Accounted([rows[r].of EXCEPT !.by = r])

\* Every delivery given up by its task reaches the notifications, unless the
\* process ends in between (_notify_delivery_failed).
GivenUpIsTold ==
  \A r \in DOMAIN rows : rows[r].status = "failed" /\ rows[r].byTask =>
    r \in told \/ rows[r].of \in lost \/ \E t \in tasks : t.row = r

\* "This delivery was already retried": one retry per failed row, unless two
\* requests read it at once.
RetriedOnce == \A i, j \in DOMAIN resent : i # j /\ resent[i] = resent[j] => resent[i] \in raced

\* The same of any two requests.
NeverRetriedTwice == \A i, j \in DOMAIN resent : resent[i] = resent[j] => i = j

\* "rather than piling up unbounded background tasks": a burst passes the check
\* before its tasks take their permits, but no more than what each loop may have
\* in hand.
MostDeferred == Max({Cardinality(fired[n].owes) : n \in DOMAIN fired})
TasksBounded ==
  fired # <<>> =>
    Cardinality(TasksOf("worker")) < Permits + (Cardinality(DeliveryLoops) + 1) * MostDeferred

\* What they rest on.  A firing in dispatch is one loop's, with nothing written or
\* spawned for it; what it will spawn and what it will write are its deliveries,
\* each once.  A task, or a row, that retries is of a row marked retried.  Of what
\* was not cut off there is one row, or one task that will write it.
ActionKinds == {"relay", "notify", "webhook", "email"}
Deliveries == [firing : Nat, kind : {"webhook", "email", "relay"}, index : Nat, by : Nat]
Statuses   == {"success", "failed"}
RowSet     == [of : Deliveries, status : Statuses, byTask : BOOLEAN, retried : BOOLEAN]
TaskSet    == [host : {"worker", "api"}, of : Deliveries, tries : Nat, status : Statuses, row : Nat,
               phase : {"ready", "waiting", "trying", "writing", "telling"}]
FiringSet  == [n : Nat, spawn : SUBSET Deliveries, inline : SUBSET RowSet]
RetryOf(r) == [rows[r].of EXCEPT !.by = r]
DeliveryTypes ==
  /\ \A edge \in DOMAIN actions : actions[edge] \in Seq(ActionKinds)
  /\ fired \in Seq([edge : DOMAIN actions, owes : SUBSET Deliveries])
  /\ firing \in [DeliveryLoops -> FiringSet]
  /\ tasks \subseteq TaskSet /\ IsFiniteSet(tasks)
  /\ rows \in Seq(RowSet) /\ told \subseteq DOMAIN rows
  /\ requests \in [RetrySlots -> [row : Nat, spawn : SUBSET Deliveries]]
  /\ resent \in Seq(Nat)
OwesKnown ==
  \A n \in DOMAIN fired :
    IsFiniteSet(fired[n].owes) /\ \A d \in fired[n].owes : d.firing = n /\ d.by = 0 /\ d.kind # "relay"
FiringKnown(l) ==
  LET f == firing[l]
      n == f.n
  IN  /\ n \in DOMAIN fired
      /\ IsFiniteSet(f.inline)
      /\ \A x \in f.inline : x.of.firing = n /\ x.of.by = 0 /\ ~x.byTask /\ ~x.retried
      /\ \/ f.spawn = fired[n].owes /\ \A x \in f.inline : x.of \notin fired[n].owes
         \/ f.spawn = {} /\ \A d \in fired[n].owes : \E x \in f.inline : \A y \in f.inline : y.of = d <=> y = x
      /\ \A r \in DOMAIN rows : rows[r].of.firing # n
      /\ \A t \in tasks : t.of.firing # n
      /\ \A k \in DeliveryLoops : firing[k].n = n => k = l
TaskKnown(t) ==
  /\ t.of.firing \in DOMAIN fired
  /\ t.host = "worker" => t.of.by = 0 /\ t.of \in fired[t.of.firing].owes
  /\ t.host = "api" => t.of.by \in DOMAIN rows /\ rows[t.of.by].retried /\ t.of = RetryOf(t.of.by)
  /\ IF t.phase = "telling" THEN t.row \in DOMAIN rows /\ rows[t.row].of = t.of ELSE t.row = 0
RowKnown(r) ==
  LET d == rows[r].of
  IN  /\ d.firing \in DOMAIN fired
      /\ d.by # 0 => d.by \in DOMAIN rows /\ rows[d.by].retried /\ d = RetryOf(d.by)
RetryKnown(q) ==
  LET r == requests[q].row
  IN  /\ r \in DOMAIN rows /\ requests[q].spawn = {RetryOf(r)}
      /\ r \notin raced => ~rows[r].retried /\ \A p \in RetrySlots : requests[p].row = r => p = q
Single(d) ==
  /\ \A r, s \in RowsOf(d) : r = s
  /\ \A t, u \in PendingOf(d) : t = u
  /\ RowsOf(d) = {} \/ PendingOf(d) = {}
  /\ InDispatch(d) => RowsOf(d) = {} /\ PendingOf(d) = {}
  /\ InDispatch(d) \/ RowsOf(d) # {} \/ PendingOf(d) # {} \/ d \in lost
DispatchKnown ==
  /\ OwesKnown
  /\ \A l \in DeliveryLoops : firing[l] = NoFiring \/ FiringKnown(l)
  /\ \A t \in tasks : TaskKnown(t)
  /\ \A r \in DOMAIN rows : RowKnown(r)
  /\ \A q \in RetrySlots : requests[q] = NoRetry \/ RetryKnown(q)
  /\ \A i \in DOMAIN resent : resent[i] \in DOMAIN rows /\ rows[resent[i]].retried
AllSingle ==
  /\ \A n \in DOMAIN fired : \A d \in fired[n].owes : Single(d)
  /\ \A r \in DOMAIN rows : rows[r].retried /\ r \notin raced => Single(RetryOf(r))

\* Permits are kept to, and what the loops have in hand counts with the tasks.
PermitsKept == \A h \in {"worker", "api"} : Cardinality(Holders(h)) <= Permits
Ready == {t \in TasksOf("worker") : t.phase = "ready"}
TasksCounted ==
  fired # <<>> =>
    /\ \E n \in DOMAIN fired : \A k \in DOMAIN fired : Cardinality(fired[k].owes) <= Cardinality(fired[n].owes)
    /\ Cardinality(Ready) <= MostDeferred
    /\ Cardinality(TasksOf("worker")) + Cardinality(firing["Ingest"].spawn) + Cardinality(firing["Manual"].spawn)
         < Permits + 3 * MostDeferred

DeliveryInv ==
  DeliveryTypes /\ DispatchKnown /\ AllSingle /\ GivenUpIsTold /\ RetriedOnce /\ PermitsKept /\ TasksCounted

\* Deliveries end: tasks give their permits back and no retry loop goes on.
DeliveryWaits == tasks # {} \/ \E l \in DeliveryLoops : firing[l] # NoFiring
DeliverySettles == TaskStep \/ \E l \in DeliveryLoops : Recorded(l)
=============================================================================
