------------------------------ MODULE MCCommands ------------------------------
(***************************************************************************)
(* What leaves the platform and what comes back, for TLC: one row on screen  *)
(* with the worker behind it (part = "row"), the board that runs the         *)
(* generated sketch ("board"), a rule's webhooks and e-mails ("delivery"),   *)
(* the watch over the rules' signals ("health"), or the rules that no reading  *)
(* triggers ("status", "schedule").  One question at a time; the other parts  *)
(* stay at their first state.                                                *)
(***************************************************************************)
EXTENDS ActuatorRow, Sketch

CONSTANTS
    Permits, MaxAttempts, DeliveryQuestions,                            \* Delivery
    HealthRules, RenotifyAfter, MaxClock, HealthQuestions,              \* RuleHealth
    Watchers, StatusQuestions,                                          \* EventTriggers
    Scheduled, Cron, PerMinute, MaxTicks, ScheduleQuestions

VARIABLES
    part,
    actions, firing, fired, tasks, results, told, retries, draining,    \* Delivery
    deliveryBudget, resent, raced, cut,
    cachedRules, fresh, track, walk, passes, heard, alerts,             \* RuleHealth
    healthBudget, flips, missed,
    brokerStatus, disabled, transition, linked, statusInbox, onlineTrack, job, statusRow,   \* EventTriggers
    shownOnline, ruleRuns, offlineAlerts, statusBudget, drops, owed, edited,
    mono, offset, cronLoop, loaded, asked, scheduleBudget, again, passed

Only(kinds, b) == [k \in kinds |-> IF k \in DOMAIN b THEN b[k] ELSE 0]

AskRow(b) == Only(RowKinds, b)
MCQuestions ==
  { AskRow([click |-> 2]), AskRow([click |-> 1, lost |-> 1]), AskRow([click |-> 1, fail |-> 1]),
    AskRow([click |-> 1, drop |-> 1]), AskRow([other |-> 2, fail |-> 1]),
    AskRow([rule |-> 1, fail |-> 1]), AskRow([rule |-> 1, other |-> 1]),
    AskRow([rule |-> 1, drop |-> 2, miss |-> 1]) }

\* Each board starts two passes before millis() wraps.
AskBoard(p, bool, c, b) ==
  [phone |-> p, isBool |-> bool, clock |-> Wrap - 2, config |-> c,
   budget |-> Only({"level", "config", "cmd", "drop", "rotate", "press"}, b)]
Periodic == ConfigOf("periodic", 0, 0, TRUE)
OnChange(deadband) == ConfigOf("on_change", 0, deadband, TRUE)
MCSketchQuestions ==
  { AskBoard(TRUE,  FALSE, Periodic, [level |-> 1, drop |-> 1]),
    AskBoard(TRUE,  FALSE, OnChange(1), [level |-> 2]),
    AskBoard(FALSE, TRUE,  OnChange(0), [level |-> 1, drop |-> 1]),
    AskBoard(FALSE, TRUE,  OnChange(0), [level |-> 2]),
    AskBoard(TRUE,  FALSE, Periodic, [config |-> 1, drop |-> 1]),
    AskBoard(TRUE,  FALSE, Periodic, [config |-> 2]),
    AskBoard(TRUE,  FALSE, Periodic, [cmd |-> 1, drop |-> 1]),
    AskBoard(TRUE,  FALSE, Periodic, [press |-> 3, rotate |-> 1]),
    AskBoard(TRUE,  FALSE, Periodic, [press |-> 3, drop |-> 1]) }

AskDelivery(fire, clear, b) ==
  [actions |-> [fire |-> fire, clear |-> clear], budget |-> Only({"fire", "edit", "retry", "fault", "end"}, b)]
MCDeliveryQuestions ==
  { AskDelivery(<<"webhook">>, <<>>, [fire |-> 4]),
    AskDelivery(<<"relay", "notify", "webhook">>, <<"email">>, [fire |-> 2, fault |-> 1]),
    AskDelivery(<<"webhook", "relay">>, <<>>, [fire |-> 1, retry |-> 3, edit |-> 1]),
    AskDelivery(<<"webhook">>, <<"email">>, [fire |-> 2, end |-> 1]),
    AskDelivery(<<"email">>, <<>>, [fire |-> 1, retry |-> 1, end |-> 1, fault |-> 1]) }
Send == INSTANCE Delivery WITH rows <- results, requests <- retries, lost <- cut

\* _DEFERRED_SEMAPHORE has permits, and a delivery at least one attempt; a rule's
\* actions are lists.
ASSUME DeliveryAssumption ==
  /\ Permits \in Nat \ {0} /\ MaxAttempts \in Nat \ {0}
  /\ \A q \in DeliveryQuestions : \A edge \in DOMAIN q.actions : q.actions[edge] \in Seq(Send!ActionKinds)

sendVars == <<actions, firing, fired, tasks, results, told, retries, draining, deliveryBudget,
              resent, raced, cut>>

MCHealthRules == <<"r1", "r2">>
AskHealth(b)  == Only({"signal", "edit", "fault"}, b)
MCHealthQuestions ==
  { AskHealth([signal |-> 4]), AskHealth([signal |-> 3, fault |-> 1]), AskHealth([signal |-> 2, edit |-> 2]) }
Watch == INSTANCE RuleHealth WITH clock <- passes

\* _rules_by_id is a dict: a rule has one place in its order.
ASSUME HealthAssumption ==
  /\ HealthRules \in Seq(Watch!RuleSet)
  /\ \A i, j \in DOMAIN HealthRules : HealthRules[i] = HealthRules[j] => i = j
  /\ RenotifyAfter \in Nat /\ MaxClock \in Nat

watchVars == <<cachedRules, fresh, track, walk, passes, heard, alerts, healthBudget, flips, missed>>

MCWatchers == <<"w1", "w2">>
AskStatus(off, w1, w2, b) ==
  [disabled |-> off, transition |-> [w1 |-> {w1}, w2 |-> {w2}],
   budget |-> Only({"device", "edit", "link", "end", "fail"}, b)]
MCStatusQuestions ==
  { AskStatus(FALSE, FALSE, TRUE, [device |-> 3, link |-> 1]), AskStatus(FALSE, FALSE, TRUE, [device |-> 2, end |-> 1]),
    AskStatus(FALSE, FALSE, FALSE, [device |-> 2, edit |-> 1, fail |-> 1]), AskStatus(TRUE, FALSE, TRUE, [device |-> 2]) }
MCScheduled == <<"s1", "s2">>
MCCron      == [s1 |-> {1, 2, 3, 4}, s2 |-> {2, 4}]
AskSchedule(b) == Only({"fail", "end", "slow", "clock"}, b)
MCScheduleQuestions ==
  { AskSchedule([fail |-> 2]), AskSchedule([slow |-> 3]), AskSchedule([end |-> 1, slow |-> 1]),
    AskSchedule([clock |-> 1, fail |-> 1]) }
Events == INSTANCE EventTriggers WITH retained <- brokerStatus, inbox <- statusInbox

\* The rules watching a device, and those on a schedule, are lists without
\* repetition; a minute is longer than a clock adjustment, and the clock runs
\* through more than one.
ASSUME TriggersAssumption ==
  /\ Watchers \in Seq(Events!WatcherSet) /\ Scheduled \in Seq(Events!ScheduledSet)
  /\ \A i, j \in DOMAIN Watchers : Watchers[i] = Watchers[j] => i = j
  /\ \A i, j \in DOMAIN Scheduled : Scheduled[i] = Scheduled[j] => i = j
  /\ \A q \in StatusQuestions :
       /\ q.disabled \in BOOLEAN
       /\ \A w \in Events!WatcherSet : q.transition[w] \in {{}, {TRUE}, {FALSE}}
  /\ \A r \in Events!ScheduledSet : Cron[r] \subseteq Nat
  /\ PerMinute \in Nat /\ PerMinute >= 2 /\ MaxTicks \in Nat /\ MaxTicks >= 2 * PerMinute

deviceVars == <<brokerStatus, disabled, transition, linked, statusInbox, onlineTrack, job, statusRow,
                shownOnline, ruleRuns, offlineAlerts, statusBudget, drops, owed, edited>>
cronVars   == <<mono, offset, cronLoop, loaded, asked, scheduleBudget, again, passed>>
eventVars  == <<deviceVars, cronVars>>

-----------------------------------------------------------------------------
partVars == <<rowVars, sketchVars, sendVars, watchVars, eventVars, part>>

FirstOf(S) == CHOOSE q \in S : TRUE

MCInit ==
  /\ part \in {"row", "board", "delivery", "health", "status", "schedule"}
  /\ RowInit
  /\ part = "row" \/ rowBudget = FirstOf(MCQuestions)
  /\ SketchInit
  /\ part = "board" \/ <<phone, isBool, m.declared, budgetLeft>>
                         = LET q == FirstOf(MCSketchQuestions) IN <<q.phone, q.isBool, q.config, q.budget>>
  /\ Send!DeliveryInit
  /\ part = "delivery" \/ <<actions, deliveryBudget>>
                            = LET q == FirstOf(DeliveryQuestions) IN <<q.actions, q.budget>>
  /\ Watch!HealthInit
  /\ part = "health" \/ <<healthBudget, fresh>> = <<FirstOf(HealthQuestions), {}>>
  /\ Events!StatusInit /\ Events!ScheduleInit
  /\ part = "status" \/ <<disabled, statusBudget>> = LET q == FirstOf(StatusQuestions) IN <<q.disabled, q.budget>>
  /\ part = "schedule" \/ <<mono, scheduleBudget>> = <<PerMinute, FirstOf(ScheduleQuestions)>>

OnRow(A)    == part = "row" /\ A /\ UNCHANGED <<sketchVars, sendVars, watchVars, eventVars, part>>
Sending(A)  == part = "delivery" /\ A /\ UNCHANGED <<rowVars, sketchVars, watchVars, eventVars, part>>
Watching(A) == part = "health" /\ A /\ UNCHANGED <<rowVars, sketchVars, sendVars, eventVars, part>>
OnStatus(A) == part = "status" /\ A /\ UNCHANGED <<rowVars, sketchVars, sendVars, watchVars, cronVars, part>>

MCNext ==
  \/ OnRow(RowNext)
  \/ part = "board" /\ SketchNext /\ UNCHANGED <<rowVars, sendVars, watchVars, eventVars, part>>
  \/ Sending(Send!DeliveryNext)
  \/ Watching(Watch!HealthNext)
  \/ OnStatus(Events!StatusNext)
  \/ /\ part = "schedule" /\ Events!ScheduleNext
     /\ UNCHANGED <<rowVars, sketchVars, sendVars, watchVars, deviceVars, part>>

\* RowFairness, of the row on screen; the worker's tasks run, and so do
\* rules_maintenance_loop and mqtt_ingest_loop.
MCFairness ==
  /\ WF_partVars(OnRow(Answering)) /\ WF_partVars(OnRow(Expires)) /\ WF_partVars(OnRow(Tick))
  /\ WF_partVars(Sending(Send!DeliverySettles)) /\ WF_partVars(Watching(Watch!HealthPass))
  /\ WF_partVars(OnStatus(Events!HandlesStatus))

MCSpec == MCInit /\ [][MCNext]_partVars /\ MCFairness

-----------------------------------------------------------------------------
(* Properties                                                               *)

\* The row and the platform agree (ActuatorRow): with a fresh list the row says
\* what the broker keeps, and the timeline neither hides nor joins commands.
RowTells == RowTypeOK /\ RequestedIsDesired /\ TimelineIsTheList

\* The generated sketch in time (Sketch): a connected board that sees a steady
\* level has told it, within its interval and a change sooner; it is online; and
\* holding the button makes it forget its Wi-Fi.
BoardTells == ReportsWhatItReads /\ ChangeIsQuick /\ OnlineTells /\ HoldForgets

\* What people are told of.  The board tells what it reads (BoardTells).  Webhooks
\* and e-mails (Delivery): each one a firing owes, and each retry, is under way or
\* has one row in the history, unless an error or the end of its process cut it
\* off; a failed one is told; one retry per failed row; and the tasks are bounded.
\* Rule health (RuleHealth): a rule that goes stale is told, at most once an hour,
\* and the last event sent is the verdict kept.  Devices and minutes
\* (EventTriggers): rows, pages and worker agree with the broker on who is
\* connected, a device that went offline is told of and no other, and a schedule's
\* rule is asked for in each of its minutes, once.
NothingGoesUntold ==
  /\ BoardTells
  /\ Send!DeliveryTypeOK /\ Send!EveryDeliveryAccounted /\ Send!GivenUpIsTold
  /\ Send!RetriedOnce /\ Send!TasksBounded
  /\ Watch!HealthTypeOK /\ Watch!AlertsSpaced /\ Watch!StaleWasTold /\ Watch!HeardIsTracked
  /\ Events!TriggersTypeOK /\ Events!StatusCatchesUp /\ Events!NoFalseAlarm /\ Events!OfflineIsTold
  /\ Events!RunsOnItsTransition /\ Events!AskedOnce /\ Events!AskedEveryMinute

\* "This delivery was already retried.": of any two requests.
NeverRetriedTwice == Send!NeverRetriedTwice

\* What a step may never do: turn an acknowledged command into anything else
\* (ActuatorRow), or forget the board's Wi-Fi without the button held (Sketch).
CommandSteps ==
  [][AcknowledgedStep /\ ForgetStep]_partVars

\* "Sending..." and "Waiting for the device..." end, deliveries end, the verdict
\* on a rule catches up with its signals, and the worker with a device's status.
PathsSettle ==
  []<>( /\ ~RowWaits
        /\ part = "delivery" => ~Send!DeliveryWaits
        /\ part = "health" => ~Watch!HealthBehind
        /\ part = "status" => Events!StatusQuiet )
=============================================================================
