---------------------------- MODULE EventTriggers ----------------------------
(***************************************************************************)
(* The triggers that are no reading.  Status*: a device's retained status    *)
(* topic, its last will, and _handle_status, which turns reports into flips  *)
(* of connectivity, runs the device_status rules and raises the offline      *)
(* notification.  Schedule*: schedule_loop, which asks for the rules whose   *)
(* cron matches the minute.  What a run then does is RuleEvaluator's Event    *)
(* and Delivery's dispatch.                                                  *)
(***************************************************************************)
EXTENDS Integers, Sequences, FiniteSetsExt

CONSTANTS
    Watchers,           \* the device_status rules of the device, in cache order
    StatusQuestions,    \* what happens to the device, and how often
    Scheduled,          \* the schedule rules, in cache order
    Cron,               \* per schedule rule, the minutes its cron matches
    PerMinute,          \* ticks of the clock per minute
    MaxTicks,           \* bound on the clock
    ScheduleQuestions   \* what disturbs the schedule, and how often

VARIABLES
    retained,       \* the status topic's retained message: TRUE is online
    disabled,       \* the device is disabled in the directory
    transition,     \* per watcher, in the cache: {} none, {TRUE} connected, {FALSE} disconnected
    linked,         \* mqtt_ingest_loop is subscribed
    inbox,          \* status messages on their way to it
    onlineTrack,    \* _device_online_tracks: none or one
    job,            \* the message _handle_status is at, and the places in Watchers it has left
    statusRow,      \* devices.last_status_online
    shownOnline,    \* the latest device_health event
    ruleRuns,       \* rule runs by device_status, each with the flip and the rule's transition
    offlineAlerts,  \* the device_offline notifications written
    statusBudget,
    \* ghosts
    drops,          \* how often the device went from online to offline
    owed,           \* this life saw the device online and has not told of its going since
    edited          \* watchers that were edited while a flip was handled

statusVars == <<retained, disabled, transition, linked, inbox, onlineTrack, job, statusRow, shownOnline,
                ruleRuns, offlineAlerts, statusBudget, drops, owed, edited>>

VARIABLES
    mono,           \* the event loop's clock, in ticks
    offset,         \* the wall clock is this far ahead of it
    cronLoop,       \* schedule_loop: its step, when it wakes, the minute it asks for, the places left
    loaded,         \* the rules of _scheduled_rules
    asked,          \* per rule and minute, how often a run was requested
    scheduleBudget,
    \* ghosts
    again,          \* minutes that a retry, a restart or a clock adjustment may ask for again
    passed          \* minutes of which a pass missed a rule: interrupted, overrun, jumped over, or not loaded

scheduleVars == <<mono, offset, cronLoop, loaded, asked, scheduleBudget, again, passed>>

-----------------------------------------------------------------------------
WatcherSet == {Watchers[i] : i \in DOMAIN Watchers}
NoJob == [step |-> "none", on |-> TRUE, todo |-> {}]

\* A device that is online, and a worker that has just started.
StatusInit ==
  /\ \E q \in StatusQuestions :
       /\ disabled = q.disabled /\ statusBudget = q.budget
       /\ transition = [w \in WatcherSet |-> q.transition[w]]
  /\ retained = TRUE /\ linked = TRUE /\ inbox = <<TRUE>>
  /\ onlineTrack = {} /\ job = NoJob /\ statusRow = FALSE /\ shownOnline = FALSE
  /\ ruleRuns = <<>> /\ offlineAlerts = 0 /\ drops = 0 /\ owed = FALSE /\ edited = {}

SpendStatus(kind) ==
  /\ statusBudget[kind] > 0
  /\ statusBudget' = [statusBudget EXCEPT ![kind] = @ - 1]

\* The broker keeps the last of the messages and forwards all of them.
Broker(msgs) ==
  /\ retained' = msgs[Len(msgs)]
  /\ inbox' = IF linked THEN inbox \o msgs ELSE inbox

\* The device reports again, comes back, is gone (its last will), or takes its
\* own dead connection over, whose will the broker publishes first.
DeviceReports ==
  /\ SpendStatus("device")
  /\ \/ Broker(<<TRUE>>) /\ UNCHANGED drops
     \/ retained /\ Broker(<<FALSE>>) /\ drops' = drops + 1
     \/ retained /\ Broker(<<FALSE, TRUE>>) /\ drops' = drops + 1
  /\ UNCHANGED <<disabled, transition, linked, onlineTrack, job, statusRow, shownOnline, ruleRuns,
                 offlineAlerts, owed, edited>>

\* An edit or a deletion of a watching rule reaches the cache.
WatcherEdited(w) ==
  /\ SpendStatus("edit")
  /\ \E t \in {{}, {TRUE}, {FALSE}} \ {transition[w]} : transition' = [transition EXCEPT ![w] = t]
  /\ edited' = IF job.step = "rules" THEN edited \cup {w} ELSE edited
  /\ UNCHANGED <<retained, disabled, linked, inbox, onlineTrack, job, statusRow, shownOnline, ruleRuns,
                 offlineAlerts, drops, owed>>

\* The worker's connection breaks; what was on its way is gone.  The loop comes
\* back to it after the message it is at, and the broker sends what it retains.
LinkBreaks ==
  /\ linked /\ SpendStatus("link")
  /\ linked' = FALSE /\ inbox' = <<>>
  /\ UNCHANGED <<retained, disabled, transition, onlineTrack, job, statusRow, shownOnline, ruleRuns,
                 offlineAlerts, drops, owed, edited>>
mqtt_ingest_loop ==
  /\ ~linked /\ job = NoJob
  /\ linked' = TRUE /\ inbox' = <<retained>>
  /\ UNCHANGED <<retained, disabled, transition, onlineTrack, job, statusRow, shownOnline, ruleRuns,
                 offlineAlerts, statusBudget, drops, owed, edited>>

\* The worker ends: killed, or by an error of the database or of Redis, which
\* _handle_status does not catch.  The tracks were in its memory.
WorkerEnds ==
  /\ SpendStatus("end")
  /\ linked' = FALSE /\ inbox' = <<>> /\ job' = NoJob /\ onlineTrack' = {} /\ owed' = FALSE
  /\ UNCHANGED <<retained, disabled, transition, statusRow, shownOnline, ruleRuns, offlineAlerts, drops, edited>>

-----------------------------------------------------------------------------
(* _handle_status, from await to await.                                       *)

_handle_status ==
  /\ job = NoJob /\ inbox # <<>>
  /\ job' = [step |-> "snapshot", on |-> Head(inbox), todo |-> {}]
  /\ inbox' = Tail(inbox) /\ edited' = {}
  /\ UNCHANGED <<retained, disabled, transition, linked, onlineTrack, statusRow, shownOnline, ruleRuns,
                 offlineAlerts, statusBudget, drops, owed>>

record_status_snapshot ==
  /\ job.step = "snapshot"
  /\ statusRow' = job.on /\ job' = [job EXCEPT !.step = "event"]
  /\ UNCHANGED <<retained, disabled, transition, linked, inbox, onlineTrack, shownOnline, ruleRuns,
                 offlineAlerts, statusBudget, drops, owed, edited>>

\* After the rules: the notification of a device that went offline.
AfterRules(j) == IF ~j.on /\ ~disabled THEN [j EXCEPT !.step = "notify"] ELSE NoJob

\* run_device_status_rules picks from the list it holds; nothing waits up to
\* the first run.
NextRule(j) == IF j.todo = {} THEN AfterRules(j) ELSE [j EXCEPT !.step = "rules"]

\* The first observation is only a baseline (note_device_status).
note_device_status(on) == onlineTrack # {} /\ onlineTrack # {on}

\* device_health is published, and the report compared with the last.
HealthEvent ==
  LET on == job.on
  IN  /\ job.step = "event"
      /\ shownOnline' = on /\ onlineTrack' = {on}
      /\ owed' = (owed \/ on)
      /\ job' = IF note_device_status(on)
                THEN NextRule([job EXCEPT !.todo = {i \in DOMAIN Watchers : transition[Watchers[i]] = {on}}])
                ELSE NoJob
      /\ UNCHANGED <<retained, disabled, transition, linked, inbox, statusRow, ruleRuns, offlineAlerts,
                     statusBudget, drops, edited>>

\* run_rule_out_of_band looks the rule up again by its id: a rule that is gone
\* does not run, nor does one whose device is disabled.
RunRule ==
  LET w == Watchers[Min(job.todo)]
  IN  /\ job.step = "rules"
      /\ ruleRuns' = IF transition[w] = {} \/ disabled THEN ruleRuns
                     ELSE Append(ruleRuns, [rule |-> w, on |-> job.on, as |-> transition[w], edited |-> w \in edited])
      /\ job' = NextRule([job EXCEPT !.todo = @ \ {Min(@)}])
      /\ UNCHANGED <<retained, disabled, transition, linked, inbox, onlineTrack, statusRow, shownOnline,
                     offlineAlerts, statusBudget, drops, owed, edited>>

\* create_notification; an error is logged.
NotifyOffline ==
  /\ job.step = "notify"
  /\ \/ offlineAlerts' = offlineAlerts + 1 /\ UNCHANGED statusBudget
     \/ SpendStatus("fail") /\ UNCHANGED offlineAlerts
  /\ job' = NoJob /\ owed' = FALSE
  /\ UNCHANGED <<retained, disabled, transition, linked, inbox, onlineTrack, statusRow, shownOnline,
                 ruleRuns, drops, edited>>

HandlesStatus ==
  _handle_status \/ record_status_snapshot \/ HealthEvent \/ RunRule \/ NotifyOffline \/ mqtt_ingest_loop
StatusNext ==
  HandlesStatus \/ DeviceReports \/ LinkBreaks \/ WorkerEnds \/ \E w \in WatcherSet : WatcherEdited(w)

-----------------------------------------------------------------------------
(* The schedule.                                                              *)

FirstMinute == 1
ScheduledSet == {Scheduled[i] : i \in DOMAIN Scheduled}
Minutes == 0..(MaxTicks \div PerMinute + 1)
Wall   == mono + offset
Minute == Wall \div PerMinute

\* The worker has just started, anywhere in the first minute.
ScheduleInit ==
  /\ scheduleBudget \in ScheduleQuestions
  /\ mono \in PerMinute..(2 * PerMinute - 1) /\ offset = 0
  /\ cronLoop = [step |-> "sleep", wake |-> mono, minute |-> 0, todo |-> {}]
  /\ loaded = {} /\ asked = [r \in ScheduledSet |-> [m \in Minutes |-> 0]]
  /\ again = {} /\ passed = {}

SpendSchedule(kind) ==
  /\ scheduleBudget[kind] > 0
  /\ scheduleBudget' = [scheduleBudget EXCEPT ![kind] = @ - 1]

schedule_due(r, m) == m \in Cron[r]
WakesIn == (cronLoop.wake + offset) \div PerMinute
_seconds_to_next_minute == PerMinute - (Wall % PerMinute)

\* A pass with the rules `todo` left for the minute: the next publish, or sleep.
\* A pass that ends in a later minute has slept through that one's beginning.
GoesOn(m, todo, missed) ==
  \/ /\ todo = {}
     /\ cronLoop' = [step |-> "sleep", wake |-> mono + _seconds_to_next_minute, minute |-> m, todo |-> {}]
     /\ passed' = passed \cup missed \cup ((m + 1)..Minute)
  \/ /\ todo # {}
     /\ cronLoop' = [cronLoop EXCEPT !.step = "pass", !.minute = m, !.todo = todo]
     /\ passed' = passed \cup missed

\* A pass starts: the due rules of the minute.  What an interrupted pass had
\* left of an earlier minute is not asked for any more.
_tick_schedules ==
  /\ cronLoop.step = "sleep" /\ mono >= cronLoop.wake
  /\ LET left == IF cronLoop.todo = {} THEN {} ELSE cronLoop.minute..(Minute - 1)
         late == left \cup (IF loaded = ScheduledSet THEN {} ELSE {Minute})
         due  == {i \in DOMAIN Scheduled : Scheduled[i] \in loaded /\ schedule_due(Scheduled[i], Minute)}
     IN  GoesOn(Minute, due, late)
  /\ UNCHANGED <<mono, offset, loaded, asked, scheduleBudget, again>>

\* One request is published.
PublishTick ==
  /\ cronLoop.step = "pass"
  /\ GoesOn(cronLoop.minute, cronLoop.todo \ {Min(cronLoop.todo)}, {})
  /\ asked' = [asked EXCEPT ![Scheduled[Min(cronLoop.todo)]][cronLoop.minute] = @ + 1]
  /\ UNCHANGED <<mono, offset, loaded, scheduleBudget, again>>

\* A publish raises: the whole pass again, RECONNECT_SECONDS later.
schedule_loop ==
  /\ cronLoop.step = "pass"
  /\ SpendSchedule("fail")
  /\ cronLoop' = [cronLoop EXCEPT !.step = "sleep", !.wake = mono + 1]
  /\ again' = again \cup {cronLoop.minute}
  /\ UNCHANGED <<mono, offset, loaded, asked, passed>>

\* The worker starts again, at once or a while later, the loop before the cache:
\* "Missed ticks on a restart are dropped, not caught up".
ScheduleRestarts ==
  /\ cronLoop.minute >= FirstMinute /\ SpendSchedule("end")
  /\ \E pause \in {0, 1, PerMinute + 1} :
       /\ cronLoop' = [cronLoop EXCEPT !.step = "sleep", !.wake = mono + pause]
       /\ passed' = passed \cup ((cronLoop.minute + 1)..((Wall + pause) \div PerMinute - 1))
  /\ loaded' = {}
  /\ again' = again \cup {Minute, cronLoop.minute}
  /\ UNCHANGED <<mono, offset, asked>>
load_rule_cache ==
  /\ loaded = {} /\ loaded' = ScheduledSet
  /\ UNCHANGED <<mono, offset, cronLoop, asked, scheduleBudget, again, passed>>

\* Time passes while the loop sleeps, and in a pass that is slow.
TimePasses ==
  /\ mono < MaxTicks /\ mono' = mono + 1
  /\ \/ cronLoop.step = "sleep" /\ mono < cronLoop.wake /\ UNCHANGED scheduleBudget
     \/ cronLoop.step = "pass" /\ SpendSchedule("slow")
  /\ UNCHANGED <<offset, cronLoop, loaded, asked, again, passed>>

\* The wall clock is set; the sleep goes by the other one, and may now end after
\* a minute it would have ended in.
ClockIsSet ==
  /\ cronLoop.minute >= FirstMinute /\ SpendSchedule("clock")
  /\ offset' \in {-1, 1} \ {offset}
  /\ again' = again \cup {Minute, (mono + offset') \div PerMinute}
  /\ UNCHANGED <<mono, cronLoop, loaded, asked>>
  /\ passed' = IF cronLoop.step = "pass" THEN passed
               ELSE passed \cup {m \in WakesIn..(WakesIn' - 1) : m > cronLoop.minute}

ScheduleNext ==
  _tick_schedules \/ PublishTick \/ schedule_loop \/ ScheduleRestarts \/ load_rule_cache \/ TimePasses \/ ClockIsSet

-----------------------------------------------------------------------------
(* Properties                                                               *)

StatusQuiet == linked /\ inbox = <<>> /\ job = NoJob

TriggersTypeOK ==
  /\ job.step \in {"none", "snapshot", "event", "rules", "notify"} /\ onlineTrack \subseteq BOOLEAN
  /\ cronLoop.step \in {"sleep", "pass"} /\ loaded \subseteq ScheduledSet

\* With no message on the way the device's row, the pages and the worker agree
\* with the broker on whether the device is connected, after any outage.
StatusCatchesUp == StatusQuiet => statusRow = retained /\ shownOnline = retained /\ onlineTrack = {retained}

\* "never the first observation after a restart, so retained LWTs don't
\* re-alert": no notification and no rule run without a drop of the device.
NoFalseAlarm ==
  /\ offlineAlerts <= drops
  /\ \A w \in WatcherSet : Cardinality({i \in DOMAIN ruleRuns : ruleRuns[i].rule = w /\ ~ruleRuns[i].on}) <= drops

\* A device that a worker saw online and that is offline now has been told of,
\* unless the notification failed.
OfflineIsTold == StatusQuiet /\ ~retained /\ ~disabled => ~owed

\* A rule runs on the transition it is for, unless it was edited while the flip
\* was handled.
RunsOnItsTransition ==
  \A i \in DOMAIN ruleRuns : ruleRuns[i].on \in ruleRuns[i].as \/ ruleRuns[i].edited

\* A rule is asked for once in a minute, unless a pass was repeated.
AskedOnce == \A r \in ScheduledSet, m \in Minutes : asked[r][m] > 1 => m \in again

\* Every minute a rule's cron matches since the worker started it was asked for,
\* unless a pass ran over the minute's beginning or was cut off in it.
Done(m) == m < cronLoop.minute \/ (m = cronLoop.minute /\ cronLoop.step = "sleep" /\ cronLoop.todo = {})
AskedEveryMinute ==
  \A r \in ScheduledSet : \A m \in Cron[r] :
    FirstMinute <= m /\ Done(m) /\ m \notin passed => asked[r][m] > 0

\* What they rest on: of the reports on their way the last is what the broker
\* retains; a report handled is on the row, then on the pages and in the track;
\* who was seen online is told of before the track says otherwise; the rules left
\* are for this flip.
Transitions == {{}, {TRUE}, {FALSE}}
Jobs == [step : {"none", "snapshot", "event", "rules", "notify"}, on : BOOLEAN, todo : SUBSET DOMAIN Watchers]
StatusTypeOK ==
  /\ inbox \in Seq(BOOLEAN) /\ (~linked => inbox = <<>>)
  /\ {retained, statusRow, shownOnline, disabled, owed} \subseteq BOOLEAN
  /\ onlineTrack \in Transitions
  /\ job \in Jobs
  /\ job.step = "none" => job = NoJob
  /\ job.step = "rules" => job.todo # {}
  /\ DOMAIN transition = WatcherSet /\ \A w \in WatcherSet : transition[w] \in Transitions
StatusKnown ==
  /\ StatusTypeOK
  /\ linked /\ inbox # <<>> => inbox[Len(inbox)] = retained
  /\ linked /\ inbox = <<>> /\ job # NoJob => job.on = retained
  /\ job.step \in {"event", "rules", "notify"} => statusRow = job.on
  /\ job.step \in {"rules", "notify"} => shownOnline = job.on /\ onlineTrack = {job.on}
  /\ job.step = "notify" => ~job.on /\ ~disabled
  /\ owed /\ ~disabled => onlineTrack = {TRUE} \/ (job.step \in {"rules", "notify"} /\ ~job.on)
  /\ job.step = "rules" => \A i \in job.todo : transition[Watchers[i]] = {job.on} \/ Watchers[i] \in edited

\* Reports can be numbered by the drops before them, a report of a connected
\* device below the later ones of its going; what was told and run is within the
\* number of the last report handled.
Before(on, n, later, k) == n <= k /\ (on /\ ~later => n < k)
Going(w) == {i \in DOMAIN ruleRuns : ruleRuns[i].rule = w /\ ~ruleRuns[i].on}
InHand == job.step \in {"snapshot", "event"}
Numbered(f, j, k) ==
  /\ \A i \in DOMAIN inbox : k <= f[i] /\ Before(inbox[i], f[i], retained, drops)
  /\ \A h, i \in DOMAIN inbox : h < i => Before(inbox[h], f[h], inbox[i], f[i])
  /\ \A t \in onlineTrack :
       Before(t, k, retained, drops) /\ \A i \in DOMAIN inbox : Before(t, k, inbox[i], f[i])
  /\ InHand =>
       /\ k <= j /\ Before(job.on, j, retained, drops)
       /\ \A i \in DOMAIN inbox : Before(job.on, j, inbox[i], f[i])
       /\ \A t \in onlineTrack : Before(t, k, job.on, j)
  /\ k <= drops
  /\ offlineAlerts + (IF job.step \in {"rules", "notify"} /\ ~job.on THEN 1 ELSE 0) <= k
  /\ \A w \in WatcherSet :
       Cardinality(Going(w)) + (IF ~job.on /\ (\E i \in job.todo : Watchers[i] = w) THEN 1 ELSE 0) <= k
Runs == [rule : WatcherSet, on : BOOLEAN, as : SUBSET BOOLEAN, edited : BOOLEAN]
DropsKnown ==
  /\ drops \in Nat /\ offlineAlerts \in Nat /\ ruleRuns \in Seq(Runs)
  /\ \E f \in [DOMAIN inbox -> 0..drops], j, k \in 0..drops : Numbered(f, j, k)

StatusInv == StatusKnown /\ DropsKnown /\ StatusCatchesUp /\ RunsOnItsTransition

\* A minute asked for is over before the loop wakes again; the minutes between
\* the last pass and the next are none, or known to be missed.
ScheduleTypeOK ==
  /\ mono \in PerMinute..MaxTicks /\ offset \in {-1, 0, 1}
  /\ cronLoop \in [step : {"sleep", "pass"}, wake : Nat, minute : Minutes, todo : SUBSET DOMAIN Scheduled]
  /\ cronLoop.step = "sleep" => mono <= cronLoop.wake
  /\ cronLoop.step = "pass" => cronLoop.todo # {}
  /\ loaded \subseteq ScheduledSet
  /\ asked \in [ScheduledSet -> [Minutes -> Nat]]
Over(r, m) ==
  IF cronLoop.step = "sleep"
  THEN m < Minute \/ (m = Minute /\ m < WakesIn)
  ELSE \/ m < Minute /\ m < cronLoop.minute
       \/ m <= Minute /\ m = cronLoop.minute /\ \A i \in cronLoop.todo : Scheduled[i] # r
OnceKnown ==
  /\ cronLoop.step = "pass" /\ cronLoop.minute \notin again => cronLoop.minute <= Minute
  /\ \A r \in ScheduledSet, m \in Minutes : asked[r][m] > 0 /\ m \notin again => Over(r, m)
EveryKnown ==
  /\ cronLoop.step = "sleep" /\ cronLoop.todo = {} =>
       \A m \in Minutes : FirstMinute <= m /\ cronLoop.minute < m /\ m < WakesIn => m \in passed
  /\ cronLoop.step = "pass" =>
       \A r \in ScheduledSet : cronLoop.minute \in Cron[r] \ passed /\ FirstMinute <= cronLoop.minute =>
         asked[r][cronLoop.minute] > 0 \/ \E i \in cronLoop.todo : Scheduled[i] = r
ScheduleInv == ScheduleTypeOK /\ OnceKnown /\ EveryKnown /\ AskedOnce /\ AskedEveryMinute

\* The same without the exceptions.
RunsAsEdited == \A i \in DOMAIN ruleRuns : ruleRuns[i].on \in ruleRuns[i].as
EveryOfflineTold == StatusQuiet /\ ~disabled => offlineAlerts = drops
NeverAskedTwice == \A r \in ScheduledSet, m \in Minutes : asked[r][m] <= 1
=============================================================================
