# Verification of the IoT platform

TLA+ models of the platform's own logic: the rule engine that turns telemetry
into actuator commands, the paths by which readings, edits, commands and
notifications travel, accounts and workspaces, and the screens of the web and
phone apps that drive all of it. The modules are model-checked with TLC on small
instances; the invariants of the rule engine, of the storage path, of a command's
way to the board and back, of the generated sketch, of sessions and of memberships
are proved with TLAPS for every value of their constants.

Paths of the backend are relative to `backend/src/app`, of the web app to
`frontend/src`. `PROJECT.json` maps every definition to its lines and lists the
components, runs, mutants, hazards, findings and theorems.

## 1. The system

| Component | State it keeps | Operations | Talks to |
|---|---|---|---|
| API (`*/router.py`, `*/service.py`, `db.py`) | rows in Postgres/TimescaleDB, one READ COMMITTED transaction per request, post-commit callbacks | CRUD, login, manual runs, resets, retries | Postgres; Redis pub/sub after commit |
| Worker (`worker.py`) | eight asyncio loops in one process | ingest, storage, rule cache, manual commands, schedules, maintenance, timers, catalog thresholds | broker, Redis, Postgres |
| Rule evaluator, condition trees (`rules/evaluators.py`) | `RuleState` per rule: hold, armed, last firing, episode, clear timer, leaf latches | `evaluate`, `evaluate_event`, `reset_latch`, `align_state_to_condition`, `has_pending_timer` | called by the loops |
| Rule dispatch (`rules/service.py`) | states, signal values, caches; in Redis the checkpoint and the latched set | `evaluate_and_dispatch`, `run_rule_out_of_band`, `reset_rule_latch`, checkpoint and restore | broker, Redis |
| Event triggers (`worker.py`, `rules/service.py`) | last known connectivity per device; the schedule loop's minute | `_handle_status`, `run_device_status_rules`, `schedule_loop` | dispatch, notifications |
| Commands (`commands/service.py`, boards, `components/actuators`) | `commands` rows, the retained `state/{actuator}` message, the row on screen | send, publish, apply, acknowledge, expire | broker, boards, SWR |
| Deferred delivery (`rules/service.py`, `rules/executors.py`) | background tasks, semaphore, `action_executions` | spawn, attempt, record, retry, drain | webhooks, mail |
| Rule health (`rules/service.py`) | a track per rule | `emit_rule_health_transitions` | notifications, realtime |
| Telemetry writer (`worker.py`, `ingestion/service.py`) | a Redis stream with a consumer group, buffer, ack list | read, batch, commit, acknowledge | Postgres |
| Rule cache and edits (`rules/service.py`, `rules/versions.py`) | `rules`, `rule_versions`; the worker's caches | PATCH, versions, invalidation, reload | pub/sub |
| Accounts (`auth`), apps' sessions | refresh-token families; tokens in storage, tabs, a vault | rotate, revoke, reset, refresh, retry | |
| Tenants (`tenants`) | memberships, invitations | roles, removal, invite, renew, accept | |
| Realtime relay, live pages | sockets, a coalescing buffer, SWR caches, charts | publish, flush, catch up, reconnect | API, apps |
| Editors, lists, feeds, dashboards | drafts, URLs, selections, toasts with Undo, queues of saves | edit, save, act, undo, page | API through SWR |
| Rule editor | condition tree, draft, schedule, preview, versions | edit, check, save, restore, simulate | API |
| Template editor | wiring draft, rows, pins | part, link, board, detect, save | API, USB |
| Connect wizard, flasher, generated sketch | credential, options, pins; the board's flash, Wi-Fi, socket | rotate, flash, provision, watch | board, broker |

How they interact. A reading arrives over MQTT or HTTP; the ingest loop
evaluates every rule that names its signal *before* the reading is queued for
storage and drives the actuators inline. "Run now", resets, schedule ticks and
the poll for running timers enter the same rules through the manual loop, as
Redis messages. An evaluation has no `await`; everything after it has, so the
loops interleave between evaluation, look-up, publish, row and flag. Pub/sub keeps
nothing for whom is not listening; the broker keeps one retained message per
topic. On the other side, every screen is a draft or a selection beside an SWR
cache that requests, realtime events and timers refresh in any order.

Where it is hard, and what makes each part correct:

* **Evaluator** - long sequences of true, false and unknown. No fire without a
  full hold, within the cooldown or twice in an episode; a clear ends one episode;
  the poll knows of every running timer.
* **Condition trees** - the result is forced by what is known; latches do not
  influence each other and flip only across their band.
* **Dispatch, commands** - two loops, faults between awaits, crashes. Cooldowns
  hold across loops and restarts; timers end by polling alone; a command is acted
  on at most once and confirmed only if it was; the board ends at the desired state.
* **Triggers, health, delivery** - retained wills, repeated passes, process ends,
  races of retries. What happened is told, once, and nothing else is.
* **Writer, cache, editing** - commit and acknowledge, commit and publish, read
  and write are two steps each. Nothing lost, stored twice, or numbered twice.
* **Accounts, members** - rotations and role changes across each other. As long as
  no answer is lost, no client looks like a thief to itself and a logout that
  names the session's good token ends it everywhere; a reset ends every session
  that races no rotation; a workspace keeps an owner unless two requests cross;
  an old link opens nothing.
* **Screens** - late answers. What is shown, what was typed and what is stored
  agree in the end; Undo undoes its own action; nothing spins for ever.
* **Authoring, connecting** - what is drawn and said is what is stored and run; a
  flash interrupted anywhere leaves a board that can be finished; pins do not clash.

## 2. Modules

The technique for TLC is the same everywhere: a component's inputs are spent
from a *budget*, a record that says how often each kind of event may happen, and a
set of *questions* lists the budgets worth asking. So the events of one question
interleave freely without multiplying those of another. Where one run holds
several components that do not touch, its MC module picks one of them in the
initial state (`app`, `part`, `client`) and the others stay at one initial state.

**Rule engine.**
`Evaluator` holds the pure operators on a `RuleState`; times are whole seconds,
`NoTime` is `None`. `RuleEvaluator` is one rule and every call made on it, with
ghost variables for what an observer of the calls remembers: the properties
compare edges with that observation and not with `RuleState`, so a wrong reset of
a field shows. `lag` is how late the device timestamps of this rule may be, chosen
once per behaviour. `ConditionTree` has every operator, the signal cache and the leaf
latches keyed by path. `RuleDispatch` is one metric rule with an actuator in the
worker: `loop[l].phase` is the await at which a loop stands, `queue` the pub/sub
channel, `relay` the retained message; `Checkpoint`, `Stop`, `Crash`, `Boot`,
`LoadCache`, `restore_rule_states` are its lives. Publishing the command and the
retained state are one step here and two in `Commands`. `EventTriggers` is the
triggers that are no reading: `_handle_status` from await to await with the
broker's retained status, last wills and take-overs, and `schedule_loop` on a
wall clock beside the event loop's clock. `RuleHealth` is the maintenance pass.

**Storage and edits.**
`TelemetryWriter` is the stream, the consumer group and the loop; an entry is its
position. `RuleCache` is commit, post-commit publish, channel, the two halves of
`load_rule_cache` and the hot path that holds a rule object across a reload.
`RuleEdit` is concurrent `PATCH` requests (read and validate, flush under the row
lock, commit); its proof is in the same module.

**Commands and boards.**
`CommandLife` is the promise: issued once, acted on at most once, confirmed only
after that, and no output that was not asked for. `Commands` is request, loops,
two publishes, row, wire, board and acknowledgement, and `Implements` (in the run
`commands`) is the refinement `Commands => CommandLife`. `ActuatorRow` extends it
with the control on screen: POST, brief poll, SWR key, deadline, timeline.
`Delivery` is webhooks and e-mails. `Sketch` is the generated program on the
board; a step is one pass of the loop it is in, `millis()` counts modulo `Wrap`.
`SketchPins` is the pins it is given. `CommandsProofs` has the proofs about
`Commands`, `ActuatorRow`, `Sketch`, `Delivery`, `RuleHealth` and `EventTriggers`:
about all that the run `commands` composes.

**Accounts.**
`AuthServer` is the API's token table, a call being a read and a commit.
`Session` (tabs with shared storage, a Web Lock where the browser has one, retry on
401) and `PhoneSession` (a vault whose every access is awaited, an app the system
may end) are its clients. In both a refresh's answer is applied inside its `try`:
a write that throws is retried with the token that was rotated (`ApplyFails`). `Members` is memberships and invitations, each request a begin, a check
and a commit. `AccountsProofs` has the proofs about all three clients.

**Live data.**
`LiveFeed` is ingestion, flush, relay and the shared connection; `LivePage` and
`PhoneLive` are what the two apps do with it.

**Screens.**
`RecordEditor`, `RecordList`, `AlertFeed`, `Dashboard`, `Connect` are the
screens' state machines over an SWR that is modelled by what the code relies on
(a mutate discards the fetch under way; keys are revalidated on focus, interval
and demand). SWR, the browser, USB and Bluetooth are external.

**Authoring.**
`RuleTree` (tree operations and the ladder's layout), `RuleDraft` (fields, checks,
conversion to and from the API, the API's validators), `SchedulePicker` (cron to
modes, words and next runs), `RuleEditor` (steps, tabs, saves, restores),
`RulePreview` (late answers), `Wiring` (template, parts, rows, pins). Data is cut
to what the conversions tell apart; each module's head says how.

`MC*` modules hold the questions. Operators headed "Mutant" or named after the
operator they replace are plausible bugs, used to see that each property can
fail; `PROJECT.json` pairs them with the properties.

## 3. Runs

| Run (states) | What it asks | Properties |
|---|---|---|
| `evaluator` (155,390) | all strategies, with or without reset tree, holds and clear delays 0 or 2, cooldown 0 or 3, timestamps never late or up to 1 late, time 6 | `TimersArePolled`, `HoldBeforeFire`, `CooldownBetweenFires`, `RefireNeedsRearm`, `ClearEndsEpisode` |
| `condition_tree` (39,621) | 7 trees with every operator and nesting, 2 signals, 4 values, age limit 0 | `TreesMeanWhatTheySay`, `LatchesAreIndependent`, `FlipsCrossTheBand` |
| `dispatch` (375,871) | a relay rule under one fault of any kind at any await, or a latching rule run and reset by users in a worker that does not end; time 3 | `CheckpointKeepsCooldown`, `LatchKeepsCooldown`, `RelayTimersSettle` |
| `dispatch_order` | a relay rule without faults | violation, section 6 |
| `writer` (19,839) | batch 2, 5 entries, 2 process ends | `WriterSafe`, `StoredUnlessOrphaned` |
| `cache` (4,650) | 3 edits, 1 fault | `StaleIsSignalled`, `EditsArriveUnlessMissed` |
| `edit` (67,263) | 3 requests, up to 2 columns each | `NoVersionConflict` |
| `session` (267,304) | two tabs with Web Locks, or the phone, or a workspace of three | `SessionSafe`, `TeamSafe`, `RequestsSettle`, `TeamSteps` |
| `live` (62,460) | value card, header, chart; web or phone | `LiveIsComplete`, `LiveNeverGoesBack`, `LiveSettles` |
| `screens` (207,377) | nine editors, seven lists, feed, dashboard, Connect, pins | `RecordsKept`, `ListsAgree`, `BoardKept`, `InstallWorks`, `ScreenSteps`, `ScreensSettle` |
| `commands` (707,608) | a row and its command, a board, deliveries, rule health, device status, schedule | `CommandsSafe`, `BoardFollows`, `NothingGoesUntold`, `RowTells`, `Implements`, `CommandSteps`, `PathsSettle` |
| `authoring` (98,815) | tree, draft, picker, editor, preview, wiring | `RuleMeansWhatIsShown`, `WiringSound`, `AuthoringSteps`, `AuthoringSettles` |

The properties of the larger runs are conjunctions; each conjunct is a property of
its module, with a comment of its own, and the MC module says which.

Why the bounds are enough. Time 6 allows a hold, a fire, a cooldown, a clear delay
and a second fire with a gap or a reset in between; two values of each duration
separate "no timer" from "timer". A batch of 2 with 5 entries gives full, partial
and malformed batches on both sides of two process ends. Two tabs, two requests
for one row, two rules in a pass are the fewest that can cross; the budgets allow
each kind of event once more than it takes for two of them to cross, or with one
fault among them. A minute is three ticks, so that a pass, a pause and a slow pass
end before, at and after its boundary, and four minutes follow. The board's clock
starts two passes before it wraps. The trees have up to five contacts, the most a
nested group beside another needs. For what is proved (section 5) the bounds do
not matter. Runs stop at their bounds, so deadlock is not checked in them; the
evaluator and the condition tree run with it.

## 4. Fairness

Only what an event loop, a container and a timer guarantee, always weak.

* Worker loops' own steps (asyncio runs every ready task), the clock, the timer
  poll (an unconditional loop with a sleep), the restart (`restart:
  unless-stopped` / `always` in `infra/docker-compose*.yml`): `TelemetryWriter`,
  `RuleDispatch`, `RuleCache`, `Delivery`'s tasks, `RuleHealth`'s pass,
  `EventTriggers`' handler.
* In the apps: a request sent is answered or fails (`Answered`, `Settling`,
  `OpSettles`, `SaveEnds`, `SaveSettles`, `PreviewSettles`, ...), because `fetch`
  does one or the other; a timer fires (`Expires`, `Tick`, a debounce, a
  reconnect); SWR's interval and focus come round while a page is visible
  (`Revalidate`, `Rereading`); the flasher's step returns or throws (`Progress`).
* None for users, devices, faults, readings or other people: liveness never rests
  on another reading or another click. `RelayTimersSettle` is stated for timers
  that start early enough to end before the clock's bound.

## 5. Proofs

Assumptions: the named `ASSUME`s of the modules, no others. A policy is a record
of naturals and Booleans that passes `_validate_latch`; batch size is at least 1;
the bounds are naturals. Of what the run `commands` composes: `millis()` wraps no
sooner than after six ticks (`SketchAssumption`; the intervals of the sketch are a
few seconds, the wrap is 49 days); there are permits and a first attempt, and a
rule's actions are lists (`DeliveryAssumption`); `_rules_by_id`, the watchers of a
device and the scheduled rules have no rule twice (`HealthAssumption`,
`TriggersAssumption`); a minute is longer than an adjustment of the clock, and
the clock runs through two.

* `RuleEvaluatorProofs` (the lemmas about one evaluation are in `Evaluator`).
  The four action properties speak of observed history, which the code does not
  keep; each decision reads a field of `RuleState` instead. `EvaluatorInv` says
  what the fields stand for: `last_fired_at` is the last fire; an armed rule has
  seen what its strategy re-arms on; a hold or clear timer never started before
  the run it measures; an active rule has an open episode and, once known false,
  a clear timer. It is inductive (`EvaluatorInvariant`), and every step from it is
  a good one: `HoldTheorem`, `CooldownTheorem`, `RefireTheorem`, `ClearTheorem`.
  `ClearPolledTheorem` is a consequence. `TimersPolledTheorem` is the invariant
  the run checks: for a rule whose timestamps are never late (`lag = 0`) it needs
  `QuietRunIsHeld` as well (a true run without a fire began after the last one),
  which is false when they are.
* `RuleDispatchProofs`. `DispatchInvariant`: types, and `RuleState` is never
  behind a checkpoint that the present life of the process wrote or restored.
  Nothing is vouched for until the restore, which is why the invariant survives
  ends at every await. From it `CheckpointTheorem` (all faults).
  `CooldownTheorem` assumes that the process does not end (`"crash"` and `"stop"`
  are not in `Faults`); then `RuleState` knows the last firing whichever loop it
  happened in. `LatchTheorem` is the property the run checks, over `MCSpec`: the
  same of the alarm users run and reset, beside a relay rule whose worker may end.
* `TelemetryWriterProofs`. `WriterInv` adds to the safety properties that the
  buffer is exactly the parsed part of the ack list, that an uncommitted batch is
  newer than everything stored (batches are intervals of the stream, read in
  order), and what each phase implies. Without the second, neither "stored once"
  nor "the health row is the newest reading" is inductive. `WriterSafeTheorem`
  puts them together with the bound on the buffer, which is about cardinalities.
* `RuleCache`. `CacheInv`: every message stands for an edit of its own, and
  a cache that differs from the database is about to be reloaded, has a message on
  its way, or a message was lost. It needs the load split in two: what matters is
  what the cache *will* hold (`Upcoming`).
* `RuleEdit`. `EditInv`: whoever has a number to commit holds the row lock, and
  the number is still the next one. `NoVersionConflictTheorem`, for any number of
  requests.
* `CommandsProofs`, the path. `CommandsInv`: a loop works on a command of its own;
  a command has its row, was cut short or is being dispatched; whatever drives
  the output was asked for; a command that may still reach the board has not been
  acted on and is on its way once; the last message on the wire is the retained
  state, unless a loop is between its two publishes or was cut short there.
  `CommandsSafeTheorem` is a part of it. `ImplementsTheorem`: under the mapping
  `lifeOf`, `valueOf`, `pin` every action is a step of `CommandLife` or a stutter.
  The two in which it shows need the invariant: `Deliver`, because a command on
  the wire was issued and not acted on, and `HandleAck`, because an
  acknowledgement is of a command acted on.
* `CommandsProofs`, the screen. `AcknowledgedTheorem`: the list on screen knows
  fewer acknowledgements than a fetch under way, and that fewer than the database
  (`AcknowledgedInv`), so no late answer takes one back.
* `CommandsProofs`, the board. `SketchInv`: what is still on its way to the board
  ends with what the broker keeps, for the profile and for the state, and a board
  the broker has given up on is shown offline. `BoardFollowsTheorem` is the case
  of nothing on its way. `ForgetTheorem`: unless it was in `connectMqtt`
  meanwhile, the board has seen the button down no longer than it was
  (`ForgetInv`). The exception is real: `connectMqtt` does not look at the button,
  so two short presses around it count as a long one (`blind`); `ForgetStep`
  leaves it out. `CommandStepsTheorem` puts this and `AcknowledgedTheorem`
  together for the run's specification.
* `CommandsProofs`, the board in time. `BoardTellsTheorem` is about how long a
  thing may take, so `BoardInv` relates the measures of the outside (`calm`,
  `held`, `sinceReading`) to the differences the sketch takes modulo `Wrap`
  (`Ticks` is the lemma about one such difference and a tick). A difference that
  wraps makes a due reading look new, or a Boolean candidate undebounced, once:
  `Settled` and `Waits` bound by `Few` what the passes since the last change and
  those still needed may add up to, in the four cases of interval and debounce
  elapsed or not; `Quick` is the same for an on_change metric. `OnlineInv` and
  `HoldCounted` do it for the status and the button. The measures stop at `Cap`:
  of an interval beyond three ticks `ReportsWhatItReads` says nothing.
* `CommandsProofs`, deliveries. `DeliveryInv`: a firing in dispatch is one loop's,
  with nothing written or spawned for it; what it will spawn and what it will
  write are its deliveries, each once; a task or row that retries is of a row
  marked retried (`DispatchKnown`). `AllSingle` then says of each delivery that
  its rows and pending tasks are one at most. That is first order; the counts of
  `EveryDeliveryAccounted` and `TasksBounded` follow from it and `TasksCounted`,
  which counts with the tasks what the two loops have in hand.
* `CommandsProofs`, rule health. `HealthInv`: for a rule that was not away and met
  no error, what the track remembers is its last notification, and its flip in a
  pass has one within the hour or is about to (`RuleKnown`, `WalkKnown`). A pass
  skips the rules that did not flip in one step, and the order of the dict is what
  makes "every rule up to the next flip" exact.
* `CommandsProofs`, device status. `StatusKnown` follows a report from the broker
  through the handler's awaits; `DropsKnown` is why nobody is alarmed for nothing:
  the reports on their way, the one in hand and the one last handled can be
  numbered by the drops before them (`Numbered`), and alerts and runs stay below
  the number of the last one handled. Retained last wills come again with the
  number they had. `RunsOnItsTransition` needs the transition of the rules still
  to run, unless edited.
* `CommandsProofs`, schedules. `ScheduleInv`: a minute asked for is over before the
  loop wakes (`Over`), and the minutes between the last pass and the next waking
  are none, or in `passed` (`EveryKnown`). The second fails if the wall clock is
  set forward past the end of a sleep that was already under way; such a minute
  counts as passed (`ClockIsSet`).
* `NothingGoesUntoldTheorem` puts the last five together as the run checks them,
  over the run's specification. `RetriedOnce`, `AskedOnce` and `AlertsSpaced` have
  exceptions (`raced`, `again`, `missed`) that are real; section 6 has each
  property without them where the code's words are without them.
* `AccountsProofs`, workspaces. `TeamInv`: a request past its checks still has
  what it checked, or it was raced (`RequestsHold`); every link was sent once and
  a link that opens an invitation is its newest (`LinksHold`); an owner remains
  unless raced. `TeamSafeTheorem` and `TeamStepsTheorem`, for any users and any
  roles they start with.
* `AccountsProofs`, sessions. `SessionInv` has layers, each under its premise.
  Always: no family from before a reset has a good token or is about to get one,
  unless a rotation was under way when the reset committed (`raced`). With Web
  Locks, until an answer is lost or not stored (`UnlostOK`): only the lock's holder
  has a call; a token is in one place, the browser's storage or one tab; a rotated
  one is being exchanged by whoever holds it. There, unless `raced`: a sign-in one
  of whose tokens was revoked and not exchanged has no good token and is about to
  get none (`EndedOK`), which is what a logout does. While the user has not ended
  the session either (`SurvivesOK`): the session is in the storage, or one tab has
  it. `NoReplay` follows from the second layer and is not inductive without every
  part of it; `LoggedOutEverywhere` is `EndedOK` without what keeps it true.
  `WebSafeTheorem`, for any number of tabs, with Web Locks or without; without
  them only the reset is claimed. After a lost answer none of the proofs claims
  more than that: the retry presents a rotated token, and section 6 has what
  follows (`NeverReplayed`).
* `AccountsProofs`, the phone. There is no lock: what the app awaits takes its
  place. `PhoneInv` (in `MCSession`) says, until an answer is lost, that the one
  open call is the app's; that a token is in one place, a call, a hand (a refresh
  or a sign-in between its answer and its write) or secure storage; and that a
  rotated token is in secure storage only until its successor, which the app has
  in hand or waits for, replaces it. A sign-in and a logout interleave with the
  refresh at every await, so the hands are two. It is inductive with
  `PhoneSurvivesOK`, which says until the user ends the first session that nothing
  else writes secure storage. `SessionSafeTheorem` is `SessionSafe` as the run
  checks it, over the run's specification with any constants: the web app's part,
  and for the phone the same with `KillSafe` (ended between refreshes, it resumes)
  in the place of `SessionSurvives`, under the same premises.

The inductive invariants can be checked with TLC too: put `EvaluatorInv`,
`DispatchInv`, `WriterInv`, `CacheInv`, `EditInv`, `CommandsInv`,
`AcknowledgedInv`, `SketchInv`, `ForgetInv`, `BoardInv` or `TeamInv` into the cfg of
their run (and definitions of `Send!DeliveryInv`, `Watch!HealthInv`, `Events!StatusInv`
and `Events!ScheduleInv`), and
`SessionInv` as `client # "phone" => SessionInv`, `PhoneInv` as
`client = "phone" => PhoneInv`.

Only model-checked: all liveness; everything about condition trees (recursive
definitions); of the row on screen, what folds and selections over its list mean
(`RowTells`: the list is built with `SelectSeq`, the timeline with `FoldLeft`, and
what they return for every list is an induction over data); the relation between
edits, reloads and leaf latches; live data, screens and authoring.

## 6. Where the code does not do what it says

The listed finding is `dispatch_order`: `rules/evaluators.py:530-531` says
"Cooldown never gates a clear - a relay must not be left on". A fire that the manual
loop is still resolving is overtaken by the clear of the ingest loop; the retained
state ends "on" with the episode closed.

The modules state more properties that the code does not have, beside the weaker
ones it has; the difference names the case. To see a counterexample, put the
property alone under INVARIANTS (or PROPERTIES, for a temporal one) of the run's
cfg; for `I!P`, of an instanced module, first define `P == I!P` in the MC module.

| Property | Run | What happens, and the words it contradicts |
|---|---|---|
| `HoldIsPolled` | `evaluator` | After a fire stamped by the worker, a reading with an older device timestamp starts a hold that `has_pending_timer` does not see. |
| `ResetRestartsHold` | `evaluator` | `reset_latch`: "The hold timer restarts". It is cleared; nothing starts it before the next reading. |
| `StaleLeavesAreFalse` | `condition_tree` | `evaluators.py:230-231`, "collapses stale and missing into a False leaf", and `schemas.py:319`, "silently failing leaves closed": such a leaf is unknown (as `_evaluate_leaf` and `KleeneIsExact` have it). A false condition would run the clear delay and end the episode, an unknown one does neither. |
| `LatchedIsShown` | `dispatch` | `rules/service.py:81-83`, rules "currently latched": the flag is set several awaits after the fire, a reset may come between. |
| `Relay!CooldownAcrossLoops` | `dispatch` | "a normal restart no longer resets armed/cooldown": a stop during start-up checkpoints states that were not yet restored. |
| `EveryReadingStored` | `writer` | `worker.py:13-15`, "durable across worker restarts": entries read and not acknowledged when the worker ends are never read again, because the loop reads only `>`. |
| `EditsArrive` | `cache` | `worker.py:319-320`, an edit "reaches the hot path within milliseconds": the first load precedes the subscription. |
| `LatchesMatchCondition` | `cache` | leaf states are dropped "when the condition changes": the hot path may evaluate the old object under the new fingerprint. |
| `SavedRuleIsValid` | `edit` | `rules/service.py:329,336`, a latching rule never clears: two requests that are each valid save one that does. |
| `LatestVersionIsRule` | `edit` | `versions.py`, "a snapshot of each saved rule": of the request's copy, which a concurrent save makes differ from the row. |
| `AlwaysAnOwner` | `session` | "the last owner can't be removed (or leave)": two owners who leave or are demoted at once both pass the count. |
| `RemovedStaysOut` | `session`, with one team question, `AskTeam("owner", "none", "none", [invite \|-> 2, resend \|-> 1, accept \|-> 2, expire \|-> 1, remove \|-> 1])` | an expired invitation does not stop a new one and can be renewed: two links live, and who was removed joins again by the second. The question is too large for the run itself. |
| `NothingFromThePreviousWorkspace` | `session` | `layout.tsx`: "Nothing from the previous workspace survives": a request sent before the workspace changed is retried after a refresh and fills the new workspace's cache. |
| `OnlyASignInSignsIn` | `session` | "The local session is cleared regardless": a refresh under way when the tab logs out signs it in again. |
| `NeverReplayed` | `session` | `auth-context.tsx:41-42`, "a refresh must never run twice with the same token": when the answer is lost (or the storage write throws) after the API rotated the token, the retry (`:125-147`, and the phone's) presents it again, the API revokes the family and the user is signed out. |
| `LogoutEndsSession` | `session` | `auth-context.tsx:191`, the post is "Best-effort"; beyond that, a logout whose post fails, or names a token a refresh has rotated since or is rotating, leaves a token of the session good. |
| `ResetSignsOutEverywhere` | `session` | `auth/service.py:210`, "(sign out everywhere)": a rotation between its read and its commit leaves the successor good. |
| `NeverStaleAsCurrent` | `live` | "A dashboard never shows a stale number as current": a reading buffered before the offline event is flushed after it and shows the device online again. |
| `Phone!NeverThePreviousSeries` | `live` | `DeviceTrend.tsx:40-41`, "A metric or range switch never shows the previous series' points": only the live ones. `keepPreviousData` draws the previous metric's history on, and hides the new one's live points no newer than it, until the fetch lands. |
| `LeavesOnlyAfterAsking` | `screens` | `DESIGN.md`, "An unsaved-changes guard on close, navigate and reload": a new record's Cancel goes back in the history without asking, and so does a create whose draft was edited while it was saved. |
| `OneRecordPerForm` | `screens` | `useRecordEditor.ts:120-125`: the save ends with the draft as sent for its baseline, and only then does the editor navigate. A draft edited meanwhile is unsaved, and Create makes a second record of it. |
| `Board!StartsFromWhatIsSaved` | `screens` | a page revisited is seeded once, from a cache that may be older than its last save; the first change then stores the old layout. |
| `Board!LayoutSavedAcrossVisits` | `screens` | `dashboards/[dashboardId]/page.tsx:95-97`, "two in flight (Remove, then Undo) could land out of order and leave the older one saved": the chain that prevents it is one visit's and the toast is the app's. Undo after leaving and coming back stores the old layout under a page that shows the newer one. |
| `Feed!HistoryShowsRows` | `screens` | `FailedActionsList.tsx`, "every failure can be browsed": page 2 of a list that shrank stays empty. |
| `Pins!EverySketchApart`, `Pins!OnlyOfferedPins`, `Pins!BlockedIsShown` | `screens` | `firmware-sketch.ts:41-44`, "never wires two things to one pin. No strapping, flash or USB pins": defaults past the pool get GPIO 0; under "Advanced" nothing is held back and overrides of another board apply; a clash of rows that are gone blocks without showing where. |
| `AcksFindTheirRow` | `commands` | `command-status.ts`, "a late ack still sets `acked_at`": an acknowledgement of a manual command may be handled before its row is written. |
| `NewestIsDesired` | `commands` | the rows show what was requested: two loops' publishes cross, and the broker keeps the older. |
| `TimelineSettles` | `commands` | `CommandHistory.tsx`, "`Pending` turns into `No response` at the TTL deadline": nothing re-renders the timeline once the row it shows is past its deadline. |
| `NeverRetriedTwice` | `commands` | "This delivery was already retried.": two requests read `retried_at` before either commits. |
| `Events!RunsAsEdited` | `commands` | the transition is checked on the list held, the run is by id: a rule edited while another's actions are dispatched runs on the wrong transition. |
| `Events!EveryOfflineTold` | `commands` | a drop during an outage or before a restart is not told. |
| `Events!NeverAskedTwice` | `commands` | a failed or restarted schedule pass asks for the minute's rules again; only a cooldown keeps them from running twice. A pass that ends in the next minute sleeps through that one. |
| `FollowsAnyProfile` | `commands` | "a catalog edit takes effect without a reflash": a configuration beyond the client's 1024-byte buffer is dropped. |
| `HoldAlwaysForgets`, `ForgetAlwaysNeedsHold` | `commands` | "hold ... while the board is running": in `connectMqtt` the button is not read, neither its press nor its release. |
| `DraftOf!BlankNameIsGenerated` | `authoring` | `RuleEditor.tsx:342`: creating with a blank name is refused by the API. |
| `DraftOf!SavedIsStored` | `authoring` | a PATCH with `condition: null` keeps the stored condition. |
| `DraftOf!OpenAndSaveKeepsAll` | `authoring` | `rule-draft.ts:131`, "API-authored fields the editors don't expose, passed through on save": clear actions and clear delay of a reset-condition or continuous rule are dropped, a numeric clear value of an on/off command turns round, a notification's email becomes an action of its own, a webhook's retry and timeout are lost. |
| `DraftOf!ChecksMatchTheApi` | `authoring` | `rule-draft.ts`, "Call `validateDraft` first - this assumes every field it reads is already well-formed": JSON that is no object, a message or subject too long and too many recipients pass the editor and are refused by the API. |
| `Editor!BaselineIsSaved` | `authoring` | "The baseline is what's saved": a saved restore remounts on the stale copy. |
| `Editor!SchedulesGetTheZone` | `authoring` | "defaults to the workspace time zone": a schedule recipe picked before it arrived keeps UTC. |
| `Editor!OnlyReviewCreates` | `authoring` | "only Review creates": Ctrl+S creates from any step. |
| `Editor!OneRulePerForm` | `authoring` | `rules/new/page.tsx:55`, "A new rule opens on its own page": Ctrl+S does not look at a save under way, nor does Create between the answer and the router's next page; two rules are made. |
| `Preview!BodyIsCovered` | `authoring` | `RulePreview.tsx`, "body is covered by bodyKey": a value tried for a draft the debounce had not let through stays on screen when the author goes back to the draft before it. |

Met while modelling, not stated as properties:

* Delivery: `rules/service.py:1138` says a failed history write is never "able to
  break, actual dispatch"; the deferred actions of that firing are not spawned
  and have no row. A retry sends the action that is now at the failed one's index.
  A delivery refused for saturation raises no notification. The worker's stop
  waits 5 s for deliveries; the API's end after `retried_at` leaves no result.
* Rule health: `create_notification` commits and then publishes; if the publish
  raises, the track is not updated and the notification is repeated.
* Members: an administrator's removal that races a promotion removes an owner;
  adding a member leaves the pending invitation.
* Worker: ids of malformed entries pile up in `ack_ids` while nothing else
  arrives (`worker.py:673`); a lost catalog invalidation is not repeated
  (`worker.py:690`); a status message that meets a database or Redis error ends the
  ingest loop and with it the process.
* Rule editor: `SchedulePicker`'s Custom forgets what the modes had; `*/45` is
  worded as an even interval.
* Wiring: `detect()` goes on with the wiring of the click; custom firmware drops
  the wiring unasked; a template's create-and-disable is two requests.

## 7. Not modelled

* Read-only parts (telemetry queries, list endpoints), generated API types,
  marketing pages, the design prototype: nothing they do changes state.
* The device directory (a time-bounded cache in front of one SELECT) and the
  ingest routes' authentication; e-mail verification and passkeys; expiry of
  refresh tokens; notification preferences and digests; simulation over stored
  telemetry (one evaluation of it is compared in `ConditionTree`).
* The generic firmware's drivers (hardware I/O; its commands are in `Commands`)
  and the mobile app's read-only lists.
* Within the modelled parts: several actuator actions in `RuleDispatch`; a reset
  tree's own leaf latches; two deliveries whose commits are heard in one pass of the
  event loop (`Delivery`; the bound on tasks is the code's all the same, because the
  manual loop awaits a look-up before it counts again); a sign-in whose storage write
  throws, and storage that throws when read or cleared; in the run, a browser
  without Web Locks (it is in the proofs); sub-second time; JSON of the checkpoint; driver
  parameters other than the I2C address and case-insensitive clashes of keys in
  `Wiring`; action types the editor does not know in `RuleDraft`; rule deletion in
  `RuleEdit`.

## 8. Plan

What is left is proof; the model is complete for the parts listed above.

1. `RecordEditor` and `Dashboard`: what is stored is what was last saved.
2. `LiveFeed` with the two pages: a settled page shows the newest reading.
3. `Wiring` and `SketchPins`: no pin twice, for any board and any parts.
4. `RowTells`, should the provers learn an induction over lists.
