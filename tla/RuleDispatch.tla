----------------------------- MODULE RuleDispatch -----------------------------
(***************************************************************************)
(* One metric rule inside the worker process (backend/src/app/worker.py and *)
(* rules/service.py).  Two loops evaluate it and drive its actuator:        *)
(*   Ingest  mqtt_ingest_loop: a reading is evaluated at once                *)
(*           (evaluate_and_dispatch);                                        *)
(*   Manual  manual_command_loop: requests on RULES_MANUAL_CHANNEL, from     *)
(*           pending_timer_loop, POST /rules/{id}/run and .../reset.         *)
(* An evaluation updates RuleState atomically; what follows it (resolving    *)
(* the device, publishing, recording, flagging the latch) is a sequence of   *)
(* awaits, so the two loops interleave between those steps.  The process     *)
(* checkpoints RuleState to Redis, may stop or crash at any await, and       *)
(* restores the checkpoint after it has loaded its rules.                    *)
(***************************************************************************)
EXTENDS Evaluator, Sequences

CONSTANTS
    ThePolicy,      \* execution_policy of the rule
    Requests,       \* what users ask for: a subset of {"manual", "reset"}
    Faults,         \* a subset of {"resolve", "publish", "redis", "reconnect",
                    \*              "crash", "stop"}: what may go wrong
    MaxTime,        \* bound on the wall clock
    MaxQueue,       \* bound on requests waiting for the manual loop; the last
                    \* slot is the timer poll's
    MaxFaults       \* bound on the number of faults in a behaviour

\* The reset tree is RuleEvaluator's concern: here the rule has none.
ASSUME PolicyAssumption ==
    ThePolicy \in Policy /\ ValidPolicy(ThePolicy) /\ ~ThePolicy.has_reset
ASSUME DispatchBounds ==
    /\ MaxTime \in Nat /\ MaxQueue \in Nat /\ MaxFaults \in Nat
    /\ Requests \subseteq {"manual", "reset"}

VARIABLES
    up,         \* "down", "booting", "loaded" (rules cached, states not yet
                \* restored) or "running"
    now,        \* wall clock
    level,      \* the condition's value under the latest readings
    st,         \* _rule_states[rule], NewRuleState when there is none
    known,      \* _rule_states has an entry for the rule
    loop,       \* what each loop is doing
    queue,      \* requests published and not yet handled
    checkpoint, \* rules:state in Redis (a set: empty, or one RuleState)
    latched,    \* the rule is in rules:latched in Redis
    relay,      \* the retained state/{actuator} message at the broker
    \* ghosts
    faults,     \* faults so far
    lastFire,   \* when the rule last fired, in any life of the process
    wanted,     \* the relay position the latest run asked for
    vouched     \* the checkpoint this life of the process wrote or restored last

mem  == <<st, known, loop>>
durable == <<checkpoint, vouched>>
vars == <<up, now, level, st, known, loop, queue, checkpoint, latched, relay, faults,
          lastFire, wanted, vouched>>

Loops  == {"Ingest", "Manual"}
Phases == {"idle", "resolve", "publish", "record", "flag", "unflag"}
Idle   == [phase |-> "idle", edge |-> "none", source |-> "metric"]

LoopState == [phase : Phases, edge : Edges, source : {"metric", "manual"}]

TypeOK ==
    /\ up \in {"down", "booting", "loaded", "running"}
    /\ now \in Nat
    /\ level \in Kleene
    /\ st \in RuleState /\ known \in BOOLEAN
    /\ loop \in [Loops -> LoopState]
    /\ queue \in Seq({"metric", "manual", "reset"}) /\ Len(queue) <= MaxQueue
    /\ checkpoint \in SUBSET RuleState
    /\ latched \in BOOLEAN
    /\ relay \in {"on", "off"} /\ wanted \in {"on", "off"}
    /\ faults \in 0..MaxFaults
    /\ lastFire \in Time
    /\ vouched \in SUBSET RuleState

Init ==
    /\ up = "running"
    /\ now = 0
    /\ level = Unknown
    /\ st = NewRuleState /\ known = FALSE
    /\ loop = [l \in Loops |-> Idle]
    /\ queue = <<>>
    /\ checkpoint = {}
    /\ latched = FALSE
    /\ relay = "off" /\ wanted = "off"
    /\ faults = 0
    /\ lastFire = NoTime
    /\ vouched = {}

Position(edge) == IF edge = "fire" THEN "on" ELSE "off"

Fault(kind) ==
    /\ kind \in Faults
    /\ faults < MaxFaults
    /\ faults' = faults + 1

Cached == up \in {"loaded", "running"}      \* the rule is in _rules_by_id

-----------------------------------------------------------------------------
(***************************************************************************)
(* Evaluation                                                              *)
(***************************************************************************)

\* ThresholdEvaluator.evaluate at time t, then on to the loop's first await.
EvaluateIn(l, tr, t, first) ==
    LET r == Evaluate(ThePolicy, tr, Unknown, t, st)
    IN  /\ st' = r.st
        /\ known' = TRUE
        /\ loop' = [loop EXCEPT ![l] =
              IF r.edge = "none" THEN Idle
              ELSE [phase |-> first, edge |-> r.edge, source |-> "metric"]]
        /\ lastFire' = IF r.edge = "fire" THEN t ELSE lastFire
        /\ wanted' = IF r.edge = "none" THEN wanted ELSE Position(r.edge)

\* handle_message -> evaluate_and_dispatch: the rule's own device sent a
\* reading, so its actuator needs no look-up before the publish.
Reading(tr) ==
    /\ up # "down"
    /\ loop["Ingest"].phase = "idle"
    /\ level' = tr
    /\ IF Cached THEN EvaluateIn("Ingest", tr, now, "publish")
       ELSE UNCHANGED <<mem, lastFire, wanted>>
    /\ UNCHANGED <<up, now, queue, durable, latched, relay, faults>>

\* Mutant: a timer poll is run like "Run now", without touching RuleState.
HandleMetricStateless ==
    /\ Head(queue) = "metric"
    /\ UNCHANGED <<mem, lastFire, wanted>>

\* _handle_rule_trigger, one request at a time.
HandleMetric ==
    /\ Head(queue) = "metric"
    /\ IF Cached THEN EvaluateIn("Manual", level, now, "resolve")
       ELSE UNCHANGED <<mem, lastFire, wanted>>

\* trigger_source "manual": evaluate_condition only; RuleState is not touched.
HandleManual ==
    /\ Head(queue) = "manual"
    /\ loop' = IF Cached /\ level = True
               THEN [loop EXCEPT !["Manual"] =
                       [phase |-> "resolve", edge |-> "fire", source |-> "manual"]]
               ELSE loop
    /\ wanted' = IF Cached /\ level = True THEN "on" ELSE wanted
    /\ UNCHANGED <<st, known, lastFire>>

\* reset_rule_latch
HandleReset ==
    /\ Head(queue) = "reset"
    /\ IF Cached /\ ThePolicy.strategy = "latch"
       THEN /\ st' = ResetLatch(st)
            /\ known' = TRUE
            /\ loop' = [loop EXCEPT !["Manual"].phase = "unflag"]
       ELSE UNCHANGED mem
    /\ UNCHANGED <<lastFire, wanted>>

HandleRequest ==
    /\ up # "down"
    /\ loop["Manual"].phase = "idle"
    /\ queue # <<>>
    /\ queue' = Tail(queue)
    /\ HandleMetric \/ HandleManual \/ HandleReset
    /\ UNCHANGED <<up, now, level, durable, latched, relay, faults>>

-----------------------------------------------------------------------------
(***************************************************************************)
(* Dispatch: the awaits of run_rule_out_of_band and _dispatch_actions      *)
(***************************************************************************)

Goto(l, phase) == loop' = [loop EXCEPT ![l].phase = phase]
Done(l)        == loop' = [loop EXCEPT ![l] = Idle]

\* _resolve_rule_context: a DB round trip.  None (the device is gone or
\* disabled) ends the run; RuleState keeps what the evaluation did.
Resolve(l) ==
    /\ loop[l].phase = "resolve"
    /\ \/ Goto(l, "publish") /\ UNCHANGED faults
       \/ Fault("resolve") /\ Done(l)
    /\ UNCHANGED <<up, now, level, st, known, queue, durable, latched, relay,
                   lastFire, wanted>>

\* dispatch_command: publish the command and the retained desired state.  A
\* broker error is recorded as a failed action and the run goes on.
Publish(l) ==
    /\ loop[l].phase = "publish"
    /\ \/ relay' = Position(loop[l].edge) /\ UNCHANGED faults
       \/ Fault("publish") /\ UNCHANGED relay
    /\ Goto(l, "record")
    /\ UNCHANGED <<up, now, level, st, known, queue, durable, latched, lastFire,
                   wanted>>

\* The notification and execution rows; failures are logged, never raised.
Record(l) ==
    /\ loop[l].phase = "record"
    /\ IF /\ loop[l].edge = "fire" /\ loop[l].source = "metric"
          /\ ThePolicy.strategy = "latch"
       THEN Goto(l, "flag")
       ELSE Done(l)
    /\ UNCHANGED <<up, now, level, st, known, queue, durable, latched, relay,
                   faults, lastFire, wanted>>

\* _set_latched: a Redis error is logged and swallowed.
SetLatched(l) ==
    /\ loop[l].phase \in {"flag", "unflag"}
    /\ \/ latched' = (loop[l].phase = "flag") /\ UNCHANGED faults
       \/ Fault("redis") /\ UNCHANGED latched
    /\ Done(l)
    /\ UNCHANGED <<up, now, level, st, known, queue, durable, relay, lastFire,
                   wanted>>

-----------------------------------------------------------------------------
(***************************************************************************)
(* Time, requests, durability                                              *)
(***************************************************************************)

Tick ==
    /\ now < MaxTime
    /\ now' = now + 1
    /\ UNCHANGED <<up, level, mem, queue, durable, latched, relay, faults,
                   lastFire, wanted>>

\* Every reading outlives its max_age: the condition becomes undecidable.
GoStale ==
    /\ level # Unknown
    /\ level' = Unknown
    /\ UNCHANGED <<up, now, mem, queue, durable, latched, relay, faults,
                   lastFire, wanted>>

\* request_manual_run / request_latch_reset
Request(kind) ==
    /\ Len(queue) + 1 < MaxQueue
    /\ queue' = Append(queue, kind)
    /\ UNCHANGED <<up, now, level, mem, durable, latched, relay, faults,
                   lastFire, wanted>>

\* pending_timer_loop: every interval, for each rule with a running timer.
Poll ==
    /\ Cached
    /\ HasPendingTimer(ThePolicy, st)
    /\ Len(queue) < MaxQueue
    /\ queue' = Append(queue, "metric")
    /\ UNCHANGED <<up, now, level, mem, durable, latched, relay, faults,
                   lastFire, wanted>>

\* manual_command_loop lost a connection: what was published meanwhile is gone.
Reconnect ==
    /\ up # "down"
    /\ loop["Manual"].phase = "idle"
    /\ queue # <<>>
    /\ Fault("reconnect")
    /\ queue' = <<>>
    /\ UNCHANGED <<up, now, level, mem, durable, latched, relay, lastFire,
                   wanted>>

\* snapshot_rule_states replaces the whole checkpoint by what memory holds.
Snapshot == IF known THEN {st} ELSE {}

\* rules_maintenance_loop, which sleeps past the start-up before its first tick.
Checkpoint ==
    /\ up = "running"
    /\ checkpoint' = Snapshot /\ vouched' = Snapshot
    /\ UNCHANGED <<up, now, level, mem, queue, latched, relay, faults, lastFire,
                   wanted>>

\* The process ends: every loop is cut off at its await, memory and pub/sub
\* messages are lost.
Exit ==
    /\ up # "down"
    /\ up' = "down"
    /\ loop' = [l \in Loops |-> Idle]
    /\ st' = NewRuleState /\ known' = FALSE
    /\ level' = Unknown
    /\ queue' = <<>>
    /\ vouched' = {}
    /\ UNCHANGED <<now, latched, relay, lastFire, wanted>>

Crash == Fault("crash") /\ Exit /\ UNCHANGED checkpoint

\* run()'s finally block, on an interrupt or on an error that no loop catches:
\* whatever memory holds is checkpointed, also when it was not yet restored.
Stop == Fault("stop") /\ Exit /\ checkpoint' = Snapshot

Boot ==
    /\ up = "down"
    /\ up' = "booting"
    /\ UNCHANGED <<now, level, mem, queue, durable, latched, relay, faults,
                   lastFire, wanted>>

\* rule_cache_loop: load_rule_cache, then (another await) restore_rule_states,
\* while the other loops already run.
LoadCache ==
    /\ up = "booting"
    /\ up' = "loaded"
    /\ UNCHANGED <<now, level, mem, queue, durable, latched, relay, faults,
                   lastFire, wanted>>

\* Mutant: the checkpoint is written but never read back.
RestoreNothing ==
    /\ up = "loaded"
    /\ up' = "running"
    /\ vouched' = checkpoint
    /\ UNCHANGED <<now, level, mem, queue, checkpoint, latched, relay, faults,
                   lastFire, wanted>>

restore_rule_states ==
    /\ up = "loaded"
    /\ up' = "running"
    /\ \/ /\ checkpoint # {}
          /\ st' \in checkpoint
          /\ known' = TRUE
          /\ vouched' = checkpoint
          /\ UNCHANGED faults
       \/ checkpoint = {} /\ UNCHANGED <<st, known, vouched, faults>>
       \/ Fault("redis") /\ UNCHANGED <<st, known, vouched>>
    /\ UNCHANGED <<now, level, loop, queue, checkpoint, latched, relay,
                   lastFire, wanted>>

Dispatch(l) == Resolve(l) \/ Publish(l) \/ Record(l) \/ SetLatched(l)

Next ==
    \/ \E tr \in Kleene : Reading(tr)
    \/ HandleRequest
    \/ \E l \in Loops : Dispatch(l)
    \/ Tick
    \/ GoStale
    \/ \E kind \in Requests : Request(kind)
    \/ Poll
    \/ Reconnect
    \/ Checkpoint
    \/ Crash
    \/ Stop
    \/ Boot
    \/ LoadCache
    \/ restore_rule_states

Spec == Init /\ [][Next]_vars

\* The event loop runs every ready task, the clock moves, and timers tick.
\* Nothing obliges users, devices or faults.
Fairness ==
    /\ WF_vars(HandleRequest)
    /\ \A l \in Loops : WF_vars(Dispatch(l))
    /\ WF_vars(Tick)
    /\ WF_vars(Poll)
    /\ WF_vars(Boot)
    /\ WF_vars(LoadCache)
    /\ WF_vars(restore_rule_states)

FairSpec == Spec /\ Fairness

-----------------------------------------------------------------------------
(***************************************************************************)
(* Properties                                                              *)
(***************************************************************************)

Quiet == \A l \in Loops : loop[l].phase = "idle"

\* Whichever loop evaluates it, and whatever is still being dispatched, a rule
\* fires at most once per cooldown: RuleState is updated before the first await.
CooldownAcrossLoops ==
    [][lastFire' # lastFire /\ lastFire # NoTime =>
         lastFire' - lastFire >= ThePolicy.cooldown]_vars

\* When nothing is being dispatched, the relay stands where the latest edge put
\* it: on after a fire, off after a clear.
RelayFollowsEpisode == Quiet => relay = wanted

\* When nothing is being dispatched, the rule is shown as latched exactly when
\* it is: fired and not yet reset.
LatchedIsShown == Quiet /\ Cached => (latched <=> ~st.armed)

\* An end of the process loses at most what happened since the last checkpoint:
\* once running again with it restored, the rule keeps its cooldown after the
\* last firing the checkpoint knows of.
CheckpointKeepsCooldown ==
    [][up = "running" /\ lastFire' # lastFire =>
         \A c \in vouched : \/ c.last_fired_at = NoTime
                            \/ lastFire' - c.last_fired_at >= ThePolicy.cooldown]_vars

\* Polling alone ends every hold or clear delay: one that runs since t is over
\* or broken at some time, though no reading arrives, requests are lost and the
\* worker restarts.  (A timer that starts too near MaxTime is left out.)
PendingSince(t) ==
    HasPendingTimer(ThePolicy, st) /\ t \in {st.condition_since, st.clear_since}

\* A hold waits for for_duration and for the cooldown since the latest fire.
Longest ==
    CHOOSE d \in {ThePolicy.for_duration, ThePolicy.clear_for_duration,
                  ThePolicy.cooldown} :
        d >= ThePolicy.for_duration /\ d >= ThePolicy.clear_for_duration
            /\ d >= ThePolicy.cooldown

PendingTimersSettle ==
    \A t \in 0..(MaxTime - Longest) : PendingSince(t) ~> ~PendingSince(t)

(***************************************************************************)
(* The inductive invariant                                                 *)
(***************************************************************************)

\* RuleState never falls behind a checkpoint this life of the process wrote or
\* restored: no evaluation, reset or restore loses a firing it knows of.
StateKeepsCheckpoint ==
    /\ up # "running" => vouched = {}
    /\ \A c, d \in checkpoint : c = d
    /\ \A c \in vouched : c.last_fired_at <= st.last_fired_at

DispatchInv == TypeOK /\ StateKeepsCheckpoint

\* As long as the process does not end, RuleState knows the latest firing,
\* whichever loop it happened in.
OneLife == up = "running" /\ st.last_fired_at = lastFire
=============================================================================
