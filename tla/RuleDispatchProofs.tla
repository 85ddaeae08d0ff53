-------------------------- MODULE RuleDispatchProofs --------------------------
(***************************************************************************)
(* Proofs about the worker's two loops, for every policy, queue length,     *)
(* request and fault: a rule keeps its cooldown across loops within one     *)
(* life of the process, and across lives from the checkpoint on.            *)
(***************************************************************************)
EXTENDS MCRuleDispatch, TLAPS

\* What a step may do to the firing times: move them forward by a firing that
\* keeps the cooldown since the one RuleState knows, or leave them alone.
FiresOrKeeps ==
    \/ lastFire' = lastFire /\ st'.last_fired_at = st.last_fired_at
    \/ /\ lastFire' = now /\ st'.last_fired_at = now
       /\ st.last_fired_at # NoTime => now - st.last_fired_at >= ThePolicy.cooldown

\* The part of the type invariant that the firing times depend on.
CoreTypeOK ==
    /\ now \in Nat /\ level \in Kleene /\ st \in RuleState
    /\ lastFire \in Time
    /\ checkpoint \subseteq RuleState /\ vouched \subseteq RuleState

CoreInv == CoreTypeOK /\ StateKeepsCheckpoint

\* One evaluation by either loop fires within the cooldown or not at all
\* (evaluate_and_dispatch, run_rule_out_of_band).
LEMMA EvaluateInFires ==
    ASSUME NEW l, NEW tr \in Kleene, NEW first, CoreTypeOK,
           EvaluateIn(l, tr, now, first)
    PROVE  FiresOrKeeps /\ st' \in RuleState /\ lastFire' \in Time
<1> DEFINE r == Evaluate(ThePolicy, tr, Unknown, now, st)
<1>1. /\ r.st \in RuleState /\ r.edge \in Edges
      /\ r.edge # "fire" => r.st.last_fired_at = st.last_fired_at
      /\ r.edge = "fire" =>
            /\ r.st.last_fired_at = now
            /\ st.last_fired_at # NoTime =>
                  now - st.last_fired_at >= ThePolicy.cooldown
  BY EvaluateKeepsCooldown, PolicyAssumption DEF CoreTypeOK, Kleene
<1>2. /\ st' = r.st
      /\ lastFire' = IF r.edge = "fire" THEN now ELSE lastFire
  BY DEF EvaluateIn
<1> HIDE DEF r
<1>3. QED
  BY <1>1, <1>2 DEF FiresOrKeeps, CoreTypeOK, Time

\* What a worker step leaves alone when no process ends.
Durable == up' = up /\ checkpoint' = checkpoint /\ vouched' = vouched

\* A reading or a request changes the firing times as FiresOrKeeps says and
\* nothing that is durable.
LEMMA EvaluatingStep ==
    ASSUME CoreTypeOK, HandleRequest \/ (\E tr \in Kleene : Reading(tr))
    PROVE  FiresOrKeeps /\ Durable /\ CoreTypeOK'
<1>1. CASE \E tr \in Kleene : Reading(tr)
  <2>1. PICK tr \in Kleene : Reading(tr)
    BY <1>1
  <2>2. Durable /\ now' = now /\ level' = tr
    BY <2>1 DEF Reading, Durable, durable
  <2>3. FiresOrKeeps /\ st' \in RuleState /\ lastFire' \in Time
    <3>1. CASE EvaluateIn("Ingest", tr, now, "publish")
      BY <3>1, EvaluateInFires
    <3>2. CASE UNCHANGED <<mem, lastFire, wanted>>
      BY <3>2 DEF FiresOrKeeps, mem, CoreTypeOK
    <3>3. QED
      BY <2>1, <3>1, <3>2 DEF Reading
  <2>4. QED
    BY <2>2, <2>3 DEF CoreTypeOK, Durable
<1>2. CASE HandleRequest
  <2>1. Durable /\ now' = now /\ level' = level
    BY <1>2 DEF HandleRequest, Durable, durable
  <2>2. CASE HandleMetric
    <3>1. CASE EvaluateIn("Manual", level, now, "resolve")
      BY <3>1, <2>1, EvaluateInFires DEF CoreTypeOK, Durable
    <3>2. CASE UNCHANGED <<mem, lastFire, wanted>>
      BY <3>2, <2>1 DEF FiresOrKeeps, mem, CoreTypeOK, Durable
    <3>3. QED
      BY <2>2, <3>1, <3>2 DEF HandleMetric
  <2>3. CASE HandleManual
    BY <2>1, <2>3 DEF HandleManual, FiresOrKeeps, CoreTypeOK, Durable
  <2>4. CASE HandleReset
    <3>1. lastFire' = lastFire
      BY <2>4 DEF HandleReset
    <3>2. st' = ResetLatch(st) \/ st' = st
      BY <2>4 DEF HandleReset, mem
    <3>3. st' \in RuleState /\ st'.last_fired_at = st.last_fired_at
      BY <3>2 DEF ResetLatch, CoreTypeOK, RuleState, Time
    <3>4. QED
      BY <2>1, <3>1, <3>3 DEF FiresOrKeeps, CoreTypeOK, Durable
  <2>5. QED
    BY <1>2, <2>2, <2>3, <2>4 DEF HandleRequest
<1>3. QED
  BY <1>1, <1>2

\* The awaits of a dispatch, the clock, staleness, requests, polls and lost
\* connections touch neither the firing times nor anything durable.
LEMMA OtherStep ==
    ASSUME CoreTypeOK,
           \/ \E l \in Loops : Dispatch(l)
           \/ Tick \/ GoStale \/ Poll \/ Reconnect
           \/ \E kind \in Requests : Request(kind)
    PROVE  Durable /\ st' = st /\ lastFire' = lastFire /\ CoreTypeOK'
<1> USE DEF durable, mem, Durable, CoreTypeOK
<1>1. CASE \E l \in Loops : Dispatch(l)
  BY <1>1 DEF Dispatch, Resolve, Publish, Record, SetLatched
<1>2. CASE Tick
  BY <1>2 DEF Tick
<1>3. CASE GoStale
  BY <1>3 DEF GoStale, Kleene
<1>4. CASE Poll
  BY <1>4 DEF Poll
<1>5. CASE Reconnect
  BY <1>5 DEF Reconnect
<1>6. CASE \E kind \in Requests : Request(kind)
  BY <1>6 DEF Request
<1>7. QED
  BY <1>1, <1>2, <1>3, <1>4, <1>5, <1>6

\* A firing that keeps the cooldown leaves no checkpoint ahead of RuleState.
LEMMA FiringKeepsCheckpoint ==
    ASSUME CoreInv, CoreTypeOK', FiresOrKeeps, Durable
    PROVE  StateKeepsCheckpoint'
<1>1. ThePolicy.cooldown \in Nat
  BY PolicyAssumption DEF Policy
<1>2. st.last_fired_at <= st'.last_fired_at
  BY <1>1 DEF FiresOrKeeps, CoreInv, CoreTypeOK, RuleState, Time, NoTime
<1>3. ASSUME NEW c \in vouched PROVE c.last_fired_at <= st'.last_fired_at
  <2>1. c.last_fired_at <= st.last_fired_at
    BY DEF CoreInv, StateKeepsCheckpoint
  <2>2. /\ c.last_fired_at \in Int /\ st.last_fired_at \in Int
        /\ st'.last_fired_at \in Int
    BY DEF CoreInv, CoreTypeOK, RuleState, Time, NoTime
  <2>3. QED
    BY <1>2, <2>1, <2>2
<1>4. QED
  BY <1>3 DEF StateKeepsCheckpoint, CoreInv, Durable

\* A checkpoint, an end of the process and a restart keep the invariant.
LEMMA DurabilityStep ==
    ASSUME CoreInv, Checkpoint \/ Crash \/ Stop \/ Boot \/ LoadCache
                        \/ restore_rule_states
    PROVE  CoreInv' /\ lastFire' = lastFire
<1> USE DEF CoreInv, CoreTypeOK, StateKeepsCheckpoint, mem, durable
<1>0. /\ NewRuleState \in RuleState
      /\ Snapshot \subseteq RuleState
      /\ \A c, d \in Snapshot : c = d
      /\ \A c \in Snapshot : c = st
  BY DEF NewRuleState, RuleState, Time, NoTime, Snapshot
<1>1. CASE Checkpoint
  <2>1. st.last_fired_at <= st.last_fired_at
    BY DEF RuleState, Time, NoTime
  <2>2. QED
    BY <1>0, <1>1, <2>1 DEF Checkpoint
<1>2. CASE Crash
  BY <1>0, <1>2 DEF Crash, Exit, Kleene
<1>3. CASE Stop
  BY <1>0, <1>3 DEF Stop, Exit, Kleene
<1>4. CASE Boot
  BY <1>4 DEF Boot
<1>5. CASE LoadCache
  BY <1>5 DEF LoadCache
<1>6. CASE restore_rule_states
  <2>1. CASE /\ st' \in checkpoint /\ vouched' = checkpoint
    <3>1. \A c \in vouched' : c = st'
      BY <2>1
    <3>2. st'.last_fired_at <= st'.last_fired_at
      BY <2>1 DEF RuleState, Time, NoTime
    <3>3. QED
      BY <1>6, <2>1, <3>1, <3>2 DEF restore_rule_states
  <2>2. CASE UNCHANGED <<st, vouched>>
    BY <1>6, <2>2 DEF restore_rule_states
  <2>3. QED
    BY <1>6, <2>1, <2>2 DEF restore_rule_states
<1>7. QED
  BY <1>1, <1>2, <1>3, <1>4, <1>5, <1>6

\* What the step may not do: fire within the cooldown of a checkpoint's firing.
CheckpointStep ==
    up = "running" /\ lastFire' # lastFire =>
        \A c \in vouched : \/ c.last_fired_at = NoTime
                           \/ lastFire' - c.last_fired_at >= ThePolicy.cooldown

\* One step keeps the invariant and the cooldown since every vouched checkpoint.
LEMMA NextKeeps ==
    ASSUME CoreInv, [Next]_vars
    PROVE  CoreInv' /\ [CheckpointStep]_vars
<1>0. CoreTypeOK
  BY DEF CoreInv
<1>1. CASE HandleRequest \/ (\E tr \in Kleene : Reading(tr))
  <2>1. FiresOrKeeps /\ Durable /\ CoreTypeOK'
    BY <1>0, <1>1, EvaluatingStep
  <2>2. CoreInv'
    BY <2>1, FiringKeepsCheckpoint DEF CoreInv
  <2>3. ASSUME NEW c \in vouched, lastFire' # lastFire, c.last_fired_at # NoTime
        PROVE  lastFire' - c.last_fired_at >= ThePolicy.cooldown
    <3>1. /\ lastFire' = now
          /\ st.last_fired_at # NoTime => now - st.last_fired_at >= ThePolicy.cooldown
      BY <2>1, <2>3 DEF FiresOrKeeps
    <3>2. c.last_fired_at <= st.last_fired_at
      BY DEF CoreInv, StateKeepsCheckpoint
    <3>3. /\ c.last_fired_at \in Nat /\ st.last_fired_at \in Int /\ now \in Nat
          /\ ThePolicy.cooldown \in Nat
      BY <2>3, <1>0, PolicyAssumption DEF CoreTypeOK, RuleState, Time, NoTime, Policy
    <3>4. QED
      BY <3>1, <3>2, <3>3 DEF NoTime
  <2>4. QED
    BY <2>2, <2>3 DEF CheckpointStep
<1>2. CASE \/ \E l \in Loops : Dispatch(l)
           \/ Tick \/ GoStale \/ Poll \/ Reconnect
           \/ \E kind \in Requests : Request(kind)
  BY <1>0, <1>2, OtherStep DEF CoreInv, StateKeepsCheckpoint, Durable, CheckpointStep
<1>3. CASE Checkpoint \/ Crash \/ Stop \/ Boot \/ LoadCache \/ restore_rule_states
  BY <1>3, DurabilityStep DEF CheckpointStep
<1>4. CASE UNCHANGED vars
  BY <1>4 DEF vars, CoreInv, CoreTypeOK, StateKeepsCheckpoint
<1>5. QED
  BY <1>1, <1>2, <1>3, <1>4 DEF Next

\* The process starts with nothing to remember.
LEMMA InitKeeps == Init => CoreInv
BY DEF Init, CoreInv, CoreTypeOK, StateKeepsCheckpoint, NewRuleState, RuleState,
       Time, NoTime, Kleene

\* A rule that runs on a checkpoint keeps its cooldown after the last firing the
\* checkpoint knows of, wherever the process ended before (snapshot_rule_states,
\* restore_rule_states, evaluate).
THEOREM CheckpointTheorem == Spec => CheckpointKeepsCooldown
<1>1. Spec => []CoreInv
  BY InitKeeps, NextKeeps, PTL DEF Spec
<1>2. CoreInv /\ [Next]_vars => [CheckpointStep]_vars
  BY NextKeeps
<1>3. Spec => [][CheckpointStep]_vars
  BY <1>1, <1>2, PTL DEF Spec
<1>4. QED
  BY <1>3, PTL DEF CheckpointKeepsCooldown, CheckpointStep

-----------------------------------------------------------------------------
(***************************************************************************)
(* One life of the process                                                 *)
(***************************************************************************)

CooldownStep ==
    lastFire' # lastFire /\ lastFire # NoTime =>
        lastFire' - lastFire >= ThePolicy.cooldown

\* A process that does not end knows the latest firing and keeps the cooldown
\* since it.
LEMMA OneLifeStep ==
    ASSUME "crash" \notin Faults, "stop" \notin Faults, CoreTypeOK, OneLife,
           [Next]_vars
    PROVE  OneLife' /\ [CooldownStep]_vars
<1>1. CASE HandleRequest \/ (\E tr \in Kleene : Reading(tr))
  <2>1. FiresOrKeeps /\ Durable
    BY <1>1, EvaluatingStep
  <2>2. QED
    BY <2>1 DEF FiresOrKeeps, Durable, OneLife, CooldownStep
<1>2. CASE \/ \E l \in Loops : Dispatch(l)
           \/ Tick \/ GoStale \/ Poll \/ Reconnect
           \/ \E kind \in Requests : Request(kind)
  BY <1>2, OtherStep DEF OneLife, Durable, CooldownStep
<1>3. CASE Checkpoint
  BY <1>3 DEF Checkpoint, OneLife, CooldownStep, mem
<1>4. CASE Crash \/ Stop \/ Boot \/ LoadCache \/ restore_rule_states
  BY <1>4 DEF Crash, Stop, Fault, Boot, LoadCache, restore_rule_states, OneLife
<1>5. CASE UNCHANGED vars
  BY <1>5 DEF vars, OneLife
<1>6. QED
  BY <1>1, <1>2, <1>3, <1>4, <1>5 DEF Next

\* Two loops that evaluate one rule never fire it twice within its cooldown,
\* whatever they still have to dispatch: the check and the update of RuleState
\* have no await between them.  (A worker that ends may forget a firing that
\* no checkpoint saw.)
THEOREM CooldownTheorem ==
    ASSUME "crash" \notin Faults, "stop" \notin Faults
    PROVE  Spec => CooldownAcrossLoops
<1>1. Init => OneLife
  BY DEF Init, OneLife, NewRuleState
<1>2. CoreInv /\ OneLife /\ [Next]_vars => OneLife' /\ [CooldownStep]_vars
  BY OneLifeStep DEF CoreInv
<1>3. Spec => [](CoreInv /\ OneLife)
  BY <1>1, <1>2, InitKeeps, NextKeeps, PTL DEF Spec
<1>4. Spec => [][CooldownStep]_vars
  BY <1>2, <1>3, PTL DEF Spec
<1>5. QED
  BY <1>4, PTL DEF CooldownAcrossLoops, CooldownStep

\* What is known of a rule whose worker does not end, beside one whose may.
LatchInv == rule = "latch" => CoreInv /\ OneLife

\* A latching alarm that users run by hand and reset at any moment is not raised
\* twice within its cooldown: a run by hand leaves RuleState alone, a reset
\* re-arms but keeps last_fired_at, and a restore brings back no older state
\* than memory has (run_rule_out_of_band, reset_rule_latch).
THEOREM LatchTheorem ==
    ASSUME "crash" \notin Faults, "stop" \notin Faults
    PROVE  MCSpec => LatchKeepsCooldown
<1> DEFINE Step == rule = "latch" /\ lastFire' # lastFire /\ lastFire # NoTime =>
                     lastFire' - lastFire >= ThePolicy.cooldown
<1>1. MCInit => LatchInv
  BY InitKeeps DEF MCInit, LatchInv, Init, OneLife, NewRuleState
<1>2. LatchInv /\ [MCNext]_mcVars => LatchInv' /\ [Step]_mcVars
  <2> SUFFICES ASSUME LatchInv, [MCNext]_mcVars PROVE LatchInv' /\ Step
    OBVIOUS
  <2>1. rule' = rule
    BY DEF MCNext, OnRelay, mcVars
  <2>2. CASE rule = "latch"
    <3>1. [Next]_vars /\ CoreInv /\ OneLife
      BY <2>2 DEF MCNext, OnRelay, mcVars, LatchInv
    <3>2. CoreInv' /\ OneLife' /\ [CooldownStep]_vars
      BY <3>1, NextKeeps, OneLifeStep DEF CoreInv
    <3>3. QED
      BY <3>2 DEF LatchInv, CooldownStep, vars
  <2>3. CASE rule # "latch"
    BY <2>1, <2>3 DEF LatchInv
  <2>4. QED
    BY <2>2, <2>3
<1>3. QED
  BY <1>1, <1>2, PTL DEF MCSpec, LatchKeepsCooldown

-----------------------------------------------------------------------------
(***************************************************************************)
(* Types, and the whole invariant                                          *)
(***************************************************************************)

\* The loops and the queue keep their types under an evaluation.
LEMMA EvaluateInTypes ==
    ASSUME NEW l \in Loops, NEW tr \in Kleene, NEW first \in Phases, TypeOK,
           EvaluateIn(l, tr, now, first)
    PROVE  /\ st' \in RuleState /\ known' \in BOOLEAN /\ lastFire' \in Time
           /\ loop' \in [Loops -> LoopState]
           /\ wanted' \in {"on", "off"}
<1> DEFINE r == Evaluate(ThePolicy, tr, Unknown, now, st)
<1>1. r.st \in RuleState /\ r.edge \in Edges
  BY EvaluateKeepsCooldown, PolicyAssumption DEF TypeOK, Kleene
<1>2. /\ st' = r.st /\ known' = TRUE
      /\ lastFire' = IF r.edge = "fire" THEN now ELSE lastFire
      /\ wanted' = IF r.edge = "none" THEN wanted ELSE Position(r.edge)
      /\ loop' = [loop EXCEPT ![l] =
              IF r.edge = "none" THEN Idle
              ELSE [phase |-> first, edge |-> r.edge, source |-> "metric"]]
  BY DEF EvaluateIn
<1> HIDE DEF r
<1>3. known' \in BOOLEAN
  BY <1>2, Zenon
<1>4. QED
  BY <1>1, <1>2, <1>3 DEF TypeOK, Time, LoopState, Idle, Phases, Edges, Position

\* A reading or a request keeps the types.
LEMMA EvaluatingTypes ==
    ASSUME TypeOK, HandleRequest \/ (\E tr \in Kleene : Reading(tr))
    PROVE  TypeOK'
<1>1. CASE \E tr \in Kleene : Reading(tr)
  <2>1. PICK tr \in Kleene : Reading(tr)
    BY <1>1
  <2>2. /\ st' \in RuleState /\ known' \in BOOLEAN /\ lastFire' \in Time
        /\ loop' \in [Loops -> LoopState] /\ wanted' \in {"on", "off"}
    <3>1. CASE EvaluateIn("Ingest", tr, now, "publish")
      BY <3>1, EvaluateInTypes DEF Loops, Phases
    <3>2. CASE UNCHANGED <<mem, lastFire, wanted>>
      BY <3>2 DEF mem, TypeOK
    <3>3. QED
      BY <2>1, <3>1, <3>2 DEF Reading
  <2>3. /\ level' = tr
        /\ UNCHANGED <<up, now, queue, checkpoint, vouched, latched, relay, faults>>
    BY <2>1 DEF Reading, durable
  <2>4. QED
    BY <2>2, <2>3 DEF TypeOK
<1>2. CASE HandleRequest
  <2>1. /\ queue # <<>> /\ queue' = Tail(queue)
        /\ UNCHANGED <<up, now, level, checkpoint, vouched, latched, relay, faults>>
    BY <1>2 DEF HandleRequest, durable
  <2>2. /\ queue' \in Seq({"metric", "manual", "reset"}) /\ Len(queue') <= MaxQueue
    BY <2>1, DispatchBounds DEF TypeOK
  <2>3. /\ st' \in RuleState /\ known' \in BOOLEAN /\ lastFire' \in Time
        /\ loop' \in [Loops -> LoopState] /\ wanted' \in {"on", "off"}
    <3>1. CASE HandleMetric
      <4>1. CASE EvaluateIn("Manual", level, now, "resolve")
        BY <4>1, EvaluateInTypes DEF Loops, Phases, TypeOK
      <4>2. CASE UNCHANGED <<mem, lastFire, wanted>>
        BY <4>2 DEF mem, TypeOK
      <4>3. QED
        BY <3>1, <4>1, <4>2 DEF HandleMetric
    <3>2. CASE HandleManual
      BY <3>2 DEF HandleManual, TypeOK, LoopState, Loops, Phases, Edges
    <3>3. CASE HandleReset
      <4>1. CASE /\ st' = ResetLatch(st) /\ known' = TRUE
                 /\ loop' = [loop EXCEPT !["Manual"].phase = "unflag"]
        <5>1. st' \in RuleState
          BY <4>1 DEF ResetLatch, RuleState, Time, TypeOK
        <5>2. known' \in BOOLEAN
          BY <4>1, Zenon
        <5>3. loop' \in [Loops -> LoopState]
          BY <4>1 DEF TypeOK, LoopState, Loops, Phases
        <5>4. QED
          BY <3>3, <5>1, <5>2, <5>3 DEF HandleReset, TypeOK
      <4>2. CASE UNCHANGED mem
        BY <3>3, <4>2 DEF HandleReset, mem, TypeOK
      <4>3. QED
        BY <3>3, <4>1, <4>2 DEF HandleReset
    <3>4. QED
      BY <1>2, <3>1, <3>2, <3>3 DEF HandleRequest
  <2>4. QED
    BY <2>1, <2>2, <2>3 DEF TypeOK
<1>3. QED
  BY <1>1, <1>2

\* A dispatch step keeps the types.
LEMMA DispatchTypes ==
    ASSUME TypeOK, NEW l \in Loops, Dispatch(l)
    PROVE  TypeOK'
<1> USE DispatchBounds DEF durable, Fault
<1>0. ASSUME NEW ph \in Phases, Goto(l, ph) \/ Done(l)
      PROVE  loop' \in [Loops -> LoopState]
  BY <1>0 DEF Goto, Done, TypeOK, LoopState, Idle, Phases, Edges
<1>1. loop' \in [Loops -> LoopState]
  BY <1>0 DEF Dispatch, Resolve, Publish, Record, SetLatched, Phases
<1>2. faults' \in 0..MaxFaults
  BY DEF Dispatch, Resolve, Publish, Record, SetLatched, TypeOK
<1>3. latched' \in BOOLEAN
  BY Zenon DEF Dispatch, Resolve, Publish, Record, SetLatched, TypeOK
<1>4. relay' \in {"on", "off"}
  BY DEF Dispatch, Resolve, Publish, Record, SetLatched, TypeOK, Position
<1>5. UNCHANGED <<up, now, level, st, known, queue, checkpoint, vouched, lastFire,
                  wanted>>
  BY DEF Dispatch, Resolve, Publish, Record, SetLatched
<1>6. QED
  BY <1>1, <1>2, <1>3, <1>4, <1>5 DEF TypeOK

\* The clock, staleness, requests and lost connections keep the types.
LEMMA OtherTypes ==
    ASSUME TypeOK, Tick \/ GoStale \/ Poll \/ Reconnect
                       \/ \E kind \in Requests : Request(kind)
    PROVE  TypeOK'
<1> USE DispatchBounds DEF durable, mem, TypeOK
<1>1. CASE Tick
  BY <1>1 DEF Tick
<1>2. CASE GoStale
  BY <1>2 DEF GoStale, Kleene
<1>3. CASE Poll
  BY <1>3 DEF Poll
<1>4. CASE Reconnect
  BY <1>4 DEF Reconnect, Fault
<1>5. CASE \E kind \in Requests : Request(kind)
  <2>1. PICK kind \in Requests : Request(kind)
    BY <1>5
  <2>2. /\ queue' \in Seq({"metric", "manual", "reset"}) /\ Len(queue') <= MaxQueue
    BY <2>1 DEF Request
  <2>3. QED
    BY <2>1, <2>2 DEF Request
<1>6. QED
  BY <1>1, <1>2, <1>3, <1>4, <1>5

\* Checkpoints, ends of the process and restarts keep the types.
LEMMA DurabilityTypes ==
    ASSUME TypeOK, Checkpoint \/ Crash \/ Stop \/ Boot \/ LoadCache
                       \/ restore_rule_states
    PROVE  TypeOK'
<1> USE DispatchBounds DEF durable, mem, TypeOK
<1>0. /\ NewRuleState \in RuleState /\ Snapshot \subseteq RuleState
      /\ [l \in Loops |-> Idle] \in [Loops -> LoopState]
      /\ FALSE \in BOOLEAN /\ TRUE \in BOOLEAN
      /\ <<>> \in Seq({"metric", "manual", "reset"}) /\ Len(<<>>) <= MaxQueue
  BY DEF NewRuleState, RuleState, Time, NoTime, Snapshot, Idle, LoopState, Phases,
         Edges
<1>1. CASE Checkpoint
  BY <1>0, <1>1 DEF Checkpoint
<1>2. CASE Crash \/ Stop
  <2>1. /\ st' = NewRuleState /\ known' = FALSE /\ queue' = <<>>
        /\ loop' = [l \in Loops |-> Idle] /\ up' = "down" /\ level' = Unknown
        /\ vouched' = {}
        /\ UNCHANGED <<now, latched, relay, lastFire, wanted>>
    BY <1>2 DEF Crash, Stop, Exit
  <2>2. faults' \in 0..MaxFaults
    BY <1>2 DEF Crash, Stop, Fault
  <2>3. checkpoint' \in SUBSET RuleState
    BY <1>0, <1>2 DEF Crash, Stop
  <2>4. known' \in BOOLEAN
    BY <2>1, Zenon
  <2>5. QED
    BY <1>0, <2>1, <2>2, <2>3, <2>4 DEF Kleene
<1>3. CASE Boot
  BY <1>3 DEF Boot
<1>4. CASE LoadCache
  BY <1>4 DEF LoadCache
<1>5. CASE restore_rule_states
  <2>1. st' \in RuleState /\ vouched' \in SUBSET RuleState
    BY <1>5 DEF restore_rule_states
  <2>2. known' \in BOOLEAN
    BY <1>5, Zenon DEF restore_rule_states
  <2>3. faults' \in 0..MaxFaults
    BY <1>5 DEF restore_rule_states, Fault
  <2>4. QED
    BY <1>5, <2>1, <2>2, <2>3 DEF restore_rule_states
<1>6. QED
  BY <1>1, <1>2, <1>3, <1>4, <1>5

\* RuleState, the checkpoint, the loops and the queue keep their types, and
\* RuleState never falls behind the checkpoint it runs on.
THEOREM DispatchInvariant == Spec => []DispatchInv
<1>1. Init => TypeOK
  <2> SUFFICES ASSUME Init PROVE TypeOK
    OBVIOUS
  <2>1. known \in BOOLEAN /\ latched \in BOOLEAN
    BY Zenon DEF Init
  <2>2. st \in RuleState
    BY DEF Init, NewRuleState, RuleState, Time, NoTime
  <2>3. loop \in [Loops -> LoopState]
    BY DEF Init, Idle, LoopState, Phases, Edges
  <2>4. queue \in Seq({"metric", "manual", "reset"}) /\ Len(queue) <= MaxQueue
    BY DispatchBounds DEF Init
  <2>5. QED
    BY <2>1, <2>2, <2>3, <2>4, DispatchBounds DEF Init, TypeOK, Time, Kleene
<1>2. TypeOK /\ [Next]_vars => TypeOK'
  <2>1. CASE UNCHANGED vars
    BY <2>1 DEF vars, TypeOK
  <2>2. QED
    BY <2>1, EvaluatingTypes, DispatchTypes, OtherTypes, DurabilityTypes DEF Next
<1>3. Spec => [](TypeOK /\ CoreInv)
  BY <1>1, <1>2, InitKeeps, NextKeeps, PTL DEF Spec
<1>4. TypeOK /\ CoreInv => DispatchInv
  BY DEF DispatchInv, CoreInv
<1>5. QED
  BY <1>3, <1>4, PTL
=============================================================================
