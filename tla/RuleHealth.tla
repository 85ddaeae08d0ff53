------------------------------ MODULE RuleHealth ------------------------------
(***************************************************************************)
(* rules_maintenance_loop's watch over the rules (rules/service.py,         *)
(* emit_rule_health_transitions): a rule whose signals go stale, or come     *)
(* back, is published as a rule_health event, and going stale writes one     *)
(* notification, at most one an hour.  A pass looks at the rules in turn and *)
(* waits for each publish and each write; readings, edits of the rules and   *)
(* errors come in between.  An error ends the pass, and the next one finds    *)
(* the tracks as the error left them.                                        *)
(***************************************************************************)
EXTENDS Naturals, Sequences, FiniteSetsExt

CONSTANTS
    HealthRules,        \* the rules, in the order of _rules_by_id
    RenotifyAfter,      \* _RULE_HEALTH_RENOTIFY_AFTER
    MaxClock,           \* bound on the clock: later passes happen then
    HealthQuestions     \* how often each kind of event may happen

VARIABLES
    cachedRules,    \* _rules_by_id
    fresh,          \* the rules whose signals are all fresh
    track,          \* _rule_health_tracks: per rule none or one
    walk,           \* the pass under way; todo: the places in HealthRules still to look at
    clock,          \* the time, in passes
    heard,          \* the latest rule_health event of each rule: none or one
    alerts,         \* when each rule's notifications were written
    healthBudget,
    \* ghosts
    flips,          \* when each rule was last found to have gone stale
    missed          \* rules an error or a restart interrupted, or out of the cache

health == <<cachedRules, fresh, track, walk, clock, heard, alerts, healthBudget, flips, missed>>

RuleSet == {HealthRules[i] : i \in DOMAIN HealthRules}
Track(ok, at) == [evaluatable |-> ok, last_alert_at |-> at]
Never == {}         \* last_alert_at is None
AtRest == [step |-> "rest", todo |-> {}, now |-> 0, ok |-> TRUE, live |-> {}]

HealthInit ==
  /\ healthBudget \in HealthQuestions
  /\ cachedRules = RuleSet /\ fresh \in {RuleSet, {}}
  /\ track = [r \in RuleSet |-> {}] /\ walk = AtRest /\ clock = 0
  /\ heard = [r \in RuleSet |-> {}] /\ alerts = [r \in RuleSet |-> <<>>]
  /\ flips = [r \in RuleSet |-> {}] /\ missed = {}

SpendHealth(kind) ==
  /\ healthBudget[kind] > 0
  /\ healthBudget' = [healthBudget EXCEPT ![kind] = @ - 1]

-----------------------------------------------------------------------------
First   == Min(walk.todo)
Subject == HealthRules[First]

\* The places from the first rule that flipped on.  Up to there the pass does not
\* wait: a rule without a track gets its baseline, the others are as they were.
Flipped(r) == \E t \in track[r] : t.evaluatable # (r \in fresh)
FromFlip(todo) ==
  LET flipped == {i \in todo : Flipped(HealthRules[i])}
  IN  IF flipped = {} THEN {} ELSE {i \in todo : i >= Min(flipped)}
UpToFlip(todo) == {HealthRules[i] : i \in todo \ FromFlip(todo)}

\* Look at the rules at these places, with the tracks `kept`: on to the next
\* flip's publish, or to the end of the pass, which drops the tracks of rules
\* that are gone.
Look(todo, kept, live, now) ==
  LET rest == FromFlip(todo)
      next == HealthRules[Min(rest)]
      gone == IF rest = {} THEN RuleSet \ live ELSE {}
  IN  /\ track' = [r \in RuleSet |->
           IF r \in gone THEN {}
           ELSE IF r \in UpToFlip(todo) /\ kept[r] = {} THEN {Track(r \in fresh, Never)} ELSE kept[r]]
      /\ walk' = IF rest = {} THEN AtRest
                 ELSE [step |-> "publish", todo |-> rest, now |-> now, ok |-> next \in fresh, live |-> live]
      /\ flips' = [r \in RuleSet |->
           IF r \in gone THEN {}
           ELSE IF rest # {} /\ r \in {next} \ fresh THEN {now} ELSE flips[r]]

StartPass ==
  /\ walk = AtRest
  /\ clock' = Min({clock + 1, MaxClock})
  /\ Look({i \in DOMAIN HealthRules : HealthRules[i] \in cachedRules}, track, cachedRules, clock')
  /\ UNCHANGED <<cachedRules, fresh, heard, alerts, healthBudget, missed>>

\* A notification is due: the rule went stale, and the last one is long ago.
Due(t) == ~walk.ok /\ \A at \in t.last_alert_at : walk.now - at > RenotifyAfter

\* The rule's new track, and on to the rest of the list.
Tracked(at) ==
  LET r == Subject
  IN  Look(walk.todo \ {First}, [track EXCEPT ![r] = {Track(walk.ok, at)}], walk.live, walk.now)

\* publish_event; then the notification, or the track.
Published ==
  /\ walk.step = "publish"
  /\ heard' = [heard EXCEPT ![Subject] = {walk.ok}]
  /\ LET t == CHOOSE t \in track[Subject] : TRUE
     IN  \/ Due(t) /\ walk' = [walk EXCEPT !.step = "notify"] /\ UNCHANGED <<track, flips>>
         \/ ~Due(t) /\ Tracked(t.last_alert_at)
  /\ UNCHANGED <<cachedRules, fresh, clock, alerts, healthBudget, missed>>

\* create_notification's row is committed.
Notified ==
  /\ walk.step = "notify"
  /\ alerts' = [alerts EXCEPT ![Subject] = Append(@, walk.now)]
  /\ Tracked({walk.now})
  /\ UNCHANGED <<cachedRules, fresh, clock, heard, healthBudget, missed>>

\* A publish or a write raises, or the write succeeds and the event about it is
\* what raises: the pass ends and the rule's track is as before.
PassFails ==
  /\ walk.step \in {"publish", "notify"}
  /\ SpendHealth("fault")
  /\ \/ walk.step = "notify" /\ alerts' = [alerts EXCEPT ![Subject] = Append(@, walk.now)]
     \/ UNCHANGED alerts
  /\ missed' = missed \cup {Subject}
  /\ walk' = AtRest
  /\ UNCHANGED <<cachedRules, fresh, track, clock, heard, flips>>

\* Readings arrive or stop; a rule is disabled, deleted or back in the cache.
SignalChanges(r) ==
  /\ SpendHealth("signal")
  /\ fresh' = (fresh \ {r}) \cup ({r} \ fresh)
  /\ UNCHANGED <<cachedRules, track, walk, clock, heard, alerts, flips, missed>>
CacheChanges(r) ==
  /\ SpendHealth("edit")
  /\ cachedRules' = (cachedRules \ {r}) \cup ({r} \ cachedRules)
  /\ missed' = missed \cup {r}
  /\ UNCHANGED <<fresh, track, walk, clock, heard, alerts, flips>>

\* The worker ends and starts again: the tracks were in its memory only.
HealthRestarts ==
  /\ SpendHealth("fault")
  /\ track' = [r \in RuleSet |-> {}] /\ flips' = [r \in RuleSet |-> {}]
  /\ walk' = AtRest /\ missed' = RuleSet
  /\ UNCHANGED <<cachedRules, fresh, clock, heard, alerts>>

HealthPass == StartPass \/ Published \/ Notified
HealthNext == HealthPass \/ PassFails \/ HealthRestarts \/ \E r \in RuleSet : SignalChanges(r) \/ CacheChanges(r)

-----------------------------------------------------------------------------
(* Properties                                                               *)

HealthTypeOK ==
  /\ \A r \in RuleSet : (\A t, u \in track[r] : t = u) /\ (\A h, k \in heard[r] : h = k)
  /\ walk.step \in {"rest", "publish", "notify"} /\ (walk.step = "rest" <=> walk.todo = {})

\* "debounced per rule": two notifications of a rule are more than the hour
\* apart, unless an error kept the first from being remembered or the rule was
\* away in between.
AlertsSpaced ==
  \A r \in RuleSet \ missed : \A i \in 1..(Len(alerts[r]) - 1) :
    alerts[r][i + 1] - alerts[r][i] > RenotifyAfter

\* A rule tracked as stale after it was seen fresh has had a notification within
\* the hour before, or at that pass.
StaleWasTold ==
  \A r \in RuleSet : \A t \in track[r], f \in flips[r] : ~t.evaluatable =>
    \E i \in DOMAIN alerts[r] : alerts[r][i] <= f /\ f - alerts[r][i] <= RenotifyAfter

\* What the screens last heard of a rule is what its track says.
HeardIsTracked ==
  \A r \in RuleSet \ missed : \A t \in track[r], h \in heard[r] :
    h = t.evaluatable \/ (walk.step = "notify" /\ Subject = r)

\* What the three rest on, for a rule with track T, last flip F, event H and
\* notifications A: a track is dropped with its flip; it remembers a notification
\* that was written, the latest one unless an error or an absence came between;
\* a rule without one was never told of.
Tracks == [evaluatable : BOOLEAN, last_alert_at : SUBSET Nat]
RuleKnown(T, F, H, A, now, away, inHand) ==
  /\ T \subseteq Tracks /\ F \subseteq Nat /\ H \subseteq BOOLEAN /\ A \in Seq(Nat)
  /\ (\A t, u \in T : t = u) /\ (\A h, k \in H : h = k)
  /\ T = {} => F = {}
  /\ \A t \in T : \A at \in t.last_alert_at : at <= now /\ \E i \in DOMAIN A : A[i] = at
  /\ \A t \in T, f \in F : ~t.evaluatable =>
       \E i \in DOMAIN A : A[i] <= f /\ f - A[i] <= RenotifyAfter
  /\ ~away =>
       /\ T = {} => H = {} /\ A = <<>>
       /\ \A t \in T : A # <<>> => A[Len(A)] \in t.last_alert_at
       /\ \A i \in 1..(Len(A) - 1) : A[i + 1] - A[i] > RenotifyAfter
       /\ \A t \in T, h \in H : h = t.evaluatable \/ inHand

\* A pass under way has found a flip of the rule it is at, and no rule that is
\* out of its list has been seen without interruption.
PassAt(now) ==
  [step : {"publish", "notify"}, todo : (SUBSET DOMAIN HealthRules) \ {{}}, now : {now}, ok : BOOLEAN,
   live : SUBSET RuleSet]
WalkKnown ==
  \/ walk = AtRest
  \/ /\ walk \in PassAt(clock)
     /\ RuleSet \ walk.live \subseteq missed
     /\ \E t \in track[Subject] : t.evaluatable # walk.ok
     /\ ~walk.ok => flips[Subject] = {clock}
     /\ walk.step = "notify" => heard[Subject] = {walk.ok} /\ \A t \in track[Subject] : Due(t)

HealthInv ==
  /\ clock \in 0..MaxClock
  /\ cachedRules \subseteq RuleSet /\ RuleSet \ cachedRules \subseteq missed
  /\ DOMAIN track = RuleSet /\ DOMAIN flips = RuleSet /\ DOMAIN heard = RuleSet /\ DOMAIN alerts = RuleSet
  /\ \A r \in RuleSet : RuleKnown(track[r], flips[r], heard[r], alerts[r], clock, r \in missed,
                                   walk.step = "notify" /\ Subject = r)
  /\ WalkKnown

\* Once signals settle and errors end, every rule's verdict is the true one.
HealthBehind == walk # AtRest \/ \E r \in cachedRules : \A t \in track[r] : t.evaluatable # (r \in fresh)
=============================================================================
