------------------------------ MODULE RuleDraft -----------------------------
(***************************************************************************)
(* The editable model behind the rule editors (lib/rule-draft.ts): a rule  *)
(* read from the API becomes a draft, the fields of fields.tsx,            *)
(* FormMode.tsx and EditableSentence.tsx change it, the checks of          *)
(* lib/rule-preview.ts gate it, and saving turns it into a request that    *)
(* the API validates (schemas.py, rules/service.py) and applies.           *)
(*                                                                         *)
(* Data is cut to what the conversions tell apart: 0 is "nothing picked or *)
(* typed", the condition is one contact or none (its tree is RuleTree's),  *)
(* a number a user types is 0, 1 or 2, and what is typed into a message is  *)
(* Missing, Fine or Refused: taken by the editor's checks, not by the       *)
(* API's.                                                                   *)
(***************************************************************************)
EXTENDS Integers, Sequences, FiniteSets, SequencesExt

CONSTANT MaxDraftEdits    \* bound: changes made to one draft before a save

VARIABLES
    rule,      \* the rule as the API stores it, or NoRule
    draft,     \* RuleEditor's draft
    opened,    \* the draft as it was opened
    focus,     \* the part of the draft this behaviour edits
    changes,   \* changes made since it was opened or saved
    answer     \* the API's answer to the last save: "none", "saved", "refused"

draftVars == <<rule, draft, opened, focus, changes, answer>>

Triggers == {"metric", "schedule", "manual", "device_status"}
Operators == {">", "==", "between", "in", "changed"}
Arity == [op \in Operators |-> CASE op \in {">", "=="} -> "one"
                                  [] op = "between" -> "range"
                                  [] op = "in" -> "set"
                                  [] OTHER -> "none"]
HasHysteresis(op) == op = ">"
Kinds == {"actuator", "email", "webhook", "notification"}
NoRule == [trigger |-> [type |-> "no rule"]]
NoCondition == [source |-> "no condition"]
BoolMetric == 2          \* metric 2 of the template is on/off, metric 1 a number
AnalogActuator == 2      \* actuator 2 takes a number, actuator 1 is on/off
TooLong == 3             \* a name of more than 200 characters
Missing == 0             \* a message, subject, address or body the editor asks for
Fine == 1
Refused == 2             \* too long a text, too many recipients, a webhook's JSON that is no object
BadCron == 2             \* a cron expression that cannot be read

isReadingRule(d) == d.when.type = "metric"

canClear(d) == isReadingRule(d) /\ d.behaviour = "rearm"

-----------------------------------------------------------------------------
(* Starting points. *)

emptyContact(dev) ==
    [deviceId |-> dev, metric |-> 0, operator |-> ">", hysteresis |-> 1, rhsKind |-> "static",
     value |-> 0, range |-> 0, setText |-> 0, rhsRef |-> 0]

Actuator(dev, actuator, bool) ==
    [kind |-> "actuator", deviceId |-> dev, actuator |-> actuator, valueKind |-> "boolean",
     bool |-> bool, num |-> 0, revertOnClear |-> FALSE, clearBool |-> "opposite", clearNum |-> 0]

Message(kind, text) == [kind |-> kind, text |-> text]

(* A webhook starts with the body {} but no address.                       *)
emptyAction(kind, dev) ==
    IF kind = "actuator" THEN Actuator(dev, 0, "on") ELSE Message(kind, Missing)

emptyDraft(dev) ==
    [name |-> 0,
     when |-> [type |-> "metric", cron |-> 1, statusDeviceId |-> dev],
     condition |-> emptyContact(dev),
     behaviour |-> "rearm",
     forDuration |-> 10, cooldown |-> 60, clearDelay |-> 0,
     actions |-> <<emptyAction("actuator", dev)>>,
     clearNotify |-> FALSE, clearMessage |-> Missing,
     preserved |-> [strategy |-> "edge", resetCondition |-> 0, clearActions |-> <<>>]]

(* rule-recipes.ts: the six recipes, filled with a device that has a       *)
(* number metric, an on/off metric and a switch (dev 1) or left open for   *)
(* the steps to fill in (dev 0).                                           *)
Threshold(dev, op, value, hysteresis) ==
    [emptyContact(dev) EXCEPT !.metric = dev, !.operator = op, !.value = value,
                              !.hysteresis = hysteresis]
Recipe(dev) == [emptyDraft(dev) EXCEPT !.name = 1]

recipesFor(dev) == {
    [Recipe(dev) EXCEPT !.condition = Threshold(dev, ">", 2, 1),
                        !.actions = <<[Actuator(dev, dev, "on") EXCEPT !.revertOnClear = TRUE]>>],
    [Recipe(dev) EXCEPT !.condition = [Threshold(dev, "==", 1, 0) EXCEPT !.metric = 2 * dev],
                        !.forDuration = 120,
                        !.actions = <<Message("email", Fine)>>],
    [Recipe(dev) EXCEPT !.condition = Threshold(dev, ">", 1, 1),
                        !.actions = <<Message("notification", Fine)>>],
    [Recipe(dev) EXCEPT !.condition = Threshold(dev, ">", 1, 1),
                        !.actions = <<Actuator(dev, dev, "off")>>,
                        !.behaviour = "latch"],
    [Recipe(dev) EXCEPT !.when = [type |-> "device_status", cron |-> 1, statusDeviceId |-> dev],
                        !.condition = NoCondition,
                        !.actions = <<Message("notification", Fine)>>],
    [Recipe(dev) EXCEPT !.when.type = "schedule",
                        !.condition = NoCondition,
                        !.actions = <<Actuator(dev, dev, "on")>>]}

-----------------------------------------------------------------------------
(* From the API. *)

contactFromLeaf(leaf) ==
    LET base == [emptyContact(leaf.deviceId) EXCEPT
                    !.metric = leaf.metric, !.operator = leaf.operator, !.hysteresis = leaf.hysteresis]
    IN  CASE leaf.rhs.source = "none" -> base
          [] leaf.rhs.source = "range" -> [base EXCEPT !.range = leaf.rhs.v]
          [] leaf.rhs.source = "set" -> [base EXCEPT !.setText = leaf.rhs.v]
          [] leaf.rhs.source = "metric" -> [base EXCEPT !.rhsKind = "metric", !.rhsRef = leaf.rhs.v]
          [] OTHER -> [base EXCEPT !.value = leaf.rhs.v]

BoolOf(v) == IF v = 1 THEN "on" ELSE "off"

(* A command's value is [t |-> "boolean", v |-> 0 or 1] or                 *)
(* [t |-> "number", v |-> 2].  A message's "more" is what the editor has no *)
(* field for: a notification's email channel, a webhook's own retries.     *)
actionFromApi(a) ==
    IF a.type # "actuator_command" THEN Message(a.type, a.text)
    ELSE LET base == Actuator(a.deviceId, a.actuator, "on")
         IN  IF a.value.t = "boolean" THEN [base EXCEPT !.bool = BoolOf(a.value.v)]
             ELSE [base EXCEPT !.valueKind = "number", !.num = a.value.v]

EmailedToo(a) == a.type = "notification" /\ a.more

(* A notification that is emailed too becomes two actions. *)
ActionsFromApi(a) ==
    <<actionFromApi(a)>> \o (IF EmailedToo(a) THEN <<Message("email", Fine)>> ELSE <<>>)

(* A clear command for an action's own actuator folds into that action.    *)
OwnsClear(action, raw) ==
    /\ action.kind = "actuator"
    /\ ~action.revertOnClear
    /\ action.actuator = raw.actuator
    /\ action.deviceId = raw.deviceId

FoldIntoOwner(action, raw) ==
    IF raw.value.t = "boolean"
    THEN [action EXCEPT !.revertOnClear = TRUE, !.clearBool = BoolOf(raw.value.v)]
    ELSE [action EXCEPT !.revertOnClear = TRUE, !.clearNum = raw.value.v]

FoldClear(d, raw) ==
    LET owners == IF raw.type # "actuator_command" THEN {}
                  ELSE {i \in DOMAIN d.actions : OwnsClear(d.actions[i], raw)}
        first == CHOOSE i \in owners : \A j \in owners : i <= j
    IN  CASE owners # {} -> [d EXCEPT !.actions[first] = FoldIntoOwner(@, raw)]
          [] owners = {} /\ raw.type = "notification" /\ ~EmailedToo(raw) /\ ~d.clearNotify ->
                [d EXCEPT !.clearNotify = TRUE, !.clearMessage = raw.text]
          [] OTHER -> [d EXCEPT !.preserved.clearActions = Append(@, raw)]

draftFromRule(r) ==
    LET base == [
            name |-> r.name,
            when |-> [type |-> r.trigger.type,
                      cron |-> IF r.trigger.type = "schedule" THEN r.trigger.v ELSE 1,
                      statusDeviceId |-> IF r.trigger.type = "device_status" THEN r.trigger.v ELSE 0],
            condition |-> IF r.condition = NoCondition THEN NoCondition ELSE contactFromLeaf(r.condition),
            behaviour |-> CASE r.policy.strategy = "edge" -> "rearm"
                            [] r.policy.strategy = "latch" -> "latch"
                            [] OTHER -> "other",
            forDuration |-> r.policy.forDuration, cooldown |-> r.policy.cooldown,
            clearDelay |-> r.policy.clearDelay,
            actions |-> FlattenSeq([i \in DOMAIN r.actions |-> ActionsFromApi(r.actions[i])]),
            clearNotify |-> FALSE, clearMessage |-> Missing,
            preserved |-> [strategy |-> r.policy.strategy,
                           resetCondition |-> r.policy.resetCondition, clearActions |-> <<>>]]
    IN  FoldLeft(FoldClear, base, r.clearActions)

-----------------------------------------------------------------------------
(* To the API. *)

buildRhs(c) ==
    CASE Arity[c.operator] = "none" -> [source |-> "none", v |-> 0]
      [] Arity[c.operator] = "range" -> [source |-> "range", v |-> c.range]
      [] Arity[c.operator] = "set" -> [source |-> "set", v |-> c.setText]
      [] c.rhsKind = "metric" -> [source |-> "metric", v |-> c.rhsRef]
      [] OTHER -> [source |-> "static", v |-> c.value]

leafFromContact(c) ==
    [source |-> "leaf", deviceId |-> c.deviceId, metric |-> c.metric, operator |-> c.operator,
     rhs |-> buildRhs(c),
     hysteresis |-> IF HasHysteresis(c.operator) THEN c.hysteresis ELSE 0]

Command(a, value) ==
    [type |-> "actuator_command", deviceId |-> a.deviceId, actuator |-> a.actuator, value |-> value]

OnOff == [on |-> 1, off |-> 0]

actuatorValue(a) ==
    IF a.valueKind = "boolean" THEN [t |-> "boolean", v |-> OnOff[a.bool]] ELSE [t |-> "number", v |-> a.num]

Opposite(b) == IF b = "on" THEN "off" ELSE "on"

actuatorClearValue(a) ==
    IF a.valueKind = "number" THEN [t |-> "number", v |-> a.clearNum]
    ELSE [t |-> "boolean", v |-> OnOff[IF a.clearBool = "opposite" THEN Opposite(a.bool) ELSE a.clearBool]]

Sent(kind, text) == [type |-> kind, text |-> text, more |-> FALSE]

actionToApi(a) ==
    IF a.kind = "actuator" THEN Command(a, actuatorValue(a)) ELSE Sent(a.kind, a.text)

strategyFor(d) ==
    CASE ~isReadingRule(d) -> "edge"
      [] d.behaviour = "latch" -> "latch"
      [] d.behaviour = "other" -> d.preserved.strategy
      [] OTHER -> "edge"

TriggerFor(w) ==
    [type |-> w.type, v |-> CASE w.type = "schedule" -> w.cron
                              [] w.type = "device_status" -> w.statusDeviceId
                              [] OTHER -> 0]

Reverting(d) == SelectSeq(d.actions, LAMBDA a : a.kind = "actuator" /\ a.revertOnClear)

ClearActionsFor(d) ==
    IF ~canClear(d) THEN <<>>
    ELSE [i \in DOMAIN Reverting(d) |-> Command(Reverting(d)[i], actuatorClearValue(Reverting(d)[i]))]
           \o (IF d.clearNotify /\ d.clearMessage # Missing
               THEN <<Sent("notification", d.clearMessage)>> ELSE <<>>)
           \o d.preserved.clearActions

draftToRequest(d) ==
    [name |-> d.name,
     trigger |-> TriggerFor(d.when),
     condition |-> IF d.condition = NoCondition THEN NoCondition ELSE leafFromContact(d.condition),
     policy |-> [strategy |-> strategyFor(d),
                 forDuration |-> IF isReadingRule(d) THEN d.forDuration ELSE 0,
                 cooldown |-> d.cooldown,
                 clearDelay |-> IF canClear(d) THEN d.clearDelay ELSE 0,
                 resetCondition |-> IF strategyFor(d) \in {"latch", "reset_condition"}
                                    THEN d.preserved.resetCondition ELSE 0],
     actions |-> [i \in DOMAIN d.actions |-> actionToApi(d.actions[i])],
     clearActions |-> ClearActionsFor(d)]

-----------------------------------------------------------------------------
(* The checks while typing. An issue is its section and whether it blocks. *)

contactProblem(c) ==
    \/ c.deviceId = 0 \/ c.metric = 0
    \/ c.rhsKind = "metric" /\ Arity[c.operator] = "one" /\ c.rhsRef = 0

actionProblem(a) ==
    IF a.kind = "actuator" THEN a.deviceId = 0 \/ a.actuator = 0 ELSE a.text = Missing

BadCondition(d) == d.condition # NoCondition /\ contactProblem(d.condition)
BadActions(d) == d.actions = <<>> \/ \E a \in Range(d.actions) : actionProblem(a)
BadClear(d) == canClear(d) /\ d.clearNotify /\ d.clearMessage = Missing

validateDraft(d) ==
    /\ ~(d.when.type = "schedule" /\ d.when.cron = 0)
    /\ ~(d.when.type = "device_status" /\ d.when.statusDeviceId = 0)
    /\ ~(d.condition = NoCondition /\ d.when.type = "metric")
    /\ ~BadCondition(d)
    /\ ~BadActions(d)
    /\ ~BadClear(d)

BareThreshold(d) ==
    d.condition # NoCondition /\ HasHysteresis(d.condition.operator) /\ d.condition.hysteresis = 0
switchesHardware(d) == \E a \in Range(d.actions) : a.kind = "actuator"

Issue(section, blocking) == [section |-> section, blocking |-> blocking]

sectionIssues(d) ==
    LET reading == isReadingRule(d)
        found == {
            <<d.when.type = "schedule" /\ d.when.cron = 0, Issue("when", TRUE)>>,
            <<d.when.type = "device_status" /\ d.when.statusDeviceId = 0, Issue("when", TRUE)>>,
            <<reading /\ d.condition = NoCondition, Issue("if", TRUE)>>,
            <<BadCondition(d), Issue("if", TRUE)>>,
            <<reading /\ switchesHardware(d) /\ BareThreshold(d), Issue("if", FALSE)>>,
            <<BadActions(d), Issue("then", TRUE)>>,
            <<reading /\ d.forDuration < 5, Issue("behaviour", FALSE)>>,
            <<d.cooldown < 30, Issue("behaviour", FALSE)>>,
            <<BadClear(d), Issue("behaviour", TRUE)>>,
            <<d.name = TooLong, Issue("name", TRUE)>>}
    IN  {p[2] : p \in {q \in found : q[1]}}

Blocking(d) == {i \in sectionIssues(d) : i.blocking}

(* The preview's checklist.                                                *)
ruleChecks(d) ==
    [conditions |-> ~(isReadingRule(d) /\ d.condition = NoCondition) /\ ~BadCondition(d),
     actions |-> ~BadActions(d),
     hold |-> isReadingRule(d) => d.forDuration >= 5,
     interval |-> d.cooldown >= 30,
     hysteresis |-> isReadingRule(d) /\ switchesHardware(d) => ~BareThreshold(d)]

(* What the screens say will happen when the condition clears: the CLEAR   *)
(* rung's coils, and the preview's list of messages.                       *)
clearCoils(d) ==
    IF ~canClear(d) THEN <<>>
    ELSE [i \in DOMAIN Reverting(d) |-> Command(Reverting(d)[i], actuatorClearValue(Reverting(d)[i]))]
           \o (IF d.clearNotify THEN <<Sent("notification", d.clearMessage)>> ELSE <<>>)

wouldSend(d) == draftToRequest(d).actions \o draftToRequest(d).clearActions

-----------------------------------------------------------------------------
(* The API: schemas.py and rules/service.py. *)

LeafIsValid(leaf) ==
    /\ leaf.deviceId # 0
    /\ leaf.metric # 0
    /\ leaf.rhs.source \in CASE leaf.operator = "changed" -> {"none"}
                             [] leaf.operator = "between" -> {"range"}
                             [] leaf.operator = "in" -> {"set"}
                             [] OTHER -> {"static", "metric"}
    /\ leaf.rhs.source = "set" => leaf.rhs.v # 0
    /\ leaf.rhs.source = "metric" => leaf.rhs.v # 0
    /\ leaf.hysteresis > 0 => HasHysteresis(leaf.operator)

IsValid(r) ==
    /\ r.name \notin {0, TooLong}
    /\ r.trigger.type = "metric" => r.condition # NoCondition
    /\ r.trigger.type = "schedule" => r.trigger.v \notin {0, BadCron}
    /\ r.trigger.type = "device_status" => r.trigger.v # 0
    /\ r.condition # NoCondition => LeafIsValid(r.condition)
    /\ Len(r.actions) > 0
    /\ \A a \in Range(r.actions \o r.clearActions) :
          IF a.type = "actuator_command" THEN a.deviceId # 0 /\ a.actuator # 0 ELSE a.text = Fine
    /\ r.clearActions # <<>> => r.trigger.type = "metric"
    /\ r.policy.strategy = "latch" => r.trigger.type = "metric" /\ r.clearActions = <<>>

(* update_rule: a field that is missing or null keeps what is stored.      *)
Updated(r, req) ==
    [req EXCEPT !.name = IF @ = 0 THEN r.name ELSE @,
                !.condition = IF @ = NoCondition THEN r.condition ELSE @]

(* POST needs every field; PATCH is applied and the result validated.      *)
Result(r, req) == IF r = NoRule THEN req ELSE Updated(r, req)

-----------------------------------------------------------------------------
(* Opening a rule, a recipe or a blank rule. *)

Leaf(op, source, v, h) ==
    [source |-> "leaf", deviceId |-> 1, metric |-> 1, operator |-> op,
     rhs |-> [source |-> source, v |-> v], hysteresis |-> h]
On(actuator) == [type |-> "actuator_command", deviceId |-> 1, actuator |-> actuator,
                 value |-> [t |-> "boolean", v |-> 1]]
Off(actuator) == [On(actuator) EXCEPT !.value.v = 0]
OnAt(actuator, number) == [On(actuator) EXCEPT !.value = [t |-> "number", v |-> number]]
Stored(kind, more) == [type |-> kind, text |-> Fine, more |-> more]
Policy(strategy) == [strategy |-> strategy, forDuration |-> 10, cooldown |-> 60,
                     clearDelay |-> 0, resetCondition |-> 0]
BaseRule == [name |-> 1, trigger |-> [type |-> "metric", v |-> 0],
             condition |-> Leaf(">", "static", 1, 1), policy |-> Policy("edge"),
             actions |-> <<On(1)>>, clearActions |-> <<>>]

(* Rules the editor stored, and rules written through the API: with fields *)
(* the editor does not show, and with what it has another form for.        *)
EditorsRules == {
    BaseRule,
    [BaseRule EXCEPT !.actions = <<On(1), Off(3)>>,
                     !.clearActions = <<On(3), Off(1), Stored("notification", FALSE)>>,
                     !.policy.clearDelay = 10],
    [BaseRule EXCEPT !.actions = <<OnAt(2, 2)>>, !.clearActions = <<OnAt(2, 1)>>],
    [BaseRule EXCEPT !.trigger = [type |-> "schedule", v |-> 1], !.condition = Leaf("in", "set", 1, 0),
                     !.policy.forDuration = 0],
    [BaseRule EXCEPT !.trigger = [type |-> "device_status", v |-> 1], !.condition = NoCondition,
                     !.policy.forDuration = 0, !.actions = <<Stored("webhook", FALSE)>>],
    [BaseRule EXCEPT !.condition = Leaf("==", "metric", 1, 0)]}

ApisRules == {
    [BaseRule EXCEPT !.clearActions = <<Stored("email", FALSE), Off(1), On(1), Stored("notification", TRUE)>>],
    [BaseRule EXCEPT !.policy = [Policy("latch") EXCEPT !.resetCondition = 1]],
    [BaseRule EXCEPT !.policy = [Policy("reset_condition") EXCEPT !.resetCondition = 1]],
    [BaseRule EXCEPT !.policy = [Policy("reset_condition") EXCEPT !.resetCondition = 1, !.clearDelay = 10],
                     !.clearActions = <<Off(1)>>],
    [BaseRule EXCEPT !.policy = [Policy("continuous") EXCEPT !.clearDelay = 10]],
    [BaseRule EXCEPT !.policy.resetCondition = 1],
    [BaseRule EXCEPT !.trigger = [type |-> "manual", v |-> 0]],
    [BaseRule EXCEPT !.clearActions = <<OnAt(1, 2)>>],
    [BaseRule EXCEPT !.actions = <<OnAt(2, 2)>>, !.clearActions = <<Off(2)>>],
    [BaseRule EXCEPT !.actions = <<On(1), Stored("notification", TRUE)>>],
    [BaseRule EXCEPT !.actions = <<Stored("webhook", TRUE)>>]}

StoredRules == EditorsRules \cup ApisRules

Parts == {"when", "if", "then", "clear"}

DraftInit ==
    /\ focus \in Parts
    /\ \/ /\ rule \in StoredRules
          /\ draft = draftFromRule(rule)
       \/ /\ rule = NoRule
          /\ draft \in recipesFor(1) \cup recipesFor(0) \cup {emptyDraft(0), emptyDraft(1)}
    /\ opened = draft
    /\ changes = 0
    /\ answer = "none"

-----------------------------------------------------------------------------
(* Editing. *)

Set(d) ==
    /\ d # draft
    /\ changes < MaxDraftEdits
    /\ draft' = d
    /\ changes' = changes + 1
    /\ answer' = "none"
    /\ UNCHANGED <<rule, opened, focus>>

EditWhen ==
    /\ focus = "when"
    /\ \/ \E t \in Triggers : Set([draft EXCEPT !.when.type = t])
       \/ draft.when.type = "schedule" /\ \E c \in {0, 1, BadCron} : Set([draft EXCEPT !.when.cron = c])
       \/ draft.when.type = "device_status" /\ Set([draft EXCEPT !.when.statusDeviceId = 1])
       \/ \E n \in {0, 2, TooLong} : Set([draft EXCEPT !.name = n])

(* A fresh on/off metric starts as "is ON"; another device forgets the     *)
(* metric.                                                                 *)
PickMetric(c, m) ==
    IF m = BoolMetric
    THEN [c EXCEPT !.metric = m, !.operator = "==", !.rhsKind = "static", !.value = 1, !.hysteresis = 0]
    ELSE [c EXCEPT !.metric = m]

(* An on/off metric compared with 1 or 0 is shown as "is ON", "is OFF".    *)
isBoolContact(c) ==
    c.metric = BoolMetric /\ c.operator = "==" /\ c.rhsKind = "static" /\ c.value \in {0, 1}

RhsPatches(c) ==
    CASE Arity[c.operator] = "range" -> {[c EXCEPT !.range = 2]}
      [] Arity[c.operator] = "set" -> {[c EXCEPT !.setText = v] : v \in {0, 2}}
      [] Arity[c.operator] = "one" ->
            {[c EXCEPT !.rhsKind = IF @ = "metric" THEN "static" ELSE "metric"],
             IF c.rhsKind = "metric" THEN [c EXCEPT !.rhsRef = 1] ELSE [c EXCEPT !.value = 2]}
      [] OTHER -> {}

ContactPatches(c) ==
    {[c EXCEPT !.deviceId = 1, !.metric = 0]}
      \cup {PickMetric(c, m) : m \in {1, BoolMetric}}
      \cup (IF isBoolContact(c) THEN {[c EXCEPT !.value = v] : v \in {0, 1}}
            ELSE {[c EXCEPT !.operator = op] : op \in Operators} \cup RhsPatches(c))
      \cup (IF HasHysteresis(c.operator) THEN {[c EXCEPT !.hysteresis = h] : h \in {0, 1}} ELSE {})

EditIf ==
    /\ focus = "if"
    /\ \/ draft.condition = NoCondition /\ Set([draft EXCEPT !.condition = emptyContact(1)])
       \/ draft.condition # NoCondition /\ Set([draft EXCEPT !.condition = NoCondition])
       \/ /\ draft.condition # NoCondition
          /\ \E c \in ContactPatches(draft.condition) : Set([draft EXCEPT !.condition = c])

(* Picking an actuator of the template sets how its value is sent.         *)
PickActuator(a, actuator) ==
    [a EXCEPT !.actuator = actuator, !.valueKind = IF actuator = AnalogActuator THEN "number" ELSE "boolean"]

ActuatorPatches(a) ==
    {[a EXCEPT !.deviceId = 1, !.actuator = 0]}
      \cup {PickActuator(a, x) : x \in {1, AnalogActuator}}
      \cup (IF a.valueKind = "boolean" THEN {[a EXCEPT !.bool = Opposite(@)]} ELSE {[a EXCEPT !.num = 2]})

ClearPatches(a) ==
    {[a EXCEPT !.revertOnClear = ~@]}
      \cup (IF ~a.revertOnClear THEN {}
            ELSE IF a.valueKind = "boolean" THEN {[a EXCEPT !.clearBool = b] : b \in {"on", "off"}}
            ELSE {[a EXCEPT !.clearNum = 1]})

(* The fields of action i while canClear shows the clear fields.           *)
ActionPatches(a) ==
    CASE a.kind # "actuator" -> {[a EXCEPT !.text = t] : t \in {Missing, Fine, Refused}}
      [] focus = "then" -> ActuatorPatches(a)
      [] canClear(draft) -> ClearPatches(a)
      [] OTHER -> {}

EditThen ==
    /\ focus \in {"then", "clear"}
    /\ \/ \E i \in DOMAIN draft.actions : \E a \in ActionPatches(draft.actions[i]) :
            Set([draft EXCEPT !.actions[i] = a])
       \/ focus = "then" /\ Len(draft.actions) < 3 /\ \E k \in Kinds :
            Set([draft EXCEPT !.actions = Append(@, emptyAction(k, 1))])
       \/ focus = "then" /\ Len(draft.actions) > 1 /\ \E i \in DOMAIN draft.actions :
            Set([draft EXCEPT !.actions = RemoveAt(@, i)])

EditBehaviour ==
    /\ focus = "clear"
    /\ \/ isReadingRule(draft) /\ \E b \in {"rearm", "latch"} : Set([draft EXCEPT !.behaviour = b])
       \/ isReadingRule(draft) /\ Set([draft EXCEPT !.forDuration = 0])
       \/ Set([draft EXCEPT !.cooldown = 0])
       \/ canClear(draft) /\ \/ Set([draft EXCEPT !.clearDelay = 10])
                             \/ Set([draft EXCEPT !.clearNotify = ~@])
                             \/ draft.clearNotify /\ \E m \in {Missing, Fine, Refused} : Set([draft EXCEPT !.clearMessage = m])
       \/ \E t \in {"metric", "manual"} : Set([draft EXCEPT !.when.type = t])

(* RuleEditor.save without its dialog: blocking issues and validateDraft   *)
(* stop it, the API answers, and what is saved is the new starting point.  *)
SaveDraft ==
    /\ answer = "none"
    /\ Blocking(draft) = {}
    /\ validateDraft(draft)
    /\ LET result == Result(rule, draftToRequest(draft))
       IN  IF IsValid(result)
           THEN /\ rule' = result
                /\ answer' = "saved"
           ELSE /\ answer' = "refused"
                /\ UNCHANGED rule
    /\ UNCHANGED <<draft, opened, focus, changes>>

DraftNext == EditWhen \/ EditIf \/ EditThen \/ EditBehaviour \/ SaveDraft

-----------------------------------------------------------------------------
(* Properties. *)

(* "Call validateDraft first": what the editor lets through the API takes. *)
(* What it does let through and the API refuses: a new rule without a name *)
(* (the field says one is generated), a cron it cannot read, a set without *)
(* a number, and a message beyond the API's limits: a text too long, more  *)
(* than twenty recipients, a webhook body that is JSON but no object.      *)
(* Everything else an author can leave behind by switching trigger,        *)
(* operator or behaviour back and forth is taken.                          *)
BeyondTheLimits(d) ==
    \/ \E a \in Range(d.actions) : a.kind # "actuator" /\ a.text = Refused
    \/ canClear(d) /\ d.clearNotify /\ d.clearMessage = Refused
RefusedByDesign(d) ==
    \/ rule = NoRule /\ d.name = 0
    \/ d.when.type = "schedule" /\ d.when.cron = BadCron
    \/ d.condition # NoCondition /\ d.condition.operator = "in" /\ d.condition.setText = 0
    \/ BeyondTheLimits(d)
SavesAreAccepted == answer = "refused" => RefusedByDesign(draft)

(* "Left blank, a name is generated" (RuleEditor.tsx): no save that passed *)
(* the editor's checks with a blank name is refused.                       *)
BlankNameIsGenerated == answer = "refused" => draft.name # 0

(* Two rules that do the same: the order of the clear actions aside.       *)
SameRule(r, s) ==
    /\ [r EXCEPT !.clearActions = <<>>] = [s EXCEPT !.clearActions = <<>>]
    /\ Len(r.clearActions) = Len(s.clearActions)
    /\ Range(r.clearActions) = Range(s.clearActions)

(* After a save the stored rule reads back as what was drafted: the same   *)
(* request would be sent again. Emptying the condition of a rule that has  *)
(* one is the exception: the PATCH sends null, which keeps it.             *)
ConditionEmptied == draft.condition = NoCondition /\ rule.condition # NoCondition
Reads(d) == [draftToRequest(d) EXCEPT !.name = 1]
SavedReadsBack ==
    answer = "saved" /\ ~ConditionEmptied => SameRule(Reads(draftFromRule(rule)), Reads(draft))

(* "Call `validateDraft` first -- this assumes every field it reads is      *)
(* already well-formed": a draft the editor lets through is refused for     *)
(* nothing in it that it has no check for.  No run checks it.              *)
ChecksMatchTheApi == answer = "refused" => ~BeyondTheLimits(draft)

(* The same with no exception: removing the conditions of a rule that runs *)
(* on a schedule and saving removes them.                                  *)
SavedIsStored == answer = "saved" => SameRule(Reads(draftFromRule(rule)), Reads(draft))

(* A rule whose every field the editor shows or passes on: no clear on a   *)
(* rule that does not re-arm, no time to hold or to clear and no reset      *)
(* condition where the editor sends none, a clear value of the type the     *)
(* command it takes back has, no message with more than the editor's form.  *)
ClearsOwn(r, clear) ==
    \A a \in Range(r.actions) :
        (clear.type = "actuator_command" /\ a.type = "actuator_command"
           /\ <<a.deviceId, a.actuator>> = <<clear.deviceId, clear.actuator>>)
        => a.value.t = clear.value.t
EditorHasAFormFor(r) ==
    LET reading == r.trigger.type = "metric"
        rearms == reading /\ r.policy.strategy = "edge"
    IN  /\ rearms \/ (r.clearActions = <<>> /\ r.policy.clearDelay = 0)
        /\ reading \/ r.policy.forDuration = 0
        /\ r.policy.strategy \in {"latch", "reset_condition"} \/ r.policy.resetCondition = 0
        /\ \A a \in Range(r.actions) : a.type # "actuator_command" => ~a.more
        /\ \A c \in Range(r.clearActions) : ClearsOwn(r, c)

(* "API-authored fields the editors don't expose, passed through on save"  *)
(* (rule-draft.ts): opening a rule the editor has a form for and saving it *)
(* unchanged stores the same rule, clear commands in any order, folded or  *)
(* not, reset conditions and foreign clear actions passed on.              *)
OpenAndSaveKeeps ==
    rule # NoRule /\ changes = 0 /\ EditorHasAFormFor(rule)
        => SameRule(rule, Result(rule, draftToRequest(draft)))

(* The same for every rule the API takes.  Opening and saving drops the     *)
(* clear actions and the clear delay of a reset-condition or continuous     *)
(* rule, turns a number a clear sends to an on/off command into its         *)
(* opposite, sends the email of a notification as an action of its own and  *)
(* forgets a webhook's retries.  No run checks it.                          *)
OpenAndSaveKeepsAll ==
    rule # NoRule /\ changes = 0 => SameRule(rule, Result(rule, draftToRequest(draft)))

(* "the rail's badges, N to fix and the save gate all read this one list": *)
(* a draft without a blocking issue passes validateDraft too, and a failed *)
(* blocking check of the preview is a blocking issue.                      *)
GatesAgree ==
    Blocking(draft) = {} =>
        validateDraft(draft) /\ ruleChecks(draft).conditions /\ ruleChecks(draft).actions

(* The CLEAR rung and the preview show exactly what would run on clear,    *)
(* but for the actions set through the API, which the rung leaves out.     *)
ClearIsShown ==
    Blocking(draft) = {} =>
        /\ clearCoils(draft) \o (IF canClear(draft) THEN draft.preserved.clearActions ELSE <<>>)
              = draftToRequest(draft).clearActions
        /\ answer = "saved" => wouldSend(draft) = rule.actions \o rule.clearActions

(* "every recipe still passes through the editor's validation and safety   *)
(* checks": a recipe filled with a device is ready to be saved and meets   *)
(* every check as it is; one that is not filled is never savable.          *)
RecipesAreSafe ==
    /\ \A d \in recipesFor(1) :
          /\ Blocking(d) = {}
          /\ IsValid(draftToRequest(d))
          /\ \A check \in DOMAIN ruleChecks(d) : ruleChecks(d)[check]
    /\ \A d \in recipesFor(0) : Blocking(d) # {}
=============================================================================
