------------------------------ MODULE RulePreview ---------------------------
(***************************************************************************)
(* The preview beside a rule's draft (RulePreview.tsx): the replay of the  *)
(* last 24 hours, the dry run and "Try other values", each a request to    *)
(* POST /rules/simulate whose answer may come after the draft has changed. *)
(*                                                                         *)
(* A draft is a number; Body gives its request body (0 while it is         *)
(* incomplete) and Readings the ones that run on a reading. A result is    *)
(* known by what it was asked for.                                         *)
(***************************************************************************)
EXTENDS Integers, FiniteSets

CONSTANTS
    Drafts,              \* the drafts an author moves between
    Body,                \* Body[d]: draftBody(d), 0 for null
    Readings,            \* the drafts for which isReadingRule holds
    PreviewQuestions     \* bounds: [edit, dry, try, fail]

VARIABLES
    onScreen,    \* the draft in the editor
    bodyKey,     \* useDebounced(body, 700)
    replay,      \* what the strip shows: a body, "failed" as -1, or 0 for null
    replays,     \* replays asked for: [body, live]; live is ~cancelled
    dry,         \* [busy, result]: result is a body, -1 an error, 0 none
    dries,       \* dry runs asked for, by body
    early,       \* a dry run or a try was sent for a body the debounce had not let
                 \* through yet, or a dry run was under way while the draft changed
    tryValue,    \* the value typed, 0 for none
    tryKey,      \* useDebounced(tryValues, 500)
    tryResult,   \* [body, value] shown, or NoTry
    tries,       \* tries asked for: [body, value, live]
    previewBudget

previewVars == <<onScreen, bodyKey, replay, replays, dry, dries, early, tryValue, tryKey, tryResult,
                 tries, previewBudget>>

NoTry == [body |-> 0, value |-> 0]
Quiet == [busy |-> FALSE, result |-> 0]
reading(d) == d \in Readings
body == Body[onScreen]

Use(k) ==
    /\ previewBudget[k] > 0
    /\ previewBudget' = [previewBudget EXCEPT ![k] = @ - 1]

Cancelled(reqs) == {[r EXCEPT !.live = FALSE] : r \in reqs}

(* The replay effect, run when bodyKey or reading changed.                 *)
ReplayEffect(key, isReading) ==
    IF key = 0 \/ ~isReading
    THEN replay' = 0 /\ replays' = Cancelled(replays)
    ELSE replays' = Cancelled(replays) \cup {[body |-> key, live |-> TRUE]} /\ UNCHANGED replay

(* The try effect, run when tryKey or bodyKey changed: it sends the body   *)
(* of the draft on screen.                                                 *)
TryEffect(value, b) ==
    IF b = 0 \/ value = 0
    THEN tryResult' = NoTry /\ tries' = Cancelled(tries)
    ELSE tries' = Cancelled(tries) \cup {[body |-> b, value |-> value, live |-> TRUE]} /\ UNCHANGED tryResult

(* The dry run's effect on bodyKey: setDry({}).                            *)
DryEffect == dry' = Quiet

PreviewInit ==
    /\ onScreen \in Drafts
    /\ bodyKey = Body[onScreen]
    /\ replay = 0
    /\ replays = IF bodyKey # 0 /\ reading(onScreen) THEN {[body |-> bodyKey, live |-> TRUE]} ELSE {}
    /\ dry = Quiet
    /\ dries = {}
    /\ early = FALSE
    /\ tryValue = 0
    /\ tryKey = 0
    /\ tryResult = NoTry
    /\ tries = {}
    /\ previewBudget \in PreviewQuestions

(* Only a change of reading runs the replay effect at once; the body waits *)
(* for the debounce.                                                       *)
EditPreviewed(d) ==
    /\ d # onScreen
    /\ Use("edit")
    /\ onScreen' = d
    /\ early' = (early \/ dries # {})
    /\ IF reading(d) # reading(onScreen) THEN ReplayEffect(bodyKey, reading(d)) ELSE UNCHANGED <<replay, replays>>
    /\ UNCHANGED <<bodyKey, dry, dries, tryValue, tryKey, tryResult, tries>>

(* 700 ms without a change.                                                *)
BodySettles ==
    /\ bodyKey # body
    /\ bodyKey' = body
    /\ ReplayEffect(body, reading(onScreen))
    /\ DryEffect
    /\ TryEffect(tryKey, body)
    /\ UNCHANGED <<onScreen, dries, early, tryValue, tryKey, previewBudget>>

ReplayAnswers(r, ok) ==
    /\ r \in replays
    /\ ok \/ previewBudget["fail"] > 0
    /\ previewBudget' = IF ok THEN previewBudget ELSE [previewBudget EXCEPT !["fail"] = @ - 1]
    /\ replays' = replays \ {r}
    /\ replay' = IF ~r.live THEN replay ELSE IF ok THEN r.body ELSE -1
    /\ UNCHANGED <<onScreen, bodyKey, dry, dries, early, tryValue, tryKey, tryResult, tries>>

(* The button is disabled while busy, which the effect on bodyKey resets.  *)
dryRun ==
    /\ body # 0 /\ ~dry.busy
    /\ Use("dry")
    /\ dry' = [busy |-> TRUE, result |-> 0]
    /\ dries' = dries \cup {body}
    /\ early' = (early \/ bodyKey # body)
    /\ UNCHANGED <<onScreen, bodyKey, replay, replays, tryValue, tryKey, tryResult, tries>>

(* Mutant of DryAnswers: a failed run leaves the button busy.              *)
DryAnswersStayBusy(b) ==
    /\ b \in dries
    /\ dries' = dries \ {b}
    /\ \/ dry' = [busy |-> FALSE, result |-> b] /\ UNCHANGED previewBudget
       \/ dry' = [dry EXCEPT !.result = -1] /\ Use("fail")
    /\ UNCHANGED <<onScreen, bodyKey, replay, replays, early, tryValue, tryKey, tryResult, tries>>

DryAnswers(b) ==
    /\ b \in dries
    /\ dries' = dries \ {b}
    /\ \/ dry' = [busy |-> FALSE, result |-> b] /\ UNCHANGED previewBudget
       \/ dry' = [busy |-> FALSE, result |-> -1] /\ Use("fail")
    /\ UNCHANGED <<onScreen, bodyKey, replay, replays, early, tryValue, tryKey, tryResult, tries>>

TypeValue(v) ==
    /\ v # tryValue
    /\ Use("try")
    /\ tryValue' = v
    /\ UNCHANGED <<onScreen, bodyKey, replay, replays, dry, dries, early, tryKey, tryResult, tries>>

(* 500 ms without a keystroke.                                             *)
ValueSettles ==
    /\ tryKey # tryValue
    /\ tryKey' = tryValue
    /\ TryEffect(tryValue, body)
    /\ early' = (early \/ bodyKey # body)
    /\ UNCHANGED <<onScreen, bodyKey, replay, replays, dry, dries, tryValue, previewBudget>>

TryAnswers(t, ok) ==
    /\ t \in tries
    /\ ok \/ previewBudget["fail"] > 0
    /\ previewBudget' = IF ok THEN previewBudget ELSE [previewBudget EXCEPT !["fail"] = @ - 1]
    /\ tries' = tries \ {t}
    /\ tryResult' = IF ~t.live THEN tryResult
                    ELSE IF ok THEN [body |-> t.body, value |-> t.value] ELSE NoTry
    /\ UNCHANGED <<onScreen, bodyKey, replay, replays, dry, dries, early, tryValue, tryKey>>

PreviewSettles ==
    \/ BodySettles \/ ValueSettles
    \/ \E r \in replays : ReplayAnswers(r, TRUE)
    \/ \E b \in dries : DryAnswers(b)
    \/ \E t \in tries : TryAnswers(t, TRUE)

PreviewNext ==
    \/ \E d \in Drafts : EditPreviewed(d)
    \/ PreviewSettles
    \/ \E r \in replays : ReplayAnswers(r, FALSE)
    \/ \E t \in tries : TryAnswers(t, FALSE)
    \/ dryRun
    \/ \E v \in {0, 1, 2} : TypeValue(v)

-----------------------------------------------------------------------------
(* Properties. *)

(* "live as you edit": once the debounce has run and the answers are in,   *)
(* the replay, the tried value and the dry run on screen are about the     *)
(* draft on screen, in whatever order the answers came. Left out is what   *)
(* was asked for a draft the debounce had not let through (early): when    *)
(* the author goes back to the draft before it, nothing asks again.        *)
AllIn == bodyKey = body /\ tryKey = tryValue /\ replays = {} /\ dries = {} /\ tries = {}
TryIsOfTheDraft == tryResult \in {NoTry, [body |-> body, value |-> tryValue]}
PreviewIsOfTheDraft ==
    AllIn =>
        /\ replay \in {IF reading(onScreen) THEN body ELSE 0, -1}
        /\ ~early => TryIsOfTheDraft /\ dry.result \in {0, -1, body}

(* "body is covered by bodyKey" (RulePreview.tsx): the effect that tries   *)
(* other values misses no change of the body.                              *)
BodyIsCovered == AllIn => TryIsOfTheDraft

(* No request leaves a card saying "Replaying..." or "Checking..." for     *)
(* good.                                                                   *)
PreviewWaits == ~AllIn \/ dry.busy
=============================================================================
