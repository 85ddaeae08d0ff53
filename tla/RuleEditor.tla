------------------------------ MODULE RuleEditor ----------------------------
(***************************************************************************)
(* The rule editor's screen (RuleEditor.tsx) on its two pages: the steps   *)
(* of a new rule (rules/new) and the tabs of a saved one (rules/[ruleId]), *)
(* with its saves in flight, the confirmation of a rule that is enabled,   *)
(* a version restored from the list (RuleVersions.tsx) and SWR's copy of   *)
(* the rule, which arrives on its own.                                     *)
(*                                                                         *)
(* A draft is its trigger type, its time zone, the section of its first    *)
(* blocking problem ("" when there is none) and a value for all the rest;  *)
(* what is in a draft is the business of RuleDraft.                        *)
(***************************************************************************)
EXTENDS Integers, Sequences, FiniteSets, SequencesExt

CONSTANT EditorQuestions    \* what a behaviour may do: [start, enabled, budget per kind of step]

VARIABLES
    page,        \* "new", or "rule" once it has a page of its own
    ruleEnabled, \* existing.enabled
    stored,      \* the rule in the API, NoDraft before it is created
    made,        \* rules created
    existing,    \* SWR's copy of the rule
    restored,    \* the version loaded by Restore, or NoDraft
    baseline, draft,
    tab, url,    \* the open tab and the one in ?tab=, "" when there is none
    saving,      \* saves in flight: what each sent and how far it got
    submitting,  \* the editor's flag, which the first of them to end clears
    going,       \* a create has asked the router for the rule's own page
    dialog,      \* the draft the open "Save and apply now?" is about, or NoDraft
    zoneKnown,   \* the workspace, and its time zone, has loaded
    crossed,     \* saves overlapped, or someone else saved
    remounted,   \* a save of a restored version remounted the editor
    createdFrom, \* the tabs a rule was created from
    editorBudget

editorVars == <<page, ruleEnabled, stored, made, existing, restored, baseline, draft, tab, url, saving,
                submitting, going, dialog, zoneKnown, crossed, remounted, createdFrom, editorBudget>>

flags == <<submitting, going>>

Draft(type, zone, bad, v) == [type |-> type, zone |-> zone, bad |-> bad, v |-> v]
NoDraft == Draft("none", 0, "", 0)
UTC == 0
Workspace == 1       \* the workspace's time zone
Chosen == 2          \* one the author picked

isReadingRule(d) == d.type = "metric"
Wizard == page = "new"
Dirty == draft # baseline

tabs(d) ==
    (IF Wizard THEN <<>> ELSE <<"basics">>) \o <<"when", "if", "then">>
      \o (IF isReadingRule(d) THEN <<"behaviour">> ELSE <<>>)
      \o (IF Wizard THEN <<"review">> ELSE <<"activity">>)
DefaultTab == IF Wizard THEN "when" ELSE "basics"
stepIndex == CHOOSE i \in DOMAIN tabs(draft) : tabs(draft)[i] = tab

tabOf(section, d) ==
    CASE section = "name" -> IF Wizard THEN "review" ELSE "basics"
      [] section = "behaviour" /\ ~isReadingRule(d) -> "then"
      [] OTHER -> section

(* The trigger changed while Behaviour was open: its timer is in Then now. *)
TabFor(t, d) == IF t = "behaviour" /\ ~isReadingRule(d) THEN "then" ELSE t

(* setTab: a saved rule's tab is in the URL, a step is not.                *)
SetTab(t) ==
    /\ tab' = t
    /\ url' = IF Wizard THEN url ELSE IF t = DefaultTab THEN "" ELSE t

(* A saved rule's editor mounts on the tab of the URL.                     *)
MountTab(t, d) ==
    LET offered == {"basics", "when", "if", "then", "activity"}
                     \cup (IF isReadingRule(d) THEN {"behaviour"} ELSE {})
    IN  CASE t = "behaviour" /\ t \notin offered -> "then"
          [] t \in offered -> t
          [] OTHER -> "basics"

Spend(k) ==
    /\ editorBudget[k] > 0
    /\ editorBudget' = [editorBudget EXCEPT ![k] = @ - 1]

EditorInit ==
    \E q \in EditorQuestions :
        /\ page = IF q.start.type = "none" THEN "new" ELSE "rule"
        /\ ruleEnabled = q.enabled
        /\ stored = q.start
        /\ made = 0
        /\ existing = q.start
        /\ restored = NoDraft
        /\ baseline = IF q.start = NoDraft THEN q.recipe ELSE q.start
        /\ draft = baseline
        /\ tab = IF q.start = NoDraft THEN "when" ELSE "basics"
        /\ url = ""
        /\ saving = <<>>
        /\ submitting = FALSE
        /\ going = FALSE
        /\ dialog = NoDraft
        /\ zoneKnown = (q.start # NoDraft)
        /\ crossed = FALSE
        /\ remounted = FALSE
        /\ createdFrom = {}
        /\ editorBudget = q.budget

-----------------------------------------------------------------------------
(* Editing and moving about. The dialog is modal. *)

setDraft(d) ==
    /\ draft' = d
    /\ tab' = TabFor(tab, d)
    /\ url' = IF TabFor(tab, d) = tab THEN url ELSE "then"

Edit(d) ==
    /\ dialog = NoDraft /\ d # draft
    /\ Spend("edit")
    /\ setDraft(d)
    /\ UNCHANGED <<page, ruleEnabled, stored, made, existing, restored, baseline, saving, flags, dialog, zoneKnown,
                   crossed, remounted, createdFrom>>

Edits ==
    {[draft EXCEPT !.v = x] : x \in 1 .. 2}
      \cup {[draft EXCEPT !.type = t] : t \in {"metric", "schedule"}}
      \cup {[draft EXCEPT !.bad = b] : b \in {"", "then", "name"}}
      \cup (IF draft.type = "schedule" THEN {[draft EXCEPT !.zone = Chosen]} ELSE {})

(* Discard, in the save bar.                                               *)
Discard ==
    /\ ~Wizard /\ Dirty /\ ~submitting /\ dialog = NoDraft /\ tab # "activity"
    /\ setDraft(baseline)
    /\ UNCHANGED <<page, ruleEnabled, stored, made, existing, restored, baseline, saving, flags, dialog, zoneKnown,
                   crossed, remounted, createdFrom, editorBudget>>

Go(t) ==
    /\ dialog = NoDraft /\ t # tab
    /\ Spend("go")
    /\ SetTab(t)
    /\ UNCHANGED <<page, ruleEnabled, stored, made, existing, restored, baseline, draft, saving, flags, dialog,
                   zoneKnown, crossed, remounted, createdFrom>>

PickTab == ~Wizard /\ \E t \in Range(tabs(draft)) : Go(t)

(* Next is refused while this step has a problem that blocks saving; Back  *)
(* is not.                                                                 *)
next ==
    /\ Wizard /\ stepIndex < Len(tabs(draft))
    /\ draft.bad = "" \/ tabOf(draft.bad, draft) # tab
    /\ Go(tabs(draft)[stepIndex + 1])
Back == Wizard /\ stepIndex > 1 /\ Go(tabs(draft)[stepIndex - 1])

(* The workspace loads: a new rule that is not on a schedule takes its     *)
(* time zone, in the draft and in what it started from.                    *)
WithZone(d) == IF d.type = "schedule" THEN d ELSE [d EXCEPT !.zone = Workspace]

WorkspaceArrives ==
    /\ ~zoneKnown /\ Wizard
    /\ zoneKnown' = TRUE
    /\ draft' = WithZone(draft)
    /\ baseline' = WithZone(baseline)
    /\ UNCHANGED <<page, ruleEnabled, stored, made, existing, restored, tab, url, saving, flags, dialog, crossed,
                   remounted, createdFrom, editorBudget>>

-----------------------------------------------------------------------------
(* Saving. *)

(* The request leaves; another one may still be on its way, or the page of *)
(* the rule that the one before created.                                   *)
Send(d) ==
    /\ submitting' = TRUE /\ UNCHANGED going
    /\ saving' = Append(saving, [body |-> d, at |-> "sent", wasNew |-> Wizard])
    /\ crossed' = (crossed \/ saving # <<>> \/ going)
    /\ createdFrom' = IF Wizard THEN createdFrom \cup {tab} ELSE createdFrom

(* save(): a blocking problem is shown on its tab, an enabled rule asks    *)
(* first, anything else is sent as it is.                                  *)
save ==
    \/ /\ draft.bad # ""
       /\ SetTab(tabOf(draft.bad, draft))
       /\ UNCHANGED <<saving, flags, dialog, crossed, createdFrom>>
    \/ /\ draft.bad = "" /\ ~Wizard /\ ruleEnabled
       /\ dialog' = draft
       /\ UNCHANGED <<tab, url, saving, flags, crossed, createdFrom>>
    \/ /\ draft.bad = "" /\ (Wizard \/ ~ruleEnabled)
       /\ Send(draft)
       /\ UNCHANGED <<tab, url, dialog>>

(* The button: Create rule on Review, Save rule while there are changes.   *)
PressSave ==
    /\ dialog = NoDraft /\ ~submitting
    /\ IF Wizard THEN tab = "review" ELSE Dirty /\ tab # "activity"
    /\ Spend("save")
    /\ save
    /\ UNCHANGED <<page, ruleEnabled, stored, made, existing, restored, baseline, draft, zoneKnown, remounted>>

(* Ctrl+S asks only that no dialog is open.                                *)
PressCtrlS ==
    /\ dialog = NoDraft
    /\ Spend("key")
    /\ save
    /\ UNCHANGED <<page, ruleEnabled, stored, made, existing, restored, baseline, draft, zoneKnown, remounted>>

AnswerDialog(ok) ==
    /\ dialog # NoDraft
    /\ dialog' = NoDraft
    /\ IF ok THEN Send(dialog) ELSE UNCHANGED <<saving, flags, crossed, createdFrom>>
    /\ UNCHANGED <<page, ruleEnabled, stored, made, existing, restored, baseline, draft, tab, url, zoneKnown,
                   remounted, editorBudget>>

(* The API takes a request; two in flight may reach it in any order.       *)
Reaches(i) ==
    /\ saving[i].at = "sent"
    /\ saving' = [saving EXCEPT ![i].at = "taken"]
    /\ stored' = saving[i].body
    /\ made' = IF saving[i].wasNew THEN made + 1 ELSE made
    /\ UNCHANGED <<page, ruleEnabled, existing, restored, baseline, draft, tab, url, flags, dialog, zoneKnown,
                   crossed, remounted, createdFrom, editorBudget>>

(* It is refused or lost on the way: the error is shown, nothing changes.  *)
SaveFails(i) ==
    /\ saving[i].at = "sent"
    /\ Spend("fail")
    /\ saving' = RemoveAt(saving, i)
    /\ submitting' = FALSE
    /\ UNCHANGED <<page, ruleEnabled, stored, made, existing, restored, baseline, draft, tab, url, going, dialog,
                   zoneKnown, crossed, remounted, createdFrom>>

(* The answer: what was sent is the new baseline. For a new rule the       *)
(* router is asked for its own page; until it is there the last step stays *)
(* open. On a rule's page onSaved clears the restored version, and with it *)
(* the editor's key: it mounts again on SWR's copy, whose refetch has only *)
(* just begun.                                                             *)
Mount(base, d) ==
    /\ baseline' = base
    /\ draft' = d
    /\ tab' = MountTab(url, d)

SavedOnNew(i) ==
    /\ going' = TRUE
    /\ baseline' = IF Wizard THEN saving[i].body ELSE baseline
    /\ UNCHANGED <<existing, restored, draft, tab, remounted>>

SavedOnRule(i) ==
    /\ restored' = NoDraft
    /\ IF restored = NoDraft
       THEN baseline' = saving[i].body /\ UNCHANGED <<draft, tab, remounted>>
       ELSE Mount(existing, existing) /\ remounted' = TRUE
    /\ UNCHANGED <<existing, going>>

Answered(i) ==
    /\ saving[i].at = "taken"
    /\ saving' = RemoveAt(saving, i)
    /\ submitting' = FALSE
    /\ IF saving[i].wasNew THEN SavedOnNew(i) ELSE SavedOnRule(i)
    /\ UNCHANGED <<page, ruleEnabled, stored, made, url, dialog, zoneKnown, crossed, createdFrom, editorBudget>>

(* The rule's own page, fetched afresh. It is enabled, unless its Status   *)
(* was switched off before it was created.                                 *)
Opens ==
    /\ going
    /\ going' = FALSE /\ submitting' = FALSE
    /\ page' = "rule"
    /\ ruleEnabled' \in BOOLEAN
    /\ existing' = stored
    /\ baseline' = stored
    /\ draft' = stored
    /\ tab' = "basics" /\ url' = ""
    /\ dialog' = NoDraft
    /\ UNCHANGED <<stored, made, restored, saving, zoneKnown, crossed, remounted, createdFrom, editorBudget>>

-----------------------------------------------------------------------------
(* SWR's copy, versions, other people. *)

(* The 30 s refresh, or the refetch after a save. The editor keeps its     *)
(* baseline and its draft.                                                 *)
Refetch ==
    /\ ~Wizard /\ existing # stored
    /\ existing' = stored
    /\ UNCHANGED <<page, ruleEnabled, stored, made, restored, baseline, draft, tab, url, saving, flags, dialog,
                   zoneKnown, crossed, remounted, createdFrom, editorBudget>>

(* Restore, on Activity: the editor mounts again with the version as       *)
(* unsaved changes, on its first tab.                                      *)
Restore(version) ==
    /\ ~Wizard /\ tab = "activity" /\ dialog = NoDraft /\ restored # version
    /\ Spend("restore")
    /\ restored' = version
    /\ baseline' = existing
    /\ draft' = version
    /\ url' = ""
    /\ tab' = "basics"
    /\ crossed' = (crossed \/ existing # stored)
    /\ submitting' = FALSE
    /\ UNCHANGED <<page, ruleEnabled, stored, made, existing, saving, going, dialog, zoneKnown, remounted,
                   createdFrom>>

(* Discard, in the callout of a restored version.                          *)
DiscardRestored ==
    /\ restored # NoDraft /\ dialog = NoDraft
    /\ restored' = NoDraft
    /\ Mount(existing, existing)
    /\ crossed' = (crossed \/ existing # stored \/ saving # <<>>)
    /\ submitting' = FALSE
    /\ UNCHANGED <<page, ruleEnabled, stored, made, existing, url, saving, going, dialog, zoneKnown, remounted,
                   createdFrom, editorBudget>>

SomeoneElseSaves ==
    /\ ~Wizard
    /\ Spend("else")
    /\ stored' = [stored EXCEPT !.v = 3]
    /\ crossed' = TRUE
    /\ UNCHANGED <<page, ruleEnabled, made, existing, restored, baseline, draft, tab, url, saving, flags, dialog,
                   zoneKnown, remounted, createdFrom>>

-----------------------------------------------------------------------------
SaveSettles == \E i \in DOMAIN saving : Reaches(i) \/ Answered(i)

EditorNext ==
    \/ \E d \in Edits : Edit(d)
    \/ Discard \/ PickTab \/ next \/ Back
    \/ WorkspaceArrives
    \/ PressSave \/ PressCtrlS
    \/ \E ok \in BOOLEAN : AnswerDialog(ok)
    \/ SaveSettles \/ Opens
    \/ \E i \in DOMAIN saving : SaveFails(i)
    \/ Refetch
    \/ \E x \in {1, 2} : Restore(Draft("schedule", UTC, "", x))
    \/ DiscardRestored
    \/ SomeoneElseSaves

-----------------------------------------------------------------------------
(* Properties. *)

(* "What's saved is the new baseline": a rule with nothing left to save on *)
(* screen is the rule in the API, also when it was edited while its save   *)
(* was on the way or the save failed. Left out: two saves at once and      *)
(* other people's saves (the last to arrive wins), and a saved restore.    *)
Settled == ~Wizard /\ saving = <<>> /\ ~Dirty /\ ~crossed
CleanMeansStored == Settled /\ ~remounted => draft = stored

(* "The baseline is what's saved" (RuleEditor.tsx), a saved restore        *)
(* included.                                                               *)
BaselineIsSaved == Settled /\ existing = stored => draft = stored

(* The open tab is one of the tabs, whatever the trigger becomes, after a  *)
(* discard, a restore or a remount on the tab of the URL; and a step of a  *)
(* new rule never lies beyond the last one.                                *)
TabIsOffered == tab \in Range(tabs(draft))

(* "Once the author picks schedule, their own choice stands": the          *)
(* workspace's time zone, arriving late, changes no schedule, and a draft  *)
(* nobody has touched does not become one with changes.                    *)
ZoneStep ==
    zoneKnown' # zoneKnown =>
        /\ ~Dirty => ~Dirty'
        /\ draft.type = "schedule" => draft' = draft

(* "A new rule's schedule defaults to the workspace time zone, which may   *)
(* arrive after the draft is created": no new rule keeps UTC once it has.  *)
SchedulesGetTheZone == Wizard /\ zoneKnown => draft.zone # UTC

(* "only Review creates" (RuleEditor.tsx).                                 *)
OnlyReviewCreates == createdFrom \subseteq {"review"}

(* "A new rule opens on its own page": one new-rule form makes one rule.    *)
(* Ctrl+S does not look at a save under way, and until the router has the   *)
(* page neither does Create rule. No run checks it.                        *)
OneRulePerForm == made < 2

(* A save does not spin for ever.                                          *)
EditorSaves == submitting
=============================================================================
