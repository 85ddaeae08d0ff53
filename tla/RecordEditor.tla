----------------------------- MODULE RecordEditor -----------------------------
(***************************************************************************)
(* One open record editor of the web app: the draft kept by                *)
(* useRecordEditor.ts, the chrome of EditorFrame.tsx around it, the        *)
(* unsaved-changes guard, and what each editor's save sends.  The record   *)
(* lives on the server, where another tab writes it too; the page sees it  *)
(* through SWR's cache, whose refetches race the user and the save.        *)
(*                                                                         *)
(* A draft has two fields.  "text" is trimmed on the way to the server:    *)
(* Blank is refused by every validator, Padded is stored as Plain.         *)
(* "part" stands for the fields sent as they are; Blank is invalid too.    *)
(***************************************************************************)
EXTENDS Naturals, Sequences, FiniteSets, TLC

CONSTANTS
    Editors,        \* the editors that may be open
    Mishaps,        \* how many requests and answers are lost, and other tabs' writes
    Saves           \* how many saves the user starts

VARIABLES
    editor,     \* which editor is open
    row,        \* the server's record
    created,    \* the drafts this page has created records from, oldest first
    cache,      \* SWR's copy of the record
    fetch,      \* the revalidation under way: Idle, Asked, or the answer
    original, draft,        \* useRecordEditor's state
    call,       \* the save in progress
    group,      \* the open tab or step
    page,       \* "open", "asked" (the guard's dialog is up) or "left"
    going,      \* a record was created and its own page comes next
    behind,     \* the record has changed without the page knowing
    mishaps, saves                          \* what the bounds have used

editorVars == <<original, draft>>
netVars == <<row, created, cache, fetch>>
bounds == <<going, behind, mishaps, saves>>
vars == <<editor, netVars, editorVars, call, group, page, bounds>>

Blank == "blank"
Plain == "plain"
Padded == "padded"
Other == "other"
Fields == {"text", "part"}
Texts == {Blank, Plain, Padded, Other}
Parts == {Blank, Plain, Other}
Typed(f) == IF f = "text" THEN Texts \ {Plain} ELSE Parts  \* what the user enters
Drafts == [text : Texts, part : Parts]
Empty == [text |-> Blank, part |-> Plain]
NoRow == [text |-> "none", part |-> "none"]

Trimmed(v) == IF v = Padded THEN Plain ELSE v
Stored(d) == [d EXCEPT !.text = Trimmed(@)]

Idle == NoRow
Asked == [text |-> "asked", part |-> "asked"]
NoCall == [at |-> "none"]

-----------------------------------------------------------------------------
(* What each editor's save sends: the patches one after the other, each a  *)
(* set of fields.  d is the draft being saved, before the saved version it *)
(* is compared with, seen the record as the page had it when Save was      *)
(* pressed.                                                                 *)

ZoneEditor(d, before, seen) == <<Fields>>

MemberEditor(d, before, seen) == IF editor = "invite" THEN <<Fields>> ELSE << {"part"} >>

(* A template created disabled (part = Other) is created, then disabled. *)
TemplateEditor(d, before, seen) ==
    IF editor = "newTemplate" /\ d.part = Other THEN <<Fields, {"part"}>> ELSE <<Fields>>

KeyEditor(d, before, seen) == <<Fields>>

DashboardEditor(d, before, seen) == <<{"text"}>>

DeviceEditor(d, before, seen) ==
    << {f \in Fields : IF f = "text" THEN Trimmed(d.text) # seen.text
                       ELSE d.part # before.part} >>

WorkspaceSettings(d, before, seen) ==
    (IF d.part # before.part THEN << {"part"} >> ELSE << >>)
      \o (IF Trimmed(d.text) # Trimmed(before.text) THEN << {"text"} >> ELSE << >>)

Patches(d, before, seen) ==
    CASE editor \in {"zone", "newZone"} -> ZoneEditor(d, before, seen)
      [] editor \in {"template", "newTemplate"} -> TemplateEditor(d, before, seen)
      [] editor \in {"member", "invite"} -> MemberEditor(d, before, seen)
      [] editor = "newKey" -> KeyEditor(d, before, seen)
      [] editor = "newDashboard" -> DashboardEditor(d, before, seen)
      [] editor = "device" -> DeviceEditor(d, before, seen)
      [] editor = "settings" -> WorkspaceSettings(d, before, seen)

Creates == {"newZone", "newTemplate", "invite", "newKey", "newDashboard"}
isNew == editor \in Creates

(* An existing member only has a role to edit, a dashboard only a name. *)
Editable ==
    CASE editor = "member" -> {"part"}
      [] editor = "newDashboard" -> {"text"}
      [] OTHER -> Fields

(* A role of one's own, or keys that rules and widgets use, ask first. *)
Asks == {"member", "template", "newTemplate"}

(* Creating a template is a wizard, editing one has tabs; the others show  *)
(* every section at once.  A group is the fields its sections hold.        *)
Groups == CASE editor = "newTemplate" -> << {"text"}, {"part"}, {} >>
            [] editor = "template" -> << {"text"}, {"part"} >>
            [] OTHER -> << Fields >>
steps == editor = "newTemplate"

-----------------------------------------------------------------------------
(* useRecordEditor *)

Errors == {f \in Fields : draft[f] = Blank}
ErrorsOf(d) == {f \in Fields : d[f] = Blank}

dirty == draft # NoRow /\ original # NoRow /\ draft # original
saving == call.at \in {"send", "answer", "refetch", "settle"}

(* A new saved version becomes the baseline; the draft follows it unless   *)
(* it holds edits.                                                          *)
Adopt(source) ==
    IF source = cache
    THEN UNCHANGED <<original, draft>>
    ELSE /\ original' = source
         /\ draft' = IF draft = NoRow \/ ~dirty THEN source ELSE draft

FirstWith(errs) ==
    LET held == {i \in 1..Len(Groups) : Groups[i] \cap errs # {}}
    IN  IF held = {} THEN group ELSE CHOOSE i \in held : \A j \in held : i <= j

(* No question is up.  The dialog with a new key's secret covers the form   *)
(* too, but for Ctrl+S.                                                     *)
Unasked == page = "open" /\ draft # NoRow /\ call.at # "ask"
Open == Unasked /\ ~(going /\ editor = "newKey")

Edit(f, v) ==
    /\ Open /\ f \in Editable \cap Groups[group]
    /\ v # draft[f]
    /\ draft' = [draft EXCEPT ![f] = v]
    /\ UNCHANGED <<editor, netVars, original, call, group, page, bounds>>

Discard ==
    /\ Open /\ ~isNew /\ dirty /\ ~saving
    /\ draft' = original
    /\ UNCHANGED <<editor, netVars, original, call, group, page, bounds>>

-----------------------------------------------------------------------------
(* Saving: the button, Ctrl+S and the last step's Create all come here. *)

CanSave == Unasked /\ dirty /\ ~saving

(* A draft with errors is refused: all of them show and the first tab or   *)
(* step that has one opens.                                                 *)
Refuse ==
    /\ CanSave
    /\ Errors # {}
    /\ group' = FirstWith(Errors)
    /\ UNCHANGED <<editor, netVars, original, draft, call, page, bounds>>

Begin(at) ==
    call' = [at |-> at, draft |-> draft, left |-> Patches(draft, original, cache),
             made |-> FALSE]

Save ==
    /\ CanSave
    /\ Errors = {}
    /\ saves < Saves
    /\ saves' = saves + 1
    /\ Begin("send")
    /\ UNCHANGED <<editor, netVars, original, draft, group, page, going, behind, mishaps>>

(* The confirmation before the save: the draft it will save is the one     *)
(* that was there when Save was pressed.                                    *)
AskBeforeSave ==
    /\ CanSave
    /\ editor \in Asks
    /\ Errors = {}
    /\ saves < Saves
    /\ saves' = saves + 1
    /\ Begin("ask")
    /\ UNCHANGED <<editor, netVars, editorVars, group, page, going, behind, mishaps>>

ConfirmSave ==
    /\ call.at = "ask"
    /\ call' = [call EXCEPT !.at = "send"]
    /\ UNCHANGED <<editor, netVars, original, draft, group, page, bounds>>

DeclineSave ==
    /\ call.at = "ask"
    /\ call' = NoCall
    /\ UNCHANGED <<editor, netVars, editorVars, group, page, bounds>>

\* Mutant: the draft as it is now becomes the baseline.
Settle_Now(saved) == original' = draft /\ UNCHANGED draft /\ call' = NoCall

(* The save ends: what was saved is the new baseline. *)
Settle(saved) ==
    /\ original' = saved
    /\ UNCHANGED draft
    /\ call' = NoCall

(* The next patch, or the end. *)
NextPatch ==
    IF Len(call.left) > 1
    THEN /\ call' = [call EXCEPT !.at = "send", !.left = Tail(@)]
         /\ UNCHANGED editorVars
    ELSE Settle(call.draft)

(* A settings save with nothing to send ends at once. *)
SaveNothing ==
    /\ call.at = "send" /\ call.left = << >>
    /\ NextPatch
    /\ UNCHANGED <<editor, netVars, group, page, bounds>>

ServerApplies ==
    /\ call.at = "send" /\ call.left # << >>
    /\ IF isNew /\ ~call.made
       THEN row' = Stored(call.draft) /\ created' = Append(created, call.draft)
       ELSE /\ row' = [f \in Fields |-> IF f \in Head(call.left)
                                        THEN Stored(call.draft)[f] ELSE row[f]]
            /\ UNCHANGED created
    /\ call' = [call EXCEPT !.at = "answer", !.made = isNew]
    /\ UNCHANGED <<editor, cache, fetch, editorVars, group, page, bounds>>

(* The save throws: the draft keeps its edits and the errors stay shown. *)
SaveFails ==
    /\ call' = NoCall
    /\ group' = FirstWith(Errors)
    /\ UNCHANGED <<editor, netVars, editorVars, page>>

(* The server refuses it, or the request never gets there. *)
RequestFails ==
    /\ call.at = "send" /\ call.left # << >>
    /\ mishaps < Mishaps
    /\ mishaps' = mishaps + 1
    /\ behind' = (behind \/ call.made)
    /\ SaveFails
    /\ UNCHANGED <<going, saves>>

(* The server did it and the answer never comes back. *)
AnswerLost ==
    /\ call.at = "answer"
    /\ mishaps < Mishaps
    /\ mishaps' = mishaps + 1
    /\ behind' = TRUE
    /\ SaveFails
    /\ UNCHANGED <<going, saves>>

(* A saved record is read again.  A created one has a page of its own: the *)
(* router is asked for it, and until it is there the form stays open, its   *)
(* save over.  A key is shown first, in a dialog over the form.             *)
Answered ==
    /\ call.at = "answer"
    /\ IF isNew
       THEN /\ NextPatch
            /\ going' = (going \/ Len(call.left) = 1)
            /\ UNCHANGED fetch
       ELSE /\ call' = [call EXCEPT !.at = "refetch"]
            /\ fetch' = Asked
            /\ UNCHANGED <<editorVars, going>>
    /\ UNCHANGED <<editor, row, created, cache, group, page, behind, mishaps, saves>>

(* The router shows the new record's page, a key's once its secret was     *)
(* acknowledged.  The guard does not hear of it.                            *)
Navigated ==
    /\ going
    /\ page' = "left"
    /\ UNCHANGED <<editor, netVars, editorVars, call, group, bounds>>

-----------------------------------------------------------------------------
(* SWR: the page mounts with or without a cached record, and revalidates   *)
(* on focus; a mutate() of the save restarts the request.                   *)

Revalidate ==
    /\ page # "left" /\ ~isNew /\ fetch = Idle
    /\ row # cache
    /\ fetch' = Asked
    /\ UNCHANGED <<editor, row, created, cache, editorVars, call, group, page, bounds>>

ServerReads ==
    /\ fetch = Asked
    /\ fetch' = row
    /\ UNCHANGED <<editor, row, created, cache, editorVars, call, group, page, bounds>>

(* The render that shows the answer runs the adopting effect before the    *)
(* save's await resumes.                                                    *)
Fetched ==
    /\ fetch \notin {Idle, Asked}
    /\ cache' = fetch
    /\ fetch' = Idle
    /\ Adopt(fetch)
    /\ call' = IF call.at = "refetch" THEN [call EXCEPT !.at = "settle"] ELSE call
    /\ UNCHANGED <<editor, row, created, group, page, bounds>>

FetchFails ==
    /\ fetch = Asked /\ mishaps < Mishaps
    /\ mishaps' = mishaps + 1
    /\ fetch' = Idle
    /\ behind' = TRUE
    /\ call' = IF call.at = "refetch" THEN [call EXCEPT !.at = "settle"] ELSE call
    /\ UNCHANGED <<editor, row, created, cache, editorVars, group, page, going, saves>>

SaveResumes ==
    /\ call.at = "settle"
    /\ NextPatch
    /\ UNCHANGED <<editor, netVars, group, page, bounds>>

OtherTabSaves(f, v) ==
    /\ ~isNew /\ mishaps < Mishaps
    /\ v # row[f]
    /\ row' = [row EXCEPT ![f] = v]
    /\ mishaps' = mishaps + 1
    /\ behind' = TRUE
    /\ UNCHANGED <<editor, created, cache, fetch, editorVars, call, group, page, going, saves>>

-----------------------------------------------------------------------------
(* The wizard and the tabs *)

NextStep ==
    /\ Open /\ steps /\ group < Len(Groups)
    /\ Errors \cap Groups[group] = {}
    /\ group' = group + 1
    /\ UNCHANGED <<editor, netVars, editorVars, call, page, bounds>>

StepBack ==
    /\ Open /\ steps /\ group > 1
    /\ group' = group - 1
    /\ UNCHANGED <<editor, netVars, editorVars, call, page, bounds>>

OpenTab(g) ==
    /\ Open /\ ~steps /\ g \in 1..Len(Groups) /\ g # group
    /\ group' = g
    /\ UNCHANGED <<editor, netVars, editorVars, call, page, bounds>>

(* Leaving.  A link asks first when there are edits. *)
FollowLink ==
    /\ Open
    /\ page' = IF dirty THEN "asked" ELSE "left"
    /\ UNCHANGED <<editor, netVars, editorVars, call, group, bounds>>

Leave(ok) ==
    /\ page = "asked"
    /\ page' = IF ok THEN "left" ELSE "open"
    /\ UNCHANGED <<editor, netVars, editorVars, call, group, bounds>>

(* The bar's Cancel goes back in the history. *)
Cancel ==
    /\ Open /\ isNew /\ (steps => group = 1) /\ (~steps => ~saving)
    /\ page' = "left"
    /\ UNCHANGED <<editor, netVars, editorVars, call, group, bounds>>

-----------------------------------------------------------------------------
Init ==
    /\ editor \in Editors
    /\ row = IF isNew THEN NoRow ELSE [text |-> Other, part |-> Plain]
    /\ created = << >>
    /\ cache = IF isNew THEN Empty ELSE row
    /\ fetch = Idle
    /\ original = cache
    /\ draft = cache
    /\ call = NoCall
    /\ group = 1
    /\ page = "open"
    /\ going = FALSE
    /\ behind = FALSE
    /\ \/ mishaps = 0 /\ saves = 1            \* one save fewer, and mishaps,
       \/ mishaps = Mishaps /\ saves = 0      \* or saves only

User ==
    \/ \E f \in Fields : \E v \in Typed(f) : Edit(f, v)
    \/ Discard \/ Refuse \/ Save \/ AskBeforeSave \/ ConfirmSave \/ DeclineSave
    \/ NextStep \/ StepBack \/ \E g \in 1..3 : OpenTab(g)
    \/ FollowLink \/ Cancel \/ \E ok \in BOOLEAN : Leave(ok)

Network ==
    \/ SaveNothing \/ ServerApplies \/ RequestFails \/ AnswerLost \/ Answered \/ Navigated
    \/ Revalidate \/ ServerReads \/ Fetched \/ FetchFails \/ SaveResumes
    \/ \E f \in Fields : OtherTabSaves(f, IF f = "text" THEN Plain ELSE Other)

(* A page that was left keeps no state to look at. *)
Next == page # "left" /\ (User \/ Network)

(* A request is answered or fails, and the page resumes when it is. *)
Settling == SaveNothing \/ ServerApplies \/ Answered \/ SaveResumes
Rereading == ServerReads \/ Fetched
Fairness == WF_vars(Settling) /\ WF_vars(Rereading)

Spec == Init /\ [][Next]_vars /\ Fairness

-----------------------------------------------------------------------------
(* Properties *)

(* The shape of the state. *)
TypeOK ==
    /\ editor \in Editors
    /\ {row, cache, original, draft} \subseteq Drafts \union {NoRow}
    /\ fetch \in Drafts \union {Idle, Asked}
    /\ call = NoCall \/ /\ call.at \in {"ask", "send", "answer", "refetch", "settle"}
                        /\ call.draft \in Drafts
                        /\ call.left \in Seq(SUBSET Fields) /\ call.made \in BOOLEAN
    /\ group \in 1..Len(Groups)
    /\ created \in Seq(Drafts) /\ going \in BOOLEAN
    /\ page \in {"open", "asked", "left"}

(* "All changes saved" is true: with no save under way and no edits        *)
(* against the baseline, the server holds what the page shows, trimmed.    *)
(* Edits made while a save was under way are not taken for saved, nor the  *)
(* second half of a settings save that failed.  (Unless another tab, a lost *)
(* answer or a failed reread has left the page's copy behind the record.)  *)
AllChangesSaved ==
    (page = "open" /\ ~isNew /\ ~dirty /\ ~saving /\ ~behind) => Stored(draft) = row

(* Only the user changes a draft that holds unsaved edits: neither a       *)
(* refetch, another tab's save nor the end of a save overwrites it.        *)
EditsAreKept ==
    [][dirty /\ draft' # draft
         => Discard \/ \E f \in Fields : \E v \in Typed(f) : Edit(f, v)]_vars

(* Create makes no record twice: pressed again, or Ctrl+S with it, while    *)
(* its save or the way to the new record's page is under way, it sends       *)
(* nothing the press before it has already created.  (Unless the first try   *)
(* failed half way: its answer was lost, or the request that disables a new  *)
(* template was refused.)                                                    *)
CreatesOnce ==
    behind \/ \A i \in 1..Len(created) - 1 : created[i] # created[i + 1]

(* The claim without its exception: one create form makes one record.  A    *)
(* draft edited during the save is unsaved when the save ends, with the form *)
(* still open until the router has the next page: Create takes it again, and *)
(* makes a second record.  No run checks it.                                 *)
OneRecordPerForm == behind \/ Len(created) < 2

(* What a save writes passed the validator that ran when it started, also  *)
(* after edits made during the save.                                        *)
NothingInvalidStored == row # NoRow => ErrorsOf(row) = {}

(* What must end: "Saving…". *)
EditorWaits == saving /\ page # "left"

(* DESIGN.md: "An unsaved-changes guard on close, navigate and reload."    *)
(* An editor with unsaved edits is left only after the guard has asked.    *)
(* Cancel goes back without asking, and so does a create whose draft was    *)
(* edited during its save.  No run checks it.                               *)
LeavesOnlyAfterAsking == [][page' = "left" /\ dirty /\ ~saving => page = "asked"]_vars
=============================================================================
