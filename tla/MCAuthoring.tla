----------------------------- MODULE MCAuthoring -----------------------------
(***************************************************************************)
(* Writing a rule and wiring a device template, for TLC: one of the editors' *)
(* parts is open in a behaviour (app) and the others stay as first drawn.    *)
(* Each question bounds what happens in its part.                            *)
(***************************************************************************)
EXTENDS RuleTree, TLC

VARIABLES
    app,                                                      \* the open part
    rule, draft, openedDraft, focus, changes, answer,         \* RuleDraft
    cron, custom, keep, now, picks,                           \* SchedulePicker
    page, ruleEnabled, stored, made, existing, restored,      \* RuleEditor
    baseline, edited, tab, url, saving, submitting, going, dialog, zoneKnown, crossed, remounted,
    createdFrom, editorBudget,
    onScreen, bodyKey, replay, replays, dry, dries, early,    \* RulePreview
    tryValue, tryKey, tryResult, tries, previewBudget,
    saved, tmpl, original, moved, detecting, question,        \* Wiring
    asked, opened, did, left

Only(kinds, b) == [k \in kinds |-> IF k \in DOMAIN b THEN b[k] ELSE 0]

-----------------------------------------------------------------------------
MaxDraftEdits == 3
DraftOf == INSTANCE RuleDraft WITH opened <- openedDraft

MaxPicks == 2
Picker == INSTANCE SchedulePicker

\* An empty rule of each kind, and none; "bad" names an incomplete section.
Typed(type, bad) == [type |-> type, zone |-> 0, bad |-> bad, v |-> 1]
Fresh == [type |-> "none", zone |-> 0, bad |-> "", v |-> 0]
AskEditor(start, recipe, enabled, b) ==
  [start |-> start, recipe |-> recipe, enabled |-> enabled,
   budget |-> Only({"edit", "go", "save", "key", "fail", "restore", "else"}, b)]
EditorQuestions ==
  LET metric == Typed("metric", "")
  IN  { AskEditor(Fresh, Typed("metric", "then"), FALSE, [edit |-> 2, go |-> 3, save |-> 1, fail |-> 1]),
        AskEditor(Fresh, Typed("schedule", ""), FALSE, [edit |-> 1, go |-> 1, key |-> 2]),
        AskEditor(Fresh, Typed("schedule", ""), FALSE, [go |-> 3, save |-> 2]),
        AskEditor(metric, metric, TRUE, [edit |-> 2, go |-> 1, save |-> 1, key |-> 1, fail |-> 1]),
        AskEditor(metric, metric, FALSE, [edit |-> 1, go |-> 1, save |-> 1, restore |-> 2]),
        AskEditor(metric, metric, FALSE, [edit |-> 1, save |-> 1, restore |-> 1, else |-> 1]) }
Editor == INSTANCE RuleEditor WITH draft <- edited

Drafts == 1 .. 4
Body == [d \in Drafts |-> IF d = 4 THEN 0 ELSE d]
Readings == {1, 2, 4}
AskPreview(b) == Only({"edit", "dry", "try", "fail"}, b)
PreviewQuestions ==
  {AskPreview([edit |-> 2, fail |-> 1]), AskPreview([edit |-> 2, dry |-> 1]),
   AskPreview([edit |-> 1, dry |-> 2, fail |-> 1]), AskPreview([edit |-> 1, try |-> 2, fail |-> 1]),
   AskPreview([edit |-> 2, try |-> 1])}
Preview == INSTANCE RulePreview

-----------------------------------------------------------------------------
Models == << [id |-> "devkit", chip |-> "esp32", pins |-> <<4, 13, 21, 22, 23, 34>>, i2c |-> <<21, 22>>],
             [id |-> "supermini", chip |-> "c3", pins |-> <<4, 5, 6, 10>>, i2c |-> <<5, 6>>] >>
Chips == [
  esp32 |-> [usable |-> {4, 13, 21, 22, 23, 34}, adc1 |-> {34}, inputOnly |-> {34},
             inputs |-> <<4, 13>>, outputs |-> <<23, 21, 22>>],
  c3    |-> [usable |-> {4, 5, 6, 10}, adc1 |-> {4}, inputOnly |-> {},
             inputs |-> <<4, 5, 6>>, outputs |-> <<10>>]]

Ch(key, type, unit, common) == [key |-> key, type |-> type, unit |-> unit, common |-> common]
Sensor(part, chips, pins, channels) ==
  [kind |-> "inputs", bus |-> pins = <<>>, chips |-> chips, pins |-> pins, part |-> part,
   channels |-> channels]
Switch(part, type) ==
  [kind |-> "outputs", bus |-> FALSE, chips |-> DOMAIN Chips, pins |-> <<"output">>, part |-> part,
   channels |-> <<Ch("value", type, "", TRUE)>>]
Drivers == [
  dht22   |-> Sensor("dht22", DOMAIN Chips, <<"bus">>,
                     <<Ch("temperature", "float", "C", TRUE), Ch("humidity", "float", "%", TRUE)>>),
  ds18b20 |-> Sensor("ds18b20", {"esp32"}, <<"bus">>,
                     <<Ch("temp_1", "float", "C", TRUE), Ch("temp_2", "float", "C", TRUE)>>),
  hcsr04  |-> Sensor("hcsr04", DOMAIN Chips, <<"output", "input">>, <<Ch("distance", "float", "cm", TRUE)>>),
  mpu6050 |-> Sensor("mpu6050", DOMAIN Chips, <<>>,
                     <<Ch("tilt", "float", "deg", TRUE), Ch("temperature", "float", "C", FALSE),
                       Ch("accel", "float", "g", FALSE)>>),
  relay   |-> Switch("relay", "bool"),
  servo   |-> Switch("servo", "float")]

UsedKeys == {<<"metrics", <<"temperature", 1>>>>, <<"actuators", <<"relay", 1>>>>}
TypedKeys == {<<"mine", 1>>, <<"temperature", 1>>}

StoredRow(key, type, unit) == [name |-> key, key |-> <<key, 1>>, type |-> type, unit |-> unit]
Wire(driver, pin, channels) == [driver |-> driver, pins |-> <<pin>>, address |-> 1, channels |-> channels]
Blank == [runsOn |-> "none"]
Node(model) ==
  [runsOn |-> "generic_firmware",
   metrics |-> <<StoredRow("temperature", "float", "C"), StoredRow("humidity", "float", "%")>>,
   actuators |-> <<StoredRow("relay", "bool", "")>>,
   hardware |-> [board |-> model, i2c |-> <<>>,
     inputs |-> <<Wire("dht22", 21, [temperature |-> <<"temperature", 1>>, humidity |-> <<"humidity", 1>>])>>,
     outputs |-> <<Wire("relay", 23, [value |-> <<"relay", 1>>])>>]]
AskWiring(template, b) ==
  [stored |-> template, budget |-> Only({"part", "pin", "link", "row", "board", "save", "run"}, b)]
WiringQuestions ==
  { AskWiring(Blank, [part |-> 2, board |-> 1]), AskWiring(Blank, [part |-> 2, row |-> 1]),
    AskWiring(Blank, [part |-> 1, row |-> 1, link |-> 1, save |-> 1]),
    AskWiring(Blank, [part |-> 2, pin |-> 1]), AskWiring(Blank, [part |-> 2, link |-> 1]),
    AskWiring(Node("devkit"), [part |-> 2, save |-> 1]),
    AskWiring(Node("devkit"), [part |-> 1, row |-> 1, save |-> 1]),
    AskWiring(Node("devkit"), [link |-> 1, row |-> 1, save |-> 2]),
    AskWiring(Node("devkit"), [row |-> 1, run |-> 2, save |-> 1]),
    AskWiring(Node("esp32"), [part |-> 1, board |-> 2]),
    AskWiring(Node("retired"), [part |-> 1, board |-> 1]) }
Template == INSTANCE Wiring

-----------------------------------------------------------------------------
onDraft   == <<rule, draft, openedDraft, focus, changes, answer>>
onPicker  == <<cron, custom, keep, now, picks>>
onEditor  == <<page, ruleEnabled, stored, made, existing, restored, baseline, edited, tab, url, saving,
               submitting, going, dialog, zoneKnown, crossed, remounted, createdFrom, editorBudget>>
onPreview == <<onScreen, bodyKey, replay, replays, dry, dries, early, tryValue, tryKey, tryResult,
               tries, previewBudget>>
onWiring  == <<saved, tmpl, original, moved, detecting, question, asked, opened, did, left>>
authoringVars == <<treeVars, onDraft, onPicker, onEditor, onPreview, onWiring, app>>

\* A part that is not open: one of its initial states.
FirstOf(S) == CHOOSE q \in S : TRUE

\* TLC keeps one initial state of each part that is not open.
Closed(part, first) == app # part => first
MCInit ==
  /\ app \in {"tree", "draft", "picker", "editor", "preview", "wiring"}
  /\ TreeInit /\ Closed("tree", condition = Null)
  /\ DraftOf!DraftInit
  /\ Closed("draft", focus = "when" /\ rule = DraftOf!NoRule /\ draft = DraftOf!emptyDraft(0))
  /\ Picker!PickerInit /\ Closed("picker", cron = FirstOf(Picker!OpenedCrons) /\ now.day = 29)
  /\ Editor!EditorInit /\ Closed("editor", editorBudget = FirstOf(EditorQuestions).budget)
  /\ Preview!PreviewInit
  /\ Closed("preview", onScreen = 4 /\ previewBudget = FirstOf(PreviewQuestions))
  /\ Template!WiringInit
  /\ Closed("wiring", saved = Blank /\ left = FirstOf({q \in WiringQuestions : q.stored = Blank}).budget)

OnTree(A)    == app = "tree"    /\ A /\ UNCHANGED <<onDraft, onPicker, onEditor, onPreview, onWiring, app>>
OnDraft(A)   == app = "draft"   /\ A /\ UNCHANGED <<treeVars, onPicker, onEditor, onPreview, onWiring, app>>
OnPicker(A)  == app = "picker"  /\ A /\ UNCHANGED <<treeVars, onDraft, onEditor, onPreview, onWiring, app>>
OnEditor(A)  == app = "editor"  /\ A /\ UNCHANGED <<treeVars, onDraft, onPicker, onPreview, onWiring, app>>
OnPreview(A) == app = "preview" /\ A /\ UNCHANGED <<treeVars, onDraft, onPicker, onEditor, onWiring, app>>
OnWiring(A)  == app = "wiring"  /\ A /\ UNCHANGED <<treeVars, onDraft, onPicker, onEditor, onPreview, app>>

MCNext ==
  \/ OnTree(TreeNext) \/ OnDraft(DraftOf!DraftNext) \/ OnPicker(Picker!PickerNext)
  \/ OnEditor(Editor!EditorNext) \/ OnPreview(Preview!PreviewNext) \/ OnWiring(Template!WiringNext)

\* Requests are answered or fail, and a debounce's timer fires.
MCFairness == WF_authoringVars(OnEditor(Editor!SaveSettles) \/ OnPreview(Preview!PreviewSettles))

MCSpec == MCInit /\ [][MCNext]_authoringVars /\ MCFairness

-----------------------------------------------------------------------------
(* Properties                                                               *)

\* A rule being written means what is drawn, said and stored: the ladder is the
\* tree and the tree is normal (RuleTree); what the editor lets through the API
\* accepts and gives back, opening and saving a rule it has a form for changes
\* nothing, the marks agree with the gate, the commands of a clear are shown and
\* no recipe switches hardware on a bare threshold (RuleDraft); the next runs and
\* the sentence are the cron's (SchedulePicker); no unsaved changes means stored
\* (RuleEditor); and the preview is of the draft on screen (RulePreview).
RuleMeansWhatIsShown ==
  /\ TreeIsNormal /\ LadderIsTheTree
  /\ app = "draft" => /\ DraftOf!SavesAreAccepted /\ DraftOf!SavedReadsBack
                      /\ DraftOf!OpenAndSaveKeeps /\ DraftOf!GatesAgree
                      /\ DraftOf!ClearIsShown /\ DraftOf!RecipesAreSafe
  /\ app = "picker" => Picker!NextRunsAreNext /\ Picker!WordsSayWhenItRuns
  /\ app = "editor" => Editor!CleanMeansStored /\ Editor!TabIsOffered
  /\ app = "preview" => Preview!PreviewIsOfTheDraft

\* Wiring: a row is fed by one channel, a template the editor saves the API
\* accepts and gives back as the same draft, and what rules use stops being fed
\* only after a question.
WiringSound ==
  app = "wiring" => /\ Template!LinkedOnce /\ Template!WiringAccepted
                    /\ Template!WiringReadsBack /\ Template!AskedBeforeUnfed

\* What an edit may never do: wire a contact anywhere but beside its neighbour
\* or lose one (RuleTree), show another schedule than the one picked
\* (SchedulePicker), make a rule look edited because the zone arrived
\* (RuleEditor), put two parts on one pin, move a pin untold, drop a row the
\* author edited or a channel a replacement still has (Wiring).
AuthoringSteps ==
  /\ BesideMeansBeside /\ EditsKeepContacts
  /\ [][app = "picker" => Picker!ShowsPickStep]_onPicker
  /\ [][app = "editor" => Editor!ZoneStep]_onEditor
  /\ [][app = "wiring" => /\ Template!PinsApartStep /\ Template!MovedIsToldStep
                          /\ Template!EditedRowsStayStep /\ Template!ReplaceKeepsStep]_onWiring

\* No save and no preview stays under way for ever.
Waits == CASE app = "editor" -> Editor!EditorSaves [] app = "preview" -> Preview!PreviewWaits [] OTHER -> FALSE
AuthoringSettles == []<>~Waits
=============================================================================
