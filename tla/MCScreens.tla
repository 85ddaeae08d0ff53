------------------------------ MODULE MCScreens ------------------------------
(***************************************************************************)
(* The dashboard's screens for TLC: one of them is open in a behaviour (app) *)
(* and the others stay as they were first drawn.  Each question bounds what   *)
(* happens on its screen.                                                     *)
(***************************************************************************)
EXTENDS RecordEditor

VARIABLES
    app,                                                            \* the open screen
    screen, rows, listCache, listFetch, params, nav, text, sent,    \* RecordList
    selected, ask, ops, toast, seen, typed, clash, disturbed, budget,
    feed, alert, feedPage, state, pages, asked, feedData, badge,    \* AlertFeed
    posts, offer, unheard, earlier, feedBudget,
    boards, default, last, known, boardData, place, widgets, chain, old,    \* Dashboard
    addSheet, undo, job, touched, failed, crossed, moved, boardBudget,
    cred, asking, flow, live, flash, mount, goodBaud, board, wifi,  \* Connect
    acks, elsewhere, connectBudget,
    chip, pinOverrides, template, step, sketch, pinsLeft            \* SketchPins

Only(kinds, b) == [k \in kinds |-> IF k \in DOMAIN b THEN b[k] ELSE 0]

-----------------------------------------------------------------------------
Rows == {1, 2, 3}
PageSize == 2
Matches == [t \in {"", "a", "b"} |-> CASE t = "" -> Rows [] t = "a" -> {1, 3} [] t = "b" -> {2}]
AskList(list, b) == <<list, Only({"type", "write", "tick", "act", "mishap", "other"}, b)>>
Questions ==
  { AskList("members",   [type |-> 2, write |-> 2]),
    AskList("devices",   [tick |-> 2, act |-> 1, write |-> 1, mishap |-> 1]),
    AskList("devices",   [tick |-> 1, act |-> 1, other |-> 1]),
    AskList("rules",     [act |-> 2, mishap |-> 1]),
    AskList("rules",     [act |-> 1, write |-> 2]),
    AskList("templates", [act |-> 1, write |-> 1, other |-> 1]),
    AskList("keys",      [act |-> 2]),
    AskList("zones",     [act |-> 1, other |-> 1]),
    AskList("dashboards", [act |-> 2, mishap |-> 1]) }
List == INSTANCE RecordList WITH cache <- listCache, fetch <- listFetch

Alerts == {1, 2, 3}
GroupOf == [a \in Alerts |-> IF a = 3 THEN 2 ELSE a]
AskFeed(which, b) == <<which, Only({"raise", "act", "page", "miss"}, b)>>
FeedQuestions ==
  { AskFeed("alerts",  [act |-> 2, page |-> 1]), AskFeed("alerts", [act |-> 1, page |-> 1, raise |-> 1]),
    AskFeed("alerts",  [act |-> 2, raise |-> 1]), AskFeed("alerts", [act |-> 1, miss |-> 1]),
    AskFeed("history", [act |-> 1, page |-> 1]) }
Feed == INSTANCE AlertFeed WITH page <- feedPage, data <- feedData

Devices == <<"d1", "d2", "d3">>
MetricsOf == [d1 |-> <<"n1">>, d2 |-> <<"b2">>, d3 |-> <<"n3", "b3">>]
Numeric == {"n1", "n3"}
Actuated == {"d2"}
Cols == 2
AskBoard(b) == Only({"edit", "add", "visit", "fail", "menu", "delete"}, b)
BoardQuestions ==
  { AskBoard([edit |-> 2]), AskBoard([edit |-> 1, add |-> 1, fail |-> 1]), AskBoard([add |-> 3]),
    AskBoard([edit |-> 1, visit |-> 2]), AskBoard([edit |-> 2, visit |-> 1]),
    AskBoard([edit |-> 1, delete |-> 1, fail |-> 1]),
    AskBoard([menu |-> 2, delete |-> 1, visit |-> 1]), AskBoard([edit |-> 1, menu |-> 1]) }
Board == INSTANCE Dashboard WITH data <- boardData

Tests == {"a1", "a2"}
AskWizard(b) ==
  Only({"rotate", "lost", "elsewhere", "install", "walk", "option", "report", "test", "wifi", "drop"}, b)
ConnectQuestions ==
  { AskWizard([rotate |-> 2, lost |-> 1, elsewhere |-> 1, install |-> 1, drop |-> 1]),
    AskWizard([rotate |-> 1, install |-> 1, walk |-> 1, drop |-> 4]),
    AskWizard([rotate |-> 1, install |-> 2, drop |-> 5]),
    AskWizard([rotate |-> 1, install |-> 2, walk |-> 1, drop |-> 1]),
    AskWizard([rotate |-> 1, install |-> 1, option |-> 2, walk |-> 1]),
    AskWizard([rotate |-> 1, install |-> 1, wifi |-> 5]),
    AskWizard([rotate |-> 1, install |-> 2, walk |-> 1, wifi |-> 2]),
    AskWizard([rotate |-> 1, install |-> 1, option |-> 2, report |-> 1, test |-> 2, lost |-> 1]) }
Wizard == INSTANCE Connect

Row(id, type) == [id |-> id, type |-> type]
Chips == [c3 |-> [inputs |-> <<4, 5>>, outputs |-> <<3, 0>>], s2 |-> [inputs |-> <<3, 4>>, outputs |-> <<11>>]]
Templates ==
  { [metrics |-> <<Row("door", "bool")>>, actuators |-> <<Row("fan", "bool")>>, wired |-> "none"],
    [metrics |-> <<Row("leak", "bool"), Row("temp", "float"), Row("door", "bool")>>,
     actuators |-> <<Row("valve", "float"), Row("fan", "bool")>>, wired |-> "none"],
    [metrics |-> <<Row("leak", "bool")>>, actuators |-> <<Row("fan", "bool"), Row("text", "string")>>, wired |-> "s2"],
    [metrics |-> <<Row("leak", "bool")>>, actuators |-> <<>>, wired |-> "none"] }
FirstChip == "c3"
PinSteps == 3
Pins == INSTANCE SketchPins

-----------------------------------------------------------------------------
onList   == <<screen, rows, listCache, listFetch, params, nav, text, sent, selected, ask, ops, toast,
              seen, typed, clash, disturbed, budget>>
onFeed   == <<feed, alert, feedPage, state, pages, asked, feedData, badge, posts, offer, unheard,
              earlier, feedBudget>>
onBoard  == <<boards, default, last, known, boardData, place, widgets, chain, old, addSheet, undo,
              job, touched, failed, crossed, moved, boardBudget>>
onWizard == <<cred, asking, flow, live, flash, mount, goodBaud, board, wifi, acks, elsewhere,
              connectBudget>>
onPins == <<chip, pinOverrides, template, step, sketch, pinsLeft>>
screenVars == <<vars, onList, onFeed, onBoard, onWizard, onPins, app>>

\* A screen that is not open: one of its initial states.
FirstOf(S) == CHOOSE q \in S : TRUE

MCInit ==
  /\ Init /\ List!ListInit /\ Feed!FeedInit /\ Board!BoardInit /\ Wizard!ConnectInit /\ Pins!PinsInit
  /\ app \in {"editor", "list", "feed", "board", "wizard", "pins"}
  /\ app = "editor" \/ (editor = "device" /\ saves = 0)
  /\ app = "list"   \/ <<screen, budget>> = FirstOf(Questions)
  /\ app = "feed"   \/ <<feed, feedBudget>> = FirstOf(FeedQuestions)
  /\ app = "board"  \/ boardBudget = FirstOf(BoardQuestions)
  /\ app = "wizard" \/ connectBudget = FirstOf(ConnectQuestions)
  /\ app = "pins"   \/ template = FirstOf(Templates)

OnEditor(A) == app = "editor" /\ A /\ UNCHANGED <<onList, onFeed, onBoard, onWizard, onPins, app>>
OnList(A)   == app = "list"   /\ A /\ UNCHANGED <<vars, onFeed, onBoard, onWizard, onPins, app>>
OnFeed(A)   == app = "feed"   /\ A /\ UNCHANGED <<vars, onList, onBoard, onWizard, onPins, app>>
OnBoard(A)  == app = "board"  /\ A /\ UNCHANGED <<vars, onList, onFeed, onWizard, onPins, app>>
OnWizard(A) == app = "wizard" /\ A /\ UNCHANGED <<vars, onList, onFeed, onBoard, onPins, app>>
OnPins(A)   == app = "pins"   /\ A /\ UNCHANGED <<vars, onList, onFeed, onBoard, onWizard, app>>

MCNext ==
  \/ OnEditor(Next) \/ OnList(List!ListNext) \/ OnFeed(Feed!FeedNext) \/ OnBoard(Board!BoardNext)
  \/ OnWizard(Wizard!ConnectNext) \/ OnPins(Pins!PinsNext)

\* Each screen's fairness.  One screen is open in a behaviour, so a conjunct may
\* hold one fair action of each screen.
MCFairness ==
  /\ WF_screenVars(\/ OnEditor(Settling) \/ OnList(List!OpSettles) \/ OnFeed(Feed!FeedSettles)
                   \/ OnBoard(Board!SaveEnds) \/ OnWizard(Wizard!Progress))
  /\ WF_screenVars(\/ OnEditor(Rereading) \/ OnList(List!PageSettles) \/ OnFeed(Feed!FeedRereads)
                   \/ OnBoard(Board!RestEnds) \/ OnWizard(Wizard!PhoneAnswers))

MCSpec == MCInit /\ [][MCNext]_screenVars /\ MCFairness

-----------------------------------------------------------------------------
(* Properties                                                               *)

\* The shape of every screen's state.
ScreensTypeOK ==
  CASE app = "editor" -> TypeOK
    [] app = "list"   -> List!ListTypeOK
    [] app = "feed"   -> Feed!FeedTypeOK
    [] app = "board"  -> Board!BoardTypeOK
    [] app = "wizard" -> Wizard!ConnectTypeOK
    [] app = "pins"   -> Pins!PinsTypeOK

\* RecordEditor: "All changes saved" is true, Create makes no record twice
\* however often it is pressed, and nothing the form calls invalid is stored.
RecordsKept == ScreensTypeOK /\ AllChangesSaved /\ CreatesOnce /\ NothingInvalidStored

\* RecordList, AlertFeed: the search box, the URL, the list and the badge end up
\* agreeing with what is stored; an action reaches no row that was not on the
\* page when it was picked, a confirmation answers the question on screen, and
\* Undo brings back its own dismissal's alerts only.
ListsAgree ==
  /\ app = "list" => /\ List!SearchAgrees /\ List!OnlyPickedRows
                     /\ List!AnswersTheQuestionShown /\ List!ShowsWhatIs
  /\ app = "feed" => Feed!FeedAgrees /\ Feed!UndoBringsBackItsOwn

\* Dashboard: the layout on screen is what ends up stored, its widgets keep
\* showing something their device has, stay inside the grid and do not start
\* out overlapping; Undo of a delete brings back what was on screen; and /home
\* lands on a dashboard that exists.
BoardKept ==
  app = "board" => /\ Board!LayoutSaved /\ Board!WidgetsAreFed /\ Board!InsideGrid
                   /\ Board!DeletedComesBack /\ Board!StarterFits /\ Board!LandsOnABoard

\* Connect: an install that says done left every part whole, the credential held
\* and flashed is the one the broker accepts, and no more lines turn green than
\* answers came.  SketchPins: a sketch handed out has a pin of its board to each
\* row, after other boards, picks and templates.
InstallWorks ==
  /\ app = "wizard" => Wizard!InstalledWhole /\ Wizard!HeldCredentialWorks /\ Wizard!AnswersCounted
  /\ app = "pins" => Pins!SketchPinsApart

\* What a step may never do: overwrite what was typed (RecordEditor), undo
\* anything but the action's own change (RecordList), or lose the firmware or
\* the saved Wi-Fi to an update of the config only (Connect).
ScreenSteps ==
  /\ EditsAreKept
  /\ [][List!UndoRestoresStep]_onList
  /\ [][Wizard!ConfigKeepsWifiStep]_onWizard

\* Nothing spins for ever: a save, a bulk action's requests, an emptied page of
\* alerts, a dashboard's queue of saves, an install over a link that keeps
\* dropping, the phone's Bluetooth calls.  All end with an outcome, also when
\* requests fail.
Waits ==
  CASE app = "editor" -> EditorWaits
    [] app = "list"   -> List!ListWaits
    [] app = "feed"   -> Feed!FeedWaits
    [] app = "board"  -> Board!LayoutWaits
    [] app = "wizard" -> Wizard!WizardWaits
    [] app = "pins"   -> FALSE
ScreensSettle == []<>~Waits
=============================================================================
