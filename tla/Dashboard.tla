------------------------------ MODULE Dashboard ------------------------------
(***************************************************************************)
(* A dashboard's page (dashboards/[dashboardId]/page.tsx): the layout is   *)
(* seeded once, edited in place (drag, the widget's sheet, Add widget in    *)
(* three steps, the phone's list) and saved whole after every change, one   *)
(* PATCH after another.  Deleting a dashboard offers to make it again from   *)
(* what was on screen.  Around it: the default dashboard and where /home     *)
(* lands (landing.ts), and the starter dashboard built from the devices.     *)
(***************************************************************************)
EXTENDS Integers, Sequences, SequencesExt, FiniteSets, FiniteSetsExt

CONSTANTS
    Devices,        \* a sequence, as the API lists them
    MetricsOf,      \* device -> the metrics its template declares, in order
    Numeric,        \* the metrics that are numbers, not on/off
    Actuated,       \* the devices with actuators
    Cols,           \* the grid's columns
    BoardQuestions  \* what happens on the page, and how often

VARIABLES
    boards,         \* the API's dashboards: id -> layout, or NoBoard
    default, last,  \* the person's default, and the one this browser opened last
    known,          \* the devices that have not been deleted
    data,           \* SWR's copy of dashboard 1
    place,          \* "page", "away" or "deleted" (dashboard 1's page left behind)
    widgets,        \* the page's own copy of the layout
    chain, old,     \* the saves of this visit and of the visits before, in order
    addSheet,       \* Add widget: the step and the draft
    undo,           \* the toast's Undo: what it saves or makes again, and from which visit
    job,            \* duplicate, Undo of a delete, or starter: POST, PATCH, PUT
    touched,        \* the layout was changed on this visit
    failed,         \* a request failed
    crossed,        \* a save of an earlier visit went out, or was still to land, in this one
    moved,          \* a phone's list swapped two widgets' places
    boardBudget

boardVars == <<boards, default, last, known, data, place, widgets, chain, old, addSheet,
               undo, job, touched, failed, crossed, moved, boardBudget>>

SpendBoard(k) == boardBudget[k] > 0 /\ boardBudget' = [boardBudget EXCEPT ![k] = @ - 1]

Types == {"value_card", "gauge", "device_status", "actuator_control"}
Sizes == {1, Cols}
NoBoard == <<[id |-> 0]>>
NoDevice == "none"
Shut == [step |-> 0, draft |-> [id |-> 0]]
NoUndo == [kind |-> "none", layout |-> << >>]
Idle == [at |-> "none", layout |-> << >>, id |-> 0, default |-> FALSE]
Exists(b) == boards[b] # NoBoard

-----------------------------------------------------------------------------
(* WidgetSheet.tsx: which devices and metrics can feed a type of widget *)

NeedsMetric(type) == type \in {"value_card", "gauge"}
metricsOf(type, d) ==
    IF d = NoDevice THEN << >>
    ELSE SelectSeq(MetricsOf[d], LAMBDA m : type = "gauge" => m \in Numeric)

devicesFor(type) ==
    SelectSeq(Devices, LAMBDA d : /\ d \in known
                                  /\ CASE type = "actuator_control" -> d \in Actuated
                                       [] type = "device_status" -> TRUE
                                       [] OTHER -> metricsOf(type, d) # << >>)

Feeds(w) ==
    /\ w.device \in ToSet(devicesFor(w.type))
    /\ NeedsMetric(w.type) => w.metric \in ToSet(metricsOf(w.type, w.device))

(* A device that can feed it, a metric of the right kind, a gauge's range. *)
fixWidget(w) ==
    LET ds == devicesFor(w.type)
        d == IF w.device \in ToSet(ds) THEN w.device ELSE IF ds # << >> THEN ds[1] ELSE NoDevice
        ms == metricsOf(w.type, d)
        m == IF w.metric \in ToSet(ms) THEN w.metric ELSE IF ms # << >> THEN ms[1] ELSE "none"
    IN  [w EXCEPT !.device = IF d = NoDevice THEN @ ELSE d,
                  !.metric = IF NeedsMetric(w.type) THEN m ELSE "none",
                  !.range = CASE w.type # "gauge" -> "none"
                              [] w.type = "gauge" /\ (@ = "none" \/ m # w.metric) -> "ok"
                              [] OTHER -> @]

problemOf(w) ==
    \/ w.device \notin ToSet(devicesFor(w.type))
    \/ NeedsMetric(w.type) /\ w.metric = "none"
    \/ w.type = "gauge" /\ w.range # "ok"

(* SourceFields, the Type select and the size: what a sheet may make of w. *)
SourceChanges(w) ==
    {fixWidget([w EXCEPT !.device = d]) : d \in ToSet(devicesFor(w.type))}
      \cup (IF NeedsMetric(w.type)
            THEN {fixWidget([w EXCEPT !.metric = m]) : m \in ToSet(metricsOf(w.type, w.device))}
            ELSE {})
      \cup (IF w.type = "gauge" THEN {[w EXCEPT !.range = r] : r \in {"none", "ok", "bad"}} ELSE {})
TypeChanges(w) == {fixWidget([w EXCEPT !.type = t]) : t \in Types}
SizeChanges(w) == {[w EXCEPT !.w = s] : s \in Sizes}

(* starterLayout: one widget per device, two a row, a row as tall as its   *)
(* tallest.                                                                 *)
RowTop(hs, i) ==
    LET row == (i - 1) \div 2
    IN  FoldFunctionOnSet(+, 0, [r \in 0..row |-> IF r = 0 THEN 0 ELSE Max({hs[2 * r - 1], hs[2 * r]})],
                          0..row)

starterLayout(newId) ==
    LET ds == SelectSeq(Devices, LAMBDA d : d \in known)
        numbers(d) == SelectSeq(MetricsOf[d], LAMBDA m : m \in Numeric)
        hs == [i \in 1..Len(ds) |-> IF numbers(ds[i]) # << >> THEN 2 ELSE 1]
    IN  [i \in 1..Len(ds) |->
           [id |-> newId[i], type |-> IF hs[i] = 2 THEN "value_card" ELSE "device_status",
            device |-> ds[i], metric |-> IF hs[i] = 2 THEN numbers(ds[i])[1] ELSE "none",
            range |-> "none", x |-> IF i % 2 = 1 THEN 0 ELSE Cols \div 2, y |-> RowTop(hs, i),
            w |-> Cols \div 2, h |-> hs[i]]]

-----------------------------------------------------------------------------
(* Saving *)

\* Mutant: the newest save overtakes the ones waiting.
saveLayout_Unchained(next) ==
    /\ widgets' = next
    /\ chain' = <<next>> \o chain
    /\ touched' = TRUE

(* The whole layout, after the saves before it. *)
saveLayout(next) ==
    /\ widgets' = next
    /\ chain' = Append(chain, next)
    /\ touched' = TRUE

(* A save's turn: the API stores it, or refuses because the dashboard is    *)
(* gone; either way the next one goes out.                                  *)
SaveLands ==
    /\ chain # << >>
    /\ chain' = Tail(chain)
    /\ boards' = IF Exists(1) THEN [boards EXCEPT ![1] = Head(chain)] ELSE boards
    /\ UNCHANGED <<default, last, known, data, place, widgets, old, addSheet, undo, job,
                   touched, failed, crossed, moved, boardBudget>>

(* The page was left: its saves go on by themselves. *)
OldSaveLands ==
    /\ old # << >>
    /\ old' = Tail(old)
    /\ boards' = IF Exists(1) THEN [boards EXCEPT ![1] = Head(old)] ELSE boards
    /\ UNCHANGED <<default, last, known, data, place, widgets, chain, addSheet, undo, job,
                   touched, failed, crossed, moved, boardBudget>>

(* Failed: the toast says so, the next save still goes out. *)
SaveFails ==
    /\ chain # << >>
    /\ SpendBoard("fail")
    /\ failed' = TRUE
    /\ chain' = Tail(chain)
    /\ UNCHANGED <<boards, default, last, known, data, place, widgets, old, addSheet, undo, job,
                   touched, crossed, moved>>

-----------------------------------------------------------------------------
(* Editing the layout *)

CanEdit == place = "page"
NewId == Max({0} \cup {widgets[i].id : i \in DOMAIN widgets}) + 1

Bottom == Max({0} \cup {widgets[i].y + widgets[i].h : i \in DOMAIN widgets})

(* Add widget: Type, Source, Size. *)
PickType(t) ==
    /\ SpendBoard("add") /\ CanEdit /\ addSheet.step = 0
    /\ addSheet' = [step |-> 1,
                    draft |-> fixWidget([id |-> NewId, type |-> t, device |-> NoDevice, metric |-> "none",
                                         range |-> "none", x |-> 0, y |-> 0, w |-> 1, h |-> 1])]
    /\ UNCHANGED <<boards, default, last, known, data, place, widgets, chain, old, undo, job,
                   touched, failed, crossed, moved>>

ChangeDraft ==
    /\ SpendBoard("add") /\ CanEdit /\ addSheet.step > 0
    /\ \E d \in IF addSheet.step = 1 THEN SourceChanges(addSheet.draft) ELSE SizeChanges(addSheet.draft) :
         d # addSheet.draft /\ addSheet' = [addSheet EXCEPT !.draft = d]
    /\ UNCHANGED <<boards, default, last, known, data, place, widgets, chain, old, undo, job,
                   touched, failed, crossed, moved>>

SheetStep ==
    /\ CanEdit
    /\ \/ addSheet.step = 1 /\ ~problemOf(addSheet.draft) /\ addSheet' = [addSheet EXCEPT !.step = 2]
       \/ addSheet.step = 2 /\ addSheet' = [addSheet EXCEPT !.step = 1]
       \/ addSheet.step = 1 /\ addSheet' = Shut
    /\ UNCHANGED <<boards, default, last, known, data, place, widgets, chain, old, undo, job,
                   touched, failed, crossed, moved, boardBudget>>

addWidget ==
    /\ CanEdit /\ addSheet.step = 2
    /\ ~problemOf(addSheet.draft)
    /\ saveLayout(Append(widgets, [addSheet.draft EXCEPT !.x = 0, !.y = Bottom]))
    /\ addSheet' = Shut
    /\ UNCHANGED <<boards, default, last, known, data, place, old, undo, job, failed, crossed,
                   moved, boardBudget>>

Editing == SpendBoard("edit") /\ CanEdit /\ addSheet = Shut

removeWidget(i) ==
    /\ Editing
    /\ saveLayout(RemoveAt(widgets, i))
    /\ undo' = [kind |-> "layout", layout |-> widgets]
    /\ UNCHANGED <<boards, default, last, known, data, place, old, addSheet, job, failed, crossed, moved>>

changeWidget(i, w) == saveLayout([widgets EXCEPT ![i] = [w EXCEPT !.x = Min({w.x, Cols - w.w})]])

(* The sheet: every change applies as it is made. *)
SheetChanges(i) ==
    /\ Editing
    /\ \E w \in SourceChanges(widgets[i]) \cup TypeChanges(widgets[i]) \cup SizeChanges(widgets[i]) :
         w # widgets[i] /\ changeWidget(i, w)
    /\ UNCHANGED <<boards, default, last, known, data, place, old, addSheet, undo, job, failed,
                   crossed, moved>>

(* Drag or resize stopped, the grid keeping it inside; saved if it changed. *)
handleStop(i) ==
    /\ Editing
    /\ \E x \in 0..(Cols - 1), s \in Sizes :
         /\ x + s <= Cols /\ <<x, s>> # <<widgets[i].x, widgets[i].w>>
         /\ saveLayout([widgets EXCEPT ![i].x = x, ![i].w = s])
    /\ UNCHANGED <<boards, default, last, known, data, place, old, addSheet, undo, job, failed,
                   crossed, moved>>

(* The phone's list: swap grid places with the neighbour in reading order. *)
readingOrder ==
    SortSeq([i \in DOMAIN widgets |-> i],
            LAMBDA i, j : \/ widgets[i].y < widgets[j].y
                          \/ widgets[i].y = widgets[j].y /\ widgets[i].x < widgets[j].x)

moveWidget(k) ==
    /\ Editing
    /\ k \in 1..(Len(widgets) - 1)
    /\ LET a == readingOrder[k]
           b == readingOrder[k + 1]
       IN  saveLayout([widgets EXCEPT ![a].x = widgets[b].x, ![a].y = widgets[b].y,
                                      ![b].x = widgets[a].x, ![b].y = widgets[a].y])
    /\ moved' = TRUE
    /\ UNCHANGED <<boards, default, last, known, data, place, old, addSheet, undo, job, failed, crossed>>

-----------------------------------------------------------------------------
(* Coming and going; SWR *)

(* The toasts stay when the page is left: they are the app's, not its. *)
Leave ==
    /\ SpendBoard("visit") /\ place = "page"
    /\ place' = "away" /\ addSheet' = Shut
    /\ old' = old \o chain /\ chain' = << >> /\ touched' = FALSE
    /\ undo' = IF undo.kind = "layout" THEN [undo EXCEPT !.kind = "earlier"] ELSE undo
    /\ UNCHANGED <<boards, default, last, known, data, widgets, job, failed, crossed, moved>>

(* data arrives, or was cached: the page's copy is seeded once. *)
Return ==
    /\ place = "away" /\ Exists(1)
    /\ place' = "page" /\ widgets' = data /\ last' = 1
    /\ crossed' = (crossed \/ old # << >>)
    /\ UNCHANGED <<boards, default, known, data, chain, old, addSheet, undo, job, touched, failed,
                   moved, boardBudget>>

Revalidate ==
    /\ place = "page" /\ Exists(1) /\ data # boards[1]
    /\ data' = boards[1]
    /\ UNCHANGED <<boards, default, last, known, place, widgets, chain, old, addSheet, undo, job,
                   touched, failed, crossed, moved, boardBudget>>

DeviceDeleted(d) ==
    /\ SpendBoard("menu") /\ d \in known
    /\ known' = known \ {d}
    /\ UNCHANGED <<boards, default, last, data, place, widgets, chain, old, addSheet, undo, job,
                   touched, failed, crossed, moved>>

-----------------------------------------------------------------------------
(* Whole dashboards *)

(* Undo of a removed widget saves the layout from before it. *)
UndoRemove ==
    /\ undo.kind = "layout" /\ place = "page"
    /\ saveLayout(undo.layout)
    /\ undo' = NoUndo
    /\ UNCHANGED <<boards, default, last, known, data, place, old, addSheet, job, failed, crossed,
                   moved, boardBudget>>

(* The same toast after the page was left: it saves behind that visit's own *)
(* saves, and no page that is open now shows it.                             *)
UndoAfterLeaving ==
    /\ undo.kind = "earlier"
    /\ old' = Append(old, undo.layout)
    /\ crossed' = (crossed \/ place = "page")
    /\ undo' = NoUndo
    /\ UNCHANGED <<boards, default, last, known, data, place, widgets, chain, addSheet, job,
                   touched, failed, moved, boardBudget>>

StartJob(layout, isDefault) ==
    /\ job = Idle
    /\ job' = [at |-> "post", layout |-> layout, id |-> 0, default |-> isDefault]

duplicate ==
    /\ SpendBoard("menu") /\ place = "page" /\ addSheet = Shut
    /\ StartJob(widgets, FALSE)
    /\ UNCHANGED <<boards, default, last, known, data, place, widgets, chain, old, addSheet, undo,
                   touched, failed, crossed, moved>>

(* Build my dashboard, from Get started or Welcome. *)
build ==
    /\ SpendBoard("menu") /\ place # "page"
    /\ StartJob(starterLayout([i \in 1..Len(Devices) |-> i]), TRUE)
    /\ UNCHANGED <<boards, default, last, known, data, place, widgets, chain, old, addSheet, undo,
                   touched, failed, crossed, moved>>

snapshot == widgets

(* Delete…, confirmed: the API's default goes with it. *)
remove ==
    /\ SpendBoard("delete") /\ place = "page" /\ addSheet = Shut
    /\ boards' = [boards EXCEPT ![1] = NoBoard]
    /\ default' = IF default = 1 THEN 0 ELSE default
    /\ place' = "deleted"
    /\ undo' = [kind |-> "board", layout |-> snapshot]
    /\ UNCHANGED <<last, known, data, widgets, chain, old, addSheet, job, touched, failed, crossed, moved>>

UndoDelete ==
    /\ undo.kind = "board"
    /\ StartJob(undo.layout, FALSE)
    /\ undo' = NoUndo
    /\ UNCHANGED <<boards, default, last, known, data, place, widgets, chain, old, addSheet,
                   touched, failed, crossed, moved, boardBudget>>

(* POST the name, PATCH the layout, PUT the default: one after another. *)
JobStep ==
    \/ /\ job.at = "post"
       /\ \E b \in DOMAIN boards \ {1} :
            /\ ~Exists(b)
            /\ boards' = [boards EXCEPT ![b] = << >>]
            /\ job' = [job EXCEPT !.at = "patch", !.id = b]
       /\ UNCHANGED <<default, last>>
    \/ /\ job.at = "patch"
       /\ boards' = [boards EXCEPT ![job.id] = job.layout]
       /\ job' = [job EXCEPT !.at = IF job.default THEN "put" ELSE "done"]
       /\ UNCHANGED <<default, last>>
    \/ /\ job.at = "put"
       /\ default' = job.id /\ job' = [job EXCEPT !.at = "done"]
       /\ UNCHANGED <<boards, last>>
    \/ /\ job.at = "done"
       /\ last' = job.id /\ job' = Idle
       /\ UNCHANGED <<boards, default>>

JobRuns ==
    /\ JobStep
    /\ UNCHANGED <<known, data, place, widgets, chain, old, addSheet, undo, touched, failed, crossed,
                   moved, boardBudget>>

(* A request of it fails: what was made so far stays. *)
JobFails ==
    /\ job.at \in {"post", "patch", "put"} /\ SpendBoard("fail")
    /\ job' = Idle /\ failed' = TRUE
    /\ UNCHANGED <<boards, default, last, known, data, place, widgets, chain, old, addSheet, undo,
                   touched, crossed, moved>>

(* Set as default / Remove as default. *)
toggle(b) ==
    /\ SpendBoard("menu") /\ Exists(b)
    /\ default' = IF default = b THEN 0 ELSE b
    /\ UNCHANGED <<boards, last, known, data, place, widgets, chain, old, addSheet, undo, job,
                   touched, failed, crossed, moved>>

(* Where /home sends the person; 0 is the device list. *)
landingPath ==
    LET ids == {b \in DOMAIN boards : Exists(b)}
    IN  CASE default # 0 -> default
          [] default = 0 /\ last \in ids -> last
          [] OTHER -> IF ids # {} THEN Max(ids) ELSE 0

-----------------------------------------------------------------------------
FirstWidget ==
    [id |-> 1, type |-> "value_card", device |-> Devices[1], metric |-> MetricsOf[Devices[1]][1],
     range |-> "none", x |-> 0, y |-> 0, w |-> 1, h |-> 1]
SecondWidget ==
    [id |-> 2, type |-> "device_status", device |-> Devices[Len(Devices)], metric |-> "none",
     range |-> "none", x |-> Cols - 1, y |-> 0, w |-> 1, h |-> 1]

BoardInit ==
    /\ boards = <<(<<FirstWidget, SecondWidget>>), NoBoard>>
    /\ default = 0 /\ last = 1
    /\ known = ToSet(Devices)
    /\ data = boards[1] /\ widgets = boards[1]
    /\ place = "page"
    /\ chain = << >> /\ old = << >>
    /\ addSheet = Shut /\ undo = NoUndo /\ job = Idle
    /\ touched = FALSE /\ failed = FALSE /\ crossed = FALSE /\ moved = FALSE
    /\ boardBudget \in BoardQuestions

BoardNext ==
    \/ SaveLands \/ OldSaveLands \/ SaveFails
    \/ \E t \in Types : PickType(t)
    \/ ChangeDraft \/ SheetStep \/ addWidget
    \/ \E i \in DOMAIN widgets : removeWidget(i) \/ SheetChanges(i) \/ handleStop(i) \/ moveWidget(i)
    \/ Leave \/ Return \/ Revalidate
    \/ \E d \in ToSet(Devices) : DeviceDeleted(d)
    \/ UndoRemove \/ UndoAfterLeaving \/ duplicate \/ build \/ remove \/ UndoDelete \/ JobRuns \/ JobFails
    \/ \E b \in DOMAIN boards : toggle(b)

(* Requests are answered. *)
SaveEnds == SaveLands \/ SaveFails
RestEnds == OldSaveLands \/ JobRuns
BoardFairness == WF_boardVars(SaveEnds) /\ WF_boardVars(RestEnds)

BoardSpec == BoardInit /\ [][BoardNext]_boardVars /\ BoardFairness

-----------------------------------------------------------------------------
(* Properties *)

(* Changes save as you go: once the saves of a visit are through and none   *)
(* failed, the API stores the layout on screen, however fast they were      *)
(* made (unless a save of an earlier visit, or the Undo its toast still     *)
(* offers, lands in this one).                                               *)
LayoutSaved ==
    (place = "page" /\ touched /\ chain = << >> /\ old = << >> /\ ~failed /\ ~crossed)
      => boards[1] = widgets

(* Whatever is changed in a sheet, a widget whose device is still there      *)
(* shows something that device has, if any device could feed its type.       *)
WidgetsAreFed ==
    \A i \in DOMAIN widgets :
      (widgets[i].device \in known /\ devicesFor(widgets[i].type) # << >>) => Feeds(widgets[i])

(* A widget made wider, dragged or added stays inside the grid.  (The       *)
(* phone's list swaps places without looking at the widths.)                 *)
InsideGrid == ~moved => \A i \in DOMAIN widgets : widgets[i].x + widgets[i].w <= Cols

(* The Undo of a delete makes the dashboard that was on screen, also when   *)
(* its last changes had not been saved yet.                                  *)
DeletedComesBack ==
    (place = "deleted" /\ undo = NoUndo /\ job = Idle /\ ~failed /\ Exists(2))
      => boards[2] = widgets \/ default = 2

(* "A row is as tall as its tallest widget, so nothing overlaps". *)
StarterFits ==
    LET s == starterLayout([i \in 1..Len(Devices) |-> i])
    IN  \A i, j \in DOMAIN s : i < j =>
          \/ s[i].x + s[i].w <= s[j].x \/ s[j].x + s[j].w <= s[i].x
          \/ s[i].y + s[i].h <= s[j].y \/ s[j].y + s[j].h <= s[i].y

(* /home never lands on a dashboard that is not there, whatever was        *)
(* deleted since it was the default or opened last.                          *)
LandsOnABoard == landingPath # 0 => Exists(landingPath)

(* What must end: every save gets its turn, also behind one that failed. *)
LayoutWaits == chain # << >>

(* The shape of the state. *)
BoardTypeOK ==
    /\ place \in {"page", "away", "deleted"} /\ addSheet.step \in 0..2
    /\ default \in {0} \cup DOMAIN boards /\ last \in DOMAIN boards
    /\ \A i \in DOMAIN widgets : widgets[i].type \in Types /\ widgets[i].w \in Sizes

(* "two in flight (Remove, then Undo) could land out of order and leave the *)
(* older one saved": LayoutSaved for the saves of every visit.  The chain is *)
(* one visit's, and so is the page that an Undo changes: after leaving and    *)
(* coming back, Undo stores the old layout under a page that shows the newer. *)
(* No run checks it.                                                          *)
LayoutSavedAcrossVisits ==
    (place = "page" /\ touched /\ chain = << >> /\ old = << >> /\ ~failed) => boards[1] = widgets

(* What was saved is not lost: a visit's first change starts from the      *)
(* layout that is stored.                                                    *)
StartsFromWhatIsSaved ==
    (place = "page" /\ ~touched /\ chain = << >> /\ old = << >> /\ ~failed) => widgets = boards[1]
=============================================================================
