------------------------------ MODULE RecordList ------------------------------
(***************************************************************************)
(* A list page of the web app (devices, rules, templates, members, keys,   *)
(* zones): its state is the URL (useListState.ts, usePeek.ts), which a     *)
(* router.replace changes some time later; the search box debounces into   *)
(* it (ListToolbar.tsx); rows are ticked (DataTable.tsx) and acted on one   *)
(* request at a time, after a confirmation where it can't be undone         *)
(* (useDeviceActions, useRuleActions, ConfirmDialog.tsx), and the rows come  *)
(* from SWR's cache of the server's, which other people change too.         *)
(***************************************************************************)
EXTENDS Integers, Sequences, SequencesExt, FiniteSets, FiniteSetsExt

CONSTANTS
    Rows,           \* 1..n, in display order
    PageSize,       \* rows a page shows
    Matches,        \* search text -> the rows it finds; "" finds all
    Questions       \* which list is open, and what happens to it

VARIABLES
    screen,         \* which list: "devices", "rules", "templates", "members", ...
    rows, cache,    \* the server's rows and SWR's copy: "on", "off" or "gone"
    fetch,          \* the revalidation under way
    params, nav,    \* the URL as last rendered, and the replace not landed yet
    text, sent,     \* the search box, and the text it last wrote or followed
    selected,       \* the ticked rows
    ask,            \* the confirmation on screen, with what its answer starts
    ops,            \* the actions in progress
    toast,          \* the Undo on offer
    seen,           \* rows that were on screen when they were ticked or picked
    typed,          \* what the user last made the search
    clash,          \* a URL write started from a URL about to be replaced, or a
                    \* key was pressed while "Clear all" was on its way
    disturbed,      \* a request failed, or someone else changed a row
    budget

urlVars == <<params, nav, text, sent, typed, clash>>
dataVars == <<rows, cache, fetch>>
actVars == <<selected, ask, ops, toast, seen>>
listVars == <<screen, dataVars, urlVars, actVars, disturbed, budget>>

Spend(k) == budget[k] > 0 /\ budget' = [budget EXCEPT ![k] = @ - 1]

None == [at |-> "none"]
Texts == DOMAIN Matches
Url == [q : Texts, filter : {"all", "on", "off"}, desc : BOOLEAN, page : 1..3,
        peek : {0} \cup Rows]
NoUrl == [q |-> "", filter |-> "all", desc |-> FALSE, page |-> 0, peek |-> 0]
Home == [NoUrl EXCEPT !.page = 1]

-----------------------------------------------------------------------------
(* The lists: which tick rows, switch them on and off at once (with Undo or  *)
(* without), what Delete… does to a row that is on (deletes it, disables the  *)
(* template or leads away from the zone that is in use, revokes the key), and  *)
(* whether a failed delete reads the list again.                               *)

Plain == [ticks |-> FALSE, toggles |-> FALSE, undo |-> FALSE, onRow |-> "remove", rereads |-> FALSE]
DevicesPage    == [Plain EXCEPT !.ticks = TRUE, !.toggles = TRUE, !.undo = TRUE, !.rereads = TRUE]
RulesPage      == [Plain EXCEPT !.toggles = TRUE, !.undo = TRUE]
TemplatesPage  == [Plain EXCEPT !.toggles = TRUE, !.onRow = "disable"]
ZonesPage      == [Plain EXCEPT !.onRow = "leave"]
KeysPage       == [Plain EXCEPT !.onRow = "revoke"]
MembersPage    == Plain
DashboardsPage == Plain
Page ==
    CASE screen = "devices" -> DevicesPage [] screen = "rules" -> RulesPage
      [] screen = "templates" -> TemplatesPage [] screen = "zones" -> ZonesPage
      [] screen = "keys" -> KeysPage [] screen = "members" -> MembersPage
      [] screen = "dashboards" -> DashboardsPage

-----------------------------------------------------------------------------
(* What the page shows *)

alive == {r \in Rows : cache[r] # "gone"}

filtered ==
    {r \in alive : r \in Matches[params.q] /\ params.filter \in {"all", cache[r]}}

sortRows ==
    LET up == SetToSortSeq(filtered, <)
    IN  IF params.desc THEN Reverse(up) ELSE up

pageCount == Max({1, (Cardinality(filtered) + PageSize - 1) \div PageSize})
clamped == Min({params.page, pageCount})
pageRows == SubSeq(sortRows, (clamped - 1) * PageSize + 1,
                   Min({clamped * PageSize, Len(sortRows)}))
shown == ToSet(pageRows)
selectedRows == selected \cap alive

-----------------------------------------------------------------------------
(* The URL.  Every write starts from the URL of the last render. *)

Replace(url) ==
    /\ nav' = url
    /\ clash' = (clash \/ nav # NoUrl)

write(url) == Replace([url EXCEPT !.page = 1])

(* A replace lands: the page renders with it, and the search box follows a *)
(* query it did not write itself.                                           *)
NavLands ==
    /\ nav # NoUrl
    /\ params' = nav /\ nav' = NoUrl
    /\ IF nav.q # params.q /\ nav.q # sent
       THEN sent' = nav.q /\ text' = nav.q
       ELSE UNCHANGED <<sent, text>>
    /\ UNCHANGED <<screen, dataVars, actVars, typed, clash, disturbed, budget>>

Typing(t) ==
    /\ Spend("type") /\ ask = None /\ params.peek = 0
    /\ t # text
    /\ text' = t /\ typed' = t
    /\ clash' = (clash \/ (nav # NoUrl /\ nav.q \notin {params.q, sent}))
    /\ UNCHANGED <<screen, dataVars, params, nav, sent, actVars, disturbed>>

(* The debounce's timer runs while the box differs from what it sent. *)
setQuery ==
    /\ text # sent
    /\ sent' = text
    /\ write([params EXCEPT !.q = text])
    /\ UNCHANGED <<screen, dataVars, params, text, typed, actVars, disturbed, budget>>

setFilter(v) ==
    /\ Spend("write") /\ ask = None /\ params.peek = 0
    /\ v # params.filter
    /\ write([params EXCEPT !.filter = v])
    /\ UNCHANGED <<screen, dataVars, params, text, sent, typed, actVars, disturbed>>

(* "Clear all" and the search chip's ✕: the box follows when it lands. *)
clearAll ==
    /\ Spend("write") /\ ask = None /\ params.peek = 0
    /\ params.q # "" \/ params.filter # "all"
    /\ write([params EXCEPT !.q = "", !.filter = "all"])
    /\ typed' = IF params.q = "" THEN typed ELSE ""
    /\ UNCHANGED <<screen, dataVars, params, text, sent, actVars, disturbed>>

toggleSort ==
    /\ Spend("write") /\ ask = None /\ params.peek = 0
    /\ Replace([params EXCEPT !.desc = ~@])
    /\ UNCHANGED <<screen, dataVars, params, text, sent, typed, actVars, disturbed>>

setPage(p) ==
    /\ Spend("write") /\ ask = None /\ params.peek = 0
    /\ p \in 1..pageCount /\ p # clamped
    /\ Replace([params EXCEPT !.page = p])
    /\ UNCHANGED <<screen, dataVars, params, text, sent, typed, actVars, disturbed>>

(* The peek: a row's click, ‹ › inside the drawer, and closing it. *)
setPeek(r) ==
    /\ Spend("write") /\ ask = None
    /\ IF params.peek = 0
       THEN r \in shown
       ELSE r = 0 \/ \E i, j \in DOMAIN pageRows :
                       /\ pageRows[i] = params.peek /\ pageRows[j] = r
                       /\ j \in {i - 1, i + 1}
    /\ Replace([params EXCEPT !.peek = r])
    /\ UNCHANGED <<screen, dataVars, params, text, sent, typed, actVars, disturbed>>

-----------------------------------------------------------------------------
(* Ticking rows *)

Picked(set) == seen' = seen \cup (set \cap shown)

toggleOne(r) ==
    /\ Spend("tick") /\ Page.ticks /\ ask = None /\ params.peek = 0
    /\ r \in shown
    /\ selected' = IF r \in selected THEN selected \ {r} ELSE selected \cup {r}
    /\ Picked({r})
    /\ UNCHANGED <<screen, dataVars, urlVars, ask, ops, toast, disturbed>>

allSelected == shown # {} /\ shown \subseteq selected

Ticks == IF allSelected THEN selected \ shown ELSE selected \cup shown

toggleAll ==
    /\ Spend("tick") /\ Page.ticks /\ ask = None /\ params.peek = 0
    /\ shown # {}
    /\ selected' = Ticks
    /\ Picked(Ticks)
    /\ UNCHANGED <<screen, dataVars, urlVars, ask, ops, toast, disturbed>>

-----------------------------------------------------------------------------
(* Acting on rows.  An action sends one request per row, in order. *)

Op(kind, targets, to, undo, bulk) ==
    [at |-> "send", kind |-> kind, todo |-> targets, all |-> targets, to |-> to,
     undo |-> undo, bulk |-> bulk, was |-> [r \in targets |-> cache[r]],
     url |-> params, alone |-> TRUE]

Start(op) ==
    ops' = IF ops = << >> THEN <<op>>
           ELSE Append([i \in DOMAIN ops |-> [ops[i] EXCEPT !.alone = FALSE]],
                       [op EXCEPT !.alone = FALSE])

(* The bar's Enable / Disable, or a row's: no confirmation, Undo instead. *)
setEnabled(targets, to, bulk) ==
    /\ Spend("act") /\ ask = None /\ Page.toggles
    /\ Start(Op("set", targets, to, Page.undo, bulk))
    /\ UNCHANGED <<screen, dataVars, urlVars, selected, ask, toast, disturbed>>

\* Mutant: Undo acts on the rows ticked now.
undoTargets_Ticked(t) == selectedRows

undoTargets(t) == t.all
undoTo(t) == IF t.to = "on" THEN "off" ELSE "on"

Undo ==
    /\ toast # None /\ ask = None
    /\ LET again == Op("set", undoTargets(toast), undoTo(toast), FALSE, FALSE)
       IN  Start([again EXCEPT !.kind = "undo", !.was = toast.was])
    /\ toast' = None
    /\ UNCHANGED <<screen, dataVars, urlVars, selected, ask, seen, disturbed, budget>>

ToastGoes ==
    /\ toast # None
    /\ toast' = None
    /\ UNCHANGED <<screen, dataVars, urlVars, selected, ask, ops, seen, disturbed, budget>>

(* confirm(): the dialog and the resolver are set together, so a second    *)
(* question replaces the first with its answer.                             *)
confirm(op) == ask' = [at |-> "ask", shows |-> op.kind, runs |-> op]

(* Delete…, or what the list offers instead for a row that is on. *)
remove(targets, bulk) ==
    /\ Spend("act") /\ ask = None
    /\ confirm(CASE Page.onRow = "remove" \/ \A r \in targets : cache[r] = "off"
                      -> Op("remove", targets, "gone", FALSE, bulk)
                 [] Page.onRow = "leave" -> Op("leave", {}, "on", FALSE, FALSE)
                 [] OTHER -> Op("set", targets, "off", FALSE, FALSE))
    /\ UNCHANGED <<screen, dataVars, urlVars, selected, ops, toast, disturbed>>

(* Reset latch…: a dry run first, then the question. *)
resetLatch(r) ==
    /\ Spend("act") /\ ask = None /\ screen = "rules"
    /\ cache[r] = "on"
    /\ Start([Op("reset", {r}, "on", FALSE, FALSE) EXCEPT !.at = "simulate"])
    /\ UNCHANGED <<screen, dataVars, urlVars, selected, ask, toast, disturbed>>

Drop(i) == ops' = RemoveAt(ops, i)

Simulated(i) ==
    /\ ops[i].at = "simulate"
    /\ confirm([ops[i] EXCEPT !.at = "send"])
    /\ Drop(i)
    /\ UNCHANGED <<screen, dataVars, urlVars, selected, toast, seen, disturbed, budget>>

Answer(ok) ==
    /\ ask # None
    /\ IF ok /\ ask.runs.kind # "leave" THEN Start(ask.runs) ELSE UNCHANGED ops
    /\ ask' = None
    /\ UNCHANGED <<screen, dataVars, urlVars, selected, toast, seen, disturbed, budget>>

(* One request.  A row that is gone answers 404 and ends the action, as    *)
(* does a template or zone in use, or a key that works.                      *)
Refused(o, r) ==
    rows[r] = "gone" \/ (Page.onRow # "remove" /\ o.kind = "remove" /\ rows[r] = "on")

Request(i) ==
    LET o == ops[i]
        r == Min(o.todo)
    IN  /\ o.at = "send" /\ o.todo # {}
        /\ ~Refused(o, r)
        /\ rows' = [rows EXCEPT ![r] = o.to]
        /\ ops' = [ops EXCEPT ![i].todo = @ \ {r}]
        /\ UNCHANGED <<screen, cache, fetch, urlVars, selected, ask, toast, seen,
                       disturbed, budget>>

(* The catch: a failed delete reads the list again, a failed change does   *)
(* not; both leave what was already done.                                   *)
RequestFails(i) ==
    LET o == ops[i]
    IN  /\ o.at = "send" /\ o.todo # {}
        /\ IF Refused(o, Min(o.todo)) THEN UNCHANGED budget ELSE Spend("mishap")
        /\ disturbed' = TRUE
        /\ IF o.kind = "remove" /\ Page.rereads
           THEN /\ ops' = [ops EXCEPT ![i].at = "reread"]
                /\ fetch' = "asked"
                /\ UNCHANGED selected
           ELSE /\ Drop(i)
                /\ selected' = IF o.bulk THEN {} ELSE selected
                /\ UNCHANGED fetch
        /\ UNCHANGED <<screen, rows, cache, urlVars, ask, toast, seen>>

(* Every request answered: the list is read again; a peek that offered the *)
(* delete closes first, with the URL it was rendered with.                  *)
Requested(i) ==
    LET o == ops[i]
    IN  /\ o.at = "send" /\ o.todo = {}
        /\ ops' = [ops EXCEPT ![i].at = "reread"]
        /\ fetch' = "asked"
        /\ IF o.kind = "remove" /\ ~o.bulk /\ o.url.peek # 0
           THEN Replace([o.url EXCEPT !.peek = 0])
           ELSE UNCHANGED <<nav, clash>>
        /\ UNCHANGED <<screen, rows, cache, params, text, sent, typed, selected, ask,
                       toast, seen, disturbed, budget>>

(* The reread is over: the toast with its Undo; a bulk action unticks. *)
Finish(i) ==
    LET o == ops[i]
    IN  /\ o.at = "reread" /\ fetch = "idle"
        /\ Drop(i)
        /\ toast' = IF o.undo THEN [at |-> "offer", all |-> o.all, to |-> o.to, was |-> o.was]
                    ELSE toast
        /\ selected' = IF o.bulk /\ o.todo = {} THEN {} ELSE selected
        /\ UNCHANGED <<screen, dataVars, urlVars, ask, seen, disturbed, budget>>

-----------------------------------------------------------------------------
(* SWR and the rest of the world *)

Revalidate ==
    /\ fetch = "idle" /\ cache # rows
    /\ fetch' = "asked"
    /\ UNCHANGED <<screen, rows, cache, urlVars, actVars, disturbed, budget>>

Fetched ==
    /\ fetch = "asked"
    /\ fetch' = "idle" /\ cache' = rows
    /\ UNCHANGED <<screen, rows, urlVars, actVars, disturbed, budget>>

SomeoneElse(r, s) ==
    /\ Spend("other")
    /\ rows[r] \notin {"gone", s}
    /\ rows' = [rows EXCEPT ![r] = s]
    /\ disturbed' = TRUE
    /\ UNCHANGED <<screen, cache, fetch, urlVars, actVars>>

-----------------------------------------------------------------------------
ListInit ==
    /\ rows = [r \in Rows |-> IF r = Max(Rows) THEN "off" ELSE "on"]
    /\ cache = rows /\ fetch = "idle"
    /\ params = Home /\ nav = NoUrl
    /\ text = "" /\ sent = "" /\ typed = ""
    /\ selected = {} /\ ask = None /\ ops = << >> /\ toast = None /\ seen = {}
    /\ clash = FALSE /\ disturbed = FALSE
    /\ \E q \in Questions : screen = q[1] /\ budget = q[2]

(* What a row's menu or the peek's acts on, and what the bar does. *)
RowAct ==
    \E r \in shown \cup ({params.peek} \cap alive) :
        /\ params.peek \in {0, r}
        /\ Picked({r})
        /\ \/ setEnabled({r}, IF cache[r] = "on" THEN "off" ELSE "on", FALSE)
           \/ remove({r}, FALSE)
           \/ resetLatch(r)

BulkAct ==
    /\ selectedRows # {} /\ params.peek = 0
    /\ UNCHANGED seen
    /\ \/ \E to \in {"on", "off"} : setEnabled(selectedRows, to, TRUE)
       \/ remove(selectedRows, TRUE)

ListNext ==
    \/ NavLands \/ setQuery \/ clearAll \/ toggleSort \/ toggleAll
    \/ \E t \in Texts : Typing(t)
    \/ \E v \in {"all", "on", "off"} : setFilter(v)
    \/ \E p \in 1..3 : setPage(p)
    \/ \E r \in {0} \cup Rows : setPeek(r)
    \/ \E r \in Rows : toggleOne(r)
    \/ RowAct \/ BulkAct \/ Undo \/ ToastGoes
    \/ \E ok \in BOOLEAN : Answer(ok)
    \/ \E i \in 1..Len(ops) : Simulated(i) \/ Request(i) \/ RequestFails(i) \/ Requested(i) \/ Finish(i)
    \/ Revalidate \/ Fetched
    \/ \E r \in Rows : \E s \in {"on", "off", "gone"} : SomeoneElse(r, s)

(* Requests are answered, replaces land, timers fire. *)
OpSettles ==
    \E i \in 1..Len(ops) : Simulated(i) \/ Request(i) \/ RequestFails(i) \/ Requested(i) \/ Finish(i)
PageSettles == NavLands \/ setQuery \/ Fetched
ListFairness == WF_listVars(OpSettles) /\ WF_listVars(PageSettles)

ListSpec == ListInit /\ [][ListNext]_listVars /\ ListFairness

-----------------------------------------------------------------------------
(* Properties *)

(* The shape of the state. *)
ListTypeOK ==
    /\ {rows, cache} \subseteq [Rows -> {"on", "off", "gone"}]
    /\ fetch \in {"idle", "asked"}
    /\ params \in Url /\ nav \in Url \cup {NoUrl}
    /\ {text, sent, typed} \subseteq Texts
    /\ UNION {selected, seen} \subseteq Rows
    /\ ask = None \/ ask.at = "ask"
    /\ \A i \in DOMAIN ops : ops[i].at \in {"simulate", "send", "reread"}

(* When nothing is pending the box shows what the user made the search,    *)
(* and the list is the one for it: neither the echo of the box's own       *)
(* debounced write nor a filter, a page or a peek loses a keystroke.        *)
(* (Two changes of the URL in one navigation do clash, as the comment at    *)
(* setFilters says.)                                                        *)
SearchAgrees ==
    (nav = NoUrl /\ text = sent /\ ~clash) => text = typed /\ params.q = typed

(* Undo puts back what the action changed, whatever was ticked, filtered   *)
(* or peeked in between, when nothing failed and nobody else acted and the *)
(* rows were all in the other state.                                        *)
UndoRestoresStep ==
    \A i \in DOMAIN ops :
      (Finish(i) /\ ops[i].kind = "undo" /\ ~disturbed /\ ops[i].alone
         /\ \A r \in DOMAIN ops[i].was : ops[i].was[r] = ops[i].to)
      => \A r \in DOMAIN ops[i].was : rows[r] = ops[i].was[r]

(* A row that was never on the page when it was ticked or picked is never  *)
(* acted on: select-all ticks the shown page only.                          *)
OnlyPickedRows == \A i \in DOMAIN ops : ops[i].all \subseteq seen

(* A confirmation's answer goes to the question on screen, also when a     *)
(* latch's dry run put its question over another one.                       *)
AnswersTheQuestionShown == ask # None => ask.runs.kind = ask.shows

(* After the actions, the table shows the rows as they are (unless a       *)
(* request failed half way or someone else changed them).                  *)
ShowsWhatIs == (ops = << >> /\ fetch = "idle" /\ ~disturbed) => cache = rows

(* What must end: an action's requests. *)
ListWaits == ops # << >>
=============================================================================
