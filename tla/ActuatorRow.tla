----------------------------- MODULE ActuatorRow -----------------------------
(***************************************************************************)
(* One row of ActuatorControl: what was requested, what became of it, and    *)
(* the control that sends a new value.  The device's commands are a SWR key,  *)
(* revalidated after a send (polling briefly until the worker wrote the row),  *)
(* by the command_ack event and by an interval.                               *)
(***************************************************************************)
EXTENDS Commands

CONSTANTS
    MaxPolls,       \* the tries of send()'s polling loop (15)
    RowQuestions    \* what happens, and how often

VARIABLES
    row,        \* ActuatorRow: send()'s progress and what it sends
    list,       \* the commands SWR has, newest first, and the acked ones among them
    fetch,      \* SWR's revalidation under way
    shown,      \* the status of the last render
    timeline,   \* CommandHistory: the runs it memoises
    expired,    \* commands whose TTL has passed: 1..expired
    rowBudget

uiVars == <<row, list, fetch, shown, timeline>>
rowVars == <<cmdVars, uiVars, expired, rowBudget>>

RowKinds == {"click", "other", "rule", "fail", "drop", "lost", "miss"}
Spend(k) == rowBudget[k] > 0 /\ rowBudget' = [rowBudget EXCEPT ![k] = @ - 1]

Resting == [at |-> "idle", want |-> Unset, polls |-> 0, since |-> 0, waits |-> FALSE]
NoFetch == [at |-> "none", read |-> << >>, acked |-> {}]

-----------------------------------------------------------------------------

\* Mutant: oldest first.
list_commands_Oldest == SelectSeq(published, LAMBDA c : c \in rows)

(* Newest first, by published_at. *)
list_commands == Reverse(SelectSeq(published, LAMBDA c : c \in rows))

(* The first command of the list, to this actuator. *)
latest(l) == IF l.read = << >> THEN 0 ELSE l.read[1]

(* command-status.ts: derived, never stored. *)
statusOf(l, c) ==
    CASE c \in l.acked -> "confirmed"
      [] OTHER -> IF c \in 1..expired' THEN "no-response" ELSE "pending"

\* Mutant: the deadline is looked at before acked_at.
commandStatus_DeadlineFirst(l) ==
    CASE latest(l) = 0 -> "none"
      [] latest(l) \in 1..expired' -> "no-response"
      [] OTHER -> statusOf(l, latest(l))

commandStatus(l) == IF latest(l) = 0 THEN "none" ELSE statusOf(l, latest(l))

(* Same sender, same result: one line with xN. *)
SameRun(l, c, d) ==
    cmds[c].rule = cmds[d].rule /\ statusOf(l, c) = statusOf(l, d)

runs(l) ==
    FoldLeft(LAMBDA out, c :
               IF out # << >> /\ SameRun(l, Last(out).items[1], c)
               THEN [out EXCEPT ![Len(out)].items = Append(@, c)]
               ELSE Append(out, [items |-> <<c>>, status |-> statusOf(l, c)]),
             << >>, l.read)

(* useMemo: only when the rows are new, which SWR's comparison decides. *)
Memoised == timeline' = IF list' = list THEN timeline ELSE runs(list')

(* What the row says is requested: what is being sent, else the latest. *)
requested == IF row.at = "poll" THEN row.want ELSE IF latest(list) = 0 THEN Unset ELSE Value(latest(list))

Render == shown' = commandStatus(list')
Fixed == UNCHANGED cmdVars

(* SWR: a revalidation replaces the one under way, whose answer is dropped; *)
(* whoever awaited it goes on with what SWR has.                             *)
Revalidate == fetch' = [NoFetch EXCEPT !.at = "asked"]
Released(r) == [r EXCEPT !.waits = FALSE]

-----------------------------------------------------------------------------
(* The switch, the choices, or a value and Set: not the value already        *)
(* requested.  Retry, after No response, sends it again.  Both ask first.      *)
Click(v) ==
    /\ row.at = "idle" /\ v # requested /\ Spend("click")
    /\ row' = [Resting EXCEPT !.at = "asking", !.want = v]
    /\ Fixed /\ UNCHANGED <<list, timeline, fetch, expired>> /\ Render

Retry ==
    /\ row.at = "idle" /\ shown = "no-response" /\ Spend("click")
    /\ row' = [Resting EXCEPT !.at = "asking", !.want = Value(latest(list))]
    /\ Fixed /\ UNCHANGED <<list, timeline, fetch, expired>> /\ Render

Answer(yes) ==
    /\ row.at = "asking"
    /\ row' = IF yes THEN [row EXCEPT !.at = "post"] ELSE Resting
    /\ Fixed /\ UNCHANGED <<list, timeline, fetch, expired, rowBudget>> /\ Render

(* 202: asked of the worker.  "Sending..." until a command of this actuator   *)
(* shows up that was issued since (2 s of slack), polling.                     *)
Posted ==
    /\ row.at = "post"
    /\ Request(row.want)
    /\ \E since \in {Len(cmds), Len(cmds) - 1} \cap Nat :
         row' = [row EXCEPT !.at = "poll", !.since = since, !.waits = TRUE]
    /\ Revalidate
    /\ UNCHANGED <<listening, work, acks, cmds, dbVars, retained, devVars, logVars, list, timeline, expired, rowBudget>>
    /\ Render

(* The request fails, or its answer is lost. *)
PostFails(ran) ==
    /\ row.at = "post" /\ Spend("lost")
    /\ IF ran THEN Request(row.want) ELSE UNCHANGED requests
    /\ row' = Resting
    /\ UNCHANGED <<listening, work, acks, cmds, dbVars, retained, devVars, logVars, list, timeline, fetch, expired>>
    /\ Render

ServerReads ==
    /\ fetch.at = "asked"
    /\ fetch' = [at |-> "read", read |-> list_commands, acked |-> acked]
    /\ Fixed /\ UNCHANGED <<row, list, timeline, shown, expired, rowBudget>>

FetchEnds ==
    /\ fetch.at = "read"
    /\ list' = [read |-> fetch.read, acked |-> fetch.acked]
    /\ fetch' = NoFetch /\ row' = Released(row)
    /\ Fixed /\ UNCHANGED <<expired, rowBudget>>
    /\ IF list' = list THEN UNCHANGED shown ELSE Render
    /\ Memoised

(* A failed fetch keeps the data. *)
FetchFails ==
    /\ fetch.at # "none" /\ Spend("lost")
    /\ fetch' = NoFetch /\ row' = Released(row)
    /\ Fixed /\ UNCHANGED <<list, timeline, shown, expired>>

Found == \E i \in DOMAIN list.read : list.read[i] > row.since

(* Found, or 15 tries: the row shows the latest again. *)
PollResumes ==
    /\ row.at = "poll" /\ ~row.waits
    /\ IF Found \/ row.polls + 1 = MaxPolls
       THEN row' = Resting /\ UNCHANGED fetch
       ELSE row' = [row EXCEPT !.polls = @ + 1, !.waits = TRUE] /\ Revalidate
    /\ Fixed /\ UNCHANGED <<list, timeline, expired, rowBudget>> /\ Render

(* The interval. *)
Refresh ==
    /\ fetch = NoFetch
    /\ list # [read |-> list_commands, acked |-> acked]
    /\ Revalidate
    /\ Fixed /\ UNCHANGED <<row, list, timeline, shown, expired, rowBudget>>

(* The TTL of the oldest command still running passes.  The clock goes on     *)
(* only while something waits for it.                                          *)
Expires ==
    /\ expired < Len(cmds)
    /\ expired' = expired + 1
    /\ Fixed /\ UNCHANGED <<uiVars, rowBudget>>

\* Mutant: the row is not re-rendered while it waits.
Tick_Never == FALSE /\ UNCHANGED rowVars

(* Every second while a command waits. *)
Tick ==
    /\ shown = "pending" /\ latest(list) \in 1..expired
    /\ Fixed /\ UNCHANGED <<row, list, timeline, fetch, expired, rowBudget>>
    /\ Render

-----------------------------------------------------------------------------
Quiet == UNCHANGED <<uiVars, expired>>

OtherRequests(v) ==
    /\ Spend("other") /\ Request(v)
    /\ UNCHANGED <<listening, work, acks, cmds, dbVars, retained, devVars, logVars>> /\ Quiet

(* The ack's event reaches the page, or the socket is down. *)
AckHandled(heard) ==
    /\ HandleAck
    /\ IF heard
       THEN Revalidate /\ row' = Released(row) /\ UNCHANGED rowBudget
       ELSE Spend("miss") /\ UNCHANGED <<row, fetch>>
    /\ UNCHANGED <<list, timeline, shown, expired>>

Worker == TakeRequest \/ Dispatching \/ Resubscribe

RowInit ==
    /\ CommandsInit
    /\ row = Resting /\ list = [read |-> << >>, acked |-> {}] /\ fetch = NoFetch
    /\ shown = "none" /\ timeline = << >> /\ expired = 0 /\ rowBudget \in RowQuestions

Moving == (Worker \/ Deliver \/ Plug) /\ Quiet /\ UNCHANGED rowBudget
Answering == Posted \/ ServerReads \/ FetchEnds \/ PollResumes

RowNext ==
    \/ \E v \in Values : Click(v) \/ OtherRequests(v)
    \/ \E l \in Loops, v \in Values : Spend("rule") /\ RuleFires(l, v) /\ Quiet
    \/ Retry \/ Answering \/ Refresh \/ Expires \/ Tick \/ FetchFails
    \/ \E b \in BOOLEAN : Answer(b) \/ PostFails(b) \/ AckHandled(b)
    \/ Moving
    \/ Spend("fail") /\ DispatchFails /\ Quiet
    \/ \E r \in BOOLEAN : Spend("drop") /\ Unplug(r) /\ Quiet

(* Requests are answered, time passes and the page's interval runs. *)
RowFairness == WF_rowVars(Answering) /\ WF_rowVars(Expires) /\ WF_rowVars(Tick)

RowSpec == RowInit /\ [][RowNext]_rowVars /\ RowFairness

-----------------------------------------------------------------------------
(* Properties *)

(* The shape of the state. *)
RowTypeOK ==
    /\ row.at \in {"idle", "asking", "post", "poll"} /\ row.polls \in 0..(MaxPolls - 1)
    /\ row.since \in 0..MaxCommands
    /\ shown \in {"none", "pending", "no-response", "confirmed"}
    /\ \A l \in Loops : work[l].at \in {"idle", "cmd", "state", "row"} /\ work[l].id \in 0..MaxCommands
    /\ rows \cup acked \cup applied \cup torn \cup unmatched \subseteq Ids

(* The row and the board agree: with nothing on its way and the list fresh,    *)
(* the value the row says was requested is the desired state, and so what the   *)
(* board will do, unless two loops dispatched at once or a dispatch was cut      *)
(* short.                                                                        *)
RequestedIsDesired ==
    (row.at = "idle" /\ AllIdle /\ torn = {} /\ ~overlapped
       /\ list = [read |-> list_commands, acked |-> acked])
    => requested = retained

(* "It is not terminal": no response may still become acknowledged, but what    *)
(* was shown as acknowledged never turns into anything else, whatever answer      *)
(* comes late.                                                                    *)
AcknowledgedStep ==
    shown = "confirmed" /\ latest(list') = latest(list) => shown' = "confirmed"

(* Why that holds: no answer SWR has, or waits for, knows fewer acknowledged    *)
(* commands than the one on screen, and only the newest one is shown.            *)
AcknowledgedInv ==
    /\ list.acked \subseteq acked
    /\ fetch.at = "read" => list.acked \subseteq fetch.acked /\ fetch.acked \subseteq acked
    /\ shown = "confirmed" => latest(list) # 0 /\ latest(list) \in list.acked

(* The timeline is the list: runs of xN hide no command and join none with     *)
(* another result, and what the list knows to be acknowledged reads so.         *)
TimelineIsTheList ==
    /\ FlattenSeq([i \in DOMAIN timeline |-> timeline[i].items]) = list.read
    /\ \A i \in DOMAIN timeline : \A j \in DOMAIN timeline[i].items :
         (timeline[i].items[j] \in list.acked) <=> (timeline[i].status = "confirmed")

(* CommandHistory.tsx: "`Pending` turns into `No response` at the TTL deadline; *)
(* re-render while any wait".                                                    *)
TimelineSettles == []<>(\A i \in DOMAIN timeline : timeline[i].status # "pending")

(* "Sending..." and "Waiting for the device..." end: with the row, or with No     *)
(* response at the deadline, also when the request or every message was lost.     *)
RowWaits == row.at \in {"post", "poll"} \/ shown = "pending"

(* DESIGN.md: the rows show what was requested: the last command issued is the    *)
(* one the broker keeps, also when a rule and a person act at the same time.       *)
NewestIsDesired ==
    (AllIdle /\ torn = {} /\ published # << >>) => retained = Value(Len(cmds))
=============================================================================
