------------------------------- MODULE Commands -------------------------------
(***************************************************************************)
(* A command from the request to its acknowledgement: the API asks over a    *)
(* Redis channel, the worker's manual_command_loop (or, for a rule that      *)
(* fires, mqtt_ingest_loop) publishes the command and the retained desired   *)
(* state, then writes the audit row; the board acts and acknowledges, and    *)
(* mqtt_ingest_loop marks the row.  Nothing is queued for a loop or a board   *)
(* that is away (Redis pub/sub; an MQTT clean session).                       *)
(***************************************************************************)
EXTENDS Integers, Sequences, SequencesExt, FiniteSets

CONSTANTS
    MaxCommands,    \* bound on the commands issued
    Values,         \* what an actuator can be asked to do
    Refused,        \* the ones its driver does not accept
    Unset           \* no value: the output's safe boot state

ASSUME CommandsAssumption ==
    /\ MaxCommands \in Nat
    /\ Refused \subseteq Values
    /\ Unset \notin Values

VARIABLES
    requests,   \* manual requests delivered to the loop, not yet taken
    listening,  \* manual_command_loop is subscribed
    work,       \* dispatch_command in progress in each loop
    cmds,       \* every command issued, in the order of issued_at
    published,  \* the order of published_at
    rows,       \* commands with an audit row
    acked,      \* rows with acked_at
    retained,   \* the broker's retained desired state
    wire,       \* messages on their way to the board
    plugged,    \* the board is connected to the broker
    pin,        \* what the output does
    applied,    \* commands the board acted on
    acks,       \* acknowledgements on their way to mqtt_ingest_loop
    torn,       \* commands whose dispatch was cut short
    unmatched,  \* commands whose acknowledgement found no row
    overlapped  \* the two loops dispatched at the same time

wkVars == <<requests, listening, work, acks>>
dbVars == <<published, rows, acked>>
devVars == <<wire, plugged, pin, applied>>
logVars == <<torn, unmatched, overlapped>>
cmdVars == <<wkVars, cmds, dbVars, retained, devVars, logVars>>

Loops == {"manual", "ingest"}
Ids == 1..MaxCommands
Idle == [at |-> "idle", id |-> 0]
Value(c) == cmds[c].value
AllIdle == \A l \in Loops : work[l] = Idle

-----------------------------------------------------------------------------
(* The API and the worker *)

(* request_manual_command: a publish; nobody keeps it for a loop that is    *)
(* reconnecting.                                                             *)
Request(v) ==
    requests' = IF listening THEN Append(requests, v) ELSE requests

(* dispatch_command begins in loop l: the id and issued_at are made. *)
Issue(l, v, byRule) ==
    /\ work[l] = Idle /\ Len(cmds) < MaxCommands
    /\ cmds' = Append(cmds, [value |-> v, loop |-> l, rule |-> byRule])
    /\ work' = [work EXCEPT ![l] = [at |-> "cmd", id |-> Len(cmds) + 1]]
    /\ overlapped' = (overlapped \/ ~AllIdle)

TakeRequest ==
    /\ requests # << >>
    /\ Issue("manual", Head(requests), FALSE)
    /\ requests' = Tail(requests)
    /\ UNCHANGED <<listening, acks, dbVars, retained, devVars, torn, unmatched>>

(* A rule fires on a reading (ingest), or is run out of band (manual). *)
RuleFires(l, v) ==
    /\ Issue(l, v, TRUE)
    /\ UNCHANGED <<requests, listening, acks, dbVars, retained, devVars, torn, unmatched>>

Sent(m) == wire' = IF plugged THEN Append(wire, m) ELSE wire

PublishCmd(l) ==
    /\ work[l].at = "cmd"
    /\ Sent([kind |-> "cmd", id |-> work[l].id, value |-> Value(work[l].id)])
    /\ work' = [work EXCEPT ![l].at = "state"]
    /\ UNCHANGED <<requests, listening, acks, cmds, dbVars, retained, plugged, pin, applied, logVars>>

Retain(v) == retained' = v

PublishState(l) ==
    /\ work[l].at = "state"
    /\ Retain(Value(work[l].id))
    /\ Sent([kind |-> "state", id |-> work[l].id, value |-> Value(work[l].id)])
    /\ published' = Append(published, work[l].id)
    /\ work' = [work EXCEPT ![l].at = "row"]
    /\ UNCHANGED <<requests, listening, acks, cmds, rows, acked, plugged, pin, applied, logVars>>

WriteRow(l) ==
    /\ work[l].at = "row"
    /\ rows' = rows \cup {work[l].id}
    /\ work' = [work EXCEPT ![l] = Idle]
    /\ UNCHANGED <<requests, listening, acks, cmds, published, acked, retained, devVars, logVars>>

(* A step of dispatch_command raises, for a rule: _dispatch_actions notes it  *)
(* and goes on.                                                               *)
RuleDispatchFails(l) ==
    /\ work[l] # Idle /\ cmds[work[l].id].rule
    /\ torn' = torn \cup {work[l].id}
    /\ work' = [work EXCEPT ![l] = Idle]
    /\ UNCHANGED <<requests, listening, acks, cmds, dbVars, retained, devVars, unmatched, overlapped>>

(* For a manual request: an MQTT error means the loop reconnects, and what    *)
(* it had buffered is gone.                                                   *)
ManualPublishFails ==
    /\ work["manual"].at \in {"cmd", "state"} /\ ~cmds[work["manual"].id].rule
    /\ torn' = torn \cup {work["manual"].id}
    /\ work' = [work EXCEPT !["manual"] = Idle]
    /\ requests' = << >> /\ listening' = FALSE
    /\ UNCHANGED <<acks, cmds, dbVars, retained, devVars, unmatched, overlapped>>

(* A database error is caught nowhere (manual_command_loop, run): the worker   *)
(* ends, and both loops start over.                                            *)
ManualRowFails ==
    /\ work["manual"].at = "row" /\ ~cmds[work["manual"].id].rule
    /\ torn' = torn \cup ({work[l].id : l \in Loops} \ {0})
    /\ work' = [l \in Loops |-> Idle]
    /\ requests' = << >> /\ listening' = FALSE /\ acks' = << >>
    /\ UNCHANGED <<cmds, dbVars, retained, devVars, unmatched, overlapped>>

DispatchFails == (\E l \in Loops : RuleDispatchFails(l)) \/ ManualPublishFails \/ ManualRowFails

(* RECONNECT_SECONDS later. *)
Resubscribe ==
    /\ ~listening
    /\ listening' = TRUE
    /\ UNCHANGED <<requests, work, acks, cmds, dbVars, retained, devVars, logVars>>

\* Mutant: the device's newest command is marked, whatever the ack names.
record_ack_Newest(c) ==
    acked' = IF rows = {} THEN acked ELSE acked \cup {CHOOSE i \in rows : \A j \in rows : j <= i}

(* UPDATE ... WHERE id = command_id: no row, nothing to mark. *)
record_ack(c) == acked' = IF c \in rows THEN acked \cup {c} ELSE acked

Noted(c) == unmatched' = IF c \in rows THEN unmatched ELSE unmatched \cup {c}

(* _handle_ack: the ingest loop handles one message at a time. *)
HandleAck ==
    /\ acks # << >> /\ work["ingest"] = Idle
    /\ record_ack(Head(acks)) /\ Noted(Head(acks))
    /\ acks' = Tail(acks)
    /\ UNCHANGED <<requests, listening, work, cmds, published, rows, retained, devVars, torn, overlapped>>

-----------------------------------------------------------------------------
(* The board *)

(* handleCommand: apply, then acknowledge; the ack may fail to go out. *)
handleCommand(m) ==
    IF m.value \in Refused
    THEN UNCHANGED <<pin, applied, acks>>
    ELSE /\ pin' = m.value
         /\ applied' = applied \cup {m.id}
         /\ acks' \in {acks, Append(acks, m.id)}

\* Mutant: the desired state counts as the command, taken or not.
handleState_Counts(m) ==
    /\ pin' = IF m.value \in Refused THEN pin ELSE m.value
    /\ applied' = applied \cup ({m.id} \ {0})
    /\ UNCHANGED acks

handleState(m) ==
    /\ pin' = IF m.value \in Refused THEN pin ELSE m.value
    /\ UNCHANGED <<applied, acks>>

Deliver ==
    /\ plugged /\ wire # << >>
    /\ wire' = Tail(wire)
    /\ IF Head(wire).kind = "cmd" THEN handleCommand(Head(wire)) ELSE handleState(Head(wire))
    /\ UNCHANGED <<requests, listening, work, cmds, dbVars, retained, plugged, logVars>>

(* The connection drops, or the board restarts: what was on its way is lost. *)
Unplug(restart) ==
    /\ plugged
    /\ plugged' = FALSE /\ wire' = << >>
    /\ pin' = IF restart THEN Unset ELSE pin
    /\ UNCHANGED <<wkVars, cmds, dbVars, retained, applied, logVars>>

(* tryConnectMqtt, ioSubscribe: the broker sends the retained state. *)
Plug ==
    /\ ~plugged
    /\ plugged' = TRUE
    /\ wire' = IF retained = Unset THEN << >> ELSE <<[kind |-> "state", id |-> 0, value |-> retained]>>
    /\ UNCHANGED <<wkVars, cmds, dbVars, retained, pin, applied, logVars>>

-----------------------------------------------------------------------------
CommandsInit ==
    /\ requests = << >> /\ listening = TRUE /\ work = [l \in Loops |-> Idle] /\ acks = << >>
    /\ cmds = << >> /\ published = << >> /\ rows = {} /\ acked = {}
    /\ retained = Unset /\ wire = << >> /\ plugged = TRUE /\ pin = Unset /\ applied = {}
    /\ torn = {} /\ unmatched = {} /\ overlapped = FALSE

Dispatching == \E l \in Loops : PublishCmd(l) \/ PublishState(l) \/ WriteRow(l)

CommandsNext ==
    \/ \E l \in Loops, v \in Values : RuleFires(l, v)
    \/ \E v \in Values : Request(v) /\ UNCHANGED <<listening, work, acks, cmds, dbVars, retained, devVars, logVars>>
    \/ TakeRequest \/ Dispatching \/ HandleAck \/ Deliver \/ Plug \/ Resubscribe
    \/ DispatchFails
    \/ \E r \in BOOLEAN : Unplug(r)

CommandsSpec == CommandsInit /\ [][CommandsNext]_cmdVars

-----------------------------------------------------------------------------
(* Properties *)

(* A row says "acknowledged" only for a command the board acted on, with the *)
(* loops, failures and reconnects in any order.                               *)
ConfirmedWasApplied == acked \subseteq applied \cap rows

(* dispatch_command: "a device that reconnects converges to the intended     *)
(* state without the platform tracking who missed what".  With nothing on     *)
(* its way, the output is the retained state, through drops and restarts,      *)
(* unless a dispatch was cut short between its two publishes.                  *)
Converges ==
    (plugged /\ wire = << >> /\ AllIdle /\ torn = {} /\ retained \notin Refused) => pin = retained

(* A rule's command is published and recorded by the loop that handles         *)
(* acknowledgements, so its acknowledgement always finds its row.              *)
RuleAcksFindTheirRow == \A c \in unmatched \ torn : cmds[c].loop = "manual"

(* command-status.ts: "a late ack still sets `acked_at` on the row".            *)
AcksFindTheirRow == unmatched \subseteq torn

(* The whole path keeps its word about rows, outputs and acknowledgements,     *)
(* whatever the loops, the board and the connections do.                        *)
CommandsSafe == ConfirmedWasApplied /\ Converges /\ RuleAcksFindTheirRow

(* The lives of the commands, as CommandLife tells them. *)
lifeOf ==
    [c \in Ids |-> CASE c > Len(cmds) -> "none"
                     [] c \in acked -> "confirmed"
                     [] c \in applied \ acked -> "acted"
                     [] OTHER -> "issued"]
valueOf == [c \in Ids |-> IF c > Len(cmds) THEN Unset ELSE cmds[c].value]

Life == INSTANCE CommandLife WITH life <- lifeOf, value <- valueOf, output <- pin

(* The whole path implements CommandLife: issued once, acted on at most once,  *)
(* confirmed only after that, and no output nobody asked for.                   *)
Implements == Life!LifeSpec

-----------------------------------------------------------------------------
(* The inductive invariant *)

Issued == 1..Len(cmds)
Message == [kind : {"cmd", "state"}, id : 0..MaxCommands, value : Values]

TypeOK ==
    /\ requests \in Seq(Values) /\ listening \in BOOLEAN
    /\ work \in [Loops -> [at : {"idle", "cmd", "state", "row"}, id : 0..MaxCommands]]
    /\ cmds \in Seq([value : Values, loop : Loops, rule : BOOLEAN]) /\ Len(cmds) <= MaxCommands
    /\ published \in Seq(Issued) /\ rows \subseteq Issued /\ acked \subseteq Issued
    /\ retained \in Values \cup {Unset} /\ wire \in Seq(Message) /\ plugged \in BOOLEAN
    /\ pin \in Values \cup {Unset} /\ applied \subseteq Issued /\ acks \in Seq(Issued)
    /\ torn \subseteq Issued /\ unmatched \subseteq Issued /\ overlapped \in BOOLEAN

(* Each loop works on a command of its own, which it issued.                    *)
WorkIsOwn ==
    /\ \A l \in Loops : work[l].at = "idle" => work[l] = Idle
    /\ \A l \in Loops : work[l] # Idle => work[l].id \in Issued /\ cmds[work[l].id].loop = l

(* A command has its row, was cut short, or is being dispatched.                *)
EveryCommandAccounted ==
    \A c \in Issued : c \in rows \cup torn \/ \E l \in Loops : work[l] # Idle /\ work[l].id = c

(* Whatever reaches or drives the output was asked for.                         *)
Asked(v) == v = Unset \/ \E c \in Issued : cmds[c].value = v
NothingUnasked ==
    /\ Asked(retained) /\ Asked(pin)
    /\ \A i \in DOMAIN wire :
         /\ Asked(wire[i].value)
         /\ wire[i].kind = "cmd" => wire[i].id \in Issued /\ wire[i].value = cmds[wire[i].id].value

(* A command that may still reach the board has not been acted on, and is on    *)
(* its way once.                                                                *)
OnItsWayOnce ==
    /\ \A i \in DOMAIN wire : wire[i].kind = "cmd" => wire[i].id \notin applied
    /\ \A i, j \in DOMAIN wire :
         wire[i].kind = "cmd" /\ wire[j].kind = "cmd" /\ wire[i].id = wire[j].id => i = j
    /\ \A l \in Loops : work[l].at = "cmd" =>
         /\ work[l].id \notin applied
         /\ \A i \in DOMAIN wire : wire[i].kind = "cmd" => wire[i].id # work[l].id

(* Between two publishes of one command the wire ends with that command; else,  *)
(* unless a dispatch was cut short, with the retained state, or the output has  *)
(* it.  What was never retained was never sent.                                  *)
WireEndsDesired ==
    /\ ~plugged => wire = << >>
    /\ torn = {} /\ (\A l \in Loops : work[l].at # "state") =>
         /\ wire # << >> => wire[Len(wire)].value = retained
         /\ plugged /\ wire = << >> /\ retained \notin Refused => pin = retained
         /\ retained = Unset => pin = Unset

CommandsInv ==
    /\ TypeOK /\ WorkIsOwn /\ EveryCommandAccounted /\ NothingUnasked /\ OnItsWayOnce
    /\ WireEndsDesired
    /\ ConfirmedWasApplied /\ RuleAcksFindTheirRow
    /\ \A i \in DOMAIN acks : acks[i] \in applied
=============================================================================
