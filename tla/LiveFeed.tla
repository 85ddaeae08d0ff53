------------------------------ MODULE LiveFeed ------------------------------
(***************************************************************************)
(* The live-updates connection both apps use (packages/shared realtime.ts) *)
(* and what feeds it: a reading is ingested, written to the database by a  *)
(* later batch flush, and published at once to the sockets of its          *)
(* workspace, whose relay coalesces a tick's events into one frame.        *)
(*                                                                         *)
(* connectRealtime's close() only sets a flag and closes the socket it     *)
(* has: a token request or a reconnect timer under way goes on, and finds  *)
(* the flag when it ends.  A connection is one call of connectRealtime.    *)
(***************************************************************************)
EXTENDS Naturals, Sequences, FiniteSets

CONSTANTS
    MaxTime,        \* readings carry the times 1..MaxTime
    MetricOf,       \* the metric of each reading
    LiveBudgets     \* how often each kind of event may happen: a set of functions

LiveKinds == {"reading", "late", "health", "drop", "expire", "remove", "hide", "switch", "pick"}
Times     == 1..MaxTime
Offline   == MaxTime + 1    \* the device_health event of a device going offline
Metrics   == {MetricOf[t] : t \in Times}
NoReading == 0

ASSUME LiveBounds ==
    /\ MaxTime \in Nat /\ DOMAIN MetricOf = Times
    /\ LiveBudgets \subseteq [LiveKinds -> Nat]

VARIABLES
    ingested,   \* the readings the worker ingested
    late,       \* those among them that came after a newer one
    db,         \* those the batch flush has written
    online,     \* the device's state, as its status topic and readings say
    access,     \* the session's access token: "good" or "expired"
    member,     \* the user is a member of the workspace
    conns,      \* the connections, the last one current
    status,     \* the connection status the app shows
    left        \* what remains of the chosen budget

world == <<ingested, late, db, online, access, member>>
feed  == <<world, conns, status, left>>

\* phase: awaiting a token, dialing, open, waiting for the reconnect timer, or
\* ended for good.  relay: events published since the last frame.
Connecting(reason) ==
  [closed |-> FALSE, phase |-> "token", reason |-> reason, carried |-> "none", relay |-> <<>>]

LiveEvent(kind) == left[kind] > 0 /\ left' = [left EXCEPT ![kind] = @ - 1]
Current == Len(conns)
MaxOf(S) == CHOOSE x \in S : \A y \in S : y <= x
Newest(metric, S) == MaxOf({NoReading} \cup {t \in S : MetricOf[t] = metric})

FeedInit ==
    /\ ingested = {} /\ late = {} /\ db = {} /\ online = TRUE /\ access = "good" /\ member = TRUE
    /\ conns = <<Connecting("initial")>> /\ status = "connecting"
    /\ left \in LiveBudgets
-----------------------------------------------------------------------------
(* Ingestion, the database and the relay                                   *)

\* record_telemetry_direct: to the stream, and published to the open sockets.
\* A reading may come late, after a newer one.
Publish(event) ==
  conns' = [c \in DOMAIN conns |->
             IF conns[c].phase = "open" THEN [conns[c] EXCEPT !.relay = Append(@, event)]
             ELSE conns[c]]

Ingest(t) ==
  /\ t \notin ingested
  /\ LiveEvent(IF \E u \in Times : u < t /\ u \notin ingested THEN "late" ELSE "reading")
  /\ ingested' = ingested \cup {t} /\ online' = TRUE
  /\ late' = IF \E u \in ingested : u > t THEN late \cup {t} ELSE late
  /\ Publish(t)
  /\ UNCHANGED <<db, access, member, status>>

\* The broker publishes the device's last will: it is offline.
GoesOffline ==
  /\ online /\ LiveEvent("health") /\ online' = FALSE /\ Publish(Offline)
  /\ UNCHANGED <<ingested, late, db, access, member, status>>

FlushDb ==
  /\ db # ingested /\ db' = ingested
  /\ UNCHANGED <<ingested, late, online, access, member, conns, status, left>>

\* The access token expires; any HTTP call's 401 has it refreshed.
TokenExpires ==
  /\ access = "good" /\ LiveEvent("expire") /\ access' = "expired"
  /\ UNCHANGED <<ingested, late, db, online, member, conns, status>>
TokenRefreshed ==
  /\ access = "expired" /\ access' = "good"
  /\ UNCHANGED <<ingested, late, db, online, member, conns, status, left>>

Removed ==
  /\ member /\ LiveEvent("remove") /\ member' = FALSE
  /\ UNCHANGED <<ingested, late, db, online, access, conns, status>>
-----------------------------------------------------------------------------
(* connectRealtime                                                         *)

\* connect's continuation, after getToken: a closed connection stops here.
\* Only a rejected token is rotated; another reason reuses the one in memory.
\* No token (the refresh failed) ends the connection.
GotToken(c) ==
  /\ conns[c].phase = "token"
  /\ \/ /\ conns[c].closed
        /\ conns' = [conns EXCEPT ![c].phase = "ended"] /\ UNCHANGED <<world, status>>
     \/ /\ ~conns[c].closed /\ conns[c].reason # "auth-rejected"
        /\ conns' = [conns EXCEPT ![c].phase = "dialing", ![c].carried = access]
        /\ UNCHANGED <<world, status>>
     \/ /\ ~conns[c].closed /\ conns[c].reason = "auth-rejected"
        /\ access' = "good"
        /\ conns' = [conns EXCEPT ![c].phase = "dialing", ![c].carried = "good"]
        /\ UNCHANGED <<ingested, late, db, online, member, status>>
  /\ UNCHANGED left

\* The refresh asked for fails, or the session is gone.
NoTokenLeft(c) ==
  /\ conns[c].phase = "token" /\ conns[c].reason = "auth-rejected" /\ ~conns[c].closed
  /\ LiveEvent("drop")
  /\ conns' = [conns EXCEPT ![c].phase = "ended"] /\ status' = "closed"
  /\ UNCHANGED world

\* The handshake succeeds: realtime_ws accepts the token and the membership.
Opened(c) ==
  /\ conns[c].phase = "dialing" /\ ~conns[c].closed
  /\ conns[c].carried = "good" /\ member
  /\ conns' = [conns EXCEPT ![c].phase = "open"] /\ status' = "open"
  /\ UNCHANGED <<world, left>>

\* Mutant of onclose: only a rejected token schedules a reconnect.
onclose_NoTimer(c, code) ==
  /\ conns' = [conns EXCEPT ![c] =
                 [@ EXCEPT !.phase = IF code = 4401 THEN "waiting" ELSE "ended", !.relay = <<>>,
                           !.reason = "auth-rejected"]]
  /\ status' = "reconnecting"

\* onclose of a connection that is not closed: 4403 is final, 4401 asks for a
\* new token at once, anything else reconnects after the backoff.
onclose(c, code) ==
  IF code = 4403
  THEN /\ conns' = [conns EXCEPT ![c].phase = "ended", ![c].relay = <<>>] /\ status' = "closed"
  ELSE /\ conns' = [conns EXCEPT ![c] =
                     [@ EXCEPT !.phase = "waiting", !.relay = <<>>,
                               !.reason = IF code = 4401 THEN "auth-rejected" ELSE "reconnect"]]
       /\ status' = "reconnecting"

\* The server refuses the handshake.  A close before the accept may reach the
\* client as its code or as an abnormal closure.
Refused(c) ==
  /\ conns[c].phase = "dialing" /\ ~conns[c].closed
  /\ \/ conns[c].carried = "expired" /\ \E code \in {4401, 1006} : onclose(c, code)
     \/ conns[c].carried = "good" /\ ~member /\ \E code \in {4403, 1006} : onclose(c, code)
  /\ UNCHANGED <<world, left>>

\* The network drops the socket.
Dropped(c) ==
  /\ conns[c].phase \in {"dialing", "open"} /\ ~conns[c].closed /\ LiveEvent("drop")
  /\ onclose(c, 1006) /\ UNCHANGED world

\* The reconnect timer, which close() does not cancel.
Reconnect(c) ==
  /\ conns[c].phase = "waiting"
  /\ \/ conns[c].closed /\ conns' = [conns EXCEPT ![c].phase = "ended"] /\ UNCHANGED status
     \/ /\ ~conns[c].closed /\ conns' = [conns EXCEPT ![c].phase = "token"]
        /\ status' = "reconnecting"
  /\ UNCHANGED <<world, left>>

\* close(): the flag, and the socket if there is one.
Closed(conn) ==
  [conn EXCEPT !.closed = TRUE,
               !.phase = IF @ \in {"dialing", "open"} THEN "ended" ELSE @, !.relay = <<>>]

\* The relay's tick: what it collected goes out as one frame, in order.
Frame(c) == conns[c].phase = "open" /\ conns[c].relay # <<>>
Sent(c)  == conns' = [conns EXCEPT ![c].relay = <<>>]

Unattended ==
  \/ \E t \in Times : Ingest(t)
  \/ GoesOffline \/ FlushDb \/ TokenExpires \/ TokenRefreshed \/ Removed

ConnectionStep(c) ==
  GotToken(c) \/ NoTokenLeft(c) \/ Opened(c) \/ Refused(c) \/ Dropped(c) \/ Reconnect(c)
-----------------------------------------------------------------------------
\* One socket per page: whatever was in flight when the workspace was switched
\* or the app went to the background, only the current connection ever has a
\* socket (connect checks `closed` again after awaiting the token).
OneSocket ==
  \A c \in DOMAIN conns : conns[c].phase \in {"dialing", "open"} => c = Current /\ ~conns[c].closed

\* A member's connection does not stay down: a page that shows it is connecting
\* or reconnecting gets its socket or is told it is closed, whatever tokens
\* expire and however a refused handshake reaches the client.
Reopens == status \in {"connecting", "reconnecting"} ~> status \in {"open", "closed"} \/ ~member
=============================================================================
