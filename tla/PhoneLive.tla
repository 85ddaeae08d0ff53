----------------------------- MODULE PhoneLive -----------------------------
(***************************************************************************)
(* Live readings in the phone app: mobile realtime/RealtimeProvider.tsx    *)
(* and chart/DeviceTrend.tsx.  As on the web, with three differences: the  *)
(* connection is closed in the background instead of dropping frames; a    *)
(* reconnect does not catch up by itself, coming back to the foreground    *)
(* does (SWR's focus); and a chart keeps live points apart from the        *)
(* fetched ones, those newer than the last fetched point drawn after them. *)
(***************************************************************************)
EXTENDS LiveFeed, SequencesExt

VARIABLE phone

vars == <<feed, phone>>

\* pending: readings since the last flush.  latest, device: the cached keys, read
\* or not yet.  DeviceTrend draws metric `id`: of history, the cached series of the
\* metrics loaded so far, that of `of` (keepPreviousData), and the live points,
\* tagged with the metric they belong to.
Idle == [phase |-> "idle", dead |-> FALSE, snap |-> {}, up |-> TRUE]

PhoneInit ==
  phone \in [active : {TRUE}, pending : {<<>>}, cached : {FALSE},
             latest : {[m \in Metrics |-> NoReading]}, device : {"unknown"},
             id : Metrics, of : Metrics, loaded : {{}}, history : {[m \in Metrics |-> <<>>]},
             live : {<<>>}, liveOf : Metrics, seen : {{}},
             fetch : {[Idle EXCEPT !.phase = "asked"]}]

Init == FeedInit /\ PhoneInit /\ phone.of = phone.id /\ phone.liveOf = phone.id

OfTrend(S) == {t \in S : MetricOf[t] = phone.id}
fetched == phone.history[phone.of]
live    == IF phone.liveOf = phone.id THEN phone.live ELSE <<>>

\* Every key on screen is fetched again: refreshInterval, or the app came back.
Revalidate ==
  /\ phone.fetch.phase = "idle" /\ phone.active
  /\ phone' = [phone EXCEPT !.fetch = [Idle EXCEPT !.phase = "asked"]] /\ UNCHANGED feed

FetchRead ==
  /\ phone.fetch.phase = "asked"
  /\ phone' = [phone EXCEPT !.fetch.phase = "read", !.fetch.snap = db, !.fetch.up = online]
  /\ UNCHANGED feed

\* A discarded answer is dropped for the patched keys; the trend's key is never
\* patched, so its series is always taken.
FetchDone ==
  LET f == phone.fetch IN
  /\ f.phase = "read"
  /\ phone' = [phone EXCEPT
       !.fetch   = Idle, !.cached = TRUE,
       !.latest  = IF f.dead THEN @ ELSE [m \in Metrics |-> Newest(m, f.snap)],
       !.device  = IF f.dead THEN @ ELSE IF f.up THEN "online" ELSE "offline",
       !.history[phone.id] = SetToSortSeq(OfTrend(f.snap), LAMBDA a, b : a < b),
       !.loaded  = @ \cup {phone.id}, !.of = phone.id]
  /\ UNCHANGED feed

\* onMessage: readings wait for the flush, a device's state is patched at once.
onMessage(c) ==
  LET events   == conns[c].relay
      Readings == SelectSeq(events, LAMBDA e : e # Offline)
      down     == Offline \in Range(events) /\ phone.cached
  IN
  /\ Frame(c) /\ Sent(c)
  /\ phone' = [phone EXCEPT
       !.pending = @ \o Readings,
       !.seen    = @ \cup {t \in OfTrend(Range(Readings)) : t \notin late},
       !.device  = IF down THEN "offline" ELSE @,
       !.fetch.dead = @ \/ (down /\ phone.fetch.phase # "idle")]
  /\ UNCHANGED <<world, status, left>>

\* The flush interval: the trend's listener gets the points of its metric, the
\* newest per metric is merged into the cached readings, and the device is
\* marked online.
flush ==
  LET newest == [m \in Metrics |-> Newest(m, Range(phone.pending))]
      points == SelectSeq(phone.pending, LAMBDA t : MetricOf[t] = phone.id)
  IN
  /\ phone.active /\ phone.pending # <<>>
  /\ phone' = [phone EXCEPT
       !.pending = <<>>,
       !.live    = IF points = <<>> THEN @ ELSE live \o points,
       !.liveOf  = IF points = <<>> THEN @ ELSE phone.id,
       !.latest  = [m \in Metrics |->
                      IF phone.cached /\ newest[m] > @[m] THEN newest[m] ELSE @[m]],
       !.device  = IF phone.cached THEN "online" ELSE @,
       !.fetch.dead = @ \/ (phone.cached /\ phone.fetch.phase # "idle")]
  /\ UNCHANGED feed

\* The app leaves the foreground: the effect's cleanup closes the connection and
\* clears the queue.
Background ==
  /\ phone.active /\ LiveEvent("hide")
  /\ conns' = [conns EXCEPT ![Current] = Closed(@)] /\ status' = "closed"
  /\ phone' = [phone EXCEPT !.active = FALSE, !.pending = <<>>,
                            !.seen = @ \cap Range(live)]
  /\ UNCHANGED world

Foreground ==
  /\ ~phone.active
  /\ conns' = Append(conns, Connecting("initial")) /\ status' = "connecting"
  /\ phone' = [phone EXCEPT !.active = TRUE, !.fetch = [Idle EXCEPT !.phase = "asked"]]
  /\ UNCHANGED <<world, left>>

\* Another metric: its history is drawn if it was loaded before; the one drawn so
\* far stays until the fetch asked for lands.
PickMetric(m) ==
  /\ m # phone.id /\ LiveEvent("pick")
  /\ phone' = [phone EXCEPT !.id = m, !.of = IF m \in phone.loaded THEN m ELSE @, !.seen = {},
                            !.fetch = [Idle EXCEPT !.phase = "asked"]]
  /\ UNCHANGED <<world, conns, status>>

Next ==
  \/ Revalidate \/ FetchRead \/ FetchDone \/ flush \/ Background \/ Foreground
  \/ \E m \in Metrics : PickMetric(m)
  \/ \E c \in DOMAIN conns : onMessage(c) \/ (ConnectionStep(c) /\ UNCHANGED phone)
  \/ Unattended /\ UNCHANGED phone

Spec == Init /\ [][Next]_vars
-----------------------------------------------------------------------------

\* DeviceTrend's points.
trend == fetched \o SelectSeq(live, LAMBDA t : fetched = <<>> \/ t > Last(fetched))

\* The phone's chart loses no reading of its metric that reached it in order, and
\* draws none twice, whatever fetches interleave with the live batches.  After a
\* switch to a metric not loaded before the previous one's history is drawn until
\* the fetch lands, and hides live points that are no newer; they are kept.
TrendLosesNothing ==
  /\ phone.seen \subseteq Range(IF phone.of = phone.id THEN trend ELSE live) \cup Range(phone.pending)
  /\ \A i, k \in DOMAIN trend : trend[i] = trend[k] => i = k
  /\ late = {} => \A i \in 1..(Len(trend) - 1) : trend[i] < trend[i + 1]

\* "A metric or range switch never shows the previous series' points"
\* (DeviceTrend.tsx:40-41) is true of the live points only, and no run checks it:
\* keepPreviousData draws the previous metric's history on.
NeverThePreviousSeries == \A i \in DOMAIN trend : MetricOf[trend[i]] = phone.id
=============================================================================
