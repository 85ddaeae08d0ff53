------------------------------ MODULE LivePage ------------------------------
(***************************************************************************)
(* Live readings on a page of the web app: hooks/useRealtime.ts,           *)
(* lib/live-buffer.ts, the cache updaters of packages/shared               *)
(* live-telemetry.ts and components/chart/TrendChart.tsx, over the SWR     *)
(* cache.  A page shows one of three keys of a device: its latest          *)
(* readings (a value card), its state (a header), or a metric's series     *)
(* (a chart).                                                              *)
(***************************************************************************)
EXTENDS LiveFeed, SequencesExt

CONSTANT Window     \* the chart's time range

VARIABLES
    page,       \* its visibility, useRealtime's droppedRef, the key it shows
    buffer,     \* lib/live-buffer: newest per metric, points to draw, a flush due
    cache,      \* what SWR holds: latest readings, device state, fetched series
    fetch,      \* the request under way for the shown key
    chart,      \* seriesRef: the metric and the points drawn
    seen        \* ghost: readings in order that reached the chart's page

pageVars == <<page, buffer, cache, fetch, chart, seen>>
vars     == <<feed, pageVars>>

Shown  == {"latest", "device", "chart"}
NoData == <<>>
Nothing == [latest |-> NoData, device |-> "unknown", series |-> [m \in Metrics |-> NoData]]
NoFetch == [phase |-> "idle", dead |-> FALSE, snap |-> {}, up |-> TRUE]
Empty   == [latest |-> [m \in Metrics |-> NoReading], series |-> <<>>, scheduled |-> FALSE]

Ascending(S) == SetToSortSeq(S, LAMBDA a, b : a < b)
Cutoff == LET now == MaxOf({NoReading} \cup ingested) IN IF now > Window THEN now - Window ELSE 0

PageInit ==
    /\ page \in [hidden : {FALSE}, dropped : {FALSE}, shows : Shown]
    /\ buffer = Empty /\ fetch = [NoFetch EXCEPT !.phase = "asked"]
    /\ cache = Nothing
    /\ chart \in [id : Metrics, xs : {<<>>}]
    /\ seen = {}

Init == FeedInit /\ PageInit
-----------------------------------------------------------------------------
(* SWR (external): a request, whose answer a later mutate discards         *)

hasData(key) == cache[key] # Nothing[key]

\* mutate(key, updater, { revalidate: false }) while a request is under way.
Discard(f) == [f EXCEPT !.dead = (@ \/ f.phase # "idle")]

\* The key's own triggers while the page is visible: mount, refreshInterval,
\* focus.
Revalidate ==
  /\ fetch.phase = "idle" /\ ~page.hidden
  /\ fetch' = [NoFetch EXCEPT !.phase = "asked"]
  /\ UNCHANGED <<feed, page, buffer, cache, chart, seen>>

\* The API reads the database.
FetchRead ==
  /\ fetch.phase = "asked"
  /\ fetch' = [fetch EXCEPT !.phase = "read", !.snap = db, !.up = online]
  /\ UNCHANGED <<feed, page, buffer, cache, chart, seen>>

\* Mutant of reseed: a fetch replaces the series, live points and all.
reseed_Replace(prev, id, fetched) == fetched

\* reseed: the fetched series, and the live points of this series beyond it.
reseed(prev, id, fetched) ==
  IF prev.id # id THEN fetched
  ELSE fetched \o SelectSeq(prev.xs, LAMBDA x : fetched = <<>> \/ x > Last(fetched))

InRange(S) == Ascending({t \in S : MetricOf[t] = chart.id /\ t >= Cutoff})

\* The answer: unless discarded, it is cached and rendered; the chart's seed
\* effect merges it with the points already drawn.
FetchDone ==
  /\ fetch.phase = "read" /\ fetch' = NoFetch
  /\ \/ fetch.dead /\ UNCHANGED <<cache, chart>>
     \/ /\ ~fetch.dead
        /\ CASE page.shows = "latest" ->
                  /\ cache' = [cache EXCEPT !.latest = [m \in Metrics |-> Newest(m, fetch.snap)]]
                  /\ UNCHANGED chart
             [] page.shows = "device" ->
                  /\ cache' = [cache EXCEPT !.device = IF fetch.up THEN "online" ELSE "offline"]
                  /\ UNCHANGED chart
             [] page.shows = "chart" ->
                  /\ cache' = [cache EXCEPT !.series[chart.id] = InRange(fetch.snap)]
                  /\ chart' = [chart EXCEPT !.xs = reseed(chart, chart.id, InRange(fetch.snap))]
  /\ UNCHANGED <<feed, page, buffer, seen>>

\* catchUpDevices: every device key loses its data and is fetched again; the
\* points drawn stay (keepPreviousData).
CaughtUp ==
  /\ cache' = Nothing
  /\ fetch' = [NoFetch EXCEPT !.phase = "asked"]
-----------------------------------------------------------------------------
(* lib/live-buffer                                                         *)

\* push: newest per metric, and every point of the series being drawn.
push(b, t) ==
  LET m == MetricOf[t] IN
  IF page.hidden THEN b
  ELSE [latest    |-> [b.latest EXCEPT ![m] = IF t >= @ THEN t ELSE @],
        series    |-> IF page.shows = "chart" /\ m = chart.id THEN Append(b.series, t) ELSE b.series,
        scheduled |-> TRUE]

clear(b) == [Empty EXCEPT !.scheduled = b.scheduled]

\* Mutant of mergeLatest: whatever arrived last is shown.
mergeLatest_Last(data, batch) == [m \in Metrics |-> IF batch[m] # NoReading THEN batch[m] ELSE data[m]]

\* mergeLatest: only a newer reading replaces the cached one.
mergeLatest(data, batch) == [m \in Metrics |-> IF batch[m] > data[m] THEN batch[m] ELSE data[m]]

\* appendToWindow: points not newer than the tip are skipped, and what slid out
\* of the window is dropped.
appendToWindow(xs, points) ==
  LET Step(acc, p) == IF acc # <<>> /\ p <= Last(acc) THEN acc ELSE Append(acc, p)
  IN SelectSeq(FoldLeft(Step, xs, points), LAMBDA x : x >= Cutoff)

\* A reading shows the device is there; a health event, the last will among
\* them, overrules what is shown.
markOnline(c) == [c EXCEPT !.device = "online"]
applyDeviceHealth(c, up) == [c EXCEPT !.device = IF up THEN "online" ELSE "offline"]

\* applyLatest: one mutate for the key, if it has data; markOnline for the state.
applyLatest(batch) ==
  LET live == \E m \in Metrics : batch[m] # NoReading IN
  \/ /\ live /\ page.shows = "latest" /\ hasData("latest")
     /\ cache' = [cache EXCEPT !.latest = mergeLatest(@, batch)] /\ fetch' = Discard(fetch)
  \/ /\ live /\ page.shows = "device" /\ hasData("device")
     /\ cache' = markOnline(cache) /\ fetch' = Discard(fetch)
  \/ /\ ~(live /\ page.shows \in {"latest", "device"} /\ hasData(page.shows))
     /\ UNCHANGED <<cache, fetch>>

flush ==
  /\ buffer.scheduled /\ buffer' = Empty
  /\ \/ page.hidden /\ UNCHANGED <<cache, fetch, chart>>
     \/ /\ ~page.hidden /\ applyLatest(buffer.latest)
        /\ chart' = IF buffer.series = <<>> THEN chart
                    ELSE [chart EXCEPT !.xs = appendToWindow(@, buffer.series)]
  /\ UNCHANGED <<feed, page, seen>>
-----------------------------------------------------------------------------
(* useRealtime                                                             *)

\* onMessage for each event of a frame: a reading is buffered, a device's state
\* applied at once.
onMessage(c) ==
  LET events   == conns[c].relay
      Readings == SelectSeq(events, LAMBDA e : e # Offline)
      InOrder(t) == /\ ~page.hidden /\ page.shows = "chart"
                    /\ MetricOf[t] = chart.id /\ t \notin late
  IN
  /\ Frame(c) /\ Sent(c)
  /\ buffer' = FoldLeft(push, buffer, Readings)
  /\ seen' = seen \cup {t \in Range(Readings) : InOrder(t)}
  /\ IF Offline \in Range(events) /\ page.shows = "device" /\ hasData("device")
     THEN cache' = applyDeviceHealth(cache, FALSE) /\ fetch' = Discard(fetch)
     ELSE UNCHANGED <<cache, fetch>>
  /\ UNCHANGED <<world, status, left, page, chart>>

\* onStatusChange: the first open after a drop catches up.
onStatusChange ==
  IF status' = "open" /\ page.dropped
  THEN page' = [page EXCEPT !.dropped = FALSE] /\ CaughtUp
  ELSE page' = [page EXCEPT !.dropped = @ \/ status' = "reconnecting"] /\ UNCHANGED <<cache, fetch>>

Connection(c) ==
  /\ ConnectionStep(c)
  /\ IF status' = status THEN UNCHANGED <<page, cache, fetch>> ELSE onStatusChange
  /\ UNCHANGED <<buffer, chart, seen>>

\* The workspace changes: the effect's cleanup closes the connection, the
\* buffer stays, and the next workspace's connection starts.
SwitchTenant ==
  /\ LiveEvent("switch")
  /\ conns' = Append([conns EXCEPT ![Current] = Closed(@)], Connecting("initial"))
  /\ status' = "connecting"
  /\ cache' = Nothing
  /\ fetch' = [NoFetch EXCEPT !.phase = "asked"]
  /\ chart' = [chart EXCEPT !.xs = <<>>]
  /\ buffer' = [buffer EXCEPT !.series = <<>>] /\ seen' = {}
  /\ UNCHANGED <<world, page>>

\* onVisibilityChange.
Hide ==
  /\ ~page.hidden /\ LiveEvent("hide")
  /\ page' = [page EXCEPT !.hidden = TRUE] /\ buffer' = clear(buffer)
  /\ seen' = seen \cap Range(chart.xs)
  /\ UNCHANGED <<world, conns, status, cache, fetch, chart>>
Show ==
  /\ page.hidden
  /\ page' = [page EXCEPT !.hidden = FALSE] /\ CaughtUp
  /\ UNCHANGED <<feed, buffer, chart, seen>>

\* The chart is given another metric: it unsubscribes and subscribes again,
\* and is seeded from what SWR holds of the new series, if anything.
PickMetric(m) ==
  /\ page.shows = "chart" /\ m # chart.id /\ LiveEvent("pick")
  /\ chart' = [id |-> m, xs |-> cache.series[m]]
  /\ buffer' = [buffer EXCEPT !.series = <<>>] /\ seen' = {}
  /\ fetch' = [NoFetch EXCEPT !.phase = "asked"]
  /\ UNCHANGED <<world, conns, status, page, cache>>
-----------------------------------------------------------------------------
PageStep ==
  \/ Revalidate \/ FetchRead \/ FetchDone \/ flush \/ SwitchTenant \/ Hide \/ Show
  \/ \E m \in Metrics : PickMetric(m)
  \/ \E c \in DOMAIN conns : Connection(c) \/ onMessage(c)

Next == PageStep \/ (Unattended /\ UNCHANGED pageVars)

Spec == Init /\ [][Next]_vars

\* Timers, requests and the database's batch flush run; a connection's steps
\* happen; refreshInterval comes round; HTTP requests notice an expired token.
Fairness ==
  /\ WF_vars(Revalidate) /\ WF_vars(FetchRead) /\ WF_vars(FetchDone) /\ WF_vars(flush)
  /\ WF_vars(FlushDb /\ UNCHANGED pageVars) /\ WF_vars(TokenRefreshed /\ UNCHANGED pageVars)
  /\ WF_vars(\E c \in DOMAIN conns : onMessage(c))
  /\ WF_vars(\E c \in DOMAIN conns :
       (GotToken(c) \/ Opened(c) \/ Refused(c) \/ Reconnect(c)) /\ Connection(c))

FairSpec == Spec /\ Fairness
-----------------------------------------------------------------------------
TypeOK ==
  /\ ingested \subseteq Times /\ db \subseteq ingested /\ access \in {"good", "expired"}
  /\ \A c \in DOMAIN conns : conns[c].phase \in {"token", "dialing", "open", "waiting", "ended"}
  /\ status \in {"connecting", "open", "reconnecting", "closed"}
  /\ buffer.latest \in [Metrics -> 0..MaxTime]
  /\ cache.device \in {"unknown", "online", "offline"}
  /\ chart.id \in Metrics

\* A chart's points ascend strictly: no reading is drawn twice or out of order,
\* and none of another metric is among them, whatever fetches, live batches,
\* metric switches and catch-ups interleave (reseed, appendToWindow).
ChartAscends ==
  /\ \A i \in 1..(Len(chart.xs) - 1) : chart.xs[i] < chart.xs[i + 1]
  /\ \A i \in DOMAIN chart.xs : MetricOf[chart.xs[i]] = chart.id

\* "Charts lose nothing": a reading that reached the visible page in order is
\* drawn, waits for the next flush or has left the window, however fetches that
\* lag behind the database's flush reseed the series.
ChartLosesNothing ==
  seen \subseteq Range(chart.xs) \cup Range(buffer.series) \cup {t \in Times : t < Cutoff}

\* Live frames never move a shown reading back, in whatever order they arrive
\* (push and mergeLatest); only a fetch can, when the database lags.
LiveNeverGoesBack ==
  [][fetch.phase # "read" /\ cache.latest # NoData /\ cache'.latest # NoData
       => \A m \in Metrics : cache'.latest[m] >= cache.latest[m]]_vars

\* "The reconciling backstop": a visible value card ends up on the newest
\* reading, whatever frames were missed, dropped while hidden, discarded or
\* raced the database's flush.
Reconciles ==
  page.shows = "latest" /\ ~page.hidden
    ~> page.hidden \/ cache.latest = [m \in Metrics |-> Newest(m, ingested)]

\* "A dashboard never shows a stale number as current": once the device has
\* been reported offline to a page, it is not shown online until a reading is
\* ingested.
NeverStaleAsCurrent ==
  [][~online /\ ~online' /\ page.shows = "device" /\ cache.device = "offline"
       => cache'.device # "online"]_vars
=============================================================================
