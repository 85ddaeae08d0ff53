------------------------------ MODULE AlertFeed ------------------------------
(***************************************************************************)
(* A feed the API pages: the notifications page (repeats grouped, read,    *)
(* dismissed with Undo) with the unread badge beside it, and the paged     *)
(* histories of useServerPager.ts (failed deliveries).  Every page is a    *)
(* SWR key of its own; an action or a realtime event revalidates them all, *)
(* and the page of a feed that shrank may not exist any more.              *)
(***************************************************************************)
EXTENDS Integers, Sequences, SequencesExt, FiniteSets, FiniteSetsExt

CONSTANTS
    Alerts,         \* 1..n, in the order they are raised
    GroupOf,        \* the alert each is a repeat of
    FeedQuestions   \* which feed is open, and what happens to it

VARIABLES
    feed,           \* "alerts" (the notifications page) or "history" (useServerPager)
    alert,          \* each alert: "none", "unread", "read" or "dismissed"
    page, state,    \* the page and the state filter asked for
    pages,          \* SWR's cache: key -> what it last got
    asked,          \* the keys being fetched
    data,           \* what the page shows (the previous page's while one loads)
    badge,          \* the summary's unread count
    posts,          \* the actions in progress
    offer,          \* the Undo on offer: alerts, or {}
    unheard,        \* an alert was raised while the socket was down
    earlier,        \* alerts dismissed by an action that can't be undone any more
    feedBudget

feedVars == <<feed, alert, page, state, pages, asked, data, badge, posts, offer, unheard,
              earlier, feedBudget>>

SpendFeed(k) == feedBudget[k] > 0 /\ feedBudget' = [feedBudget EXCEPT ![k] = @ - 1]

AlertGroups == {GroupOf[a] : a \in Alerts}
States == {"all", "unread"}
Key == [page : 1..Cardinality(AlertGroups), state : States]
Badge == [page |-> 0, state |-> "summary"]
NoData == [items |-> << >>, total |-> -1]
key == [page |-> page, state |-> state]

-----------------------------------------------------------------------------
(* The API: groups of alerts that are not dismissed, newest first, one per *)
(* page.                                                                    *)

In(g) == {a \in Alerts : GroupOf[a] = g /\ alert[a] \in {"unread", "read"}}
unreadIn(g) == {a \in In(g) : alert[a] = "unread"}

list_groups(k) ==
    LET gs == {g \in AlertGroups : IF k.state = "all" THEN In(g) # {} ELSE unreadIn(g) # {}}
        byNewest == SetToSortSeq(gs, LAMBDA g, h : Max(In(g)) > Max(In(h)))
    IN  [items |-> SubSeq(byNewest, k.page, Min({k.page, Len(byNewest)})), total |-> Len(byNewest)]

summarize == Cardinality({g \in AlertGroups : unreadIn(g) # {}})

mark_group_read(g) == [a \in Alerts |-> IF a \in In(g) THEN "read" ELSE alert[a]]
mark_group_unread(g) == [alert EXCEPT ![Max(In(g))] = "unread"]
dismiss_group(g) == [a \in Alerts |-> IF a \in In(g) THEN "dismissed" ELSE alert[a]]
mark_all_read == [a \in Alerts |-> IF alert[a] = "unread" THEN "read" ELSE alert[a]]
restore_many(ids) == [a \in Alerts |-> IF a \in ids /\ alert[a] = "dismissed" THEN "read" ELSE alert[a]]

-----------------------------------------------------------------------------

(* refreshNotifications: every key of the feed is fetched again; an answer *)
(* on its way is discarded.                                                 *)
refreshNotifications == asked' = {k \in Key : pages[k] # NoData} \cup {key, Badge}

(* The key changed: a page SWR has shows at once, and is fetched again. *)
Show(k) ==
    /\ page' = k.page /\ state' = k.state
    /\ data' = IF pages[k] # NoData THEN pages[k] ELSE data
    /\ asked' = asked \cup {k}

Pages(total) == Max({1, total})

Fetched(k) ==
    /\ k \in asked \ {Badge}
    /\ pages' = [pages EXCEPT ![k] = list_groups(k)]
    /\ data' = IF k = key THEN list_groups(k) ELSE data
    /\ asked' = asked \ {k}
    /\ UNCHANGED <<feed, alert, page, state, badge, posts, offer, unheard, earlier, feedBudget>>

(* The last alert of the last page is gone: step back a page. *)
StepBack ==
    /\ feed = "alerts" /\ data # NoData
    /\ page > Pages(data.total)
    /\ Show([key EXCEPT !.page = Pages(data.total)])
    /\ UNCHANGED <<feed, alert, pages, badge, posts, offer, unheard, earlier, feedBudget>>

SummaryFetched ==
    /\ Badge \in asked
    /\ badge' = summarize
    /\ asked' = asked \ {Badge}
    /\ UNCHANGED <<feed, alert, page, state, pages, data, posts, offer, unheard, earlier, feedBudget>>

(* The refresh interval: what is on screen is fetched again. *)
Poll ==
    /\ pages[key] # list_groups(key) \/ badge # summarize
    /\ asked' = asked \cup {key, Badge}
    /\ UNCHANGED <<feed, alert, page, state, pages, data, badge, posts, offer, unheard, earlier, feedBudget>>

-----------------------------------------------------------------------------
(* A new alert; its event revalidates the feed unless the socket is down. *)
Raise(a) ==
    /\ SpendFeed("raise")
    /\ alert[a] = "none" /\ \A b \in 1..(a - 1) : alert[b] # "none"
    /\ alert' = [alert EXCEPT ![a] = "unread"]
    /\ refreshNotifications
    /\ UNCHANGED <<feed, page, state, pages, data, badge, posts, offer, unheard, earlier>>

RaiseUnheard(a) ==
    /\ SpendFeed("miss")
    /\ alert[a] = "none" /\ \A b \in 1..(a - 1) : alert[b] # "none"
    /\ alert' = [alert EXCEPT ![a] = "unread"]
    /\ unheard' = TRUE
    /\ UNCHANGED <<feed, page, state, pages, asked, data, badge, posts, offer, earlier>>

(* Turning the page, or changing the state filter (back to page 1). *)
setPage(p) ==
    /\ SpendFeed("page")
    /\ p \in 1..Pages(data.total) /\ p # Min({page, Pages(data.total)})
    /\ Show([key EXCEPT !.page = p])
    /\ UNCHANGED <<feed, alert, pages, badge, posts, offer, unheard, earlier>>

setState(s) ==
    /\ SpendFeed("page") /\ feed = "alerts"
    /\ s # state
    /\ Show([page |-> 1, state |-> s])
    /\ UNCHANGED <<feed, alert, pages, badge, posts, offer, unheard, earlier>>

Post(kind, g) ==
    /\ posts = << >>
    /\ posts' = << [kind |-> kind, of |-> g, at |-> "send", ids |-> {}] >>

(* The row menu, the sheet and the toolbar: read (opening a group reads    *)
(* it), unread, dismiss, all read.  A history's row is retried, which       *)
(* takes it out of the feed.                                                *)
Act(g) ==
    /\ SpendFeed("act")
    /\ g \in ToSet(data.items)
    /\ IF feed = "history" THEN Post("dismiss", g)
       ELSE \E kind \in {"read", "unread", "dismiss", "all"} : Post(kind, g)
    /\ UNCHANGED <<feed, alert, page, state, pages, asked, data, badge, offer, unheard, earlier>>

(* The API applies it; a group that is gone answers 404. *)
Applied ==
    /\ posts # << >> /\ posts[1].at = "send"
    /\ LET p == posts[1]
       IN  CASE p.kind = "undo" ->
                  alert' = restore_many(p.ids) /\ posts' = [posts EXCEPT ![1].at = "done"]
             [] p.kind = "all" ->
                  alert' = mark_all_read /\ posts' = [posts EXCEPT ![1].at = "done"]
             [] OTHER ->
                  IF In(p.of) = {} THEN posts' = << >> /\ UNCHANGED alert
                  ELSE /\ posts' = [posts EXCEPT ![1].at = "done", ![1].ids = In(p.of)]
                       /\ alert' = CASE p.kind = "read" -> mark_group_read(p.of)
                                     [] p.kind = "unread" -> mark_group_unread(p.of)
                                     [] p.kind = "dismiss" -> dismiss_group(p.of)
    /\ UNCHANGED <<feed, page, state, pages, asked, data, badge, offer, unheard, earlier, feedBudget>>

(* The answer is here: everything is revalidated, a dismissal offers Undo. *)
After ==
    /\ posts # << >> /\ posts[1].at = "done"
    /\ posts' = << >>
    /\ refreshNotifications
    /\ IF feed = "alerts" /\ posts[1].kind = "dismiss"
       THEN offer' = posts[1].ids /\ earlier' = earlier \cup offer
       ELSE UNCHANGED <<offer, earlier>>
    /\ UNCHANGED <<feed, alert, page, state, pages, data, badge, unheard, feedBudget>>

\* Mutant: Undo restores the whole group.
restored_Group == {a \in Alerts : \E b \in offer : GroupOf[a] = GroupOf[b]}

restored == offer

Undo ==
    /\ offer # {} /\ posts = << >>
    /\ posts' = << [kind |-> "undo", of |-> 0, at |-> "send", ids |-> restored] >>
    /\ offer' = {}
    /\ UNCHANGED <<feed, alert, page, state, pages, asked, data, badge, unheard, earlier, feedBudget>>

OfferGoes ==
    /\ offer # {}
    /\ offer' = {} /\ earlier' = earlier \cup offer
    /\ UNCHANGED <<feed, alert, page, state, pages, asked, data, badge, posts, unheard, feedBudget>>

-----------------------------------------------------------------------------
FeedInit ==
    /\ \E q \in FeedQuestions : feed = q[1] /\ feedBudget = q[2]
    /\ alert = [a \in Alerts |-> IF a < Max(Alerts) THEN "unread" ELSE "none"]
    /\ page = 1 /\ state = "all"
    /\ pages = [k \in Key |-> IF k = key THEN list_groups(k) ELSE NoData]
    /\ asked = {} /\ data = pages[key] /\ badge = summarize
    /\ posts = << >> /\ offer = {} /\ unheard = FALSE /\ earlier = {}

FeedNext ==
    \/ \E k \in Key : Fetched(k)
    \/ StepBack \/ SummaryFetched \/ Poll
    \/ \E a \in Alerts : Raise(a) \/ RaiseUnheard(a)
    \/ \E p \in 1..Cardinality(AlertGroups) : setPage(p)
    \/ \E s \in States : setState(s)
    \/ \E g \in AlertGroups : Act(g)
    \/ Applied \/ After \/ Undo \/ OfferGoes

(* Requests are answered, and effects run. *)
FeedRereads == \E k \in Key : Fetched(k)
FeedSettles == StepBack \/ Applied \/ After
FeedFairness == WF_feedVars(FeedRereads) /\ WF_feedVars(FeedSettles)

FeedSpec == FeedInit /\ [][FeedNext]_feedVars /\ FeedFairness

-----------------------------------------------------------------------------
(* Properties *)

(* The shape of the state. *)
FeedTypeOK ==
    /\ alert \in [Alerts -> {"none", "unread", "read", "dismissed"}]
    /\ key \in Key /\ asked \subseteq Key \cup {Badge}
    /\ badge \in 0..Cardinality(AlertGroups)
    /\ \A k \in Key : pages[k].total \in -1..Cardinality(AlertGroups)
    /\ UNION {offer, earlier} \subseteq Alerts /\ Len(posts) <= 1

(* What must end: an empty page of a feed that still has alerts.  Dismissing *)
(* the last row of the last page steps back.                                 *)
FeedWaits == feed = "alerts" /\ data.total > 0 /\ data.items = << >>

(* The badge and the list agree with the feed whenever nothing is on its    *)
(* way and no event was missed: every action refreshes both, and no late   *)
(* answer brings an older count back.                                       *)
FeedAgrees ==
    (asked = {} /\ posts = << >> /\ ~unheard)
      => badge = summarize /\ (feed = "alerts" => data = list_groups(key))

(* Undo brings back what its own dismissal took, not what an earlier one   *)
(* did.                                                                      *)
UndoBringsBackItsOwn == \A a \in earlier : alert[a] = "dismissed"

(* FailedActionsList.tsx: "Paged by the API, so every failure can be        *)
(* browsed": with failures left, the list shows some of them.               *)
HistoryShowsRows == feed = "history" => []<>(data.total > 0 => data.items # << >>)
=============================================================================
