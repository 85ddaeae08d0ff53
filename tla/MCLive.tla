------------------------------- MODULE MCLive -------------------------------
(***************************************************************************)
(* The two apps' live readings for TLC: in one behaviour either the web    *)
(* page runs or the phone does.  Readings 1..3 of two metrics, and one     *)
(* budget per question.                                                    *)
(***************************************************************************)
EXTENDS LivePage

VARIABLES phone, client

Phone  == INSTANCE PhoneLive
mcVars == <<vars, phone, client>>

MCMetricOf == [t \in Times |-> IF t = 2 THEN "b" ELSE "a"]
OnlyLive(b) == [k \in LiveKinds |-> IF k \in DOMAIN b THEN b[k] ELSE 0]

\* Which page is open, and what happens to it.
Questions ==
  { <<"chart",  OnlyLive([reading |-> 2, late |-> 1, hide |-> 1])>>,
    <<"chart",  OnlyLive([reading |-> 3, pick |-> 2])>>,
    <<"chart",  OnlyLive([reading |-> 2, drop |-> 1])>>,
    <<"latest", OnlyLive([reading |-> 1, late |-> 1, hide |-> 1])>>,
    <<"latest", OnlyLive([reading |-> 2, drop |-> 1])>>,
    <<"latest", OnlyLive([reading |-> 1, switch |-> 1, drop |-> 1, expire |-> 1])>>,
    <<"device", OnlyLive([reading |-> 1, health |-> 1, hide |-> 1])>>,
    <<"device", OnlyLive([remove |-> 1, drop |-> 1])>> }

PhoneQuestions ==
  { OnlyLive([reading |-> 2, late |-> 1]), OnlyLive([reading |-> 2, hide |-> 1]),
    OnlyLive([reading |-> 1, pick |-> 1, health |-> 1]), OnlyLive([reading |-> 2, pick |-> 2]) }

MCLiveBudgets == {q[2] : q \in Questions} \cup PhoneQuestions

MCInit ==
  /\ Init /\ chart.id = "a" /\ Phone!PhoneInit /\ phone.id = "a" /\ phone.of = "a" /\ phone.liveOf = "a"
  /\ \/ client = "web" /\ <<page.shows, left>> \in Questions
     \/ client = "phone" /\ page.shows = "device" /\ left \in PhoneQuestions

MCNext ==
  \/ client = "web" /\ Next /\ UNCHANGED <<phone, client>>
  \/ client = "phone" /\ Phone!Next /\ UNCHANGED <<pageVars, client>>

MCSpec == MCInit /\ [][MCNext]_mcVars /\ (client = "web" => Fairness)

-----------------------------------------------------------------------------
(* Properties                                                               *)

\* Charts lose nothing (LivePage, PhoneLive): whatever fetches, live batches,
\* hidden pages, late readings and metric switches interleave, the points of a
\* chart ascend, are of its metric and hold every reading that reached the page
\* in order; and one socket at most is open for the page.  The phone's chart, that
\* draws the previous metric's history until the picked one's is there, hides
\* meanwhile, but keeps, live points no newer.
LiveIsComplete ==
  /\ TypeOK /\ OneSocket /\ ChartAscends /\ ChartLosesNothing
  /\ client = "phone" => Phone!TrendLosesNothing

\* The reconciling backstop brings a visible card to the newest reading, and a
\* dropped connection is open again in the end (Reconciles and Reopens).
LiveSettles == client = "web" => Reconciles /\ Reopens
=============================================================================
