------------------------------ MODULE Session ------------------------------
(***************************************************************************)
(* The web app's session in the tabs of one browser (frontend              *)
(* lib/auth-context.tsx, hooks/useApi.ts, the sign-in, register and invite *)
(* pages), against the API's rotating refresh tokens (AuthServer).         *)
(*                                                                         *)
(* A kept session's token is in localStorage, which the tabs share; any    *)
(* other is in its tab's sessionStorage.  Refreshes are one per tab (a     *)
(* shared promise) and one across tabs (a Web Lock, granted in order) in a *)
(* browser that has Web Locks; in another, tabs refresh side by side.      *)
(***************************************************************************)
EXTENDS AuthServer

CONSTANTS
    Tabs,
    WebLocks    \* whether the browser has navigator.locks

ASSUME BrowserBounds == IsFiniteSet(Tabs) /\ Tabs # {} /\ WebLocks \in BOOLEAN

VARIABLES
    local,      \* localStorage's refresh token
    stored,     \* localStorage's workspace
    queue,      \* tabs that refresh, in order: at the Web Lock, the holder first
    tab         \* each tab

browser == <<local, stored, queue>>
vars    == <<server, browser, tab>>

\* A tab: its React state, its sessionStorage, the refresh under way, one
\* request of useApi, a logout under way, the sign-in page's pending choice
\* and the workspaces whose responses its SWR cache holds.
Fresh == [status |-> "loading", access |-> NoToken, workspace |-> NoWorkspace,
          members |-> {}, session |-> NoToken,
          run |-> "none", attempt |-> 0, call |-> 0,
          request |-> "idle", carried |-> NoToken, origin |-> NoWorkspace,
          leaving |-> NoToken, choosing |-> NoToken, cached |-> {}]

\* A browser that was signed in before: kept, or in one tab only.
Init ==
    /\ ServerInit
    /\ stored = NoWorkspace /\ queue = <<>>
    /\ \/ local = 1 /\ tab = [t \in Tabs |-> Fresh]
       \/ local = NoToken /\ \E t \in Tabs :
            tab = [u \in Tabs |-> IF u = t THEN [Fresh EXCEPT !.session = 1] ELSE Fresh]
-----------------------------------------------------------------------------
readRefreshToken(t) == IF tab[t].session # NoToken THEN tab[t].session ELSE local

\* Asked when an answer is applied, not when the session began.
isKept(t) == tab[t].session = NoToken

\* writeRefreshToken puts the token in one store and removes it from the
\* other; the workspace is remembered, or forgotten if there is none.
applySession(t, after, token, members, asked, keep) ==
  /\ local' = IF keep THEN token ELSE NoToken
  /\ stored' = pickTenant(members, asked, stored)
  /\ tab' = [tab EXCEPT ![t] =
               [after EXCEPT !.session = IF keep THEN NoToken ELSE token,
                             !.access = token, !.members = members,
                             !.workspace = stored', !.status = "authenticated"]]

clearSession(t, after) ==
  /\ local' = NoToken /\ stored' = NoWorkspace
  /\ tab' = [tab EXCEPT ![t] =
               [after EXCEPT !.session = NoToken, !.access = NoToken, !.members = {},
                             !.workspace = NoWorkspace, !.status = "unauthenticated"]]

\* Mutant of Settled: whoever awaited the shared refresh is not resumed.
Settled_Forgets(tb, token) == [tb EXCEPT !.run = "none", !.attempt = 0, !.call = 0]

\* The shared promise settles and whoever awaited it goes on: withRetry retries
\* once with the new access token, or throws the 401.
Settled(tb, token) ==
  LET awaited == tb.request = "waiting" IN
  [tb EXCEPT !.run = "none", !.attempt = 0, !.call = 0,
             !.request = IF ~awaited THEN @ ELSE IF token = NoToken THEN "idle" ELSE "retrying",
             !.carried = IF awaited THEN token ELSE @]

\* A tab is in the queue once, if it is.
Leave(t) ==
  queue' = IF \A i \in DOMAIN queue : queue[i] # t THEN queue
           ELSE [i \in 1..(Len(queue) - 1) |->
                   IF \E j \in 1..i : queue[j] = t THEN queue[i + 1] ELSE queue[i]]
-----------------------------------------------------------------------------
(* refresh                                                                 *)

\* Room for one more refresh, with the calls that may still be made for those
\* under way and for the requests that may meet a 401.
Room ==
  Len(calls) + Cardinality({t \in Tabs : tab[t].run \in {"queued", "asleep"}})
    + Cardinality({t \in Tabs : tab[t].request = "sent"}) + left["fault"] < MaxCalls

\* refresh(): a caller shares the promise in flight, or starts one at the end
\* of the lock's queue.
refresh(t, tb) ==
  /\ \/ tab[t].run # "none" /\ tab' = [tab EXCEPT ![t] = tb] /\ UNCHANGED queue
     \/ /\ tab[t].run = "none"
        /\ tab' = [tab EXCEPT ![t] = [tb EXCEPT !.run = "queued"]]
        /\ queue' = Append(queue, t)
  /\ UNCHANGED <<server, local, stored>>

\* First load: resume from the stored token.
Mount(t) == Room /\ tab[t].status = "loading" /\ tab[t].run = "none" /\ refresh(t, tab[t])

\* Mutant of Attempt: the Web Lock is not waited for.
Attempt_NoLock(t) ==
  LET token == readRefreshToken(t) IN
  /\ tab[t].run \in {"queued", "asleep"} /\ token # NoToken
  /\ calls' = Append(calls, Call(token))
  /\ tab' = [tab EXCEPT ![t].run = "posted", ![t].call = Len(calls')]
  /\ UNCHANGED <<tokens, joined, expired, left, ghosts, local, stored, queue>>

\* One turn of the loop, under the lock if there is one: the token is read again and posted.
Attempt(t) ==
  LET token == readRefreshToken(t) IN
  /\ tab[t].run \in {"queued", "asleep"} /\ (WebLocks => Head(queue) = t)
  /\ \/ /\ token = NoToken
        /\ tab' = [tab EXCEPT ![t] = [Settled(@, NoToken) EXCEPT !.status = "unauthenticated"]]
        /\ Leave(t)
        /\ UNCHANGED calls
     \/ /\ token # NoToken
        /\ calls' = Append(calls, Call(token))
        /\ tab' = [tab EXCEPT ![t].run = "posted", ![t].call = Len(calls')]
        /\ UNCHANGED queue
  /\ UNCHANGED <<tokens, joined, expired, left, ghosts, local, stored>>

\* The answer arrives: a new pair is applied, a rejection ends the session.
Answered(t) ==
  LET c == calls[tab[t].call] IN
  /\ tab[t].run = "posted" /\ c.phase = "answered"
  /\ \/ c.new = NoToken /\ clearSession(t, Settled(tab[t], NoToken))
     \/ /\ c.new # NoToken
        /\ applySession(t, Settled(tab[t], c.new), c.new, c.members, NoWorkspace, isKept(t))
  /\ Leave(t)
  /\ calls' = [calls EXCEPT ![tab[t].call] = Done]
  /\ UNCHANGED <<tokens, joined, expired, left, ghosts>>

\* Retries used up: a session in use is kept, a first load gives up.
GiveUp(tb) ==
  [Settled(tb, NoToken) EXCEPT !.status = IF tb.access # NoToken THEN @ ELSE "unauthenticated"]

\* The catch of what is no rejection, in a tab that is tb by now.
Retried(t, tb) ==
  /\ tab[t].run = "posted" /\ Event("fault")
  /\ \/ tb.attempt >= Retries /\ tab' = [tab EXCEPT ![t] = GiveUp(tb)] /\ Leave(t)
     \/ /\ tb.attempt < Retries
        /\ tab' = [tab EXCEPT ![t] = [tb EXCEPT !.run = "asleep", !.attempt = @ + 1, !.call = 0]]
        /\ UNCHANGED queue
  /\ UNCHANGED <<tokens, joined, expired, raced, replayed, reset, ended>>

Failed(t) == Retried(t, tab[t]) /\ UNCHANGED <<local, stored>>

\* The call never reached the API, or the API failed and rolled back.
Unreachable(t) ==
  /\ Failed(t) /\ calls[tab[t].call].phase = "sent"
  /\ calls' = [calls EXCEPT ![tab[t].call] = Done] /\ UNCHANGED lost

\* The connection breaks while the API works on the call or answers it.
AnswerLost(t) == Failed(t) /\ lost' = TRUE /\ UNCHANGED calls

\* The answer is a new pair and applySession throws, inside the try: the store
\* refuses the token, which is lost, or takes it and localStorage then refuses
\* the workspace.  The next turn reads what is stored.
ApplyFails(t) ==
  LET c == calls[tab[t].call]
      keep == isKept(t)
  IN
  /\ tab[t].run = "posted" /\ c.phase = "answered" /\ c.new # NoToken
  /\ \/ Failed(t) /\ lost' = TRUE
     \/ /\ pickTenant(c.members, NoWorkspace, stored) # NoWorkspace
        /\ Retried(t, [tab[t] EXCEPT !.session = IF keep THEN NoToken ELSE c.new])
        /\ local' = (IF keep THEN c.new ELSE NoToken)
        /\ UNCHANGED <<stored, lost>>
  /\ calls' = [calls EXCEPT ![tab[t].call] = Done]
-----------------------------------------------------------------------------
(* Requests: useApi's withRetry                                            *)

Send(t) ==
  /\ Event("request") /\ Room
  /\ tab[t].status = "authenticated" /\ tab[t].workspace # NoWorkspace /\ tab[t].request = "idle"
  /\ tab' = [tab EXCEPT ![t] = [@ EXCEPT !.request = "sent", !.carried = tab[t].access,
                                         !.origin = tab[t].workspace]]
  /\ UNCHANGED <<tokens, joined, expired, calls, ghosts, browser>>

\* A response goes into the SWR cache under a key that names no workspace; a
\* workspace the user has left answers 403, which is thrown.
Response(t) ==
  /\ tab[t].request \in {"sent", "retrying"} /\ tab[t].carried > expired
  /\ tab' = [tab EXCEPT ![t] = [tab[t] EXCEPT !.request = "idle", !.carried = NoToken,
                                              !.cached = @ \cup ({tab[t].origin} \cap joined)]]
  /\ UNCHANGED <<server, browser>>

\* A 401: refresh and retry once; the retry's own 401 is thrown.
Response401(t) ==
  /\ tab[t].carried <= expired
  /\ \/ tab[t].request = "sent" /\ refresh(t, [tab[t] EXCEPT !.request = "waiting"])
     \/ /\ tab[t].request = "retrying"
        /\ tab' = [tab EXCEPT ![t].request = "idle", ![t].carried = NoToken]
        /\ UNCHANGED <<server, browser>>
-----------------------------------------------------------------------------
(* Signing in and out                                                      *)

\* setCurrentTenantId and adoptSession drop every cached response, and SWR
\* with them the ones under way.
Dropped(tb) == [tb EXCEPT !.cached = {}, !.request = "idle", !.carried = NoToken]

SignIn(t) ==
  /\ Event("login") /\ ended' = TRUE /\ tokens' = Issued
  /\ UNCHANGED <<expired, calls, lost, raced, replayed, reset, queue>>

\* The sign-in page.  With several workspaces and no ?next= it asks which one
\* to open, holding the token pair meanwhile.
SubmitLogin(t, keep) ==
  /\ tab[t].status # "authenticated" /\ tab[t].choosing = NoToken
  /\ SignIn(t)
  /\ \/ /\ Cardinality(joined) > 1
        /\ tab' = [tab EXCEPT ![t].choosing = Len(tokens')]
        /\ UNCHANGED <<local, stored>>
     \/ applySession(t, Dropped(tab[t]), Len(tokens'), joined, NoWorkspace, keep)
  /\ UNCHANGED joined

ChooseWorkspace(t, w, keep) ==
  /\ tab[t].choosing # NoToken /\ w \in joined
  /\ applySession(t, [Dropped(tab[t]) EXCEPT !.choosing = NoToken],
                  tab[t].choosing, joined, w, keep)
  /\ UNCHANGED <<server, queue>>

\* The register page: register() applies the session and drops nothing.
Register(t) ==
  /\ tab[t].status # "authenticated" /\ SignIn(t)
  /\ applySession(t, tab[t], Len(tokens'), joined, NoWorkspace, isKept(t))
  /\ UNCHANGED joined

\* An accepted invitation adopts a new, kept session in the joined workspace;
\* someone signed in accepts with an access token that must still be good.
AcceptInvitation(t, w) ==
  /\ tab[t].status # "loading"
  /\ tab[t].status = "authenticated" => tab[t].access > expired
  /\ SignIn(t) /\ joined' = joined \cup {w}
  /\ applySession(t, Dropped(tab[t]), Len(tokens'), joined', w, TRUE)

SetWorkspace(t, w) ==
  /\ Event("switch")
  /\ tab[t].status = "authenticated" /\ w \in tab[t].members \ {tab[t].workspace}
  /\ stored' = w
  /\ tab' = [tab EXCEPT ![t] = [Dropped(@) EXCEPT !.workspace = w]]
  /\ UNCHANGED <<tokens, joined, expired, calls, ghosts, local, queue>>

\* logout: post the stored token, then forget the session whatever the API
\* answered.
Logout(t) ==
  /\ Event("logout") /\ ended' = TRUE
  /\ tab[t].status = "authenticated" /\ tab[t].leaving = NoToken
  /\ \/ readRefreshToken(t) = NoToken /\ clearSession(t, tab[t])
     \/ /\ readRefreshToken(t) # NoToken
        /\ tab' = [tab EXCEPT ![t].leaving = readRefreshToken(t)]
        /\ UNCHANGED <<local, stored>>
  /\ UNCHANGED <<tokens, joined, expired, calls, lost, raced, replayed, reset, queue>>

LogoutSettled(t) ==
  /\ tab[t].leaving # NoToken
  /\ revoke_refresh_token(tab[t].leaving) \/ UNCHANGED <<tokens, raced>>
  /\ clearSession(t, [tab[t] EXCEPT !.leaving = NoToken])
  /\ UNCHANGED <<joined, expired, calls, left, lost, replayed, reset, ended, queue>>

\* The page is reloaded: its memory is gone, a call under way is not.
Reload(t) ==
  /\ Event("reload")
  /\ tab' = [tab EXCEPT ![t] = [Fresh EXCEPT !.session = tab[t].session]]
  /\ Leave(t)
  /\ lost' = (lost \/ tab[t].run = "posted")
  /\ UNCHANGED <<tokens, joined, expired, calls, raced, replayed, reset, ended, local, stored>>
-----------------------------------------------------------------------------
TabStep(t) ==
  \/ Mount(t) \/ Attempt(t) \/ Answered(t) \/ Unreachable(t) \/ AnswerLost(t) \/ ApplyFails(t)
  \/ Send(t) \/ Response(t) \/ Response401(t)
  \/ \E keep \in BOOLEAN : \/ SubmitLogin(t, keep)
                           \/ \E w \in Workspaces : ChooseWorkspace(t, w, keep)
  \/ Register(t) \/ Logout(t) \/ LogoutSettled(t) \/ Reload(t)
  \/ \E w \in Workspaces : AcceptInvitation(t, w) \/ SetWorkspace(t, w)

Next == \/ \E t \in Tabs : TabStep(t)
        \/ ServerStep /\ UNCHANGED <<browser, tab>>

Spec == Init /\ [][Next]_vars

\* The browser grants the lock in order and runs due timers, the API answers
\* what reached it and an answer is delivered.
Fairness ==
  /\ \A t \in Tabs : WF_vars(Attempt(t)) /\ WF_vars(Answered(t))
                     /\ WF_vars(Response(t) \/ Response401(t))
  /\ \A c \in 1..MaxCalls :
       WF_vars(c \in DOMAIN calls /\ (ApiReads(c) \/ ApiCommits(c)) /\ UNCHANGED <<browser, tab>>)

FairSpec == Spec /\ Fairness
-----------------------------------------------------------------------------
Token == 0..Len(tokens)
CallRow == [token : Token, phase : {"sent", "read", "answered"}, new : Token, members : SUBSET Workspaces]
TypeOK ==
  /\ tokens \in Seq(Row) /\ joined \subseteq Workspaces /\ expired \in Token
  /\ calls \in Seq(CallRow)
  /\ local \in Token /\ stored \in Workspaces \cup {NoWorkspace}
  /\ queue \in Seq(Tabs)
  /\ \A t \in Tabs :
       /\ tab[t].status \in {"loading", "authenticated", "unauthenticated"}
       /\ {tab[t].access, tab[t].session, tab[t].carried, tab[t].leaving, tab[t].choosing} \subseteq Token
       /\ tab[t].run \in {"none", "queued", "posted", "asleep"} /\ tab[t].attempt \in 0..Retries
       /\ (tab[t].run = "posted") = (tab[t].call \in DOMAIN calls)
       /\ tab[t].request \in {"idle", "sent", "waiting", "retrying"}

\* "Only the API saying the token is bad ends the session": unless the user
\* signed in, out or reset the password somewhere, or an answer was lost, a tab
\* that has an access token stays signed in, however many refreshes fail, and
\* between refreshes the token it would refresh with is good.
SessionSurvives ==
  ~lost /\ ~ended => \A t \in Tabs :
    /\ tab[t].access # NoToken => tab[t].status = "authenticated"
    /\ queue = <<>> /\ tab[t].status = "authenticated" => Active(readRefreshToken(t))

\* What a browser's session promises.  A reset ends it in every tab and on every
\* device, unless it raced a rotation.  With Web Locks, and as long as no answer
\* is lost: its refreshes never look like a replay, one token of a sign-in is good
\* at a time, failed refreshes do not end the session and, unless it raced a
\* rotation, the revocation of a good token does, for good.
WebSafe ==
  /\ TypeOK /\ SignedOutEverywhere
  /\ WebLocks => NoReplay /\ OneGoodToken /\ LoggedOutEverywhere /\ SessionSurvives

\* A request always settles: the 401 that waits for a shared refresh, behind
\* another tab's refresh at the lock, is retried or thrown in the end.
RequestsSettle ==
  \A t \in Tabs : tab[t].request # "idle" ~> tab[t].request = "idle"

\* "Nothing from the previous workspace survives" a switch (layout.tsx): what a
\* signed-in tab's cache holds is of the workspace it shows.
NothingFromThePreviousWorkspace ==
  \A t \in Tabs : tab[t].status = "authenticated" => tab[t].cached \subseteq {tab[t].workspace}

\* "The local session is cleared regardless" by a logout: a tab that is signed
\* out is signed in again by a sign-in only.
OnlyASignInSignsIn ==
  [][\A t \in Tabs : tab[t].status = "unauthenticated" /\ tab'[t].status = "authenticated"
        => tab[t].run # "posted" \/ tab'[t].run = "posted"]_vars

\* That a logout ends the session for the API as well: it does not always, and no
\* run checks it.  The post is "best-effort", revokes the one token it names, and that
\* one may have been rotated since it was read, or be rotated as it is revoked.
LogoutEndsSession ==
  [][\A t \in Tabs : tab[t].leaving # NoToken /\ tab'[t].leaving = NoToken /\ tab'[t].status = "unauthenticated"
        => \A i \in DOMAIN tokens :
             tokens[i].family = tokens[tab[t].leaving].family => tokens'[i].revoked]_vars
-----------------------------------------------------------------------------
(* Why WebSafe holds. *)

Tab == [status : {"loading", "authenticated", "unauthenticated"}, access : Nat, workspace : Nat,
        members : SUBSET Workspaces, session : Nat, run : {"none", "queued", "posted", "asleep"},
        attempt : Nat, call : Nat, request : {"idle", "sent", "waiting", "retrying"}, carried : Nat,
        origin : Nat, leaving : Nat, choosing : Nat, cached : SUBSET Nat]

SessionTypeOK ==
  /\ TypeOK /\ tab \in [Tabs -> Tab] /\ left \in [Kinds -> Nat] /\ reset \in Token
  /\ lost \in BOOLEAN /\ raced \in BOOLEAN /\ replayed \in BOOLEAN /\ ended \in BOOLEAN
  /\ \A t \in Tabs : tab[t].run # "posted" => tab[t].call = 0

\* A call the API still works on, or whose answer holds a token.
Open(c) == calls[c].phase # "answered" \/ calls[c].new # NoToken

RowsOK ==
  /\ \A i \in DOMAIN tokens : tokens[i].family \in 1..i /\ (tokens[i].rotated => tokens[i].revoked)
  /\ \A c \in DOMAIN calls :
       (Open(c) => calls[c].token # NoToken) /\ (calls[c].phase # "answered" => calls[c].new = NoToken)

\* No family from before a reset has a good token, or is about to have one.
ResetOK ==
  ~raced => /\ SignedOutEverywhere
            /\ \A c \in DOMAIN calls : Midway(c) => tokens[calls[c].token].family > reset

\* The queue: who refreshes is in it once, and under the Web Lock who posted is
\* its head.
LockOK ==
  /\ \A i, j \in DOMAIN queue : queue[i] = queue[j] => i = j
  /\ \A t \in Tabs : tab[t].run # "none" <=> \E i \in DOMAIN queue : queue[i] = t
  /\ WebLocks => \A t \in Tabs : tab[t].run = "posted" => queue[1] = t

\* A sign-in whose token was revoked and not exchanged is over: none of its tokens
\* is good, and none is about to be issued.
EndedOK ==
  \A i \in DOMAIN tokens : tokens[i].revoked /\ ~tokens[i].rotated =>
    /\ \A k \in DOMAIN tokens : Active(k) => tokens[k].family # tokens[i].family
    /\ ~Rotating(tokens[i].family)

\* What holds until an answer is lost. Only the lock's holder has a call; the
\* token it rotates is the only good one of its family; and a token is in one
\* place, its tab's or the browser's, and good unless it is being exchanged.
Waits(t) == tab[t].run = "posted" /\ Open(tab[t].call)
CallsOK == \A c \in DOMAIN calls : Open(c) => \E t \in Tabs : Waits(t) /\ tab[t].call = c
FamilyOK ==
  /\ OneGoodToken
  /\ \A c \in DOMAIN calls : Midway(c) => \A i \in DOMAIN tokens :
       Active(i) /\ tokens[i].family = tokens[calls[c].token].family => i = calls[c].token
PlacesOK ==
  \A t, u \in Tabs :
    /\ tab[t].session # NoToken => tab[t].session # local /\ (u # t => tab[t].session # tab[u].session)
    /\ tab[t].choosing # NoToken =>
         /\ tab[t].choosing # local /\ tab[t].choosing # tab[u].session
         /\ u # t => tab[t].choosing # tab[u].choosing
AwaitedOK ==
  \A t \in Tabs : Waits(t) =>
    LET c == calls[tab[t].call] IN
    /\ \A u \in Tabs : tab[u].choosing # c.token /\ (u # t => tab[u].session # c.token)
    /\ c.new # NoToken =>
         /\ c.new # local /\ ~tokens[c.new].rotated
         /\ \A u \in Tabs : tab[u].choosing # c.new /\ tab[u].session # c.new
    /\ c.phase # "answered" => ~tokens[c.token].rotated
Exchanged(t, i) == Waits(t) /\ calls[tab[t].call].new # NoToken /\ calls[tab[t].call].token = i
RotatedOK ==
  \A i \in DOMAIN tokens : tokens[i].rotated =>
    /\ local = i => \E t \in Tabs : Exchanged(t, i)
    /\ \A u \in Tabs : tab[u].choosing # i /\ (tab[u].session = i => Exchanged(u, i))
UnlostOK == ~replayed /\ CallsOK /\ FamilyOK /\ PlacesOK /\ AwaitedOK /\ RotatedOK

\* What holds as long as the user has not ended the first session either: it is
\* kept, or one tab's.
SurvivesOK ==
  /\ \A i \in DOMAIN tokens : tokens[i].revoked => tokens[i].rotated
  /\ \A t \in Tabs :
       /\ tab[t].choosing = NoToken /\ tab[t].leaving = NoToken
       /\ tab[t].access # NoToken => tab[t].status = "authenticated"
       /\ tab[t].run = "posted" => Waits(t) /\ readRefreshToken(t) # NoToken
  /\ \/ local # NoToken /\ \A t \in Tabs : tab[t].session = NoToken
     \/ local = NoToken /\ \E t \in Tabs :
          /\ tab[t].session # NoToken
          /\ \A u \in Tabs : u # t =>
               tab[u].session = NoToken /\ tab[u].access = NoToken /\ tab[u].status # "authenticated"

SessionInv ==
  /\ SessionTypeOK /\ RowsOK /\ ResetOK /\ LockOK
  /\ WebLocks /\ ~lost => UnlostOK /\ (~raced => EndedOK) /\ (~ended => SurvivesOK)
=============================================================================
