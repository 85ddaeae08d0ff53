----------------------------- MODULE AuthServer -----------------------------
(***************************************************************************)
(* The API's sessions (backend auth/service.py), as the web app and the    *)
(* phone app use them.  A refresh token is its row in the table, a family  *)
(* the row of its first token: a rotation keeps the family, a login begins *)
(* one.  The access token issued with a refresh token has its number, and  *)
(* access tokens expire in the order they were issued.                     *)
(*                                                                         *)
(* A call to /auth/refresh is processed in two steps, the row's read and   *)
(* the commit; its client may stop waiting for it at any moment.           *)
(***************************************************************************)
EXTENDS Naturals, Sequences, FiniteSets

CONSTANTS
    Workspaces,     \* the user's possible workspaces, 1..n in list order
    Retries,        \* the length of RETRY_DELAYS_MS
    MaxCalls,       \* bound on refresh calls
    Budgets         \* how often each kind of event may happen in a behaviour:
                    \* a set of functions, one of which is chosen at the start

\* What users, the network and the clock do to a session.
Kinds == {"request", "expire", "login", "logout", "switch", "move", "reset", "reload", "fault"}

ASSUME AuthBounds ==
    /\ Workspaces \subseteq Nat \ {0} /\ Workspaces # {} /\ IsFiniteSet(Workspaces)
    /\ Retries \in Nat /\ MaxCalls \in Nat
    /\ Budgets \subseteq [Kinds -> Nat]

VARIABLES
    tokens,     \* the refresh_tokens table
    joined,     \* the workspaces the user is a member of
    expired,    \* access tokens up to this number have expired
    calls,      \* the calls to /auth/refresh made so far
    left,       \* what remains of the chosen budget
    \* ghosts
    lost,       \* a client gave up on a call the API received, or could not
                \* store the token it answered with
    raced,      \* a token was revoked between its rotation's read and commit
    replayed,   \* the API was shown a token it had already rotated
    reset,      \* the tokens that existed at the last password reset
    ended       \* the user did something that ends sessions

ghosts == <<lost, raced, replayed, reset, ended>>
server == <<tokens, joined, expired, calls, left, ghosts>>

NoToken     == 0
NoWorkspace == 0

\* A row.  rotated is a history: the token was exchanged for a successor, as
\* opposed to revoked by a logout or a reset.
Row == [family : Nat, revoked : BOOLEAN, rotated : BOOLEAN]
New(family) == [family |-> family, revoked |-> FALSE, rotated |-> FALSE]

Active(i) == i \in DOMAIN tokens /\ ~tokens[i].revoked

Event(kind) == left[kind] > 0 /\ left' = [left EXCEPT ![kind] = @ - 1]

ServerInit ==
    /\ tokens = <<New(1)>> /\ joined = Workspaces /\ expired = 0 /\ calls = <<>>
    /\ left \in Budgets
    /\ lost = FALSE /\ raced = FALSE /\ replayed = FALSE /\ reset = 0 /\ ended = FALSE

\* issue_refresh_token without a family: a login, a registration, an
\* accepted invitation.
Issued == Append(tokens, New(Len(tokens) + 1))

\* A client posts a token; Done is a call nobody will look at again.
Call(token) == [token |-> token, phase |-> "sent", new |-> NoToken, members |-> {}]
Done == [Call(NoToken) EXCEPT !.phase = "answered"]

Midway(c) == calls[c].phase = "read"

\* A rotation of one of the family's tokens is between its read and its commit.
Rotating(family) ==
  \E d \in DOMAIN calls : Midway(d) /\ tokens[calls[d].token].family = family

\* rotate_refresh_token reads the row.  A revoked token is refused, and
\* _revoke_family, on a connection of its own, revokes its family.
ApiReads(c) ==
  LET k == calls[c].token IN
  /\ calls[c].phase = "sent"
  /\ \/ /\ Active(k)
        /\ calls' = [calls EXCEPT ![c].phase = "read"]
        /\ UNCHANGED <<tokens, ghosts>>
     \/ /\ ~Active(k)
        /\ calls' = [calls EXCEPT ![c].phase = "answered"]
        /\ tokens' = [i \in DOMAIN tokens |->
                        [tokens[i] EXCEPT !.revoked = @ \/ tokens[i].family = tokens[k].family]]
        /\ replayed' = (replayed \/ tokens[k].rotated)
        /\ raced' = (raced \/ Rotating(tokens[k].family))
        /\ UNCHANGED <<lost, reset, ended>>
  /\ UNCHANGED <<joined, expired, left>>

\* It commits: the row it read is revoked, whatever happened to it since, its
\* successor is inserted, and the answer lists the user's workspaces.
ApiCommits(c) ==
  LET k == calls[c].token IN
  /\ Midway(c)
  /\ tokens' = Append([tokens EXCEPT ![k].revoked = TRUE, ![k].rotated = TRUE],
                      New(tokens[k].family))
  /\ calls' = [calls EXCEPT ![c] = [@ EXCEPT !.phase = "answered", !.new = Len(tokens) + 1,
                                             !.members = joined]]
  /\ UNCHANGED <<joined, expired, left, ghosts>>

\* revoke_refresh_token, for a logout: the row that was presented is revoked,
\* not its family, and one that was rotated meanwhile is left as it is.
revoke_refresh_token(k) ==
  /\ tokens' = [tokens EXCEPT ![k].revoked = TRUE]
  /\ raced' = (raced \/ (Active(k) /\ Rotating(tokens[k].family)))

\* The access token's minutes pass.
Expire ==
  /\ Event("expire") /\ expired' \in (expired + 1)..Len(tokens)
  /\ UNCHANGED <<tokens, joined, calls, ghosts>>

\* reset_password, from an emailed link: every token of the user is revoked.
ResetPassword ==
  /\ Event("reset")
  /\ tokens' = [i \in DOMAIN tokens |-> [tokens[i] EXCEPT !.revoked = TRUE]]
  /\ reset' = Len(tokens) /\ ended' = TRUE
  /\ raced' = (raced \/ \E d \in DOMAIN calls : Midway(d))
  /\ UNCHANGED <<joined, expired, calls, lost, replayed>>

\* The user leaves a workspace, is removed from one or added to one.
Move(w) ==
  /\ Event("move")
  /\ joined' = IF w \in joined THEN joined \ {w} ELSE joined \cup {w}
  /\ UNCHANGED <<tokens, expired, calls, ghosts>>

ServerStep ==
  \/ \E c \in DOMAIN calls : ApiReads(c) \/ ApiCommits(c)
  \/ Expire \/ ResetPassword \/ \E w \in Workspaces : Move(w)

\* Which workspace a session opens: the one asked for, else the remembered one,
\* else the first, each only while the user is a member of it.
pickTenant(members, asked, remembered) ==
  CASE asked \in members      -> asked
    [] asked \notin members /\ remembered \in members -> remembered
    [] members = {}           -> NoWorkspace
    [] OTHER                  -> CHOOSE w \in members : \A v \in members : w <= v
-----------------------------------------------------------------------------
\* "A refresh must never run twice with the same token" (auth-context.tsx:42),
\* as far as the clients keep it: unless a client gave up on a call the API had
\* or could not store its answer, the API is never shown a token it rotated,
\* however refreshes, logins, logouts and reloads interleave.
NoReplay == ~lost => ~replayed

\* The comment's "never" is not kept, and no run checks it: a client that lost an
\* answer retries with the token it sent before (auth-context.tsx:125-147), which
\* the API takes for a replay, and the user is signed out.
NeverReplayed == ~replayed

\* A session has one good token at a time: without a lost answer a family never
\* has two (rotate_refresh_token does not lock the row it reads).
OneGoodToken ==
  ~lost => \A i, k \in DOMAIN tokens :
             Active(i) /\ Active(k) /\ tokens[i].family = tokens[k].family => i = k

\* A reset revokes every token ("sign out everywhere"): unless a rotation was
\* between its read and its commit, no token of a session begun before the reset is ever good
\* again (reset_password against rotate_refresh_token).
SignedOutEverywhere ==
  ~raced => \A i \in DOMAIN tokens : Active(i) => tokens[i].family > reset

\* Without that exception it does not hold, and no run checks it: the rotation
\* commits after the reset, and its successor is good.
ResetSignsOutEverywhere == \A i \in DOMAIN tokens : Active(i) => tokens[i].family > reset

\* A logout that names a session's good token ends the session: unless an answer
\* was lost or a rotation was between its read and its commit, a sign-in one of
\* whose tokens was revoked and not exchanged has no good token, now or later
\* (revoke_refresh_token revokes one row, a reset and a replay all of them).
LoggedOutEverywhere ==
  ~lost /\ ~raced => \A i, k \in DOMAIN tokens :
    tokens[i].revoked /\ ~tokens[i].rotated /\ Active(k) => tokens[k].family # tokens[i].family
=============================================================================
