---------------------------- MODULE PhoneSession ----------------------------
(***************************************************************************)
(* The phone app's session (mobile auth/AuthProvider.tsx, auth/storage.ts, *)
(* hooks/useApi.ts, app/sign-in.tsx), against the same API.  It is the     *)
(* web's, with two differences: one process, so no lock; and the token is  *)
(* in secure storage, whose every read and write is awaited, so that the   *)
(* steps of a refresh, a sign-in and a logout interleave, and the system   *)
(* may end the app between any two of them.                                *)
(***************************************************************************)
EXTENDS AuthServer

VARIABLES
    vault,      \* SecureStore's refresh token
    vaultWs,    \* SecureStore's workspace
    phone       \* the app

phoneVars == <<vault, vaultWs, phone>>
vars      == <<server, phoneVars>>

Idle   == [step |-> "none", token |-> NoToken, members |-> {}, workspace |-> NoWorkspace]
Launch == [status |-> "loading", access |-> NoToken, workspace |-> NoWorkspace, members |-> {},
           run |-> "none", attempt |-> 0, call |-> 0, applying |-> Idle, signing |-> Idle,
           request |-> "idle", carried |-> NoToken, leaving |-> "no", out |-> NoToken]

Init == ServerInit /\ vault = 1 /\ vaultWs = NoWorkspace /\ phone = Launch

KeepServer == UNCHANGED <<tokens, joined, expired, left, ghosts>>
KeepVault  == UNCHANGED <<vault, vaultWs>>
SignedOut(ph) == [ph EXCEPT !.status = "unauthenticated", !.access = NoToken,
                            !.members = {}, !.workspace = NoWorkspace]
Settled(ph, token) ==
  LET awaited == ph.request = "waiting" IN
  [ph EXCEPT !.run = "none", !.attempt = 0, !.call = 0, !.applying = Idle,
             !.request = IF ~awaited THEN @ ELSE IF token = NoToken THEN "idle" ELSE "retrying",
             !.carried = IF awaited THEN token ELSE @]
-----------------------------------------------------------------------------
(* applySession, in its awaited steps, for a refresh or a sign-in          *)

\* The remembered workspace is read and the one to open picked; then the token
\* is written; then the workspace, if there is one, and the state set.
Pick(a) == [a EXCEPT !.step = "token", !.workspace = pickTenant(a.members, NoWorkspace, vaultWs)]
InUse(ph, a) == [ph EXCEPT !.status = "authenticated", !.access = a.token,
                           !.members = a.members, !.workspace = a.workspace]

Begin(token, members) == [step |-> "pick", token |-> token, members |-> members, workspace |-> NoWorkspace]

ApplyStep(who, after) ==
  LET a == phone[who] IN
  \/ /\ a.step = "pick" /\ phone' = [phone EXCEPT ![who] = Pick(a)] /\ KeepVault
  \/ /\ a.step = "token" /\ vault' = a.token
     /\ phone' = [phone EXCEPT ![who].step = "workspace"] /\ UNCHANGED vaultWs
  \/ /\ a.step = "workspace"
     /\ vaultWs' = IF a.workspace # NoWorkspace THEN a.workspace ELSE vaultWs
     /\ phone' = after /\ UNCHANGED vault

\* A step that reads or writes secure storage: the workspace's only if there is one.
CanThrow(a) == a.step \in {"pick", "token"} \/ (a.step = "workspace" /\ a.workspace # NoWorkspace)

Apply ==
  /\ \/ ApplyStep("applying", Settled(InUse(phone, phone.applying), phone.applying.token))
     \/ ApplyStep("signing", [InUse(phone, phone.signing) EXCEPT !.signing = Idle])
  /\ UNCHANGED calls /\ KeepServer
-----------------------------------------------------------------------------
(* refresh                                                                 *)

Room == Len(calls) + left["fault"] + (IF phone.request = "sent" THEN 1 ELSE 0)
          + (IF phone.run \in {"reading", "asleep"} THEN 1 ELSE 0) < MaxCalls

\* One shared promise.
refresh(ph) == phone' = [ph EXCEPT !.run = IF @ = "none" THEN "reading" ELSE @]

Resume ==
  /\ Room /\ phone.status = "loading" /\ phone.run = "none"
  /\ refresh(phone) /\ KeepVault /\ UNCHANGED calls /\ KeepServer

\* The stored token is read, and posted or found missing.
Attempt ==
  /\ phone.run \in {"reading", "asleep"}
  /\ \/ vault = NoToken /\ phone' = SignedOut(Settled(phone, NoToken)) /\ UNCHANGED calls
     \/ /\ vault # NoToken /\ calls' = Append(calls, Call(vault))
        /\ phone' = [phone EXCEPT !.run = "posted", !.call = Len(calls')]
  /\ KeepVault /\ KeepServer

\* The answer: a new pair is applied, a rejection clears the vault first.
Answered ==
  LET c == calls[phone.call] IN
  /\ phone.run = "posted" /\ c.phase = "answered"
  /\ \/ /\ c.new # NoToken
        /\ phone' = [phone EXCEPT !.run = "applying", !.call = 0, !.applying = Begin(c.new, c.members)]
     \/ c.new = NoToken /\ phone' = [phone EXCEPT !.run = "clearing", !.call = 0]
  /\ calls' = [calls EXCEPT ![phone.call] = Done]
  /\ KeepVault /\ KeepServer

Rejected ==
  /\ phone.run = "clearing"
  /\ vault' = NoToken /\ vaultWs' = NoWorkspace
  /\ phone' = SignedOut(Settled(phone, NoToken))
  /\ UNCHANGED calls /\ KeepServer

\* Any other failure is retried; then a session in use is kept.
Retried ==
  IF phone.attempt < Retries
  THEN [phone EXCEPT !.run = "asleep", !.attempt = @ + 1, !.call = 0, !.applying = Idle]
  ELSE IF phone.access # NoToken THEN Settled(phone, NoToken)
  ELSE SignedOut(Settled(phone, NoToken))

Failed ==
  /\ phone.run = "posted" /\ Event("fault") /\ phone' = Retried
  /\ \/ calls[phone.call].phase = "sent" /\ calls' = [calls EXCEPT ![phone.call] = Done] /\ UNCHANGED lost
     \/ lost' = TRUE /\ UNCHANGED calls
  /\ KeepVault /\ UNCHANGED <<tokens, joined, expired, raced, replayed, reset, ended>>

\* applySession throws where it uses secure storage: a refresh, whose try it is
\* in, is retried, with the token it sent before unless the new one was written;
\* a sign-in fails.
ApplyFails ==
  /\ Event("fault")
  /\ \/ /\ CanThrow(phone.applying) /\ phone' = Retried
        /\ lost' = (lost \/ phone.applying.step \in {"pick", "token"})
     \/ CanThrow(phone.signing) /\ phone' = [phone EXCEPT !.signing = Idle] /\ UNCHANGED lost
  /\ KeepVault /\ UNCHANGED <<tokens, joined, expired, calls, raced, replayed, reset, ended>>
-----------------------------------------------------------------------------
(* Requests, signing in and out                                            *)

Send ==
  /\ Event("request") /\ Room /\ phone.status = "authenticated" /\ phone.request = "idle"
  /\ phone' = [phone EXCEPT !.request = "sent", !.carried = phone.access]
  /\ KeepVault /\ UNCHANGED <<tokens, joined, expired, calls, ghosts>>

\* withRetry: a 401 refreshes and retries once.
Response ==
  /\ phone.request \in {"sent", "retrying"}
  /\ IF phone.request = "sent" /\ phone.carried <= expired
     THEN refresh([phone EXCEPT !.request = "waiting"])
     ELSE phone' = [phone EXCEPT !.request = "idle", !.carried = NoToken]
  /\ KeepVault /\ UNCHANGED calls /\ KeepServer

\* The sign-in screen, shown to whoever is not signed in.
SubmitSignIn ==
  /\ phone.status = "unauthenticated" /\ phone.signing.step = "none"
  /\ Event("login") /\ ended' = TRUE /\ tokens' = Append(tokens, New(Len(tokens) + 1))
  /\ phone' = [phone EXCEPT !.signing = Begin(Len(tokens'), joined)]
  /\ KeepVault /\ UNCHANGED <<joined, expired, calls, lost, raced, replayed, reset>>

SetWorkspace(w) ==
  /\ Event("switch") /\ phone.status = "authenticated" /\ w \in phone.members \ {phone.workspace}
  /\ vaultWs' = w
  /\ phone' = [phone EXCEPT !.workspace = w]
  /\ UNCHANGED <<vault, tokens, joined, expired, calls, ghosts>>

\* logout: read the token; post it, come what may; clear the vault; forget.
LogoutStart ==
  /\ Event("logout") /\ ended' = TRUE /\ phone.status = "authenticated" /\ phone.leaving = "no"
  /\ phone' = [phone EXCEPT !.leaving = IF vault = NoToken THEN "clearing" ELSE "posted", !.out = vault]
  /\ KeepVault /\ UNCHANGED <<tokens, joined, expired, calls, lost, raced, replayed, reset>>

LogoutPosted ==
  /\ phone.leaving = "posted"
  /\ revoke_refresh_token(phone.out) \/ UNCHANGED <<tokens, raced>>
  /\ phone' = [phone EXCEPT !.leaving = "clearing", !.out = NoToken]
  /\ KeepVault /\ UNCHANGED <<joined, expired, calls, left, lost, replayed, reset, ended>>

LogoutCleared ==
  /\ phone.leaving = "clearing"
  /\ vault' = NoToken /\ vaultWs' = NoWorkspace
  /\ phone' = SignedOut([phone EXCEPT !.leaving = "no"])
  /\ UNCHANGED calls /\ KeepServer

\* The system ends the app; secure storage stays.  A pair that was not written
\* yet is lost.
Killed ==
  /\ Event("reload") /\ phone' = Launch
  /\ lost' = (lost \/ phone.run = "posted" \/ phone.applying.step \in {"pick", "token"})
  /\ KeepVault /\ UNCHANGED <<tokens, joined, expired, calls, raced, replayed, reset, ended>>
-----------------------------------------------------------------------------
AppStep ==
  \/ Apply \/ Resume \/ Attempt \/ Answered \/ Rejected \/ Failed \/ ApplyFails
  \/ Send \/ Response \/ SubmitSignIn \/ LogoutStart \/ LogoutPosted \/ LogoutCleared \/ Killed
  \/ \E w \in Workspaces : SetWorkspace(w)

Next == AppStep \/ (ServerStep /\ UNCHANGED phoneVars)

Spec == Init /\ [][Next]_vars
-----------------------------------------------------------------------------
\* The app can be ended whenever no refresh is under way: unless the user signed
\* in or out or an answer was lost, a phone that is signed in has the good
\* token of its session in secure storage, so the next launch resumes it.
KillSafe ==
  ~lost /\ ~ended /\ phone.run = "none" /\ phone.status = "authenticated" => Active(vault)
=============================================================================
