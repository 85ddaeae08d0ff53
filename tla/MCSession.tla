----------------------------- MODULE MCSession -----------------------------
(***************************************************************************)
(* Accounts for TLC: in one behaviour the browser's tabs run, or the phone *)
(* does, or the members of a workspace change it.  One budget per question, *)
(* so that each question's events interleave freely without multiplying    *)
(* the others'.                                                            *)
(***************************************************************************)
EXTENDS Session, Members

VARIABLES
    vault, vaultWs, phone,   \* PhoneSession
    client

Phone == INSTANCE PhoneSession
phoneVars == <<vault, vaultWs, phone>>

MCUsers == {"a", "b", "c"}
AskTeam(a, b, c, asked) ==
  [roles |-> [u \in MCUsers |-> CASE u = "a" -> a [] u = "b" -> b [] u = "c" -> c],
   budget |-> [k \in TeamKinds |-> IF k \in DOMAIN asked THEN asked[k] ELSE 0]]
MCTeamQuestions ==
  { AskTeam("owner", "owner", "none", [change |-> 1, remove |-> 1, leave |-> 1]),
    AskTeam("owner", "admin", "none", [change |-> 2, remove |-> 1]),
    AskTeam("owner", "admin", "none", [invite |-> 1, accept |-> 2, remove |-> 1]),
    AskTeam("owner", "none", "viewer", [invite |-> 1, resend |-> 1, accept |-> 2, cancel |-> 1]),
    AskTeam("owner", "none", "viewer", [invite |-> 2, resend |-> 1, accept |-> 1, expire |-> 1]),
    AskTeam("owner", "none", "none", [invite |-> 1, add |-> 1, accept |-> 1]) }

mcVars == <<vars, phoneVars, teamVars, client>>

Only(b) == [k \in Kinds |-> IF k \in DOMAIN b THEN b[k] ELSE 0]

MCBudgets ==
  { \* rotation, with a fault, a login, a logout or a reset in between
    Only([login |-> 1, fault |-> 1]),
    Only([request |-> 1, expire |-> 1, login |-> 1]),
    Only([request |-> 1, expire |-> 1, logout |-> 1, fault |-> 1]),
    Only([request |-> 1, expire |-> 1, reset |-> 1, fault |-> 1]),
    Only([reload |-> 1, fault |-> 2]),
    Only([request |-> 1, expire |-> 1, fault |-> 2]),
    \* workspaces: switches, memberships and what the cache shows
    Only([request |-> 2, expire |-> 1, switch |-> 1]),
    Only([request |-> 1, move |-> 1, reload |-> 1]) }

WebInit == Init /\ vault = NoToken /\ vaultWs = NoWorkspace /\ phone = Phone!Launch
OneTeam == <<role, teamBudget>> = LET q == CHOOSE q \in TeamQuestions : TRUE IN <<q.roles, q.budget>>

MCInit ==
  \/ client = "web" /\ WebInit /\ TeamInit /\ OneTeam
  \/ /\ client = "phone" /\ Phone!Init /\ TeamInit /\ OneTeam
     /\ local = NoToken /\ stored = NoWorkspace /\ queue = <<>> /\ tab = [t \in Tabs |-> Fresh]
  \/ client = "team" /\ WebInit /\ left = (CHOOSE b \in MCBudgets : TRUE) /\ TeamInit

MCNext ==
  \/ client = "web" /\ Next /\ UNCHANGED <<phoneVars, teamVars, client>>
  \/ client = "phone" /\ Phone!Next /\ UNCHANGED <<browser, tab, teamVars, client>>
  \/ client = "team" /\ TeamNext /\ UNCHANGED <<vars, phoneVars, client>>

MCSpec == MCInit /\ [][MCNext]_mcVars /\ Fairness

-----------------------------------------------------------------------------
(* Properties                                                               *)

\* Sessions (AuthServer, Session, PhoneSession).  A reset that races no rotation
\* ends every session before it.  As long as no answer is lost, on the phone and
\* in a browser with Web Locks: no client's own refreshes look like a replay, one
\* token of a sign-in is good at a time, the revocation of a good token ends its
\* sign-in unless it raced a rotation, failed refreshes do not, and a phone the
\* system kills between refreshes resumes its session.
SessionSafe ==
  /\ WebSafe
  /\ client = "phone" => NoReplay /\ OneGoodToken /\ LoggedOutEverywhere /\ Phone!KillSafe
-----------------------------------------------------------------------------
(* Why SessionSafe holds on the phone. *)

Applying == [step : {"none", "pick", "token", "workspace"}, token : Nat,
             members : SUBSET Workspaces, workspace : Workspaces \cup {NoWorkspace}]
App == [status : {"loading", "authenticated", "unauthenticated"}, access : Nat,
        workspace : Workspaces \cup {NoWorkspace}, members : SUBSET Workspaces,
        run : {"none", "reading", "asleep", "posted", "applying", "clearing"},
        attempt : Nat, call : Nat, applying : Applying, signing : Applying,
        request : {"idle", "sent", "waiting", "retrying"}, carried : Nat,
        leaving : {"no", "posted", "clearing"}, out : Nat]

AppOK ==
  /\ phone \in App
  /\ vault \in Token /\ vaultWs \in Workspaces \cup {NoWorkspace}
  /\ phone.applying.token \in Token /\ phone.signing.token \in Token /\ phone.out \in Token
  /\ phone.run = "posted" <=> phone.call \in DOMAIN calls
  /\ phone.run # "posted" => phone.call = 0
  /\ phone.run = "applying" <=> phone.applying.step # "none"
  /\ \A who \in {"applying", "signing"} : phone[who].step # "none" => phone[who].token # NoToken
  /\ phone.leaving = "posted" => phone.out # NoToken
PhoneTypeOK == SessionTypeOK /\ AppOK

\* The app holds a token that is not in the vault yet; it waits for an answer
\* that may bring one.
InHand(who) == phone[who].step \in {"pick", "token"}
PhoneWaits == phone.run = "posted" /\ Open(phone.call)

\* What holds until an answer is lost: the one open call is the app's; a token is
\* in one place, a call, a hand or the vault; and a rotated one is in the vault
\* only until its successor replaces it.
PhoneCallsOK == \A c \in DOMAIN calls : Open(c) => PhoneWaits /\ phone.call = c
HandsOK ==
  /\ \A who \in {"applying", "signing"} : InHand(who) =>
       /\ phone[who].token # vault
       /\ phone[who].token \in DOMAIN tokens => ~tokens[phone[who].token].rotated
  /\ InHand("applying") /\ InHand("signing") => phone.applying.token # phone.signing.token
PhoneAwaitedOK ==
  PhoneWaits =>
    LET c == calls[phone.call] IN
    /\ InHand("signing") => phone.signing.token \notin {c.token, c.new}
    /\ c.new # NoToken => c.new # vault /\ ~tokens[c.new].rotated
    /\ c.phase # "answered" => ~tokens[c.token].rotated
Replaced == \/ PhoneWaits /\ calls[phone.call].new # NoToken /\ calls[phone.call].token = vault
            \/ InHand("applying")
VaultOK == vault \in DOMAIN tokens /\ tokens[vault].rotated => Replaced
PhoneUnlostOK == ~replayed /\ PhoneCallsOK /\ FamilyOK /\ HandsOK /\ PhoneAwaitedOK /\ VaultOK

\* What holds as long as the user has not ended the first session either.
PhoneSurvivesOK ==
  /\ \A i \in DOMAIN tokens : tokens[i].revoked => tokens[i].rotated
  /\ vault # NoToken /\ phone.signing.step = "none" /\ phone.leaving = "no"
  /\ phone.run = "posted" => PhoneWaits
  /\ phone.run # "clearing"

PhoneInv ==
  /\ PhoneTypeOK /\ RowsOK /\ ResetOK
  /\ ~lost => PhoneUnlostOK /\ (~raced => EndedOK) /\ (~ended => PhoneSurvivesOK)
=============================================================================
