------------------------------ MODULE RuleCache ------------------------------
(***************************************************************************)
(* How an edit of a rule reaches the worker.  The API commits the edit and   *)
(* then, in a post-commit callback (db.get_session), publishes a message on  *)
(* RULES_INVALIDATE_CHANNEL; rule_cache_loop reloads every rule on each      *)
(* message.  Redis pub/sub keeps nothing for a client that is not            *)
(* subscribed.                                                               *)
(*                                                                           *)
(* The rule is its version: the number of edits of its condition so far.     *)
(* The hot path (evaluate_and_dispatch) looks the rule up, may wait while it *)
(* dispatches another rule of the same signal, and then evaluates the object *)
(* it looked up; _state_for aligns the rule's state to the fingerprint that  *)
(* is cached at that moment.                                                 *)
(***************************************************************************)
EXTENDS Integers, TLAPS

CONSTANTS
    MaxEdits,       \* bound on edits
    MaxFaults       \* bound on lost connections and failed publishes

ASSUME CacheBounds == MaxEdits \in Nat /\ MaxFaults \in Nat

VARIABLES
    db,         \* the committed version
    unsent,     \* commits whose post-commit callback has not run yet
    channel,    \* messages waiting for the worker
    phase,      \* of rule_cache_loop: about to "select", "selected",
                \* "unsubscribed" or "listening"
    seen,       \* the version load_rule_cache selected
    cache,      \* the version in _rule_cache, _rules_by_id, _rule_fingerprints
    held,       \* the hot path's rule object: {} or {a version}
    fingerprint,\* RuleState.condition_fingerprint: {} (None) or {a version}
    latches,    \* the versions that set the leaf latches now in the RuleState
    started,    \* rule_cache_loop has subscribed before
    \* ghosts
    missed,     \* an edit's message reached no subscriber
    faults

vars == <<db, unsent, channel, phase, seen, cache, held, fingerprint, latches,
          started, missed, faults>>

api     == <<db, unsent>>
loader  == <<phase, seen, cache, started>>
hotpath == <<held, fingerprint, latches>>

Versions == 0..MaxEdits
AtMostOne(S) == \A x, y \in S : x = y

TypeOK ==
    /\ db \in Versions /\ unsent \in Versions /\ channel \in Versions
    /\ phase \in {"select", "selected", "unsubscribed", "listening"}
    /\ seen \in Versions /\ cache \in Versions \cup {-1}
    /\ held \subseteq Versions /\ AtMostOne(held)
    /\ fingerprint \subseteq Versions /\ AtMostOne(fingerprint)
    /\ latches \subseteq Versions
    /\ started \in BOOLEAN /\ missed \in BOOLEAN
    /\ faults \in 0..MaxFaults

\* The worker starts with no rules (-1).
Init ==
    /\ db = 0 /\ unsent = 0 /\ channel = 0
    /\ phase = "select" /\ seen = 0 /\ cache = -1 /\ started = FALSE
    /\ held = {} /\ fingerprint = {} /\ latches = {}
    /\ missed = FALSE /\ faults = 0

-----------------------------------------------------------------------------
(***************************************************************************)
(* The API process                                                         *)
(***************************************************************************)

\* update_rule commits (get_session leaves session.begin()).
Commit ==
    /\ db < MaxEdits
    /\ db' = db + 1
    /\ unsent' = unsent + 1
    /\ UNCHANGED <<channel, loader, hotpath, missed, faults>>

\* _publish, run after the commit.
Publish ==
    /\ unsent > 0
    /\ unsent' = unsent - 1
    /\ IF phase # "unsubscribed" /\ started
       THEN channel' = channel + 1 /\ UNCHANGED missed
       ELSE missed' = TRUE /\ UNCHANGED channel
    /\ UNCHANGED <<db, loader, hotpath, faults>>

\* The publish fails, or the API ends between the commit and the callback.
PublishFails ==
    /\ unsent > 0
    /\ faults < MaxFaults
    /\ faults' = faults + 1
    /\ unsent' = unsent - 1
    /\ missed' = TRUE
    /\ UNCHANGED <<db, channel, loader, hotpath>>

-----------------------------------------------------------------------------
(***************************************************************************)
(* rule_cache_loop                                                         *)
(***************************************************************************)

\* Mutant: a reload never gets a session.
SelectOnce ==
    /\ phase = "select" /\ ~started
    /\ seen' = db
    /\ phase' = "selected"
    /\ UNCHANGED <<api, channel, cache, started, hotpath, missed, faults>>

\* load_rule_cache, the query.
Select ==
    /\ phase = "select"
    /\ seen' = db
    /\ phase' = "selected"
    /\ UNCHANGED <<api, channel, cache, started, hotpath, missed, faults>>

\* Mutant: messages that came in during the load are dropped as already done.
SwapDrains ==
    /\ phase = "selected"
    /\ cache' = seen
    /\ channel' = 0
    /\ phase' = IF started THEN "listening" ELSE "unsubscribed"
    /\ UNCHANGED <<api, seen, started, hotpath, missed, faults>>

\* load_rule_cache, the swap: no await between its assignments.  At start-up
\* the subscription comes after it, later loads run under the subscription.
Swap ==
    /\ phase = "selected"
    /\ cache' = seen
    /\ phase' = IF started THEN "listening" ELSE "unsubscribed"
    /\ UNCHANGED <<api, channel, seen, started, hotpath, missed, faults>>

Subscribe ==
    /\ phase = "unsubscribed"
    /\ phase' = "listening"
    /\ started' = TRUE
    /\ UNCHANGED <<api, channel, seen, cache, hotpath, missed, faults>>

\* A message on the channel: load_rule_cache again.
Receive ==
    /\ phase = "listening"
    /\ channel > 0
    /\ channel' = channel - 1
    /\ phase' = "select"
    /\ UNCHANGED <<api, seen, cache, started, hotpath, missed, faults>>

\* A RedisError while listening: the loop subscribes again after a pause.
Disconnect ==
    /\ phase = "listening"
    /\ faults < MaxFaults
    /\ faults' = faults + 1
    /\ phase' = "unsubscribed"
    /\ channel' = 0
    /\ missed' = IF channel > 0 THEN TRUE ELSE missed
    /\ UNCHANGED <<api, seen, cache, started, hotpath>>

-----------------------------------------------------------------------------
(***************************************************************************)
(* The hot path                                                            *)
(***************************************************************************)

\* rules = _rule_cache.get(signal)
LookUp ==
    /\ held = {} /\ cache >= 0
    /\ held' = {cache}
    /\ UNCHANGED <<api, channel, loader, fingerprint, latches, missed, faults>>

\* align_state_to_condition drops latches built against another fingerprint.
Aligned == IF fingerprint \in {{}, {cache}} THEN latches ELSE {}

\* _state_for, then evaluate on the object that was looked up.
EvaluateHeld ==
    /\ held # {}
    /\ fingerprint' = {cache}
    /\ latches' = Aligned \cup held
    /\ held' = {}
    /\ UNCHANGED <<api, channel, loader, missed, faults>>

Next ==
    \/ Commit \/ Publish \/ PublishFails
    \/ Select \/ Swap \/ Subscribe \/ Receive \/ Disconnect
    \/ LookUp \/ EvaluateHeld

Spec == Init /\ [][Next]_vars

\* Callbacks run after their commit and the worker's loop runs; nothing
\* obliges users, devices or faults.
FairSpec ==
    /\ Spec
    /\ WF_vars(Publish)
    /\ WF_vars(Select) /\ WF_vars(Swap) /\ WF_vars(Subscribe) /\ WF_vars(Receive)

-----------------------------------------------------------------------------
(***************************************************************************)
(* Properties                                                              *)
(***************************************************************************)

\* What the cache will hold once the load in progress is done.
Upcoming ==
    IF phase = "select" THEN db ELSE IF phase = "selected" THEN seen ELSE cache

\* An out-of-date cache is always about to be reloaded, unless a message was
\* lost: a publish follows its commit, and a reload reads after it took its
\* message off the channel, so no edit slips between the two.
StaleIsSignalled == Upcoming = db \/ unsent > 0 \/ channel > 0 \/ missed

\* Unless a message is lost, every edit reaches the cache.
EditsArriveUnlessMissed ==
    \A v \in 1..MaxEdits : db >= v ~> (cache >= v \/ missed)

\* Every message on its way stands for an edit of its own.
MessagesAreEdits == unsent + channel <= db

\* The hot path looks rules up in a loaded cache.
HeldWasCached == held # {} => cache >= 0

\* The inductive invariant.
CacheInv == TypeOK /\ MessagesAreEdits /\ HeldWasCached /\ StaleIsSignalled

\* Every edit reaches the cache: "a rule CRUD change reaches the hot path".
EditsArrive == \A v \in 1..MaxEdits : db >= v ~> cache >= v

\* The leaf latches kept under a fingerprint were set by that condition.
LatchesMatchCondition == fingerprint # {} => latches \subseteq fingerprint

-----------------------------------------------------------------------------
(* Proofs, for every number of edits and faults. *)

\* The initial state satisfies the invariant: the first load is still to come.
LEMMA InitCache == Init => CacheInv
  <1> SUFFICES ASSUME Init PROVE CacheInv
    OBVIOUS
  <1>1. TypeOK
    <2>1. started \in BOOLEAN /\ missed \in BOOLEAN
      BY Zenon DEF Init
    <2>2. /\ db = 0 /\ unsent = 0 /\ channel = 0 /\ seen = 0 /\ cache = -1
          /\ phase = "select" /\ faults = 0
          /\ held = {} /\ fingerprint = {} /\ latches = {}
      BY DEF Init
    <2> QED BY CacheBounds, <2>1, <2>2 DEF TypeOK, Versions, AtMostOne
  <1>2. MessagesAreEdits /\ HeldWasCached /\ StaleIsSignalled
    BY DEF Init, MessagesAreEdits, HeldWasCached, StaleIsSignalled, Upcoming
  <1> QED BY <1>1, <1>2 DEF CacheInv

\* A step of the API keeps the invariant: a commit leaves its message to send,
\* a publish puts it on the channel or is known to be lost.
LEMMA ApiStep ==
    ASSUME CacheInv, Commit \/ Publish \/ PublishFails
    PROVE  CacheInv'
  <1> USE CacheBounds DEF loader, hotpath
  <1>0. TypeOK /\ MessagesAreEdits /\ HeldWasCached /\ StaleIsSignalled
    BY DEF CacheInv
  <1>1. CASE Commit
    <2>1. TypeOK'
      BY <1>0, <1>1 DEF Commit, TypeOK, Versions, AtMostOne, MessagesAreEdits,
          HeldWasCached
    <2>2. MessagesAreEdits' /\ HeldWasCached'
      BY <1>0, <1>1 DEF Commit, TypeOK, Versions, MessagesAreEdits, HeldWasCached
    <2>3. StaleIsSignalled'
      BY <1>0, <1>1 DEF Commit, TypeOK, Versions, StaleIsSignalled, Upcoming
    <2> QED BY <2>1, <2>2, <2>3 DEF CacheInv
  <1>2. CASE Publish
    <2>1. TypeOK'
      <3>1. missed' \in BOOLEAN
        BY <1>0, <1>2, Zenon DEF Publish, TypeOK
      <3>2. unsent' \in Versions /\ channel' \in Versions
        BY <1>0, <1>2 DEF Publish, TypeOK, Versions, MessagesAreEdits
      <3> QED BY <1>0, <1>2, <3>1, <3>2 DEF Publish, TypeOK
    <2>2. MessagesAreEdits' /\ HeldWasCached'
      BY <1>0, <1>2 DEF Publish, TypeOK, Versions, MessagesAreEdits, HeldWasCached
    <2>3. StaleIsSignalled'
      BY <1>0, <1>2 DEF Publish, TypeOK, Versions, StaleIsSignalled, Upcoming
    <2> QED BY <2>1, <2>2, <2>3 DEF CacheInv
  <1>3. CASE PublishFails
    <2>1. TypeOK'
      BY <1>0, <1>3 DEF PublishFails, TypeOK, Versions, AtMostOne, MessagesAreEdits,
          HeldWasCached
    <2>2. MessagesAreEdits' /\ HeldWasCached'
      BY <1>0, <1>3 DEF PublishFails, TypeOK, Versions, MessagesAreEdits, HeldWasCached
    <2>3. StaleIsSignalled'
      BY <1>0, <1>3 DEF PublishFails, TypeOK, Versions, StaleIsSignalled, Upcoming
    <2> QED BY <2>1, <2>2, <2>3 DEF CacheInv
  <1> QED BY <1>1, <1>2, <1>3

\* A step of rule_cache_loop keeps it: the query reads what is committed when
\* the message is already off the channel.
LEMMA LoaderStep ==
    ASSUME CacheInv, Select \/ Swap \/ Subscribe \/ Receive \/ Disconnect
    PROVE  CacheInv'
  <1> USE CacheBounds DEF api, hotpath
  <1>0. TypeOK /\ MessagesAreEdits /\ HeldWasCached /\ StaleIsSignalled
    BY DEF CacheInv
  <1>1. CASE Select
    <2>1. TypeOK'
      BY <1>0, <1>1 DEF Select, TypeOK, Versions, AtMostOne, MessagesAreEdits,
          HeldWasCached
    <2>2. MessagesAreEdits' /\ HeldWasCached'
      BY <1>0, <1>1 DEF Select, TypeOK, Versions, MessagesAreEdits, HeldWasCached
    <2>3. StaleIsSignalled'
      BY <1>0, <1>1 DEF Select, TypeOK, Versions, StaleIsSignalled, Upcoming
    <2> QED BY <2>1, <2>2, <2>3 DEF CacheInv
  <1>2. CASE Swap
    <2>1. TypeOK'
      BY <1>0, <1>2 DEF Swap, TypeOK, Versions, AtMostOne, MessagesAreEdits,
          HeldWasCached
    <2>2. MessagesAreEdits' /\ HeldWasCached'
      BY <1>0, <1>2 DEF Swap, TypeOK, Versions, MessagesAreEdits, HeldWasCached
    <2>3. StaleIsSignalled'
      BY <1>0, <1>2 DEF Swap, TypeOK, Versions, StaleIsSignalled, Upcoming
    <2> QED BY <2>1, <2>2, <2>3 DEF CacheInv
  <1>3. CASE Subscribe
    <2>1. TypeOK'
      BY <1>0, <1>3 DEF Subscribe, TypeOK, Versions, AtMostOne, MessagesAreEdits,
          HeldWasCached
    <2>2. MessagesAreEdits' /\ HeldWasCached'
      BY <1>0, <1>3 DEF Subscribe, TypeOK, Versions, MessagesAreEdits, HeldWasCached
    <2>3. StaleIsSignalled'
      BY <1>0, <1>3 DEF Subscribe, TypeOK, Versions, StaleIsSignalled, Upcoming
    <2> QED BY <2>1, <2>2, <2>3 DEF CacheInv
  <1>4. CASE Receive
    <2>1. TypeOK'
      BY <1>0, <1>4 DEF Receive, TypeOK, Versions, AtMostOne, MessagesAreEdits,
          HeldWasCached
    <2>2. MessagesAreEdits' /\ HeldWasCached'
      BY <1>0, <1>4 DEF Receive, TypeOK, Versions, MessagesAreEdits, HeldWasCached
    <2>3. StaleIsSignalled'
      BY <1>0, <1>4 DEF Receive, TypeOK, Versions, StaleIsSignalled, Upcoming
    <2> QED BY <2>1, <2>2, <2>3 DEF CacheInv
  <1>5. CASE Disconnect
    <2>1. TypeOK'
      <3>1. missed' \in BOOLEAN
        BY <1>0, <1>5, Zenon DEF Disconnect, TypeOK
      <3>2. faults' \in 0..MaxFaults /\ channel' \in Versions
        BY <1>0, <1>5 DEF Disconnect, TypeOK, Versions
      <3> QED BY <1>0, <1>5, <3>1, <3>2 DEF Disconnect, TypeOK
    <2>2. MessagesAreEdits' /\ HeldWasCached'
      BY <1>0, <1>5 DEF Disconnect, TypeOK, Versions, MessagesAreEdits, HeldWasCached
    <2>3. StaleIsSignalled'
      BY <1>0, <1>5 DEF Disconnect, TypeOK, Versions, StaleIsSignalled, Upcoming
    <2> QED BY <2>1, <2>2, <2>3 DEF CacheInv
  <1> QED BY <1>1, <1>2, <1>3, <1>4, <1>5

\* A step of the hot path keeps it: it only reads the cache.
LEMMA HotPathStep ==
    ASSUME CacheInv, LookUp \/ EvaluateHeld
    PROVE  CacheInv'
  <1> USE CacheBounds DEF api, loader
  <1>0. TypeOK /\ MessagesAreEdits /\ HeldWasCached /\ StaleIsSignalled
    BY DEF CacheInv
  <1>1. CASE LookUp
    <2>1. TypeOK'
      BY <1>0, <1>1 DEF LookUp, TypeOK, Versions, AtMostOne, MessagesAreEdits,
          HeldWasCached
    <2>2. MessagesAreEdits' /\ HeldWasCached'
      BY <1>0, <1>1 DEF LookUp, TypeOK, Versions, MessagesAreEdits, HeldWasCached
    <2>3. StaleIsSignalled'
      BY <1>0, <1>1 DEF LookUp, TypeOK, Versions, StaleIsSignalled, Upcoming
    <2> QED BY <2>1, <2>2, <2>3 DEF CacheInv
  <1>2. CASE EvaluateHeld
    <2>1. TypeOK'
      <3>1. cache \in Versions
        BY <1>0, <1>2 DEF EvaluateHeld, TypeOK, Versions, HeldWasCached
      <3>2. fingerprint' \subseteq Versions /\ AtMostOne(fingerprint')
        BY <1>2, <3>1 DEF EvaluateHeld, AtMostOne
      <3>3. held' \subseteq Versions /\ AtMostOne(held')
        BY <1>2 DEF EvaluateHeld, AtMostOne
      <3>4. latches' \subseteq Versions
        BY <1>0, <1>2 DEF EvaluateHeld, Aligned, TypeOK
      <3>5. AtMostOne(fingerprint)' /\ AtMostOne(held)'
        BY <3>2, <3>3 DEF AtMostOne
      <3> QED BY <1>0, <1>2, <3>2, <3>3, <3>4, <3>5 DEF EvaluateHeld, TypeOK, Versions
    <2>2. MessagesAreEdits' /\ HeldWasCached'
      BY <1>0, <1>2 DEF EvaluateHeld, TypeOK, Versions, MessagesAreEdits, HeldWasCached
    <2>3. StaleIsSignalled'
      BY <1>0, <1>2 DEF EvaluateHeld, TypeOK, Versions, StaleIsSignalled, Upcoming
    <2> QED BY <2>1, <2>2, <2>3 DEF CacheInv
  <1> QED BY <1>1, <1>2

\* The invariant of the rule cache holds throughout.
THEOREM CacheInvariant == Spec => []CacheInv
  <1>1. CacheInv /\ UNCHANGED vars => CacheInv'
    BY DEF vars, CacheInv, TypeOK, Versions, AtMostOne, MessagesAreEdits,
           HeldWasCached, StaleIsSignalled, Upcoming
  <1>2. CacheInv /\ [Next]_vars => CacheInv'
    BY <1>1, ApiStep, LoaderStep, HotPathStep DEF Next
  <1> QED BY InitCache, <1>2, PTL DEF Spec

\* Unless a message is lost, an out-of-date cache is always about to be
\* reloaded: committing before publishing, and selecting after receiving,
\* leave no gap (get_session, load_rule_cache).
THEOREM StaleIsSignalledTheorem == Spec => []StaleIsSignalled
  <1>1. CacheInv => StaleIsSignalled
    BY DEF CacheInv
  <1> QED BY <1>1, CacheInvariant, PTL
=============================================================================
