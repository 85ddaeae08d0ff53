---------------------------- MODULE CommandsProofs ----------------------------
(***************************************************************************)
(* Proofs about what leaves the platform and what comes back, for any number *)
(* of commands, rules, devices and failures: a command's way (CommandsInv is *)
(* inductive, and the path implements CommandLife), the generated sketch     *)
(* (SketchInv, ForgetInv, BoardInv), the watch over the rules' signals       *)
(* (HealthInv), device status and schedules (StatusInv, ScheduleInv) and a   *)
(* firing's deliveries (DeliveryInv).                                        *)
(***************************************************************************)
EXTENDS MCCommands, FiniteSetTheorems, WellFoundedInduction, TLAPS

-----------------------------------------------------------------------------
(* Sequences, element by element. *)

\* What Append adds and keeps.
LEMMA AppendElements ==
    ASSUME NEW S, NEW s \in Seq(S), NEW e \in S
    PROVE  /\ Append(s, e) \in Seq(S)
           /\ Len(Append(s, e)) = Len(s) + 1
           /\ DOMAIN Append(s, e) = 1..(Len(s) + 1)
           /\ DOMAIN s = 1..Len(s) /\ Len(s) \in Nat
           /\ \A i \in 1..Len(s) : Append(s, e)[i] = s[i] /\ s[i] \in S
           /\ Append(s, e)[Len(s) + 1] = e
  OBVIOUS

\* What Head takes and Tail leaves.
LEMMA TailElements ==
    ASSUME NEW S, NEW s \in Seq(S), s # << >>
    PROVE  /\ Tail(s) \in Seq(S) /\ Head(s) \in S /\ Head(s) = s[1]
           /\ Len(s) \in Nat \ {0} /\ DOMAIN s = 1..Len(s)
           /\ Len(Tail(s)) = Len(s) - 1
           /\ DOMAIN Tail(s) = 1..(Len(s) - 1)
           /\ \A i \in 1..(Len(s) - 1) : Tail(s)[i] = s[i + 1]
  OBVIOUS

-----------------------------------------------------------------------------
(* Types. *)

\* A command issued has a value, a loop, and a number within the bound.
LEMMA IssuedElements ==
    ASSUME TypeOK, NEW c \in Issued
    PROVE  /\ c \in 1..MaxCommands /\ c \in Nat \ {0}
           /\ cmds[c].value \in Values /\ cmds[c].loop \in Loops
<1> DEFINE C == [value : Values, loop : Loops, rule : BOOLEAN]
<1>1. cmds \in Seq(C) /\ Len(cmds) \in Nat
  BY DEF TypeOK
<1>2. Len(cmds) <= MaxCommands /\ MaxCommands \in Nat
  BY CommandsAssumption DEF TypeOK
<1>3. cmds[c] \in C
  <2> HIDE DEF C
  <2>1. QED
    BY <1>1 DEF Issued
<1>4. QED
  BY <1>1, <1>2, <1>3 DEF Issued

\* A command begins: cmds grows by one, and the loop works on the new one.
LEMMA IssueTypes ==
    ASSUME TypeOK, NEW l \in Loops, NEW v \in Values, NEW b \in BOOLEAN, Issue(l, v, b)
    PROVE  /\ cmds' \in Seq([value : Values, loop : Loops, rule : BOOLEAN])
           /\ Len(cmds) \in Nat /\ Len(cmds') = Len(cmds) + 1 /\ Len(cmds') <= MaxCommands
           /\ Issued' = Issued \cup {Len(cmds) + 1}
           /\ \A c \in Issued : cmds'[c] = cmds[c] /\ cmds[c].value \in Values
           /\ cmds'[Len(cmds) + 1] = [value |-> v, loop |-> l, rule |-> b]
           /\ work' = [work EXCEPT ![l] = [at |-> "cmd", id |-> Len(cmds) + 1]]
           /\ work' \in [Loops -> [at : {"idle", "cmd", "state", "row"}, id : 0..MaxCommands]]
           /\ overlapped' \in BOOLEAN
<1> DEFINE e == [value |-> v, loop |-> l, rule |-> b]
           C == [value : Values, loop : Loops, rule : BOOLEAN]
<1>1. e \in C /\ cmds \in Seq(C) /\ Len(cmds) < MaxCommands /\ cmds' = Append(cmds, e)
  BY DEF TypeOK, Issue
<1>2. /\ cmds' \in Seq(C) /\ Len(cmds) \in Nat /\ Len(cmds') = Len(cmds) + 1
      /\ \A c \in 1..Len(cmds) : cmds'[c] = cmds[c] /\ cmds[c] \in C
      /\ cmds'[Len(cmds) + 1] = e
  <2> HIDE DEF e, C
  <2>1. QED
    BY <1>1, AppendElements
<1>3. work' = [work EXCEPT ![l] = [at |-> "cmd", id |-> Len(cmds) + 1]]
  BY DEF Issue
<1>4. Len(cmds') <= MaxCommands
  BY <1>1, <1>2, CommandsAssumption
<1>5. work' \in [Loops -> [at : {"idle", "cmd", "state", "row"}, id : 0..MaxCommands]]
  BY <1>2, <1>3, <1>4 DEF TypeOK
<1>6. overlapped' \in BOOLEAN
  BY Zenon DEF Issue, TypeOK
<1>7. Issued' = Issued \cup {Len(cmds) + 1}
  BY <1>2 DEF Issued
<1>8. QED
  BY <1>2, <1>3, <1>4, <1>5, <1>6, <1>7 DEF Issued

\* What a publish puts on the wire, to a connected board only.
LEMMA SentElements ==
    ASSUME TypeOK, NEW msg \in Message, Sent(msg)
    PROVE  /\ wire' \in Seq(Message) /\ Len(wire) \in Nat
           /\ DOMAIN wire = 1..Len(wire)
           /\ \A i \in 1..Len(wire) : wire'[i] = wire[i] /\ wire[i] \in Message
           /\ plugged => /\ Len(wire') = Len(wire) + 1
                         /\ DOMAIN wire' = 1..(Len(wire) + 1)
                         /\ wire'[Len(wire) + 1] = msg
           /\ ~plugged => wire' = wire
<1>1. wire \in Seq(Message)
  BY DEF TypeOK
<1>2. CASE plugged
  BY <1>1, <1>2, AppendElements DEF Sent
<1>3. CASE ~plugged
  BY <1>1, <1>3 DEF Sent
<1>4. QED
  BY <1>2, <1>3

-----------------------------------------------------------------------------
(* Every action keeps CommandsInv. *)

\* A command begins (dispatch_command).
LEMMA IssueKeeps ==
    ASSUME CommandsInv, NEW l \in Loops, NEW v \in Values, NEW b \in BOOLEAN, Issue(l, v, b),
           requests' \in Seq(Values),
           UNCHANGED <<listening, acks, dbVars, retained, devVars, torn, unmatched>>
    PROVE  CommandsInv'
<1> DEFINE n == Len(cmds) + 1
<1> USE DEF dbVars, devVars
<1>0. TypeOK
  BY DEF CommandsInv
<1>1. /\ cmds' \in Seq([value : Values, loop : Loops, rule : BOOLEAN])
      /\ Len(cmds) \in Nat /\ Len(cmds') = Len(cmds) + 1 /\ Len(cmds') <= MaxCommands
      /\ Issued' = Issued \cup {n}
      /\ \A c \in Issued : cmds'[c] = cmds[c] /\ cmds[c].value \in Values
      /\ cmds'[n] = [value |-> v, loop |-> l, rule |-> b]
      /\ work' = [work EXCEPT ![l] = [at |-> "cmd", id |-> n]]
      /\ work' \in [Loops -> [at : {"idle", "cmd", "state", "row"}, id : 0..MaxCommands]]
      /\ overlapped' \in BOOLEAN
  BY <1>0, IssueTypes
<1>2. /\ n \in Nat \ {0} /\ n \notin Issued
      /\ n \notin rows /\ n \notin applied /\ n \notin acked
      /\ \A k \in Loops : work[k] # Idle => work[k].id # n
      /\ \A i \in DOMAIN wire : wire[i].kind = "cmd" => wire[i].id # n
  BY <1>1 DEF CommandsInv, TypeOK, WorkIsOwn, NothingUnasked, Issued
<1>3. /\ work[l] = Idle
      /\ work'[l] = [at |-> "cmd", id |-> n] /\ work'[l] # Idle
      /\ \A k \in Loops \ {l} : work'[k] = work[k]
  BY <1>0, <1>1 DEF Issue, Idle, TypeOK
<1> HIDE DEF n
<1>4. TypeOK'
  <2>1. Seq(Issued) \subseteq Seq(Issued')
    BY <1>1
  <2>2. QED
    BY <1>0, <1>1, <2>1 DEF TypeOK
<1>5. WorkIsOwn'
  <2>1. ASSUME NEW k \in Loops
        PROVE  /\ work'[k].at = "idle" => work'[k] = Idle
               /\ work'[k] # Idle => work'[k].id \in Issued' /\ cmds'[work'[k].id].loop = k
    <3>1. CASE k = l
      BY <1>1, <1>3, <3>1
    <3>2. CASE k # l
      BY <1>1, <1>3, <3>2 DEF CommandsInv, WorkIsOwn
    <3>3. QED
      BY <3>1, <3>2
  <2>2. QED
    BY <2>1 DEF WorkIsOwn, Idle
<1>6. EveryCommandAccounted'
  BY <1>0, <1>1, <1>2, <1>3 DEF CommandsInv, EveryCommandAccounted, Idle, TypeOK
<1>7. NothingUnasked'
  <2>1. \A u : Asked(u) => Asked(u)'
    BY <1>1 DEF Asked
  <2>2. QED
    BY <1>1, <2>1 DEF CommandsInv, NothingUnasked
<1>8. OnItsWayOnce'
  BY <1>0, <1>1, <1>2 DEF CommandsInv, OnItsWayOnce, TypeOK
<1>9. WireEndsDesired'
  BY <1>0, <1>1, <1>3 DEF CommandsInv, WireEndsDesired, Idle, TypeOK
<1>10. ConfirmedWasApplied' /\ (\A i \in DOMAIN acks : acks[i] \in applied)'
  BY DEF CommandsInv, ConfirmedWasApplied
<1>11. RuleAcksFindTheirRow'
  BY <1>0, <1>1 DEF CommandsInv, RuleAcksFindTheirRow, TypeOK
<1>12. QED
  BY <1>4, <1>5, <1>6, <1>7, <1>8, <1>9, <1>10, <1>11 DEF CommandsInv

\* A command goes out, and then its desired state (dispatch_command).
LEMMA PublishCmdKeeps ==
    ASSUME CommandsInv, NEW l \in Loops, PublishCmd(l)
    PROVE  CommandsInv'
<1> DEFINE c == work[l].id
           msg == [kind |-> "cmd", id |-> c, value |-> Value(c)]
<1> USE DEF dbVars, devVars, logVars
<1>0. TypeOK
  BY DEF CommandsInv
<1>1. /\ c \in Issued /\ c \in 1..MaxCommands /\ Value(c) \in Values /\ work[l] # Idle
      /\ Issued' = Issued
  <2>1. work[l] # Idle /\ cmds' = cmds
    BY DEF PublishCmd, Idle
  <2>2. c \in Issued
    BY <2>1 DEF CommandsInv, WorkIsOwn
  <2>3. cmds[c].value \in Values /\ c \in 1..MaxCommands
    BY <1>0, <2>2, IssuedElements
  <2>4. QED
    BY <2>1, <2>2, <2>3 DEF Value, Issued
<1>2. msg \in Message
  BY <1>1 DEF Message
<1>3. /\ wire' \in Seq(Message) /\ Len(wire) \in Nat
      /\ DOMAIN wire = 1..Len(wire)
      /\ \A i \in 1..Len(wire) : wire'[i] = wire[i] /\ wire[i] \in Message
      /\ plugged => /\ Len(wire') = Len(wire) + 1
                    /\ DOMAIN wire' = 1..(Len(wire) + 1)
                    /\ wire'[Len(wire) + 1] = msg
      /\ ~plugged => wire' = wire
  <2>1. Sent(msg)
    BY DEF PublishCmd
  <2> HIDE DEF msg
  <2>2. QED
    BY <1>0, <1>2, <2>1, SentElements
<1>4. /\ work' = [work EXCEPT ![l].at = "state"] /\ work[l].at = "cmd"
      /\ work'[l] = [at |-> "state", id |-> c]
      /\ \A k \in Loops \ {l} : work'[k] = work[k]
      /\ \A k \in Loops : work'[k].id = work[k].id /\ (work'[k] = Idle <=> work[k] = Idle)
      /\ work' \in [Loops -> [at : {"idle", "cmd", "state", "row"}, id : 0..MaxCommands]]
  BY <1>0, <1>1 DEF PublishCmd, TypeOK, Idle
<1>5. UNCHANGED <<requests, listening, acks, cmds, dbVars, retained, plugged, pin, applied, logVars>>
  BY DEF PublishCmd
<1>6. msg.kind = "cmd" /\ msg.id = c /\ msg.value = cmds[c].value
  BY DEF Value
<1> HIDE DEF msg
<1>7. TypeOK'
  BY <1>0, <1>1, <1>3, <1>4, <1>5 DEF TypeOK
<1>8. WorkIsOwn' /\ EveryCommandAccounted'
  BY <1>1, <1>4, <1>5 DEF CommandsInv, WorkIsOwn, EveryCommandAccounted, Idle
<1>9. NothingUnasked'
  BY SMTT(30), <1>1, <1>3, <1>5, <1>6 DEF CommandsInv, NothingUnasked, Asked
<1>10. OnItsWayOnce'
  <2>1. c \notin applied /\ \A i \in DOMAIN wire : wire[i].kind = "cmd" => wire[i].id # c
    BY <1>4 DEF CommandsInv, OnItsWayOnce
  <2>2. \A k \in Loops \ {l} : work[k].at = "cmd" => work[k].id # c
    BY <1>1 DEF CommandsInv, WorkIsOwn, Idle
  <2>3. DOMAIN wire' = 1..Len(wire) \/ (DOMAIN wire' = 1..(Len(wire) + 1) /\ wire'[Len(wire) + 1] = msg)
    BY <1>3
  <2>4. \A i \in DOMAIN wire' : wire'[i].kind = "cmd" => wire'[i].id \notin applied'
    BY SMTT(30), <1>3, <1>5, <1>6, <2>1, <2>3 DEF CommandsInv, OnItsWayOnce
  <2>5. \A i, j \in DOMAIN wire' :
           wire'[i].kind = "cmd" /\ wire'[j].kind = "cmd" /\ wire'[i].id = wire'[j].id => i = j
    <3> SUFFICES ASSUME NEW i \in DOMAIN wire', NEW j \in DOMAIN wire', wire'[i].kind = "cmd",
                        wire'[j].kind = "cmd", wire'[i].id = wire'[j].id
                 PROVE  i = j
      OBVIOUS
    <3>1. \A n \in DOMAIN wire' :
             \/ n \in DOMAIN wire /\ wire'[n] = wire[n]
             \/ n = Len(wire) + 1 /\ wire'[n] = msg
      BY <1>3, <2>3
    <3>2. CASE i \in DOMAIN wire /\ j \in DOMAIN wire /\ wire'[i] = wire[i] /\ wire'[j] = wire[j]
      BY <3>2 DEF CommandsInv, OnItsWayOnce
    <3>3. QED
      BY <1>6, <2>1, <3>1, <3>2
  <2>6. \A k \in Loops : work'[k].at = "cmd" =>
           /\ work'[k].id \notin applied'
           /\ \A i \in DOMAIN wire' : wire'[i].kind = "cmd" => wire'[i].id # work'[k].id
    <3> SUFFICES ASSUME NEW k \in Loops, work'[k].at = "cmd"
                 PROVE  /\ work'[k].id \notin applied'
                        /\ \A i \in DOMAIN wire' : wire'[i].kind = "cmd" => wire'[i].id # work'[k].id
      OBVIOUS
    <3>1. k # l /\ work'[k] = work[k] /\ work[k].id # c
      BY <1>4, <2>2
    <3>2. QED
      BY SMTT(30), <1>3, <1>5, <1>6, <2>3, <3>1 DEF CommandsInv, OnItsWayOnce
  <2>7. QED
    BY <2>4, <2>5, <2>6 DEF OnItsWayOnce
<1>11. WireEndsDesired'
  BY <1>3, <1>4, <1>5 DEF CommandsInv, WireEndsDesired
<1>12. (ConfirmedWasApplied /\ RuleAcksFindTheirRow /\ \A i \in DOMAIN acks : acks[i] \in applied)'
  BY <1>5 DEF CommandsInv, ConfirmedWasApplied, RuleAcksFindTheirRow
<1>13. QED
  BY <1>7, <1>8, <1>9, <1>10, <1>11, <1>12 DEF CommandsInv

\* The loop publishes the output's state: the broker keeps it and the board has it
\* on its way.
LEMMA PublishStateKeeps ==
    ASSUME CommandsInv, NEW l \in Loops, PublishState(l)
    PROVE  CommandsInv'
<1> DEFINE c == work[l].id
           msg == [kind |-> "state", id |-> c, value |-> Value(c)]
<1> USE DEF dbVars, devVars, logVars
<1>0. TypeOK
  BY DEF CommandsInv
<1>1. /\ c \in Issued /\ c \in 1..MaxCommands /\ Value(c) \in Values
      /\ Issued' = Issued /\ Value(c) = cmds[c].value
  <2>1. work[l] # Idle /\ cmds' = cmds
    BY DEF PublishState, Idle
  <2>2. c \in Issued
    BY <2>1 DEF CommandsInv, WorkIsOwn
  <2>3. QED
    BY <1>0, <2>1, <2>2, IssuedElements DEF Value, Issued
<1>2. msg \in Message
  BY <1>1 DEF Message
<1>3. /\ wire' \in Seq(Message) /\ Len(wire) \in Nat
      /\ DOMAIN wire = 1..Len(wire)
      /\ \A i \in 1..Len(wire) : wire'[i] = wire[i] /\ wire[i] \in Message
      /\ plugged => /\ Len(wire') = Len(wire) + 1
                    /\ DOMAIN wire' = 1..(Len(wire) + 1)
                    /\ wire'[Len(wire) + 1] = msg
      /\ ~plugged => wire' = wire
  <2>1. Sent(msg)
    BY DEF PublishState
  <2> HIDE DEF msg
  <2>2. QED
    BY <1>0, <1>2, <2>1, SentElements
<1>4. /\ work[l].at = "state" /\ work'[l] = [at |-> "row", id |-> c]
      /\ \A k \in Loops \ {l} : work'[k] = work[k]
      /\ \A k \in Loops : work'[k].id = work[k].id /\ (work'[k] = Idle <=> work[k] = Idle)
      /\ work' \in [Loops -> [at : {"idle", "cmd", "state", "row"}, id : 0..MaxCommands]]
  BY <1>0, <1>1 DEF PublishState, TypeOK, Idle
<1>5. /\ UNCHANGED <<requests, listening, acks, cmds, rows, acked, plugged, pin, applied, logVars>>
      /\ retained' = Value(c) /\ published' = Append(published, c)
  BY DEF PublishState, Retain
<1>6. msg.kind = "state" /\ msg.value = Value(c)
  OBVIOUS
<1>7. DOMAIN wire' = 1..Len(wire) \/ (DOMAIN wire' = 1..(Len(wire) + 1) /\ wire'[Len(wire) + 1] = msg)
  BY <1>3
<1> HIDE DEF msg
<1>8. TypeOK'
  <2>1. published' \in Seq(Issued')
    BY <1>0, <1>1, <1>5, AppendElements DEF TypeOK
  <2>2. QED
    BY <1>0, <1>1, <1>3, <1>4, <1>5, <2>1 DEF TypeOK
<1>9. WorkIsOwn' /\ EveryCommandAccounted'
  <2>1. cmds' = cmds /\ rows' = rows /\ torn' = torn
    BY <1>5
  <2>2. WorkIsOwn'
    BY <1>1, <1>4, <2>1 DEF CommandsInv, WorkIsOwn, Idle
  <2>3. EveryCommandAccounted'
    BY <1>1, <1>4, <2>1 DEF CommandsInv, EveryCommandAccounted
  <2>4. QED
    BY <2>2, <2>3
<1>10. NothingUnasked'
  <2>1. \A u : Asked(u)' <=> Asked(u)
    BY <1>1, <1>5 DEF Asked
  <2>2. Asked(Value(c))
    BY <1>1 DEF Asked
  <2>3. Asked(retained)' /\ Asked(pin)'
    BY <1>5, <2>1, <2>2 DEF CommandsInv, NothingUnasked, Asked
  <2>4. ASSUME NEW i \in DOMAIN wire'
        PROVE  /\ Asked(wire'[i].value)
               /\ wire'[i].kind = "cmd" => wire'[i].id \in Issued /\ wire'[i].value = cmds[wire'[i].id].value
    <3>1. CASE i \in 1..Len(wire)
      BY <1>3, <3>1 DEF CommandsInv, NothingUnasked
    <3>2. CASE i \notin 1..Len(wire)
      <4>1. wire'[i] = msg
        BY <1>3, <1>7, <3>2
      <4>2. QED
        BY <1>6, <2>2, <4>1
    <3>3. QED
      BY <3>1, <3>2
  <2>5. QED
    BY <1>1, <1>5, <2>1, <2>3, <2>4 DEF NothingUnasked, Asked
<1>11. OnItsWayOnce'
  <2>1. \A k \in Loops : work'[k].at = "cmd" => work[k].at = "cmd" /\ work'[k].id = work[k].id
    BY <1>4
  <2>2. \A i \in DOMAIN wire' : wire'[i].kind = "cmd" => i \in DOMAIN wire /\ wire'[i] = wire[i]
    BY <1>3, <1>6, <1>7
  <2>3. QED
    BY <1>5, <2>1, <2>2 DEF CommandsInv, OnItsWayOnce
<1>12. WireEndsDesired'
  <2>1. ~plugged' => wire' = << >>
    BY <1>3, <1>5 DEF CommandsInv, WireEndsDesired
  <2>2. retained' # Unset /\ retained' = msg.value
    BY <1>1, <1>5, <1>6, CommandsAssumption
  <2>3. CASE plugged
    BY <1>3, <1>5, <2>1, <2>2, <2>3 DEF WireEndsDesired
  <2>4. CASE ~plugged
    BY <1>5, <2>1, <2>2, <2>4 DEF WireEndsDesired
  <2>5. QED
    BY <2>3, <2>4
<1>13. (ConfirmedWasApplied /\ RuleAcksFindTheirRow /\ \A i \in DOMAIN acks : acks[i] \in applied)'
  BY <1>5 DEF CommandsInv, ConfirmedWasApplied, RuleAcksFindTheirRow
<1>14. QED
  BY <1>8, <1>9, <1>10, <1>11, <1>12, <1>13 DEF CommandsInv

\* The audit row is written.
LEMMA WriteRowKeeps ==
    ASSUME CommandsInv, NEW l \in Loops, WriteRow(l)
    PROVE  CommandsInv'
<1> USE DEF dbVars, devVars, logVars
<1>0. TypeOK /\ work[l] # Idle /\ work[l].id \in Issued
  BY DEF CommandsInv, WriteRow, WorkIsOwn, Idle
<1>1. /\ rows' = rows \cup {work[l].id} /\ work[l].at = "row"
      /\ UNCHANGED <<requests, listening, acks, cmds, published, acked, retained, devVars, logVars>>
      /\ work'[l] = Idle
      /\ \A k \in Loops \ {l} : work'[k] = work[k]
      /\ work' \in [Loops -> [at : {"idle", "cmd", "state", "row"}, id : 0..MaxCommands]]
      /\ Issued' = Issued
  BY <1>0, CommandsAssumption DEF WriteRow, TypeOK, Idle, Issued
<1>2. TypeOK'
  BY <1>0, <1>1 DEF TypeOK
<1>3. WorkIsOwn'
  BY <1>1 DEF CommandsInv, WorkIsOwn, Idle
<1>4. EveryCommandAccounted'
  BY <1>1 DEF CommandsInv, EveryCommandAccounted
<1>5. NothingUnasked'
  BY <1>1 DEF CommandsInv, NothingUnasked, Asked
<1>6. OnItsWayOnce'
  BY <1>1 DEF CommandsInv, OnItsWayOnce, Idle
<1>7. WireEndsDesired'
  BY <1>1 DEF CommandsInv, WireEndsDesired, Idle
<1>8. (ConfirmedWasApplied /\ RuleAcksFindTheirRow /\ \A i \in DOMAIN acks : acks[i] \in applied)'
  BY <1>1 DEF CommandsInv, ConfirmedWasApplied, RuleAcksFindTheirRow
<1>9. QED
  BY <1>2, <1>3, <1>4, <1>5, <1>6, <1>7, <1>8 DEF CommandsInv


\* A dispatch is cut short: by an error in one loop, or by the worker's end.
\* What was being dispatched in the loops L is torn.
LEMMA TornKeeps ==
    ASSUME CommandsInv, NEW L \in SUBSET Loops, NEW l \in L, work[l] # Idle,
           torn' \subseteq Issued, torn \subseteq torn',
           \A k \in L : work'[k] = Idle /\ (work[k] # Idle => work[k].id \in torn'),
           \A k \in Loops \ L : work'[k] = work[k],
           work' \in [Loops -> [at : {"idle", "cmd", "state", "row"}, id : 0..MaxCommands]],
           requests' = requests \/ requests' = << >>, listening' \in BOOLEAN, acks' = acks \/ acks' = << >>,
           UNCHANGED <<cmds, dbVars, retained, devVars, unmatched, overlapped>>
    PROVE  CommandsInv'
<1> USE DEF dbVars, devVars
<1>0. TypeOK
  BY DEF CommandsInv
<1>1. torn' # {} /\ Issued' = Issued
  BY DEF Issued
<1>2. TypeOK'
  <2>1. \A S : << >> \in Seq(S)
    OBVIOUS
  <2>2. requests' \in Seq(Values) /\ acks' \in Seq(Issued')
    BY <1>0, <1>1, <2>1, Zenon DEF TypeOK
  <2>3. QED
    BY <1>0, <1>1, <2>2 DEF TypeOK
<1>3. WorkIsOwn'
  BY <1>1 DEF CommandsInv, WorkIsOwn
<1>4. EveryCommandAccounted'
  BY <1>1 DEF CommandsInv, EveryCommandAccounted
<1>5. NothingUnasked'
  BY <1>1 DEF CommandsInv, NothingUnasked, Asked
<1>6. OnItsWayOnce'
  BY DEF CommandsInv, OnItsWayOnce, Idle
<1>7. WireEndsDesired'
  BY <1>1 DEF CommandsInv, WireEndsDesired
<1>8. (ConfirmedWasApplied /\ RuleAcksFindTheirRow /\ \A i \in DOMAIN acks : acks[i] \in applied)'
  BY DEF CommandsInv, ConfirmedWasApplied, RuleAcksFindTheirRow
<1>9. QED
  BY <1>2, <1>3, <1>4, <1>5, <1>6, <1>7, <1>8 DEF CommandsInv

\* A step of dispatch_command that raises: the command is torn, and stays where it was.
LEMMA DispatchFailsKeeps ==
    ASSUME CommandsInv, DispatchFails
    PROVE  CommandsInv'
<1> USE DEF dbVars, devVars, logVars
<1>0. /\ TypeOK /\ "manual" \in Loops /\ torn \subseteq Issued
      /\ Idle \in [at : {"idle", "cmd", "state", "row"}, id : 0..MaxCommands]
      /\ \A l \in Loops : work[l] # Idle => work[l].id \in Issued
  BY CommandsAssumption DEF CommandsInv, WorkIsOwn, TypeOK, Loops, Idle
<1>1. ASSUME NEW l \in Loops, RuleDispatchFails(l) PROVE CommandsInv'
  <2>1. /\ work[l] # Idle /\ torn' = torn \cup {work[l].id} /\ work' = [work EXCEPT ![l] = Idle]
        /\ UNCHANGED <<requests, listening, acks, cmds, dbVars, retained, devVars, unmatched, overlapped>>
    BY <1>1 DEF RuleDispatchFails
  <2>2. /\ work'[l] = Idle /\ \A k \in Loops \ {l} : work'[k] = work[k]
        /\ work' \in [Loops -> [at : {"idle", "cmd", "state", "row"}, id : 0..MaxCommands]]
    BY <1>0, <2>1 DEF TypeOK
  <2>3. {l} \in SUBSET Loops /\ l \in {l} /\ torn' \subseteq Issued /\ listening' \in BOOLEAN
    BY <1>0, <2>1 DEF TypeOK
  <2>4. QED
    BY <2>1, <2>2, <2>3, TornKeeps
<1>2. CASE ManualPublishFails
  <2>1. /\ work["manual"] # Idle /\ torn' = torn \cup {work["manual"].id}
        /\ work' = [work EXCEPT !["manual"] = Idle] /\ requests' = << >> /\ listening' = FALSE
        /\ UNCHANGED <<acks, cmds, dbVars, retained, devVars, unmatched, overlapped>>
    BY <1>2 DEF ManualPublishFails, Idle
  <2>2. /\ work'["manual"] = Idle /\ \A k \in Loops \ {"manual"} : work'[k] = work[k]
        /\ work' \in [Loops -> [at : {"idle", "cmd", "state", "row"}, id : 0..MaxCommands]]
    BY <1>0, <2>1 DEF TypeOK
  <2>3. {"manual"} \in SUBSET Loops /\ "manual" \in {"manual"} /\ torn' \subseteq Issued
    BY <1>0, <2>1
  <2>4. QED
    BY <2>1, <2>2, <2>3, TornKeeps
<1>3. CASE ManualRowFails
  <2>1. /\ work["manual"] # Idle /\ torn' = torn \cup ({work[l].id : l \in Loops} \ {0})
        /\ work' = [l \in Loops |-> Idle] /\ requests' = << >> /\ listening' = FALSE /\ acks' = << >>
        /\ UNCHANGED <<cmds, dbVars, retained, devVars, unmatched, overlapped>>
    BY <1>3 DEF ManualRowFails, Idle
  <2>2. \A l \in Loops : work[l].id # 0 => work[l] # Idle
    BY DEF Idle
  <2>3. torn' \subseteq Issued
    BY <1>0, <2>1, <2>2
  <2>4. \A l \in Loops : work[l] # Idle => work[l].id \in torn'
    BY <1>0, <2>1 DEF Issued
  <2>5. /\ \A l \in Loops : work'[l] = Idle
        /\ work' \in [Loops -> [at : {"idle", "cmd", "state", "row"}, id : 0..MaxCommands]]
    BY <1>0, <2>1
  <2>6. Loops \in SUBSET Loops
    OBVIOUS
  <2>7. QED
    BY <1>0, <2>1, <2>3, <2>4, <2>5, <2>6, TornKeeps
<1>4. QED
  BY <1>1, <1>2, <1>3 DEF DispatchFails

\* An acknowledgement is handled (record_ack).
LEMMA HandleAckKeeps ==
    ASSUME CommandsInv, HandleAck
    PROVE  CommandsInv'
<1> DEFINE c == Head(acks)
<1> USE DEF dbVars, devVars, logVars
<1>0. TypeOK
  BY DEF CommandsInv
<1>1. /\ acked' = (IF c \in rows THEN acked \cup {c} ELSE acked)
      /\ unmatched' = (IF c \in rows THEN unmatched ELSE unmatched \cup {c})
      /\ acks' = Tail(acks) /\ acks # << >> /\ work["ingest"] = Idle
      /\ UNCHANGED <<requests, listening, work, cmds, published, rows, retained, devVars, torn, overlapped>>
      /\ Issued' = Issued
  BY DEF HandleAck, record_ack, Noted, Issued
<1>2. /\ acks \in Seq(Issued) /\ acks' \in Seq(Issued) /\ c \in Issued /\ c \in applied
      /\ \A i \in DOMAIN acks' : acks'[i] \in applied
  <2>1. acks \in Seq(Issued)
    BY <1>0 DEF TypeOK
  <2>2. /\ Tail(acks) \in Seq(Issued) /\ c \in Issued /\ c = acks[1]
        /\ Len(acks) \in Nat \ {0} /\ DOMAIN acks = 1..Len(acks)
        /\ DOMAIN Tail(acks) = 1..(Len(acks) - 1)
        /\ \A i \in 1..(Len(acks) - 1) : Tail(acks)[i] = acks[i + 1]
    BY <1>1, <2>1, TailElements
  <2>3. QED
    BY <1>1, <2>1, <2>2 DEF CommandsInv
<1> HIDE DEF c
<1>3. TypeOK'
  BY <1>0, <1>1, <1>2 DEF TypeOK
<1>4. WorkIsOwn' /\ EveryCommandAccounted'
  BY <1>1 DEF CommandsInv, WorkIsOwn, EveryCommandAccounted
<1>5. NothingUnasked'
  BY <1>1 DEF CommandsInv, NothingUnasked, Asked
<1>6. OnItsWayOnce' /\ WireEndsDesired'
  BY <1>1 DEF CommandsInv, OnItsWayOnce, WireEndsDesired
<1>7. ConfirmedWasApplied'
  BY <1>1, <1>2 DEF CommandsInv, ConfirmedWasApplied
<1>8. RuleAcksFindTheirRow'
  <2>1. c \notin rows \cup torn => cmds[c].loop = "manual"
    BY <1>1, <1>2 DEF CommandsInv, EveryCommandAccounted, WorkIsOwn, Loops
  <2>2. QED
    BY <1>1, <2>1 DEF CommandsInv, RuleAcksFindTheirRow
<1>9. QED
  BY <1>1, <1>2, <1>3, <1>4, <1>5, <1>6, <1>7, <1>8 DEF CommandsInv

\* The board takes a message: a command (handleCommand) or a desired state
\* (handleState).
LEMMA DeliverKeeps ==
    ASSUME CommandsInv, Deliver
    PROVE  CommandsInv'
<1> DEFINE msg == Head(wire)
<1> USE DEF dbVars, devVars, logVars
<1>0. TypeOK
  BY DEF CommandsInv
<1>1. /\ plugged /\ wire # << >> /\ wire' = Tail(wire)
      /\ UNCHANGED <<requests, listening, work, cmds, dbVars, retained, plugged, logVars>>
      /\ Issued' = Issued
  BY DEF Deliver, Issued
<1>2. /\ wire' \in Seq(Message) /\ msg \in Message /\ msg = wire[1]
      /\ Len(wire) \in Nat \ {0} /\ DOMAIN wire = 1..Len(wire)
      /\ Len(wire') = Len(wire) - 1 /\ DOMAIN wire' = 1..(Len(wire) - 1)
      /\ \A i \in 1..(Len(wire) - 1) : wire'[i] = wire[i + 1] /\ i + 1 \in DOMAIN wire
      /\ 1 \in DOMAIN wire
  <2>1. wire \in Seq(Message)
    BY <1>0 DEF TypeOK
  <2>2. QED
    BY <1>1, <2>1, TailElements
<1>3. /\ Asked(msg.value) /\ msg.value \in Values /\ msg.id \in 0..MaxCommands
      /\ msg.kind = "cmd" => msg.id \in Issued /\ msg.value = cmds[msg.id].value /\ msg.id \notin applied
      /\ msg.kind = "cmd" => \A i \in DOMAIN wire' : wire'[i].kind = "cmd" => wire'[i].id # msg.id
      /\ msg.kind = "cmd" => \A l \in Loops : work[l].at = "cmd" => work[l].id # msg.id
  <2>1. Asked(msg.value) /\ (msg.kind = "cmd" => msg.id \in Issued /\ msg.value = cmds[msg.id].value /\ msg.id \notin applied)
    BY <1>2 DEF CommandsInv, NothingUnasked, OnItsWayOnce
  <2>2. ASSUME msg.kind = "cmd", NEW i \in DOMAIN wire', wire'[i].kind = "cmd"
        PROVE  wire'[i].id # msg.id
    <3>1. i + 1 \in DOMAIN wire /\ 1 \in DOMAIN wire /\ i + 1 # 1 /\ wire'[i] = wire[i + 1] /\ msg = wire[1]
      BY <1>2
    <3>2. QED
      BY <2>2, <3>1 DEF CommandsInv, OnItsWayOnce
  <2>3. msg.kind = "cmd" => \A l \in Loops : work[l].at = "cmd" => work[l].id # msg.id
    BY <1>2 DEF CommandsInv, OnItsWayOnce
  <2>4. msg.value \in Values /\ msg.id \in 0..MaxCommands
    BY <1>2 DEF Message
  <2>5. QED
    BY <2>1, <2>2, <2>3, <2>4
<1>4. /\ pin' = IF msg.value \in Refused THEN pin ELSE msg.value
      /\ applied' = IF msg.kind = "cmd" /\ msg.value \notin Refused THEN applied \cup {msg.id} ELSE applied
      /\ acks' = acks \/ (msg.kind = "cmd" /\ msg.value \notin Refused /\ acks' = Append(acks, msg.id))
  BY DEF Deliver, handleCommand, handleState
<1> HIDE DEF msg
<1>5. acks' \in Seq(Issued) /\ \A i \in DOMAIN acks' : acks'[i] \in applied'
  <2>1. acks \in Seq(Issued) /\ \A i \in DOMAIN acks : acks[i] \in applied
    BY <1>0 DEF TypeOK, CommandsInv
  <2>2. CASE acks' = acks
    BY <1>4, <2>1, <2>2
  <2>3. CASE msg.kind = "cmd" /\ msg.value \notin Refused /\ acks' = Append(acks, msg.id)
    <3>1. /\ acks' \in Seq(Issued) /\ Len(acks) \in Nat
          /\ DOMAIN acks' = 1..(Len(acks) + 1) /\ DOMAIN acks = 1..Len(acks)
          /\ \A i \in 1..Len(acks) : acks'[i] = acks[i]
          /\ acks'[Len(acks) + 1] = msg.id
      BY <1>3, <2>1, <2>3, AppendElements
    <3>2. applied' = applied \cup {msg.id}
      BY <1>4, <2>3
    <3>3. ASSUME NEW i \in DOMAIN acks' PROVE acks'[i] \in applied'
      <4>1. CASE i \in 1..Len(acks)
        BY <2>1, <3>1, <3>2, <4>1
      <4>2. CASE i = Len(acks) + 1
        BY <3>1, <3>2, <4>2
      <4>3. QED
        BY <3>1, <4>1, <4>2
    <3>4. QED
      BY <3>1, <3>3
  <2>4. QED
    BY <1>4, <2>2, <2>3
<1>6. TypeOK'
  BY <1>0, <1>1, <1>2, <1>3, <1>4, <1>5 DEF TypeOK
<1>7. WorkIsOwn' /\ EveryCommandAccounted'
  BY <1>1 DEF CommandsInv, WorkIsOwn, EveryCommandAccounted
<1>8. NothingUnasked'
  <2>1. \A u : Asked(u)' <=> Asked(u)
    BY <1>1 DEF Asked
  <2>2. Asked(pin')
    BY <1>3, <1>4 DEF CommandsInv, NothingUnasked
  <2>3. QED
    BY <1>1, <1>2, <2>1, <2>2 DEF CommandsInv, NothingUnasked, Asked
<1>9. OnItsWayOnce'
  <2>1. \A i \in DOMAIN wire' : wire'[i].kind = "cmd" => wire'[i].id \notin applied'
    BY <1>2, <1>3, <1>4 DEF CommandsInv, OnItsWayOnce
  <2>2. \A i, j \in DOMAIN wire' :
           wire'[i].kind = "cmd" /\ wire'[j].kind = "cmd" /\ wire'[i].id = wire'[j].id => i = j
    BY SMTT(30), <1>2 DEF CommandsInv, OnItsWayOnce
  <2>3. \A l \in Loops : work'[l].at = "cmd" =>
           /\ work'[l].id \notin applied'
           /\ \A i \in DOMAIN wire' : wire'[i].kind = "cmd" => wire'[i].id # work'[l].id
    BY <1>1, <1>2, <1>3, <1>4 DEF CommandsInv, OnItsWayOnce
  <2>4. QED
    BY <2>1, <2>2, <2>3 DEF OnItsWayOnce
<1>10. WireEndsDesired'
  <2> SUFFICES ASSUME torn = {}, \A l \in Loops : work[l].at # "state"
               PROVE  /\ wire' # << >> => wire'[Len(wire')].value = retained
                      /\ wire' = << >> /\ retained \notin Refused => pin' = retained
                      /\ retained = Unset => pin' = Unset
    BY <1>1 DEF WireEndsDesired
  <2>1. wire[Len(wire)].value = retained /\ wire[Len(wire)] \in Message
    BY <1>0, <1>1, <1>2 DEF CommandsInv, WireEndsDesired, TypeOK
  <2>2. retained # Unset
    BY <2>1, CommandsAssumption DEF Message
  <2>3. wire' # << >> => wire'[Len(wire')].value = retained
    BY <1>2, <2>1
  <2>4. wire' = << >> /\ retained \notin Refused => pin' = retained
    <3>1. Len(<< >>) = 0
      OBVIOUS
    <3>2. ASSUME wire' = << >> PROVE Len(wire) = 1
      <4>1. Len(wire') = 0 /\ Len(wire') = Len(wire) - 1 /\ Len(wire) \in Nat
        BY <1>2, <3>1, <3>2
      <4>2. QED
        BY <4>1
    <3>3. QED
      BY <1>2, <1>4, <2>1, <3>2
  <2>5. QED
    BY <2>2, <2>3, <2>4
<1>11. ConfirmedWasApplied' /\ RuleAcksFindTheirRow'
  BY <1>1, <1>4 DEF CommandsInv, ConfirmedWasApplied, RuleAcksFindTheirRow
<1>12. QED
  BY <1>1, <1>5, <1>6, <1>7, <1>8, <1>9, <1>10, <1>11 DEF CommandsInv

\* The board drops off, or comes back and is sent the retained state.
LEMMA ConnectionKeeps ==
    ASSUME CommandsInv, Plug \/ \E r \in BOOLEAN : Unplug(r)
    PROVE  CommandsInv'
<1> USE DEF wkVars, dbVars, devVars, logVars
<1> DEFINE msg == [kind |-> "state", id |-> 0, value |-> retained]
<1>0. TypeOK
  BY DEF CommandsInv
<1>1. /\ UNCHANGED <<wkVars, cmds, dbVars, retained, applied, logVars>>
      /\ Issued' = Issued /\ plugged' = ~plugged /\ plugged' \in BOOLEAN
      /\ pin' = pin \/ (plugged /\ pin' = Unset)
      /\ wire' = << >> \/ (~plugged /\ retained # Unset /\ wire' = <<msg>>)
      /\ ~plugged => wire' = (IF retained = Unset THEN << >> ELSE <<msg>>)
  BY <1>0 DEF Plug, Unplug, Issued, TypeOK
<1>2. retained # Unset => msg \in Message
  BY <1>0, CommandsAssumption DEF TypeOK, Message
<1>3. msg.kind = "state" /\ msg.value = retained
  OBVIOUS
<1> HIDE DEF msg
<1>4. TypeOK'
  <2>1. \A S : << >> \in Seq(S)
    OBVIOUS
  <2>2. retained # Unset => <<msg>> \in Seq(Message)
    BY <1>2
  <2>3. wire' \in Seq(Message)
    BY <1>1, <2>1, <2>2, Zenon
  <2>4. QED
    BY <1>0, <1>1, <2>3 DEF TypeOK
<1>5. WorkIsOwn' /\ EveryCommandAccounted'
  BY <1>1 DEF CommandsInv, WorkIsOwn, EveryCommandAccounted
<1>6. NothingUnasked'
  BY <1>1, <1>3 DEF CommandsInv, NothingUnasked, Asked
<1>7. OnItsWayOnce'
  BY <1>1, <1>3 DEF CommandsInv, OnItsWayOnce
<1>8. WireEndsDesired'
  <2> SUFFICES ASSUME torn = {}, \A l \in Loops : work[l].at # "state"
               PROVE  /\ wire' # << >> => wire'[Len(wire')].value = retained
                      /\ plugged' /\ wire' = << >> /\ retained \notin Refused => pin' = retained
                      /\ retained = Unset => pin' = Unset
    BY <1>0, <1>1 DEF WireEndsDesired, TypeOK
  <2>1. retained = Unset => pin = Unset
    BY DEF CommandsInv, WireEndsDesired
  <2>2. retained = Unset => pin' = Unset
    BY <1>1, <2>1
  <2>3. <<msg>>[Len(<<msg>>)] = msg /\ <<msg>> # << >>
    OBVIOUS
  <2>4. wire' # << >> => wire' = <<msg>>
    BY <1>1
  <2>5. plugged' /\ wire' = << >> => retained = Unset
    BY <1>1, <2>3
  <2>6. QED
    BY <1>3, <2>2, <2>3, <2>4, <2>5
<1>9. (ConfirmedWasApplied /\ RuleAcksFindTheirRow /\ \A i \in DOMAIN acks : acks[i] \in applied)'
  BY <1>1 DEF CommandsInv, ConfirmedWasApplied, RuleAcksFindTheirRow
<1>10. QED
  BY <1>4, <1>5, <1>6, <1>7, <1>8, <1>9 DEF CommandsInv

\* A step of anything keeps CommandsInv, and so does a step of nothing.
LEMMA NextKeeps == CommandsInv /\ [CommandsNext]_cmdVars => CommandsInv'
<1> SUFFICES ASSUME CommandsInv, [CommandsNext]_cmdVars PROVE CommandsInv'
  OBVIOUS
<1>0. TypeOK /\ requests \in Seq(Values) /\ "manual" \in Loops
  BY DEF CommandsInv, TypeOK, Loops
<1>1. ASSUME NEW l \in Loops, NEW v \in Values, RuleFires(l, v) PROVE CommandsInv'
  BY <1>0, <1>1, IssueKeeps DEF RuleFires
<1>2. ASSUME NEW v \in Values, Request(v), UNCHANGED <<listening, work, acks, cmds, dbVars, retained, devVars, logVars>>
      PROVE  CommandsInv'
  <2>1. requests' \in Seq(Values)
    BY <1>0, <1>2 DEF Request
  <2>2. UNCHANGED <<listening, work, acks, cmds, published, rows, acked, retained, wire, plugged, pin, applied,
                    torn, unmatched, overlapped>> /\ Issued' = Issued
    BY <1>2 DEF dbVars, devVars, logVars, Issued
  <2>3. QED
    BY <2>1, <2>2 DEF CommandsInv, TypeOK, WorkIsOwn, EveryCommandAccounted, NothingUnasked, Asked, OnItsWayOnce,
                      WireEndsDesired, ConfirmedWasApplied, RuleAcksFindTheirRow
<1>3. CASE TakeRequest
  <2>1. requests # << >> /\ Issue("manual", Head(requests), FALSE) /\ requests' = Tail(requests)
        /\ UNCHANGED <<listening, acks, dbVars, retained, devVars, torn, unmatched>>
    BY <1>3 DEF TakeRequest
  <2>2. Head(requests) \in Values /\ requests' \in Seq(Values)
    BY <1>0, <2>1, TailElements
  <2>3. QED
    BY <1>0, <2>1, <2>2, IssueKeeps
<1>4. CASE Dispatching
  BY <1>4, PublishCmdKeeps, PublishStateKeeps, WriteRowKeeps DEF Dispatching
<1>5. CASE Resubscribe
  <2>1. UNCHANGED <<requests, work, acks, cmds, published, rows, acked, retained, wire, plugged, pin, applied,
                    torn, unmatched, overlapped>> /\ Issued' = Issued /\ listening' = TRUE
    BY <1>5 DEF Resubscribe, dbVars, devVars, logVars, Issued
  <2>2. QED
    BY <2>1 DEF CommandsInv, TypeOK, WorkIsOwn, EveryCommandAccounted, NothingUnasked, Asked, OnItsWayOnce,
                WireEndsDesired, ConfirmedWasApplied, RuleAcksFindTheirRow
<1>6. CASE UNCHANGED cmdVars
  <2>1. UNCHANGED <<requests, listening, work, acks, cmds, published, rows, acked, retained, wire, plugged, pin, applied,
                    torn, unmatched, overlapped>> /\ Issued' = Issued
    BY <1>6 DEF cmdVars, wkVars, dbVars, devVars, logVars, Issued
  <2>2. QED
    BY <2>1 DEF CommandsInv, TypeOK, WorkIsOwn, EveryCommandAccounted, NothingUnasked, Asked, OnItsWayOnce,
                WireEndsDesired, ConfirmedWasApplied, RuleAcksFindTheirRow
<1>7. QED
  BY <1>1, <1>2, <1>3, <1>4, <1>5, <1>6, DispatchFailsKeeps, HandleAckKeeps, DeliverKeeps, ConnectionKeeps
     DEF CommandsNext

\* No command was issued, and nothing is on its way.
LEMMA InitKeeps == CommandsInit => CommandsInv
<1> SUFFICES ASSUME CommandsInit PROVE CommandsInv
  OBVIOUS
<1> USE DEF CommandsInit
<1>1. DOMAIN << >> = {} /\ Len(<< >>) = 0 /\ \A S : << >> \in Seq(S)
  OBVIOUS
<1>2. Issued = {}
  BY <1>1 DEF Issued
<1>3. TypeOK
  <2>1. requests \in Seq(Values) /\ cmds \in Seq([value : Values, loop : Loops, rule : BOOLEAN])
        /\ published \in Seq(Issued) /\ wire \in Seq(Message) /\ acks \in Seq(Issued)
    BY <1>1, Zenon
  <2>2. Len(cmds) <= MaxCommands /\ 0 \in 0..MaxCommands
    BY <1>1, CommandsAssumption
  <2>3. QED
    BY <2>1, <2>2 DEF TypeOK, Idle
<1>4. WorkIsOwn /\ EveryCommandAccounted
  BY <1>2 DEF WorkIsOwn, EveryCommandAccounted
<1>5. NothingUnasked /\ OnItsWayOnce /\ WireEndsDesired
  BY <1>1 DEF NothingUnasked, Asked, OnItsWayOnce, WireEndsDesired, Idle
<1>6. QED
  BY <1>1, <1>3, <1>4, <1>5 DEF CommandsInv, ConfirmedWasApplied, RuleAcksFindTheirRow

\* The invariant of the whole path, whatever the loops, the board and the
\* connections do.
THEOREM CommandsInvariant == CommandsSpec => []CommandsInv
  BY InitKeeps, NextKeeps, PTL DEF CommandsSpec

\* A row says "acknowledged" only for a command the board acted on; a board
\* with nothing on its way does what is retained, unless a dispatch was cut
\* short; and a rule's acknowledgement finds its row.
THEOREM CommandsSafeTheorem == CommandsSpec => []CommandsSafe
<1>1. CommandsInv => CommandsSafe
  <2> SUFFICES ASSUME CommandsInv PROVE Converges
    BY DEF CommandsInv, CommandsSafe
  <2>1. AllIdle => \A l \in Loops : work[l].at # "state"
    BY DEF AllIdle, Idle
  <2>2. QED
    BY <2>1 DEF CommandsInv, WireEndsDesired, Converges
<1>2. QED
  BY <1>1, CommandsInvariant, PTL

-----------------------------------------------------------------------------
(* The path implements CommandLife. *)

\* The lives of the commands, and what they ask for, now and one step later.
LEMMA LivesAre ==
    ASSUME CommandsInv, CommandsInv'
    PROVE  /\ lifeOf = [c \in Ids |-> IF c \notin Issued THEN "none" ELSE
                           IF c \in acked THEN "confirmed" ELSE IF c \in applied THEN "acted" ELSE "issued"]
           /\ lifeOf' = [c \in Ids |-> IF c \notin Issued' THEN "none" ELSE
                            IF c \in acked' THEN "confirmed" ELSE IF c \in applied' THEN "acted" ELSE "issued"]
           /\ valueOf = [c \in Ids |-> IF c \notin Issued THEN Unset ELSE cmds[c].value]
           /\ valueOf' = [c \in Ids |-> IF c \notin Issued' THEN Unset ELSE cmds'[c].value]
           /\ Issued \subseteq Ids /\ Issued' \subseteq Ids
           /\ acked \subseteq applied /\ applied \subseteq Issued
<1>1. Len(cmds) \in Nat /\ Len(cmds') \in Nat /\ Len(cmds) <= MaxCommands /\ Len(cmds') <= MaxCommands
  BY DEF CommandsInv, TypeOK
<1>2. \A c \in Ids : (c > Len(cmds) <=> c \notin Issued) /\ (c > Len(cmds') <=> c \notin Issued')
  BY <1>1, CommandsAssumption DEF Issued, Ids
<1>3. Issued \subseteq Ids /\ Issued' \subseteq Ids
  BY <1>1, CommandsAssumption DEF Issued, Ids
<1>4. /\ acked \subseteq applied /\ applied \subseteq Issued
      /\ acked' \subseteq applied' /\ applied' \subseteq Issued'
  BY DEF CommandsInv, ConfirmedWasApplied, TypeOK
<1>5. /\ lifeOf = [c \in Ids |-> IF c \notin Issued THEN "none" ELSE
                     IF c \in acked THEN "confirmed" ELSE IF c \in applied THEN "acted" ELSE "issued"]
      /\ lifeOf' = [c \in Ids |-> IF c \notin Issued' THEN "none" ELSE
                      IF c \in acked' THEN "confirmed" ELSE IF c \in applied' THEN "acted" ELSE "issued"]
  BY <1>2, <1>4 DEF lifeOf
<1>6. /\ valueOf = [c \in Ids |-> IF c \notin Issued THEN Unset ELSE cmds[c].value]
      /\ valueOf' = [c \in Ids |-> IF c \notin Issued' THEN Unset ELSE cmds'[c].value]
  BY <1>2 DEF valueOf
<1>7. QED
  BY <1>3, <1>4, <1>5, <1>6

\* A value asked for is the value of a command with a life.
LEMMA AskedIsAskedFor ==
    ASSUME CommandsInv, CommandsInv', NEW v, Asked(v)
    PROVE  v \in Life!AskedFor \cup {Unset}
<1>1. CASE v # Unset
  <2>1. PICK c \in Issued : cmds[c].value = v
    BY <1>1 DEF Asked
  <2>2. c \in Ids /\ lifeOf[c] # "none" /\ valueOf[c] = v
    BY <2>1, LivesAre
  <2>3. QED
    BY <2>2 DEF Life!AskedFor
<1>2. QED
  BY <1>1

\* The lives stand still where no command begins, is acted on or is marked.
LEMMA LivesStandStill ==
    ASSUME CommandsInv, CommandsInv', UNCHANGED <<cmds, acked, applied>>
    PROVE  lifeOf' = lifeOf /\ valueOf' = valueOf
<1>1. Issued' = Issued
  BY DEF Issued
<1>2. QED
  BY <1>1, LivesAre

\* dispatch_command begins: Life!Issue of the next command.
LEMMA IssueImplements ==
    ASSUME CommandsInv, CommandsInv', NEW l \in Loops, NEW v \in Values, NEW b \in BOOLEAN, Issue(l, v, b),
           UNCHANGED <<acked, applied, pin>>
    PROVE  Life!LifeNext
<1> DEFINE n == Len(cmds) + 1
<1>1. /\ Len(cmds) \in Nat /\ Issued' = Issued \cup {n}
      /\ \A c \in Issued : cmds'[c] = cmds[c]
      /\ cmds'[n].value = v
  <2>1. TypeOK
    BY DEF CommandsInv
  <2>2. /\ Len(cmds) \in Nat /\ Issued' = Issued \cup {Len(cmds) + 1}
        /\ \A c \in Issued : cmds'[c] = cmds[c]
        /\ cmds'[Len(cmds) + 1] = [value |-> v, loop |-> l, rule |-> b]
    BY <2>1, IssueTypes
  <2>3. QED
    BY <2>2
<1>2. n \notin Issued /\ n \in Ids
  BY <1>1, LivesAre DEF Issued
<1> HIDE DEF n
<1>3. lifeOf[n] = "none" /\ lifeOf' = [lifeOf EXCEPT ![n] = "issued"]
  BY <1>1, <1>2, LivesAre
<1>4. valueOf' = [valueOf EXCEPT ![n] = v]
  BY <1>1, <1>2, LivesAre
<1>5. Life!Issue(n)
  BY <1>3, <1>4 DEF Life!Issue
<1>6. QED
  BY <1>2, <1>5 DEF Life!LifeNext

\* The board takes a message: it acts on a command for the first time, or
\* follows a desired state, or refuses.
LEMMA DeliverImplements ==
    ASSUME CommandsInv, CommandsInv', Deliver
    PROVE  [Life!LifeNext]_(Life!lifeVars)
<1> DEFINE msg == Head(wire)
<1>1. /\ plugged /\ wire # << >> /\ UNCHANGED <<cmds, acked>> /\ Issued' = Issued
      /\ pin' = IF msg.value \in Refused THEN pin ELSE msg.value
      /\ applied' = IF msg.kind = "cmd" /\ msg.value \notin Refused THEN applied \cup {msg.id} ELSE applied
  BY DEF Deliver, handleCommand, handleState, dbVars, Issued
<1>2. msg = wire[1] /\ 1 \in DOMAIN wire
  <2>1. wire \in Seq(Message)
    BY DEF CommandsInv, TypeOK
  <2>2. QED
    BY <1>1, <2>1, TailElements
<1>3. /\ Asked(msg.value)
      /\ msg.kind = "cmd" => msg.id \in Issued /\ msg.value = cmds[msg.id].value /\ msg.id \notin applied
  BY <1>2 DEF CommandsInv, NothingUnasked, OnItsWayOnce
<1> HIDE DEF msg
<1>4. CASE msg.value \in Refused
  BY <1>1, <1>4, LivesStandStill DEF Life!lifeVars
<1>5. CASE msg.value \notin Refused /\ msg.kind # "cmd"
  <2>1. pin' \in Life!AskedFor \cup {Unset}
    BY <1>1, <1>3, <1>5, AskedIsAskedFor
  <2>2. lifeOf' = lifeOf /\ valueOf' = valueOf
    BY <1>1, <1>5, LivesStandStill
  <2>3. QED
    BY <2>1, <2>2 DEF Life!LifeNext, Life!Follow
<1>6. CASE msg.value \notin Refused /\ msg.kind = "cmd"
  <2>1. msg.id \in Ids /\ lifeOf[msg.id] = "issued" /\ valueOf[msg.id] = msg.value
    BY <1>3, <1>6, LivesAre
  <2>2. lifeOf' = [lifeOf EXCEPT ![msg.id] = "acted"] /\ valueOf' = valueOf
    BY <1>1, <1>3, <1>6, LivesAre
  <2>3. Life!Act(msg.id)
    BY <1>1, <1>6, <2>1, <2>2 DEF Life!Act
  <2>4. QED
    BY <2>1, <2>3 DEF Life!LifeNext
<1>7. QED
  BY <1>4, <1>5, <1>6

\* An acknowledgement confirms a command the board acted on, once.
LEMMA HandleAckImplements ==
    ASSUME CommandsInv, CommandsInv', HandleAck
    PROVE  [Life!LifeNext]_(Life!lifeVars)
<1> DEFINE c == Head(acks)
<1>1. /\ acked' = (IF c \in rows THEN acked \cup {c} ELSE acked) /\ acks # << >>
      /\ UNCHANGED <<cmds, applied, pin>> /\ Issued' = Issued
  BY DEF HandleAck, record_ack, devVars, Issued
<1>2. c \in applied
  <2>1. acks \in Seq(Issued)
    BY DEF CommandsInv, TypeOK
  <2>2. c = acks[1] /\ 1 \in DOMAIN acks
    BY <1>1, <2>1, TailElements
  <2>3. QED
    BY <2>2 DEF CommandsInv
<1> HIDE DEF c
<1>3. CASE c \notin rows \/ c \in acked
  <2>1. acked' = acked
    BY <1>1, <1>3
  <2>2. QED
    BY <1>1, <2>1, LivesStandStill DEF Life!lifeVars
<1>4. CASE c \in rows /\ c \notin acked
  <2>1. c \in Ids /\ lifeOf[c] = "acted"
    BY <1>2, <1>4, LivesAre
  <2>2. lifeOf' = [lifeOf EXCEPT ![c] = "confirmed"] /\ valueOf' = valueOf
    BY <1>1, <1>2, <1>4, LivesAre
  <2>3. Life!Confirm(c)
    BY <1>1, <2>1, <2>2 DEF Life!Confirm
  <2>4. QED
    BY <2>1, <2>3 DEF Life!LifeNext
<1>5. QED
  BY <1>3, <1>4

\* Every step of the path is a step of a command's life, or none.
LEMMA StepImplements ==
    ASSUME CommandsInv, CommandsInv', [CommandsNext]_cmdVars
    PROVE  [Life!LifeNext]_(Life!lifeVars)
<1> DEFINE Still == UNCHANGED <<cmds, acked, applied, pin>>
<1>1. Still => [Life!LifeNext]_(Life!lifeVars)
  BY LivesStandStill DEF Life!lifeVars
<1>2. ASSUME NEW l \in Loops, NEW v \in Values, RuleFires(l, v) PROVE Life!LifeNext
  <2>1. Issue(l, v, TRUE) /\ UNCHANGED <<acked, applied, pin>>
    BY <1>2 DEF RuleFires, dbVars, devVars
  <2>2. QED
    BY <2>1, IssueImplements
<1>3. CASE TakeRequest
  <2>1. /\ requests # << >> /\ Issue("manual", Head(requests), FALSE) /\ UNCHANGED <<acked, applied, pin>>
        /\ "manual" \in Loops /\ requests \in Seq(Values)
    BY <1>3 DEF TakeRequest, dbVars, devVars, Loops, CommandsInv, TypeOK
  <2>2. Head(requests) \in Values
    BY <2>1, TailElements
  <2>3. QED
    BY <2>1, <2>2, IssueImplements
<1>4. ASSUME NEW r \in BOOLEAN, Unplug(r) PROVE [Life!LifeNext]_(Life!lifeVars)
  <2>1. UNCHANGED <<cmds, acked, applied>> /\ (pin' = pin \/ pin' = Unset)
    BY <1>4 DEF Unplug, dbVars
  <2>2. QED
    BY <1>1, <2>1, LivesStandStill DEF Life!LifeNext, Life!Follow
<1>5. ASSUME NEW l \in Loops, PublishCmd(l) \/ PublishState(l) \/ WriteRow(l) \/ RuleDispatchFails(l) PROVE Still
  BY <1>5 DEF PublishCmd, PublishState, WriteRow, RuleDispatchFails, dbVars, devVars
<1>6. ASSUME ManualPublishFails \/ ManualRowFails \/ Plug \/ Resubscribe PROVE Still
  BY <1>6 DEF ManualPublishFails, ManualRowFails, Plug, Resubscribe, dbVars, devVars
<1>7. ASSUME NEW v \in Values, UNCHANGED <<listening, work, acks, cmds, dbVars, retained, devVars, logVars>> PROVE Still
  BY <1>7 DEF dbVars, devVars
<1>8. CASE UNCHANGED cmdVars
  BY <1>1, <1>8 DEF cmdVars, dbVars, devVars
<1> HIDE DEF Still
<1>9. QED
  BY <1>1, <1>2, <1>3, <1>4, <1>5, <1>6, <1>7, <1>8, DeliverImplements, HandleAckImplements
     DEF CommandsNext, Dispatching, DispatchFails

\* The way a command takes through Redis, the worker, the broker and the board
\* implements CommandLife: issued once, acted on at most once, confirmed only
\* after that, and no output nobody asked for.
THEOREM ImplementsTheorem == CommandsSpec => Implements
<1>1. CommandsInit => Life!LifeInit
  <2> SUFFICES ASSUME CommandsInit PROVE Life!LifeInit
    OBVIOUS
  <2>1. cmds = << >> /\ Len(<< >>) = 0 /\ acked = {} /\ applied = {} /\ pin = Unset
    BY DEF CommandsInit
  <2>2. \A c \in Ids : c > Len(cmds)
    BY <2>1, CommandsAssumption DEF Ids
  <2>3. QED
    BY <2>1, <2>2 DEF Life!LifeInit, lifeOf, valueOf
<1>2. CommandsInv /\ CommandsInv' /\ [CommandsNext]_cmdVars => [Life!LifeNext]_(Life!lifeVars)
  BY StepImplements
<1>3. QED
  BY <1>1, <1>2, CommandsInvariant, PTL DEF CommandsSpec, Implements, Life!LifeSpec

-----------------------------------------------------------------------------
(* The row on screen (ActuatorRow). *)

\* What the row reads: acknowledged exactly when the answer it has says so.
LEMMA StatusIs ==
    ASSUME NEW l
    PROVE  commandStatus(l) = "confirmed" <=> latest(l) # 0 /\ latest(l) \in l.acked
<1>1. ASSUME NEW c PROVE statusOf(l, c) = "confirmed" <=> c \in l.acked
  BY DEF statusOf
<1>2. QED
  BY <1>1 DEF commandStatus

\* No step of the path takes an acknowledgement back (record_ack).
LEMMA AckedGrows ==
    ASSUME [CommandsNext]_cmdVars
    PROVE  acked \subseteq acked'
<1>1. HandleAck => acked \subseteq acked'
  BY DEF HandleAck, record_ack
<1>2. UNCHANGED dbVars \/ UNCHANGED cmdVars => acked' = acked
  BY DEF dbVars, cmdVars
<1>3. ASSUME NEW l \in Loops, PublishCmd(l) \/ PublishState(l) \/ WriteRow(l) PROVE acked' = acked
  BY <1>3 DEF PublishCmd, PublishState, WriteRow, dbVars
<1>4. TakeRequest \/ Deliver \/ Plug \/ Resubscribe \/ DispatchFails => UNCHANGED dbVars
  BY DEF TakeRequest, Deliver, Plug, Resubscribe, DispatchFails, RuleDispatchFails, ManualPublishFails, ManualRowFails
<1>5. ASSUME NEW l \in Loops, NEW v \in Values, RuleFires(l, v) PROVE UNCHANGED dbVars
  BY <1>5 DEF RuleFires
<1>6. ASSUME NEW r \in BOOLEAN, Unplug(r) PROVE UNCHANGED dbVars
  BY <1>6 DEF Unplug
<1>7. QED
  BY <1>1, <1>2, <1>3, <1>4, <1>5, <1>6 DEF CommandsNext, Dispatching

\* A step of the row only asks, or is a step of the path.
LEMMA RowAcks ==
    ASSUME [RowNext]_rowVars
    PROVE  acked \subseteq acked'
<1>1. ASSUME NEW v \in Values, Click(v) \/ OtherRequests(v) PROVE acked' = acked
  BY <1>1 DEF Click, OtherRequests, Fixed, cmdVars, dbVars
<1>2. ASSUME NEW l \in Loops, NEW v \in Values, RuleFires(l, v) PROVE acked \subseteq acked'
  BY <1>2, AckedGrows DEF CommandsNext
<1>3. CASE Retry \/ Refresh \/ Expires \/ Tick \/ FetchFails \/ Answering
  BY <1>3 DEF Retry, Refresh, Expires, Tick, FetchFails, Answering, Posted, ServerReads, FetchEnds, PollResumes,
              Fixed, cmdVars, dbVars
<1>4. ASSUME NEW b \in BOOLEAN, Answer(b) \/ PostFails(b) PROVE acked' = acked
  BY <1>4 DEF Answer, PostFails, Fixed, cmdVars, dbVars
<1>5. ASSUME NEW b \in BOOLEAN, AckHandled(b) PROVE acked \subseteq acked'
  BY <1>5, AckedGrows DEF AckHandled, CommandsNext
<1>6. CASE Moving
  BY <1>6, AckedGrows DEF Moving, Worker, CommandsNext
<1>7. CASE DispatchFails \/ \E r \in BOOLEAN : Unplug(r)
  BY <1>7, AckedGrows DEF CommandsNext
<1>8. CASE UNCHANGED rowVars
  BY <1>8 DEF rowVars, cmdVars, dbVars
<1>9. QED
  BY <1>1, <1>2, <1>3, <1>4, <1>5, <1>6, <1>7, <1>8 DEF RowNext

\* What a step does to the answers: the page keeps what it has and what it waits
\* for, asks again, is read to, or takes the answer; and it shows what it showed,
\* or renders.
LEMMA RowAnswers ==
    ASSUME [RowNext]_rowVars
    PROVE  /\ \/ list' = list /\ (fetch' = fetch \/ fetch'.at # "read")
              \/ list' = list /\ fetch'.at = "read" /\ fetch'.acked = acked /\ acked' = acked
              \/ fetch.at = "read" /\ list'.acked = fetch.acked /\ fetch'.at # "read"
           /\ shown' = commandStatus(list') \/ (shown' = shown /\ list' = list)
<1> USE DEF Render, Revalidate, NoFetch
<1>1. ASSUME NEW v \in Values, Click(v) \/ OtherRequests(v)
      PROVE  list' = list /\ fetch' = fetch /\ (shown' = commandStatus(list') \/ shown' = shown)
  BY <1>1 DEF Click, OtherRequests, Quiet, uiVars
<1>2. CASE Retry \/ Refresh \/ Expires \/ Tick \/ FetchFails \/ Posted \/ PollResumes
  <2>1. CASE Retry \/ Expires \/ Tick
    BY <2>1 DEF Retry, Expires, Tick, uiVars
  <2>2. CASE Refresh \/ FetchFails
    BY <2>2 DEF Refresh, FetchFails
  <2>3. CASE Posted
    BY <2>3 DEF Posted
  <2>4. CASE PollResumes
    <3>1. list' = list /\ shown' = commandStatus(list')
      BY <2>4 DEF PollResumes
    <3>2. fetch' = fetch \/ fetch'.at # "read"
      BY <2>4 DEF PollResumes
    <3>3. QED
      BY <3>1, <3>2
  <2>5. QED
    BY <1>2, <2>1, <2>2, <2>3, <2>4
<1>3. CASE ServerReads
  BY <1>3 DEF ServerReads, Fixed, cmdVars, dbVars
<1>4. CASE FetchEnds
  BY <1>4 DEF FetchEnds
<1>5. ASSUME NEW b \in BOOLEAN, Answer(b) \/ PostFails(b) \/ AckHandled(b)
      PROVE  /\ list' = list /\ (fetch' = fetch \/ fetch'.at # "read")
             /\ shown' = commandStatus(list') \/ shown' = shown
  BY <1>5 DEF Answer, PostFails, AckHandled
<1>6. CASE Quiet
  BY <1>6 DEF Quiet, uiVars
<1>7. CASE UNCHANGED rowVars
  BY <1>7 DEF rowVars, uiVars
<1> DEFINE One == \E v \in Values : Click(v) \/ OtherRequests(v)
           Two == \E b \in BOOLEAN : Answer(b) \/ PostFails(b) \/ AckHandled(b)
           Fetching == Retry \/ Refresh \/ Expires \/ Tick \/ FetchFails \/ Posted \/ PollResumes
<1>8. One \/ Two \/ Fetching \/ ServerReads \/ FetchEnds \/ Quiet \/ UNCHANGED rowVars
  BY DEF RowNext, Answering, Moving
<1>9. CASE One
  BY <1>1, <1>9
<1>10. CASE Two
  BY <1>5, <1>10
<1> HIDE DEF One, Two
<1>11. QED
  BY <1>2, <1>3, <1>4, <1>6, <1>7, <1>8, <1>9, <1>10

\* The screen never takes an acknowledgement back.
LEMMA AcknowledgedKeeps == AcknowledgedInv /\ [RowNext]_rowVars => AcknowledgedInv' /\ AcknowledgedStep
<1> SUFFICES ASSUME AcknowledgedInv, [RowNext]_rowVars PROVE AcknowledgedInv' /\ AcknowledgedStep
  OBVIOUS
<1>1. list.acked \subseteq list'.acked /\ list'.acked \subseteq acked'
  BY RowAcks, RowAnswers DEF AcknowledgedInv
<1>2. fetch'.at = "read" => list'.acked \subseteq fetch'.acked /\ fetch'.acked \subseteq acked'
  BY RowAcks, RowAnswers DEF AcknowledgedInv
<1>3. commandStatus(list') = "confirmed" <=> latest(list') # 0 /\ latest(list') \in list'.acked
  BY StatusIs
<1>4. shown' = "confirmed" => latest(list') # 0 /\ latest(list') \in list'.acked
  BY <1>3, RowAnswers DEF AcknowledgedInv
<1>5. AcknowledgedStep
  <2> SUFFICES ASSUME shown = "confirmed", latest(list') = latest(list) PROVE shown' = "confirmed"
    BY DEF AcknowledgedStep
  <2>1. latest(list') # 0 /\ latest(list') \in list'.acked
    BY <1>1 DEF AcknowledgedInv
  <2>2. QED
    BY <1>3, <2>1, RowAnswers
<1>6. QED
  BY <1>1, <1>2, <1>4, <1>5 DEF AcknowledgedInv, latest

\* No command was issued and no list fetched.
LEMMA AcknowledgedStarts == RowInit => AcknowledgedInv
  BY DEF RowInit, AcknowledgedInv, CommandsInit, NoFetch

\* "It is not terminal": a command shown as acknowledged stays acknowledged on
\* the screen, whatever answers come late, are lost or cross.
THEOREM AcknowledgedTheorem == RowSpec => []AcknowledgedInv /\ [][AcknowledgedStep]_rowVars
  BY AcknowledgedStarts, AcknowledgedKeeps, PTL DEF RowSpec

-----------------------------------------------------------------------------
(* The board that runs the generated sketch (Sketch). *)

\* A message taken from the front leaves the last one of its kind, or was it.
LEMMA TailEnds ==
    ASSUME NEW S, NEW s \in Seq(S), s # << >>, NEW kinds, NEW b
    PROVE  /\ EndsWith(s, kinds, b) =>
                \/ EndsWith(Tail(s), kinds, b)
                \/ NoneOf(Tail(s), kinds) /\ Head(s).topic \in kinds /\ Head(s).body = b
           /\ NoneOf(s, kinds) => NoneOf(Tail(s), kinds) /\ Head(s).topic \notin kinds
<1>1. /\ Len(s) \in Nat \ {0} /\ DOMAIN s = 1..Len(s) /\ Head(s) = s[1]
      /\ DOMAIN Tail(s) = 1..(Len(s) - 1)
      /\ \A i \in 1..(Len(s) - 1) : Tail(s)[i] = s[i + 1]
  BY TailElements
<1>2. ASSUME EndsWith(s, kinds, b)
      PROVE  \/ EndsWith(Tail(s), kinds, b)
             \/ NoneOf(Tail(s), kinds) /\ Head(s).topic \in kinds /\ Head(s).body = b
  <2>1. PICK i \in DOMAIN s : /\ s[i].topic \in kinds /\ s[i].body = b
                             /\ \A j \in DOMAIN s : j > i => s[j].topic \notin kinds
    BY <1>2 DEF EndsWith
  <2>2. CASE i = 1
    BY <1>1, <2>1, <2>2 DEF NoneOf
  <2>3. CASE i # 1
    <3>1. i - 1 \in DOMAIN Tail(s) /\ Tail(s)[i - 1] = s[i]
      BY <1>1, <2>1, <2>3
    <3>2. \A j \in DOMAIN Tail(s) : j > i - 1 => Tail(s)[j].topic \notin kinds
      BY <1>1, <2>1, <2>3
    <3>3. QED
      BY <2>1, <3>1, <3>2 DEF EndsWith
  <2>4. QED
    BY <2>2, <2>3
<1>3. NoneOf(s, kinds) => NoneOf(Tail(s), kinds) /\ Head(s).topic \notin kinds
  BY <1>1 DEF NoneOf
<1>4. QED
  BY <1>2, <1>3

\* A message added at the end is the last of its kind.
LEMMA AppendEnds ==
    ASSUME NEW S, NEW s \in Seq(S), NEW e \in S, NEW kinds, NEW b
    PROVE  /\ e.topic \in kinds /\ e.body = b => EndsWith(Append(s, e), kinds, b)
           /\ e.topic \notin kinds /\ EndsWith(s, kinds, b) => EndsWith(Append(s, e), kinds, b)
           /\ e.topic \notin kinds /\ NoneOf(s, kinds) => NoneOf(Append(s, e), kinds)
<1>1. /\ DOMAIN Append(s, e) = 1..(Len(s) + 1) /\ DOMAIN s = 1..Len(s) /\ Len(s) \in Nat
      /\ \A i \in 1..Len(s) : Append(s, e)[i] = s[i]
      /\ Append(s, e)[Len(s) + 1] = e
  BY AppendElements
<1>2. e.topic \in kinds /\ e.body = b => EndsWith(Append(s, e), kinds, b)
  BY <1>1 DEF EndsWith
<1>3. e.topic \notin kinds /\ NoneOf(s, kinds) => NoneOf(Append(s, e), kinds)
  BY <1>1 DEF NoneOf
<1>4. ASSUME e.topic \notin kinds, EndsWith(s, kinds, b) PROVE EndsWith(Append(s, e), kinds, b)
  <2>1. PICK i \in DOMAIN s : /\ s[i].topic \in kinds /\ s[i].body = b
                             /\ \A j \in DOMAIN s : j > i => s[j].topic \notin kinds
    BY <1>4 DEF EndsWith
  <2>2. i \in DOMAIN Append(s, e) /\ Append(s, e)[i] = s[i]
    BY <1>1, <2>1
  <2>3. \A j \in DOMAIN Append(s, e) : j > i => Append(s, e)[j].topic \notin kinds
    BY <1>1, <1>4, <2>1
  <2>4. QED
    BY <2>1, <2>2, <2>3 DEF EndsWith
<1>5. QED
  BY <1>2, <1>3, <1>4

\* ToBoard's concatenations, one message at a time.
LEMMA ConcatIsAppend ==
    ASSUME NEW S, NEW s \in Seq(S), NEW d \in S, NEW e \in S
    PROVE  s \o <<e>> = Append(s, e) /\ s \o <<d, e>> = Append(Append(s, d), e)
  OBVIOUS

\* What a profile that is applied runs (applyConfig).
LEMMA ApplyRuns ==
    ASSUME NEW r \in MetricProfile, NEW c \in Profile
    PROVE  /\ applyConfig(r, c) \in MetricProfile
           /\ Runs(applyConfig(r, c), c)
<1> DEFINE every == IF c.interval > 0 THEN c.interval ELSE defaultInterval(c.publish)
           p == applyConfig(r, c)
<1>1. c.publish \in {"periodic", "on_change", "streaming"} /\ c.interval \in Nat /\ c.deadband \in Nat
  BY DEF Profile
<1>2. defaultInterval(c.publish) \in Nat
  BY DEF defaultInterval
<1>3. every \in Nat /\ every = IF c.interval = 0 THEN defaultInterval(c.publish) ELSE c.interval
  BY <1>1, <1>2
<1>4. p = [r EXCEPT !.mode = c.publish, !.every = every, !.deadband = c.deadband]
  BY DEF applyConfig
<1> HIDE DEF every, p
<1>5. p.mode = c.publish /\ p.every = every /\ p.deadband = c.deadband /\ p \in MetricProfile
  BY <1>1, <1>3, <1>4 DEF MetricProfile
<1>6. Runs(p, c)
  BY <1>3, <1>5 DEF Runs
<1>7. QED
  BY <1>5, <1>6 DEF p

\* A step that leaves the profile run, the output, what is on its way and what
\* the broker keeps of both.
LEMMA QuietKeeps ==
    ASSUME SketchInv, SketchTypeOK', OfflineTells', sock' = "up" => sock = "up",
           UNCHANGED <<m.mode, m.deadband, m.every, out, topics.config, topics.state>>,
           sock' = "up" => inbox' = inbox
    PROVE  SketchInv'
<1>1. \A c : Runs(m', c) <=> Runs(m, c)
  BY DEF Runs
<1>2. ProfileComes' /\ StateComes'
  BY <1>1 DEF SketchInv, ProfileComes, StateComes
<1>3. QED
  BY <1>2 DEF SketchInv

\* The profile a sketch boots with (MetricRow).
LEMMA BootTypes ==
    ASSUME NEW c \in Profile
    PROVE  MetricRow(c) \in MetricProfile
<1> DEFINE r == [declared |-> c, mode |-> "periodic", every |-> 0, deadband |-> 0, lastValue |-> None,
                 lastPublish |-> 0, candidate |-> None, candidateSince |-> 0]
<1>1. r \in MetricProfile
  BY DEF MetricProfile, None
<1>2. MetricRow(c) = applyConfig(r, c)
  BY DEF MetricRow
<1> HIDE DEF r
<1>3. QED
  BY <1>1, <1>2, ApplyRuns

\* The steps of a board on its own: passes of its loops, the network and the button.
LEMMA BoardKeeps ==
    ASSUME SketchInv,
           \/ Restart \/ LoopWaits \/ LoopConnects \/ MqttRefused \/ MqttNeedsWifi \/ WifiWaits \/ WifiThere
           \/ WifiUp \/ BoardNotices \/ WillFires \/ Rotates \/ Press \/ Provisioned
           \/ \E w \in BOOLEAN : Drops(w)
           \/ \E v \in -1 .. 2 : LevelBecomes(v)
    PROVE  SketchInv'
<1> USE DEF brokerVars, boardVars
<1>0. SketchTypeOK /\ OfflineTells
  BY DEF SketchInv
<1>1. CASE Restart
  <2>1. /\ sock' = "down" /\ clock' = 0 /\ inbox' = << >> /\ out' = None /\ level' = level
        /\ m' = MetricRow(m.declared) /\ topics' = topics /\ willDue' = (willDue \/ sock = "up")
    BY <1>1 DEF Restart
  <2>2. SketchTypeOK'
    <3>1. m.declared \in Profile
      BY <1>0 DEF SketchTypeOK, MetricProfile
    <3>2. \A S : << >> \in Seq(S)
      OBVIOUS
    <3>3. inbox' \in Seq(ProfileMessage \cup OutputMessage)
      BY <2>1, <3>2, Zenon
    <3>4. QED
      BY <1>0, <2>1, <3>1, <3>3, BootTypes DEF SketchTypeOK, None
  <2>3. QED
    BY <1>0, <2>1, <2>2 DEF SketchInv, OfflineTells, ProfileComes, StateComes
<1>2. CASE BoardNotices
  <2>1. UNCHANGED <<clock, level, out, m, inbox, topics, willDue>> /\ sock = "dead" /\ sock' = "down"
    BY <1>2 DEF BoardNotices
  <2>2. QED
    BY <1>0, <2>1 DEF SketchInv, SketchTypeOK, OfflineTells, ProfileComes, StateComes
<1>3. ASSUME NEW w \in BOOLEAN, Drops(w) PROVE SketchInv'
  <2>1. /\ UNCHANGED <<clock, level, out, m, topics>> /\ inbox' = << >> /\ willDue' = (willDue \/ sock = "up")
        /\ sock' = IF sock = "up" THEN "dead" ELSE sock
    BY <1>3 DEF Drops
  <2>2. \A S : << >> \in Seq(S)
    OBVIOUS
  <2>3. inbox' \in Seq(ProfileMessage \cup OutputMessage)
    BY <2>1, <2>2, Zenon
  <2>4. QED
    BY <1>0, <2>1, <2>3 DEF SketchInv, SketchTypeOK, OfflineTells, ProfileComes, StateComes
<1>4. CASE WillFires
  <2>1. UNCHANGED <<clock, level, out, m, inbox, sock>> /\ topics' = [topics EXCEPT !.status = "offline"]
    BY <1>4 DEF WillFires
  <2>2. topics'.status = "offline" /\ topics'.config = topics.config /\ topics'.state = topics.state
    BY <1>0, <2>1 DEF SketchTypeOK
  <2>3. SketchTypeOK'
    BY <1>0, <2>1 DEF SketchTypeOK
  <2>4. QED
    BY <1>0, <2>1, <2>2, <2>3, QuietKeeps DEF OfflineTells
<1>5. ASSUME UNCHANGED <<out, m, inbox, topics, sock, willDue>>, clock' \in Int, level' \in Int PROVE SketchInv'
  BY <1>0, <1>5, QuietKeeps DEF SketchTypeOK, OfflineTells
<1>6. clock \in Int /\ level \in Int /\ ((clock + 1) % Wrap) \in Int /\ ((clock + 2) % Wrap) \in Int
  BY <1>0, SketchAssumption DEF SketchTypeOK
<1>7. CASE LoopWaits \/ MqttRefused \/ WifiWaits
  BY <1>5, <1>6, <1>7 DEF LoopWaits, MqttRefused, WifiWaits, Passes
<1>8. CASE LoopConnects \/ MqttNeedsWifi \/ WifiThere \/ WifiUp \/ Rotates \/ Press \/ Provisioned
  BY <1>5, <1>6, <1>8 DEF LoopConnects, MqttNeedsWifi, WifiThere, WifiUp, Rotates, Press, Provisioned
<1>9. ASSUME NEW v \in -1 .. 2, LevelBecomes(v) PROVE SketchInv'
  BY <1>5, <1>6, <1>9 DEF LevelBecomes
<1>10. QED
  BY <1>1, <1>2, <1>3, <1>4, <1>7, <1>8, <1>9

\* A pass (publishMetrics and the status): the profile run stays, whatever was
\* published.
LEMMA PassKeeps ==
    ASSUME SketchInv, LoopPass
    PROVE  SketchInv'
<1>0. SketchTypeOK /\ OfflineTells
  BY DEF SketchInv
<1>1. PICK ok \in BOOLEAN : /\ sock = "up" => ok
                            /\ sock' = IF ok THEN sock ELSE "down"
                            /\ publishMetrics(ok)
                            /\ IF StatusDue THEN publishStatus ELSE UNCHANGED <<topics, lastStatusMs>>
  BY DEF LoopPass
<1>2. UNCHANGED <<out, inbox, willDue, level>> /\ clock' = (clock + 1) % Wrap
  BY DEF LoopPass, Passes
<1>3. clock \in Int /\ clock' \in Int /\ level \in Int
  BY <1>0, <1>2, SketchAssumption DEF SketchTypeOK
<1>4. m' \in MetricProfile /\ UNCHANGED <<m.mode, m.deadband, m.every>>
  <2> DEFINE keeps(r) == r \in MetricProfile /\ r.mode = m.mode /\ r.deadband = m.deadband /\ r.every = m.every
  <2>1. keeps(m)
    BY <1>0 DEF SketchTypeOK
  <2>2. keeps(Candidate)
    BY <1>3, <2>1 DEF Candidate, MetricProfile
  <2>3. keeps(Recorded(Candidate, ok))
    <3>1. Candidate \in MetricProfile
      BY <2>2
    <3>2. CASE ok
      <4>1. Recorded(Candidate, ok) = [Candidate EXCEPT !.lastValue = level, !.lastPublish = clock]
        BY <3>2 DEF Recorded
      <4>2. QED
        BY <1>3, <2>2, <3>1, <4>1 DEF MetricProfile
    <3>3. CASE ~ok
      BY <2>2, <3>3 DEF Recorded
    <3>4. QED
      BY <3>2, <3>3
  <2>4. m' = m \/ m' = Candidate \/ m' = Recorded(Candidate, ok)
    BY <1>1 DEF publishMetrics
  <2>5. keeps(m')
    BY <2>1, <2>2, <2>3, <2>4
  <2>6. QED
    BY <2>5
<1>5. /\ topics' \in [status : {"none", "online", "offline"}, config : Profile, state : Int]
      /\ UNCHANGED <<topics.config, topics.state>>
      /\ sock' # "up" => topics' = topics
  BY <1>0, <1>1 DEF publishStatus, SketchTypeOK
<1>6. sock' \in {"down", "up", "dead"} /\ (sock' = "up" => sock = "up") /\ (sock' # "up" => sock # "up")
  BY <1>0, <1>1 DEF SketchTypeOK
<1>7. SketchTypeOK'
  BY <1>0, <1>2, <1>3, <1>4, <1>5, <1>6 DEF SketchTypeOK
<1>8. OfflineTells'
  BY <1>0, <1>2, <1>5, <1>6 DEF OfflineTells
<1>9. QED
  BY <1>2, <1>4, <1>5, <1>6, <1>7, <1>8, QuietKeeps

\* mqttCallback takes a message.
LEMMA ReceiveKeeps ==
    ASSUME SketchInv, Receive
    PROVE  SketchInv'
<1> DEFINE x == Head(inbox)
<1>0. SketchTypeOK /\ OfflineTells /\ inbox \in Seq(ProfileMessage \cup OutputMessage)
  BY DEF SketchInv, SketchTypeOK
<1>1. /\ sock = "up" /\ sock' = "up" /\ inbox # << >> /\ inbox' = Tail(inbox)
      /\ m' = IF x.topic = "config" /\ x.body.fits THEN applyConfig(m, x.body) ELSE m
      /\ out' = IF x.topic \in {"cmd", "state"} THEN x.body ELSE out
      /\ UNCHANGED <<clock, level, topics, willDue>>
  BY DEF Receive, Arrives
<1>2. x \in ProfileMessage \cup OutputMessage /\ inbox' \in Seq(ProfileMessage \cup OutputMessage)
  BY <1>0, <1>1, TailElements
<1> HIDE DEF x
<1>3. /\ x.topic = "config" => x.body \in Profile
      /\ x.topic \in {"cmd", "state"} => x.body \in Int /\ x.topic # "config"
      /\ x.topic \in {"cmd", "state"} \/ x.topic = "config"
  BY <1>2 DEF ProfileMessage, OutputMessage
<1>4. m \in MetricProfile /\ topics.config \in Profile
  BY <1>0 DEF SketchTypeOK
<1>5. m' \in MetricProfile /\ (x.topic = "config" /\ x.body.fits => Runs(m', x.body))
  BY <1>1, <1>3, <1>4, ApplyRuns
<1>6. SketchTypeOK'
  BY <1>0, <1>1, <1>2, <1>3, <1>5 DEF SketchTypeOK
<1>7. ProfileComes'
  <2>1. CASE EndsWith(inbox, {"config"}, topics.config)
    <3>1. \/ EndsWith(inbox', {"config"}, topics.config)
          \/ NoneOf(inbox', {"config"}) /\ x.topic = "config" /\ x.body = topics.config
      BY <1>0, <1>1, <2>1, TailEnds DEF x
    <3>2. QED
      BY <1>1, <1>5, <3>1 DEF ProfileComes
  <2>2. CASE NoneOf(inbox, {"config"}) /\ (topics.config.fits => Runs(m, topics.config))
    <3>1. NoneOf(inbox', {"config"}) /\ x.topic # "config"
      BY <1>0, <1>1, <2>2, TailEnds DEF x
    <3>2. m' = m
      BY <1>1, <3>1
    <3>3. QED
      BY <1>1, <2>2, <3>1, <3>2 DEF ProfileComes
  <2>3. QED
    BY <1>1, <2>1, <2>2 DEF SketchInv, ProfileComes
<1>8. StateComes'
  <2> SUFFICES ASSUME topics.state # None
               PROVE  \/ EndsWith(inbox', {"cmd", "state"}, topics.state)
                      \/ NoneOf(inbox', {"cmd", "state"}) /\ out' = topics.state
    BY <1>1 DEF StateComes
  <2>1. CASE EndsWith(inbox, {"cmd", "state"}, topics.state)
    <3>1. \/ EndsWith(inbox', {"cmd", "state"}, topics.state)
          \/ NoneOf(inbox', {"cmd", "state"}) /\ x.topic \in {"cmd", "state"} /\ x.body = topics.state
      BY <1>0, <1>1, <2>1, TailEnds DEF x
    <3>2. QED
      BY <1>1, <3>1
  <2>2. CASE NoneOf(inbox, {"cmd", "state"}) /\ out = topics.state
    <3>1. NoneOf(inbox', {"cmd", "state"}) /\ x.topic \notin {"cmd", "state"}
      BY <1>0, <1>1, <2>2, TailEnds DEF x
    <3>2. QED
      BY <1>1, <2>2, <3>1
  <2>3. QED
    BY <1>1, <2>1, <2>2 DEF SketchInv, StateComes
<1>9. OfflineTells'
  BY <1>1 DEF OfflineTells
<1>10. QED
  BY <1>6, <1>7, <1>8, <1>9 DEF SketchInv

\* connectMqtt gets through: the retained messages are on their way.
LEMMA MqttConnectsKeeps ==
    ASSUME SketchInv, MqttConnects
    PROVE  SketchInv'
<1> DEFINE c == [topic |-> "config", body |-> topics.config]
           st == [topic |-> "state", body |-> topics.state]
<1>0. SketchTypeOK
  BY DEF SketchInv
<1>1. /\ sock' = "up" /\ topics' = [topics EXCEPT !.status = "online"] /\ inbox' = Subscribed
      /\ UNCHANGED <<clock, level, m, out, willDue>>
  BY DEF MqttConnects, publishStatus
<1>2. /\ topics' \in [status : {"none", "online", "offline"}, config : Profile, state : Int]
      /\ UNCHANGED <<topics.config, topics.state>>
  BY <1>0, <1>1 DEF SketchTypeOK
<1>3. c \in ProfileMessage \cup OutputMessage /\ st \in ProfileMessage \cup OutputMessage
  BY <1>0 DEF SketchTypeOK, ProfileMessage, OutputMessage
<1> DEFINE S == ProfileMessage \cup OutputMessage
<1>4. /\ c.topic = "config" /\ c.body = topics.config
      /\ st.topic = "state" /\ st.body = topics.state
  OBVIOUS
<1>5. Subscribed = <<c>> \o IF topics.state = None THEN << >> ELSE <<st>>
  BY DEF Subscribed
<1> HIDE DEF c, st, S
<1>6. <<c>> \in Seq(S) /\ inbox' = IF topics.state = None THEN <<c>> ELSE Append(<<c>>, st)
  <2>1. \A e \in S : <<e>> \in Seq(S) /\ <<e>> \o << >> = <<e>>
    OBVIOUS
  <2>2. <<c>> \in Seq(S)
    BY <1>3, <2>1 DEF S
  <2>3. <<c>> \o <<st>> = Append(<<c>>, st)
    BY <1>3, <2>2, ConcatIsAppend DEF S
  <2>4. QED
    BY <1>1, <1>3, <1>5, <2>1, <2>2, <2>3 DEF S
<1>7. SketchTypeOK'
  <2>1. Append(<<c>>, st) \in Seq(S)
    BY <1>3, <1>6, AppendElements DEF S
  <2>2. inbox' \in Seq(ProfileMessage \cup OutputMessage)
    BY <1>6, <2>1 DEF S
  <2>3. QED
    BY <1>0, <1>1, <1>2, <2>2 DEF SketchTypeOK
<1>8. EndsWith(inbox', {"config"}, topics'.config)
  <2>1. EndsWith(<<c>>, {"config"}, topics.config)
    BY <1>4 DEF EndsWith
  <2>2. EndsWith(Append(<<c>>, st), {"config"}, topics.config)
    BY <1>3, <1>4, <1>6, <2>1, AppendEnds DEF S
  <2>3. QED
    BY <1>2, <1>6, <2>1, <2>2
<1>9. topics'.state # None => EndsWith(inbox', {"cmd", "state"}, topics'.state)
  <2>1. EndsWith(Append(<<c>>, st), {"cmd", "state"}, topics.state)
    BY <1>3, <1>4, <1>6, AppendEnds DEF S
  <2>2. QED
    BY <1>2, <1>6, <2>1
<1>10. QED
  BY <1>1, <1>7, <1>8, <1>9 DEF SketchInv, ProfileComes, StateComes, OfflineTells

\* The author rewrites the profile, or a command goes out: to the broker, and to
\* a connected board after what is on its way.
LEMMA PublishedKeeps ==
    ASSUME SketchInv,
           \/ \E c \in Profile : EditProfile(c)
           \/ \E v \in {0, 1} : SendCommand(v)
    PROVE  SketchInv'
<1> DEFINE S == ProfileMessage \cup OutputMessage
<1> USE DEF boardVars
<1>0. SketchTypeOK /\ OfflineTells /\ inbox \in Seq(S) /\ (sock = "up" => ProfileComes /\ StateComes)
  BY DEF SketchInv, SketchTypeOK
<1> HIDE DEF S
<1>1. ASSUME NEW c \in Profile, EditProfile(c) PROVE SketchInv'
  <2> DEFINE e == [topic |-> "config", body |-> c]
  <2>1. e \in S /\ e.topic = "config" /\ e.body = c
    BY DEF S, ProfileMessage
  <2>2. /\ topics' = [topics EXCEPT !.config = c] /\ UNCHANGED <<sock, clock, level, m, out, willDue>>
        /\ inbox' = IF sock = "up" THEN inbox \o <<e>> ELSE inbox
    BY <1>1 DEF EditProfile, ToBoard
  <2> HIDE DEF e
  <2>3. inbox \o <<e>> = Append(inbox, e)
    BY <1>0, <2>1, ConcatIsAppend
  <2>4. /\ topics' \in [status : {"none", "online", "offline"}, config : Profile, state : Int]
        /\ topics'.config = c /\ topics'.state = topics.state /\ topics'.status = topics.status
    BY <1>0, <2>2 DEF SketchTypeOK
  <2>5. inbox' \in Seq(S)
    BY <1>0, <2>1, <2>2, <2>3, AppendElements
  <2>6. SketchTypeOK' /\ OfflineTells'
    BY <1>0, <2>2, <2>4, <2>5 DEF SketchTypeOK, OfflineTells, S
  <2>7. ProfileComes'
    <3>1. EndsWith(Append(inbox, e), {"config"}, c)
      BY <1>0, <2>1, AppendEnds
    <3>2. QED
      BY <2>2, <2>3, <2>4, <3>1 DEF ProfileComes
  <2>8. StateComes'
    <3>1. \A b : /\ EndsWith(inbox, {"cmd", "state"}, b) => EndsWith(Append(inbox, e), {"cmd", "state"}, b)
                 /\ NoneOf(inbox, {"cmd", "state"}) => NoneOf(Append(inbox, e), {"cmd", "state"})
      BY <1>0, <2>1, AppendEnds
    <3>2. QED
      BY <1>0, <2>2, <2>3, <2>4, <3>1 DEF StateComes
  <2>9. QED
    BY <2>6, <2>7, <2>8 DEF SketchInv
<1>2. ASSUME NEW v \in {0, 1}, SendCommand(v) PROVE SketchInv'
  <2> DEFINE d == [topic |-> "cmd", body |-> v]
             e == [topic |-> "state", body |-> v]
  <2>1. /\ d \in S /\ d.topic = "cmd" /\ d.body = v
        /\ e \in S /\ e.topic = "state" /\ e.body = v
    BY DEF S, OutputMessage
  <2>2. /\ topics' = [topics EXCEPT !.state = v] /\ UNCHANGED <<sock, clock, level, m, out, willDue>>
        /\ inbox' = IF sock = "up" THEN inbox \o <<d, e>> ELSE inbox
    BY <1>2 DEF SendCommand, ToBoard
  <2> HIDE DEF d, e
  <2>3. inbox \o <<d, e>> = Append(Append(inbox, d), e)
    BY <1>0, <2>1, ConcatIsAppend
  <2>4. /\ topics' \in [status : {"none", "online", "offline"}, config : Profile, state : Int]
        /\ topics'.state = v /\ topics'.config = topics.config /\ topics'.status = topics.status
    BY <1>0, <2>2 DEF SketchTypeOK
  <2>5. Append(inbox, d) \in Seq(S) /\ Append(Append(inbox, d), e) \in Seq(S)
    BY <1>0, <2>1, AppendElements
  <2>6. SketchTypeOK' /\ OfflineTells'
    BY <1>0, <2>2, <2>3, <2>4, <2>5 DEF SketchTypeOK, OfflineTells, S
  <2>7. ProfileComes'
    <3>1. \A b : /\ EndsWith(inbox, {"config"}, b) => EndsWith(Append(inbox, d), {"config"}, b)
                 /\ NoneOf(inbox, {"config"}) => NoneOf(Append(inbox, d), {"config"})
      BY <1>0, <2>1, AppendEnds
    <3>2. \A b : /\ EndsWith(inbox, {"config"}, b) => EndsWith(Append(Append(inbox, d), e), {"config"}, b)
                 /\ NoneOf(inbox, {"config"}) => NoneOf(Append(Append(inbox, d), e), {"config"})
      BY <2>1, <2>5, <3>1, AppendEnds
    <3>3. QED
      BY <1>0, <2>2, <2>3, <2>4, <3>2 DEF ProfileComes
  <2>8. StateComes'
    <3>1. EndsWith(Append(Append(inbox, d), e), {"cmd", "state"}, v)
      BY <2>1, <2>5, AppendEnds
    <3>2. QED
      BY <2>2, <2>3, <2>4, <3>1 DEF StateComes
  <2>9. QED
    BY <2>6, <2>7, <2>8 DEF SketchInv
<1>3. QED
  BY <1>1, <1>2

\* Every step of the board, the broker and who uses them.
LEMMA SketchNextKeeps == SketchInv /\ [SketchNext]_sketchVars => SketchInv'
<1> SUFFICES ASSUME SketchInv, [SketchNext]_sketchVars PROVE SketchInv'
  OBVIOUS
<1>1. CASE UNCHANGED sketchVars
  BY <1>1 DEF sketchVars, boardVars, brokerVars, SketchInv, SketchTypeOK, ProfileComes, StateComes, OfflineTells
<1>2. \A mode \in {"periodic", "on_change"}, fits \in BOOLEAN : ConfigOf(mode, 3, 0, fits) \in Profile
  BY DEF ConfigOf, Profile
<1>3. ConfigOf("streaming", 0, 0, TRUE) \in Profile
  BY DEF ConfigOf, Profile
<1>4. QED
  BY <1>1, <1>2, <1>3, BoardKeeps, PassKeeps, ReceiveKeeps, MqttConnectsKeeps, PublishedKeeps DEF SketchNext

\* A board that never ran, and a broker with the profile of its metric.
LEMMA SketchStarts == SketchInit => SketchInv
<1> SUFFICES ASSUME SketchInit PROVE SketchInv
  OBVIOUS
<1>1. PICK q \in SketchQuestions : /\ clock = q.clock /\ m = MetricRow(q.config)
                                   /\ topics = [status |-> "none", config |-> q.config, state |-> None]
                                   /\ sock = "down" /\ level = 0 /\ out = None /\ inbox = << >>
  BY DEF SketchInit
<1>2. clock \in Int /\ q.config \in Profile /\ m \in MetricProfile
  BY <1>1, SketchAssumption, BootTypes
<1>3. \A S : << >> \in Seq(S)
  OBVIOUS
<1>4. inbox \in Seq(ProfileMessage \cup OutputMessage)
  BY <1>1, <1>3, Zenon
<1>5. QED
  BY <1>1, <1>2, <1>4 DEF SketchInv, SketchTypeOK, ProfileComes, StateComes, OfflineTells, None

\* The last message on its way to a connected board is what the broker keeps, or
\* the board has it, through drops, restarts and rotated credentials.
THEOREM SketchInvariant == SketchSpec => []SketchInv
  BY SketchStarts, SketchNextKeeps, PTL DEF SketchSpec

\* A connected board with nothing on its way runs the current profile (if the
\* message fits its buffer) and does what the broker keeps; one that dropped off
\* is not online once its will is out.
THEOREM BoardFollowsTheorem == SketchSpec => []BoardFollows
<1>1. SketchInv => BoardFollows
  <2> SUFFICES ASSUME SketchInv PROVE FollowsProfile /\ OutputFollows
    BY DEF SketchInv, BoardFollows
  <2>1. inbox = << >> => ~EndsWith(inbox, {"config"}, topics.config) /\ ~EndsWith(inbox, {"cmd", "state"}, topics.state)
    BY DEF EndsWith
  <2>2. QED
    BY <2>1 DEF SketchInv, ProfileComes, StateComes, FollowsProfile, OutputFollows
<1>2. QED
  BY <1>1, SketchInvariant, PTL

-----------------------------------------------------------------------------
(* The reset button (watchProvisioningReset). *)

\* A tick later the board has seen the button down a tick longer at most, also
\* where millis() wraps.
LEMMA ATickLater ==
    ASSUME NEW W \in Nat \ {0}, NEW c \in 0 .. (W - 1), NEW t \in 0 .. (W - 1)
    PROVE  /\ (c + 1) % W \in 0 .. (W - 1)
           /\ (c - t) % W \in Nat /\ (c - c) % W = 0
           /\ (((c + 1) % W) - t) % W <= ((c - t) % W) + 1
<1>1. (c + 1) % W = IF c + 1 = W THEN 0 ELSE c + 1
  OBVIOUS
<1>2. \A d \in 0 .. (W - 1) : (d - t) % W = IF d >= t THEN d - t ELSE d - t + W
  OBVIOUS
<1>3. QED
  BY <1>1, <1>2

\* A pass that looks at the button, or that follows connectMqtt.
LEMMA PassSees ==
    ASSUME ForgetInv, UNCHANGED <<phone, button>>, Passes(1), calm' = More(calm),
           at' \in {"loop", "wifi"}, IF phone /\ at # "rest" THEN Watches ELSE UNCHANGED <<resetDownSince, blind>>
    PROVE  ForgetInv'
<1>0. Wrap \in Nat \ {0}
  BY SketchAssumption
<1>1. /\ clock' \in 0 .. (Wrap - 1) /\ Since(clock) = 0
      /\ (((clock + 1) % Wrap) - clock) % Wrap <= Since(clock) + 1
      /\ \A t \in 0 .. (Wrap - 1) : Since(t) \in Nat /\ (((clock + 1) % Wrap) - t) % Wrap <= Since(t) + 1
  BY <1>0, ATickLater DEF Passes, Since, ForgetInv
<1>2. /\ held' \in 0 .. Cap /\ calm' \in 0 .. Cap
      /\ button => held' = Cap \/ held' = held + 1
  BY DEF Passes, More, Cap, ForgetInv
<1>3. resetDownSince' \in 0 .. (Wrap - 1) /\ blind' \in BOOLEAN
  <2>1. 0 \in 0 .. (Wrap - 1) /\ DownSince \in {0, clock, resetDownSince} /\ (blind /\ button) \in BOOLEAN
    BY SketchAssumption DEF DownSince
  <2>2. resetDownSince' \in {DownSince, resetDownSince} /\ blind' \in {blind /\ button, blind}
    BY DEF Watches
  <2>3. QED
    BY <2>1, <2>2 DEF ForgetInv
<1>4. ButtonSeen'
  <2> SUFFICES ASSUME phone, ~blind', resetDownSince' # 0
               PROVE  button /\ (Since(resetDownSince)' <= held' \/ held' = Cap)
    BY DEF ButtonSeen
  <2>1. CASE at = "rest"
    BY <2>1 DEF ForgetInv, ButtonSeen
  <2>2. CASE at # "rest"
    <3>1. button /\ ~blind /\ resetDownSince' = IF resetDownSince = 0 THEN clock ELSE resetDownSince
      BY <2>2 DEF Watches, DownSince, ForgetInv
    <3>2. Since(resetDownSince)' = (clock' - resetDownSince') % Wrap /\ clock' = (clock + 1) % Wrap
      BY DEF Since, Passes
    <3>0. Since(resetDownSince)' \in Nat
      <4>1. (clock' - resetDownSince') % Wrap \in Nat
        BY <1>0, <1>1, <1>3, ATickLater
      <4>2. QED
        BY <3>2, <4>1
    <3>3. CASE resetDownSince = 0
      <4>1. Since(resetDownSince)' <= 1
        BY <1>1, <3>1, <3>2, <3>3
      <4>2. held' = Cap \/ held' >= 1
        BY <1>2, <3>1 DEF ForgetInv
      <4>3. Since(resetDownSince)' \in Nat
        BY <3>0
      <4>4. QED
        BY <1>2, <3>1, <4>1, <4>2, <4>3 DEF Cap
    <3>4. CASE resetDownSince # 0
      <4>1. Since(resetDownSince) <= held \/ held = Cap
        BY <3>1, <3>4 DEF ForgetInv, ButtonSeen
      <4>2. /\ Since(resetDownSince)' <= Since(resetDownSince) + 1 /\ Since(resetDownSince) \in Nat
            /\ Since(resetDownSince)' \in Nat
        <5>1. resetDownSince' = resetDownSince /\ resetDownSince \in 0 .. (Wrap - 1)
          BY <1>3, <3>1, <3>4
        <5>2. QED
          BY <1>1, <3>0, <3>2, <5>1
      <4>3. QED
        BY <1>2, <3>1, <4>1, <4>2 DEF ForgetInv, Cap
    <3>5. QED
      BY <3>3, <3>4
  <2>3. QED
    BY <2>1, <2>2
<1>5. QED
  BY <1>1, <1>2, <1>3, <1>4 DEF ForgetInv

\* What happens around the board, and what it does without a pass.
LEMMA ForgetKeeps == ForgetInv /\ [SketchNext]_sketchVars => ForgetInv' /\ ForgetStep
<1> SUFFICES ASSUME ForgetInv, [SketchNext]_sketchVars PROVE ForgetInv' /\ ForgetStep
  OBVIOUS
<1> DEFINE Still == UNCHANGED <<phone, button, blind, clock, resetDownSince, held>>
<1>1. ASSUME Still, at' = at \/ (at = "mqtt" /\ at' \in {"rest", "wifi"}), calm' \in {0, calm} PROVE ForgetInv'
  <2>1. {phone', button', blind'} \subseteq BOOLEAN /\ calm' \in 0 .. Cap
    BY <1>1 DEF ForgetInv, Cap
  <2>2. ButtonSeen'
    BY <1>1 DEF ForgetInv, ButtonSeen, Since
  <2>3. QED
    BY <1>1, <2>1, <2>2 DEF ForgetInv
<1>2. CASE Restart
  <2>1. saved_wifi' = FALSE /\ phone /\ button /\ Since(DownSince) >= RESET_HOLD /\ at \in {"loop", "wifi"}
    BY <1>2 DEF Restart, HeldDown
  <2>2. held >= RESET_HOLD \/ blind
    <3>1. Since(clock) = 0
      BY ATickLater, SketchAssumption DEF Since, ForgetInv
    <3>2. resetDownSince # 0 /\ Since(DownSince) = Since(resetDownSince)
      BY <2>1, <3>1 DEF DownSince, RESET_HOLD
    <3>3. Since(resetDownSince) \in Nat
      BY ATickLater, SketchAssumption DEF Since, ForgetInv
    <3>4. QED
      BY <2>1, <3>2, <3>3 DEF ForgetInv, ButtonSeen, RESET_HOLD, Cap
  <2>3. ForgetInv'
    <3>1. /\ UNCHANGED <<phone, button>> /\ blind' = FALSE /\ clock' = 0 /\ resetDownSince' = 0
          /\ held' = 0 /\ calm' = 0 /\ at' = "loop"
      BY <1>2 DEF Restart
    <3>2. {phone', button', blind'} \subseteq BOOLEAN
      BY <3>1 DEF ForgetInv
    <3>3. 0 \in 0 .. (Wrap - 1) /\ 0 \in 0 .. Cap
      BY SketchAssumption DEF Cap
    <3>4. QED
      BY <3>1, <3>2, <3>3 DEF ForgetInv, ButtonSeen
  <2>4. QED
    BY <2>2, <2>3 DEF ForgetStep
<1>3. CASE LoopWaits \/ LoopPass \/ WifiWaits
  <2>1. /\ UNCHANGED <<phone, button, saved_wifi>> /\ Passes(1) /\ calm' = More(calm) /\ at' \in {"loop", "wifi"}
        /\ IF phone /\ at # "rest" THEN Watches ELSE UNCHANGED <<resetDownSince, blind>>
    BY <1>3 DEF LoopWaits, LoopPass, WifiWaits
  <2>2. QED
    BY <2>1, PassSees DEF ForgetStep
<1>4. CASE LoopConnects \/ WifiThere
  <2>1. /\ UNCHANGED <<phone, button, clock, held, calm, saved_wifi>> /\ at' = "mqtt"
        /\ resetDownSince' \in {0, clock, resetDownSince}
        /\ blind' \in BOOLEAN /\ (phone /\ ~blind' => resetDownSince' = 0 /\ ~button)
    BY <1>4 DEF LoopConnects, WifiThere, DownSince, ForgetInv
  <2>2. 0 \in 0 .. (Wrap - 1)
    BY SketchAssumption
  <2>3. QED
    BY <2>1, <2>2 DEF ForgetInv, ButtonSeen, ForgetStep
<1>5. CASE MqttRefused
  <2>1. /\ UNCHANGED <<phone, button, resetDownSince, saved_wifi>> /\ at = "mqtt" /\ at' = "mqtt"
        /\ Passes(2) /\ calm' = More(calm) /\ blind' = (blind \/ button)
    BY <1>5 DEF MqttRefused
  <2>2. clock' \in 0 .. (Wrap - 1)
    BY <2>1, SketchAssumption DEF Passes, ForgetInv
  <2>3. held' \in 0 .. Cap /\ calm' \in 0 .. Cap
    BY <2>1 DEF Passes, More, Cap, ForgetInv
  <2>4. QED
    BY <2>1, <2>2, <2>3 DEF ForgetInv, ButtonSeen, ForgetStep
<1>6. CASE Press
  <2>1. /\ UNCHANGED <<phone, at, clock, resetDownSince, saved_wifi>> /\ button' = ~button /\ held' = 0 /\ calm' = 0
        /\ calm > 0 \/ at = "mqtt"
        /\ blind' = (blind \/ (phone /\ at = "mqtt"))
    BY <1>6 DEF Press, Happens
  <2>2. {phone', button', blind'} \subseteq BOOLEAN
    BY <2>1 DEF ForgetInv
  <2>3. ButtonSeen'
    BY <2>1 DEF ForgetInv, ButtonSeen
  <2>4. QED
    BY <2>1, <2>2, <2>3 DEF ForgetInv, ForgetStep, Cap
<1>7. CASE MqttConnects \/ MqttNeedsWifi \/ Receive \/ WifiUp \/ BoardNotices \/ WillFires \/ Rotates \/ Provisioned
  <2>1. /\ Still /\ calm' \in {0, calm} /\ (saved_wifi' = saved_wifi \/ saved_wifi')
        /\ at' = at \/ (at = "mqtt" /\ at' \in {"rest", "wifi"})
    BY <1>7 DEF MqttConnects, MqttNeedsWifi, Receive, WifiUp, BoardNotices, WillFires, Rotates, Provisioned,
                Happens, boardVars, brokerVars, ghostVars
  <2>2. QED
    BY <1>1, <2>1 DEF ForgetStep
<1>8. ASSUME NEW w, NEW c, NEW v, Drops(w) \/ EditProfile(c) \/ SendCommand(v) \/ LevelBecomes(v)
      PROVE  ForgetInv' /\ ForgetStep
  <2>1. Still /\ at' = at /\ calm' \in {0, calm} /\ saved_wifi' = saved_wifi
    BY <1>8 DEF Drops, EditProfile, SendCommand, LevelBecomes, Happens, boardVars
  <2>2. QED
    BY <1>1, <2>1 DEF ForgetStep
<1>9. CASE UNCHANGED sketchVars
  <2>1. Still /\ at' = at /\ calm' = calm /\ saved_wifi' = saved_wifi
    BY <1>9 DEF sketchVars, boardVars, ghostVars
  <2>2. QED
    BY <1>1, <2>1 DEF ForgetStep
<1>10. QED
  BY <1>2, <1>3, <1>4, <1>5, <1>6, <1>7, <1>8, <1>9 DEF SketchNext

\* The button is up when the board starts.
LEMMA ForgetStarts == SketchInit => ForgetInv
<1> SUFFICES ASSUME NEW q \in SketchQuestions, phone = q.phone, at = IF q.phone THEN "loop" ELSE "wifi",
                    clock = q.clock, button = FALSE, resetDownSince = 0, calm = 0, held = 0, blind = FALSE
             PROVE  ForgetInv
  BY DEF SketchInit
<1>1. {phone, button, blind} \subseteq BOOLEAN
  BY SketchAssumption
<1>2. clock \in 0 .. (Wrap - 1) /\ 0 \in 0 .. (Wrap - 1) /\ 0 \in 0 .. Cap
  BY SketchAssumption DEF Cap
<1>3. QED
  BY <1>1, <1>2 DEF ForgetInv, ButtonSeen

\* The Wi-Fi is forgotten only after the button was held all that time, or the
\* board was in connectMqtt meanwhile; wherever millis() wraps, with the Wi-Fi
\* going and coming as it likes.
THEOREM ForgetTheorem == SketchSpec => []ForgetInv /\ [][ForgetStep]_sketchVars
  BY ForgetStarts, ForgetKeeps, PTL DEF SketchSpec

-----------------------------------------------------------------------------
(* The sketch in time. *)

\* A time measured with millis(), a tick later.
LEMMA Ticks ==
    ASSUME NEW W \in Nat, W >= 6, NEW c \in 0 .. (W - 1), NEW t \in 0 .. (W - 1)
    PROVE  /\ (c - t) % W \in 0 .. (W - 1) /\ (c - c) % W = 0
           /\ (c + 1) % W \in 0 .. (W - 1) /\ (((c + 1) % W) - c) % W = 1
           /\ (((c + 1) % W) - t) % W = IF ((c - t) % W) + 1 = W THEN 0 ELSE ((c - t) % W) + 1
<1>1. (c + 1) % W = IF c + 1 = W THEN 0 ELSE c + 1
  OBVIOUS
<1>2. ASSUME NEW d \in 0 .. (W - 1), NEW b \in 0 .. (W - 1)
      PROVE  (d - b) % W = IF d >= b THEN d - b ELSE d - b + W
  OBVIOUS
<1>3. PICK e \in 0 .. (W - 1) : e = (c + 1) % W /\ e = IF c + 1 = W THEN 0 ELSE c + 1
  BY <1>1
<1>4. /\ (c - t) % W = (IF c >= t THEN c - t ELSE c - t + W) /\ (c - c) % W = 0
      /\ (e - t) % W = IF e >= t THEN e - t ELSE e - t + W
      /\ (e - c) % W = IF e >= c THEN e - c ELSE e - c + W
  <2>1. c - c = 0 /\ 0 % W = 0
    OBVIOUS
  <2>2. QED
    BY <1>2, <2>1, Zenon
<1>5. PICK x, y, z : x = (c - t) % W /\ y = (e - t) % W /\ z = (e - c) % W
  OBVIOUS
<1>6. x \in 0 .. (W - 1) /\ z = 1 /\ y = IF x + 1 = W THEN 0 ELSE x + 1
  BY <1>3, <1>4, <1>5
<1>7. QED
  BY <1>3, <1>4, <1>5, <1>6

\* The same of Since.
LEMMA SinceTicks ==
    ASSUME clock \in 0 .. (Wrap - 1)
    PROVE  /\ Since(clock) = 0
           /\ (clock + 1) % Wrap \in 0 .. (Wrap - 1) /\ (((clock + 1) % Wrap) - clock) % Wrap = 1
           /\ \A t \in 0 .. (Wrap - 1) :
                /\ Since(t) \in 0 .. (Wrap - 1)
                /\ (((clock + 1) % Wrap) - t) % Wrap = IF Since(t) + 1 = Wrap THEN 0 ELSE Since(t) + 1
<1>1. Wrap \in Nat /\ Wrap >= 6 /\ 0 \in 0 .. (Wrap - 1)
  BY SketchAssumption
<1>2. Since(clock) = 0 /\ (clock + 1) % Wrap \in 0 .. (Wrap - 1) /\ (((clock + 1) % Wrap) - clock) % Wrap = 1
  BY <1>1, Ticks DEF Since
<1>3. ASSUME NEW t \in 0 .. (Wrap - 1)
      PROVE  /\ Since(t) \in 0 .. (Wrap - 1)
             /\ (((clock + 1) % Wrap) - t) % Wrap = IF Since(t) + 1 = Wrap THEN 0 ELSE Since(t) + 1
  BY <1>1, Ticks DEF Since
<1>4. QED
  BY <1>2, <1>3

\* The times kept are times of the clock, and no interval is zero.
LEMMA ClocksKeep ==
    ASSUME SketchTypeOK, ForgetInv, ClocksOK, [SketchNext]_sketchVars
    PROVE  ClocksOK'
<1>1. /\ clock \in 0 .. (Wrap - 1) /\ 0 \in 0 .. (Wrap - 1) /\ m \in MetricProfile
      /\ m.lastPublish \in 0 .. (Wrap - 1) /\ m.candidateSince \in 0 .. (Wrap - 1)
      /\ lastStatusMs \in 0 .. (Wrap - 1) /\ m.every >= 1
  BY SketchAssumption DEF SketchTypeOK, ForgetInv, ClocksOK
<1>2. ASSUME UNCHANGED <<m, lastStatusMs>> \/ (m' = m /\ lastStatusMs' \in {0, clock})
      PROVE  ClocksOK'
  BY <1>1, <1>2 DEF ClocksOK
<1>3. ASSUME NEW p \in MetricProfile, NEW c \in Profile
      PROVE  /\ applyConfig(p, c).lastPublish = p.lastPublish
             /\ applyConfig(p, c).candidateSince = p.candidateSince
             /\ applyConfig(p, c).every >= 1
  <2>1. /\ applyConfig(p, c).lastPublish = p.lastPublish /\ applyConfig(p, c).candidateSince = p.candidateSince
        /\ applyConfig(p, c).every = IF c.interval > 0 THEN c.interval ELSE defaultInterval(c.publish)
    BY DEF applyConfig, MetricProfile
  <2>2. c.interval \in Nat /\ defaultInterval(c.publish) \in {1, 2, 3}
    BY DEF Profile, defaultInterval
  <2>3. QED
    BY <2>1, <2>2
<1>4. CASE Restart
  <2> DEFINE r == [declared |-> m.declared, mode |-> "periodic", every |-> 0, deadband |-> 0, lastValue |-> None,
                   lastPublish |-> 0, candidate |-> None, candidateSince |-> 0]
  <2>1. m.declared \in Profile
    BY <1>1 DEF MetricProfile
  <2>2. r \in MetricProfile /\ r.lastPublish = 0 /\ r.candidateSince = 0
    BY <2>1 DEF MetricProfile, None
  <2>3. m' = applyConfig(r, m.declared) /\ lastStatusMs' = 0
    BY <1>4 DEF Restart, MetricRow
  <2>4. QED
    <3> HIDE DEF r
    <3>1. QED
      BY <1>1, <1>3, <2>1, <2>2, <2>3 DEF ClocksOK
<1>5. CASE Receive
  <2>1. PICK x : x = Head(inbox)
    OBVIOUS
  <2>2. /\ m' = IF x.topic = "config" /\ x.body.fits THEN applyConfig(m, x.body) ELSE m
        /\ lastStatusMs' = lastStatusMs
    BY <1>5, <2>1 DEF Receive
  <2>3. x \in ProfileMessage \cup OutputMessage
    BY <1>5, <2>1 DEF SketchTypeOK, Receive, Arrives
  <2>4. x.topic = "config" => x.body \in Profile
    BY <2>3 DEF ProfileMessage, OutputMessage
  <2>5. QED
    BY <1>1, <1>3, <2>2, <2>4 DEF ClocksOK
<1>6. CASE LoopPass
  <2>1. PICK ok \in BOOLEAN : publishMetrics(ok)
    BY <1>6 DEF LoopPass
  <2>2. lastStatusMs' \in {clock, lastStatusMs}
    BY <1>6 DEF LoopPass, publishStatus
  <2>3. PICK p : p = Candidate
    OBVIOUS
  <2>4. p \in MetricProfile /\ p.lastPublish = m.lastPublish /\ p.candidateSince \in {clock, m.candidateSince} /\ p.every = m.every
    <3>1. clock \in Int /\ level \in Int
      BY DEF SketchTypeOK
    <3>2. QED
      BY <1>1, <2>3, <3>1 DEF Candidate, MetricProfile
  <2>5. m' \in {m, p, [p EXCEPT !.lastValue = level, !.lastPublish = clock]}
    BY <2>1, <2>3 DEF publishMetrics, Recorded
  <2>6. /\ m'.lastPublish \in {clock, m.lastPublish} /\ m'.candidateSince \in {clock, m.candidateSince}
        /\ m'.every = m.every
    BY <2>4, <2>5 DEF MetricProfile
  <2>7. QED
    BY <1>1, <2>2, <2>6 DEF ClocksOK
<1>7. CASE MqttConnects
  BY <1>2, <1>7 DEF MqttConnects, publishStatus
<1>8. CASE \/ LoopWaits \/ LoopConnects \/ MqttRefused \/ MqttNeedsWifi \/ WifiWaits \/ WifiThere
           \/ WifiUp \/ BoardNotices \/ WillFires \/ Rotates \/ Press \/ Provisioned \/ UNCHANGED sketchVars
  BY <1>2, <1>8 DEF LoopWaits, LoopConnects, MqttRefused, MqttNeedsWifi, WifiWaits, WifiThere, WifiUp,
       BoardNotices, WillFires, Rotates, Press, Provisioned, sketchVars, boardVars
<1>9. ASSUME NEW w, NEW c, NEW v, Drops(w) \/ EditProfile(c) \/ SendCommand(v) \/ LevelBecomes(v)
      PROVE  ClocksOK'
  BY <1>2, <1>9 DEF Drops, EditProfile, SendCommand, LevelBecomes, boardVars
<1>10. QED
  BY <1>4, <1>5, <1>6, <1>7, <1>8, <1>9 DEF SketchNext

\* A connected board says it is online in time.
LEMMA OnlineKeeps ==
    ASSUME SketchTypeOK, ForgetInv, ClocksOK, OnlineInv, [SketchNext]_sketchVars
    PROVE  OnlineInv'
<1>1. clock \in 0 .. (Wrap - 1) /\ lastStatusMs \in 0 .. (Wrap - 1) /\ calm \in 0 .. Cap /\ Wrap \in Nat /\ Wrap >= 6
  BY SketchAssumption DEF ForgetInv, ClocksOK
<1>2. ASSUME sock' = "up" => sock = "up",
             UNCHANGED <<wifi, at, clock, lastStatusMs>>, calm' = 0 \/ (calm' = calm /\ topics'.status = topics.status)
      PROVE  OnlineInv'
  <2>1. Since(lastStatusMs)' = Since(lastStatusMs) /\ Since(lastStatusMs) >= 0
    BY <1>1, <1>2, SinceTicks DEF Since
  <2>2. QED
    BY <1>2, <2>1 DEF OnlineInv
<1>3. ASSUME sock' # "up"
      PROVE  OnlineInv'
  BY <1>3 DEF OnlineInv
<1>4. CASE MqttConnects
  <2>1. wifi' /\ at' = "rest" /\ lastStatusMs' = clock /\ clock' = clock /\ topics'.status = "online"
    BY <1>4 DEF MqttConnects, publishStatus, SketchTypeOK
  <2>2. Since(lastStatusMs)' = 0
    BY <1>1, <2>1, SinceTicks DEF Since
  <2>3. QED
    BY <2>1, <2>2 DEF OnlineInv, STATUS_INTERVAL
<1>5. CASE LoopPass
  <2> SUFFICES ASSUME sock' = "up" PROVE OnlineInv'
    BY <1>3
  <2>1. /\ sock = "up" /\ at' = "loop" /\ wifi' = wifi /\ clock' = (clock + 1) % Wrap /\ calm' = More(calm)
        /\ IF StatusDue THEN publishStatus ELSE UNCHANGED <<topics, lastStatusMs>>
    BY <1>5 DEF LoopPass, Passes
  <2>2. wifi /\ Since(lastStatusMs) <= STATUS_INTERVAL /\ (topics.status # "online" => calm <= Since(lastStatusMs))
    BY <2>1 DEF OnlineInv
  <2>3. Since(lastStatusMs)' = (clock' - lastStatusMs') % Wrap
    BY DEF Since
  <2>4. CASE StatusDue
    <3>1. lastStatusMs' = clock /\ topics'.status = "online"
      BY <2>1, <2>4 DEF publishStatus, SketchTypeOK
    <3>2. Since(lastStatusMs)' = 1
      BY <1>1, <2>1, <2>3, <3>1, SinceTicks
    <3>3. QED
      BY <2>1, <2>2, <3>1, <3>2 DEF OnlineInv, STATUS_INTERVAL
  <2>5. CASE ~StatusDue
    <3>1. PICK s \in 0 .. (Wrap - 1) : s = Since(lastStatusMs)
      BY <1>1, SinceTicks
    <3>2. s < 3
      BY <2>5, <3>1 DEF StatusDue, STATUS_INTERVAL
    <3>3. Since(lastStatusMs)' = s + 1
      BY <1>1, <2>1, <2>3, <2>5, <3>1, <3>2, SinceTicks
    <3>4. calm \in Nat /\ calm' \in Nat /\ calm' <= calm + 1
      BY <1>1, <2>1 DEF More, Cap
    <3>5. QED
      BY <1>1, <2>1, <2>2, <2>5, <3>1, <3>2, <3>3, <3>4 DEF OnlineInv, STATUS_INTERVAL
  <2>6. QED
    BY <2>4, <2>5
<1>6. CASE Restart \/ BoardNotices
  BY <1>3, <1>6 DEF Restart, BoardNotices
<1>7. CASE LoopWaits \/ LoopConnects \/ MqttRefused \/ MqttNeedsWifi \/ WifiWaits \/ WifiThere
  <2>1. sock' # "up"
    BY <1>7 DEF LoopWaits, LoopConnects, MqttRefused, MqttNeedsWifi, WifiWaits, WifiThere, OnlineInv
  <2>2. QED
    BY <1>3, <2>1
<1>8. CASE Receive \/ WifiUp \/ WillFires \/ Rotates \/ Press \/ Provisioned \/ UNCHANGED sketchVars
  <2>1. CASE WifiUp
    <3>1. sock' # "up"
      BY <2>1 DEF WifiUp, OnlineInv
    <3>2. QED
      BY <1>3, <3>1
  <2>2. CASE Receive \/ WillFires \/ Rotates \/ Press \/ Provisioned \/ UNCHANGED sketchVars
    BY <1>2, <2>2 DEF Receive, WillFires, Rotates, Press, Provisioned, Happens, sketchVars, boardVars, brokerVars, ghostVars
  <2>3. QED
    BY <1>8, <2>1, <2>2
<1>9. ASSUME NEW w, NEW c, NEW v, Drops(w) \/ EditProfile(c) \/ SendCommand(v) \/ LevelBecomes(v)
      PROVE  OnlineInv'
  <2>1. CASE Drops(w)
    <3>1. sock' # "up"
      BY <2>1 DEF Drops
    <3>2. QED
      BY <1>3, <3>1
  <2>2. CASE EditProfile(c) \/ SendCommand(v) \/ LevelBecomes(v)
    BY <1>2, <2>2 DEF EditProfile, SendCommand, LevelBecomes, Happens, boardVars
  <2>3. QED
    BY <1>9, <2>1, <2>2
<1>10. QED
  BY <1>4, <1>5, <1>6, <1>7, <1>8, <1>9 DEF SketchNext

\* A pass that looks at the button, or that follows connectMqtt.
LEMMA PassCounts ==
    ASSUME ForgetInv, HoldInv, UNCHANGED <<phone, button>>, Passes(1), at' = at \/ at' = "loop", at' # "rest",
           at' # "mqtt",
           at # "rest" => ~HeldDown /\ (phone => Watches), at = "rest" => UNCHANGED <<resetDownSince, blind>>
    PROVE  HoldInv'
<1>1. /\ clock \in 0 .. (Wrap - 1) /\ resetDownSince \in 0 .. (Wrap - 1) /\ held \in 0 .. Cap /\ Wrap \in Nat /\ Wrap >= 6
      /\ {phone, button, blind} \subseteq BOOLEAN /\ clock' = (clock + 1) % Wrap
  BY SketchAssumption DEF ForgetInv, Passes
<1>2. ~button' => held' = 0
  BY DEF Passes
<1>3. ASSUME phone, ~blind', button
      PROVE  at' \in {"loop", "wifi"} /\ IF resetDownSince' = 0
             THEN held' = 0 \/ (held' = 1 /\ clock' = 1)
             ELSE Since(resetDownSince)' <= RESET_HOLD /\ held' <= Since(resetDownSince)' + 1
  <2>1. at # "rest" /\ ~blind /\ at \in {"loop", "wifi"}
    BY <1>1, <1>3 DEF Watches, HoldInv, HoldCounted
  <2>2. /\ IF resetDownSince = 0 THEN held = 0 \/ (held = 1 /\ clock = 1)
           ELSE Since(resetDownSince) <= RESET_HOLD /\ held <= Since(resetDownSince) + 1
        /\ resetDownSince' = IF resetDownSince = 0 THEN clock ELSE resetDownSince
    BY <1>3, <2>1 DEF HoldInv, HoldCounted, Watches, DownSince
  <2>3. Since(resetDownSince)' = (clock' - resetDownSince') % Wrap /\ held' <= held + 1 /\ held' \in Nat
    BY <1>1, <1>3 DEF Since, Passes, Cap
  <2>4. CASE resetDownSince = 0
    <3>1. Since(resetDownSince)' = 1
      BY <1>1, <2>2, <2>3, <2>4, SinceTicks
    <3>2. clock = 0 => clock' = 1
      BY <1>1
    <3>3. held \in {0, 1} /\ (held = 0 \/ clock = 1)
      BY <2>2, <2>4
    <3>4. clock = 0 => held' \in {0, 1}
      BY <2>3, <3>3
    <3>5. held' <= 2
      BY <2>3, <3>3
    <3>6. CASE clock = 0
      BY <2>1, <2>2, <2>4, <3>2, <3>4, <3>6
    <3>7. CASE clock # 0
      BY <2>1, <2>2, <2>4, <3>1, <3>5, <3>7 DEF RESET_HOLD
    <3>8. QED
      BY <3>6, <3>7
  <2>5. CASE resetDownSince # 0
    <3>1. PICK s \in 0 .. (Wrap - 1) : s = Since(resetDownSince)
      BY <1>1, SinceTicks
    <3>2. s < 3
      BY <1>3, <2>1, <2>5, <3>1 DEF HeldDown, DownSince, RESET_HOLD
    <3>3. Since(resetDownSince)' = s + 1
      BY <1>1, <2>2, <2>3, <2>5, <3>1, <3>2, SinceTicks
    <3>4. held <= s + 1
      BY <2>2, <2>5, <3>1
    <3>5. held' <= s + 2
      BY <1>1, <2>3, <3>1, <3>4
    <3>6. QED
      BY <2>1, <2>2, <2>5, <3>2, <3>3, <3>5 DEF RESET_HOLD
  <2>6. QED
    BY <2>4, <2>5
<1>4. HoldCounted'
  BY <1>3 DEF HoldCounted
<1>5. QED
  BY <1>2, <1>4 DEF HoldInv

\* The board counts how long the button is down.
LEMMA HoldKeeps ==
    ASSUME ForgetInv, HoldInv, [SketchNext]_sketchVars
    PROVE  HoldInv'
<1>0. {phone, button, blind} \subseteq BOOLEAN
  BY DEF ForgetInv
<1>1. ASSUME UNCHANGED <<phone, button, blind, clock, resetDownSince, held>>,
             \/ at' = at /\ calm' \in {0, calm}
             \/ at = "mqtt" /\ at' = "wifi"
             \/ at = "mqtt" /\ at' = "rest" /\ calm' = 0
      PROVE  HoldInv'
  BY <1>1 DEF HoldInv, HoldCounted, Since
<1>2. CASE Restart
  <2>1. blind' = FALSE /\ resetDownSince' = 0 /\ held' = 0 /\ at' = "loop"
    BY <1>2 DEF Restart
  <2>2. QED
    BY <2>1 DEF HoldInv, HoldCounted
<1>3. CASE LoopWaits \/ LoopPass \/ WifiWaits
  <2>1. /\ UNCHANGED <<phone, button>> /\ Passes(1) /\ at' # "rest" /\ at' # "mqtt"
        /\ at' = at \/ at' = "loop"
        /\ at # "rest" => ~HeldDown /\ (phone => Watches)
        /\ at = "rest" => UNCHANGED <<resetDownSince, blind>>
    BY <1>3 DEF LoopWaits, LoopPass, WifiWaits
  <2>2. QED
    BY <2>1, PassCounts
<1>4. CASE LoopConnects \/ WifiThere
  <2>1. /\ UNCHANGED <<phone, button, held>> /\ at' = "mqtt"
        /\ phone /\ button => blind'
    BY <1>0, <1>4 DEF LoopConnects, WifiThere
  <2>2. QED
    BY <2>1 DEF HoldInv, HoldCounted
<1>5. CASE MqttRefused
  <2>1. /\ UNCHANGED <<phone, button>> /\ at' = "mqtt" /\ (~button => held' = 0)
        /\ blind' = (blind \/ button)
    BY <1>5 DEF MqttRefused, Passes
  <2>2. QED
    BY <2>1 DEF HoldInv, HoldCounted
<1>6. CASE Press
  <2>1. /\ UNCHANGED <<phone, at, clock, resetDownSince>> /\ button' = ~button /\ held' = 0 /\ calm' = 0
        /\ calm > 0 \/ at = "mqtt"
        /\ blind' = (blind \/ (phone /\ at = "mqtt"))
    BY <1>6 DEF Press, Happens
  <2>2. HoldCounted'
    <3> SUFFICES ASSUME phone, ~blind', button'
                 PROVE  at \in {"loop", "wifi"} /\ resetDownSince = 0
      BY <2>1 DEF HoldCounted
    <3>1. at # "mqtt" /\ calm > 0 /\ ~button /\ ~blind
      BY <1>0, <2>1
    <3>2. at # "rest"
      BY <3>1 DEF HoldInv, ForgetInv, Cap
    <3>3. resetDownSince = 0
      BY <3>1 DEF ForgetInv, ButtonSeen, Cap
    <3>4. QED
      BY <3>1, <3>2, <3>3 DEF ForgetInv
  <2>3. QED
    BY <2>1, <2>2 DEF HoldInv
<1>7. CASE MqttConnects \/ MqttNeedsWifi \/ Receive \/ WifiUp \/ BoardNotices \/ WillFires \/ Rotates \/ Provisioned
  <2>1. /\ UNCHANGED <<phone, button, blind, clock, resetDownSince, held>>
        /\ \/ at' = at /\ calm' \in {0, calm}
           \/ at = "mqtt" /\ at' = "wifi"
           \/ at = "mqtt" /\ at' = "rest" /\ calm' = 0
    BY <1>7 DEF MqttConnects, MqttNeedsWifi, Receive, WifiUp, BoardNotices, WillFires, Rotates, Provisioned,
                Happens, boardVars, brokerVars, ghostVars
  <2>2. QED
    BY <1>1, <2>1
<1>8. ASSUME NEW w, NEW c, NEW v, Drops(w) \/ EditProfile(c) \/ SendCommand(v) \/ LevelBecomes(v)
      PROVE  HoldInv'
  <2>1. UNCHANGED <<phone, button, blind, clock, resetDownSince, held, at>> /\ calm' \in {0, calm}
    BY <1>8 DEF Drops, EditProfile, SendCommand, LevelBecomes, Happens, boardVars
  <2>2. QED
    BY <1>1, <2>1
<1>9. CASE UNCHANGED sketchVars
  <2>1. UNCHANGED <<phone, button, blind, clock, resetDownSince, held, at, calm>>
    BY <1>9 DEF sketchVars, boardVars, ghostVars
  <2>2. QED
    BY <1>1, <2>1
<1>10. QED
  BY <1>2, <1>3, <1>4, <1>5, <1>6, <1>7, <1>8, <1>9 DEF SketchNext

\* publishMetrics on a connected board that reads something, with x since the
\* last publish and d since the candidate was new: it tells what it reads, or
\* waits a tick longer.
DueAt(x) ==
  \/ m.lastValue = None \/ x >= m.every
  \/ /\ m.mode = "on_change" /\ x >= 1
     /\ IF isBool THEN level # m.lastValue ELSE Distance(level, m.lastValue) > m.deadband

\* A measured time a tick later, and how a pass may leave a reading: told, left for
\* a later pass, or read at a distance from what was told.
NextTick(x) == IF x + 1 = Wrap THEN 0 ELSE x + 1
Tells ==
  /\ m'.lastValue = level /\ platform' = level /\ sinceReading' = 0 /\ lost' = FALSE
  /\ Since(m.lastPublish)' = 1
TellsLater(x) ==
  /\ UNCHANGED <<m.lastValue, platform, lost>> /\ sinceReading' = More(sinceReading)
  /\ Since(m.lastPublish)' = NextTick(x)
Reads(x, d) ==
  /\ x = Since(m.lastPublish) /\ x \in 0 .. (Wrap - 1) /\ d \in 0 .. (Wrap - 1)
  /\ d = IF isBool /\ level # m.candidate THEN 0 ELSE Since(m.candidateSince)
  /\ Since(m.candidateSince)' = NextTick(d) /\ (isBool => m'.candidate = level)
  /\ UNCHANGED <<level, isBool, m.every, m.mode, m.deadband>> /\ calm' = More(calm)
  /\ IF (isBool => d >= BOOL_DEBOUNCE) /\ DueAt(x) THEN Tells ELSE TellsLater(x)

\* A pass of loop() is such a one.
LEMMA PassReads ==
    ASSUME SketchTypeOK, ForgetInv, ClocksOK, LoopPass, sock' = "up", level # None
    PROVE  sock = "up" /\ \E x, d : Reads(x, d)
<1>1. /\ clock \in 0 .. (Wrap - 1) /\ m \in MetricProfile /\ level \in Int
      /\ m.lastPublish \in 0 .. (Wrap - 1) /\ m.candidateSince \in 0 .. (Wrap - 1) /\ 0 \in 0 .. (Wrap - 1)
  BY SketchAssumption DEF SketchTypeOK, ForgetInv, ClocksOK
<1>2. sock = "up" /\ publishMetrics(TRUE)
  BY DEF LoopPass
<1>3. clock' = (clock + 1) % Wrap /\ UNCHANGED <<level, isBool>> /\ calm' = More(calm)
  BY DEF LoopPass, Passes
<1>4. PICK p, new : p = Candidate /\ new \in BOOLEAN /\ new = (isBool /\ level # m.candidate)
  OBVIOUS
<1>5. p = IF new THEN [m EXCEPT !.candidate = level, !.candidateSince = clock] ELSE m
  BY <1>4 DEF Candidate
<1>6. /\ p \in MetricProfile /\ p.lastPublish = m.lastPublish /\ p.lastValue = m.lastValue
      /\ p.candidateSince = (IF new THEN clock ELSE m.candidateSince) /\ (isBool => p.candidate = level)
      /\ p.every = m.every /\ p.mode = m.mode /\ p.deadband = m.deadband
  <2>1. CASE new
    <3>1. p = [m EXCEPT !.candidate = level, !.candidateSince = clock]
      BY <1>5, <2>1
    <3>2. clock \in Int
      BY DEF SketchTypeOK
    <3>3. p \in MetricProfile /\ p.candidate = level /\ p.candidateSince = clock
      BY <1>1, <3>1, <3>2 DEF MetricProfile
    <3>4. p.lastPublish = m.lastPublish /\ p.lastValue = m.lastValue
          /\ p.every = m.every /\ p.mode = m.mode /\ p.deadband = m.deadband
      BY <1>1, <3>1 DEF MetricProfile
    <3>5. QED
      BY <2>1, <3>3, <3>4
  <2>2. CASE ~new
    BY <1>1, <1>4, <1>5, <2>2
  <2>3. QED
    BY <2>1, <2>2
<1>7. PICK x \in 0 .. (Wrap - 1), d \in 0 .. (Wrap - 1) :
        x = Since(m.lastPublish) /\ d = Since(p.candidateSince)
  BY <1>1, <1>6, SinceTicks
<1>8. d = IF isBool /\ level # m.candidate THEN 0 ELSE Since(m.candidateSince)
  BY <1>1, <1>4, <1>6, <1>7, SinceTicks
<1>9. PICK sends \in BOOLEAN : sends = (Debounced /\ Due)
  OBVIOUS
<1>10. sends = ((isBool => d >= BOOL_DEBOUNCE) /\ DueAt(x))
  <2>1. Debounced = (isBool => d >= BOOL_DEBOUNCE)
    BY <1>4, <1>7 DEF Debounced
  <2>2. Due = DueAt(x)
    BY <1>7 DEF Due, DueAt, ON_CHANGE_MIN_GAP
  <2>3. QED
    BY <1>9, <2>1, <2>2
<1>11. /\ m' = IF sends THEN [p EXCEPT !.lastValue = level, !.lastPublish = clock] ELSE p
       /\ platform' = (IF sends THEN level ELSE platform)
       /\ sinceReading' = (IF sends THEN 0 ELSE More(sinceReading))
       /\ lost' = (IF sends THEN FALSE ELSE lost)
  <2>1. /\ m' = IF sends THEN Recorded(p, TRUE) ELSE p
        /\ platform' = IF sends /\ sock = "up" THEN level ELSE platform
        /\ sinceReading' = IF sends /\ sock = "up" THEN 0 ELSE More(sinceReading)
        /\ lost' = IF sends /\ TRUE THEN sock # "up" ELSE lost
    <3>1. PICK s : s = (level # None /\ Debounced /\ Due)
      OBVIOUS
    <3>2. s = sends
      BY <1>9, <3>1
    <3>3. /\ m' = IF level = None THEN m ELSE IF s THEN Recorded(p, TRUE) ELSE p
          /\ platform' = IF s /\ sock = "up" THEN level ELSE platform
          /\ sinceReading' = IF s /\ sock = "up" THEN 0 ELSE More(sinceReading)
          /\ lost' = IF s /\ TRUE THEN sock # "up" ELSE lost
      BY <1>2, <1>4, <3>1 DEF publishMetrics
    <3>4. QED
      BY <3>2, <3>3
  <2>2. QED
    BY <1>2, <2>1 DEF Recorded
<1>12. /\ m'.every = m.every /\ m'.mode = m.mode /\ m'.deadband = m.deadband /\ (isBool => m'.candidate = level)
       /\ m'.candidateSince = p.candidateSince
       /\ m'.lastValue = (IF sends THEN level ELSE m.lastValue)
       /\ m'.lastPublish = (IF sends THEN clock ELSE m.lastPublish)
  <2>1. CASE sends
    BY <1>1, <1>6, <1>11, <2>1 DEF MetricProfile
  <2>2. CASE ~sends
    BY <1>6, <1>11, <2>2
  <2>3. QED
    BY <2>1, <2>2
<1>13. /\ Since(m.candidateSince)' = NextTick(d)
       /\ Since(m.lastPublish)' = IF sends THEN 1 ELSE NextTick(x)
  <2>1. /\ Since(m.candidateSince)' = (((clock + 1) % Wrap) - p.candidateSince) % Wrap
        /\ Since(m.lastPublish)' = (((clock + 1) % Wrap) - (IF sends THEN clock ELSE m.lastPublish)) % Wrap
    BY <1>3, <1>12 DEF Since
  <2>2. p.candidateSince \in 0 .. (Wrap - 1)
    BY <1>1, <1>6
  <2>3. QED
    BY <1>1, <1>7, <2>1, <2>2, SinceTicks DEF NextTick
<1>14. CASE sends
  BY <1>2, <1>3, <1>7, <1>8, <1>10, <1>11, <1>12, <1>13, <1>14 DEF Reads, Tells
<1>15. CASE ~sends
  BY <1>2, <1>3, <1>7, <1>8, <1>10, <1>11, <1>12, <1>13, <1>15 DEF Reads, TellsLater
<1>16. QED
  BY <1>14, <1>15

\* A pass that tells nothing has few enough before it still.
LEMMA FewKept ==
    ASSUME NEW W \in Nat, W >= 6, NEW e \in 1 .. 3, NEW c \in 0 .. Cap, NEW x \in 0 .. (W - 1), NEW d \in 0 .. (W - 1),
           c = 0 \/ Few(c, x, d, e, W), d < 2 \/ x < e, NEW b \in 0 .. Cap, b <= c + 1,
           NEW y, y = IF x + 1 = W THEN 0 ELSE x + 1, NEW f, f = IF d + 1 = W THEN 0 ELSE d + 1
    PROVE  Few(b, y, f, e, W)
<1>1. c <= 7 /\ b <= 7 /\ y \in 0 .. (W - 1) /\ f \in 0 .. (W - 1)
  BY DEF Cap
<1>2. CASE d >= 2
  BY <1>1, <1>2 DEF Few
<1>3. CASE d < 2 /\ x >= e
  BY <1>1, <1>3 DEF Few
<1>4. CASE d < 2 /\ x < e
  BY <1>1, <1>4 DEF Few
<1>5. QED
  BY <1>2, <1>3, <1>4

\* A reading told, or waiting: a pass leaves it so.
LEMMA WaitsKept ==
    ASSUME NEW x, NEW d, Reads(x, d), isBool \in BOOLEAN, m.every \in 1 .. 3, calm \in 0 .. Cap, sinceReading \in 0 .. Cap,
           level # None,
           calm > 0 => Settled(Since(m.lastPublish), Since(m.candidateSince))
                       \/ Waits(Since(m.lastPublish), Since(m.candidateSince))
    PROVE  Settled(Since(m.lastPublish), Since(m.candidateSince))'
           \/ Waits(Since(m.lastPublish), Since(m.candidateSince))'
<1>1. PICK e, c, s, W : /\ e \in 1 .. 3 /\ c \in 0 .. Cap /\ s \in 0 .. Cap
                        /\ e = m.every /\ c = calm /\ s = sinceReading /\ W = Wrap
  OBVIOUS
<1>2. /\ W \in Nat /\ W >= 6 /\ x \in 0 .. (W - 1) /\ d \in 0 .. (W - 1)
  BY <1>1, SketchAssumption DEF Reads
<1>3. PICK y, f : y = Since(m.lastPublish)' /\ f = Since(m.candidateSince)'
  OBVIOUS
<1>4. f = (IF d + 1 = W THEN 0 ELSE d + 1) /\ f \in 0 .. (W - 1)
  BY <1>1, <1>2, <1>3 DEF Reads, NextTick
<1>5. /\ isBool' = isBool /\ level' = level /\ m'.every = e /\ (isBool => m'.candidate = level)
      /\ calm' \in 0 .. Cap /\ calm' <= c + 1
  BY <1>1 DEF Reads, More, Cap
<1>6. CASE (isBool => d >= BOOL_DEBOUNCE) /\ DueAt(x)
  <2>1. platform' = level /\ sinceReading' = 0 /\ y = 1
    BY <1>3, <1>6 DEF Reads, Tells
  <2>2. QED
    BY <1>1, <1>3, <1>5, <2>1 DEF Settled
<1>7. CASE ~((isBool => d >= BOOL_DEBOUNCE) /\ DueAt(x))
  <2>1. /\ platform' = platform /\ y = (IF x + 1 = W THEN 0 ELSE x + 1) /\ y \in 0 .. (W - 1)
        /\ sinceReading' = IF s < Cap THEN s + 1 ELSE Cap
    BY <1>1, <1>2, <1>3, <1>7 DEF Reads, TellsLater, NextTick, More
  <2>2. (isBool /\ d < 2) \/ x < e
    BY <1>1, <1>2, <1>7 DEF DueAt, BOOL_DEBOUNCE
  <2>3. isBool /\ level # m.candidate => d = 0
    BY DEF Reads
  <2>4. ~(isBool /\ level # m.candidate) => d = Since(m.candidateSince)
    BY DEF Reads
  <2>5. x = Since(m.lastPublish)
    BY DEF Reads
  <2>6. CASE calm > 0 /\ Settled(Since(m.lastPublish), Since(m.candidateSince))
    <3>1. platform = level /\ x = s + 1 /\ (s < e \/ (isBool /\ m.candidate = level /\ s = e /\ d >= 1)
                                            \/ (isBool /\ m.candidate = level /\ s = e + 1 /\ d >= 2))
      BY <1>1, <2>3, <2>4, <2>5, <2>6 DEF Settled, BOOL_DEBOUNCE
    <3>2. sinceReading' = s + 1 /\ y = x + 1
      BY <1>1, <1>2, <2>1, <3>1, <2>2 DEF Cap
    <3>3. s + 1 < e \/ (isBool /\ s + 1 = e /\ f >= 1) \/ (isBool /\ s + 1 = e + 1 /\ f >= 2)
      BY <1>1, <1>2, <1>4, <2>2, <3>1
    <3>4. QED
      BY <1>1, <1>3, <1>5, <2>1, <3>1, <3>2, <3>3 DEF Settled, BOOL_DEBOUNCE
  <2>7. CASE c = 0 \/ Waits(Since(m.lastPublish), Since(m.candidateSince))
    <3>1. CASE ~isBool
      <4>1. c <= x
        BY <1>1, <1>2, <2>5, <2>7, <3>1 DEF Waits
      <4>2. x < e /\ y = x + 1
        BY <1>1, <1>2, <2>1, <2>2, <3>1
      <4>3. calm' <= y /\ y <= e
        BY <1>1, <1>2, <1>5, <4>1, <4>2 DEF Cap
      <4>4. QED
        BY <1>3, <1>5, <3>1, <4>3 DEF Waits
    <3>2. CASE isBool
      <4>1. c = 0 \/ (m.candidate = level /\ Few(c, x, d, e, W))
        BY <1>1, <2>3, <2>4, <2>5, <2>7, <3>2 DEF Waits
      <4>2. Few(calm', y, f, e, W)
        BY <1>1, <1>2, <1>4, <1>5, <2>1, <2>2, <3>2, <4>1, FewKept
      <4>3. QED
        BY <1>1, <1>3, <1>5, <3>2, <4>2 DEF Waits
    <3>3. QED
      BY <3>1, <3>2
  <2>8. c = 0 \/ calm > 0
    BY <1>1
  <2>9. QED
    BY <2>6, <2>7, <2>8
<1>8. QED
  BY <1>6, <1>7

\* A change told, or soon: a pass leaves it so.
LEMMA QuickKept ==
    ASSUME NEW x, NEW d, Reads(x, d), isBool \in BOOLEAN, calm \in 0 .. Cap, level \in Int, m \in MetricProfile,
           m.mode = "on_change", level # None,
           calm > 0 => Quick(Since(m.lastPublish), Since(m.candidateSince))
    PROVE  Quick(Since(m.lastPublish), Since(m.candidateSince))'
<1>1. PICK c, W, b : /\ c \in 0 .. Cap /\ b \in 0 .. Cap
                     /\ c = calm /\ W = Wrap /\ b = calm' /\ b <= c + 1
  BY DEF Reads, More, Cap
<1>2. /\ W \in Nat /\ W >= 6 /\ x \in 0 .. (W - 1) /\ d \in 0 .. (W - 1) /\ m.deadband \in Nat /\ m.lastValue \in Int
  BY <1>1, SketchAssumption DEF Reads, MetricProfile
<1>3. PICK y, f : y = Since(m.lastPublish)' /\ f = Since(m.candidateSince)'
  OBVIOUS
<1>4. f = (IF d + 1 = W THEN 0 ELSE d + 1) /\ f \in 0 .. (W - 1)
  BY <1>1, <1>2, <1>3 DEF Reads, NextTick
<1>5. isBool' = isBool /\ level' = level /\ m'.deadband = m.deadband /\ (isBool => m'.candidate = level)
  BY DEF Reads
<1>6. /\ isBool /\ level # m.candidate => d = 0
      /\ ~(isBool /\ level # m.candidate) => d = Since(m.candidateSince)
      /\ x = Since(m.lastPublish)
  BY DEF Reads
<1>7. CASE (isBool => d >= BOOL_DEBOUNCE) /\ DueAt(x)
  <2>1. m'.lastValue = level
    BY <1>7 DEF Reads, Tells
  <2>2. Distance(level, level) = 0
    BY DEF Distance
  <2>3. QED
    BY <1>2, <1>3, <1>5, <2>1, <2>2 DEF Quick
<1>8. CASE ~((isBool => d >= BOOL_DEBOUNCE) /\ DueAt(x))
  <2>1. m'.lastValue = m.lastValue /\ y = (IF x + 1 = W THEN 0 ELSE x + 1) /\ y \in 0 .. (W - 1)
    BY <1>1, <1>2, <1>3, <1>8 DEF Reads, TellsLater, NextTick
  <2>2. CASE ~isBool
    <3>1. m.lastValue # None /\ (x = 0 \/ ~(Distance(level, m.lastValue) > m.deadband))
      BY <1>2, <1>8, <2>2 DEF DueAt
    <3>2. Distance(level, m.lastValue) \in Int
      BY <1>2 DEF Distance
    <3>3. CASE Distance(level, m.lastValue) <= m.deadband
      BY <1>3, <1>5, <2>1, <2>2, <3>1, <3>3 DEF Quick
    <3>4. CASE ~(Distance(level, m.lastValue) <= m.deadband)
      <4>1. x = 0 /\ y = 1
        BY <1>2, <2>1, <3>1, <3>2, <3>4
      <4>2. c = 0
        <5>1. Distance(level, level) = 0
          BY DEF Distance
        <5>2. QED
          BY <1>1, <1>2, <1>6, <2>2, <3>4, <4>1, <5>1 DEF Quick
      <4>3. b \in {0, 1}
        BY <1>1, <4>2
      <4>4. b = 1
        BY <1>1, <4>2, <4>3 DEF Reads, More, Cap
      <4>5. QED
        BY <1>1, <1>3, <1>5, <2>1, <2>2, <3>1, <4>1, <4>4 DEF Quick
    <3>5. QED
      BY <3>3, <3>4
  <2>3. CASE isBool
    <3>1. CASE m.candidate = level /\ m.lastValue = level
      BY <1>3, <1>5, <2>1, <2>3, <3>1 DEF Quick, None
    <3>2. CASE ~(m.candidate = level /\ m.lastValue = level)
      <4>1. \/ c = 0
            \/ /\ m.candidate = level /\ m.lastValue # level
               /\ \/ c <= d /\ d <= 2
                  \/ c <= d + 1 /\ d <= 2 /\ x = d + 1
                  \/ c <= 3 /\ d >= 2 /\ x = 1
        BY <1>1, <1>6, <2>3, <3>2 DEF Quick, BOOL_DEBOUNCE
      <4>2. d < 2 \/ (x = 0 /\ m.lastValue # None) \/ m.lastValue = level
        BY <1>2, <1>8, <2>3 DEF DueAt, BOOL_DEBOUNCE
      <4>3. \/ b <= f /\ f <= 2
            \/ b <= f + 1 /\ f <= 2 /\ y = f + 1
            \/ b <= 3 /\ f >= 2 /\ y = 1
            \/ m.lastValue = level
        BY <1>1, <1>2, <1>4, <2>1, <4>1, <4>2
      <4>4. QED
        BY <1>1, <1>3, <1>5, <2>1, <2>3, <4>3 DEF Quick, BOOL_DEBOUNCE, None
    <3>3. QED
      BY <3>1, <3>2
  <2>4. QED
    BY <1>8, <2>2, <2>3, SketchAssumption
<1>9. QED
  BY <1>7, <1>8

\* What was told is what the board reads, in time.
LEMMA ReadingKeeps ==
    ASSUME SketchTypeOK, ForgetInv, ClocksOK, MeasuresOK, OnlineInv, ReadingInv,
           [SketchNext]_sketchVars
    PROVE  ReadingInv'
<1>0. level \in Int /\ m \in MetricProfile /\ calm \in 0 .. Cap /\ m.every >= 1 /\ m.every \in Nat
  BY DEF SketchTypeOK, ForgetInv, ClocksOK, MetricProfile
<1>1. ASSUME ~(sock' = "up" /\ calm' > 0), UNCHANGED <<lost, platform>>, m'.lastValue \in {m.lastValue, None}
      PROVE  ReadingInv'
  BY <1>1 DEF ReadingInv
<1>2. ASSUME UNCHANGED <<isBool, clock, sock, level, m, calm, platform, lost, sinceReading>>
      PROVE  ReadingInv'
  <2>1. \A x, d : (Settled(x, d)' <=> Settled(x, d)) /\ (Waits(x, d)' <=> Waits(x, d)) /\ (Quick(x, d)' <=> Quick(x, d))
    BY <1>2 DEF Settled, Waits, Quick, Few, Distance
  <2>2. Since(m.lastPublish)' = Since(m.lastPublish) /\ Since(m.candidateSince)' = Since(m.candidateSince)
    BY <1>2 DEF Since
  <2>3. QED
    BY <1>2, <2>1, <2>2 DEF ReadingInv
<1>3. CASE LoopPass
  <2>1. CASE sock' = "up" /\ level # None
    <3>1. sock = "up" /\ \E x, d : Reads(x, d)
      BY <1>3, <2>1, PassReads
    <3>2. PICK x, d : Reads(x, d)
      BY <3>1
    <3>3. UNCHANGED <<level, isBool, m.every, m.mode, m.deadband>>
      BY <3>2 DEF Reads
    <3>4. ~lost' /\ m'.lastValue # None => platform' = m'.lastValue
      BY <3>2 DEF Reads, Tells, TellsLater, ReadingInv
    <3>5. m'.every <= 3 => \/ Settled(Since(m.lastPublish), Since(m.candidateSince))'
                           \/ Waits(Since(m.lastPublish), Since(m.candidateSince))'
      <4> SUFFICES ASSUME m'.every <= 3
                   PROVE  \/ Settled(Since(m.lastPublish), Since(m.candidateSince))'
                          \/ Waits(Since(m.lastPublish), Since(m.candidateSince))'
        OBVIOUS
      <4>1. m.every \in 1 .. 3
        BY <1>0, <3>3
      <4>2. calm > 0 => Settled(Since(m.lastPublish), Since(m.candidateSince))
                        \/ Waits(Since(m.lastPublish), Since(m.candidateSince))
        BY <2>1, <3>1, <4>1 DEF ReadingInv
      <4>3. QED
        BY <1>0, <2>1, <3>2, <4>1, <4>2, WaitsKept DEF MeasuresOK
    <3>6. m'.mode = "on_change" => Quick(Since(m.lastPublish), Since(m.candidateSince))'
      BY <1>0, <2>1, <3>1, <3>2, <3>3, QuickKept DEF ReadingInv, MeasuresOK
    <3>7. QED
      BY <3>4, <3>5, <3>6 DEF ReadingInv
  <2>2. CASE sock' # "up" \/ level = None
    <3>1. PICK ok \in BOOLEAN : publishMetrics(ok) /\ (sock = "up" => ok) /\ sock' = IF ok THEN sock ELSE "down"
      BY <1>3 DEF LoopPass
    <3>2. level' = level
      BY <1>3 DEF LoopPass
    <3>3. ~lost' /\ m'.lastValue # None => platform' = m'.lastValue
      <4>1. CASE level = None
        BY <3>1, <4>1 DEF publishMetrics, ReadingInv
      <4>2. CASE level # None /\ sock # "up"
        <5>1. PICK p, sends : p = Candidate /\ sends \in BOOLEAN /\ sends = (level # None /\ Debounced /\ Due)
          OBVIOUS
        <5>2. p.lastValue = m.lastValue
          BY <1>0, <5>1 DEF Candidate, MetricProfile
        <5>3. /\ m' = (IF sends THEN Recorded(p, ok) ELSE p) /\ platform' = platform
              /\ lost' = IF sends /\ ok THEN sock # "up" ELSE lost
          BY <3>1, <4>2, <5>1 DEF publishMetrics
        <5>4. CASE sends /\ ok
          BY <4>2, <5>3, <5>4
        <5>5. CASE ~(sends /\ ok)
          BY <5>2, <5>3, <5>5 DEF Recorded, ReadingInv
        <5>6. QED
          BY <5>4, <5>5
      <4>3. CASE level # None /\ sock = "up"
        BY <2>2, <3>1, <4>3
      <4>4. QED
        BY <4>1, <4>2, <4>3
    <3>4. QED
      BY <2>2, <3>2, <3>3 DEF ReadingInv
  <2>3. QED
    BY <2>1, <2>2
<1>4. CASE Restart
  <2>1. UNCHANGED <<lost, platform>> /\ sock' = "down" /\ m' = MetricRow(m.declared)
    BY <1>4 DEF Restart
  <2>2. m'.lastValue = None
    BY <2>1 DEF MetricRow, applyConfig
  <2>3. QED
    BY <1>1, <2>1, <2>2
<1>5. CASE Receive
  <2>1. UNCHANGED <<lost, platform>> /\ calm' = 0 /\ m'.lastValue = m.lastValue
    BY <1>0, <1>5 DEF Receive, applyConfig, MetricProfile
  <2>2. QED
    BY <1>1, <2>1
<1>6. CASE LoopWaits \/ LoopConnects \/ MqttRefused \/ MqttNeedsWifi \/ WifiWaits \/ WifiThere
  <2>1. sock' # "up" /\ UNCHANGED <<lost, platform, m>>
    BY <1>6 DEF LoopWaits, LoopConnects, MqttRefused, MqttNeedsWifi, WifiWaits, WifiThere, OnlineInv, brokerVars, ghostVars
  <2>2. QED
    BY <1>1, <2>1
<1>7. CASE MqttConnects \/ WifiUp \/ BoardNotices \/ WillFires \/ Rotates \/ Press \/ Provisioned
  <2>1. calm' = 0 /\ UNCHANGED <<lost, platform, m>>
    BY <1>7 DEF MqttConnects, WifiUp, BoardNotices, WillFires, Rotates, Press, Provisioned, Happens, boardVars, brokerVars
  <2>2. QED
    BY <1>1, <2>1
<1>8. ASSUME NEW w, NEW c, NEW v, Drops(w) \/ EditProfile(c) \/ SendCommand(v) \/ LevelBecomes(v)
      PROVE  ReadingInv'
  <2>1. calm' = 0 /\ UNCHANGED <<lost, platform, m>>
    BY <1>8 DEF Drops, EditProfile, SendCommand, LevelBecomes, Happens, boardVars, brokerVars
  <2>2. QED
    BY <1>1, <2>1
<1>9. CASE UNCHANGED sketchVars
  BY <1>2, <1>9 DEF sketchVars, boardVars, brokerVars, ghostVars
<1>10. QED
  BY <1>3, <1>4, <1>5, <1>6, <1>7, <1>8, <1>9 DEF SketchNext

\* The measures stay measures.
LEMMA MeasuresKeep == MeasuresOK /\ [SketchNext]_sketchVars => MeasuresOK'
<1> SUFFICES ASSUME MeasuresOK, [SketchNext]_sketchVars
             PROVE  isBool' = isBool /\ sinceReading' \in {0, sinceReading, More(sinceReading)}
  BY DEF MeasuresOK, More, Cap
<1>1. CASE Restart \/ LoopWaits \/ LoopConnects \/ Receive \/ MqttConnects \/ MqttRefused \/ MqttNeedsWifi
  BY <1>1 DEF Restart, LoopWaits, LoopConnects, Receive, MqttConnects, MqttRefused, MqttNeedsWifi, ghostVars
<1>2. CASE WifiWaits \/ WifiThere \/ WifiUp \/ BoardNotices \/ WillFires \/ Rotates \/ Press \/ Provisioned
           \/ UNCHANGED sketchVars
  BY <1>2 DEF WifiWaits, WifiThere, WifiUp, BoardNotices, WillFires, Rotates, Press, Provisioned, sketchVars,
       boardVars, ghostVars
<1>3. CASE LoopPass
  BY <1>3 DEF LoopPass, publishMetrics
<1>4. ASSUME NEW w, NEW c, NEW v, Drops(w) \/ EditProfile(c) \/ SendCommand(v) \/ LevelBecomes(v)
      PROVE  isBool' = isBool /\ sinceReading' = sinceReading
  BY <1>4 DEF Drops, EditProfile, SendCommand, LevelBecomes, boardVars
<1>5. QED
  BY <1>1, <1>2, <1>3, <1>4 DEF SketchNext

\* A sketch that has just booted.
LEMMA BoardStarts == SketchInit => BoardInv
<1> SUFFICES ASSUME SketchInit PROVE BoardInv
  OBVIOUS
<1>1. PICK q \in SketchQuestions :
        /\ isBool = q.isBool /\ at = (IF q.phone THEN "loop" ELSE "wifi") /\ sock = "down" /\ m = MetricRow(q.config)
        /\ lastStatusMs = 0 /\ button = FALSE /\ held = 0 /\ lost = FALSE /\ sinceReading = Cap
  BY DEF SketchInit
<1>2. q.config \in Profile /\ q.isBool \in BOOLEAN /\ 0 \in 0 .. (Wrap - 1)
  BY SketchAssumption
<1>3. q.config.interval \in Nat /\ defaultInterval(q.config.publish) \in {1, 2, 3}
  BY <1>2 DEF Profile, defaultInterval
<1>4. /\ m.lastPublish = 0 /\ m.candidateSince = 0 /\ m.lastValue = None
      /\ m.every = IF q.config.interval > 0 THEN q.config.interval ELSE defaultInterval(q.config.publish)
  BY <1>1 DEF MetricRow, applyConfig
<1>5. m.every >= 1
  BY <1>3, <1>4
<1>6. ClocksOK /\ MeasuresOK
  BY <1>1, <1>2, <1>4, <1>5 DEF ClocksOK, MeasuresOK, Cap
<1>7. OnlineInv /\ HoldInv /\ ReadingInv
  BY <1>1, <1>4 DEF OnlineInv, HoldInv, HoldCounted, ReadingInv
<1>8. QED
  BY <1>6, <1>7 DEF BoardInv

\* Every step keeps it.
LEMMA BoardNextKeeps ==
    SketchTypeOK /\ ForgetInv /\ BoardInv /\ [SketchNext]_sketchVars => BoardInv'
  BY ClocksKeep, MeasuresKeep, OnlineKeeps, HoldKeeps, ReadingKeeps DEF BoardInv

\* What it says of the board.
LEMMA BoardMeans ==
    ASSUME SketchTypeOK, ForgetInv, BoardInv
    PROVE  ReportsWhatItReads /\ ChangeIsQuick /\ OnlineTells /\ HoldForgets
<1>0. /\ ClocksOK /\ MeasuresOK /\ OnlineInv /\ HoldInv /\ ReadingInv /\ Wrap \in Nat /\ Wrap >= 6
      /\ level \in Int /\ m \in MetricProfile /\ calm \in 0 .. Cap /\ m.every >= 1 /\ m.every \in Nat
      /\ m.lastPublish \in 0 .. (Wrap - 1) /\ m.candidateSince \in 0 .. (Wrap - 1)
  BY SketchAssumption DEF BoardInv, SketchTypeOK, ForgetInv, ClocksOK, MetricProfile
<1>1. PICK x \in 0 .. (Wrap - 1), d \in 0 .. (Wrap - 1) : x = Since(m.lastPublish) /\ d = Since(m.candidateSince)
  BY <1>0, SinceTicks DEF ForgetInv
<1>2. ReportsWhatItReads
  <2> SUFFICES ASSUME calm > m.every + 3, sock = "up", level # None
               PROVE  platform = level /\ sinceReading <= m.every + 2
    BY <1>0 DEF ReportsWhatItReads, BOOL_DEBOUNCE
  <2>1. m.every <= 3 /\ calm > 0
    BY <1>0 DEF Cap
  <2>2. Settled(x, d) \/ Waits(x, d)
    BY <1>0, <1>1, <2>1 DEF ReadingInv
  <2>3. ~Waits(x, d)
    BY <1>0, <1>1, <2>1 DEF Waits, Few
  <2>4. sinceReading \in Nat
    BY <1>0 DEF MeasuresOK, Cap
  <2>5. QED
    BY <1>0, <2>2, <2>3, <2>4 DEF Settled
<1>3. ChangeIsQuick
  <2> SUFFICES ASSUME m.mode = "on_change", sock = "up", level # None, ~lost,
                      calm > 1 + (IF isBool THEN 2 ELSE 0)
               PROVE  IF isBool THEN platform = level ELSE Distance(platform, level) <= m.deadband
    BY DEF ChangeIsQuick, BOOL_DEBOUNCE, ON_CHANGE_MIN_GAP
  <2>1. Quick(x, d)
    BY <1>0, <1>1 DEF ReadingInv, Cap
  <2>2. m.lastValue # None => platform = m.lastValue
    BY <1>0 DEF ReadingInv
  <2>3. m.lastValue \in Int /\ m.deadband \in Nat
    BY <1>0 DEF MetricProfile
  <2>4. CASE isBool
    <3>1. m.lastValue # None /\ m.lastValue = level
      BY <1>0, <2>1, <2>4 DEF Quick, BOOL_DEBOUNCE
    <3>2. QED
      BY <2>2, <2>4, <3>1
  <2>5. CASE ~isBool
    <3>1. m.lastValue # None /\ (m.lastValue = level \/ Distance(level, m.lastValue) <= m.deadband)
      BY <1>0, <2>1, <2>5 DEF Quick
    <3>2. Distance(m.lastValue, level) <= m.deadband
      BY <1>0, <2>3, <3>1 DEF Distance
    <3>3. QED
      BY <2>2, <2>5, <3>1, <3>2
  <2>6. QED
    BY <1>0, <2>4, <2>5
<1>4. OnlineTells
  <2>1. Since(lastStatusMs) \in Int
    BY <1>0, SinceTicks DEF ClocksOK, ForgetInv
  <2>2. QED
    BY <1>0, <2>1 DEF OnlineTells, OnlineInv, STATUS_INTERVAL
<1>5. HoldForgets
  <2> SUFFICES ASSUME phone, ~blind PROVE held <= 5
    BY DEF HoldForgets, RESET_HOLD
  <2>1. CASE ~button
    BY <1>0, <2>1 DEF HoldInv
  <2>2. CASE button /\ resetDownSince = 0
    BY <1>0, <2>2 DEF HoldInv, HoldCounted
  <2>3. CASE button /\ resetDownSince # 0
    <3>1. Since(resetDownSince) \in Nat /\ held \in Nat
      BY SinceTicks DEF ForgetInv, Cap
    <3>2. QED
      BY <1>0, <2>3, <3>1 DEF HoldInv, HoldCounted, RESET_HOLD
  <2>4. QED
    BY <2>1, <2>2, <2>3
<1>6. QED
  BY <1>2, <1>3, <1>4, <1>5

\* The sketch in time: a connected board has told what it reads and is online,
\* and holding the button makes it forget its Wi-Fi, after whatever was lost or
\* refused and wherever millis() wraps; for any deadband and level, and any
\* interval that the measures count up to (Cap).
THEOREM BoardTellsTheorem == SketchSpec => []BoardTells
<1>1. SketchInit => SketchInv /\ ForgetInv /\ BoardInv
  BY SketchStarts, ForgetStarts, BoardStarts
<1>2. SketchInv /\ ForgetInv /\ BoardInv /\ [SketchNext]_sketchVars => SketchInv' /\ ForgetInv' /\ BoardInv'
  BY SketchNextKeeps, ForgetKeeps, BoardNextKeeps DEF SketchInv
<1>3. SketchInv /\ ForgetInv /\ BoardInv => BoardTells
  BY BoardMeans DEF SketchInv, BoardTells
<1>4. QED
  BY <1>1, <1>2, <1>3, PTL DEF SketchSpec

-----------------------------------------------------------------------------
(* Least elements: the places of a list are looked at in order. *)

\* The least element (NatLessThanWellFounded).
LEMMA Least ==
    ASSUME NEW S \in SUBSET Nat, S # {}
    PROVE  \E w \in S : \A v \in S : w <= v
<1> DEFINE R == {p \in Nat \X Nat : p[1] < p[2]}
<1>1. IsWellFoundedOn(R, Nat)
  BY NatLessThanWellFounded DEF OpToRel
<1>2. PICK x \in S : \A y \in S : ~ (<<y, x>> \in R)
  <2> HIDE DEF R
  <2>1. QED
    BY <1>1, WFMin, Zenon
<1>3. ASSUME NEW v \in S PROVE x <= v
  <2>1. <<v, x>> \in Nat \X Nat /\ <<v, x>>[1] = v /\ <<v, x>>[2] = x
    OBVIOUS
  <2>2. v < x => <<v, x>> \in R
    BY <2>1, Zenon
  <2>3. v \in Nat /\ x \in Nat
    OBVIOUS
  <2>4. QED
    BY <1>2, <2>2, <2>3
<1>4. QED
  BY <1>3

\* The least element of a set of places, by the name it has in each module.
LEMMA MinIs ==
    ASSUME NEW S \in SUBSET Nat, S # {}
    PROVE  Watch!Min(S) \in S /\ \A v \in S : Watch!Min(S) <= v
  BY Least DEF Watch!Min

\* The same of the triggers' places.
LEMMA EventsMinIs ==
    ASSUME NEW S \in SUBSET Nat, S # {}
    PROVE  Events!Min(S) \in S /\ \A v \in S : Events!Min(S) <= v
  BY Least DEF Events!Min

-----------------------------------------------------------------------------
(* Rule health: what is known of each rule is inductive. *)

\* The places of the rules are numbers, a place per rule.
LEMMA PlacesAre ==
    /\ DOMAIN HealthRules \subseteq Nat
    /\ \A i \in DOMAIN HealthRules : HealthRules[i] \in Watch!RuleSet
    /\ \A i, j \in DOMAIN HealthRules : HealthRules[i] = HealthRules[j] => i = j
  BY HealthAssumption DEF Watch!RuleSet

\* What a look does to one rule besides: nothing, or a baseline.
Seen(r, kept) ==
    \/ track'[r] = kept[r]
    \/ kept[r] = {} /\ track'[r] = {Watch!Track(r \in fresh, Watch!Never)}

\* The pass ends, and rules that are gone lose their tracks.
PassEnds(kept, live) ==
    /\ walk' = Watch!AtRest
    /\ \A r \in Watch!RuleSet :
         \/ r \notin live /\ track'[r] = {} /\ flips'[r] = {}
         \/ r \in live /\ Seen(r, kept) /\ flips'[r] = flips[r]

\* The pass comes to the flip of the rule at place n.
PassFinds(n, rest, kept, live, mark) ==
    /\ n \in rest /\ Watch!Min(rest) = n
    /\ walk' = [step |-> "publish", todo |-> rest, now |-> mark,
                ok |-> HealthRules[n] \in fresh, live |-> live]
    /\ \E t \in track[HealthRules[n]] : t.evaluatable # (HealthRules[n] \in fresh)
    /\ \A r \in Watch!RuleSet :
         /\ Seen(r, kept)
         /\ flips'[r] = IF r = HealthRules[n] /\ r \notin fresh THEN {mark} ELSE flips[r]

\* A look at the rules at some places ends the pass or finds a flip.
LEMMA LookLeaves ==
    ASSUME NEW todo \in SUBSET (DOMAIN HealthRules), NEW kept, NEW live, NEW mark,
           Watch!Look(todo, kept, live, mark)
    PROVE  /\ DOMAIN track' = Watch!RuleSet /\ DOMAIN flips' = Watch!RuleSet
           /\ PassEnds(kept, live) \/ \E n \in todo, rest \in SUBSET todo : PassFinds(n, rest, kept, live, mark)
<1> DEFINE flipped == {i \in todo : Watch!Flipped(HealthRules[i])}
           rest == Watch!FromFlip(todo)
           early == Watch!UpToFlip(todo)
           n == Watch!Min(flipped)
<1>0. todo \subseteq Nat
  BY PlacesAre
<1>3. DOMAIN track' = Watch!RuleSet /\ DOMAIN flips' = Watch!RuleSet
  BY Zenon DEF Watch!Look
<1>1. CASE flipped = {}
  <2>1. rest = {}
    BY <1>1 DEF Watch!FromFlip
  <2>2. walk' = Watch!AtRest
    BY <2>1, Zenon DEF Watch!Look
  <2>3. ASSUME NEW r \in Watch!RuleSet
        PROVE  /\ r \notin live => track'[r] = {} /\ flips'[r] = {}
               /\ r \in live => /\ flips'[r] = flips[r]
                                /\ track'[r] = IF r \in early /\ kept[r] = {}
                                               THEN {Watch!Track(r \in fresh, Watch!Never)} ELSE kept[r]
    <3> HIDE DEF rest, early
    <3>1. QED
      BY <2>1 DEF Watch!Look, rest, early
  <2>4. PassEnds(kept, live)
    <3> HIDE DEF rest, early
    <3>1. QED
      BY <2>2, <2>3 DEF PassEnds, Seen
  <2>5. QED
    BY <1>3, <2>4
<1>2. CASE flipped # {}
  <2>1. n \in flipped /\ \A i \in flipped : n <= i
    BY <1>0, <1>2, MinIs
  <2>2. rest = {i \in todo : i >= n}
    BY <1>2 DEF Watch!FromFlip
  <2>3. n \in rest /\ rest \subseteq todo
    BY <1>0, <2>1, <2>2
  <2>4. Watch!Min(rest) \in rest /\ Watch!Min(rest) <= n
    BY <1>0, <2>3, MinIs
  <2>5. Watch!Min(rest) = n
    BY <1>0, <2>1, <2>2, <2>4
  <2>7. \E t \in track[HealthRules[n]] : t.evaluatable # (HealthRules[n] \in fresh)
    BY <2>1, Zenon DEF Watch!Flipped
  <2>8. walk' = [step |-> "publish", todo |-> rest, now |-> mark,
                 ok |-> HealthRules[n] \in fresh, live |-> live]
    <3> HIDE DEF rest, n, early
    <3>1. rest # {}
      BY <2>3
    <3>2. QED
      BY <3>1, <2>5, Zenon DEF Watch!Look, rest, early
  <2>9. ASSUME NEW r \in Watch!RuleSet
        PROVE  /\ Seen(r, kept)
               /\ flips'[r] = IF r = HealthRules[n] /\ r \notin fresh THEN {mark} ELSE flips[r]
    <3> HIDE DEF rest, n, early
    <3>1. rest # {}
      BY <2>3
    <3>2. track'[r] = IF r \in early /\ kept[r] = {}
                      THEN {Watch!Track(r \in fresh, Watch!Never)} ELSE kept[r]
      BY <3>1 DEF Watch!Look, rest, early
    <3>3. flips'[r] = IF r \in {HealthRules[n]} \ fresh THEN {mark} ELSE flips[r]
      BY <3>1, <2>5 DEF Watch!Look, rest, early
    <3>4. QED
      BY <3>2, <3>3 DEF Seen
  <2>10. PassFinds(n, rest, kept, live, mark)
    <3> HIDE DEF rest, n, early
    <3>1. QED
      BY <2>3, <2>5, <2>7, <2>8, <2>9 DEF PassFinds
  <2>11. QED
    <3> HIDE DEF rest, n, early
    <3>1. QED
      BY <1>3, <2>3, <2>10
<1>4. QED
  BY <1>1, <1>2

\* A rule's first observation is a baseline that tells nothing.
LEMMA RuleBaseline ==
    ASSUME NEW F, NEW H, NEW A, NEW now \in Nat, NEW away, NEW ok \in BOOLEAN,
           Watch!RuleKnown({}, F, H, A, now, away, FALSE)
    PROVE  Watch!RuleKnown({Watch!Track(ok, Watch!Never)}, F, H, A, now, away, FALSE)
  BY DEF Watch!RuleKnown, Watch!Track, Watch!Never, Watch!Tracks

\* A rule that is gone is forgotten.
LEMMA RuleGone ==
    ASSUME NEW T, NEW F, NEW H, NEW A, NEW now \in Nat, NEW away, away, NEW x, NEW y,
           Watch!RuleKnown(T, F, H, A, now, away, x)
    PROVE  Watch!RuleKnown({}, {}, H, A, now, away, y)
  BY DEF Watch!RuleKnown

\* A flip found leaves what is known of the rule, whose track says it is fresh.
LEMMA RuleFlips ==
    ASSUME NEW T, NEW F, NEW H, NEW A, NEW now \in Nat, NEW away, NEW x,
           Watch!RuleKnown(T, F, H, A, now, away, x), T # {}, \A t \in T : t.evaluatable
    PROVE  Watch!RuleKnown(T, {now}, H, A, now, away, x)
  BY DEF Watch!RuleKnown

\* A look keeps the invariant, from tracks that agree with what is known.
LEMMA LookKeeps ==
    ASSUME NEW todo \in SUBSET (DOMAIN HealthRules), NEW kept, NEW live,
           live \subseteq Watch!RuleSet, cachedRules' \subseteq Watch!RuleSet,
           passes' \in 0..MaxClock, Watch!Look(todo, kept, live, passes'),
           \A i \in todo : kept[HealthRules[i]] = track[HealthRules[i]],
           \A r \in Watch!RuleSet :
             Watch!RuleKnown(kept[r], flips[r], heard'[r], alerts'[r], passes', r \in missed', FALSE),
           Watch!RuleSet \ live \subseteq missed', Watch!RuleSet \ cachedRules' \subseteq missed',
           DOMAIN heard' = Watch!RuleSet, DOMAIN alerts' = Watch!RuleSet
    PROVE  Watch!HealthInv'
<1>0. passes' \in Nat
  BY HealthAssumption
<1>1. DOMAIN track' = Watch!RuleSet /\ DOMAIN flips' = Watch!RuleSet
  BY LookLeaves
<1>2. ASSUME NEW r \in Watch!RuleSet, Seen(r, kept), flips'[r] = flips[r]
      PROVE  Watch!RuleKnown(track'[r], flips'[r], heard'[r], alerts'[r], passes', r \in missed', FALSE)
  <2>1. CASE track'[r] = kept[r]
    BY <1>2, <2>1
  <2>2. CASE kept[r] = {} /\ track'[r] = {Watch!Track(r \in fresh, Watch!Never)}
    <3>1. Watch!RuleKnown({}, flips[r], heard'[r], alerts'[r], passes', r \in missed', FALSE)
      BY <2>2
    <3>2. Watch!RuleKnown({Watch!Track(r \in fresh, Watch!Never)}, flips[r], heard'[r], alerts'[r],
                          passes', r \in missed', FALSE)
      <4>1. (r \in fresh) \in BOOLEAN
        BY SMT
      <4>2. QED
        BY <1>0, <3>1, <4>1, RuleBaseline, Zenon
    <3>3. QED
      BY <1>2, <2>2, <3>2
  <2>3. QED
    BY <1>2, <2>1, <2>2 DEF Seen
<1>3. CASE PassEnds(kept, live)
  <2>1. ASSUME NEW r \in Watch!RuleSet
        PROVE  Watch!RuleKnown(track'[r], flips'[r], heard'[r], alerts'[r], passes', r \in missed', FALSE)
    <3>1. CASE r \in live
      BY <1>2, <1>3, <3>1 DEF PassEnds
    <3>2. CASE r \notin live
      <4>1. track'[r] = {} /\ flips'[r] = {} /\ r \in missed'
        BY <1>3, <3>2 DEF PassEnds
      <4>2. Watch!RuleKnown({}, {}, heard'[r], alerts'[r], passes', r \in missed', FALSE)
        BY <1>0, <4>1, RuleGone
      <4>3. QED
        BY <4>1, <4>2
    <3>3. QED
      BY <3>1, <3>2
  <2>2. walk' = Watch!AtRest /\ walk'.step # "notify"
    BY <1>3 DEF PassEnds, Watch!AtRest
  <2>3. QED
    BY <1>1, <2>1, <2>2 DEF Watch!HealthInv, Watch!WalkKnown
<1>4. ASSUME NEW n \in todo, NEW rest \in SUBSET todo, PassFinds(n, rest, kept, live, passes')
      PROVE  Watch!HealthInv'
  <2> DEFINE N == HealthRules[n]
  <2>0. N \in Watch!RuleSet
    BY PlacesAre
  <2>1. kept[N] = track[N] /\ \E t \in track[N] : t.evaluatable # (N \in fresh)
    BY <1>4 DEF PassFinds
  <2>2. track'[N] = track[N]
    BY <1>4, <2>0, <2>1 DEF PassFinds, Seen
  <2>3. Watch!RuleKnown(track[N], flips[N], heard'[N], alerts'[N], passes', N \in missed', FALSE)
    BY <2>0, <2>1
  <2>4. N \notin fresh => \A t \in track[N] : t.evaluatable
    <3> HIDE DEF N
    <3>1. QED
      BY <2>1, <2>3 DEF Watch!RuleKnown, Watch!Tracks
  <2>5. ASSUME NEW r \in Watch!RuleSet
        PROVE  Watch!RuleKnown(track'[r], flips'[r], heard'[r], alerts'[r], passes', r \in missed', FALSE)
    <3>1. CASE r = N /\ r \notin fresh
      <4>1. flips'[r] = {passes'} /\ track'[r] = track[N]
        BY <1>4, <2>2, <3>1 DEF PassFinds
      <4>2. track[N] # {}
        BY <2>1
      <4>3. Watch!RuleKnown(track[N], {passes'}, heard'[N], alerts'[N], passes', N \in missed', FALSE)
        <5> HIDE DEF N
        <5>1. QED
          BY <1>0, <2>3, <2>4, <3>1, <4>2, RuleFlips
      <4>4. QED
        BY <3>1, <4>1, <4>3
    <3>2. CASE ~(r = N /\ r \notin fresh)
      BY <1>2, <1>4, <3>2 DEF PassFinds
    <3>3. QED
      BY <3>1, <3>2
  <2>6. /\ walk'.step = "publish" /\ walk'.now = passes' /\ walk'.ok = (N \in fresh) /\ walk'.live = live
        /\ walk'.todo = rest /\ Watch!Min(walk'.todo) = n /\ rest # {}
    BY <1>4 DEF PassFinds
  <2>7. Watch!Subject' = N
    BY <2>6 DEF Watch!Subject, Watch!First
  <2>8. \E t \in track'[N] : t.evaluatable # (N \in fresh)
    BY <2>1, <2>2
  <2>9. ~walk'.ok => flips'[N] = {passes'}
    BY <1>4, <2>0, <2>6 DEF PassFinds
  <2>10. Watch!WalkKnown'
    <3> HIDE DEF N
    <3>1. walk'.ok \in BOOLEAN /\ \E t \in track'[N] : t.evaluatable # walk'.ok
      BY <2>6, <2>8
    <3>3. walk' \in Watch!PassAt(passes')
      <4>1. rest \in (SUBSET DOMAIN HealthRules) \ {{}}
        BY <2>6
      <4>2. (N \in fresh) \in BOOLEAN
        BY SMT
      <4>3. walk' = [step |-> "publish", todo |-> rest, now |-> passes', ok |-> N \in fresh, live |-> live]
        BY <1>4 DEF PassFinds, N
      <4>4. QED
        BY <4>1, <4>2, <4>3 DEF Watch!PassAt
    <3>2. QED
      BY <3>3, <1>4, <2>6, <2>7, <2>9, <3>1 DEF Watch!WalkKnown, PassFinds
  <2>11. QED
    BY <1>1, <2>5, <2>6, <2>10 DEF Watch!HealthInv
<1>5. QED
  BY <1>3, <1>4, LookLeaves

\* The signals, the cache and a restart in between.
LEMMA HealthInBetween ==
    ASSUME Watch!HealthInv,
           \/ Watch!HealthRestarts
           \/ \E r \in Watch!RuleSet : Watch!SignalChanges(r) \/ Watch!CacheChanges(r)
    PROVE  Watch!HealthInv'
<1>1. CASE Watch!HealthRestarts
  <2>1. /\ track' = [r \in Watch!RuleSet |-> {}] /\ flips' = [r \in Watch!RuleSet |-> {}]
        /\ walk' = Watch!AtRest /\ missed' = Watch!RuleSet
        /\ UNCHANGED <<cachedRules, fresh, passes, heard, alerts>>
    BY <1>1 DEF Watch!HealthRestarts
  <2>2. ASSUME NEW r \in Watch!RuleSet
        PROVE  Watch!RuleKnown({}, {}, heard[r], alerts[r], passes, r \in missed', FALSE)
    BY <2>1, HealthAssumption DEF Watch!HealthInv, Watch!RuleKnown
  <2>3. walk'.step # "notify"
    BY <2>1 DEF Watch!AtRest
  <2>4. QED
    BY <2>1, <2>2, <2>3 DEF Watch!HealthInv, Watch!WalkKnown
<1>2. ASSUME NEW q \in Watch!RuleSet, Watch!SignalChanges(q) PROVE Watch!HealthInv'
  BY <1>2 DEF Watch!SignalChanges, Watch!HealthInv, Watch!WalkKnown, Watch!Subject, Watch!First, Watch!Due
<1>3. ASSUME NEW q \in Watch!RuleSet, Watch!CacheChanges(q) PROVE Watch!HealthInv'
  <2>1. /\ cachedRules' = (cachedRules \ {q}) \cup ({q} \ cachedRules) /\ missed' = missed \cup {q}
        /\ UNCHANGED <<fresh, track, walk, passes, heard, alerts, flips>>
    BY <1>3 DEF Watch!CacheChanges
  <2>2. ASSUME NEW r \in Watch!RuleSet, NEW x,
               Watch!RuleKnown(track[r], flips[r], heard[r], alerts[r], passes, r \in missed, x)
        PROVE  Watch!RuleKnown(track[r], flips[r], heard[r], alerts[r], passes, r \in missed', x)
    BY <2>1, <2>2 DEF Watch!RuleKnown
  <2>3. QED
    BY <2>1, <2>2 DEF Watch!HealthInv, Watch!WalkKnown, Watch!Subject, Watch!First, Watch!Due
<1>4. QED
  BY <1>1, <1>2, <1>3

\* A pass starts.
LEMMA StartPassKeeps ==
    ASSUME Watch!HealthInv, Watch!StartPass
    PROVE  Watch!HealthInv'
<1> DEFINE todo == {i \in DOMAIN HealthRules : HealthRules[i] \in cachedRules}
<1>1. /\ walk = Watch!AtRest /\ Watch!Look(todo, track, cachedRules, passes')
      /\ passes' = Watch!Min({passes + 1, MaxClock})
      /\ UNCHANGED <<cachedRules, fresh, heard, alerts, missed>>
  BY DEF Watch!StartPass
<1>2. passes' \in 0..MaxClock /\ passes <= passes'
  <2>1. passes \in Nat /\ passes <= MaxClock /\ MaxClock \in Nat
    BY HealthAssumption DEF Watch!HealthInv
  <2>2. {passes + 1, MaxClock} \in SUBSET Nat /\ {passes + 1, MaxClock} # {}
    BY <2>1
  <2>3. passes' \in {passes + 1, MaxClock} /\ passes' <= MaxClock
    BY <1>1, <2>2, MinIs
  <2>4. QED
    BY <2>1, <2>3
<1>3. ASSUME NEW r \in Watch!RuleSet
      PROVE  Watch!RuleKnown(track[r], flips[r], heard'[r], alerts'[r], passes', r \in missed', FALSE)
  <2>1. walk.step # "notify"
    BY <1>1 DEF Watch!AtRest
  <2>2. Watch!RuleKnown(track[r], flips[r], heard[r], alerts[r], passes, r \in missed, FALSE)
    BY <2>1 DEF Watch!HealthInv
  <2>3. Watch!RuleKnown(track[r], flips[r], heard[r], alerts[r], passes', r \in missed, FALSE)
    BY <1>2, <2>2, HealthAssumption DEF Watch!RuleKnown, Watch!Tracks, Watch!HealthInv
  <2>4. QED
    BY <1>1, <2>3
<1>4. QED
  <2> HIDE DEF todo
  <2>1. todo \in SUBSET (DOMAIN HealthRules)
    BY DEF todo
  <2>2. /\ Watch!RuleSet \ cachedRules \subseteq missed' /\ Watch!RuleSet \ cachedRules' \subseteq missed'
        /\ DOMAIN heard' = Watch!RuleSet /\ DOMAIN alerts' = Watch!RuleSet
    BY <1>1 DEF Watch!HealthInv
  <2>4. cachedRules \subseteq Watch!RuleSet /\ cachedRules' \subseteq Watch!RuleSet
    BY <1>1 DEF Watch!HealthInv
  <2>3. QED
    BY <1>1, <1>2, <1>3, <2>4, <2>1, <2>2, LookKeeps

\* What the invariant says of the rule a pass is at.
LEMMA AtSubject ==
    ASSUME Watch!HealthInv, walk.step \in {"publish", "notify"}
    PROVE  /\ walk.todo \subseteq DOMAIN HealthRules /\ Watch!First \in walk.todo
           /\ Watch!Subject \in Watch!RuleSet
           /\ \A i \in walk.todo \ {Watch!First} : HealthRules[i] # Watch!Subject
           /\ walk.now = passes /\ passes \in Nat /\ walk.ok \in BOOLEAN
           /\ walk.live \subseteq Watch!RuleSet /\ Watch!RuleSet \ walk.live \subseteq missed
           /\ \E t \in track[Watch!Subject] :
                /\ track[Watch!Subject] = {t} /\ t = (CHOOSE u \in track[Watch!Subject] : TRUE)
                /\ t \in Watch!Tracks /\ t.evaluatable # walk.ok
           /\ ~walk.ok => flips[Watch!Subject] = {passes}
           /\ walk.step = "notify" => heard[Watch!Subject] = {walk.ok} /\ \A t \in track[Watch!Subject] : Watch!Due(t)
<1>1. walk # Watch!AtRest
  BY DEF Watch!AtRest
<1>2. /\ walk.todo # {} /\ walk.todo \subseteq DOMAIN HealthRules
      /\ walk.now = passes /\ passes \in Nat /\ walk.ok \in BOOLEAN
      /\ walk.live \subseteq Watch!RuleSet /\ Watch!RuleSet \ walk.live \subseteq missed
      /\ ~walk.ok => flips[Watch!Subject] = {passes}
      /\ walk.step = "notify" => heard[Watch!Subject] = {walk.ok} /\ \A t \in track[Watch!Subject] : Watch!Due(t)
  <2>1. walk \in Watch!PassAt(passes) /\ passes \in Nat
    BY <1>1, HealthAssumption DEF Watch!HealthInv, Watch!WalkKnown
  <2>2. /\ walk.todo # {} /\ walk.todo \subseteq DOMAIN HealthRules /\ walk.now = passes /\ walk.ok \in BOOLEAN
        /\ walk.live \subseteq Watch!RuleSet
    BY <2>1 DEF Watch!PassAt
  <2>3. QED
    BY <1>1, <2>1, <2>2 DEF Watch!HealthInv, Watch!WalkKnown
<1>3. Watch!First \in walk.todo
  BY <1>2, PlacesAre, MinIs DEF Watch!First
<1>4. Watch!Subject \in Watch!RuleSet /\ \A i \in walk.todo \ {Watch!First} : HealthRules[i] # Watch!Subject
  BY <1>2, <1>3, PlacesAre DEF Watch!Subject
<1>5. PICK t \in track[Watch!Subject] : t.evaluatable # walk.ok
  BY <1>1 DEF Watch!HealthInv, Watch!WalkKnown
<1>6. track[Watch!Subject] \subseteq Watch!Tracks /\ \A u, v \in track[Watch!Subject] : u = v
  BY <1>4 DEF Watch!HealthInv, Watch!RuleKnown
<1>7. track[Watch!Subject] = {t} /\ t = (CHOOSE u \in track[Watch!Subject] : TRUE)
  BY <1>5, <1>6
<1>8. QED
  BY <1>2, <1>3, <1>4, <1>5, <1>6, <1>7

\* The rule's new track, when what is known of it stands: the look goes on.
LEMMA TrackedKeeps ==
    ASSUME Watch!HealthInv, walk.step \in {"publish", "notify"}, NEW mark, Watch!Tracked(mark),
           UNCHANGED <<cachedRules, fresh, passes, missed>>,
           DOMAIN heard' = Watch!RuleSet, DOMAIN alerts' = Watch!RuleSet,
           \A r \in Watch!RuleSet \ {Watch!Subject} : heard'[r] = heard[r] /\ alerts'[r] = alerts[r],
           Watch!RuleKnown({Watch!Track(walk.ok, mark)}, flips[Watch!Subject], heard'[Watch!Subject],
                           alerts'[Watch!Subject], passes, Watch!Subject \in missed, FALSE)
    PROVE  Watch!HealthInv'
<1> DEFINE S == Watch!Subject
           kept == [track EXCEPT ![S] = {Watch!Track(walk.ok, mark)}]
           todo == walk.todo \ {Watch!First}
<1>1. /\ todo \in SUBSET (DOMAIN HealthRules) /\ walk.now = passes
      /\ \A i \in todo : HealthRules[i] # S
      /\ S \in Watch!RuleSet /\ walk.live \subseteq Watch!RuleSet /\ Watch!RuleSet \ walk.live \subseteq missed'
  BY AtSubject
<1>2. Watch!Look(todo, kept, walk.live, passes')
  BY <1>1 DEF Watch!Tracked
<1>3. DOMAIN track = Watch!RuleSet
  BY DEF Watch!HealthInv
<1>4. kept[S] = {Watch!Track(walk.ok, mark)} /\ \A r \in Watch!RuleSet \ {S} : kept[r] = track[r]
  BY <1>1, <1>3
<1>5. \A i \in todo : kept[HealthRules[i]] = track[HealthRules[i]]
  BY <1>1, <1>4, PlacesAre
<1>6. ASSUME NEW r \in Watch!RuleSet
      PROVE  Watch!RuleKnown(kept[r], flips[r], heard'[r], alerts'[r], passes', r \in missed', FALSE)
  <2>1. CASE r = S
    BY <1>4, <2>1
  <2>2. CASE r # S
    <3>1. Watch!RuleKnown(track[r], flips[r], heard[r], alerts[r], passes, r \in missed, walk.step = "notify" /\ S = r)
      BY DEF Watch!HealthInv
    <3>2. Watch!RuleKnown(track[r], flips[r], heard[r], alerts[r], passes, r \in missed, FALSE)
      BY <2>2, <3>1 DEF Watch!RuleKnown
    <3>3. QED
      BY <1>4, <2>2, <3>2
  <2>3. QED
    BY <2>1, <2>2
<1>7. passes' \in 0..MaxClock /\ Watch!RuleSet \ cachedRules' \subseteq missed' /\ cachedRules' \subseteq Watch!RuleSet
  BY DEF Watch!HealthInv
<1>8. QED
  <2> HIDE DEF kept, todo, S
  <2>1. QED
    BY <1>1, <1>2, <1>5, <1>6, <1>7, LookKeeps

\* The event is published; the notification is due, or the track follows.
LEMMA PublishedHealthKeeps ==
    ASSUME Watch!HealthInv, Watch!Published
    PROVE  Watch!HealthInv'
<1> DEFINE S == Watch!Subject
<1>0. walk.step = "publish"
  BY DEF Watch!Published
<1>1. PICK t \in track[S] :
        /\ track[S] = {t} /\ t = (CHOOSE u \in track[S] : TRUE)
        /\ t \in Watch!Tracks /\ t.evaluatable # walk.ok
  BY <1>0, AtSubject
<1>2. S \in Watch!RuleSet /\ walk.now = passes /\ passes \in Nat /\ walk.ok \in BOOLEAN
  BY <1>0, AtSubject
<1>3. /\ heard' = [heard EXCEPT ![S] = {walk.ok}]
      /\ UNCHANGED <<cachedRules, fresh, passes, alerts, missed>>
  BY DEF Watch!Published
<1>4. DOMAIN heard = Watch!RuleSet /\ DOMAIN alerts = Watch!RuleSet
  BY DEF Watch!HealthInv
<1>5. heard'[S] = {walk.ok} /\ DOMAIN heard' = Watch!RuleSet /\ \A r \in Watch!RuleSet \ {S} : heard'[r] = heard[r]
  BY <1>2, <1>3, <1>4
<1>6. Watch!RuleKnown(track[S], flips[S], heard[S], alerts[S], passes, S \in missed, FALSE)
  BY <1>0, <1>2 DEF Watch!HealthInv
<1>7. CASE Watch!Due(t) /\ walk' = [walk EXCEPT !.step = "notify"] /\ UNCHANGED <<track, flips>>
  <2>1. walk # Watch!AtRest
    BY <1>0 DEF Watch!AtRest
  <2>2. /\ walk'.step = "notify" /\ walk'.todo = walk.todo /\ walk'.now = walk.now /\ walk'.ok = walk.ok
        /\ walk'.live = walk.live
    <3>1. walk \in Watch!PassAt(passes)
      BY <1>0, <2>1 DEF Watch!HealthInv, Watch!WalkKnown
    <3>2. QED
      BY <1>7, <3>1 DEF Watch!PassAt
  <2>3. Watch!Subject' = S
    BY <2>2 DEF Watch!Subject, Watch!First
  <2>4. \A u \in track'[S] : Watch!Due(u)'
    BY <1>1, <1>7, <2>2 DEF Watch!Due
  <2>5. ASSUME NEW r \in Watch!RuleSet
        PROVE  Watch!RuleKnown(track'[r], flips'[r], heard'[r], alerts'[r], passes', r \in missed',
                               walk'.step = "notify" /\ Watch!Subject' = r)
    <3>1. CASE r = S
      <4>1. Watch!RuleKnown(track[S], flips[S], {walk.ok}, alerts[S], passes, S \in missed, TRUE)
        <5> HIDE DEF S
        <5>1. QED
          BY <1>1, <1>2, <1>6 DEF Watch!RuleKnown
      <4>2. QED
        BY <1>3, <1>5, <1>7, <2>2, <2>3, <3>1, <4>1
    <3>2. CASE r # S
      <4>1. Watch!RuleKnown(track[r], flips[r], heard[r], alerts[r], passes, r \in missed, FALSE)
        BY <1>0 DEF Watch!HealthInv
      <4>2. QED
        BY <1>3, <1>5, <1>7, <2>3, <3>2, <4>1
    <3>3. QED
      BY <3>1, <3>2
  <2>6. Watch!WalkKnown'
    <3>1. walk \in Watch!PassAt(passes)
      BY <1>0, <2>1 DEF Watch!HealthInv, Watch!WalkKnown
    <3>3. walk' \in Watch!PassAt(passes')
      BY <1>3, <1>7, <3>1 DEF Watch!PassAt
    <3>2. QED
      BY <1>0, <1>1, <3>3, <1>3, <1>5, <1>7, <2>2, <2>3, <2>4, <3>1, AtSubject DEF Watch!WalkKnown
  <2>7. QED
    BY <1>3, <1>4, <1>5, <1>7, <2>5, <2>6 DEF Watch!HealthInv
<1>8. CASE ~Watch!Due(t) /\ Watch!Tracked(t.last_alert_at)
  <2>1. Watch!RuleKnown({Watch!Track(walk.ok, t.last_alert_at)}, flips[S], {walk.ok}, alerts[S], passes,
                        S \in missed, FALSE)
    <3>1. ~walk.ok => flips[S] = {passes} /\ \E mark \in t.last_alert_at : passes - mark <= RenotifyAfter
      <4>1. ~walk.ok => flips[S] = {passes}
        BY <1>0, AtSubject
      <4>2. ~walk.ok => \E mark \in t.last_alert_at : ~(passes - mark > RenotifyAfter)
        BY <1>2, <1>8, Zenon DEF Watch!Due
      <4>3. t.last_alert_at \subseteq Nat
        BY <1>1 DEF Watch!Tracks
      <4>4. QED
        BY <1>2, <4>1, <4>2, <4>3, HealthAssumption
    <3> HIDE DEF S
    <3>2. PICK r : r = Watch!Track(walk.ok, t.last_alert_at)
      OBVIOUS
    <3>3. r \in Watch!Tracks /\ r.evaluatable = walk.ok /\ r.last_alert_at = t.last_alert_at
      BY <1>1, <1>2, <3>2 DEF Watch!Track, Watch!Tracks
    <3>4. \A f \in flips[S] : ~walk.ok => \E i \in DOMAIN alerts[S] : alerts[S][i] <= f /\ f - alerts[S][i] <= RenotifyAfter
      BY <1>1, <1>6, <3>1 DEF Watch!RuleKnown
    <3>5. Watch!RuleKnown({r}, flips[S], {walk.ok}, alerts[S], passes, S \in missed, FALSE)
      BY <1>1, <1>2, <1>6, <3>3, <3>4 DEF Watch!RuleKnown
    <3>6. QED
      BY <3>2, <3>5
  <2>2. QED
    <3> HIDE DEF S
    <3>1. DOMAIN alerts' = Watch!RuleSet /\ \A r \in Watch!RuleSet \ {S} : alerts'[r] = alerts[r]
      BY <1>3, <1>4
    <3>2. QED
      BY <1>0, <1>3, <1>5, <1>8, <2>1, <3>1, TrackedKeeps DEF S
<1>9. QED
  BY <1>1, <1>7, <1>8, Zenon DEF Watch!Published

\* A notification appended is the rule's latest.
LEMMA AppendIs ==
    ASSUME NEW A \in Seq(Nat), NEW mark \in Nat
    PROVE  /\ Append(A, mark) \in Seq(Nat) /\ Len(Append(A, mark)) = Len(A) + 1 /\ Len(A) \in Nat
           /\ Append(A, mark)[Len(A) + 1] = mark /\ DOMAIN A = 1..Len(A) /\ DOMAIN Append(A, mark) = 1..(Len(A) + 1)
           /\ \A i \in 1..Len(A) : Append(A, mark)[i] = A[i]
  OBVIOUS

\* The notification is written and remembered.
LEMMA NotifiedHealthKeeps ==
    ASSUME Watch!HealthInv, Watch!Notified
    PROVE  Watch!HealthInv'
<1> DEFINE S == Watch!Subject
           A == alerts[S]
<1>0. walk.step = "notify"
  BY DEF Watch!Notified
<1>1. PICK t \in track[S] :
        /\ track[S] = {t} /\ t = (CHOOSE u \in track[S] : TRUE)
        /\ t \in Watch!Tracks /\ t.evaluatable # walk.ok
  BY <1>0, AtSubject
<1>2. /\ S \in Watch!RuleSet /\ walk.now = passes /\ passes \in Nat /\ walk.ok \in BOOLEAN
      /\ ~walk.ok => flips[S] = {passes}
      /\ heard[S] = {walk.ok} /\ Watch!Due(t)
  BY <1>0, <1>1, AtSubject
<1>3. /\ alerts' = [alerts EXCEPT ![S] = Append(@, walk.now)] /\ Watch!Tracked({walk.now})
      /\ UNCHANGED <<cachedRules, fresh, passes, heard, missed>>
  BY DEF Watch!Notified
<1>4. DOMAIN heard = Watch!RuleSet /\ DOMAIN alerts = Watch!RuleSet
  BY DEF Watch!HealthInv
<1>5. alerts'[S] = Append(A, passes) /\ DOMAIN alerts' = Watch!RuleSet /\ \A r \in Watch!RuleSet \ {S} : alerts'[r] = alerts[r]
  BY <1>2, <1>3, <1>4
<1>6. Watch!RuleKnown(track[S], flips[S], heard[S], A, passes, S \in missed, walk.step = "notify" /\ S = S)
  BY <1>2 DEF Watch!HealthInv
<1>7. ~walk.ok /\ \A mark \in t.last_alert_at : passes - mark > RenotifyAfter
  BY <1>2, Zenon DEF Watch!Due
<1>8. Watch!RuleKnown({Watch!Track(walk.ok, {passes})}, flips[S], {walk.ok}, Append(A, passes), passes,
                      S \in missed, FALSE)
  <2> HIDE DEF S, A
  <2>1. PICK u : u = Watch!Track(walk.ok, {passes})
    OBVIOUS
  <2>2. u \in Watch!Tracks /\ u.evaluatable = walk.ok /\ u.last_alert_at = {passes}
    BY <1>2, <2>1 DEF Watch!Track, Watch!Tracks
  <2>3. A \in Seq(Nat)
    BY <1>6 DEF Watch!RuleKnown
  <2>4. /\ Append(A, passes) \in Seq(Nat) /\ Len(Append(A, passes)) = Len(A) + 1 /\ Len(A) \in Nat
        /\ Append(A, passes)[Len(A) + 1] = passes /\ DOMAIN A = 1..Len(A)
        /\ DOMAIN Append(A, passes) = 1..(Len(A) + 1)
        /\ \A i \in 1..Len(A) : Append(A, passes)[i] = A[i]
    BY <1>2, <2>3, AppendIs
  <2>5. PICK B : B = Append(A, passes)
    OBVIOUS
  <2>6. S \notin missed => \A i \in 1..(Len(B) - 1) : B[i + 1] - B[i] > RenotifyAfter
    <3>1. SUFFICES ASSUME S \notin missed, NEW i \in 1..(Len(B) - 1)
                   PROVE  B[i + 1] - B[i] > RenotifyAfter
      OBVIOUS
    <3>2. CASE i = Len(A)
      <4>1. A # <<>> /\ i \in 1..Len(A) /\ Len(A) >= 1
        BY <2>3, <2>4, <2>5, <3>2
      <4>2. A[Len(A)] \in t.last_alert_at
        BY <1>1, <1>6, <3>1, <4>1 DEF Watch!RuleKnown
      <4>3. QED
        BY <1>7, <2>4, <2>5, <3>2, <4>1, <4>2
    <3>3. CASE i # Len(A)
      <4>1. i \in 1..(Len(A) - 1) /\ i \in 1..Len(A) /\ i + 1 \in 1..Len(A)
        BY <2>4, <2>5, <3>3
      <4>2. A[i + 1] - A[i] > RenotifyAfter
        BY <1>6, <3>1, <4>1 DEF Watch!RuleKnown
      <4>3. QED
        BY <2>4, <2>5, <4>1, <4>2
    <3>4. QED
      BY <3>2, <3>3
  <2>7. Len(B) \in DOMAIN B /\ B[Len(B)] = passes /\ B \in Seq(Nat) /\ flips[S] = {passes}
    BY <1>2, <1>7, <2>4, <2>5
  <2>8. Watch!RuleKnown({u}, flips[S], {walk.ok}, B, passes, S \in missed, FALSE)
    BY <1>2, <1>7, <2>2, <2>6, <2>7, HealthAssumption DEF Watch!RuleKnown
  <2>9. QED
    BY <2>1, <2>5, <2>8
<1>9. QED
  <2> HIDE DEF S, A
  <2>1. DOMAIN heard' = Watch!RuleSet /\ \A r \in Watch!RuleSet \ {S} : heard'[r] = heard[r]
    BY <1>3, <1>4
  <2>2. Watch!Tracked({passes}) /\ heard'[S] = {walk.ok}
    BY <1>2, <1>3
  <2>3. QED
    BY <1>0, <1>3, <1>5, <1>8, <2>1, <2>2, TrackedKeeps DEF S

\* An error ends the pass.
LEMMA PassFailsKeeps ==
    ASSUME Watch!HealthInv, Watch!PassFails
    PROVE  Watch!HealthInv'
<1> DEFINE S == Watch!Subject
<1>1. /\ walk' = Watch!AtRest /\ missed' = missed \cup {S}
      /\ UNCHANGED <<cachedRules, fresh, track, passes, heard, flips>>
      /\ alerts' = [alerts EXCEPT ![S] = Append(@, walk.now)] \/ alerts' = alerts
      /\ walk.step \in {"publish", "notify"}
  BY DEF Watch!PassFails
<1>2. S \in Watch!RuleSet /\ walk.now = passes /\ passes \in Nat
  BY <1>1, AtSubject
<1>3. DOMAIN alerts = Watch!RuleSet /\ DOMAIN alerts' = Watch!RuleSet
  BY <1>1 DEF Watch!HealthInv
<1>4. ASSUME NEW r \in Watch!RuleSet
      PROVE  Watch!RuleKnown(track[r], flips[r], heard[r], alerts'[r], passes, r \in missed', FALSE)
  <2> HIDE DEF S
  <2>1. PICK x \in BOOLEAN : Watch!RuleKnown(track[r], flips[r], heard[r], alerts[r], passes, r \in missed, x) /\ (x => r = S)
    BY DEF Watch!HealthInv, S
  <2>2. CASE r = S
    <3>1. alerts[r] \in Seq(Nat)
      BY <2>1 DEF Watch!RuleKnown
    <3>2. /\ alerts'[r] \in Seq(Nat)
          /\ \A i \in DOMAIN alerts[r] : i \in DOMAIN alerts'[r] /\ alerts'[r][i] = alerts[r][i]
      <4>1. alerts'[r] = Append(alerts[r], passes) \/ alerts'[r] = alerts[r]
        BY <1>1, <1>2, <1>3, <2>2
      <4>2. CASE alerts'[r] = Append(alerts[r], passes)
        <5>1. PICK A \in Seq(Nat) : A = alerts[r]
          BY <3>1
        <5>2. /\ Append(A, passes) \in Seq(Nat) /\ \A i \in 1..Len(A) : Append(A, passes)[i] = A[i]
              /\ DOMAIN A = 1..Len(A) /\ DOMAIN Append(A, passes) = 1..(Len(A) + 1) /\ Len(A) \in Nat
          BY <1>2, AppendIs
        <5>3. \A i \in DOMAIN A : i \in DOMAIN Append(A, passes)
          BY <5>2
        <5>4. QED
          BY <4>2, <5>1, <5>2, <5>3
      <4>3. QED
        BY <3>1, <4>1, <4>2
    <3>3. QED
      BY <1>1, <2>1, <2>2, <3>2 DEF Watch!RuleKnown
  <2>3. CASE r # S
    <3>1. alerts'[r] = alerts[r] /\ (r \in missed' <=> r \in missed) /\ x = FALSE
      BY <1>1, <1>3, <2>1, <2>3
    <3>2. QED
      BY <2>1, <3>1 DEF Watch!RuleKnown
  <2>4. QED
    BY <2>2, <2>3
<1>5. walk'.step # "notify"
  BY <1>1 DEF Watch!AtRest
<1>6. QED
  <2> HIDE DEF S
  <2>1. QED
    BY <1>1, <1>3, <1>4, <1>5 DEF Watch!HealthInv, Watch!WalkKnown

\* A worker that has just started knows nothing of any rule.
LEMMA HealthStarts ==
    ASSUME Watch!HealthInit
    PROVE  Watch!HealthInv
<1>1. <<>> \in Seq(Nat) /\ Len(<<>>) = 0
  OBVIOUS
<1>2. ASSUME NEW r \in Watch!RuleSet
      PROVE  Watch!RuleKnown({}, {}, {}, <<>>, 0, r \in missed, FALSE)
  BY <1>1 DEF Watch!RuleKnown
<1>3. walk.step # "notify"
  BY DEF Watch!HealthInit, Watch!AtRest
<1>4. /\ passes = 0 /\ passes \in 0..MaxClock /\ cachedRules = Watch!RuleSet /\ walk = Watch!AtRest
      /\ DOMAIN track = Watch!RuleSet /\ DOMAIN flips = Watch!RuleSet /\ DOMAIN heard = Watch!RuleSet
      /\ DOMAIN alerts = Watch!RuleSet
      /\ \A r \in Watch!RuleSet : track[r] = {} /\ flips[r] = {} /\ heard[r] = {} /\ alerts[r] = <<>>
  BY HealthAssumption DEF Watch!HealthInit
<1>5. QED
  BY <1>2, <1>3, <1>4 DEF Watch!HealthInv, Watch!WalkKnown

\* A step of the watch over the rules, or of anything else.
LEMMA HealthStepKeeps ==
    ASSUME Watch!HealthInv, Watch!HealthNext \/ UNCHANGED Watch!health
    PROVE  Watch!HealthInv'
<1>1. CASE UNCHANGED Watch!health
  BY <1>1 DEF Watch!health, Watch!HealthInv, Watch!WalkKnown, Watch!Subject, Watch!First, Watch!Due
<1>2. CASE Watch!HealthNext
  BY <1>2, StartPassKeeps, PublishedHealthKeeps, NotifiedHealthKeeps, PassFailsKeeps, HealthInBetween, Zenon
  DEF Watch!HealthNext, Watch!HealthPass
<1>3. QED
  BY <1>1, <1>2

\* What the invariant says to a reader.
LEMMA HealthMeans ==
    ASSUME Watch!HealthInv
    PROVE  Watch!HealthTypeOK /\ Watch!AlertsSpaced /\ Watch!StaleWasTold /\ Watch!HeardIsTracked
<1>2. ASSUME NEW r \in Watch!RuleSet
      PROVE  Watch!RuleKnown(track[r], flips[r], heard[r], alerts[r], passes, r \in missed,
                             walk.step = "notify" /\ Watch!Subject = r)
  BY DEF Watch!HealthInv
<1>3. Watch!HealthTypeOK
  <2>1. \A r \in Watch!RuleSet : (\A t, u \in track[r] : t = u) /\ (\A h, k \in heard[r] : h = k)
    BY <1>2 DEF Watch!RuleKnown
  <2>2. walk.step \in {"rest", "publish", "notify"} /\ (walk.step = "rest" <=> walk.todo = {})
    BY DEF Watch!HealthInv, Watch!WalkKnown, Watch!PassAt, Watch!AtRest
  <2>3. QED
    BY <2>1, <2>2 DEF Watch!HealthTypeOK
<1>4. Watch!AlertsSpaced
  BY <1>2 DEF Watch!RuleKnown, Watch!AlertsSpaced
<1>5. Watch!StaleWasTold
  BY <1>2 DEF Watch!RuleKnown, Watch!StaleWasTold
<1>6. Watch!HeardIsTracked
  <2>1. ASSUME NEW r \in Watch!RuleSet \ missed, NEW t \in track[r], NEW h \in heard[r]
        PROVE  h = t.evaluatable \/ (walk.step = "notify" /\ Watch!Subject = r)
    BY <1>2 DEF Watch!RuleKnown
  <2>2. QED
    BY <2>1 DEF Watch!HeardIsTracked
<1>7. QED
  BY <1>3, <1>4, <1>5, <1>6

-----------------------------------------------------------------------------
(* The schedule: minutes of the clock. *)

\* The minute of a tick does not go back, nor does it jump.
LEMMA MinutesGo ==
    ASSUME NEW w \in Nat, NEW v \in Nat, NEW p \in Nat, p > 0
    PROVE  /\ w \div p \in Nat
           /\ w <= v => w \div p <= v \div p
           /\ w <= v + p => w \div p <= (v \div p) + 1
  OBVIOUS

\* _seconds_to_next_minute ends with the next minute's first tick.
LEMMA NextMinute ==
    ASSUME NEW w \in Nat, NEW p \in Nat, p > 0
    PROVE  /\ w % p \in 0..(p - 1)
           /\ (w + (p - (w % p))) \div p = (w \div p) + 1
  OBVIOUS

\* The clock of a state that has its types.
LEMMA ClockIs ==
    ASSUME Events!ScheduleTypeOK
    PROVE  /\ Events!Wall \in Nat /\ Events!Wall <= MaxTicks + 1
           /\ Events!Minute \in Events!Minutes /\ Events!Minute \in Nat
           /\ cronLoop.wake + offset \in Int
           /\ cronLoop.minute \in Events!Minutes /\ cronLoop.minute \in Nat
           /\ cronLoop.wake \in Nat /\ cronLoop.todo \subseteq DOMAIN Scheduled
           /\ cronLoop.step \in {"sleep", "pass"}
           /\ mono \in Nat /\ offset \in Int /\ mono <= MaxTicks
           /\ mono >= PerMinute
<1>1. /\ mono \in Nat /\ mono >= PerMinute /\ mono <= MaxTicks /\ offset \in {-1, 0, 1}
      /\ PerMinute \in Nat /\ PerMinute >= 2 /\ MaxTicks \in Nat
  BY TriggersAssumption DEF Events!ScheduleTypeOK
<1>2. Events!Wall \in Nat /\ Events!Wall <= MaxTicks + 1 /\ Events!Wall <= MaxTicks + PerMinute
  BY <1>1 DEF Events!Wall
<1>3. /\ Events!Minute \in Nat /\ Events!Minute <= (MaxTicks \div PerMinute) + 1
      /\ MaxTicks \div PerMinute \in Nat
  BY <1>1, <1>2, MinutesGo DEF Events!Minute
<1>4. Events!Minute \in Events!Minutes /\ Events!Minutes \subseteq Nat
  BY <1>3 DEF Events!Minutes
<1>5. cronLoop \in [step : {"sleep", "pass"}, wake : Nat, minute : Events!Minutes, todo : SUBSET DOMAIN Scheduled]
  BY DEF Events!ScheduleTypeOK
<1>6. /\ cronLoop.minute \in Events!Minutes /\ cronLoop.wake \in Nat /\ cronLoop.todo \subseteq DOMAIN Scheduled
      /\ cronLoop.step \in {"sleep", "pass"}
  BY <1>5
<1>7. offset \in Int /\ cronLoop.wake + offset \in Int
  BY <1>1, <1>6
<1>8. QED
  BY <1>1, <1>2, <1>3, <1>4, <1>6, <1>7

\* The places of the rules are numbers, a place per rule.
LEMMA ScheduledAre ==
    /\ DOMAIN Scheduled \subseteq Nat
    /\ \A i \in DOMAIN Scheduled : Scheduled[i] \in Events!ScheduledSet
    /\ \A i, j \in DOMAIN Scheduled : Scheduled[i] = Scheduled[j] => i = j
    /\ \A r \in Events!ScheduledSet : \E i \in DOMAIN Scheduled : Scheduled[i] = r
  BY TriggersAssumption DEF Events!ScheduledSet

\* A pass goes on with places of the minute marked, or sleeps till the next one.
LEMMA GoesOnLeaves ==
    ASSUME Events!ScheduleTypeOK, NEW mark \in Events!Minutes, NEW todo \in SUBSET DOMAIN Scheduled, NEW late,
           Events!GoesOn(mark, todo, late)
    PROVE  /\ cronLoop' \in [step : {"sleep", "pass"}, wake : Nat, minute : Events!Minutes, todo : SUBSET DOMAIN Scheduled]
           /\ cronLoop'.minute = mark /\ cronLoop'.todo = todo
           /\ cronLoop'.step = IF todo = {} THEN "sleep" ELSE "pass"
           /\ todo = {} => /\ mono <= cronLoop'.wake
                           /\ (cronLoop'.wake + offset) \div PerMinute = Events!Minute + 1
                           /\ (mark + 1)..Events!Minute \subseteq passed'
           /\ late \subseteq passed' /\ passed \subseteq passed'
<1>1. /\ Events!Wall \in Nat /\ mono \in Nat /\ offset \in Int /\ PerMinute \in Nat /\ PerMinute > 0
      /\ cronLoop.wake \in Nat
      /\ cronLoop \in [step : {"sleep", "pass"}, wake : Nat, minute : Events!Minutes, todo : SUBSET DOMAIN Scheduled]
  BY ClockIs, TriggersAssumption DEF Events!ScheduleTypeOK
<1>2. CASE todo = {}
  <2> DEFINE wake == mono + Events!_seconds_to_next_minute
  <2>1. cronLoop' = [step |-> "sleep", wake |-> wake, minute |-> mark, todo |-> {}]
    BY <1>2 DEF Events!GoesOn
  <2>2. wake \in Nat /\ mono <= wake
    BY <1>1, NextMinute DEF Events!_seconds_to_next_minute
  <2>3. wake + offset = Events!Wall + (PerMinute - (Events!Wall % PerMinute))
    BY <1>1, NextMinute DEF Events!_seconds_to_next_minute, Events!Wall
  <2>4. (wake + offset) \div PerMinute = Events!Minute + 1
    BY <1>1, <2>3, NextMinute DEF Events!Minute
  <2>5. passed' = passed \cup late \cup ((mark + 1)..Events!Minute)
    BY <1>2 DEF Events!GoesOn
  <2>6. QED
    <3> HIDE DEF wake
    <3>1. QED
      BY <1>2, <2>1, <2>2, <2>4, <2>5
<1>3. CASE todo # {}
  <2>1. cronLoop' = [cronLoop EXCEPT !.step = "pass", !.minute = mark, !.todo = todo] /\ passed' = passed \cup late
    BY <1>3 DEF Events!GoesOn
  <2>2. QED
    BY <1>1, <1>3, <2>1
<1>4. QED
  BY <1>2, <1>3

\* A pass starts.
LEMMA TickKeeps ==
    ASSUME Events!ScheduleInv, Events!_tick_schedules
    PROVE  Events!ScheduleInv'
<1> DEFINE left == IF cronLoop.todo = {} THEN {} ELSE cronLoop.minute..(Events!Minute - 1)
           late == left \cup (IF loaded = Events!ScheduledSet THEN {} ELSE {Events!Minute})
           due  == {i \in DOMAIN Scheduled :
                      Scheduled[i] \in loaded /\ Events!schedule_due(Scheduled[i], Events!Minute)}
           lm   == Events!Minute
<1>1. /\ cronLoop.step = "sleep" /\ mono >= cronLoop.wake /\ Events!GoesOn(lm, due, late)
      /\ UNCHANGED <<mono, offset, loaded, asked, scheduleBudget, again>>
  BY DEF Events!_tick_schedules
<1>2. Events!ScheduleTypeOK
  BY DEF Events!ScheduleInv
<1>3. /\ lm \in Events!Minutes /\ lm \in Nat /\ cronLoop.minute \in Nat /\ mono = cronLoop.wake
      /\ Events!WakesIn = lm /\ Events!Minute' = lm /\ Events!Minutes \subseteq Nat
  <2>1. lm \in Events!Minutes /\ lm \in Nat /\ cronLoop.minute \in Nat /\ mono = cronLoop.wake
    BY <1>1, <1>2, ClockIs DEF Events!ScheduleTypeOK
  <2>2. Events!WakesIn = lm /\ Events!Minute' = lm
    BY <1>1, <2>1 DEF Events!WakesIn, Events!Minute, Events!Wall
  <2>3. QED
    BY <2>1, <2>2 DEF Events!Minutes
<1>4. due \in SUBSET DOMAIN Scheduled
  OBVIOUS
<1>5. /\ cronLoop' \in [step : {"sleep", "pass"}, wake : Nat, minute : Events!Minutes, todo : SUBSET DOMAIN Scheduled]
      /\ cronLoop'.minute = lm /\ cronLoop'.todo = due
      /\ cronLoop'.step = IF due = {} THEN "sleep" ELSE "pass"
      /\ due = {} => /\ mono <= cronLoop'.wake
                     /\ (cronLoop'.wake + offset) \div PerMinute = Events!Minute + 1
                     /\ (lm + 1)..Events!Minute \subseteq passed'
      /\ late \subseteq passed' /\ passed \subseteq passed'
  <2> HIDE DEF due, late, lm
  <2>1. QED
    BY <1>1, <1>2, <1>3, <1>4, GoesOnLeaves DEF lm
<1>6. Events!ScheduleTypeOK'
  <2> HIDE DEF due, late
  <2>1. QED
    BY <1>1, <1>2, <1>5 DEF Events!ScheduleTypeOK, Events!ScheduledSet
<1>7. \A r \in Events!ScheduledSet, mn \in Events!Minutes : asked[r][mn] > 0 /\ mn \notin again => mn < lm
  BY <1>1, <1>3 DEF Events!ScheduleInv, Events!OnceKnown, Events!Over
<1>8. Events!OnceKnown'
  <2> HIDE DEF due, late, lm
  <2>1. due = {} => Events!WakesIn' = lm + 1
    BY <1>1, <1>5 DEF Events!WakesIn, lm
  <2>2. QED
    BY <1>1, <1>3, <1>5, <1>7, <2>1 DEF Events!OnceKnown, Events!Over, Events!Minutes, Events!ScheduledSet
<1>9. \A r \in Events!ScheduledSet : lm \in Cron[r] => lm \in passed' \/ \E i \in due : Scheduled[i] = r
  <2>1. ASSUME NEW r \in Events!ScheduledSet, lm \in Cron[r], loaded = Events!ScheduledSet
        PROVE  \E i \in due : Scheduled[i] = r
    BY <2>1, ScheduledAre DEF Events!schedule_due
  <2>2. loaded # Events!ScheduledSet => lm \in passed'
    BY <1>5
  <2>3. QED
    BY <2>1, <2>2
<1>10. \A mn \in Events!Minutes : 1 <= mn /\ cronLoop.minute < mn /\ mn < lm => mn \in passed'
  <2>1. CASE cronLoop.todo = {}
    BY <1>1, <1>3, <1>5, <2>1 DEF Events!ScheduleInv, Events!EveryKnown, Events!FirstMinute
  <2>2. CASE cronLoop.todo # {}
    BY <1>3, <1>5, <2>2
  <2>3. QED
    BY <2>1, <2>2
<1>11. Events!EveryKnown'
  <2> HIDE DEF due, late, lm
  <2>1. due = {} => Events!WakesIn' = lm + 1
    BY <1>1, <1>5 DEF Events!WakesIn, lm
  <2>2. QED
    BY <1>1, <1>3, <1>5, <1>9, <2>1 DEF Events!EveryKnown, Events!FirstMinute, Events!Minutes, Events!ScheduledSet
<1>12. Events!AskedEveryMinute'
  <2>1. ASSUME NEW r \in Events!ScheduledSet, NEW mn \in Cron[r], 1 <= mn, mn < lm, mn \notin passed', mn \in Events!Minutes
        PROVE  asked[r][mn] > 0
    <3>1. mn \notin passed
      BY <1>5, <2>1
    <3>2. CASE mn < cronLoop.minute
      BY <2>1, <3>1, <3>2 DEF Events!ScheduleInv, Events!AskedEveryMinute, Events!Done, Events!FirstMinute
    <3>3. CASE mn = cronLoop.minute
      <4>1. cronLoop.todo = {}
        BY <1>3, <1>5, <2>1, <3>3
      <4>2. QED
        BY <1>1, <2>1, <3>1, <3>3, <4>1 DEF Events!ScheduleInv, Events!AskedEveryMinute, Events!Done, Events!FirstMinute
    <3>4. CASE mn > cronLoop.minute
      BY <1>3, <1>10, <2>1, <3>4
    <3>5. QED
      BY <1>3, <2>1, <3>2, <3>3, <3>4
  <2>2. ASSUME NEW r \in Events!ScheduledSet, NEW mn \in Cron[r], 1 <= mn, Events!Done(mn)', mn \notin passed'
        PROVE  asked[r][mn] > 0
    <3>1. CASE mn < lm
      <4>1. mn \in Events!Minutes
        <5>1. mn \in Nat
          BY <2>2, TriggersAssumption
        <5>2. lm \in 0..(MaxTicks \div PerMinute + 1) /\ MaxTicks \div PerMinute \in Nat
          BY <1>3, MinutesGo, TriggersAssumption DEF Events!Minutes
        <5>3. QED
          BY <3>1, <5>1, <5>2 DEF Events!Minutes
      <4>2. QED
        BY <2>1, <2>2, <3>1, <4>1
    <3>2. CASE mn = lm /\ due = {}
      BY <1>9, <2>2, <3>2
    <3>3. QED
      <4> HIDE DEF due, late, lm
      <4>1. QED
        BY <1>5, <2>2, <3>1, <3>2 DEF Events!Done
  <2>3. QED
    BY <1>1, <2>2 DEF Events!AskedEveryMinute, Events!FirstMinute, Events!ScheduledSet
<1>13. Events!AskedOnce'
  BY <1>1 DEF Events!ScheduleInv, Events!AskedOnce, Events!Minutes, Events!ScheduledSet
<1>14. QED
  BY <1>6, <1>8, <1>11, <1>12, <1>13 DEF Events!ScheduleInv

\* One request is published.
LEMMA PublishTickKeeps ==
    ASSUME Events!ScheduleInv, Events!PublishTick
    PROVE  Events!ScheduleInv'
<1> DEFINE n == Events!Min(cronLoop.todo)
           R == Scheduled[n]
           lm == cronLoop.minute
           todo == cronLoop.todo \ {n}
<1>1. /\ cronLoop.step = "pass" /\ Events!GoesOn(lm, todo, {})
      /\ asked' = [asked EXCEPT ![R][lm] = @ + 1]
      /\ UNCHANGED <<mono, offset, loaded, scheduleBudget, again>>
  BY DEF Events!PublishTick
<1>2. Events!ScheduleTypeOK
  BY DEF Events!ScheduleInv
<1>3. /\ lm \in Events!Minutes /\ lm \in Nat /\ Events!Minute \in Nat /\ Events!Minutes \subseteq Nat
      /\ cronLoop.todo \subseteq DOMAIN Scheduled /\ cronLoop.todo # {}
      /\ Events!Minute' = Events!Minute
  BY <1>1, <1>2, ClockIs DEF Events!ScheduleTypeOK, Events!Minutes, Events!Minute, Events!Wall
<1>4. n \in cronLoop.todo /\ n \in DOMAIN Scheduled /\ R \in Events!ScheduledSet
  <2>1. n \in cronLoop.todo
    BY <1>3, ScheduledAre, EventsMinIs
  <2>2. QED
    BY <1>3, <2>1, ScheduledAre
<1>5. \A i \in todo : Scheduled[i] # R
  BY <1>3, <1>4, ScheduledAre
<1>6. /\ cronLoop' \in [step : {"sleep", "pass"}, wake : Nat, minute : Events!Minutes, todo : SUBSET DOMAIN Scheduled]
      /\ cronLoop'.minute = lm /\ cronLoop'.todo = todo
      /\ cronLoop'.step = IF todo = {} THEN "sleep" ELSE "pass"
      /\ todo = {} => /\ mono <= cronLoop'.wake
                      /\ (cronLoop'.wake + offset) \div PerMinute = Events!Minute + 1
                      /\ (lm + 1)..Events!Minute \subseteq passed'
      /\ passed \subseteq passed'
  <2> HIDE DEF n, lm
  <2>1. todo \in SUBSET DOMAIN Scheduled
    BY <1>3
  <2> HIDE DEF todo
  <2>2. QED
    BY <1>1, <1>2, <1>3, <2>1, GoesOnLeaves
<1>7. /\ asked \in [Events!ScheduledSet -> [Events!Minutes -> Nat]]
      /\ asked' \in [Events!ScheduledSet -> [Events!Minutes -> Nat]]
      /\ asked'[R][lm] = asked[R][lm] + 1
      /\ \A r \in Events!ScheduledSet, mn \in Events!Minutes : r # R \/ mn # lm => asked'[r][mn] = asked[r][mn]
  <2> HIDE DEF R, lm
  <2>1. asked \in [Events!ScheduledSet -> [Events!Minutes -> Nat]]
    BY <1>2 DEF Events!ScheduleTypeOK
  <2>2. QED
    BY <1>1, <1>3, <1>4, <2>1
<1>8. Events!ScheduleTypeOK'
  <2> HIDE DEF R, lm, todo, n
  <2>1. QED
    BY <1>1, <1>2, <1>6, <1>7 DEF Events!ScheduleTypeOK, Events!ScheduledSet, Events!Minutes
<1>9. todo = {} => Events!WakesIn' = Events!Minute + 1
  BY <1>1, <1>6 DEF Events!WakesIn
<1>10. Events!OnceKnown /\ Events!EveryKnown /\ Events!AskedOnce /\ Events!AskedEveryMinute
  BY DEF Events!ScheduleInv
<1>11. Events!OnceKnown'
  <2>1. lm \notin again => lm <= Events!Minute
    BY <1>1, <1>10 DEF Events!OnceKnown
  <2>2. ASSUME NEW r \in Events!ScheduledSet, NEW mn \in Events!Minutes, asked'[r][mn] > 0, mn \notin again
        PROVE  Events!Over(r, mn)'
    <3>1. mn = lm => mn <= Events!Minute
      BY <2>1, <2>2
    <3>2. CASE r = R /\ mn = lm
      <4> HIDE DEF R, lm, todo, n
      <4>1. QED
        BY <1>3, <1>5, <1>6, <1>9, <3>1, <3>2 DEF Events!Over
    <3>3. CASE ~(r = R /\ mn = lm)
      <4>1. asked[r][mn] > 0
        BY <1>7, <2>2, <3>3
      <4>2. \/ mn < Events!Minute /\ mn < lm
            \/ mn <= Events!Minute /\ mn = lm /\ \A i \in cronLoop.todo : Scheduled[i] # r
        BY <1>1, <1>10, <2>2, <4>1 DEF Events!OnceKnown, Events!Over
      <4>3. mn \in Nat /\ todo \subseteq cronLoop.todo
        BY <1>3
      <4> HIDE DEF R, lm, todo, n
      <4>4. QED
        BY <1>3, <1>6, <1>9, <4>2, <4>3 DEF Events!Over
    <3>4. QED
      BY <3>2, <3>3
  <2>3. cronLoop'.step = "pass" /\ cronLoop'.minute \notin again => cronLoop'.minute <= Events!Minute
    <3> HIDE DEF R, lm, todo, n
    <3>1. QED
      BY <1>6, <2>1
  <2>4. QED
    <3> HIDE DEF R, lm, todo, n
    <3>1. QED
      BY <1>1, <1>3, <2>2, <2>3 DEF Events!OnceKnown, Events!ScheduledSet, Events!Minutes
<1>12. \A r \in Events!ScheduledSet :
         lm \in Cron[r] \ passed /\ 1 <= lm => asked'[r][lm] > 0 \/ \E i \in todo : Scheduled[i] = r
  <2>1. SUFFICES ASSUME NEW r \in Events!ScheduledSet, lm \in Cron[r] \ passed, 1 <= lm
                 PROVE  asked'[r][lm] > 0 \/ \E i \in todo : Scheduled[i] = r
    OBVIOUS
  <2>2. CASE r = R
    <3>1. asked[R][lm] \in Nat
      BY <1>3, <1>4, <1>7
    <3>2. QED
      <4> HIDE DEF R, lm
      <4>1. QED
        BY <1>7, <2>2, <3>1
  <2>3. CASE r # R
    <3>1. asked'[r][lm] = asked[r][lm]
      BY <1>3, <1>7, <2>3
    <3>2. asked[r][lm] > 0 \/ \E i \in cronLoop.todo : Scheduled[i] = r
      BY <1>1, <1>10, <2>1 DEF Events!EveryKnown, Events!FirstMinute
    <3>3. \A i \in cronLoop.todo : Scheduled[i] = r => i \in todo
      BY <2>3
    <3>4. QED
      BY <3>1, <3>2, <3>3
  <2>4. QED
    BY <2>2, <2>3
<1>13. Events!EveryKnown'
  <2> HIDE DEF R, lm, todo, n
  <2>1. QED
    BY <1>1, <1>3, <1>6, <1>9, <1>12
    DEF Events!EveryKnown, Events!FirstMinute, Events!Minutes, Events!ScheduledSet
<1>14. Events!AskedEveryMinute'
  <2>1. ASSUME NEW r \in Events!ScheduledSet, NEW mn \in Cron[r], 1 <= mn, Events!Done(mn)', mn \notin passed'
        PROVE  asked'[r][mn] > 0
    <3>1. mn \in Nat /\ mn \notin passed
      BY <1>6, <2>1, TriggersAssumption
    <3>2. CASE mn < lm
      <4>1. asked[r][mn] > 0
        BY <1>10, <2>1, <3>1, <3>2 DEF Events!AskedEveryMinute, Events!Done, Events!FirstMinute
      <4>2. mn \in Events!Minutes
        <5>1. lm \in 0..(MaxTicks \div PerMinute + 1) /\ MaxTicks \div PerMinute \in Nat
          BY <1>3, MinutesGo, TriggersAssumption DEF Events!Minutes
        <5>2. QED
          BY <3>1, <3>2, <5>1 DEF Events!Minutes
      <4>3. QED
        BY <1>3, <1>7, <3>1, <3>2, <4>1, <4>2
    <3>3. CASE mn = lm /\ todo = {}
      BY <1>12, <2>1, <3>1, <3>3
    <3>4. QED
      <4> HIDE DEF R, lm, todo, n
      <4>1. QED
        BY <1>6, <2>1, <3>2, <3>3 DEF Events!Done
  <2>2. QED
    BY <2>1 DEF Events!AskedEveryMinute, Events!FirstMinute, Events!ScheduledSet
<1>15. Events!AskedOnce'
  <2>1. ASSUME NEW r \in Events!ScheduledSet, NEW mn \in Events!Minutes, asked'[r][mn] > 1, mn \notin again
        PROVE  FALSE
    <3>1. CASE r = R /\ mn = lm
      <4>1. asked[R][lm] \in Nat /\ asked[R][lm] > 0
        <5>1. asked[R][lm] \in Nat
          BY <1>3, <1>4, <1>7
        <5> HIDE DEF R, lm
        <5>2. QED
          BY <1>7, <2>1, <3>1, <5>1
      <4>2. Events!Over(R, lm)
        BY <1>3, <1>4, <1>10, <2>1, <3>1, <4>1 DEF Events!OnceKnown
      <4>3. \A i \in cronLoop.todo : Scheduled[i] # R
        BY <1>1, <1>3, <4>2 DEF Events!Over
      <4>4. QED
        BY <1>4, <4>3
    <3>2. CASE ~(r = R /\ mn = lm)
      BY <1>7, <1>10, <2>1, <3>2 DEF Events!AskedOnce
    <3>3. QED
      BY <3>1, <3>2
  <2>2. QED
    BY <1>1, <2>1 DEF Events!AskedOnce, Events!ScheduledSet, Events!Minutes
<1>16. QED
  BY <1>8, <1>11, <1>13, <1>14, <1>15 DEF Events!ScheduleInv

\* The loop falls asleep with what is left.
LEMMA SleepsTill ==
    ASSUME NEW M, NEW T, NEW c \in [step : {"sleep", "pass"}, wake : Nat, minute : M, todo : T], NEW w \in Nat
    PROVE  LET s == [c EXCEPT !.step = "sleep", !.wake = w]
           IN  /\ s \in [step : {"sleep", "pass"}, wake : Nat, minute : M, todo : T]
               /\ s.step = "sleep" /\ s.wake = w /\ s.minute = c.minute /\ s.todo = c.todo
  OBVIOUS

\* A publish raises: the pass will be repeated.
LEMMA ScheduleLoopKeeps ==
    ASSUME Events!ScheduleInv, Events!schedule_loop
    PROVE  Events!ScheduleInv'
<1> DEFINE lm == cronLoop.minute
<1>1. /\ cronLoop.step = "pass"
      /\ cronLoop' = [cronLoop EXCEPT !.step = "sleep", !.wake = mono + 1]
      /\ again' = again \cup {lm} /\ UNCHANGED <<mono, offset, loaded, asked, passed>>
  BY DEF Events!schedule_loop
<1>2. Events!ScheduleTypeOK /\ Events!OnceKnown /\ Events!AskedOnce /\ Events!AskedEveryMinute
  BY DEF Events!ScheduleInv
<1>3. /\ cronLoop \in [step : {"sleep", "pass"}, wake : Nat, minute : Events!Minutes, todo : SUBSET DOMAIN Scheduled]
      /\ mono \in Nat /\ cronLoop.todo # {} /\ Events!Minute' = Events!Minute
  BY <1>1, <1>2, ClockIs DEF Events!ScheduleTypeOK, Events!Minute, Events!Wall
<1>4. /\ cronLoop' \in [step : {"sleep", "pass"}, wake : Nat, minute : Events!Minutes, todo : SUBSET DOMAIN Scheduled]
      /\ cronLoop'.step = "sleep" /\ cronLoop'.wake = mono + 1 /\ cronLoop'.minute = lm /\ cronLoop'.todo = cronLoop.todo
  <2>1. mono + 1 \in Nat
    BY <1>3
  <2>2. QED
    BY <1>1, <1>3, <2>1, SleepsTill
<1>5. Events!ScheduleTypeOK'
  BY <1>1, <1>2, <1>3, <1>4 DEF Events!ScheduleTypeOK, Events!Minutes, Events!ScheduledSet
<1>6. Events!OnceKnown'
  BY <1>1, <1>2, <1>3, <1>4 DEF Events!OnceKnown, Events!Over, Events!Minutes, Events!ScheduledSet
<1>7. Events!EveryKnown'
  BY <1>3, <1>4 DEF Events!EveryKnown
<1>8. Events!AskedOnce'
  BY <1>1, <1>2 DEF Events!AskedOnce, Events!Minutes, Events!ScheduledSet
<1>9. Events!AskedEveryMinute'
  BY <1>1, <1>2, <1>3, <1>4 DEF Events!AskedEveryMinute, Events!Done, Events!ScheduledSet
<1>10. QED
  BY <1>5, <1>6, <1>7, <1>8, <1>9 DEF Events!ScheduleInv

\* The worker starts again.
LEMMA ScheduleRestartsKeeps ==
    ASSUME Events!ScheduleInv, Events!ScheduleRestarts
    PROVE  Events!ScheduleInv'
<1> DEFINE lm == cronLoop.minute
<1>1. PICK pause \in {0, 1, PerMinute + 1} :
        /\ cronLoop' = [cronLoop EXCEPT !.step = "sleep", !.wake = mono + pause]
        /\ passed' = passed \cup ((lm + 1)..((Events!Wall + pause) \div PerMinute - 1))
  BY DEF Events!ScheduleRestarts
<1>2. /\ again' = again \cup {Events!Minute, lm} /\ loaded' = {} /\ UNCHANGED <<mono, offset, asked>>
  BY DEF Events!ScheduleRestarts
<1>3. Events!ScheduleTypeOK /\ Events!OnceKnown /\ Events!AskedOnce /\ Events!AskedEveryMinute
  BY DEF Events!ScheduleInv
<1>4. /\ cronLoop \in [step : {"sleep", "pass"}, wake : Nat, minute : Events!Minutes, todo : SUBSET DOMAIN Scheduled]
      /\ mono \in Nat /\ pause \in Nat /\ Events!Minute' = Events!Minute /\ offset \in Int
      /\ lm \in Nat /\ Events!Wall \in Nat /\ Events!Wall = mono + offset /\ PerMinute \in Nat /\ PerMinute > 0
  BY <1>2, <1>3, ClockIs, TriggersAssumption DEF Events!ScheduleTypeOK, Events!Minute, Events!Wall
<1>5. /\ cronLoop' \in [step : {"sleep", "pass"}, wake : Nat, minute : Events!Minutes, todo : SUBSET DOMAIN Scheduled]
      /\ cronLoop'.step = "sleep" /\ cronLoop'.wake = mono + pause /\ cronLoop'.minute = lm
      /\ cronLoop'.todo = cronLoop.todo
  <2>1. mono + pause \in Nat
    BY <1>4
  <2>2. QED
    BY <1>1, <1>4, <2>1, SleepsTill
<1>6. Events!ScheduleTypeOK'
  <2>1. mono <= mono + pause
    BY <1>4
  <2>2. QED
  BY <2>1, <1>2, <1>3, <1>4, <1>5 DEF Events!ScheduleTypeOK, Events!Minutes, Events!ScheduledSet
<1>7. Events!OnceKnown'
  <2>1. \A r \in Events!ScheduledSet, mn \in Events!Minutes : asked[r][mn] > 0 /\ mn \notin again' => mn < Events!Minute
    <3>1. ASSUME NEW r \in Events!ScheduledSet, NEW mn \in Events!Minutes, asked[r][mn] > 0, mn \notin again'
          PROVE  mn < Events!Minute
      <4>1. Events!Over(r, mn) /\ mn # Events!Minute /\ mn # lm
        BY <1>2, <1>3, <3>1 DEF Events!OnceKnown
      <4>2. QED
        BY <4>1 DEF Events!Over
    <3>2. QED
      BY <3>1
  <2>2. QED
    BY <1>2, <1>4, <1>5, <2>1 DEF Events!OnceKnown, Events!Over, Events!Minutes, Events!ScheduledSet
<1>8. Events!EveryKnown'
  <2>1. Events!WakesIn' = (Events!Wall + pause) \div PerMinute
    <3>1. cronLoop'.wake + offset' = Events!Wall + pause
      BY <1>2, <1>4, <1>5
    <3>2. QED
      BY <3>1 DEF Events!WakesIn
  <2>2. (Events!Wall + pause) \div PerMinute \in Nat
    BY <1>4, MinutesGo
  <2>3. \A mn \in Nat : lm < mn /\ mn < Events!WakesIn' => mn \in passed'
    BY <1>1, <1>4, <2>1, <2>2
  <2>4. Events!Minutes \subseteq Nat
    BY DEF Events!Minutes
  <2>5. QED
    BY <1>5, <2>3, <2>4 DEF Events!EveryKnown, Events!Minutes
<1>9. Events!AskedOnce'
  BY <1>2, <1>3 DEF Events!AskedOnce, Events!Minutes, Events!ScheduledSet
<1>10. Events!AskedEveryMinute'
  <2>1. \A mn : Events!Done(mn)' /\ mn \notin passed' => mn \notin passed /\ (mn < lm \/ (mn = lm /\ cronLoop.todo = {}))
    BY <1>1, <1>5 DEF Events!Done
  <2>2. cronLoop.todo = {} => cronLoop.step = "sleep"
    BY <1>3, <1>4 DEF Events!ScheduleTypeOK
  <2>3. QED
    BY <1>2, <1>3, <2>1, <2>2 DEF Events!AskedEveryMinute, Events!Done, Events!ScheduledSet
<1>11. QED
  BY <1>6, <1>7, <1>8, <1>9, <1>10 DEF Events!ScheduleInv

\* The rules are loaded.
LEMMA LoadKeeps ==
    ASSUME Events!ScheduleInv, Events!load_rule_cache
    PROVE  Events!ScheduleInv'
  BY DEF Events!load_rule_cache, Events!ScheduleInv, Events!ScheduleTypeOK, Events!OnceKnown, Events!Over,
         Events!EveryKnown, Events!AskedOnce, Events!AskedEveryMinute, Events!Done, Events!Minutes,
         Events!ScheduledSet, Events!Minute, Events!Wall, Events!WakesIn

\* Time passes.
LEMMA TimePassesKeeps ==
    ASSUME Events!ScheduleInv, Events!TimePasses
    PROVE  Events!ScheduleInv'
<1>1. /\ mono < MaxTicks /\ mono' = mono + 1
      /\ cronLoop.step = "pass" \/ (cronLoop.step = "sleep" /\ mono < cronLoop.wake)
      /\ UNCHANGED <<offset, cronLoop, loaded, asked, again, passed>>
  BY DEF Events!TimePasses
<1>2. /\ Events!ScheduleTypeOK /\ Events!OnceKnown /\ Events!EveryKnown /\ Events!AskedOnce
      /\ Events!AskedEveryMinute
  BY DEF Events!ScheduleInv
<1>3. /\ mono \in Nat /\ MaxTicks \in Nat /\ PerMinute \in Nat /\ PerMinute > 0 /\ mono >= PerMinute
      /\ Events!Wall \in Nat /\ offset \in Int /\ cronLoop.wake \in Nat /\ Events!Wall = mono + offset
      /\ cronLoop.minute \in Nat /\ Events!Minute \in Nat
  BY <1>2, ClockIs, TriggersAssumption DEF Events!Wall
<1>4. Events!ScheduleTypeOK'
  <2>1. cronLoop'.step = "sleep" => mono' <= cronLoop'.wake
    BY <1>1, <1>3
  <2>2. mono' \in PerMinute..MaxTicks
    BY <1>1, <1>3
  <2>3. QED
    BY <1>1, <1>2, <2>1, <2>2 DEF Events!ScheduleTypeOK, Events!Minutes, Events!ScheduledSet
<1>5. Events!Minute <= Events!Minute' /\ Events!Minute' \in Nat
  <2>1. Events!Wall' = Events!Wall + 1
    BY <1>1, <1>3 DEF Events!Wall
  <2>2. Events!Wall' \in Nat /\ Events!Wall <= Events!Wall'
    BY <1>3, <2>1
  <2>3. QED
    BY <1>3, <2>2, MinutesGo DEF Events!Minute
<1>6. cronLoop.step = "sleep" => Events!Minute' <= Events!WakesIn
  <2>1. ASSUME cronLoop.step = "sleep"
        PROVE  mono' + offset' <= cronLoop.wake + offset /\ cronLoop.wake + offset \in Nat /\ mono' + offset' \in Nat
    BY <1>1, <1>3, <2>1
  <2>2. QED
    BY <1>3, <2>1, MinutesGo DEF Events!Minute, Events!Wall, Events!WakesIn
<1>7. Events!OnceKnown'
  <2>1. ASSUME NEW r \in Events!ScheduledSet, NEW mn \in Events!Minutes, Events!Over(r, mn)
        PROVE  Events!Over(r, mn)'
    <3>1. mn \in Nat
      BY DEF Events!Minutes
    <3>2. CASE cronLoop.step = "sleep"
      <4>1. mn < Events!Minute \/ (mn = Events!Minute /\ mn < Events!WakesIn)
        BY <2>1, <3>2 DEF Events!Over
      <4>2. mn < Events!Minute' \/ (mn = Events!Minute' /\ mn < Events!WakesIn)
        BY <1>3, <1>5, <3>1, <4>1
      <4>3. Events!WakesIn' = Events!WakesIn /\ cronLoop'.step = "sleep"
        BY <1>1, <3>2 DEF Events!WakesIn
      <4>4. QED
        BY <4>2, <4>3 DEF Events!Over
    <3>3. CASE cronLoop.step # "sleep"
      BY <1>1, <1>3, <1>5, <2>1, <3>1, <3>3 DEF Events!Over
    <3>4. QED
      BY <3>2, <3>3
  <2>2. QED
    BY <1>1, <1>2, <1>3, <1>5, <2>1 DEF Events!OnceKnown, Events!Minutes, Events!ScheduledSet
<1>8. Events!EveryKnown'
  BY <1>1, <1>2 DEF Events!EveryKnown, Events!WakesIn, Events!Minutes, Events!ScheduledSet
<1>9. Events!AskedOnce' /\ Events!AskedEveryMinute'
  BY <1>1, <1>2 DEF Events!AskedOnce, Events!AskedEveryMinute, Events!Done, Events!Minutes, Events!ScheduledSet
<1>10. QED
  BY <1>4, <1>7, <1>8, <1>9 DEF Events!ScheduleInv

\* Setting the clock moves it by less than a minute.
LEMMA ClockMoves ==
    ASSUME NEW w \in Nat, NEW o \in {-1, 0, 1}, NEW n \in {-1, 0, 1}, NEW p \in Nat, p >= 2, w >= p
    PROVE  w + o \in Nat /\ w + n \in Nat /\ w + o <= (w + n) + p
  OBVIOUS

\* The wall clock is set.
LEMMA ClockIsSetKeeps ==
    ASSUME Events!ScheduleInv, Events!ClockIsSet
    PROVE  Events!ScheduleInv'
<1>1. /\ offset' \in {-1, 1} /\ again' = again \cup {Events!Minute, (mono + offset') \div PerMinute}
      /\ passed' = IF cronLoop.step = "pass" THEN passed
                   ELSE passed \cup {mn \in Events!WakesIn..(Events!WakesIn' - 1) : mn > cronLoop.minute}
      /\ UNCHANGED <<mono, cronLoop, loaded, asked>>
  BY DEF Events!ClockIsSet
<1>2. /\ Events!ScheduleTypeOK /\ Events!OnceKnown /\ Events!EveryKnown /\ Events!AskedOnce
      /\ Events!AskedEveryMinute
  BY DEF Events!ScheduleInv
<1>3. /\ mono \in Nat /\ mono <= MaxTicks /\ MaxTicks \in Nat /\ PerMinute \in Nat /\ PerMinute >= 2
      /\ mono >= PerMinute /\ offset \in {-1, 0, 1} /\ cronLoop.wake \in Nat /\ cronLoop.minute \in Nat
      /\ Events!Wall \in Nat /\ Events!Minute \in Nat
      /\ cronLoop.step = "sleep" => mono <= cronLoop.wake
  BY <1>2, ClockIs, TriggersAssumption DEF Events!ScheduleTypeOK
<1>4. Events!ScheduleTypeOK'
  BY <1>1, <1>2 DEF Events!ScheduleTypeOK, Events!Minutes, Events!ScheduledSet
<1>5. Events!Minute' \in Nat /\ Events!Minute <= Events!Minute' + 1 /\ Events!Minute' \in again' /\ Events!Minute \in again'
  <2>1. /\ mono + offset \in Nat /\ mono + offset' \in Nat
        /\ mono + offset <= (mono + offset') + PerMinute
    <3>1. offset' \in {-1, 0, 1}
      BY <1>1
    <3>2. QED
      BY <1>3, <3>1, ClockMoves
  <2>2. /\ (mono + offset') \div PerMinute \in Nat
        /\ (mono + offset) \div PerMinute <= ((mono + offset') \div PerMinute) + 1
    BY <1>3, <2>1, MinutesGo
  <2>3. Events!Minute = (mono + offset) \div PerMinute /\ Events!Minute' = (mono + offset') \div PerMinute
    BY <1>1 DEF Events!Minute, Events!Wall
  <2>4. QED
    BY <1>1, <2>2, <2>3
<1>6. \A mn \in Nat : mn \notin again' /\ mn <= Events!Minute => mn < Events!Minute'
  <2>1. PICK now \in Nat, then \in Nat : now = Events!Minute /\ then = Events!Minute'
    BY <1>3, <1>5
  <2>2. now <= then + 1 /\ now \in again' /\ then \in again'
    BY <1>5, <2>1
  <2>3. \A mn \in Nat : mn \notin again' /\ mn <= now => mn < then
    BY <2>2
  <2>4. QED
    BY <2>1, <2>3
<1>7. Events!OnceKnown'
  <2>1. ASSUME NEW r \in Events!ScheduledSet, NEW mn \in Events!Minutes, mn \notin again', Events!Over(r, mn)
        PROVE  Events!Over(r, mn)'
    <3>1. mn \in Nat /\ mn <= Events!Minute
      BY <1>3, <2>1 DEF Events!Over, Events!Minutes
    <3>2. mn < Events!Minute'
      BY <1>6, <2>1, <3>1
    <3>3. QED
      BY <1>1, <1>3, <1>5, <2>1, <3>1, <3>2 DEF Events!Over
  <2>2. cronLoop'.step = "pass" /\ cronLoop'.minute \notin again' => cronLoop'.minute <= Events!Minute'
    BY <1>1, <1>2, <1>3, <1>5, <1>6 DEF Events!OnceKnown
  <2>3. QED
    BY <1>1, <1>2, <2>1, <2>2 DEF Events!OnceKnown, Events!Minutes, Events!ScheduledSet
<1>8. Events!EveryKnown'
  <2>1. CASE cronLoop.step = "pass"
    BY <1>1, <1>2, <2>1 DEF Events!EveryKnown, Events!Minutes, Events!ScheduledSet
  <2>2. CASE cronLoop.step = "sleep"
    <3>1. Events!WakesIn \in Nat /\ Events!WakesIn' \in Nat
      <4>1. cronLoop.wake + offset \in Nat /\ cronLoop.wake + offset' \in Nat
        BY <1>1, <1>3, <2>2
      <4>2. QED
        BY <1>1, <1>3, <4>1, MinutesGo DEF Events!WakesIn
    <3>2. \A mn \in Nat : mn >= Events!WakesIn /\ cronLoop.minute < mn /\ mn < Events!WakesIn' => mn \in passed'
      <4>1. \A mn \in Nat : mn >= Events!WakesIn /\ mn < Events!WakesIn' => mn \in Events!WakesIn..(Events!WakesIn' - 1)
        <5>1. PICK a \in Nat, b \in Nat : a = Events!WakesIn /\ b = Events!WakesIn'
          BY <3>1
        <5>2. \A mn \in Nat : mn >= a /\ mn < b => mn \in a..(b - 1)
          OBVIOUS
        <5>3. QED
          BY <5>1, <5>2
      <4>2. QED
        BY <1>1, <1>3, <2>2, <4>1
    <3>3. \A mn \in Events!Minutes : 1 <= mn /\ cronLoop.minute < mn /\ mn < Events!WakesIn' /\ cronLoop.todo = {} => mn \in passed'
      <4>1. ASSUME NEW mn \in Events!Minutes, 1 <= mn, cronLoop.minute < mn, mn < Events!WakesIn', cronLoop.todo = {}
            PROVE  mn \in passed'
        <5>1. mn \in Nat
          BY DEF Events!Minutes
        <5>2. CASE mn >= Events!WakesIn
          BY <3>2, <4>1, <5>1, <5>2
        <5>3. CASE mn < Events!WakesIn
          BY <1>1, <1>2, <2>2, <4>1, <5>3 DEF Events!EveryKnown, Events!FirstMinute
        <5>4. QED
          BY <3>1, <5>1, <5>2, <5>3
      <4>2. QED
        BY <4>1
    <3>4. QED
      BY <1>1, <2>2, <3>3 DEF Events!EveryKnown, Events!FirstMinute, Events!Minutes
  <2>3. QED
    BY <1>2, <2>1, <2>2, ClockIs
<1>9. Events!AskedOnce' /\ Events!AskedEveryMinute'
  BY <1>1, <1>2 DEF Events!AskedOnce, Events!AskedEveryMinute, Events!Done, Events!Minutes, Events!ScheduledSet
<1>10. QED
  BY <1>4, <1>7, <1>8, <1>9 DEF Events!ScheduleInv

\* The loop starts in the first minute, with no rules yet.
LEMMA ScheduleStarts ==
    ASSUME Events!ScheduleInit
    PROVE  Events!ScheduleInv
<1>1. /\ mono \in PerMinute..(2 * PerMinute - 1) /\ offset = 0 /\ loaded = {}
      /\ cronLoop = [step |-> "sleep", wake |-> mono, minute |-> 0, todo |-> {}]
      /\ asked = [r \in Events!ScheduledSet |-> [mn \in Events!Minutes |-> 0]]
  BY DEF Events!ScheduleInit
<1>2. /\ PerMinute \in Nat /\ PerMinute >= 2 /\ MaxTicks \in Nat /\ MaxTicks >= 2 * PerMinute
      /\ mono \in Nat /\ mono + offset = mono /\ mono \in PerMinute..MaxTicks
  BY <1>1, TriggersAssumption
<1>3. Events!ScheduleTypeOK
  <2>1. 0 \in Events!Minutes
    BY <1>2, MinutesGo DEF Events!Minutes
  <2>2. QED
    BY <1>1, <1>2, <2>1 DEF Events!ScheduleTypeOK
<1>4. Events!WakesIn = 1
  <2>1. 2 * PerMinute - 1 = PerMinute + (PerMinute - 1) /\ PerMinute \div PerMinute = 1
    BY <1>2
  <2>2. \A w \in PerMinute..(2 * PerMinute - 1) : w \div PerMinute = 1
    BY <1>2
  <2>3. QED
    BY <1>1, <1>2, <2>2 DEF Events!WakesIn
<1>5. Events!OnceKnown /\ Events!AskedOnce
  BY <1>1 DEF Events!OnceKnown, Events!AskedOnce
<1>6. Events!EveryKnown
  BY <1>1, <1>4 DEF Events!EveryKnown, Events!FirstMinute, Events!Minutes
<1>7. Events!AskedEveryMinute
  <2>1. ASSUME NEW r \in Events!ScheduledSet, NEW mn \in Cron[r], 1 <= mn, Events!Done(mn)
        PROVE  FALSE
    <3>1. mn \in Nat
      BY TriggersAssumption
    <3>2. QED
      BY <1>1, <2>1, <3>1 DEF Events!Done
  <2>2. QED
    BY <2>1 DEF Events!AskedEveryMinute, Events!FirstMinute
<1>8. QED
  BY <1>3, <1>5, <1>6, <1>7 DEF Events!ScheduleInv

\* A step of the schedule, or of anything else.
LEMMA ScheduleStepKeeps ==
    ASSUME Events!ScheduleInv, Events!ScheduleNext \/ UNCHANGED cronVars
    PROVE  Events!ScheduleInv'
<1>1. CASE UNCHANGED cronVars
  BY <1>1
  DEF cronVars, Events!ScheduleInv, Events!ScheduleTypeOK, Events!OnceKnown, Events!Over,
         Events!EveryKnown, Events!AskedOnce, Events!AskedEveryMinute, Events!Done, Events!Minutes,
         Events!ScheduledSet, Events!Minute, Events!Wall, Events!WakesIn
<1>2. CASE Events!ScheduleNext
  BY <1>2, TickKeeps, PublishTickKeeps, ScheduleLoopKeeps, ScheduleRestartsKeeps, LoadKeeps, TimePassesKeeps,
     ClockIsSetKeeps DEF Events!ScheduleNext
<1>3. QED
  BY <1>1, <1>2

-----------------------------------------------------------------------------
(* Device status. *)

\* The last element outlives the ones before it.
LEMMA TailLast ==
    ASSUME NEW S, NEW s \in Seq(S), s # << >>
    PROVE  /\ Tail(s) # << >> => Tail(s)[Len(Tail(s))] = s[Len(s)]
           /\ Tail(s) = << >> => Head(s) = s[Len(s)]
<1>1. /\ Tail(s) \in Seq(S) /\ Head(s) = s[1] /\ Len(s) \in Nat \ {0} /\ Len(Tail(s)) = Len(s) - 1
      /\ \A i \in 1..(Len(s) - 1) : Tail(s)[i] = s[i + 1]
  BY TailElements
<1>2. Tail(s) # << >> => Len(Tail(s)) \in Nat \ {0}
  <2>1. \A t \in Seq(S) : t # << >> => Len(t) \in Nat \ {0}
    BY TailElements
  <2>2. QED
    BY <1>1, <2>1
<1>3. Tail(s) = << >> => Len(Tail(s)) = 0
  <2>1. Len(<< >>) = 0
    OBVIOUS
  <2>2. QED
    BY <2>1, Zenon
<1>4. PICK n \in Nat \ {0} : n = Len(s)
  BY <1>1
<1>5. ASSUME n - 1 # 0
      PROVE  n - 1 \in 1..(n - 1) /\ (n - 1) + 1 = n
  BY <1>5
<1>6. QED
  BY <1>1, <1>2, <1>3, <1>4, <1>5

\* What is appended to a sequence comes last, and it is not empty then.
LEMMA ConcatElements ==
    ASSUME NEW S, NEW s \in Seq(S), NEW e \in Seq(S), e # <<>>
    PROVE  /\ s \o e \in Seq(S) /\ s \o e # <<>>
           /\ Len(s) \in Nat /\ Len(e) \in Nat \ {0} /\ Len(s \o e) = Len(s) + Len(e)
           /\ DOMAIN s = 1..Len(s) /\ DOMAIN e = 1..Len(e) /\ DOMAIN (s \o e) = 1..(Len(s) + Len(e))
           /\ \A i \in 1..Len(s) : (s \o e)[i] = s[i]
           /\ \A i \in 1..Len(e) : (s \o e)[Len(s) + i] = e[i]
           /\ (s \o e)[Len(s \o e)] = e[Len(e)]
  OBVIOUS

\* The broker keeps the last report and forwards all of them.
LEMMA BrokerLeaves ==
    ASSUME Events!StatusKnown, NEW msgs \in Seq(BOOLEAN), msgs # <<>>, Events!Broker(msgs)
    PROVE  /\ brokerStatus' = msgs[Len(msgs)] /\ brokerStatus' \in BOOLEAN
           /\ statusInbox' \in Seq(BOOLEAN) /\ (~linked => statusInbox' = <<>>)
           /\ linked => statusInbox' # <<>> /\ statusInbox'[Len(statusInbox')] = brokerStatus'
<1>1. statusInbox \in Seq(BOOLEAN) /\ (~linked => statusInbox = <<>>)
  BY DEF Events!StatusKnown, Events!StatusTypeOK, Events!Jobs, Events!Transitions
<1>2. brokerStatus' = msgs[Len(msgs)] /\ statusInbox' = IF linked THEN statusInbox \o msgs ELSE statusInbox
  BY DEF Events!Broker
<1>3. msgs[Len(msgs)] \in BOOLEAN
  BY ConcatElements
<1>4. CASE linked
  <2>1. statusInbox' = statusInbox \o msgs
    BY <1>2, <1>4
  <2>2. /\ statusInbox \o msgs \in Seq(BOOLEAN) /\ statusInbox \o msgs # <<>>
        /\ (statusInbox \o msgs)[Len(statusInbox \o msgs)] = msgs[Len(msgs)]
    BY <1>1, ConcatElements
  <2>3. QED
    BY <1>2, <1>3, <1>4, <2>1, <2>2
<1>5. CASE ~linked
  BY <1>1, <1>2, <1>3, <1>5
<1>6. QED
  BY <1>4, <1>5

\* The reports of a device at once: a going before a return, if both.
LEMMA ReportsAre ==
    ASSUME NEW msgs \in {<<TRUE>>, <<FALSE>>, <<FALSE, TRUE>>}
    PROVE  /\ Len(msgs) \in Nat \ {0} /\ \A i \in 1..Len(msgs) : msgs[i] \in BOOLEAN
           /\ msgs # <<FALSE>> => msgs[Len(msgs)] = TRUE
           /\ msgs = <<TRUE>> => \A i \in 1..Len(msgs) : msgs[i] = TRUE
           /\ msgs = <<FALSE>> => \A i \in 1..Len(msgs) : msgs[i] = FALSE
           /\ \A h, i \in 1..Len(msgs) : h < i => msgs[h] = FALSE
<1>0. /\ Len(<<TRUE>>) = 1 /\ Len(<<FALSE>>) = 1 /\ Len(<<FALSE, TRUE>>) = 2
      /\ <<TRUE>>[1] = TRUE /\ <<FALSE>>[1] = FALSE /\ <<FALSE, TRUE>>[1] = FALSE /\ <<FALSE, TRUE>>[2] = TRUE
  OBVIOUS
<1>1. <<TRUE>> # <<FALSE>> /\ <<FALSE, TRUE>> # <<FALSE>> /\ <<FALSE, TRUE>> # <<TRUE>>
  <2>1. <<TRUE>> # <<FALSE>>
    <3>1. <<TRUE>> = <<FALSE>> => <<TRUE>>[1] = <<FALSE>>[1]
      BY Zenon
    <3>2. QED
      BY <1>0, <3>1, Zenon
  <2>2. \A q : Len(q) = 1 => <<FALSE, TRUE>> # q
    BY <1>0
  <2>3. QED
    BY <1>0, <2>1, <2>2
<1>2. (\A i \in 1..1 : i = 1) /\ (\A i \in 1..2 : i = 1 \/ i = 2) /\ (\A h, i \in 1..2 : h < i => h = 1)
  OBVIOUS
<1>3. CASE msgs = <<TRUE>>
  <2>1. Len(msgs) = 1 /\ msgs[1] = TRUE /\ msgs # <<FALSE>>
    BY <1>0, <1>1, <1>3, Zenon
  <2>2. \A i \in 1..Len(msgs) : i = 1 /\ msgs[i] = TRUE
    BY <1>2, <2>1
  <2>3. \A h, i \in 1..Len(msgs) : ~(h < i)
    BY <2>1
  <2>4. Len(msgs) \in Nat \ {0} /\ msgs[Len(msgs)] = TRUE
    BY <2>1
  <2>5. \A i \in 1..Len(msgs) : msgs[i] \in BOOLEAN
    BY <2>2
  <2>6. QED
    BY <2>1, <2>2, <2>3, <2>4, <2>5, Zenon
<1>4. CASE msgs = <<FALSE>>
  <2>1. Len(msgs) = 1 /\ msgs[1] = FALSE /\ msgs # <<TRUE>>
    BY <1>0, <1>1, <1>4, Zenon
  <2>2. \A i \in 1..Len(msgs) : i = 1 /\ msgs[i] = FALSE
    BY <1>2, <2>1
  <2>3. \A h, i \in 1..Len(msgs) : ~(h < i)
    BY <2>1
  <2>4. Len(msgs) \in Nat \ {0}
    BY <2>1
  <2>5. \A i \in 1..Len(msgs) : msgs[i] \in BOOLEAN
    BY <2>2
  <2>6. QED
    BY <1>4, <2>1, <2>2, <2>3, <2>4, <2>5, Zenon
<1>5. CASE msgs = <<FALSE, TRUE>>
  <2>1. Len(msgs) = 2 /\ msgs[1] = FALSE /\ msgs[2] = TRUE /\ msgs # <<TRUE>> /\ msgs # <<FALSE>>
    BY <1>0, <1>1, <1>5, Zenon
  <2>2. \A i \in 1..Len(msgs) : msgs[i] \in BOOLEAN
    BY <1>2, <2>1
  <2>3. \A h, i \in 1..Len(msgs) : h < i => msgs[h] = FALSE
    BY <1>2, <2>1
  <2>4. Len(msgs) \in Nat \ {0} /\ msgs[Len(msgs)] = TRUE
    BY <2>1
  <2>5. QED
    BY <2>1, <2>2, <2>3, <2>4, Zenon
<1>6. QED
  BY <1>3, <1>4, <1>5

\* A device reports in one of three ways.
LEMMA DeviceReportsIs ==
    ASSUME Events!DeviceReports, Events!StatusKnown
    PROVE  \E msgs \in {<<TRUE>>, <<FALSE>>, <<FALSE, TRUE>>} :
             /\ Events!Broker(msgs) /\ msgs \in Seq(BOOLEAN) /\ msgs # <<>>
             /\ drops' = IF msgs = <<TRUE>> THEN drops ELSE drops + 1
             /\ msgs # <<TRUE>> => brokerStatus
             /\ UNCHANGED <<disabled, transition, linked, onlineTrack, job, statusRow, shownOnline, ruleRuns,
                            offlineAlerts, owed, edited>>
<1>1. <<TRUE>> # <<FALSE>> /\ <<TRUE>> # <<FALSE, TRUE>>
  <2>1. <<TRUE>>[1] = TRUE /\ <<FALSE>>[1] = FALSE /\ <<FALSE, TRUE>>[1] = FALSE
    OBVIOUS
  <2>2. QED
    BY <2>1
<1>2. CASE Events!Broker(<<TRUE>>) /\ UNCHANGED drops
  BY <1>2 DEF Events!DeviceReports
<1>3. CASE brokerStatus /\ Events!Broker(<<FALSE>>) /\ drops' = drops + 1
  BY <1>1, <1>3 DEF Events!DeviceReports
<1>4. CASE brokerStatus /\ Events!Broker(<<FALSE, TRUE>>) /\ drops' = drops + 1
  BY <1>1, <1>4 DEF Events!DeviceReports
<1>5. QED
  BY <1>2, <1>3, <1>4 DEF Events!DeviceReports

\* Reports keep what is known of the reports on their way.
LEMMA DeviceReportsKnown ==
    ASSUME Events!StatusKnown, Events!DeviceReports
    PROVE  Events!StatusKnown'
<1>1. PICK msgs \in {<<TRUE>>, <<FALSE>>, <<FALSE, TRUE>>} :
        /\ Events!Broker(msgs) /\ msgs \in Seq(BOOLEAN) /\ msgs # <<>>
        /\ UNCHANGED <<disabled, transition, linked, onlineTrack, job, statusRow, shownOnline, owed, edited>>
  BY DeviceReportsIs
<1>2. /\ brokerStatus' \in BOOLEAN
      /\ statusInbox' \in Seq(BOOLEAN) /\ (~linked => statusInbox' = <<>>)
      /\ linked => statusInbox' # <<>> /\ statusInbox'[Len(statusInbox')] = brokerStatus'
  BY <1>1, BrokerLeaves
<1>3. QED
  BY <1>1, <1>2 DEF Events!StatusKnown, Events!StatusTypeOK, Events!Jobs, Events!Transitions, Events!WatcherSet, Events!NoJob

\* So do a broken connection, its return and the end of the worker.
LEMMA LinkKnown ==
    ASSUME Events!StatusKnown, Events!LinkBreaks \/ Events!mqtt_ingest_loop \/ Events!WorkerEnds
    PROVE  Events!StatusKnown'
<1>0. <<>> \in Seq(BOOLEAN)
  OBVIOUS
<1>1. CASE Events!LinkBreaks
  BY <1>0, <1>1 DEF Events!LinkBreaks, Events!StatusKnown, Events!StatusTypeOK, Events!Jobs, Events!Transitions, Events!WatcherSet, Events!NoJob
<1>2. CASE Events!mqtt_ingest_loop
  <2>1. /\ <<brokerStatus>> \in Seq(BOOLEAN) /\ <<brokerStatus>> # <<>> /\ Len(<<brokerStatus>>) = 1
        /\ <<brokerStatus>>[1] = brokerStatus
    BY DEF Events!StatusKnown, Events!StatusTypeOK, Events!Jobs, Events!Transitions
  <2>2. QED
    BY <1>2, <2>1 DEF Events!mqtt_ingest_loop, Events!StatusKnown, Events!StatusTypeOK, Events!Jobs, Events!Transitions, Events!WatcherSet, Events!NoJob
<1>3. CASE Events!WorkerEnds
  BY <1>0, <1>3 DEF Events!WorkerEnds, Events!StatusKnown, Events!StatusTypeOK, Events!Jobs, Events!Transitions, Events!WatcherSet, Events!NoJob
<1>4. QED
  BY <1>1, <1>2, <1>3

\* A rule edited while a flip is handled is one of those edited.
LEMMA WatcherEditedKnown ==
    ASSUME Events!StatusKnown, NEW w \in Events!WatcherSet, Events!WatcherEdited(w)
    PROVE  Events!StatusKnown'
<1>1. PICK t \in {{}, {TRUE}, {FALSE}} : transition' = [transition EXCEPT ![w] = t]
  BY DEF Events!WatcherEdited
<1>2. /\ edited' = IF job.step = "rules" THEN edited \cup {w} ELSE edited
      /\ UNCHANGED <<brokerStatus, disabled, linked, statusInbox, onlineTrack, job, statusRow, shownOnline, owed>>
  BY DEF Events!WatcherEdited
<1>3. QED
  BY <1>1, <1>2 DEF Events!StatusKnown, Events!StatusTypeOK, Events!Jobs, Events!Transitions, Events!WatcherSet, Events!NoJob

\* The job of a message at a step.
LEMMA JobsAre ==
    ASSUME Events!StatusKnown
    PROVE  /\ job.on \in BOOLEAN /\ job.todo \subseteq DOMAIN Watchers
           /\ job.step \in {"none", "snapshot", "event", "rules", "notify"}
           /\ [job EXCEPT !.step = "event"].step = "event" /\ [job EXCEPT !.step = "event"].on = job.on
           /\ [job EXCEPT !.step = "event"].todo = job.todo
           /\ \A s \in {"event", "rules", "notify"}, T \in SUBSET DOMAIN Watchers :
                LET u == [[job EXCEPT !.todo = T] EXCEPT !.step = s]
                IN  /\ u \in Events!Jobs
                    /\ u.step = s /\ u.on = job.on /\ u.todo = T
  BY DEF Events!StatusKnown, Events!StatusTypeOK, Events!Jobs, Events!Transitions

\* The steps of _handle_status around the flip.
LEMMA HandleKnown ==
    ASSUME Events!StatusKnown, Events!_handle_status \/ Events!record_status_snapshot \/ Events!NotifyOffline
    PROVE  Events!StatusKnown'
<1>1. CASE Events!_handle_status
  <2>1. /\ statusInbox # <<>> /\ job = Events!NoJob
        /\ job' = [step |-> "snapshot", on |-> Head(statusInbox), todo |-> {}]
        /\ statusInbox' = Tail(statusInbox)
        /\ UNCHANGED <<brokerStatus, disabled, transition, linked, onlineTrack, statusRow, shownOnline, owed>>
    BY <1>1 DEF Events!_handle_status
  <2>2. statusInbox \in Seq(BOOLEAN)
    BY DEF Events!StatusKnown, Events!StatusTypeOK, Events!Jobs, Events!Transitions
  <2>3. /\ Tail(statusInbox) \in Seq(BOOLEAN) /\ Head(statusInbox) \in BOOLEAN /\ Head(statusInbox) = statusInbox[1]
        /\ Tail(statusInbox) # <<>> => Tail(statusInbox)[Len(Tail(statusInbox))] = statusInbox[Len(statusInbox)]
        /\ Tail(statusInbox) = <<>> => Head(statusInbox) = statusInbox[Len(statusInbox)]
    BY <2>1, <2>2, TailElements, TailLast
  <2>4. job.step = "none"
    BY <2>1 DEF Events!NoJob
  <2>5. QED
    BY <2>1, <2>3, <2>4 DEF Events!StatusKnown, Events!StatusTypeOK, Events!Jobs, Events!Transitions, Events!WatcherSet, Events!NoJob
<1>2. CASE Events!record_status_snapshot
  <2>1. /\ job.step = "snapshot" /\ statusRow' = job.on /\ job' = [job EXCEPT !.step = "event"]
        /\ UNCHANGED <<brokerStatus, disabled, transition, linked, statusInbox, onlineTrack, shownOnline, owed, edited>>
    BY <1>2 DEF Events!record_status_snapshot
  <2>2. /\ job' \in Events!Jobs
        /\ job'.step = "event" /\ job'.on = job.on /\ job # Events!NoJob /\ job.on \in BOOLEAN
    BY <2>1 DEF Events!StatusKnown, Events!StatusTypeOK, Events!Jobs, Events!Transitions, Events!NoJob
  <2>3. QED
    BY <2>1, <2>2 DEF Events!StatusKnown, Events!StatusTypeOK, Events!Jobs, Events!Transitions, Events!WatcherSet, Events!NoJob
<1>3. CASE Events!NotifyOffline
  <2>1. job.step = "notify" /\ job # Events!NoJob
    BY <1>3 DEF Events!NotifyOffline, Events!NoJob
  <2>2. QED
    BY <1>3, <2>1 DEF Events!NotifyOffline, Events!StatusKnown, Events!StatusTypeOK, Events!Jobs, Events!Transitions, Events!WatcherSet, Events!NoJob
<1>4. QED
  BY <1>1, <1>2, <1>3

\* The rules of a flip, then the notification, then nothing.
LEMMA NextRuleIs ==
    ASSUME Events!StatusKnown, NEW T \in SUBSET DOMAIN Watchers, job' = Events!NextRule([job EXCEPT !.todo = T])
    PROVE  \/ /\ T # {} /\ job'.step = "rules" /\ job'.on = job.on /\ job'.todo = T
              /\ job' \in Events!Jobs
           \/ /\ T = {} /\ ~job.on /\ ~disabled /\ job'.step = "notify" /\ job'.on = job.on /\ job'.todo = {}
              /\ job' \in Events!Jobs
           \/ /\ T = {} /\ (job.on \/ disabled) /\ job' = Events!NoJob
<1>1. [job EXCEPT !.todo = T].todo = T /\ [job EXCEPT !.todo = T].on = job.on
  BY DEF Events!StatusKnown, Events!StatusTypeOK, Events!Jobs, Events!Transitions
<1>2. CASE T # {}
  BY <1>1, <1>2, JobsAre DEF Events!NextRule, Events!Jobs
<1>3. CASE T = {}
  BY <1>1, <1>3, JobsAre DEF Events!NextRule, Events!AfterRules, Events!Jobs
<1>4. QED
  BY <1>2, <1>3

\* The flip: its rules are those for this transition.
LEMMA HealthEventKnown ==
    ASSUME Events!StatusKnown, Events!HealthEvent
    PROVE  Events!StatusKnown'
<1> DEFINE T == {i \in DOMAIN Watchers : transition[Watchers[i]] = {job.on}}
<1>1. /\ job.step = "event" /\ shownOnline' = job.on /\ onlineTrack' = {job.on} /\ owed' = (owed \/ job.on)
      /\ job' = IF Events!note_device_status(job.on) THEN Events!NextRule([job EXCEPT !.todo = T]) ELSE Events!NoJob
      /\ UNCHANGED <<brokerStatus, disabled, transition, linked, statusInbox, statusRow, edited>>
  BY DEF Events!HealthEvent
<1>2. job # Events!NoJob /\ job.on \in BOOLEAN /\ statusRow = job.on
  BY <1>1 DEF Events!StatusKnown, Events!StatusTypeOK, Events!Jobs, Events!Transitions, Events!NoJob
<1>3. CASE Events!note_device_status(job.on)
  <2>1. T \in SUBSET DOMAIN Watchers /\ \A i \in T : transition[Watchers[i]] = {job.on}
    OBVIOUS
  <2> HIDE DEF T
  <2>2. \/ /\ T # {} /\ job'.step = "rules" /\ job'.on = job.on /\ job'.todo = T
           /\ job' \in Events!Jobs
        \/ /\ T = {} /\ ~job.on /\ ~disabled /\ job'.step = "notify" /\ job'.on = job.on /\ job'.todo = {}
           /\ job' \in Events!Jobs
        \/ /\ T = {} /\ (job.on \/ disabled) /\ job' = Events!NoJob
    BY <1>1, <1>3, <2>1, NextRuleIs
  <2>3. UNCHANGED <<brokerStatus, disabled, transition, linked, statusInbox, statusRow, edited>> /\ shownOnline' = job.on
    BY <1>1
  <2>4. onlineTrack' = {job.on} /\ owed' = (owed \/ job.on) /\ job.step = "event"
    BY <1>1
  <2>5. CASE T # {} /\ job'.step = "rules"
    BY <1>2, <2>1, <2>2, <2>3, <2>4, <2>5 DEF Events!StatusKnown, Events!StatusTypeOK, Events!Jobs, Events!Transitions, Events!WatcherSet, Events!NoJob
  <2>6. CASE job'.step = "notify"
    <3>1. job' \in Events!Jobs /\ ~job.on /\ ~disabled /\ job'.on = job.on /\ job' # Events!NoJob
      BY <2>2, <2>6 DEF Events!NoJob
    <3>2. Events!StatusTypeOK'
      BY <1>2, <2>3, <2>4, <2>6, <3>1 DEF Events!StatusKnown, Events!StatusTypeOK, Events!Jobs, Events!Transitions, Events!WatcherSet, Events!NoJob
    <3>3. /\ linked /\ statusInbox = <<>> => job.on = brokerStatus
          /\ linked /\ statusInbox # <<>> => statusInbox[Len(statusInbox)] = brokerStatus
      BY <1>2 DEF Events!StatusKnown
    <3>4. QED
      BY <1>2, <2>3, <2>4, <2>6, <3>1, <3>2, <3>3 DEF Events!StatusKnown
  <2>7. CASE job' = Events!NoJob
    BY <1>2, <2>2, <2>3, <2>4, <2>7 DEF Events!StatusKnown, Events!StatusTypeOK, Events!Jobs, Events!Transitions, Events!WatcherSet, Events!NoJob
  <2>8. QED
    BY <2>2, <2>5, <2>6, <2>7
<1>4. CASE ~Events!note_device_status(job.on)
  <2>1. job' = Events!NoJob /\ (onlineTrack = {} \/ onlineTrack = {job.on})
    BY <1>1, <1>4 DEF Events!note_device_status
  <2>2. UNCHANGED <<brokerStatus, disabled, transition, linked, statusInbox, statusRow, edited>> /\ shownOnline' = job.on
    BY <1>1
  <2>3. onlineTrack' = {job.on} /\ owed' = (owed \/ job.on) /\ job.step = "event"
    BY <1>1
  <2>4. owed /\ ~disabled => onlineTrack = {TRUE}
    BY <2>3 DEF Events!StatusKnown, Events!StatusTypeOK, Events!Jobs, Events!Transitions
  <2>5. owed' /\ ~disabled => job.on
    BY <1>2, <2>1, <2>3, <2>4
  <2>6. QED
    BY <1>2, <2>1, <2>2, <2>3, <2>5 DEF Events!StatusKnown, Events!StatusTypeOK, Events!Jobs, Events!Transitions, Events!WatcherSet, Events!NoJob
<1>5. QED
  BY <1>3, <1>4

\* The rules' places are numbers, a place per rule.
LEMMA WatchersAre ==
    /\ DOMAIN Watchers \subseteq Nat
    /\ \A i \in DOMAIN Watchers : Watchers[i] \in Events!WatcherSet
    /\ \A i, j \in DOMAIN Watchers : Watchers[i] = Watchers[j] => i = j
  BY TriggersAssumption DEF Events!WatcherSet

\* One of them runs.
LEMMA RunRuleKnown ==
    ASSUME Events!StatusKnown, Events!RunRule
    PROVE  Events!StatusKnown'
<1> DEFINE T == job.todo \ {Events!Min(job.todo)}
<1>1. /\ job.step = "rules" /\ job' = Events!NextRule([job EXCEPT !.todo = T])
      /\ UNCHANGED <<brokerStatus, disabled, transition, linked, statusInbox, onlineTrack, statusRow, shownOnline,
                     owed, edited>>
  <2>1. [job EXCEPT !.todo = @ \ {Events!Min(@)}] = [job EXCEPT !.todo = T]
    OBVIOUS
  <2>2. QED
    BY <2>1 DEF Events!RunRule
<1>2. T \in SUBSET DOMAIN Watchers /\ T \subseteq job.todo /\ job # Events!NoJob /\ job.on \in BOOLEAN
  BY <1>1 DEF Events!StatusKnown, Events!StatusTypeOK, Events!Jobs, Events!Transitions, Events!NoJob
<1>3. QED
  <2> HIDE DEF T
  <2>1. \/ /\ T # {} /\ job'.step = "rules" /\ job'.on = job.on /\ job'.todo = T
           /\ job' \in Events!Jobs
        \/ /\ T = {} /\ ~job.on /\ ~disabled /\ job'.step = "notify" /\ job'.on = job.on /\ job'.todo = {}
           /\ job' \in Events!Jobs
        \/ /\ T = {} /\ (job.on \/ disabled) /\ job' = Events!NoJob
    BY <1>1, <1>2, NextRuleIs
  <2>2. /\ brokerStatus' = brokerStatus /\ disabled' = disabled /\ transition' = transition /\ linked' = linked
        /\ statusInbox' = statusInbox /\ onlineTrack' = onlineTrack /\ statusRow' = statusRow
        /\ shownOnline' = shownOnline /\ owed' = owed /\ edited' = edited
    BY <1>1
  <2>3. /\ statusRow = job.on /\ shownOnline = job.on /\ onlineTrack = {job.on}
        /\ linked /\ statusInbox = <<>> => job.on = brokerStatus
        /\ linked /\ statusInbox # <<>> => statusInbox[Len(statusInbox)] = brokerStatus
        /\ owed /\ ~disabled => onlineTrack = {TRUE} \/ ~job.on
        /\ \A i \in job.todo : transition[Watchers[i]] = {job.on} \/ Watchers[i] \in edited
    BY <1>1, <1>2 DEF Events!StatusKnown
  <2>4. Events!StatusTypeOK'
    <3>1. job' \in Events!Jobs /\ (job'.step = "none" => job' = Events!NoJob) /\ (job'.step = "rules" => job'.todo # {})
      <4>1. Events!NoJob \in Events!Jobs /\ Events!NoJob.step = "none"
        BY DEF Events!NoJob, Events!Jobs
      <4>2. QED
        BY <2>1, <4>1
    <3>2. Events!StatusTypeOK
      BY DEF Events!StatusKnown
    <3>3. QED
      BY <2>2, <3>1, <3>2 DEF Events!StatusTypeOK, Events!Jobs, Events!Transitions, Events!WatcherSet, Events!NoJob
  <2>5. CASE T # {} /\ job'.step = "rules"
    <3>1. job'.on = job.on /\ job'.todo = T /\ job' # Events!NoJob
      BY <2>1, <2>5 DEF Events!NoJob
    <3>2. QED
      BY <1>2, <2>2, <2>3, <2>4, <2>5, <3>1 DEF Events!StatusKnown
  <2>6. CASE job'.step = "notify"
    <3>1. job'.on = job.on /\ ~job.on /\ ~disabled /\ job' # Events!NoJob
      BY <2>1, <2>6 DEF Events!NoJob
    <3>2. QED
      BY <1>2, <2>2, <2>3, <2>4, <2>6, <3>1 DEF Events!StatusKnown
  <2>7. CASE (job.on \/ disabled) /\ job' = Events!NoJob
    <3>1. job'.step = "none" /\ job' = Events!NoJob'
      BY <2>7 DEF Events!NoJob
    <3>2. QED
      BY <1>2, <2>2, <2>3, <2>4, <2>7, <3>1 DEF Events!StatusKnown
  <2>8. QED
    BY <2>1, <2>5, <2>6, <2>7

\* A worker that has just started has the first report before it.
LEMMA StatusStartsKnown ==
    ASSUME Events!StatusInit
    PROVE  Events!StatusKnown
<1>1. PICK q \in StatusQuestions : disabled = q.disabled /\ transition = [w \in Events!WatcherSet |-> q.transition[w]]
  BY DEF Events!StatusInit
<1>2. /\ disabled \in BOOLEAN /\ DOMAIN transition = Events!WatcherSet
      /\ \A w \in Events!WatcherSet : transition[w] \in {{}, {TRUE}, {FALSE}}
  BY <1>1, TriggersAssumption
<1>3. <<TRUE>> \in Seq(BOOLEAN) /\ Len(<<TRUE>>) = 1 /\ <<TRUE>>[1] = TRUE /\ <<TRUE>> # <<>>
  OBVIOUS
<1>4. QED
  BY <1>2, <1>3 DEF Events!StatusInit, Events!StatusKnown, Events!StatusTypeOK, Events!Jobs, Events!Transitions, Events!NoJob

-----------------------------------------------------------------------------
(* What was told and run, against the drops. *)

\* The count of an instance is the count.
LEMMA EventsCount == \A S : Events!Cardinality(S) = Cardinality(S)
  BY DEF Events!Cardinality, Cardinality

\* A run adds one to its rule's, when it is for the going.
LEMMA GoingGrows ==
    ASSUME ruleRuns \in Seq(Events!Runs), NEW e \in Events!Runs, ruleRuns' = Append(ruleRuns, e), NEW w
    PROVE  /\ Events!Cardinality(Events!Going(w)) \in Nat
           /\ Events!Cardinality(Events!Going(w)') =
                Events!Cardinality(Events!Going(w)) + (IF e.rule = w /\ ~e.on THEN 1 ELSE 0)
<1> DEFINE G == Events!Going(w)
           n == Len(ruleRuns)
<1>1. /\ DOMAIN ruleRuns' = 1..(n + 1) /\ DOMAIN ruleRuns = 1..n /\ n \in Nat
      /\ \A i \in 1..n : ruleRuns'[i] = ruleRuns[i]
      /\ ruleRuns'[n + 1] = e
  BY AppendElements
<1>2. IsFiniteSet(G) /\ Cardinality(G) \in Nat
  <2>1. IsFiniteSet(1..n)
    BY <1>1, FS_Interval
  <2>2. G \subseteq 1..n
    BY <1>1 DEF Events!Going
  <2> HIDE DEF G
  <2>3. QED
    BY <2>1, <2>2, FS_Subset, FS_CardinalityType
<1>3. n + 1 \notin G
  BY <1>1 DEF Events!Going
<1>4. CASE e.rule = w /\ ~e.on
  <2>1. G' = G \cup {n + 1}
    BY <1>1, <1>4 DEF Events!Going
  <2>2. Cardinality(G \cup {n + 1}) = Cardinality(G) + 1
    <3> HIDE DEF G, n
    <3>1. QED
      BY <1>2, <1>3, FS_AddElement
  <2>3. QED
    <3> HIDE DEF n
    <3>1. QED
      BY <1>2, <1>4, <2>1, <2>2, EventsCount
<1>5. CASE ~(e.rule = w /\ ~e.on)
  <2>1. G' = G
    BY <1>1, <1>5 DEF Events!Going
  <2>2. QED
    BY <1>2, <1>5, <2>1, EventsCount
<1>6. QED
  BY <1>4, <1>5

\* The runs of a rule for a going are finitely many.
LEMMA GoingIs ==
    ASSUME ruleRuns \in Seq(Events!Runs), NEW w
    PROVE  Events!Cardinality(Events!Going(w)) \in Nat
<1>1. /\ DOMAIN ruleRuns = 1..Len(ruleRuns) /\ Len(ruleRuns) \in Nat
  OBVIOUS
<1>2. IsFiniteSet(1..Len(ruleRuns)) /\ Events!Going(w) \subseteq 1..Len(ruleRuns)
  BY <1>1, FS_Interval DEF Events!Going
<1>3. QED
  BY <1>2, EventsCount, FS_Subset, FS_CardinalityType

\* A numbering.
LEMMA NumberingIs ==
    ASSUME Events!StatusKnown, Events!DropsKnown
    PROVE  /\ drops \in Nat /\ offlineAlerts \in Nat /\ ruleRuns \in Seq(Events!Runs)
           /\ statusInbox \in Seq(BOOLEAN) /\ DOMAIN statusInbox = 1..Len(statusInbox) /\ Len(statusInbox) \in Nat
           /\ brokerStatus \in BOOLEAN /\ job.on \in BOOLEAN /\ onlineTrack \subseteq BOOLEAN
           /\ \E f \in [DOMAIN statusInbox -> 0..drops], j, k \in 0..drops : Events!Numbered(f, j, k)
<1>1. statusInbox \in Seq(BOOLEAN) /\ brokerStatus \in BOOLEAN /\ job.on \in BOOLEAN /\ onlineTrack \subseteq BOOLEAN
  BY DEF Events!StatusKnown, Events!StatusTypeOK, Events!Jobs, Events!Transitions
<1>2. QED
  BY <1>1 DEF Events!DropsKnown

\* A report numbered by the drops before it comes last.
LEMMA DeviceReportsDrops ==
    ASSUME Events!StatusKnown, Events!DropsKnown, Events!DeviceReports
    PROVE  Events!DropsKnown'
<1>1. PICK f \in [DOMAIN statusInbox -> 0..drops], j \in 0..drops, k \in 0..drops : Events!Numbered(f, j, k)
  BY NumberingIs
<1>2. PICK msgs \in {<<TRUE>>, <<FALSE>>, <<FALSE, TRUE>>} :
        /\ Events!Broker(msgs) /\ msgs \in Seq(BOOLEAN) /\ msgs # <<>>
        /\ drops' = IF msgs = <<TRUE>> THEN drops ELSE drops + 1
        /\ msgs # <<TRUE>> => brokerStatus
        /\ UNCHANGED <<linked, onlineTrack, job, ruleRuns, offlineAlerts>>
  BY DeviceReportsIs
<1>3. /\ drops \in Nat /\ drops' \in Nat /\ drops <= drops' /\ offlineAlerts \in Nat /\ ruleRuns \in Seq(Events!Runs)
      /\ statusInbox \in Seq(BOOLEAN) /\ brokerStatus \in BOOLEAN /\ job.on \in BOOLEAN /\ onlineTrack \subseteq BOOLEAN
      /\ DOMAIN statusInbox = 1..Len(statusInbox) /\ Len(statusInbox) \in Nat
  <2>1. drops \in Nat
    BY NumberingIs
  <2>2. drops' \in Nat /\ drops <= drops'
    <3>1. drops' = drops \/ drops' = drops + 1
      BY <1>2, Zenon
    <3>2. QED
      BY <2>1, <3>1
  <2>3. QED
    BY <2>1, <2>2, NumberingIs
<1>4. /\ brokerStatus' \in BOOLEAN /\ statusInbox' \in Seq(BOOLEAN)
      /\ statusInbox' = IF linked THEN statusInbox \o msgs ELSE statusInbox
      /\ brokerStatus' = msgs[Len(msgs)]
  BY <1>2, BrokerLeaves DEF Events!Broker
\* A report of the past is before the new ones, and they are in order.
<1>5. ASSUME NEW on \in BOOLEAN, NEW n \in 0..drops, Events!Before(on, n, brokerStatus, drops), NEW later \in BOOLEAN
      PROVE  (msgs = <<TRUE>> => Events!Before(on, n, TRUE, drops'))
             /\ (msgs # <<TRUE>> => Events!Before(on, n, later, drops'))
  <2>1. CASE msgs = <<TRUE>>
    BY <1>2, <1>3, <1>5, <2>1 DEF Events!Before
  <2>2. CASE msgs # <<TRUE>>
    <3>1. brokerStatus /\ drops' = drops + 1
      BY <1>2, <2>2, Zenon
    <3>2. n <= drops /\ (on /\ ~later => n < drops + 1)
      BY <1>3
    <3>3. n <= drops'
      BY <1>3, <3>1
    <3>4. Events!Before(on, n, later, drops')
      BY <3>1, <3>2, <3>3, Zenon DEF Events!Before
    <3>5. QED
      BY <2>2, <3>4, Zenon
  <2>3. QED
    BY <2>1, <2>2
<1>6. \A i \in 1..Len(msgs) : msgs[i] \in BOOLEAN /\ (msgs = <<TRUE>> => msgs[i] = TRUE)
  BY ReportsAre
<1>7. \A h, i \in 1..Len(msgs) : h < i => msgs[h] = FALSE
  BY ReportsAre
<1>8. Len(msgs) \in Nat \ {0} /\ \A i \in 1..Len(msgs) : ~msgs[i] => msgs # <<TRUE>>
  BY <1>2, <1>6, ConcatElements
<1>9. ASSUME NEW on \in BOOLEAN, NEW n \in 0..drops, Events!Before(on, n, brokerStatus, drops)
      PROVE  \A i \in 1..Len(msgs) : Events!Before(on, n, msgs[i], drops')
  <2>1. \A i \in 1..Len(msgs) : msgs = <<TRUE>> => Events!Before(on, n, TRUE, drops') /\ msgs[i] = TRUE
    BY <1>5, <1>6, <1>9
  <2>2. ASSUME NEW i \in 1..Len(msgs), msgs # <<TRUE>>
        PROVE  Events!Before(on, n, msgs[i], drops')
    <3>1. msgs[i] \in BOOLEAN
      BY <1>6
    <3>2. QED
      BY <1>5, <1>9, <2>2, <3>1, Zenon
  <2>3. QED
    BY <2>1, <2>2
<1>10. \A i \in 1..Len(msgs) : Events!Before(msgs[i], drops', brokerStatus', drops')
  <2>1. CASE msgs # <<FALSE>>
    <3>1. brokerStatus' = TRUE
      BY <1>4, <2>1, ReportsAre
    <3>2. QED
      BY <1>3, <3>1 DEF Events!Before
  <2>2. CASE msgs = <<FALSE>>
    <3>1. \A i \in 1..Len(msgs) : msgs[i] = FALSE
      BY <2>2, ReportsAre
    <3>2. QED
      BY <1>3, <3>1 DEF Events!Before
  <2>3. QED
    BY <2>1, <2>2
<1>11. \A h, i \in 1..Len(msgs) : h < i => Events!Before(msgs[h], drops', msgs[i], drops')
  BY <1>3, <1>7 DEF Events!Before
<1>12. ASSUME NEW on \in BOOLEAN, NEW n \in 0..drops, Events!Before(on, n, brokerStatus, drops)
       PROVE  Events!Before(on, n, brokerStatus', drops')
  BY <1>4, <1>8, <1>9, <1>12
<1>13. PICK g : g = [i \in DOMAIN statusInbox' |-> IF i \in DOMAIN statusInbox THEN f[i] ELSE drops']
  OBVIOUS
<1>14. 0..drops \subseteq 0..drops' /\ drops' \in 0..drops'
  BY <1>3
<1>15. g \in [DOMAIN statusInbox' -> 0..drops']
  BY <1>13, <1>14
\* Every report on its way is an old one or one of the new.
<1>16. /\ \A i \in DOMAIN statusInbox : i \in DOMAIN statusInbox' /\ g[i] = f[i] /\ statusInbox'[i] = statusInbox[i]
       /\ \A i \in DOMAIN statusInbox' \ DOMAIN statusInbox :
            g[i] = drops' /\ \E l \in 1..Len(msgs) : i = Len(statusInbox) + l /\ statusInbox'[i] = msgs[l]
  <2>1. CASE linked
    <3>1. /\ DOMAIN statusInbox = 1..Len(statusInbox) /\ Len(statusInbox) \in Nat
          /\ DOMAIN statusInbox' = 1..(Len(statusInbox) + Len(msgs)) /\ Len(msgs) \in Nat
          /\ \A i \in 1..Len(statusInbox) : statusInbox'[i] = statusInbox[i]
          /\ \A i \in 1..Len(msgs) : statusInbox'[Len(statusInbox) + i] = msgs[i]
      BY <1>2, <1>3, <1>4, <2>1, ConcatElements
    <3>2. \A i \in DOMAIN statusInbox' \ DOMAIN statusInbox :
            /\ i - Len(statusInbox) \in 1..Len(msgs) /\ i = Len(statusInbox) + (i - Len(statusInbox))
      BY <3>1
    <3>3. \A i \in DOMAIN statusInbox : i \in DOMAIN statusInbox' /\ g[i] = f[i] /\ statusInbox'[i] = statusInbox[i]
      BY <1>13, <3>1
    <3>4. ASSUME NEW i \in DOMAIN statusInbox' \ DOMAIN statusInbox
          PROVE  g[i] = drops' /\ \E l \in 1..Len(msgs) : i = Len(statusInbox) + l /\ statusInbox'[i] = msgs[l]
      <4>1. g[i] = drops'
        BY <1>13
      <4>2. PICK l \in 1..Len(msgs) : i = Len(statusInbox) + l
        BY <3>2
      <4>3. statusInbox'[Len(statusInbox) + l] = msgs[l]
        BY <3>1
      <4>4. QED
        BY <4>1, <4>2, <4>3
    <3>5. QED
      BY <3>3, <3>4
  <2>2. CASE ~linked
    BY <1>4, <1>13, <2>2
  <2>3. QED
    BY <2>1, <2>2
<1>17. Events!Numbered(g, j, k)'
  <2>1. /\ \A i \in DOMAIN statusInbox : k <= f[i] /\ Events!Before(statusInbox[i], f[i], brokerStatus, drops)
        /\ \A h, i \in DOMAIN statusInbox : h < i => Events!Before(statusInbox[h], f[h], statusInbox[i], f[i])
        /\ \A t \in onlineTrack :
             Events!Before(t, k, brokerStatus, drops) /\ \A i \in DOMAIN statusInbox : Events!Before(t, k, statusInbox[i], f[i])
        /\ Events!InHand =>
             /\ k <= j /\ Events!Before(job.on, j, brokerStatus, drops)
             /\ \A i \in DOMAIN statusInbox : Events!Before(job.on, j, statusInbox[i], f[i])
             /\ \A t \in onlineTrack : Events!Before(t, k, job.on, j)
    BY <1>1 DEF Events!Numbered
  <2>2. \A i \in DOMAIN statusInbox : statusInbox[i] \in BOOLEAN /\ f[i] \in 0..drops
    BY <1>3
  <2>3. \A i \in DOMAIN statusInbox' : k <= g[i] /\ Events!Before(statusInbox'[i], g[i], brokerStatus', drops')
    <3>1. ASSUME NEW i \in DOMAIN statusInbox PROVE k <= g[i] /\ Events!Before(statusInbox'[i], g[i], brokerStatus', drops')
      BY <1>12, <1>16, <2>1, <2>2
    <3>2. ASSUME NEW i \in DOMAIN statusInbox' \ DOMAIN statusInbox
          PROVE  k <= g[i] /\ Events!Before(statusInbox'[i], g[i], brokerStatus', drops')
      <4>1. k <= drops'
        BY <1>3
      <4>2. QED
        BY <1>10, <1>16, <4>1
    <3>3. QED
      BY <3>1, <3>2
  <2>4. ASSUME NEW h \in DOMAIN statusInbox', NEW i \in DOMAIN statusInbox', h < i
        PROVE  Events!Before(statusInbox'[h], g[h], statusInbox'[i], g[i])
    <3>1. CASE i \in DOMAIN statusInbox
      <4>1. h \in DOMAIN statusInbox
        <5>1. i \in 1..Len(statusInbox) /\ h \in DOMAIN statusInbox' /\ statusInbox' \in Seq(BOOLEAN)
          BY <1>3, <1>4, <3>1
        <5>2. h \in Nat \ {0}
          BY <5>1
        <5>3. QED
          BY <1>3, <2>4, <5>1, <5>2
      <4>2. QED
        BY <1>16, <2>1, <2>4, <3>1, <4>1
    <3>2. CASE i \notin DOMAIN statusInbox /\ h \in DOMAIN statusInbox
      BY <1>9, <1>16, <2>1, <2>2, <3>2
    <3>3. CASE i \notin DOMAIN statusInbox /\ h \notin DOMAIN statusInbox
      <4>1. PICK a \in 1..Len(msgs) : h = Len(statusInbox) + a /\ statusInbox'[h] = msgs[a]
        BY <1>16, <3>3
      <4>2. PICK b \in 1..Len(msgs) : i = Len(statusInbox) + b /\ statusInbox'[i] = msgs[b]
        BY <1>16, <3>3
      <4>3. a < b
        BY <1>3, <2>4, <4>1, <4>2
      <4>4. QED
        BY <1>11, <1>16, <3>3, <4>1, <4>2, <4>3
    <3>4. QED
      BY <3>1, <3>2, <3>3
  <2>5. ASSUME NEW on \in BOOLEAN, NEW n \in 0..drops, Events!Before(on, n, brokerStatus, drops),
               \A i \in DOMAIN statusInbox : Events!Before(on, n, statusInbox[i], f[i])
        PROVE  \A i \in DOMAIN statusInbox' : Events!Before(on, n, statusInbox'[i], g[i])
    BY <1>9, <1>16, <2>5
  <2>6. \A t \in onlineTrack' :
          Events!Before(t, k, brokerStatus', drops') /\ \A i \in DOMAIN statusInbox' : Events!Before(t, k, statusInbox'[i], g[i])
    BY <1>2, <1>3, <1>12, <2>1, <2>5
  <2>7. Events!InHand' =>
          /\ k <= j /\ Events!Before(job'.on, j, brokerStatus', drops')
          /\ \A i \in DOMAIN statusInbox' : Events!Before(job'.on, j, statusInbox'[i], g[i])
          /\ \A t \in onlineTrack' : Events!Before(t, k, job'.on, j)
    <3>1. (Events!InHand' <=> Events!InHand) /\ job'.on = job.on /\ onlineTrack' = onlineTrack
      BY <1>2 DEF Events!InHand
    <3>2. ASSUME Events!InHand
          PROVE  Events!Before(job.on, j, brokerStatus', drops')
      BY <1>3, <1>12, <2>1, <3>2
    <3>3. ASSUME Events!InHand
          PROVE  \A i \in DOMAIN statusInbox' : Events!Before(job.on, j, statusInbox'[i], g[i])
      BY <1>3, <2>1, <2>5, <3>3
    <3>4. QED
      BY <2>1, <3>1, <3>2, <3>3
  <2>8. k <= drops'
    BY <1>3
  <2>9. /\ offlineAlerts' + (IF job'.step \in {"rules", "notify"} /\ ~job'.on THEN 1 ELSE 0) <= k
        /\ \A w \in Events!WatcherSet :
             Events!Cardinality(Events!Going(w)') + (IF ~job'.on /\ (\E i \in job'.todo : Watchers[i] = w) THEN 1 ELSE 0) <= k
    BY <1>1, <1>2 DEF Events!Numbered, Events!Going
  <2>10. QED
    BY <2>3, <2>4, <2>6, <2>7, <2>8, <2>9 DEF Events!Numbered, Events!Before, Events!WatcherSet, Events!Cardinality
<1>18. j \in 0..drops' /\ k \in 0..drops'
  BY <1>14
<1>19. offlineAlerts' \in Nat /\ ruleRuns' \in Seq(Events!Runs)
  BY <1>2, <1>3
<1>20. QED
  BY <1>3, <1>15, <1>17, <1>18, <1>19 DEF Events!DropsKnown, Events!Runs, Events!WatcherSet

\* What the broker sends again has the number of the last report.
LEMMA LinkDrops ==
    ASSUME Events!StatusKnown, Events!DropsKnown, Events!LinkBreaks \/ Events!mqtt_ingest_loop \/ Events!WorkerEnds
    PROVE  Events!DropsKnown'
<1>1. PICK f \in [DOMAIN statusInbox -> 0..drops], j \in 0..drops, k \in 0..drops : Events!Numbered(f, j, k)
  BY NumberingIs
<1>2. /\ drops \in Nat /\ offlineAlerts \in Nat /\ ruleRuns \in Seq(Events!Runs) /\ brokerStatus \in BOOLEAN
      /\ UNCHANGED <<brokerStatus, drops, offlineAlerts, ruleRuns>>
  BY NumberingIs DEF Events!LinkBreaks, Events!mqtt_ingest_loop, Events!WorkerEnds
<1>3. PICK g : g = [i \in DOMAIN statusInbox' |-> drops]
  OBVIOUS
<1>4. g \in [DOMAIN statusInbox' -> 0..drops'] /\ \A i \in DOMAIN statusInbox' : g[i] = drops
  BY <1>2, <1>3
<1>5. statusInbox' = <<>> \/ (statusInbox' = <<brokerStatus>> /\ job = Events!NoJob /\ UNCHANGED <<job, onlineTrack>>)
  BY DEF Events!LinkBreaks, Events!mqtt_ingest_loop, Events!WorkerEnds
<1>6. /\ \A i \in DOMAIN statusInbox' : statusInbox'[i] = brokerStatus
      /\ \A h, i \in DOMAIN statusInbox' : ~(h < i)
  <2>1. CASE statusInbox' = <<>>
    BY <2>1
  <2>2. CASE statusInbox' = <<brokerStatus>>
    <3>1. DOMAIN statusInbox' = 1..1 /\ statusInbox'[1] = brokerStatus
      BY <2>2
    <3>2. QED
      BY <3>1
  <2>3. QED
    BY <1>5, <2>1, <2>2
<1>7. UNCHANGED <<job, onlineTrack>> \/ (job' = Events!NoJob /\ onlineTrack' = {})
  BY DEF Events!LinkBreaks, Events!mqtt_ingest_loop, Events!WorkerEnds
<1>8. /\ \A t \in onlineTrack : Events!Before(t, k, brokerStatus, drops)
      /\ Events!InHand =>
           k <= j /\ Events!Before(job.on, j, brokerStatus, drops) /\ \A t \in onlineTrack : Events!Before(t, k, job.on, j)
      /\ offlineAlerts + (IF job.step \in {"rules", "notify"} /\ ~job.on THEN 1 ELSE 0) <= k
      /\ \A w \in Events!WatcherSet :
           Events!Cardinality(Events!Going(w)) + (IF ~job.on /\ (\E i \in job.todo : Watchers[i] = w) THEN 1 ELSE 0) <= k
  BY <1>1 DEF Events!Numbered
<1>9. /\ \A t \in onlineTrack' : Events!Before(t, k, brokerStatus, drops)
      /\ Events!InHand' =>
           k <= j /\ Events!Before(job'.on, j, brokerStatus, drops) /\ \A t \in onlineTrack' : Events!Before(t, k, job'.on, j)
      /\ offlineAlerts + (IF job'.step \in {"rules", "notify"} /\ ~job'.on THEN 1 ELSE 0) <= k
      /\ \A w \in Events!WatcherSet :
           Events!Cardinality(Events!Going(w)) + (IF ~job'.on /\ (\E i \in job'.todo : Watchers[i] = w) THEN 1 ELSE 0) <= k
  <2>1. CASE UNCHANGED <<job, onlineTrack>>
    BY <1>8, <2>1 DEF Events!InHand
  <2>2. CASE job' = Events!NoJob /\ onlineTrack' = {}
    <3>1. job'.step = "none" /\ job'.on /\ job'.todo = {}
      BY <2>2 DEF Events!NoJob
    <3>2. \A w \in Events!WatcherSet : Events!Cardinality(Events!Going(w)) \in Nat
      BY <1>2, GoingIs
    <3>3. QED
      BY <1>2, <1>8, <2>2, <3>1, <3>2 DEF Events!InHand
  <2>3. QED
    BY <1>7, <2>1, <2>2
<1>10. \A on \in BOOLEAN, n \in 0..drops : Events!Before(on, n, brokerStatus, drops) =>
         \A i \in DOMAIN statusInbox' : Events!Before(on, n, statusInbox'[i], g[i])
  BY <1>4, <1>6
<1>11. Events!InHand' => statusInbox' = <<>>
  BY <1>5 DEF Events!InHand, Events!NoJob
<1>12. Events!Numbered(g, j, k)'
  <2>1. \A i \in DOMAIN statusInbox' : k <= g[i] /\ Events!Before(statusInbox'[i], g[i], brokerStatus', drops')
    BY <1>2, <1>4, <1>6 DEF Events!Before
  <2>2. \A t \in onlineTrack' :
          Events!Before(t, k, brokerStatus', drops') /\ \A i \in DOMAIN statusInbox' : Events!Before(t, k, statusInbox'[i], g[i])
    BY <1>2, <1>4, <1>6, <1>9
  <2>3. \A w \in Events!WatcherSet : Events!Going(w)' = Events!Going(w)
    BY <1>2 DEF Events!Going
  <2>4. QED
    BY <1>2, <1>6, <1>9, <1>11, <2>1, <2>2, <2>3 DEF Events!Numbered, Events!Before, Events!WatcherSet
<1>13. QED
  BY <1>2, <1>4, <1>12 DEF Events!DropsKnown, Events!Runs, Events!WatcherSet

\* A report is taken from the front.
LEMMA HandleDrops ==
    ASSUME Events!StatusKnown, Events!DropsKnown, Events!_handle_status
    PROVE  Events!DropsKnown'
<1>1. PICK f \in [DOMAIN statusInbox -> 0..drops], j \in 0..drops, k \in 0..drops : Events!Numbered(f, j, k)
  BY NumberingIs
<1>2. /\ drops \in Nat /\ offlineAlerts \in Nat /\ ruleRuns \in Seq(Events!Runs) /\ statusInbox \in Seq(BOOLEAN)
      /\ statusInbox # <<>> /\ job = Events!NoJob
      /\ job' = [step |-> "snapshot", on |-> Head(statusInbox), todo |-> {}]
      /\ statusInbox' = Tail(statusInbox)
      /\ UNCHANGED <<brokerStatus, onlineTrack, drops, offlineAlerts, ruleRuns>>
  BY NumberingIs DEF Events!_handle_status
<1>3. PICK g : g = [i \in DOMAIN statusInbox' |-> f[i + 1]]
  OBVIOUS
<1>4. /\ 1 \in DOMAIN statusInbox /\ job'.on = statusInbox[1]
      /\ \A i \in DOMAIN statusInbox' :
           i \in Nat /\ i >= 1 /\ i + 1 \in DOMAIN statusInbox /\ statusInbox'[i] = statusInbox[i + 1] /\ g[i] = f[i + 1]
  BY <1>2, <1>3, TailElements
<1>5. f[1] \in 0..drops /\ g \in [DOMAIN statusInbox' -> 0..drops']
  BY <1>2, <1>3, <1>4
<1>6. /\ \A i \in DOMAIN statusInbox : k <= f[i] /\ Events!Before(statusInbox[i], f[i], brokerStatus, drops)
      /\ \A h, i \in DOMAIN statusInbox : h < i => Events!Before(statusInbox[h], f[h], statusInbox[i], f[i])
      /\ \A t \in onlineTrack :
           Events!Before(t, k, brokerStatus, drops) /\ \A i \in DOMAIN statusInbox : Events!Before(t, k, statusInbox[i], f[i])
      /\ offlineAlerts + (IF job.step \in {"rules", "notify"} /\ ~job.on THEN 1 ELSE 0) <= k
      /\ \A w \in Events!WatcherSet :
           Events!Cardinality(Events!Going(w)) + (IF ~job.on /\ (\E i \in job.todo : Watchers[i] = w) THEN 1 ELSE 0) <= k
  BY <1>1 DEF Events!Numbered
<1>7. Events!Numbered(g, f[1], k)'
  <2>1. \A h, i \in DOMAIN statusInbox' : h < i => Events!Before(statusInbox'[h], g[h], statusInbox'[i], g[i])
    <3>1. ASSUME NEW h \in DOMAIN statusInbox', NEW i \in DOMAIN statusInbox', h < i
          PROVE  Events!Before(statusInbox'[h], g[h], statusInbox'[i], g[i])
      <4>1. h + 1 < i + 1
        BY <1>4, <3>1
      <4>2. QED
        BY <1>4, <1>6, <4>1
    <3>2. QED
      BY <3>1
  <2>2. \A i \in DOMAIN statusInbox' : Events!Before(job'.on, f[1], statusInbox'[i], g[i])
    <3>1. \A i \in DOMAIN statusInbox' : 1 < i + 1
      BY <1>4
    <3>2. QED
      BY <1>4, <1>6, <3>1
  <2>3. /\ \A i \in DOMAIN statusInbox' : k <= g[i] /\ Events!Before(statusInbox'[i], g[i], brokerStatus', drops')
        /\ \A t \in onlineTrack' : Events!Before(t, k, brokerStatus', drops')
                                   /\ \A i \in DOMAIN statusInbox' : Events!Before(t, k, statusInbox'[i], g[i])
    BY <1>2, <1>4, <1>6
  <2>4. k <= f[1] /\ Events!Before(job'.on, f[1], brokerStatus', drops') /\ \A t \in onlineTrack' : Events!Before(t, k, job'.on, f[1])
    BY <1>2, <1>4, <1>6
  <2>5. /\ job'.step = "snapshot" /\ job'.todo = {} /\ job.step = "none" /\ job.todo = {}
        /\ \A w \in Events!WatcherSet : Events!Going(w)' = Events!Going(w)
    BY <1>2 DEF Events!Going, Events!NoJob
  <2>6. /\ offlineAlerts' + (IF job'.step \in {"rules", "notify"} /\ ~job'.on THEN 1 ELSE 0) <= k
        /\ \A w \in Events!WatcherSet :
             Events!Cardinality(Events!Going(w)') + (IF ~job'.on /\ (\E i \in job'.todo : Watchers[i] = w) THEN 1 ELSE 0) <= k
    BY <1>2, <1>6, <2>5
  <2>7. k <= drops'
    BY <1>2
  <2>8. QED
    BY <2>1, <2>2, <2>3, <2>4, <2>6, <2>7 DEF Events!Numbered, Events!Before, Events!WatcherSet
<1>8. PICK n \in 0..drops : n = f[1]
  BY <1>5
<1>9. QED
  BY <1>2, <1>5, <1>7, <1>8 DEF Events!DropsKnown, Events!Runs, Events!WatcherSet

\* A step that leaves the reports, what was told of them and how far the job is.
LEMMA QuietDrops ==
    ASSUME Events!StatusKnown, Events!DropsKnown,
           UNCHANGED <<brokerStatus, statusInbox, onlineTrack, ruleRuns, offlineAlerts, drops>>,
           job'.on = job.on, job'.todo = job.todo, Events!InHand' => Events!InHand,
           job'.step \in {"rules", "notify"} => job.step \in {"rules", "notify"}
    PROVE  Events!DropsKnown'
<1>1. PICK f \in [DOMAIN statusInbox -> 0..drops], j \in 0..drops, k \in 0..drops : Events!Numbered(f, j, k)
  BY NumberingIs
<1>2. drops \in Nat /\ offlineAlerts \in Nat /\ ruleRuns \in Seq(Events!Runs)
  BY NumberingIs
<1>3. Events!Numbered(f, j, k)'
  <2>1. offlineAlerts' + (IF job'.step \in {"rules", "notify"} /\ ~job'.on THEN 1 ELSE 0) <= k
    BY <1>1, <1>2 DEF Events!Numbered
  <2>2. \A w : Events!Going(w)' = Events!Going(w)
    BY DEF Events!Going
  <2>3. QED
    BY <1>1, <2>1, <2>2 DEF Events!Numbered, Events!Before, Events!WatcherSet
<1>4. QED
  BY <1>1, <1>2, <1>3 DEF Events!DropsKnown, Events!Runs, Events!WatcherSet

\* A report that is compared: a going is told of after one more drop than what
\* was told of before.
LEMMA HealthEventDrops ==
    ASSUME Events!StatusKnown, Events!DropsKnown, Events!HealthEvent
    PROVE  Events!DropsKnown'
<1> DEFINE T == {i \in DOMAIN Watchers : transition[Watchers[i]] = {job.on}}
<1>1. PICK f \in [DOMAIN statusInbox -> 0..drops], j \in 0..drops, k \in 0..drops : Events!Numbered(f, j, k)
  BY NumberingIs
<1>2. /\ drops \in Nat /\ offlineAlerts \in Nat /\ ruleRuns \in Seq(Events!Runs) /\ job.on \in BOOLEAN
      /\ DOMAIN statusInbox = 1..Len(statusInbox) /\ Len(statusInbox) \in Nat
  BY NumberingIs
<1>3. /\ job.step = "event" /\ onlineTrack' = {job.on}
      /\ job' = IF Events!note_device_status(job.on) THEN Events!NextRule([job EXCEPT !.todo = T]) ELSE Events!NoJob
      /\ UNCHANGED <<brokerStatus, statusInbox, ruleRuns, offlineAlerts, drops>>
  BY DEF Events!HealthEvent
<1>4. /\ \A h, i \in DOMAIN statusInbox : h < i => Events!Before(statusInbox[h], f[h], statusInbox[i], f[i])
      /\ \A i \in DOMAIN statusInbox : Events!Before(statusInbox[i], f[i], brokerStatus, drops)
      /\ k <= j /\ Events!Before(job.on, j, brokerStatus, drops)
      /\ \A i \in DOMAIN statusInbox : Events!Before(job.on, j, statusInbox[i], f[i])
      /\ \A t \in onlineTrack : Events!Before(t, k, job.on, j)
      /\ offlineAlerts <= k
  BY <1>1, <1>2, <1>3 DEF Events!Numbered, Events!InHand
<1>5. \A w \in Events!WatcherSet :
        Events!Cardinality(Events!Going(w)) \in Nat /\ Events!Cardinality(Events!Going(w)) <= k
  <2>1. ASSUME NEW w \in Events!WatcherSet
        PROVE  Events!Cardinality(Events!Going(w)) \in Nat /\ Events!Cardinality(Events!Going(w)) <= k
    <3>1. Events!Cardinality(Events!Going(w)) \in Nat
      BY <1>2, GoingIs
    <3>2. Events!Cardinality(Events!Going(w)) + (IF ~job.on /\ (\E i \in job.todo : Watchers[i] = w) THEN 1 ELSE 0) <= k
      BY <1>1 DEF Events!Numbered
    <3>3. QED
      BY <3>1, <3>2
  <2>2. QED
    BY <2>1
\* A going that is told of was seen coming.
<1>6. Events!note_device_status(job.on) /\ ~job.on => k < j
  <2>1. ASSUME Events!note_device_status(job.on), ~job.on
        PROVE  k < j
    <3>1. onlineTrack # {} /\ onlineTrack # {FALSE} /\ onlineTrack \in {{}, {TRUE}, {FALSE}}
      BY <1>2, <2>1 DEF Events!note_device_status, Events!StatusKnown, Events!StatusTypeOK, Events!Transitions
    <3>2. TRUE \in onlineTrack
      BY <3>1
    <3>3. Events!Before(TRUE, k, job.on, j)
      BY <1>4, <3>2
    <3>4. QED
      BY <2>1, <3>3 DEF Events!Before
  <2>2. QED
    BY <2>1
<1>7. /\ ~Events!InHand'
      /\ job'.step \in {"rules", "notify"} /\ ~job'.on => Events!note_device_status(job.on) /\ ~job.on
      /\ ~job'.on => Events!note_device_status(job.on) /\ ~job.on
  <2>1. T \in SUBSET DOMAIN Watchers
    OBVIOUS
  <2> HIDE DEF T
  <2>2. CASE Events!note_device_status(job.on)
    <3>1. \/ job'.step = "rules" /\ job'.on = job.on
          \/ job'.step = "notify" /\ job'.on = job.on
          \/ job' = Events!NoJob
      BY <1>3, <2>1, <2>2, NextRuleIs
    <3>2. QED
      BY <2>2, <3>1 DEF Events!InHand, Events!NoJob
  <2>3. CASE ~Events!note_device_status(job.on)
    BY <1>3, <2>3 DEF Events!InHand, Events!NoJob
  <2>4. QED
    BY <2>2, <2>3
<1>8. Events!Numbered(f, j, j)'
  <2>1. \A i \in DOMAIN statusInbox : j <= f[i]
    BY <1>4 DEF Events!Before
  <2>2. j <= drops
    BY <1>2
  <2>3. offlineAlerts + (IF job'.step \in {"rules", "notify"} /\ ~job'.on THEN 1 ELSE 0) <= j
    BY <1>2, <1>4, <1>6, <1>7
  <2>4. \A w \in Events!WatcherSet :
          Events!Cardinality(Events!Going(w)) + (IF ~job'.on /\ (\E i \in job'.todo : Watchers[i] = w) THEN 1 ELSE 0) <= j
    <3>1. ASSUME NEW w \in Events!WatcherSet
          PROVE  Events!Cardinality(Events!Going(w)) + (IF ~job'.on /\ (\E i \in job'.todo : Watchers[i] = w) THEN 1 ELSE 0) <= j
      <4>1. PICK n : n = Events!Cardinality(Events!Going(w)) /\ n \in Nat /\ n <= k
        BY <1>5
      <4>2. CASE ~job'.on
        BY <1>2, <1>6, <1>7, <4>1, <4>2
      <4>3. CASE job'.on
        BY <1>2, <1>4, <4>1, <4>3
      <4>4. QED
        BY <4>2, <4>3
    <3>2. QED
      BY <3>1
  <2>5. \A w : Events!Going(w)' = Events!Going(w)
    BY <1>3 DEF Events!Going
  <2>6. \A t \in onlineTrack' : t = job.on
    BY <1>3
  <2>7. QED
    BY <1>3, <1>4, <1>7, <2>1, <2>2, <2>3, <2>4, <2>5, <2>6 DEF Events!Numbered, Events!Before, Events!WatcherSet
<1>9. QED
  BY <1>2, <1>3, <1>8 DEF Events!DropsKnown, Events!Runs, Events!WatcherSet

\* What a run adds to the runs.
LEMMA RunIs ==
    ASSUME Events!StatusKnown, Events!RunRule
    PROVE  LET p == Events!Min(job.todo)
               e == [rule |-> Watchers[p], on |-> job.on, as |-> transition[Watchers[p]],
                     edited |-> Watchers[p] \in edited]
           IN  /\ p \in job.todo /\ Watchers[p] \in Events!WatcherSet /\ e \in Events!Runs
               /\ e.rule = Watchers[p] /\ e.on = job.on
               /\ e.on \in e.as \/ e.edited
               /\ ruleRuns' = ruleRuns \/ ruleRuns' = Append(ruleRuns, e)
<1> DEFINE p == Events!Min(job.todo)
           e == [rule |-> Watchers[p], on |-> job.on, as |-> transition[Watchers[p]],
                 edited |-> Watchers[p] \in edited]
<1>1. /\ job.step = "rules" /\ job.todo # {} /\ job.todo \subseteq DOMAIN Watchers /\ job.on \in BOOLEAN
      /\ \A w \in Events!WatcherSet : transition[w] \in SUBSET BOOLEAN
      /\ \A i \in job.todo : transition[Watchers[i]] = {job.on} \/ Watchers[i] \in edited
  <2>1. /\ job.step = "rules" /\ job.todo # {} /\ job.todo \subseteq DOMAIN Watchers /\ job.on \in BOOLEAN
        /\ \A i \in job.todo : transition[Watchers[i]] = {job.on} \/ Watchers[i] \in edited
    BY DEF Events!RunRule, Events!StatusKnown, Events!StatusTypeOK, Events!Jobs
  <2>2. \A w \in Events!WatcherSet : transition[w] \in {{}, {TRUE}, {FALSE}}
    BY DEF Events!StatusKnown, Events!StatusTypeOK, Events!Transitions
  <2>3. \A t \in {{}, {TRUE}, {FALSE}} : t \in SUBSET BOOLEAN
    OBVIOUS
  <2>4. QED
    BY <2>1, <2>2, <2>3, Zenon
<1>2. p \in job.todo
  BY <1>1, WatchersAre, EventsMinIs
<1>3. Watchers[p] \in Events!WatcherSet
  BY <1>1, <1>2, WatchersAre
<1>4. ruleRuns' = ruleRuns \/ ruleRuns' = Append(ruleRuns, e)
  BY DEF Events!RunRule
<1>5. transition[Watchers[p]] \in SUBSET BOOLEAN
        /\ (transition[Watchers[p]] = {job.on} \/ Watchers[p] \in edited)
  BY <1>1, <1>2, <1>3
<1>6. QED
  <2> HIDE DEF p
  <2>1. e \in Events!Runs
    BY <1>1, <1>3, <1>5 DEF Events!Runs
  <2>2. e.rule = Watchers[p] /\ e.on = job.on /\ (e.on \in e.as \/ e.edited)
    BY <1>5
  <2>3. QED
    BY <1>2, <1>3, <1>4, <2>1, <2>2 DEF p

\* A rule runs once for a flip, so within the number of its report.
LEMMA RunRuleDrops ==
    ASSUME Events!StatusKnown, Events!DropsKnown, Events!RunRule
    PROVE  Events!DropsKnown'
<1> DEFINE p == Events!Min(job.todo)
           e == [rule |-> Watchers[p], on |-> job.on, as |-> transition[Watchers[p]],
                 edited |-> Watchers[p] \in edited]
           T == job.todo \ {p}
<1>1. PICK f \in [DOMAIN statusInbox -> 0..drops], j \in 0..drops, k \in 0..drops : Events!Numbered(f, j, k)
  BY NumberingIs
<1>2. drops \in Nat /\ offlineAlerts \in Nat /\ ruleRuns \in Seq(Events!Runs) /\ job.on \in BOOLEAN
  BY NumberingIs
<1>3. /\ job.step = "rules" /\ job' = Events!NextRule([job EXCEPT !.todo = T])
      /\ UNCHANGED <<brokerStatus, statusInbox, onlineTrack, offlineAlerts, drops>>
  <2>1. [job EXCEPT !.todo = @ \ {Events!Min(@)}] = [job EXCEPT !.todo = T]
    OBVIOUS
  <2>2. QED
    BY <2>1 DEF Events!RunRule
<1>4. /\ p \in job.todo /\ Watchers[p] \in Events!WatcherSet /\ e \in Events!Runs
      /\ e.rule = Watchers[p] /\ e.on = job.on
      /\ ruleRuns' = ruleRuns \/ ruleRuns' = Append(ruleRuns, e)
  BY RunIs
<1>5. job.todo \subseteq DOMAIN Watchers /\ T \in SUBSET DOMAIN Watchers
  BY DEF Events!StatusKnown, Events!StatusTypeOK, Events!Jobs
<1>6. \A i \in T : Watchers[i] # Watchers[p]
  BY <1>4, <1>5, WatchersAre
<1>7. /\ ~Events!InHand'
      /\ ~job'.on => ~job.on
      /\ job'.todo \subseteq T
  <2>1. T \in SUBSET DOMAIN Watchers
    BY <1>5
  <2> HIDE DEF T
  <2>2. \/ job'.step = "rules" /\ job'.on = job.on /\ job'.todo = T
        \/ job'.step = "notify" /\ job'.on = job.on /\ job'.todo = {}
        \/ job' = Events!NoJob
    BY <1>3, <2>1, NextRuleIs
  <2>3. QED
    BY <2>2 DEF Events!InHand, Events!NoJob
<1>8. ruleRuns' \in Seq(Events!Runs)
  <2> HIDE DEF e
  <2>1. QED
    BY <1>2, <1>4, AppendElements
<1>9. \A w \in Events!WatcherSet :
        Events!Cardinality(Events!Going(w)') + (IF ~job'.on /\ (\E i \in job'.todo : Watchers[i] = w) THEN 1 ELSE 0) <= k
  <2>1. ASSUME NEW w \in Events!WatcherSet
        PROVE  Events!Cardinality(Events!Going(w)') + (IF ~job'.on /\ (\E i \in job'.todo : Watchers[i] = w) THEN 1 ELSE 0) <= k
    <3>1. PICK n : n = Events!Cardinality(Events!Going(w)) /\ n \in Nat
      BY <1>2, GoingIs
    <3>2. n + (IF ~job.on /\ (\E i \in job.todo : Watchers[i] = w) THEN 1 ELSE 0) <= k
      BY <1>1, <3>1 DEF Events!Numbered
    <3>3. \/ Events!Cardinality(Events!Going(w)') = n
          \/ /\ Watchers[p] = w /\ ~job.on
             /\ Events!Cardinality(Events!Going(w)') = n + 1
      <4>1. CASE ruleRuns' = ruleRuns
        <5>1. Events!Going(w)' = Events!Going(w)
          BY <4>1 DEF Events!Going
        <5>2. QED
          BY <3>1, <5>1
      <4>2. CASE ruleRuns' = Append(ruleRuns, e)
        <5> HIDE DEF e
        <5>1. Events!Cardinality(Events!Going(w))' =
                Events!Cardinality(Events!Going(w)) + (IF e.rule = w /\ ~e.on THEN 1 ELSE 0)
          BY <1>2, <1>4, <4>2, GoingGrows
        <5>2. QED
          BY <1>4, <3>1, <5>1
      <4>3. QED
        BY <1>4, <4>1, <4>2
    <3>4. CASE Watchers[p] = w /\ ~job.on /\ Events!Cardinality(Events!Going(w)') = n + 1
      <4>1. ~(\E i \in job'.todo : Watchers[i] = w) /\ (\E i \in job.todo : Watchers[i] = w)
        BY <1>4, <1>6, <1>7, <3>4
      <4>2. QED
        BY <3>1, <3>2, <3>4, <4>1
    <3>5. CASE Events!Cardinality(Events!Going(w)') = n
      <4>1. ~job'.on /\ (\E i \in job'.todo : Watchers[i] = w) => ~job.on /\ (\E i \in job.todo : Watchers[i] = w)
        BY <1>7
      <4>2. QED
        BY <3>1, <3>2, <3>5, <4>1
    <3>6. QED
      BY <3>3, <3>4, <3>5
  <2>2. QED
    BY <2>1
<1>10. Events!Numbered(f, j, k)'
  <2>1. offlineAlerts + (IF job'.step \in {"rules", "notify"} /\ ~job'.on THEN 1 ELSE 0) <= k
    <3>1. offlineAlerts + (IF job.step \in {"rules", "notify"} /\ ~job.on THEN 1 ELSE 0) <= k
      BY <1>1 DEF Events!Numbered
    <3>2. QED
      BY <1>2, <1>3, <1>7, <3>1
  <2>2. /\ \A i \in DOMAIN statusInbox : k <= f[i] /\ Events!Before(statusInbox[i], f[i], brokerStatus, drops)
        /\ \A h, i \in DOMAIN statusInbox : h < i => Events!Before(statusInbox[h], f[h], statusInbox[i], f[i])
        /\ \A t \in onlineTrack :
             Events!Before(t, k, brokerStatus, drops) /\ \A i \in DOMAIN statusInbox : Events!Before(t, k, statusInbox[i], f[i])
        /\ k <= drops
    BY <1>1 DEF Events!Numbered
  <2>3. /\ brokerStatus' = brokerStatus /\ statusInbox' = statusInbox /\ onlineTrack' = onlineTrack
        /\ offlineAlerts' = offlineAlerts /\ drops' = drops
    BY <1>3
  <2>4. QED
    BY <1>7, <1>9, <2>1, <2>2, <2>3 DEF Events!Numbered, Events!Before, Events!WatcherSet
<1>11. QED
  BY <1>2, <1>3, <1>8, <1>10 DEF Events!DropsKnown, Events!Runs, Events!WatcherSet

\* The notification is the one the flip was counted for.
LEMMA NotifyOfflineDrops ==
    ASSUME Events!StatusKnown, Events!DropsKnown, Events!NotifyOffline
    PROVE  Events!DropsKnown'
<1>1. PICK f \in [DOMAIN statusInbox -> 0..drops], j \in 0..drops, k \in 0..drops : Events!Numbered(f, j, k)
  BY NumberingIs
<1>2. drops \in Nat /\ offlineAlerts \in Nat /\ ruleRuns \in Seq(Events!Runs)
  BY NumberingIs
<1>3. /\ job.step = "notify" /\ job' = Events!NoJob /\ ~job.on
      /\ offlineAlerts' = offlineAlerts + 1 \/ offlineAlerts' = offlineAlerts
      /\ UNCHANGED <<brokerStatus, statusInbox, onlineTrack, ruleRuns, drops>>
  BY DEF Events!NotifyOffline, Events!StatusKnown
<1>4. job'.step = "none" /\ job'.on /\ job'.todo = {}
  BY <1>3 DEF Events!NoJob
<1>5. Events!Numbered(f, j, k)'
  <2>1. offlineAlerts' + (IF job'.step \in {"rules", "notify"} /\ ~job'.on THEN 1 ELSE 0) <= k
    <3>1. offlineAlerts + 1 <= k
      BY <1>1, <1>3 DEF Events!Numbered
    <3>2. QED
      BY <1>2, <1>3, <1>4, <3>1
  <2>2. \A w : Events!Going(w)' = Events!Going(w)
    BY <1>3 DEF Events!Going
  <2>3. \A w \in Events!WatcherSet :
          Events!Cardinality(Events!Going(w)) + (IF ~job'.on /\ (\E i \in job'.todo : Watchers[i] = w) THEN 1 ELSE 0) <= k
    <3>1. \A w \in Events!WatcherSet : Events!Cardinality(Events!Going(w)) \in Nat
      BY <1>2, GoingIs
    <3>2. QED
      BY <1>1, <1>4, <3>1 DEF Events!Numbered
  <2>4. QED
    BY <1>1, <1>3, <1>4, <2>1, <2>2, <2>3 DEF Events!Numbered, Events!Before, Events!WatcherSet, Events!InHand
<1>6. offlineAlerts' \in Nat
  BY <1>2, <1>3
<1>7. QED
  BY <1>2, <1>3, <1>5, <1>6 DEF Events!DropsKnown, Events!Runs, Events!WatcherSet

\* The steps that leave a job where it is with its report.
LEMMA QuietStepsDrop ==
    ASSUME Events!StatusKnown, Events!DropsKnown,
           Events!record_status_snapshot \/ \E w \in Events!WatcherSet : Events!WatcherEdited(w)
    PROVE  Events!DropsKnown'
<1>1. UNCHANGED <<brokerStatus, statusInbox, onlineTrack, ruleRuns, offlineAlerts, drops>>
  BY DEF Events!record_status_snapshot, Events!WatcherEdited
<1>2. \/ job' = job
      \/ job.step = "snapshot" /\ job' = [job EXCEPT !.step = "event"]
  BY DEF Events!record_status_snapshot, Events!WatcherEdited
<1>3. /\ job'.on = job.on /\ job'.todo = job.todo /\ (Events!InHand' => Events!InHand)
      /\ job'.step \in {"rules", "notify"} => job.step \in {"rules", "notify"}
  <2>1. CASE job' = job
    BY <2>1 DEF Events!InHand
  <2>2. CASE job.step = "snapshot" /\ job' = [job EXCEPT !.step = "event"]
    <3>1. job'.step = "event" /\ job'.on = job.on /\ job'.todo = job.todo
      BY <2>2, JobsAre
    <3>2. QED
      BY <2>2, <3>1 DEF Events!InHand
  <2>3. QED
    BY <1>2, <2>1, <2>2
<1>4. QED
  BY <1>1, <1>3, QuietDrops

\* A rule runs for the flip it was found for.
LEMMA TransitionsKeep ==
    ASSUME Events!StatusInv, Events!StatusNext
    PROVE  Events!RunsOnItsTransition'
<1>1. ruleRuns \in Seq(Events!Runs) /\ Events!StatusKnown
      /\ \A i \in DOMAIN ruleRuns : ruleRuns[i].on \in ruleRuns[i].as \/ ruleRuns[i].edited
  BY DEF Events!StatusInv, Events!DropsKnown, Events!RunsOnItsTransition
<1>2. CASE ruleRuns' = ruleRuns
  BY <1>1, <1>2 DEF Events!RunsOnItsTransition
<1>3. CASE Events!RunRule
  <2>1. PICK e \in Events!Runs :
          /\ e.on \in e.as \/ e.edited
          /\ ruleRuns' = ruleRuns \/ ruleRuns' = Append(ruleRuns, e)
    BY <1>1, <1>3, RunIs
  <2>2. CASE ruleRuns' = Append(ruleRuns, e)
    <3>1. /\ DOMAIN ruleRuns' = 1..(Len(ruleRuns) + 1) /\ DOMAIN ruleRuns = 1..Len(ruleRuns) /\ Len(ruleRuns) \in Nat
          /\ \A i \in 1..Len(ruleRuns) : ruleRuns'[i] = ruleRuns[i]
          /\ ruleRuns'[Len(ruleRuns) + 1] = e
      BY <1>1, <2>2, AppendElements
    <3>2. \A i \in DOMAIN ruleRuns' : i \in DOMAIN ruleRuns \/ i = Len(ruleRuns) + 1
      BY <3>1
    <3>3. QED
      BY <1>1, <2>1, <3>1, <3>2 DEF Events!RunsOnItsTransition
  <2>3. QED
    BY <1>2, <2>1, <2>2
<1>4. ASSUME ~Events!RunRule
      PROVE  ruleRuns' = ruleRuns
  BY <1>4 DEF Events!StatusInv, Events!StatusNext, Events!HandlesStatus, Events!_handle_status, Events!record_status_snapshot,
       Events!HealthEvent, Events!NotifyOffline, Events!mqtt_ingest_loop, Events!DeviceReports, Events!LinkBreaks,
       Events!WorkerEnds, Events!WatcherEdited
<1>5. QED
  BY <1>2, <1>3, <1>4

\* The last report handled is what the broker retains.
LEMMA CatchesUpKeeps ==
    ASSUME Events!StatusInv, Events!StatusNext
    PROVE  Events!StatusCatchesUp'
<1>1. Events!StatusKnown /\ Events!StatusCatchesUp
  BY DEF Events!StatusInv
<1>2. CASE Events!DeviceReports
  <2>1. linked => statusInbox' # <<>>
    <3>1. PICK msgs \in {<<TRUE>>, <<FALSE>>, <<FALSE, TRUE>>} :
            Events!Broker(msgs) /\ msgs \in Seq(BOOLEAN) /\ msgs # <<>>
      BY <1>1, <1>2, DeviceReportsIs
    <3>2. QED
      BY <1>1, <3>1, BrokerLeaves
  <2>2. QED
    BY <1>2, <2>1 DEF Events!DeviceReports, Events!StatusCatchesUp, Events!StatusQuiet
<1>3. CASE Events!LinkBreaks \/ Events!mqtt_ingest_loop \/ Events!WorkerEnds
  <2>1. <<brokerStatus>> # <<>>
    OBVIOUS
  <2>2. QED
    BY <1>3, <2>1 DEF Events!LinkBreaks, Events!mqtt_ingest_loop, Events!WorkerEnds, Events!StatusCatchesUp, Events!StatusQuiet
<1>4. CASE \E w \in Events!WatcherSet : Events!WatcherEdited(w)
  BY <1>1, <1>4 DEF Events!WatcherEdited, Events!StatusCatchesUp, Events!StatusQuiet, Events!NoJob
<1>5. CASE Events!_handle_status
  <2>1. job' # Events!NoJob
    BY <1>5 DEF Events!_handle_status, Events!NoJob
  <2>2. QED
    BY <2>1 DEF Events!StatusCatchesUp, Events!StatusQuiet, Events!NoJob
<1>6. CASE Events!record_status_snapshot
  <2>1. job'.step = "event"
    BY <1>1, <1>6, JobsAre DEF Events!record_status_snapshot
  <2>2. job' # Events!NoJob
    BY <2>1 DEF Events!NoJob
  <2>3. QED
    BY <2>2 DEF Events!StatusCatchesUp, Events!StatusQuiet, Events!NoJob
<1>7. CASE Events!HealthEvent
  <2>1. job # Events!NoJob /\ statusRow = job.on
    BY <1>1, <1>7 DEF Events!HealthEvent, Events!StatusKnown, Events!NoJob
  <2>2. QED
    BY <1>1, <1>7, <2>1 DEF Events!HealthEvent, Events!StatusKnown, Events!StatusCatchesUp, Events!StatusQuiet
<1>8. CASE Events!RunRule \/ Events!NotifyOffline
  <2>1. job.step \in {"rules", "notify"} /\ job # Events!NoJob
    BY <1>8 DEF Events!RunRule, Events!NotifyOffline, Events!NoJob
  <2>2. UNCHANGED <<linked, statusInbox, brokerStatus, statusRow, shownOnline, onlineTrack>>
    BY <1>8 DEF Events!RunRule, Events!NotifyOffline
  <2>3. QED
    BY <1>1, <2>1, <2>2 DEF Events!StatusKnown, Events!StatusCatchesUp, Events!StatusQuiet
<1>9. QED
  BY <1>2, <1>3, <1>4, <1>5, <1>6, <1>7, <1>8 DEF Events!StatusInv, Events!StatusNext, Events!HandlesStatus

\* The first report is of the device that is online.
LEMMA StatusStarts ==
    ASSUME Events!StatusInit
    PROVE  Events!StatusInv
<1>1. Events!StatusKnown
  BY StatusStartsKnown
<1>2. /\ statusInbox = <<TRUE>> /\ brokerStatus = TRUE /\ onlineTrack = {} /\ job = Events!NoJob
      /\ ruleRuns = <<>> /\ offlineAlerts = 0 /\ drops = 0
  BY DEF Events!StatusInit
<1>3. ruleRuns \in Seq(Events!Runs) /\ DOMAIN ruleRuns = {}
  BY <1>2
<1>4. DOMAIN statusInbox = 1..1 /\ statusInbox[1] = TRUE
  BY <1>2
<1>5. PICK f : f = [i \in DOMAIN statusInbox |-> 0]
  OBVIOUS
<1>6. f \in [DOMAIN statusInbox -> 0..drops] /\ \A i \in DOMAIN statusInbox : f[i] = 0 /\ statusInbox[i] = TRUE
  <2>1. \A i \in 1..1 : i = 1
    OBVIOUS
  <2>2. \A i \in DOMAIN statusInbox : statusInbox[i] = TRUE
    BY <1>4, <2>1
  <2>3. QED
    BY <1>2, <1>5, <2>2
<1>7. Events!RunsOnItsTransition /\ Events!StatusCatchesUp
  <2>1. <<TRUE>> # <<>>
    OBVIOUS
  <2>2. QED
    BY <1>2, <1>3, <2>1 DEF Events!RunsOnItsTransition, Events!StatusCatchesUp, Events!StatusQuiet
<1>8. Events!Numbered(f, 0, 0)
  <2>1. \A w : Events!Cardinality(Events!Going(w)) = 0
    <3>1. \A w : Events!Going(w) = {}
      BY <1>3 DEF Events!Going
    <3>2. QED
      BY <3>1, EventsCount, FS_EmptySet
  <2>2. job.step = "none" /\ job.on /\ job.todo = {}
    BY <1>2 DEF Events!NoJob
  <2>3. \A h, i \in DOMAIN statusInbox : ~(h < i)
    BY <1>4
  <2>4. QED
    BY <1>2, <1>6, <2>1, <2>2, <2>3 DEF Events!Numbered, Events!Before, Events!InHand
<1>9. QED
  BY <1>1, <1>2, <1>3, <1>6, <1>7, <1>8 DEF Events!StatusInv, Events!DropsKnown

\* A step of the device's status, or of anything else.
LEMMA StatusStepKeeps ==
    ASSUME Events!StatusInv, Events!StatusNext \/ UNCHANGED deviceVars
    PROVE  Events!StatusInv'
<1>1. Events!StatusKnown /\ Events!DropsKnown
  BY DEF Events!StatusInv
<1>2. CASE UNCHANGED deviceVars
  <2>1. /\ UNCHANGED <<brokerStatus, disabled, transition, linked, statusInbox, onlineTrack, job>>
        /\ UNCHANGED <<statusRow, shownOnline, ruleRuns, offlineAlerts, drops, owed, edited>>
    BY <1>2 DEF deviceVars
  <2>2. Events!StatusKnown'
    BY <1>1, <2>1 DEF Events!StatusKnown, Events!StatusTypeOK, Events!Jobs, Events!Transitions, Events!WatcherSet, Events!NoJob
  <2>3. Events!DropsKnown'
    BY <1>1, <2>1, QuietDrops DEF Events!InHand
  <2>4. Events!RunsOnItsTransition' /\ Events!StatusCatchesUp'
    BY <2>1 DEF Events!StatusInv, Events!RunsOnItsTransition, Events!StatusCatchesUp, Events!StatusQuiet, Events!NoJob
  <2>5. QED
    BY <2>2, <2>3, <2>4 DEF Events!StatusInv
<1>3. CASE Events!StatusNext
  <2>1. Events!StatusKnown'
    BY <1>1, <1>3, DeviceReportsKnown, LinkKnown, WatcherEditedKnown, HandleKnown, HealthEventKnown, RunRuleKnown
    DEF Events!StatusNext, Events!HandlesStatus
  <2>2. Events!DropsKnown'
    BY <1>1, <1>3, DeviceReportsDrops, LinkDrops, QuietStepsDrop, HandleDrops, HealthEventDrops, RunRuleDrops, NotifyOfflineDrops
    DEF Events!StatusNext, Events!HandlesStatus
  <2>3. QED
    BY <1>3, <2>1, <2>2, TransitionsKeep, CatchesUpKeeps DEF Events!StatusInv
<1>4. QED
  BY <1>2, <1>3

\* What the numbers say of the alerts and the runs.
LEMMA StatusMeans ==
    ASSUME Events!StatusInv
    PROVE  /\ job.step \in {"none", "snapshot", "event", "rules", "notify"} /\ onlineTrack \subseteq BOOLEAN
           /\ Events!StatusCatchesUp /\ Events!NoFalseAlarm /\ Events!OfflineIsTold /\ Events!RunsOnItsTransition
<1>1. Events!StatusKnown /\ Events!DropsKnown /\ Events!StatusCatchesUp /\ Events!RunsOnItsTransition
  BY DEF Events!StatusInv
<1>2. job.step \in {"none", "snapshot", "event", "rules", "notify"} /\ onlineTrack \subseteq BOOLEAN
  BY <1>1 DEF Events!StatusKnown, Events!StatusTypeOK, Events!Jobs, Events!Transitions
<1>3. Events!NoFalseAlarm
  <2>1. PICK f \in [DOMAIN statusInbox -> 0..drops], j \in 0..drops, k \in 0..drops : Events!Numbered(f, j, k)
    BY <1>1, NumberingIs
  <2>2. drops \in Nat /\ offlineAlerts \in Nat /\ ruleRuns \in Seq(Events!Runs)
    BY <1>1, NumberingIs
  <2>3. offlineAlerts <= drops
    BY <2>1, <2>2 DEF Events!Numbered
  <2>4. ASSUME NEW w \in Events!WatcherSet
        PROVE  Events!Cardinality({i \in DOMAIN ruleRuns : ruleRuns[i].rule = w /\ ~ruleRuns[i].on}) <= drops
    <3>1. PICK n : n = Events!Cardinality(Events!Going(w)) /\ n \in Nat
      BY <2>2, GoingIs
    <3>2. n + (IF ~job.on /\ (\E i \in job.todo : Watchers[i] = w) THEN 1 ELSE 0) <= k
      BY <2>1, <3>1 DEF Events!Numbered
    <3>3. n <= drops
      BY <2>1, <2>2, <3>1, <3>2
    <3>4. QED
      BY <3>1, <3>3 DEF Events!Going
  <2>5. QED
    BY <2>3, <2>4 DEF Events!NoFalseAlarm
<1>4. Events!OfflineIsTold
  <2>1. ASSUME Events!StatusQuiet, ~brokerStatus, ~disabled, owed
        PROVE  FALSE
    <3>1. job = Events!NoJob /\ onlineTrack = {brokerStatus} /\ brokerStatus = FALSE
      BY <1>1, <2>1, NumberingIs DEF Events!StatusCatchesUp, Events!StatusQuiet
    <3>2. job.step = "none"
      BY <3>1 DEF Events!NoJob
    <3>3. onlineTrack = {TRUE}
      BY <1>1, <2>1, <3>2 DEF Events!StatusKnown
    <3>4. {FALSE} # {TRUE}
      OBVIOUS
    <3>5. QED
      BY <3>1, <3>3, <3>4, Zenon
  <2>2. QED
    BY <2>1 DEF Events!OfflineIsTold
<1>5. QED
  BY <1>1, <1>2, <1>3, <1>4

-----------------------------------------------------------------------------
(* Deliveries: what a step leaves of what is known. *)

\* The count of an instance is the count.
LEMMA SendCount == /\ \A S : Send!Cardinality(S) = Cardinality(S)
                   /\ \A S : Send!IsFiniteSet(S) <=> IsFiniteSet(S)
  BY DEF Send!Cardinality, Cardinality, Send!IsFiniteSet, IsFiniteSet

\* Rows are appended and marked, firings are appended.
Onward ==
  /\ results' \in Seq(Send!RowSet) /\ DOMAIN results \subseteq DOMAIN results'
  /\ \A r \in DOMAIN results :
       /\ results'[r].of = results[r].of /\ results'[r].status = results[r].status
       /\ results'[r].byTask = results[r].byTask /\ (results[r].retried => results'[r].retried)
  /\ DOMAIN fired \subseteq DOMAIN fired' /\ \A n \in DOMAIN fired : fired'[n] = fired[n]

\* A row that was there is of the same delivery.
LEMMA RetryOfStays ==
    ASSUME Onward, NEW r \in DOMAIN results
    PROVE  Send!RetryOf(r)' = Send!RetryOf(r)
  BY DEF Onward, Send!RetryOf

\* A step onward leaves what is known of a task that was there.
LEMMA OldTaskKnown ==
    ASSUME Onward, NEW t, Send!TaskKnown(t)
    PROVE  Send!TaskKnown(t)'
<1>1. t.of.firing \in DOMAIN fired' /\ (t.host = "worker" => t.of.by = 0 /\ t.of \in fired'[t.of.firing].owes)
  BY DEF Onward, Send!TaskKnown
<1>2. t.host = "api" => t.of.by \in DOMAIN results' /\ results'[t.of.by].retried /\ t.of = Send!RetryOf(t.of.by)'
  BY RetryOfStays DEF Onward, Send!TaskKnown
<1>3. IF t.phase = "telling" THEN t.row \in DOMAIN results' /\ results'[t.row].of = t.of ELSE t.row = 0
  BY DEF Onward, Send!TaskKnown
<1>4. QED
  BY <1>1, <1>2, <1>3 DEF Send!TaskKnown

\* And what is known of a row that was there.
LEMMA OldRowKnown ==
    ASSUME Onward, NEW r \in DOMAIN results, Send!RowKnown(r)
    PROVE  Send!RowKnown(r)'
<1>1. results'[r].of = results[r].of
  BY DEF Onward
<1>2. results[r].of.by # 0 =>
        /\ results[r].of.by \in DOMAIN results /\ results[results[r].of.by].retried
        /\ results[r].of = Send!RetryOf(results[r].of.by)
  BY DEF Send!RowKnown
<1>3. results[r].of.by # 0 =>
        /\ results[r].of.by \in DOMAIN results' /\ results'[results[r].of.by].retried
        /\ results[r].of = Send!RetryOf(results[r].of.by)'
  BY <1>2, RetryOfStays DEF Onward
<1>4. results[r].of.firing \in DOMAIN fired'
  BY DEF Onward, Send!RowKnown
<1>5. QED
  BY <1>1, <1>3, <1>4 DEF Send!RowKnown

\* A firing in dispatch, with nothing new written or spawned for it.
LEMMA OldFiringKnown ==
    ASSUME Onward, NEW l \in Send!DeliveryLoops, Send!FiringKnown(l), firing'[l] = firing[l],
           \A r \in DOMAIN results' \ DOMAIN results : results'[r].of.firing # firing[l].n,
           \A t \in tasks' \ tasks : t.of.firing # firing[l].n,
           \A k \in Send!DeliveryLoops : firing'[k].n = firing[l].n => k = l
    PROVE  Send!FiringKnown(l)'
<1> DEFINE f == firing[l]
           n == firing[l].n
<1>1. /\ n \in DOMAIN fired' /\ fired'[n] = fired[n] /\ IsFiniteSet(f.inline)
      /\ \A x \in f.inline : x.of.firing = n /\ x.of.by = 0 /\ ~x.byTask /\ ~x.retried
      /\ \/ f.spawn = fired[n].owes /\ \A x \in f.inline : x.of \notin fired[n].owes
         \/ f.spawn = {} /\ \A d \in fired[n].owes : \E x \in f.inline : \A y \in f.inline : y.of = d <=> y = x
  BY SendCount DEF Onward, Send!FiringKnown
<1>2. \A r \in DOMAIN results' : results'[r].of.firing # n
  BY DEF Onward, Send!FiringKnown
<1>3. \A t \in tasks' : t.of.firing # n
  BY DEF Send!FiringKnown
<1>4. QED
  BY <1>1, <1>2, <1>3, SendCount DEF Send!FiringKnown, Send!DeliveryLoops

\* A request that stands is as it was, unless its row was raced.
LEMMA OldRetryKnown ==
    ASSUME Onward, NEW q \in Send!RetrySlots, Send!RetryKnown(q), retries'[q] = retries[q], raced \subseteq raced',
           retries[q].row \notin raced' =>
             /\ ~results[retries[q].row].retried => ~results'[retries[q].row].retried
             /\ \A p \in Send!RetrySlots : retries'[p].row = retries[q].row => retries[p].row = retries[q].row
    PROVE  Send!RetryKnown(q)'
<1>0. PICK r : r = retries[q].row
  OBVIOUS
<1>1. r \in DOMAIN results /\ retries[q].spawn = {Send!RetryOf(r)}
      /\ (r \notin raced => ~results[r].retried /\ \A p \in Send!RetrySlots : retries[p].row = r => p = q)
  BY <1>0 DEF Send!RetryKnown
<1>2. Send!RetryOf(r)' = Send!RetryOf(r) /\ r \in DOMAIN results'
  BY <1>1, RetryOfStays DEF Onward
<1>3. r \notin raced' => ~results'[r].retried /\ \A p \in Send!RetrySlots : retries'[p].row = r => p = q
  BY <1>0, <1>1
<1>4. retries'[q].row = r /\ retries'[q].spawn = {Send!RetryOf(r)'}
  BY <1>0, <1>1, <1>2
<1>5. QED
  BY <1>2, <1>3, <1>4 DEF Send!RetryKnown, Send!RetryOf, Send!RetrySlots

\* What is left to show of a step: what is new is known as well.
LEMMA DispatchKeeps ==
    ASSUME Send!DispatchKnown, Onward,
           \A n \in DOMAIN fired' \ DOMAIN fired :
             IsFiniteSet(fired'[n].owes) /\ \A d \in fired'[n].owes : d.firing = n /\ d.by = 0 /\ d.kind # "relay",
           \A l \in Send!DeliveryLoops : firing'[l] = Send!NoFiring \/ Send!FiringKnown(l)',
           \A t \in tasks' \ tasks : Send!TaskKnown(t)',
           \A r \in DOMAIN results' \ DOMAIN results : Send!RowKnown(r)',
           \A q \in Send!RetrySlots : retries'[q] = Send!NoRetry \/ Send!RetryKnown(q)',
           \A i \in DOMAIN resent' : \/ i \in DOMAIN resent /\ resent'[i] = resent[i]
                                     \/ resent'[i] \in DOMAIN results' /\ results'[resent'[i]].retried
    PROVE  Send!DispatchKnown'
<1>1. Send!OwesKnown'
  BY SendCount DEF Send!DispatchKnown, Send!OwesKnown, Onward
<1>2. \A t \in tasks' : Send!TaskKnown(t)'
  BY OldTaskKnown DEF Send!DispatchKnown
<1>3. \A r \in DOMAIN results' : Send!RowKnown(r)'
  BY OldRowKnown DEF Send!DispatchKnown
<1>4. \A i \in DOMAIN resent' : resent'[i] \in DOMAIN results' /\ results'[resent'[i]].retried
  BY DEF Send!DispatchKnown, Onward
<1>5. \A l \in Send!DeliveryLoops : firing'[l] = Send!NoFiring \/ Send!FiringKnown(l)'
  OBVIOUS
<1>6. \A q \in Send!RetrySlots : retries'[q] = Send!NoRetry \/ Send!RetryKnown(q)'
  OBVIOUS
<1>7. QED
  BY <1>1, <1>2, <1>3, <1>4, <1>5, <1>6 DEF Send!DispatchKnown, Send!DeliveryLoops, Send!RetrySlots, Send!NoFiring, Send!NoRetry

\* Steps that leave the firings in dispatch and the requests alone.
LEMMA StandingKnown ==
    ASSUME Send!DispatchKnown, Onward, UNCHANGED <<firing, fired, retries, resent, raced>>,
           \A r \in DOMAIN results : results'[r].retried = results[r].retried,
           \A t \in tasks' \ tasks : Send!TaskKnown(t)' /\ \E u \in tasks : t.of = u.of,
           \A r \in DOMAIN results' \ DOMAIN results : Send!RowKnown(r)' /\ \E u \in tasks : results'[r].of = u.of
    PROVE  Send!DispatchKnown'
<1>1. ASSUME NEW l \in Send!DeliveryLoops
      PROVE  firing'[l] = Send!NoFiring \/ Send!FiringKnown(l)'
  <2>1. CASE firing[l] = Send!NoFiring
    BY <2>1
  <2>2. CASE Send!FiringKnown(l)
    <3>1. \A t \in tasks : t.of.firing # firing[l].n
      BY <2>2 DEF Send!FiringKnown
    <3>2. \A k \in Send!DeliveryLoops : firing[k].n = firing[l].n => k = l
      BY <2>2 DEF Send!FiringKnown
    <3>3. /\ \A r \in DOMAIN results' \ DOMAIN results : results'[r].of.firing # firing[l].n
          /\ \A t \in tasks' \ tasks : t.of.firing # firing[l].n
      BY <3>1
    <3>4. Send!FiringKnown(l)'
      BY <2>2, <3>2, <3>3, OldFiringKnown
    <3>5. QED
      BY <3>4
  <2>3. QED
    BY <2>1, <2>2 DEF Send!DispatchKnown
<1>2. ASSUME NEW q \in Send!RetrySlots
      PROVE  retries'[q] = Send!NoRetry \/ Send!RetryKnown(q)'
  <2>1. CASE retries[q] = Send!NoRetry
    BY <2>1
  <2>2. CASE Send!RetryKnown(q)
    <3>1. retries[q].row \in DOMAIN results
      BY <2>2 DEF Send!RetryKnown
    <3>2. Send!RetryKnown(q)'
      BY <2>2, <3>1, OldRetryKnown
    <3>3. QED
      BY <3>2
  <2>3. QED
    BY <2>1, <2>2 DEF Send!DispatchKnown
<1>3. \A n \in DOMAIN fired' \ DOMAIN fired :
             IsFiniteSet(fired'[n].owes) /\ \A d \in fired'[n].owes : d.firing = n /\ d.by = 0 /\ d.kind # "relay"
  OBVIOUS
<1>4. QED
  BY <1>1, <1>2, <1>3, DispatchKeeps

-----------------------------------------------------------------------------
(* What each step of a delivery does. *)

\* A row as RowOf writes it.
LEMMA RowOfIs ==
    ASSUME NEW d \in Send!Deliveries, NEW status \in Send!Statuses, NEW byTask \in BOOLEAN
    PROVE  /\ Send!RowOf(d, status, byTask) \in Send!RowSet
           /\ Send!RowOf(d, status, byTask).of = d /\ Send!RowOf(d, status, byTask).status = status
           /\ Send!RowOf(d, status, byTask).byTask = byTask /\ Send!RowOf(d, status, byTask).retried = FALSE
  BY DEF Send!RowOf, Send!RowSet

\* A row appended is a step onward.
LEMMA AppendOnward ==
    ASSUME Send!DeliveryTypes, UNCHANGED fired, NEW x \in Send!RowSet, results' = Append(results, x)
    PROVE  /\ Onward /\ DOMAIN results' \ DOMAIN results = {Len(results) + 1} /\ results'[Len(results) + 1] = x
           /\ \A r \in DOMAIN results : results'[r] = results[r]
           /\ Len(results) + 1 \in Nat \ {0}
<1>1. results \in Seq(Send!RowSet)
  BY DEF Send!DeliveryTypes
<1>2. /\ results' \in Seq(Send!RowSet) /\ DOMAIN results' = 1..(Len(results) + 1)
      /\ DOMAIN results = 1..Len(results) /\ Len(results) \in Nat
      /\ \A i \in 1..Len(results) : results'[i] = results[i] /\ results[i] \in Send!RowSet
      /\ results'[Len(results) + 1] = x
  BY <1>1, AppendElements
<1>3. DOMAIN results' \ DOMAIN results = {Len(results) + 1} /\ DOMAIN results \subseteq DOMAIN results'
  BY <1>2
<1>4. Onward
  BY <1>2, <1>3 DEF Onward
<1>5. QED
  BY <1>2, <1>3, <1>4

\* A task goes on: it keeps its delivery and has written nothing.
Goes(t, u) ==
  /\ t.phase # "telling" /\ u \in Send!TaskSet
  /\ u.of = t.of /\ u.host = t.host /\ u.row = t.row /\ u.phase \in {"waiting", "trying", "writing"}
  /\ \/ t.phase \in {"trying", "writing"} \/ u.phase = "waiting"
     \/ Cardinality(Send!Holders(t.host)) < Permits \/ ~Send!Locked(t.host)
  /\ tasks' = (tasks \ {t}) \cup {u}
  /\ UNCHANGED <<results, told, cut>>

\* It writes its row.
Writes(t) ==
  /\ t.phase = "writing"
  /\ \E status \in Send!Statuses : results' = Append(results, Send!RowOf(t.of, status, TRUE))
                                   /\ \/ /\ status = "failed"
                                         /\ tasks' = (tasks \ {t}) \cup {[t EXCEPT !.phase = "telling", !.row = Len(results) + 1]}
                                         /\ UNCHANGED <<told, cut>>
                                      \/ /\ status = "success" /\ tasks' = tasks \ {t} /\ UNCHANGED <<told, cut>>
                                      \/ /\ tasks' = tasks \ {t} /\ cut' = cut \cup {t.of} /\ UNCHANGED told

\* It leaves: cut off, or with what it gave up told.
Leaves(t) ==
  /\ tasks' = tasks \ {t} /\ UNCHANGED results
  /\ \/ cut' = cut \cup {t.of} /\ UNCHANGED told
     \/ t.phase = "telling" /\ told' = told \cup {t.row} /\ UNCHANGED cut

\* A step of a task: it leaves, writes its row, or goes on as another of its host and delivery.
LEMMA TaskStepIs ==
    ASSUME Send!DeliveryTypes, Send!TaskStep
    PROVE  /\ UNCHANGED <<actions, firing, fired, retries, draining, resent, raced>>
           /\ \E t \in tasks : Leaves(t) \/ Writes(t) \/ \E u : Goes(t, u)
<1>1. PICK t \in tasks : Send!Enter(t) \/ Send!Attempt(t) \/ Send!WriteResult(t) \/ Send!Tell(t)
  BY DEF Send!TaskStep
<1>2. UNCHANGED <<actions, firing, fired, retries, draining, resent, raced>>
  BY <1>1 DEF Send!Enter, Send!Attempt, Send!WriteResult, Send!Tell, Send!inTask
<1>3. /\ t \in Send!TaskSet /\ t.of \in Send!Deliveries /\ t.status \in Send!Statuses
      /\ t.phase \in {"ready", "waiting", "trying", "writing", "telling"} /\ t.tries + 1 \in Nat
  BY DEF Send!DeliveryTypes, Send!TaskSet
<1>4. ASSUME NEW p \in {"waiting", "trying", "writing"}, NEW status \in Send!Statuses, NEW n \in Nat
      PROVE  LET u == [t EXCEPT !.phase = p, !.status = status, !.tries = n]
             IN  u \in Send!TaskSet /\ u.of = t.of /\ u.host = t.host /\ u.row = t.row /\ u.phase = p
  BY <1>3 DEF Send!TaskSet
<1>5. CASE Send!Enter(t)
  <2>1. UNCHANGED <<results, told, cut>>
    BY <1>5 DEF Send!Enter
  <2>2. ASSUME NEW p \in {"waiting", "trying"}
        PROVE  LET u == [t EXCEPT !.phase = p]
               IN  u \in Send!TaskSet /\ u.of = t.of /\ u.host = t.host /\ u.row = t.row /\ u.phase = p
    BY <1>3 DEF Send!TaskSet
  <2>3. CASE t.phase = "ready" /\ Send!Becomes(t, [t EXCEPT !.phase = IF Send!Locked(t.host) THEN "waiting" ELSE "trying"])
    <3>1. CASE Send!Locked(t.host)
      <4> DEFINE u == [t EXCEPT !.phase = "waiting"]
      <4>1. u \in Send!TaskSet /\ u.of = t.of /\ u.host = t.host /\ u.row = t.row /\ u.phase = "waiting"
        BY <2>2
      <4>2. tasks' = (tasks \ {t}) \cup {u}
        BY <2>3, <3>1 DEF Send!Becomes
      <4>3. Goes(t, u)
        <5> HIDE DEF u
        <5>1. QED
          BY <2>1, <2>3, <4>1, <4>2 DEF Goes
      <4>4. QED
        BY <1>2, <4>3
    <3>2. CASE ~Send!Locked(t.host)
      <4> DEFINE u == [t EXCEPT !.phase = "trying"]
      <4>1. u \in Send!TaskSet /\ u.of = t.of /\ u.host = t.host /\ u.row = t.row /\ u.phase = "trying"
        BY <2>2
      <4>2. tasks' = (tasks \ {t}) \cup {u}
        BY <2>3, <3>2 DEF Send!Becomes
      <4>3. Goes(t, u)
        <5> HIDE DEF u
        <5>1. QED
          BY <2>1, <2>3, <3>2, <4>1, <4>2 DEF Goes
      <4>4. QED
        BY <1>2, <4>3
    <3>3. QED
      BY <3>1, <3>2
  <2>4. CASE /\ t.phase = "waiting" /\ Send!Cardinality(Send!Holders(t.host)) < Permits
             /\ Send!Becomes(t, [t EXCEPT !.phase = "trying"])
    <3> DEFINE u == [t EXCEPT !.phase = "trying"]
    <3>1. u \in Send!TaskSet /\ u.of = t.of /\ u.host = t.host /\ u.row = t.row /\ u.phase = "trying"
      BY <2>2
    <3>2. tasks' = (tasks \ {t}) \cup {u}
      BY <2>4 DEF Send!Becomes
    <3>3. Cardinality(Send!Holders(t.host)) < Permits
      BY <2>4, SendCount
    <3>4. Goes(t, u)
      <4> HIDE DEF u
      <4>1. QED
        BY <2>1, <2>4, <3>1, <3>2, <3>3 DEF Goes
    <3>5. QED
      BY <1>2, <3>4
  <2>5. QED
    BY <1>5, <2>3, <2>4 DEF Send!Enter
<1>6. CASE Send!Attempt(t)
  <2>1. t.phase = "trying" /\ UNCHANGED <<results, told, cut>>
    BY <1>6 DEF Send!Attempt
  <2>2. PICK u : tasks' = (tasks \ {t}) \cup {u} /\ \/ u = [t EXCEPT !.phase = "writing", !.status = "success", !.tries = @ + 1]
                                                    \/ u = [t EXCEPT !.tries = @ + 1]
                                                    \/ u = [t EXCEPT !.phase = "writing", !.tries = @ + 1]
                                                    \/ u = [t EXCEPT !.phase = "writing"]
    BY <1>6 DEF Send!Attempt, Send!Becomes
  <2>3. u \in Send!TaskSet /\ u.of = t.of /\ u.host = t.host /\ u.row = t.row /\ u.phase \in {"trying", "writing"}
    BY <1>3, <2>1, <2>2 DEF Send!TaskSet, Send!Statuses
  <2>4. Goes(t, u)
    BY <2>1, <2>2, <2>3 DEF Goes
  <2>5. QED
    BY <1>2, <2>4
<1>7. CASE Send!WriteResult(t)
  <2>1. t.phase = "writing" /\ UNCHANGED told /\ t.status \in {"success", "failed"}
    BY <1>3, <1>7 DEF Send!WriteResult, Send!Statuses
  <2>2. CASE /\ results' = Append(results, Send!RowOf(t.of, t.status, TRUE)) /\ UNCHANGED cut
             /\ IF t.status = "failed"
                THEN Send!Becomes(t, [t EXCEPT !.phase = "telling", !.row = Len(results) + 1])
                ELSE Send!Ends(t)
    <3>1. CASE t.status = "failed"
      <4>1. tasks' = (tasks \ {t}) \cup {[t EXCEPT !.phase = "telling", !.row = Len(results) + 1]}
        BY <2>2, <3>1 DEF Send!Becomes
      <4>2. Writes(t)
        BY <1>3, <2>1, <2>2, <3>1, <4>1 DEF Writes
      <4>3. QED
        BY <1>2, <4>2
    <3>2. CASE t.status = "success"
      <4>1. tasks' = tasks \ {t}
        BY <2>2, <3>2 DEF Send!Ends
      <4>2. Writes(t)
        BY <1>3, <2>1, <2>2, <3>2, <4>1 DEF Writes
      <4>3. QED
        BY <1>2, <4>2
    <3>3. QED
      BY <2>1, <3>1, <3>2
  <2>3. CASE cut' = cut \cup {t.of} /\ Send!Ends(t) /\ UNCHANGED results
    BY <1>2, <2>1, <2>3 DEF Leaves, Send!Ends
  <2>4. CASE cut' = cut \cup {t.of} /\ Send!Ends(t) /\ results' = Append(results, Send!RowOf(t.of, t.status, TRUE))
    <3>1. Writes(t)
      BY <1>3, <2>1, <2>4 DEF Writes, Send!Ends
    <3>2. QED
      BY <1>2, <3>1
  <2>5. QED
    BY <1>7, <2>2, <2>3, <2>4 DEF Send!WriteResult
<1>8. CASE Send!Tell(t)
  <2>1. Leaves(t)
    BY <1>8 DEF Send!Tell, Send!Ends, Leaves
  <2>2. QED
    BY <1>2, <2>1
<1>9. QED
  BY <1>1, <1>5, <1>6, <1>7, <1>8

-----------------------------------------------------------------------------
(* Each delivery once. *)

\* Nothing of a delivery changes but that it may be counted as cut off.
LEMMA SameSingle ==
    ASSUME NEW d, Send!Single(d), cut \subseteq cut', Send!InDispatch(d)' <=> Send!InDispatch(d),
           Send!RowsOf(d)' = Send!RowsOf(d), Send!PendingOf(d)' = Send!PendingOf(d)
    PROVE  Send!Single(d)'
  BY DEF Send!Single

\* Its tasks leave, and it is counted as cut off.
LEMMA CutSingle ==
    ASSUME NEW d, Send!Single(d), cut \subseteq cut', Send!InDispatch(d)' => Send!InDispatch(d),
           Send!RowsOf(d)' = Send!RowsOf(d), Send!PendingOf(d)' \subseteq Send!PendingOf(d),
           Send!PendingOf(d)' = Send!PendingOf(d) \/ d \in cut', Send!InDispatch(d) => Send!InDispatch(d)' \/ d \in cut'
    PROVE  Send!Single(d)'
  BY DEF Send!Single

\* What a task does to its delivery and to the others.
LEMMA TaskSingle ==
    ASSUME Send!DeliveryTypes, UNCHANGED <<firing, fired>>, NEW t \in tasks,
           Leaves(t) \/ Writes(t) \/ \E u : Goes(t, u), NEW d, Send!Single(d)
    PROVE  Send!Single(d)'
<1>1. Send!InDispatch(d)' <=> Send!InDispatch(d)
  BY DEF Send!InDispatch, Send!Dispatched, Send!NoFiring, Send!DeliveryLoops
<1>2. t \in Send!TaskSet /\ t.of \in Send!Deliveries
  BY DEF Send!DeliveryTypes, Send!TaskSet
<1>3. cut \subseteq cut'
  BY DEF Leaves, Writes, Goes
<1>4. CASE Leaves(t)
  <2>1. Send!RowsOf(d)' = Send!RowsOf(d) /\ Send!PendingOf(d)' \subseteq Send!PendingOf(d)
    BY <1>4 DEF Leaves, Send!RowsOf, Send!PendingOf
  <2>2. Send!PendingOf(d)' = Send!PendingOf(d) \/ d \in cut'
    BY <1>4 DEF Leaves, Send!PendingOf
  <2>3. QED
    BY <1>1, <1>3, <2>1, <2>2, CutSingle
<1>5. CASE \E u : Goes(t, u)
  <2>1. PICK u : Goes(t, u)
    BY <1>5
  <2>2. /\ u.of = t.of /\ u.phase # "telling" /\ t.phase # "telling" /\ tasks' = (tasks \ {t}) \cup {u}
        /\ UNCHANGED results
    BY <2>1 DEF Goes
  <2>3. Send!RowsOf(d)' = Send!RowsOf(d)
    BY <2>2 DEF Send!RowsOf
  <2>4. CASE t.of # d
    <3>1. Send!PendingOf(d)' = Send!PendingOf(d)
      BY <2>2, <2>4 DEF Send!PendingOf
    <3>2. QED
      BY <1>1, <1>3, <2>3, <3>1, SameSingle
  <2>5. CASE t.of = d
    <3>1. t \in Send!PendingOf(d)
      BY <2>2, <2>5 DEF Send!PendingOf
    <3>2. Send!PendingOf(d) = {t} /\ Send!RowsOf(d) = {} /\ ~Send!InDispatch(d)
      BY <3>1 DEF Send!Single
    <3>3. Send!PendingOf(d)' = {u}
      <4>1. \A v \in tasks : v.of = d /\ v.phase # "telling" => v = t
        BY <3>2 DEF Send!PendingOf
      <4>2. QED
        BY <2>2, <2>5, <4>1 DEF Send!PendingOf
    <3>4. QED
      BY <1>1, <2>3, <3>2, <3>3 DEF Send!Single
  <2>6. QED
    BY <2>4, <2>5
<1>6. CASE Writes(t)
  <2>1. PICK status \in Send!Statuses :
          /\ results' = Append(results, Send!RowOf(t.of, status, TRUE))
          /\ \/ tasks' = (tasks \ {t}) \cup {[t EXCEPT !.phase = "telling", !.row = Len(results) + 1]}
             \/ tasks' = tasks \ {t}
    BY <1>6 DEF Writes
  <2>2. PICK x : x = Send!RowOf(t.of, status, TRUE)
    OBVIOUS
  <2>3. x \in Send!RowSet /\ x.of = t.of
    BY <1>2, <2>2, RowOfIs
  <2>4. /\ DOMAIN results' \ DOMAIN results = {Len(results) + 1} /\ results'[Len(results) + 1] = x
        /\ DOMAIN results \subseteq DOMAIN results'
        /\ \A r \in DOMAIN results : results'[r] = results[r]
    BY <2>1, <2>2, <2>3, AppendOnward DEF Onward
  <2>5. [t EXCEPT !.phase = "telling", !.row = Len(results) + 1].phase = "telling" /\ t.phase # "telling"
    BY <1>2, <1>6 DEF Send!TaskSet, Writes
  <2>6. Send!PendingOf(d)' = Send!PendingOf(d) \ {t}
    <3>1. PICK u : u = [t EXCEPT !.phase = "telling", !.row = Len(results) + 1]
      OBVIOUS
    <3>2. u.phase = "telling" /\ (tasks' = (tasks \ {t}) \cup {u} \/ tasks' = tasks \ {t})
      BY <2>1, <2>5, <3>1
    <3>3. QED
      BY <3>2 DEF Send!PendingOf
  <2>7. CASE t.of # d
    <3>1. Send!PendingOf(d)' = Send!PendingOf(d)
      BY <2>6, <2>7 DEF Send!PendingOf
    <3>2. Send!RowsOf(d)' = Send!RowsOf(d)
      BY <2>3, <2>4, <2>7 DEF Send!RowsOf
    <3>3. QED
      BY <1>1, <1>3, <3>1, <3>2, SameSingle
  <2>8. CASE t.of = d
    <3>1. t \in Send!PendingOf(d)
      BY <2>5, <2>8 DEF Send!PendingOf
    <3>2. Send!PendingOf(d) = {t} /\ Send!RowsOf(d) = {} /\ ~Send!InDispatch(d)
      BY <3>1 DEF Send!Single
    <3>3. Send!RowsOf(d)' = {Len(results) + 1}
      <4>1. \A r \in DOMAIN results : results[r].of # d
        BY <3>2 DEF Send!RowsOf
      <4>2. QED
        BY <2>3, <2>4, <2>8, <4>1 DEF Send!RowsOf
    <3>4. QED
      BY <1>1, <2>6, <3>2, <3>3 DEF Send!Single
  <2>9. QED
    BY <2>7, <2>8
<1>7. QED
  BY <1>4, <1>5, <1>6

\* Each delivery owed and each retry, when the deliveries there are stay.
LEMMA AllStaySingle ==
    ASSUME Send!AllSingle, Onward, fired' = fired, raced \subseteq raced',
           \A d : Send!Single(d) => Send!Single(d)',
           \A r \in DOMAIN results' : results'[r].retried => r \in DOMAIN results /\ results[r].retried
    PROVE  Send!AllSingle'
<1>1. ASSUME NEW r \in DOMAIN results', results'[r].retried, r \notin raced'
      PROVE  Send!Single(Send!RetryOf(r))'
  <2>1. PICK d : d = Send!RetryOf(r)
    OBVIOUS
  <2>2. Send!RetryOf(r)' = d /\ Send!Single(d)
    BY <1>1, <2>1, RetryOfStays DEF Send!AllSingle
  <2>3. Send!Single(d)'
    BY <2>2
  <2>4. QED
    BY <2>2, <2>3 DEF Send!Single, Send!RowsOf, Send!PendingOf, Send!InDispatch
<1>2. \A n \in DOMAIN fired' : \A d \in fired'[n].owes : Send!Single(d)'
  BY DEF Send!AllSingle
<1>3. QED
  BY <1>1, <1>2 DEF Send!AllSingle

-----------------------------------------------------------------------------
(* A step of a task. *)

\* Such a step makes tasks and rows of their kinds.
LEMMA TaskTypes ==
    ASSUME Send!DeliveryTypes, UNCHANGED <<actions, firing, fired, retries, resent>>, NEW t \in tasks,
           Leaves(t) \/ Writes(t) \/ \E u : Goes(t, u),
           t.phase = "telling" => t.row \in DOMAIN results
    PROVE  Send!DeliveryTypes'
<1>1. /\ t \in Send!TaskSet /\ t.of \in Send!Deliveries /\ tasks \subseteq Send!TaskSet /\ IsFiniteSet(tasks)
      /\ results \in Seq(Send!RowSet) /\ told \subseteq DOMAIN results
  BY SendCount DEF Send!DeliveryTypes, Send!TaskSet
<1>2. /\ \A edge \in DOMAIN actions : actions[edge] \in Seq(Send!ActionKinds)
      /\ fired \in Seq([edge : DOMAIN actions, owes : SUBSET Send!Deliveries])
      /\ firing \in [Send!DeliveryLoops -> Send!FiringSet]
      /\ retries \in [Send!RetrySlots -> [row : Nat, spawn : SUBSET Send!Deliveries]]
      /\ resent \in Seq(Nat)
  BY DEF Send!DeliveryTypes
<1>3. IsFiniteSet(tasks \ {t}) /\ \A u : IsFiniteSet((tasks \ {t}) \cup {u})
  BY <1>1, FS_RemoveElement, FS_AddElement
<1>4. tasks' \subseteq Send!TaskSet /\ IsFiniteSet(tasks') /\ results' \in Seq(Send!RowSet) /\ told' \subseteq DOMAIN results'
  <2>1. CASE Leaves(t)
    BY <1>1, <1>3, <2>1 DEF Leaves
  <2>2. CASE \E u : Goes(t, u)
    BY <1>1, <1>3, <2>2 DEF Goes
  <2>3. CASE Writes(t)
    <3>1. PICK status \in Send!Statuses :
            /\ results' = Append(results, Send!RowOf(t.of, status, TRUE)) /\ told' = told
            /\ \/ tasks' = (tasks \ {t}) \cup {[t EXCEPT !.phase = "telling", !.row = Len(results) + 1]}
               \/ tasks' = tasks \ {t}
      BY <2>3 DEF Writes
    <3>2. PICK x : x = Send!RowOf(t.of, status, TRUE)
      OBVIOUS
    <3>3. x \in Send!RowSet
      BY <1>1, <3>2, RowOfIs
    <3>4. Onward /\ Len(results) + 1 \in Nat \ {0}
      BY <1>2, <3>1, <3>2, <3>3, AppendOnward
    <3>5. [t EXCEPT !.phase = "telling", !.row = Len(results) + 1] \in Send!TaskSet
      BY <1>1, <3>4 DEF Send!TaskSet
    <3>6. PICK u : u = [t EXCEPT !.phase = "telling", !.row = Len(results) + 1]
      OBVIOUS
    <3>7. tasks' \subseteq Send!TaskSet /\ IsFiniteSet(tasks')
      BY <1>1, <1>3, <3>1, <3>5, <3>6
    <3>8. QED
      BY <1>1, <3>1, <3>4, <3>7 DEF Onward
  <2>4. QED
    BY <2>1, <2>2, <2>3
<1>5. /\ UNCHANGED <<actions, fired, firing, retries, resent>>
  OBVIOUS
<1>6. QED
  BY <1>2, <1>4, <1>5, SendCount DEF Send!DeliveryTypes, Send!Deliveries, Send!RowSet, Send!TaskSet, Send!FiringSet, Send!Statuses,
      Send!DeliveryLoops, Send!RetrySlots

\* Such a step leaves every delivery, task and row where the dispatch put it.
LEMMA TaskDispatch ==
    ASSUME Send!DeliveryTypes, Send!DispatchKnown, UNCHANGED <<actions, firing, fired, retries, resent, raced>>,
           NEW t \in tasks, Leaves(t) \/ Writes(t) \/ \E u : Goes(t, u)
    PROVE  /\ Send!DispatchKnown' /\ Onward
           /\ \A r \in DOMAIN results' : results'[r].retried => r \in DOMAIN results /\ results[r].retried
<1>1. /\ t \in Send!TaskSet /\ t.of \in Send!Deliveries /\ results \in Seq(Send!RowSet) /\ Send!TaskKnown(t)
  BY DEF Send!DeliveryTypes, Send!TaskSet, Send!DispatchKnown
<1>2. ASSUME UNCHANGED results
      PROVE  Onward
  BY <1>1, <1>2 DEF Onward
<1>3. CASE Leaves(t)
  <2>1. Onward
    BY <1>2, <1>3 DEF Leaves
  <2>2. tasks' \subseteq tasks /\ results' = results
    BY <1>3 DEF Leaves
  <2>3. QED
    BY <2>1, <2>2, StandingKnown
<1>4. CASE \E u : Goes(t, u)
  <2>1. PICK u : Goes(t, u)
    BY <1>4
  <2>2. /\ u.of = t.of /\ u.host = t.host /\ u.row = t.row /\ u.phase # "telling" /\ t.phase # "telling"
        /\ tasks' = (tasks \ {t}) \cup {u} /\ UNCHANGED results
    BY <2>1 DEF Goes
  <2>3. Send!TaskKnown(u)
    BY <1>1, <2>2 DEF Send!TaskKnown
  <2>4. Onward
    BY <1>2, <2>2
  <2>5. Send!TaskKnown(u)'
    BY <2>3, <2>4, OldTaskKnown
  <2>6. \A v \in tasks' \ tasks : v = u
    BY <2>2
  <2>7. QED
    BY <2>2, <2>4, <2>5, <2>6, StandingKnown
<1>5. CASE Writes(t)
  <2>1. PICK status \in Send!Statuses :
          /\ results' = Append(results, Send!RowOf(t.of, status, TRUE))
          /\ \/ tasks' = (tasks \ {t}) \cup {[t EXCEPT !.phase = "telling", !.row = Len(results) + 1]}
             \/ tasks' = tasks \ {t}
    BY <1>5 DEF Writes
  <2>2. PICK x : x = Send!RowOf(t.of, status, TRUE)
    OBVIOUS
  <2>3. x \in Send!RowSet /\ x.of = t.of /\ x.retried = FALSE
    BY <1>1, <2>2, RowOfIs
  <2>4. PICK n : n = Len(results) + 1
    OBVIOUS
  <2>5. /\ Onward /\ DOMAIN results' \ DOMAIN results = {n} /\ results'[n] = x
        /\ \A r \in DOMAIN results : results'[r] = results[r]
    BY <2>1, <2>2, <2>3, <2>4, AppendOnward
  <2>6. PICK u : u = [t EXCEPT !.phase = "telling", !.row = n]
    OBVIOUS
  <2>7. u.of = t.of /\ u.host = t.host /\ u.phase = "telling" /\ u.row = n
    BY <1>1, <2>6 DEF Send!TaskSet
  <2>8. Send!TaskKnown(t)'
    BY <1>1, <2>5, OldTaskKnown
  <2>9. n \in DOMAIN results' /\ results'[n].of = t.of
    BY <2>3, <2>5
  <2>10. Send!TaskKnown(u)'
    BY <2>7, <2>8, <2>9 DEF Send!TaskKnown
  <2>11. \A v \in tasks' \ tasks : v = u
    BY <2>1, <2>4, <2>6
  <2>12. Send!RowKnown(n)'
    <3>1. t.of.by # 0 => t.host = "api"
      BY <1>1 DEF Send!TaskKnown, Send!TaskSet
    <3>2. t.of.firing \in DOMAIN fired' /\ (t.of.by # 0 => /\ t.of.by \in DOMAIN results' /\ results'[t.of.by].retried
                                                           /\ t.of = Send!RetryOf(t.of.by)')
      BY <2>8, <3>1 DEF Send!TaskKnown
    <3>3. QED
      BY <2>9, <3>2 DEF Send!RowKnown, Send!RetryOf
  <2>13. \A r \in DOMAIN results' \ DOMAIN results : r = n
    BY <2>5
  <2>14. Send!DispatchKnown'
    BY <2>3, <2>5, <2>7, <2>9, <2>10, <2>11, <2>12, <2>13, StandingKnown
  <2>15. QED
    BY <2>3, <2>5, <2>13, <2>14
<1>6. QED
  BY <1>3, <1>4, <1>5

\* What a task gives up is told, or was cut off, or the task is there to tell it.
LEMMA TaskTells ==
    ASSUME Send!DeliveryTypes, Send!DispatchKnown, Send!GivenUpIsTold, NEW t \in tasks,
           Leaves(t) \/ Writes(t) \/ \E u : Goes(t, u)
    PROVE  Send!GivenUpIsTold'
<1>1. /\ t \in Send!TaskSet /\ t.of \in Send!Deliveries /\ results \in Seq(Send!RowSet) /\ Send!TaskKnown(t)
  BY DEF Send!DeliveryTypes, Send!TaskSet, Send!DispatchKnown
<1>2. \A r \in DOMAIN results : r \in Nat \ {0}
  BY <1>1
<1>3. CASE Leaves(t)
  <2>1. ASSUME NEW r \in DOMAIN results', results'[r].status = "failed", results'[r].byTask
        PROVE  r \in told' \/ results'[r].of \in cut' \/ \E v \in tasks' : v.row = r
    <3>1. results' = results /\ told \subseteq told' /\ cut \subseteq cut' /\ tasks' = tasks \ {t}
      BY <1>3 DEF Leaves
    <3>2. r \in told \/ results[r].of \in cut \/ \E v \in tasks : v.row = r
      BY <2>1, <3>1 DEF Send!GivenUpIsTold
    <3>3. CASE t.row = r
      <4>1. t.phase = "telling" /\ results[r].of = t.of
        BY <1>1, <1>2, <2>1, <3>1, <3>3 DEF Send!TaskKnown
      <4>2. QED
        BY <1>3, <3>1, <3>3, <4>1 DEF Leaves
    <3>4. QED
      BY <3>1, <3>2, <3>3
  <2>2. QED
    BY <2>1 DEF Send!GivenUpIsTold
<1>4. CASE \E u : Goes(t, u)
  <2>1. PICK u : u.row = t.row /\ tasks' = (tasks \ {t}) \cup {u} /\ UNCHANGED <<results, told, cut>>
    BY <1>4 DEF Goes
  <2>2. QED
    BY <2>1 DEF Send!GivenUpIsTold
<1>5. CASE Writes(t)
  <2>1. PICK status \in Send!Statuses :
          /\ results' = Append(results, Send!RowOf(t.of, status, TRUE)) /\ told' = told
          /\ \/ /\ tasks' = (tasks \ {t}) \cup {[t EXCEPT !.phase = "telling", !.row = Len(results) + 1]} /\ cut' = cut
             \/ status = "success" /\ tasks' = tasks \ {t} /\ cut' = cut
             \/ tasks' = tasks \ {t} /\ cut' = cut \cup {t.of}
    BY <1>5 DEF Writes
  <2>2. PICK x : x = Send!RowOf(t.of, status, TRUE)
    OBVIOUS
  <2>3. x \in Send!RowSet /\ x.of = t.of /\ x.status = status
    BY <1>1, <2>2, RowOfIs
  <2>4. PICK n : n = Len(results) + 1
    OBVIOUS
  <2>5. /\ DOMAIN results' = 1..(Len(results) + 1) /\ DOMAIN results = 1..Len(results) /\ Len(results) \in Nat
        /\ \A i \in 1..Len(results) : results'[i] = results[i]
        /\ results'[Len(results) + 1] = x
    <3>1. results' = Append(results, x)
      BY <2>1, <2>2
    <3>2. QED
      BY <1>1, <2>3, <3>1, AppendElements
  <2>6. /\ \A r \in DOMAIN results' : r \in DOMAIN results \/ r = n
        /\ results'[n] = x /\ \A r \in DOMAIN results : results'[r] = results[r]
    BY <2>4, <2>5
  <2>7. PICK u : u = [t EXCEPT !.phase = "telling", !.row = n]
    OBVIOUS
  <2>8. u.row = n
    BY <1>1, <2>7 DEF Send!TaskSet
  <2>9. t.row = 0
    BY <1>1, <1>5 DEF Send!TaskKnown, Writes
  <2>10. ASSUME NEW r \in DOMAIN results', results'[r].status = "failed", results'[r].byTask
        PROVE  r \in told' \/ results'[r].of \in cut' \/ \E v \in tasks' : v.row = r
    <3>1. CASE r = n
      <4>1. status = "failed" /\ results'[r].of = t.of
        BY <2>3, <2>6, <2>10, <3>1
      <4>2. "failed" # "success"
        OBVIOUS
      <4>3. QED
        BY <2>1, <2>4, <2>7, <2>8, <3>1, <4>1, <4>2
    <3>2. CASE r \in DOMAIN results
      <4>1. r \in told \/ results[r].of \in cut \/ \E v \in tasks : v.row = r
        BY <2>6, <2>10, <3>2 DEF Send!GivenUpIsTold
      <4>2. r # 0
        BY <1>2, <3>2
      <4>3. \A v \in tasks : v.row = r => v \in tasks'
        BY <2>1, <2>9, <4>2
      <4>4. cut \subseteq cut' /\ told' = told
        BY <2>1
      <4>5. QED
        BY <2>6, <3>2, <4>1, <4>3, <4>4
    <3>3. QED
      BY <2>6, <3>1, <3>2
  <2>11. QED
    BY <2>10 DEF Send!GivenUpIsTold
<1>6. QED
  BY <1>3, <1>4, <1>5

-----------------------------------------------------------------------------
(* Permits, and how many tasks there are. *)

\* What is left of a finite set, with one element exchanged.
LEMMA Exchange ==
    ASSUME NEW S, IsFiniteSet(S), NEW T, NEW t \in S, NEW u, T \subseteq (S \ {t}) \cup {u}
    PROVE  IsFiniteSet(T) /\ Cardinality(T) \in Nat /\ Cardinality(T) <= Cardinality(S)
<1>1. IsFiniteSet(S \ {t}) /\ Cardinality(S \ {t}) = Cardinality(S) - 1 /\ Cardinality(S) \in Nat
  BY FS_RemoveElement, FS_CardinalityType
<1>2. /\ IsFiniteSet((S \ {t}) \cup {u}) /\ Cardinality((S \ {t}) \cup {u}) \in Nat
      /\ Cardinality((S \ {t}) \cup {u}) <= Cardinality(S \ {t}) + 1
  <2>1. Cardinality(S \ {t}) \in Nat
    BY <1>1, FS_CardinalityType
  <2>2. QED
    BY <1>1, <2>1, FS_AddElement, FS_CardinalityType
<1>3. IsFiniteSet(T) /\ Cardinality(T) \in Nat /\ Cardinality(T) <= Cardinality((S \ {t}) \cup {u})
  BY <1>2, FS_Subset, FS_CardinalityType
<1>4. QED
  BY <1>1, <1>2, <1>3

\* A part of a finite set has no more elements.
LEMMA Fewer ==
    ASSUME NEW S, IsFiniteSet(S), NEW T, T \subseteq S
    PROVE  IsFiniteSet(T) /\ Cardinality(T) \in Nat /\ Cardinality(S) \in Nat /\ Cardinality(T) <= Cardinality(S)
  BY FS_Subset, FS_CardinalityType

\* Nor has a set with one element more than one more.
LEMMA OneMore ==
    ASSUME NEW S, IsFiniteSet(S), NEW T, NEW u, T \subseteq S \cup {u}
    PROVE  Cardinality(T) \in Nat /\ Cardinality(S) \in Nat /\ Cardinality(T) <= Cardinality(S) + 1
<1>1. IsFiniteSet(S \cup {u}) /\ Cardinality(S \cup {u}) <= Cardinality(S) + 1 /\ Cardinality(S) \in Nat
  <2>1. Cardinality(S) \in Nat
    BY FS_CardinalityType
  <2>2. /\ IsFiniteSet(S \cup {u})
        /\ Cardinality(S \cup {u}) = IF u \in S THEN Cardinality(S) ELSE Cardinality(S) + 1
    BY FS_AddElement
  <2>3. QED
    BY <2>1, <2>2
<1>2. Cardinality(T) \in Nat /\ Cardinality(T) <= Cardinality(S \cup {u}) /\ Cardinality(S \cup {u}) \in Nat
  BY <1>1, Fewer
<1>3. QED
  BY <1>1, <1>2

\* The tasks are finitely many, whichever are counted.
LEMMA TasksAre ==
    ASSUME Send!DeliveryTypes
    PROVE  /\ \A h : IsFiniteSet(Send!TasksOf(h)) /\ IsFiniteSet(Send!Holders(h))
           /\ IsFiniteSet(Send!Ready)
<1>1. IsFiniteSet(tasks)
  BY SendCount DEF Send!DeliveryTypes
<1>2. ASSUME NEW h
      PROVE  Send!TasksOf(h) \subseteq tasks /\ Send!Holders(h) \subseteq tasks /\ Send!Ready \subseteq tasks
  BY DEF Send!TasksOf, Send!Holders, Send!Ready
<1>3. QED
  BY <1>1, <1>2, Fewer

\* A task holds a permit only if one is left.
LEMMA TaskPermits ==
    ASSUME Send!DeliveryTypes, Send!PermitsKept, NEW t \in tasks, Leaves(t) \/ Writes(t) \/ \E u : Goes(t, u)
    PROVE  Send!PermitsKept'
<1> SUFFICES ASSUME NEW h \in {"worker", "api"}
             PROVE  Cardinality(Send!Holders(h)') <= Permits
  BY SendCount DEF Send!PermitsKept
<1>1. /\ IsFiniteSet(Send!Holders(h)) /\ Cardinality(Send!Holders(h)) \in Nat /\ Cardinality(Send!Holders(h)) <= Permits
      /\ Permits \in Nat /\ t \in Send!TaskSet
  BY TasksAre, FS_CardinalityType, SendCount, DeliveryAssumption DEF Send!PermitsKept, Send!DeliveryTypes
<1>2. ASSUME Send!Holders(h)' \subseteq Send!Holders(h)
      PROVE  Cardinality(Send!Holders(h)') <= Permits
  <2>1. PICK T : T = Send!Holders(h)'
    OBVIOUS
  <2>2. QED
    BY <1>1, <1>2, <2>1, Fewer
<1>3. ASSUME NEW u, t \in Send!Holders(h), Send!Holders(h)' \subseteq (Send!Holders(h) \ {t}) \cup {u}
      PROVE  Cardinality(Send!Holders(h)') <= Permits
  <2>1. PICK T : T = Send!Holders(h)'
    OBVIOUS
  <2>2. Cardinality(T) \in Nat /\ Cardinality(T) <= Cardinality(Send!Holders(h))
    BY <1>1, <1>3, <2>1, Exchange
  <2>3. QED
    BY <1>1, <2>1, <2>2
<1>4. CASE Leaves(t)
  BY <1>2, <1>4 DEF Leaves, Send!Holders, Send!TasksOf
<1>5. CASE Writes(t)
  <2>1. PICK u : u = [t EXCEPT !.phase = "telling", !.row = Len(results) + 1]
    OBVIOUS
  <2>2. u.host = t.host /\ t.phase = "writing" /\ (tasks' = (tasks \ {t}) \cup {u} \/ tasks' = tasks \ {t})
    BY <1>1, <1>5, <2>1 DEF Writes, Send!TaskSet
  <2>3. CASE t.host = h
    <3>1. t \in Send!Holders(h)
      BY <2>2, <2>3 DEF Send!Holders, Send!TasksOf
    <3>2. Send!Holders(h)' \subseteq (Send!Holders(h) \ {t}) \cup {u}
      BY <2>2 DEF Send!Holders, Send!TasksOf
    <3>3. QED
      BY <1>3, <3>1, <3>2
  <2>4. CASE t.host # h
    BY <1>2, <2>2, <2>4 DEF Send!Holders, Send!TasksOf
  <2>5. QED
    BY <2>3, <2>4
<1>6. CASE \E u : Goes(t, u)
  <2>1. PICK u : Goes(t, u)
    BY <1>6
  <2>2. /\ u.host = t.host /\ tasks' = (tasks \ {t}) \cup {u}
        /\ \/ t.phase \in {"trying", "writing"} \/ u.phase = "waiting"
           \/ Cardinality(Send!Holders(t.host)) < Permits \/ ~Send!Locked(t.host)
    BY <2>1 DEF Goes
  <2>3. CASE t.host # h \/ u.phase = "waiting"
    BY <1>2, <2>2, <2>3 DEF Send!Holders, Send!TasksOf
  <2>4. CASE t.host = h /\ t.phase \in {"trying", "writing"}
    <3>1. t \in Send!Holders(h)
      BY <2>4 DEF Send!Holders, Send!TasksOf
    <3>2. Send!Holders(h)' \subseteq (Send!Holders(h) \ {t}) \cup {u}
      BY <2>2 DEF Send!Holders, Send!TasksOf
    <3>3. QED
      BY <1>3, <3>1, <3>2
  <2>5. CASE t.host = h /\ (Cardinality(Send!Holders(t.host)) < Permits \/ ~Send!Locked(t.host))
    <3>1. Cardinality(Send!Holders(h)) # Permits
      BY <1>1, <2>5, SendCount DEF Send!Locked
    <3>2. PICK T : T = Send!Holders(h)'
      OBVIOUS
    <3>3. T \subseteq Send!Holders(h) \cup {u}
      BY <2>2, <3>2 DEF Send!Holders, Send!TasksOf
    <3>4. Cardinality(T) \in Nat /\ Cardinality(T) <= Cardinality(Send!Holders(h)) + 1
      BY <1>1, <3>3, OneMore
    <3>5. QED
      BY <1>1, <3>1, <3>2, <3>4
  <2>6. QED
    BY <2>2, <2>3, <2>4, <2>5
<1>7. QED
  BY <1>4, <1>5, <1>6

\* MostDeferred is the largest of the numbers.
LEMMA MostIs ==
    ASSUME Send!DeliveryTypes, Send!OwesKnown, NEW n \in DOMAIN fired,
           \A k \in DOMAIN fired : Send!Cardinality(fired[k].owes) <= Send!Cardinality(fired[n].owes)
    PROVE  /\ Send!MostDeferred = Cardinality(fired[n].owes) /\ Send!MostDeferred \in Nat
           /\ \A k \in DOMAIN fired : Cardinality(fired[k].owes) \in Nat /\ Cardinality(fired[k].owes) <= Send!MostDeferred
<1> DEFINE S == {Send!Cardinality(fired[k].owes) : k \in DOMAIN fired}
           x == Send!Cardinality(fired[n].owes)
<1>1. \A k \in DOMAIN fired : Cardinality(fired[k].owes) \in Nat
  BY SendCount, FS_CardinalityType DEF Send!OwesKnown
<1>2. x \in S /\ (\A y \in S : x >= y) /\ (\A y \in S : y \in Nat)
  BY <1>1, SendCount
<1>3. Send!MostDeferred \in S /\ \A y \in S : Send!MostDeferred >= y
  <2>1. Send!MostDeferred = CHOOSE z \in S : \A y \in S : z >= y
    BY DEF Send!MostDeferred, Send!Max
  <2> HIDE DEF S, x
  <2>2. QED
    BY <1>2, <2>1
<1>4. Send!MostDeferred = x
  <2> HIDE DEF S, x
  <2>1. Send!MostDeferred \in Nat /\ x \in Nat /\ Send!MostDeferred >= x /\ x >= Send!MostDeferred
    BY <1>2, <1>3
  <2>2. QED
    BY <2>1
<1>5. QED
  BY <1>1, <1>4, SendCount

\* Of what a loop will spawn there are no more than its firing owes.
LEMMA SpawnsAre ==
    ASSUME Send!DeliveryTypes, Send!DispatchKnown, NEW l \in Send!DeliveryLoops
    PROVE  /\ IsFiniteSet(firing[l].spawn) /\ Cardinality(firing[l].spawn) \in Nat
           /\ \/ firing[l].spawn = {} /\ Cardinality(firing[l].spawn) = 0
              \/ firing[l].n \in DOMAIN fired /\ firing[l].spawn = fired[firing[l].n].owes
<1>1. CASE firing[l] = Send!NoFiring
  <2>1. firing[l].spawn = {}
    BY <1>1 DEF Send!NoFiring
  <2>2. QED
    BY <2>1, FS_EmptySet
<1>2. CASE Send!FiringKnown(l)
  <2>1. PICK n : n = firing[l].n
    OBVIOUS
  <2>2. n \in DOMAIN fired /\ (firing[l].spawn = fired[n].owes \/ firing[l].spawn = {})
    BY <1>2, <2>1 DEF Send!FiringKnown
  <2>3. IsFiniteSet(fired[n].owes)
    BY <2>2, SendCount DEF Send!DispatchKnown, Send!OwesKnown
  <2>4. QED
    BY <2>1, <2>2, <2>3, FS_EmptySet, FS_CardinalityType
<1>3. QED
  BY <1>1, <1>2 DEF Send!DispatchKnown

\* No more than what is fewer.
LEMMA Below ==
    ASSUME NEW a \in Nat, NEW b \in Nat, NEW c \in Nat, NEW x \in Nat, NEW y \in Nat, NEW z \in Nat,
           NEW p \in Nat, NEW k \in Nat, x + y + z <= a + b + c, a + b + c < p + k
    PROVE  x + y + z < p + k
  OBVIOUS

\* The numbers a step may not raise.
LEMMA CountsStay ==
    ASSUME Send!TasksCounted, fired' = fired,
           fired # <<>> => /\ Cardinality(Send!Ready') <= Cardinality(Send!Ready) \/ Cardinality(Send!Ready') <= Send!MostDeferred
                           /\ Cardinality(Send!Ready') \in Nat /\ Cardinality(Send!Ready) \in Nat
                           /\ Send!MostDeferred \in Nat
                           /\ \E a, b, c, x, y, z \in Nat :
                                /\ a = Cardinality(Send!TasksOf("worker")) /\ b = Cardinality(firing["Ingest"].spawn)
                                /\ c = Cardinality(firing["Manual"].spawn)
                                /\ x = Cardinality(Send!TasksOf("worker")') /\ y = Cardinality(firing'["Ingest"].spawn)
                                /\ z = Cardinality(firing'["Manual"].spawn)
                                /\ x + y + z <= a + b + c
    PROVE  Send!TasksCounted'
<1> SUFFICES ASSUME fired # <<>>
             PROVE  /\ \E n \in DOMAIN fired' : \A k \in DOMAIN fired' :
                         Cardinality(fired'[k].owes) <= Cardinality(fired'[n].owes)
                    /\ Cardinality(Send!Ready') <= Send!MostDeferred'
                    /\ Cardinality(Send!TasksOf("worker")') + Cardinality(firing'["Ingest"].spawn)
                         + Cardinality(firing'["Manual"].spawn) < Permits + 3 * Send!MostDeferred'
  BY SendCount DEF Send!TasksCounted
<1>1. Send!MostDeferred' = Send!MostDeferred
  BY DEF Send!MostDeferred, Send!Max
<1>2. PICK a \in Nat, b \in Nat, c \in Nat, x \in Nat, y \in Nat, z \in Nat :
        /\ a = Cardinality(Send!TasksOf("worker")) /\ b = Cardinality(firing["Ingest"].spawn)
        /\ c = Cardinality(firing["Manual"].spawn)
        /\ x = Cardinality(Send!TasksOf("worker")') /\ y = Cardinality(firing'["Ingest"].spawn)
        /\ z = Cardinality(firing'["Manual"].spawn)
        /\ x + y + z <= a + b + c
  OBVIOUS
<1>3. /\ \E n \in DOMAIN fired : \A k \in DOMAIN fired : Cardinality(fired[k].owes) <= Cardinality(fired[n].owes)
      /\ Cardinality(Send!Ready) <= Send!MostDeferred
      /\ Cardinality(Send!TasksOf("worker")) + Cardinality(firing["Ingest"].spawn) + Cardinality(firing["Manual"].spawn)
           < Permits + 3 * Send!MostDeferred
  BY SendCount DEF Send!TasksCounted
<1>4. PICK M \in Nat, R \in Nat, S \in Nat : M = Send!MostDeferred /\ R = Cardinality(Send!Ready) /\ S = Cardinality(Send!Ready')
  OBVIOUS
<1>5. R <= M
  BY <1>3, <1>4
<1>6. S <= M
  BY <1>4, <1>5
<1>7. x + y + z < Permits + 3 * M
  <2>1. PICK k \in Nat : k = 3 * Send!MostDeferred
    BY <1>4
  <2>2. PICK p \in Nat : p = Permits
    BY DeliveryAssumption
  <2>3. a + b + c < p + k
    BY <1>2, <1>3, <2>1, <2>2
  <2>4. x + y + z <= a + b + c
    BY <1>2
  <2>5. x + y + z < p + k
    BY <2>3, <2>4, Below
  <2>6. QED
    BY <1>4, <2>1, <2>2, <2>5
<1>8. QED
  BY <1>1, <1>2, <1>3, <1>4, <1>6, <1>7

\* What is owed at most, once there was a firing.
LEMMA MostThere ==
    ASSUME Send!DeliveryTypes, Send!DispatchKnown, Send!TasksCounted, fired # <<>>
    PROVE  /\ Send!MostDeferred \in Nat
           /\ \A k \in DOMAIN fired : Cardinality(fired[k].owes) \in Nat /\ Cardinality(fired[k].owes) <= Send!MostDeferred
<1>1. PICK n \in DOMAIN fired : \A k \in DOMAIN fired : Send!Cardinality(fired[k].owes) <= Send!Cardinality(fired[n].owes)
  BY DEF Send!TasksCounted
<1>2. QED
  BY <1>1, MostIs DEF Send!DispatchKnown

\* A task's step makes no task, and none that has yet to enter.
LEMMA TaskCounts ==
    ASSUME Send!DeliveryTypes, Send!DispatchKnown, Send!TasksCounted, UNCHANGED <<firing, fired>>, NEW t \in tasks,
           Leaves(t) \/ Writes(t) \/ \E u : Goes(t, u)
    PROVE  Send!TasksCounted'
<1>1. t \in Send!TaskSet
  BY DEF Send!DeliveryTypes
<1>2. PICK u : \/ tasks' = tasks \ {t}
               \/ tasks' = (tasks \ {t}) \cup {u} /\ u.host = t.host /\ u.phase # "ready"
  <2>1. CASE Leaves(t)
    BY <2>1 DEF Leaves
  <2>2. CASE \E u : Goes(t, u)
    BY <2>2 DEF Goes
  <2>3. CASE Writes(t)
    <3>1. PICK u : u = [t EXCEPT !.phase = "telling", !.row = Len(results) + 1]
      OBVIOUS
    <3>2. u.phase = "telling" /\ u.host = t.host
      BY <1>1, <3>1 DEF Send!TaskSet
    <3>3. QED
      BY <2>3, <3>1, <3>2 DEF Writes
  <2>4. QED
    BY <2>1, <2>2, <2>3
<1>3. PICK A, B, P, Q : /\ A = Send!TasksOf("worker") /\ B = Send!TasksOf("worker")'
                        /\ P = Send!Ready /\ Q = Send!Ready'
  OBVIOUS
<1>4. Q \subseteq P
  BY <1>2, <1>3 DEF Send!Ready, Send!TasksOf
<1>5. B \subseteq A \/ (t \in A /\ B \subseteq (A \ {t}) \cup {u})
  BY <1>2, <1>3 DEF Send!TasksOf
<1>6. IsFiniteSet(A) /\ IsFiniteSet(P)
  BY <1>3, TasksAre
<1>7. Cardinality(Q) \in Nat /\ Cardinality(P) \in Nat /\ Cardinality(Q) <= Cardinality(P)
  BY <1>4, <1>6, Fewer
<1>8. Cardinality(B) \in Nat /\ Cardinality(A) \in Nat /\ Cardinality(B) <= Cardinality(A)
  <2>1. CASE B \subseteq A
    BY <1>6, <2>1, Fewer
  <2>2. CASE t \in A /\ B \subseteq (A \ {t}) \cup {u}
    BY <1>6, <2>2, Exchange, FS_CardinalityType
  <2>3. QED
    BY <1>5, <2>1, <2>2
<1>9. PICK y \in Nat, z \in Nat : y = Cardinality(firing["Ingest"].spawn) /\ z = Cardinality(firing["Manual"].spawn)
  BY SpawnsAre DEF Send!DeliveryLoops
<1>10. Cardinality(B) + y + z <= Cardinality(A) + y + z
  BY <1>8
<1>11. fired # <<>> => Send!MostDeferred \in Nat
  BY MostThere
<1>12. firing' = firing
  OBVIOUS
<1>13. QED
  BY <1>3, <1>7, <1>8, <1>9, <1>10, <1>11, <1>12, CountsStay

\* A step of a task keeps the whole.
LEMMA TaskStepKeeps ==
    ASSUME Send!DeliveryInv, Send!TaskStep
    PROVE  Send!DeliveryInv'
<1>1. /\ Send!DeliveryTypes /\ Send!DispatchKnown /\ Send!AllSingle /\ Send!GivenUpIsTold
      /\ Send!RetriedOnce /\ Send!PermitsKept /\ Send!TasksCounted
  BY DEF Send!DeliveryInv
<1>2. /\ UNCHANGED <<actions, firing, fired, retries, draining, resent, raced>>
      /\ \E t \in tasks : Leaves(t) \/ Writes(t) \/ \E u : Goes(t, u)
  BY <1>1, TaskStepIs
<1>3. PICK t \in tasks : Leaves(t) \/ Writes(t) \/ \E u : Goes(t, u)
  BY <1>2
<1>4. Send!TaskKnown(t)
  BY <1>1 DEF Send!DispatchKnown
<1>5. Send!DeliveryTypes'
  BY <1>1, <1>2, <1>3, <1>4, TaskTypes DEF Send!TaskKnown
<1>6. /\ Send!DispatchKnown' /\ Onward
      /\ \A r \in DOMAIN results' : results'[r].retried => r \in DOMAIN results /\ results[r].retried
  BY <1>1, <1>2, <1>3, TaskDispatch
<1>7. \A d : Send!Single(d) => Send!Single(d)'
  BY <1>1, <1>2, <1>3, TaskSingle
<1>8. Send!AllSingle'
  BY <1>1, <1>2, <1>6, <1>7, AllStaySingle
<1>9. Send!GivenUpIsTold'
  BY <1>1, <1>3, TaskTells
<1>10. Send!RetriedOnce'
  BY <1>1, <1>2 DEF Send!RetriedOnce
<1>11. Send!PermitsKept'
  BY <1>1, <1>3, TaskPermits
<1>12. Send!TasksCounted'
  BY <1>1, <1>2, <1>3, TaskCounts
<1>13. QED
  BY <1>5, <1>6, <1>8, <1>9, <1>10, <1>11, <1>12 DEF Send!DeliveryInv

-----------------------------------------------------------------------------
(* Steps that only take away. *)

\* A delivery when tasks are cut off, and with them the dispatch or not.
LEMMA LessSingle ==
    ASSUME UNCHANGED <<fired, results>>, tasks' \subseteq tasks, cut \subseteq cut', \A t \in tasks \ tasks' : t.of \in cut',
           firing' = firing \/ (firing' = [l \in Send!DeliveryLoops |-> Send!NoFiring] /\ Send!Dispatched \subseteq cut'),
           NEW d, Send!Single(d)
    PROVE  Send!Single(d)'
<1>1. Send!RowsOf(d)' = Send!RowsOf(d)
  BY DEF Send!RowsOf
<1>2. Send!PendingOf(d)' \subseteq Send!PendingOf(d) /\ (Send!PendingOf(d)' = Send!PendingOf(d) \/ d \in cut')
  BY DEF Send!PendingOf
<1>3. (Send!InDispatch(d)' => Send!InDispatch(d)) /\ (Send!InDispatch(d) => Send!InDispatch(d)' \/ d \in cut')
  <2>1. CASE firing' = firing
    BY <2>1 DEF Send!InDispatch, Send!Dispatched, Send!DeliveryLoops, Send!NoFiring
  <2>2. CASE firing' = [l \in Send!DeliveryLoops |-> Send!NoFiring] /\ Send!Dispatched \subseteq cut'
    <3>1. ~Send!InDispatch(d)'
      BY <2>2 DEF Send!InDispatch, Send!Dispatched, Send!DeliveryLoops, Send!NoFiring
    <3>2. QED
      BY <2>2, <3>1 DEF Send!InDispatch
  <2>3. QED
    BY <2>1, <2>2
<1>4. QED
  BY <1>1, <1>2, <1>3, CutSingle

\* Tasks, dispatches or retries cut off break nothing.
LEMMA LessKeeps ==
    ASSUME Send!DeliveryInv, DOMAIN actions' = DOMAIN actions, \A edge \in DOMAIN actions' : actions'[edge] \in Seq(Send!ActionKinds),
           UNCHANGED <<fired, results, told, resent, raced>>,
           tasks' \subseteq tasks, cut \subseteq cut', \A t \in tasks \ tasks' : t.of \in cut',
           firing' = firing \/ (firing' = [l \in Send!DeliveryLoops |-> Send!NoFiring] /\ Send!Dispatched \subseteq cut'),
           retries' = retries \/ retries' = [q \in Send!RetrySlots |-> Send!NoRetry]
    PROVE  Send!DeliveryInv'
<1>1. /\ Send!DeliveryTypes /\ Send!DispatchKnown /\ Send!AllSingle /\ Send!GivenUpIsTold
      /\ Send!RetriedOnce /\ Send!PermitsKept /\ Send!TasksCounted
  BY DEF Send!DeliveryInv
<1>2. Send!NoFiring \in Send!FiringSet /\ Send!NoRetry \in [row : Nat, spawn : SUBSET Send!Deliveries]
  BY DEF Send!NoFiring, Send!FiringSet, Send!NoRetry
<1>3. Send!DeliveryTypes'
  <2>1. IsFiniteSet(tasks')
    BY <1>1, SendCount, Fewer DEF Send!DeliveryTypes
  <2>2. firing' \in [Send!DeliveryLoops -> Send!FiringSet]
    BY <1>1, <1>2 DEF Send!DeliveryTypes
  <2>3. retries' \in [Send!RetrySlots -> [row : Nat, spawn : SUBSET Send!Deliveries]]
    BY <1>1, <1>2 DEF Send!DeliveryTypes
  <2>4. tasks' \subseteq Send!TaskSet /\ results' \in Seq(Send!RowSet) /\ told' \subseteq DOMAIN results' /\ resent' \in Seq(Nat)
    BY <1>1 DEF Send!DeliveryTypes
  <2>5. fired' \in Seq([edge : DOMAIN actions', owes : SUBSET Send!Deliveries])
    BY <1>1 DEF Send!DeliveryTypes
  <2>6. QED
    BY <2>1, <2>2, <2>3, <2>4, <2>5, SendCount DEF Send!DeliveryTypes, Send!Deliveries, Send!RowSet, Send!TaskSet, Send!FiringSet, Send!Statuses,
      Send!DeliveryLoops, Send!RetrySlots
<1>4. Onward
  BY <1>1 DEF Onward, Send!DeliveryTypes
<1>5. Send!DispatchKnown'
  <2>1. ASSUME NEW l \in Send!DeliveryLoops
        PROVE  firing'[l] = Send!NoFiring \/ Send!FiringKnown(l)'
    <3>1. CASE firing' # firing \/ firing[l] = Send!NoFiring
      BY <3>1
    <3>2. CASE firing' = firing /\ Send!FiringKnown(l)
      <4>1. \A k \in Send!DeliveryLoops : firing[k].n = firing[l].n => k = l
        BY <3>2 DEF Send!FiringKnown
      <4>2. Send!FiringKnown(l)'
        BY <1>4, <3>2, <4>1, OldFiringKnown
      <4>3. QED
        BY <4>2
    <3>3. QED
      BY <1>1, <3>1, <3>2 DEF Send!DispatchKnown
  <2>2. ASSUME NEW q \in Send!RetrySlots
        PROVE  retries'[q] = Send!NoRetry \/ Send!RetryKnown(q)'
    <3>1. CASE retries' # retries \/ retries[q] = Send!NoRetry
      BY <3>1
    <3>2. CASE retries' = retries /\ Send!RetryKnown(q)
      <4>1. Send!RetryKnown(q)'
        BY <1>4, <3>2, OldRetryKnown
      <4>2. QED
        BY <4>1
    <3>3. QED
      BY <1>1, <3>1, <3>2 DEF Send!DispatchKnown
  <2>3. QED
    BY <1>1, <1>4, <2>1, <2>2, DispatchKeeps
<1>6. \A d : Send!Single(d) => Send!Single(d)'
  BY LessSingle
<1>7. Send!AllSingle'
  BY <1>1, <1>4, <1>6, AllStaySingle
<1>8. Send!GivenUpIsTold'
  <2>1. ASSUME NEW r \in DOMAIN results, results[r].status = "failed", results[r].byTask
        PROVE  r \in told' \/ results[r].of \in cut' \/ \E t \in tasks' : t.row = r
    <3>1. CASE r \in told \/ results[r].of \in cut
      BY <3>1
    <3>2. CASE \E t \in tasks : t.row = r
      <4>1. PICK t \in tasks : t.row = r
        BY <3>2
      <4>2. r # 0 /\ Send!TaskKnown(t)
        BY <1>1 DEF Send!DeliveryTypes, Send!DispatchKnown
      <4>3. results[r].of = t.of
        BY <4>1, <4>2 DEF Send!TaskKnown
      <4>4. QED
        BY <4>1, <4>3
    <3>3. QED
      BY <1>1, <2>1, <3>1, <3>2 DEF Send!GivenUpIsTold
  <2>2. QED
    BY <2>1 DEF Send!GivenUpIsTold
<1>9. Send!RetriedOnce'
  BY <1>1 DEF Send!RetriedOnce
<1>10. Send!PermitsKept'
  <2>1. ASSUME NEW h \in {"worker", "api"}
        PROVE  Cardinality(Send!Holders(h)') <= Permits
    <3>1. PICK H, G : H = Send!Holders(h) /\ G = Send!Holders(h)'
      OBVIOUS
    <3>2. G \subseteq H
      BY <3>1 DEF Send!Holders, Send!TasksOf
    <3>3. IsFiniteSet(H) /\ Cardinality(H) <= Permits /\ Permits \in Nat
      BY <1>1, <3>1, TasksAre, SendCount, DeliveryAssumption DEF Send!PermitsKept
    <3>4. QED
      BY <3>1, <3>2, <3>3, Fewer
  <2>2. QED
    BY <2>1, SendCount DEF Send!PermitsKept
<1>11. Send!TasksCounted'
  <2>1. PICK A, B, P, Q : /\ A = Send!TasksOf("worker") /\ B = Send!TasksOf("worker")'
                          /\ P = Send!Ready /\ Q = Send!Ready'
    OBVIOUS
  <2>2. Q \subseteq P /\ B \subseteq A
    BY <2>1 DEF Send!Ready, Send!TasksOf
  <2>3. IsFiniteSet(A) /\ IsFiniteSet(P)
    BY <1>1, <2>1, TasksAre
  <2>4. /\ Cardinality(Q) \in Nat /\ Cardinality(P) \in Nat /\ Cardinality(Q) <= Cardinality(P)
        /\ Cardinality(B) \in Nat /\ Cardinality(A) \in Nat /\ Cardinality(B) <= Cardinality(A)
    BY <2>2, <2>3, Fewer
  <2>5. PICK b \in Nat, c \in Nat : b = Cardinality(firing["Ingest"].spawn) /\ c = Cardinality(firing["Manual"].spawn)
    BY <1>1, SpawnsAre DEF Send!DeliveryLoops
  <2>6. PICK y \in Nat, z \in Nat : /\ y = Cardinality(firing'["Ingest"].spawn) /\ z = Cardinality(firing'["Manual"].spawn)
                                    /\ y <= b /\ z <= c
    <3>1. CASE firing' = firing
      BY <2>5, <3>1
    <3>2. CASE firing' = [l \in Send!DeliveryLoops |-> Send!NoFiring]
      <4>1. firing'["Ingest"].spawn = {} /\ firing'["Manual"].spawn = {}
        BY <3>2 DEF Send!DeliveryLoops, Send!NoFiring
      <4>2. QED
        BY <4>1, FS_EmptySet
    <3>3. QED
      BY <3>1, <3>2
  <2>7. Cardinality(B) + y + z <= Cardinality(A) + b + c
    <3>1. PICK a \in Nat, x \in Nat : a = Cardinality(A) /\ x = Cardinality(B)
      BY <2>4
    <3>2. x <= a /\ y <= b /\ z <= c
      BY <2>4, <2>6, <3>1
    <3>3. x + y + z <= a + b + c
      BY <3>2
    <3>4. QED
      BY <3>1, <3>3
  <2>8. fired # <<>> => Send!MostDeferred \in Nat
    BY <1>1, MostThere
  <2>9. QED
    BY <1>1, <2>1, <2>4, <2>5, <2>6, <2>7, <2>8, CountsStay
<1>12. QED
  BY <1>3, <1>5, <1>7, <1>8, <1>9, <1>10, <1>11 DEF Send!DeliveryInv

\* Edits of the rule, the ends of the processes, and nothing at all.
LEMMA QuietDeliveryKeeps ==
    ASSUME Send!DeliveryInv,
           \/ \E edge \in DOMAIN actions, acts \in {<<>>, <<"webhook">>, <<"email">>} : Send!EditActions(edge, acts)
           \/ Send!StopWorker \/ Send!Drained \/ Send!EndApi \/ UNCHANGED sendVars
    PROVE  Send!DeliveryInv'
<1>0. \A edge \in DOMAIN actions : actions[edge] \in Seq(Send!ActionKinds)
  BY DEF Send!DeliveryInv, Send!DeliveryTypes
<1>1. ASSUME NEW edge \in DOMAIN actions, NEW acts \in {<<>>, <<"webhook">>, <<"email">>}, Send!EditActions(edge, acts)
      PROVE  Send!DeliveryInv'
  <2>1. DOMAIN actions' = DOMAIN actions /\ \A e \in DOMAIN actions' : actions'[e] = actions[e] \/ actions'[e] = acts
    BY <1>1 DEF Send!EditActions
  <2>2. acts \in Seq(Send!ActionKinds)
    <3>1. <<>> \in Seq(Send!ActionKinds) /\ \A e \in Send!ActionKinds : <<e>> \in Seq(Send!ActionKinds)
      OBVIOUS
    <3>2. "webhook" \in Send!ActionKinds /\ "email" \in Send!ActionKinds
      BY DEF Send!ActionKinds
    <3>3. QED
      BY <3>1, <3>2
  <2>3. UNCHANGED <<firing, fired, tasks, results, told, retries, resent, raced, cut>>
    BY <1>1 DEF Send!EditActions
  <2>4. QED
    BY <1>0, <2>1, <2>2, <2>3, LessKeeps
<1>2. CASE Send!StopWorker
  <2>1. /\ UNCHANGED <<actions, fired, tasks, results, told, retries, resent, raced>>
        /\ cut' = cut \cup Send!Dispatched /\ firing' = [l \in Send!DeliveryLoops |-> Send!NoFiring]
    BY <1>2 DEF Send!StopWorker
  <2>2. QED
    BY <1>0, <2>1, LessKeeps
<1>3. CASE Send!Drained
  <2>1. /\ UNCHANGED <<actions, firing, fired, results, told, retries, resent, raced>>
        /\ tasks' = tasks \ Send!TasksOf("worker") /\ cut' = cut \cup {t.of : t \in Send!TasksOf("worker")}
    BY <1>3 DEF Send!Drained, Send!Cut
  <2>2. QED
    BY <1>0, <2>1, LessKeeps
<1>4. CASE Send!EndApi
  <2>1. /\ UNCHANGED <<actions, firing, fired, results, told, resent, raced>>
        /\ tasks' = tasks \ Send!TasksOf("api") /\ cut' = cut \cup {t.of : t \in Send!TasksOf("api")}
        /\ retries' = [q \in Send!RetrySlots |-> Send!NoRetry]
    BY <1>4 DEF Send!EndApi, Send!Cut
  <2>2. QED
    BY <1>0, <2>1, LessKeeps
<1>5. CASE UNCHANGED sendVars
  BY <1>0, <1>5, LessKeeps DEF sendVars
<1>6. QED
  BY <1>1, <1>2, <1>3, <1>4, <1>5

-----------------------------------------------------------------------------
(* Retries. *)

\* A retry's delivery is its row's, but for the row it retries.
LEMMA RetryOfIs ==
    ASSUME Send!DeliveryTypes, NEW r \in DOMAIN results
    PROVE  /\ r \in Nat \ {0} /\ results[r] \in Send!RowSet /\ results[r].of \in Send!Deliveries
           /\ Send!RetryOf(r) \in Send!Deliveries /\ Send!RetryOf(r).by = r
           /\ Send!RetryOf(r).firing = results[r].of.firing
           /\ Send!RetryOf(r) = Send!DeliveryOf(results[r].of.firing, results[r].of.kind, results[r].of.index, r)
<1>1. r \in Nat \ {0} /\ results[r] \in Send!RowSet
  BY DEF Send!DeliveryTypes
<1>2. results[r].of \in Send!Deliveries
  BY <1>1 DEF Send!RowSet
<1>3. QED
  BY <1>1, <1>2 DEF Send!RetryOf, Send!Deliveries, Send!DeliveryOf

\* A retry reads its row and settles what it will resend.
LEMMA RetryReadsKeeps ==
    ASSUME Send!DeliveryInv, NEW q \in Send!RetrySlots, NEW r \in DOMAIN results, Send!RetryReads(q, r)
    PROVE  Send!DeliveryInv'
<1>1. /\ Send!DeliveryTypes /\ Send!DispatchKnown /\ Send!AllSingle /\ Send!GivenUpIsTold
      /\ Send!RetriedOnce /\ Send!PermitsKept /\ Send!TasksCounted
  BY DEF Send!DeliveryInv
<1>2. /\ UNCHANGED <<actions, firing, fired, tasks, results, told, resent, cut>>
      /\ retries[q] = Send!NoRetry /\ ~results[r].retried /\ Send!Resend(r) # {}
      /\ retries' = [retries EXCEPT ![q] = [row |-> r, spawn |-> Send!Resend(r)]]
      /\ raced' = raced \cup (IF \E p \in Send!RetrySlots : retries[p].row = r THEN {r} ELSE {})
  BY DEF Send!RetryReads, Send!Retryable
<1>3. PICK d : d = Send!RetryOf(r)
  OBVIOUS
<1>4. r \in Nat \ {0} /\ d \in Send!Deliveries
  BY <1>1, <1>3, RetryOfIs
<1>5. Send!Resend(r) = {d}
  <2>1. d = Send!DeliveryOf(results[r].of.firing, results[r].of.kind, results[r].of.index, r)
    BY <1>1, <1>3, RetryOfIs
  <2>2. Send!Resend(r) \subseteq {d}
    BY <2>1 DEF Send!Resend
  <2>3. QED
    BY <1>2, <2>2
<1>6. /\ retries'[q] = [row |-> r, spawn |-> {d}]
      /\ \A p \in Send!RetrySlots : p # q => retries'[p] = retries[p]
      /\ retries' \in [Send!RetrySlots -> [row : Nat, spawn : SUBSET Send!Deliveries]]
  <2>1. retries \in [Send!RetrySlots -> [row : Nat, spawn : SUBSET Send!Deliveries]]
    BY <1>1 DEF Send!DeliveryTypes
  <2>2. [row |-> r, spawn |-> {d}] \in [row : Nat, spawn : SUBSET Send!Deliveries]
    BY <1>4
  <2>3. QED
    BY <1>2, <1>5, <2>1, <2>2
<1>7. raced \subseteq raced' /\ (r \notin raced' => \A p \in Send!RetrySlots : retries[p].row # r)
  BY <1>2
<1>8. Onward
  BY <1>1, <1>2 DEF Onward, Send!DeliveryTypes
<1>9. Send!RetryKnown(q)'
  <2>1. d = Send!RetryOf(r)' /\ r \in DOMAIN results'
    BY <1>2, <1>3, <1>8, RetryOfStays
  <2>2. retries'[q].row = r /\ retries'[q].spawn = {d}
    BY <1>6
  <2>3. ASSUME r \notin raced'
        PROVE  ~results'[r].retried /\ \A p \in Send!RetrySlots : retries'[p].row = r => p = q
    BY <1>2, <1>6, <1>7, <2>3
  <2>4. QED
    BY <2>1, <2>2, <2>3 DEF Send!RetryKnown, Send!RetryOf, Send!RetrySlots
<1>10. ASSUME NEW p \in Send!RetrySlots
       PROVE  retries'[p] = Send!NoRetry \/ Send!RetryKnown(p)'
  <2>1. CASE p = q
    BY <1>9, <2>1
  <2>2. CASE p # q /\ retries[p] = Send!NoRetry
    BY <1>6, <2>2
  <2>3. CASE p # q /\ Send!RetryKnown(p)
    <3>1. PICK s : s = retries[p].row
      OBVIOUS
    <3>2. retries'[p] = retries[p]
      BY <1>6, <2>3
    <3>3. ASSUME s \notin raced'
          PROVE  \A k \in Send!RetrySlots : retries'[k].row = s => retries[k].row = s
      <4>1. s # r
        BY <1>7, <2>3, <3>1, <3>3
      <4>2. QED
        BY <1>6, <4>1
    <3>4. Send!RetryKnown(p)'
      BY <1>2, <1>7, <1>8, <2>3, <3>1, <3>2, <3>3, OldRetryKnown
    <3>5. QED
      BY <3>4
  <2>4. QED
    BY <1>1, <2>1, <2>2, <2>3 DEF Send!DispatchKnown
<1>11. ASSUME NEW l \in Send!DeliveryLoops
       PROVE  firing'[l] = Send!NoFiring \/ Send!FiringKnown(l)'
  <2>1. CASE firing[l] = Send!NoFiring
    BY <1>2, <2>1
  <2>2. CASE Send!FiringKnown(l)
    <3>1. \A k \in Send!DeliveryLoops : firing[k].n = firing[l].n => k = l
      BY <2>2 DEF Send!FiringKnown
    <3>2. Send!FiringKnown(l)'
      BY <1>2, <1>8, <2>2, <3>1, OldFiringKnown
    <3>3. QED
      BY <3>2
  <2>3. QED
    BY <1>1, <2>1, <2>2 DEF Send!DispatchKnown
<1>12. Send!DispatchKnown'
  BY <1>1, <1>2, <1>8, <1>10, <1>11, DispatchKeeps
<1>13. Send!DeliveryTypes'
  BY <1>1, <1>2, <1>6, SendCount DEF Send!DeliveryTypes, Send!Deliveries, Send!RowSet, Send!TaskSet, Send!FiringSet, Send!Statuses,
      Send!DeliveryLoops, Send!RetrySlots
<1>14. \A d1 : Send!Single(d1) => Send!Single(d1)'
  BY <1>2, LessSingle
<1>15. Send!AllSingle'
  BY <1>1, <1>2, <1>7, <1>8, <1>14, AllStaySingle
<1>16. Send!GivenUpIsTold'
  BY <1>1, <1>2 DEF Send!GivenUpIsTold
<1>17. Send!RetriedOnce'
  BY <1>1, <1>2, <1>7 DEF Send!RetriedOnce
<1>18. Send!PermitsKept'
  BY <1>1, <1>2, SendCount DEF Send!PermitsKept, Send!Holders, Send!TasksOf
<1>19. Send!TasksCounted'
  BY <1>1, <1>2, SendCount DEF Send!TasksCounted, Send!Ready, Send!TasksOf, Send!MostDeferred, Send!Max
<1>20. QED
  BY <1>12, <1>13, <1>15, <1>16, <1>17, <1>18, <1>19 DEF Send!DeliveryInv

\* A task as it is spawned.
LEMMA TaskIs ==
    ASSUME NEW h \in {"worker", "api"}, NEW d \in Send!Deliveries
    PROVE  /\ Send!Task(h, d) \in Send!TaskSet /\ Send!Task(h, d).of = d /\ Send!Task(h, d).host = h
           /\ Send!Task(h, d).phase = "ready" /\ Send!Task(h, d).row = 0
  BY DEF Send!Task, Send!TaskSet, Send!Statuses

\* A retry commits: the row is marked and its tasks start, once.
LEMMA RetryCommitsKeeps ==
    ASSUME Send!DeliveryInv, NEW q \in Send!RetrySlots, Send!RetryCommits(q)
    PROVE  Send!DeliveryInv'
<1>1. /\ Send!DeliveryTypes /\ Send!DispatchKnown /\ Send!AllSingle /\ Send!GivenUpIsTold
      /\ Send!RetriedOnce /\ Send!PermitsKept /\ Send!TasksCounted
  BY DEF Send!DeliveryInv
<1>2. PICK r : r = retries[q].row
  OBVIOUS
<1>3. /\ UNCHANGED <<actions, firing, fired, told, raced, cut>>
      /\ Send!RetryKnown(q)
      /\ results' = [results EXCEPT ![r].retried = TRUE]
      /\ tasks' = tasks \cup {Send!Task("api", d) : d \in retries[q].spawn}
      /\ resent' = Append(resent, r)
      /\ retries' = [retries EXCEPT ![q] = Send!NoRetry]
  BY <1>1, <1>2 DEF Send!RetryCommits, Send!DispatchKnown
<1>4. /\ r \in DOMAIN results /\ retries[q].spawn = {Send!RetryOf(r)}
      /\ r \notin raced => ~results[r].retried /\ \A p \in Send!RetrySlots : retries[p].row = r => p = q
  BY <1>2, <1>3 DEF Send!RetryKnown
<1>5. PICK d : d = Send!RetryOf(r)
  OBVIOUS
<1>6. /\ r \in Nat \ {0} /\ d \in Send!Deliveries /\ d.by = r /\ d.firing = results[r].of.firing
      /\ results[r] \in Send!RowSet
  BY <1>1, <1>4, <1>5, RetryOfIs
<1>7. PICK u : u = Send!Task("api", d)
  OBVIOUS
<1>8. /\ tasks' = tasks \cup {u}
      /\ u \in Send!TaskSet /\ u.of = d /\ u.host = "api" /\ u.phase = "ready" /\ u.row = 0
  BY <1>3, <1>4, <1>5, <1>6, <1>7, TaskIs
<1>9. /\ results' \in Seq(Send!RowSet) /\ DOMAIN results' = DOMAIN results
      /\ \A s \in DOMAIN results : results'[s].of = results[s].of /\ results'[s].status = results[s].status
                                   /\ results'[s].byTask = results[s].byTask
      /\ \A s \in DOMAIN results : s # r => results'[s] = results[s]
      /\ results'[r].retried
  <2>1. results \in Seq(Send!RowSet)
    BY <1>1 DEF Send!DeliveryTypes
  <2>2. PICK x : x = [results[r] EXCEPT !.retried = TRUE]
    OBVIOUS
  <2>3. /\ x \in Send!RowSet /\ x.of = results[r].of /\ x.status = results[r].status /\ x.byTask = results[r].byTask
        /\ x.retried
    BY <1>6, <2>2 DEF Send!RowSet
  <2>4. results' = [results EXCEPT ![r] = x]
    BY <1>3, <2>2
  <2>5. QED
    BY <1>4, <2>1, <2>3, <2>4
<1>10. Onward
  BY <1>3, <1>9 DEF Onward
<1>11. Send!TaskKnown(u)'
  <2>1. d = Send!RetryOf(r)' /\ results'[r].retried /\ r \in DOMAIN results'
    BY <1>4, <1>5, <1>9, <1>10, RetryOfStays
  <2>2. d.firing \in DOMAIN fired'
    BY <1>1, <1>3, <1>4, <1>6 DEF Send!DispatchKnown, Send!RowKnown
  <2>3. u.host # "worker" /\ u.phase # "telling"
    BY <1>8
  <2>4. QED
    BY <1>6, <1>8, <2>1, <2>2, <2>3 DEF Send!TaskKnown, Send!RetryOf
<1>12. ASSUME NEW l \in Send!DeliveryLoops
       PROVE  firing'[l] = Send!NoFiring \/ Send!FiringKnown(l)'
  <2>1. CASE firing[l] = Send!NoFiring
    BY <1>3, <2>1
  <2>2. CASE Send!FiringKnown(l)
    <3>1. \A k \in Send!DeliveryLoops : firing[k].n = firing[l].n => k = l
      BY <2>2 DEF Send!FiringKnown
    <3>2. results[r].of.firing # firing[l].n
      BY <1>4, <2>2 DEF Send!FiringKnown
    <3>3. \A t \in tasks' \ tasks : t.of.firing # firing[l].n
      BY <1>6, <1>8, <3>2
    <3>4. Send!FiringKnown(l)'
      BY <1>3, <1>9, <1>10, <2>2, <3>1, <3>3, OldFiringKnown
    <3>5. QED
      BY <3>4
  <2>3. QED
    BY <1>1, <2>1, <2>2 DEF Send!DispatchKnown
<1>13. /\ retries' \in [Send!RetrySlots -> [row : Nat, spawn : SUBSET Send!Deliveries]]
       /\ retries'[q] = Send!NoRetry /\ \A p \in Send!RetrySlots : p # q => retries'[p] = retries[p]
  <2>1. retries \in [Send!RetrySlots -> [row : Nat, spawn : SUBSET Send!Deliveries]]
    BY <1>1 DEF Send!DeliveryTypes
  <2>2. Send!NoRetry \in [row : Nat, spawn : SUBSET Send!Deliveries]
    BY DEF Send!NoRetry
  <2>3. QED
    BY <1>3, <2>1, <2>2
<1>14. ASSUME NEW p \in Send!RetrySlots
       PROVE  retries'[p] = Send!NoRetry \/ Send!RetryKnown(p)'
  <2>1. CASE p = q
    BY <1>13, <2>1
  <2>2. CASE p # q /\ retries[p] = Send!NoRetry
    BY <1>13, <2>2
  <2>3. CASE p # q /\ Send!RetryKnown(p)
    <3>1. PICK s : s = retries[p].row
      OBVIOUS
    <3>2. retries'[p] = retries[p] /\ s \in DOMAIN results
      BY <1>13, <2>3, <3>1 DEF Send!RetryKnown
    <3>3. s \notin raced => s # r
      BY <1>2, <2>3, <3>1 DEF Send!RetryKnown
    <3>4. s # 0
      BY <1>1, <3>2, RetryOfIs
    <3>5. \A k \in Send!RetrySlots : retries'[k].row = s => retries[k].row = s
      BY <1>13, <3>4 DEF Send!NoRetry
    <3>6. s \notin raced' => (~results[s].retried => ~results'[s].retried)
      BY <1>3, <1>9, <3>2, <3>3
    <3>7. Send!RetryKnown(p)'
      BY <1>3, <1>10, <2>3, <3>1, <3>2, <3>5, <3>6, OldRetryKnown
    <3>8. QED
      BY <3>7
  <2>4. QED
    BY <1>1, <2>1, <2>2, <2>3 DEF Send!DispatchKnown
<1>15. /\ resent' \in Seq(Nat)
       /\ \A i \in DOMAIN resent' : \/ i \in DOMAIN resent /\ resent'[i] = resent[i]
                                    \/ i = Len(resent) + 1 /\ resent'[i] = r
  <2>1. resent \in Seq(Nat)
    BY <1>1 DEF Send!DeliveryTypes
  <2>2. QED
    BY <1>3, <1>6, <2>1, AppendElements
<1>16. Send!DispatchKnown'
  <2>1. \A t \in tasks' \ tasks : Send!TaskKnown(t)'
    BY <1>8, <1>11
  <2>2. \A i \in DOMAIN resent' : \/ i \in DOMAIN resent /\ resent'[i] = resent[i]
                                  \/ resent'[i] \in DOMAIN results' /\ results'[resent'[i]].retried
    BY <1>4, <1>9, <1>15
  <2>3. QED
    BY <1>1, <1>3, <1>9, <1>10, <1>12, <1>14, <2>1, <2>2, DispatchKeeps
<1>17. Send!DeliveryTypes'
  <2>1. IsFiniteSet(tasks') /\ tasks' \subseteq Send!TaskSet
    BY <1>1, <1>8, SendCount, FS_AddElement DEF Send!DeliveryTypes
  <2>2. told' \subseteq DOMAIN results'
    BY <1>1, <1>3, <1>9 DEF Send!DeliveryTypes
  <2>3. QED
    BY <1>1, <1>3, <1>9, <1>13, <1>15, <2>1, <2>2, SendCount DEF Send!DeliveryTypes, Send!Deliveries, Send!RowSet, Send!TaskSet, Send!FiringSet, Send!Statuses,
      Send!DeliveryLoops, Send!RetrySlots
<1>18. ASSUME NEW e, Send!Single(e), e # d
       PROVE  Send!Single(e)'
  <2>1. Send!RowsOf(e)' = Send!RowsOf(e)
    BY <1>9 DEF Send!RowsOf
  <2>2. Send!PendingOf(e)' = Send!PendingOf(e)
    BY <1>8, <1>18 DEF Send!PendingOf
  <2>3. Send!InDispatch(e)' <=> Send!InDispatch(e)
    BY <1>3 DEF Send!InDispatch, Send!Dispatched, Send!NoFiring, Send!DeliveryLoops
  <2>4. QED
    BY <1>3, <1>18, <2>1, <2>2, <2>3, SameSingle
<1>19. \A n \in DOMAIN fired' : \A e \in fired'[n].owes : Send!Single(e)'
  <2>1. \A n \in DOMAIN fired : \A e \in fired[n].owes : e # d /\ Send!Single(e)
    BY <1>1, <1>6 DEF Send!DispatchKnown, Send!OwesKnown, Send!AllSingle
  <2>2. QED
    BY <1>3, <1>18, <2>1
<1>20. ASSUME r \notin raced
       PROVE  Send!Single(d)'
  <2>1. ~results[r].retried
    BY <1>4, <1>20
  <2>2. Send!RowsOf(d)' = {}
    <3>1. \A s \in DOMAIN results : results[s].of # d
      BY <1>1, <1>6, <2>1 DEF Send!DispatchKnown, Send!RowKnown
    <3>2. QED
      BY <1>9, <3>1 DEF Send!RowsOf
  <2>3. Send!PendingOf(d)' = {u}
    <3>1. \A t \in tasks : t.host = "worker" \/ t.host = "api"
      BY <1>1 DEF Send!DeliveryTypes, Send!TaskSet
    <3>2. \A t \in tasks : t.of # d
      BY <1>1, <1>6, <2>1, <3>1 DEF Send!DispatchKnown, Send!TaskKnown
    <3>3. u.phase # "telling"
      BY <1>8
    <3>4. QED
      BY <1>8, <3>2, <3>3 DEF Send!PendingOf
  <2>4. ~Send!InDispatch(d)'
    <3>1. \A n \in DOMAIN fired : d \notin fired[n].owes
      BY <1>1, <1>6 DEF Send!DispatchKnown, Send!OwesKnown
    <3>2. \A l \in Send!DeliveryLoops : firing[l] = Send!NoFiring \/ firing[l].n \in DOMAIN fired
      BY <1>1 DEF Send!DispatchKnown, Send!FiringKnown
    <3>3. QED
      BY <1>3, <3>1, <3>2 DEF Send!InDispatch, Send!Dispatched, Send!NoFiring, Send!DeliveryLoops
  <2>5. QED
    BY <2>2, <2>3, <2>4 DEF Send!Single
<1>21. ASSUME NEW s \in DOMAIN results', results'[s].retried, s \notin raced'
       PROVE  Send!Single(Send!RetryOf(s))'
  <2>1. PICK e : e = Send!RetryOf(s)
    OBVIOUS
  <2>2. e = Send!RetryOf(s)' /\ s \in DOMAIN results /\ e.by = s
    BY <1>1, <1>9, <1>10, <2>1, <1>21, RetryOfStays, RetryOfIs
  <2>3. CASE s = r
    <3>1. Send!Single(e)'
      BY <1>3, <1>5, <1>20, <1>21, <2>1, <2>3
    <3>2. QED
      BY <2>2, <3>1 DEF Send!Single, Send!RowsOf, Send!PendingOf, Send!InDispatch
  <2>4. CASE s # r
    <3>1. Send!Single(e) /\ e # d
      BY <1>1, <1>3, <1>6, <1>9, <1>21, <2>1, <2>2, <2>4 DEF Send!AllSingle
    <3>2. Send!Single(e)'
      BY <1>18, <3>1
    <3>3. QED
      BY <2>2, <3>2 DEF Send!Single, Send!RowsOf, Send!PendingOf, Send!InDispatch
  <2>5. QED
    BY <2>3, <2>4
<1>22. Send!AllSingle'
  BY <1>19, <1>21 DEF Send!AllSingle
<1>23. Send!GivenUpIsTold'
  BY <1>1, <1>3, <1>8, <1>9 DEF Send!GivenUpIsTold
<1>24. Send!RetriedOnce'
  <2>1. ASSUME NEW i \in DOMAIN resent, resent[i] = r
        PROVE  r \in raced
    BY <1>1, <1>4, <2>1 DEF Send!DispatchKnown
  <2>2. QED
    BY <1>1, <1>3, <1>15, <2>1 DEF Send!RetriedOnce
<1>25. Send!PermitsKept'
  <2>1. \A h : Send!Holders(h)' = Send!Holders(h)
    BY <1>8 DEF Send!Holders, Send!TasksOf
  <2>2. QED
    BY <1>1, <2>1, SendCount DEF Send!PermitsKept
<1>26. Send!TasksCounted'
  <2>1. Send!TasksOf("worker")' = Send!TasksOf("worker") /\ Send!Ready' = Send!Ready
    BY <1>8 DEF Send!Ready, Send!TasksOf
  <2>2. QED
    BY <1>1, <1>3, <2>1, SendCount DEF Send!TasksCounted, Send!MostDeferred, Send!Max
<1>27. QED
  BY <1>16, <1>17, <1>22, <1>23, <1>24, <1>25, <1>26 DEF Send!DeliveryInv

-----------------------------------------------------------------------------
(* The end of a dispatch. *)

\* A list of a finite set's elements, each once.
LEMMA OrderIs ==
    ASSUME NEW T, NEW S, S \subseteq T, IsFiniteSet(S), NEW new \in Send!AnyOrder(S)
    PROVE  /\ new \in Seq(T) /\ Len(new) \in Nat /\ DOMAIN new = 1..Len(new)
           /\ \A i \in DOMAIN new : new[i] \in S
           /\ \A x \in S : \E i \in DOMAIN new : new[i] = x
           /\ \A i, j \in DOMAIN new : new[i] = new[j] => i = j
<1>1. PICK n \in Nat : n = Cardinality(S) /\ n = Send!Cardinality(S)
  BY FS_CardinalityType, SendCount
<1>2. new \in [1..n -> S] /\ \A i, j \in DOMAIN new : new[i] = new[j] => i = j
  BY <1>1 DEF Send!AnyOrder
<1>3. new \in Injection(1..n, S)
  BY <1>2 DEF Injection, IsInjective
<1>4. IsFiniteSet(1..n) /\ Cardinality(1..n) = n
  BY FS_Interval
<1>5. new \in Surjection(1..n, S)
  BY <1>1, <1>3, <1>4, FS_Injection
<1>6. \A x \in S : \E i \in 1..n : new[i] = x
  BY <1>5 DEF Surjection
<1>7. new \in Seq(T) /\ Len(new) = n
  BY <1>2
<1>8. QED
  BY <1>2, <1>6, <1>7

\* The rows of a list are appended.
LEMMA ConcatOnward ==
    ASSUME Send!DeliveryTypes, UNCHANGED fired, NEW new \in Seq(Send!RowSet), results' = results \o new
    PROVE  /\ Onward /\ \A r \in DOMAIN results : results'[r] = results[r]
           /\ \A r \in DOMAIN results' \ DOMAIN results : \E i \in DOMAIN new : r = Len(results) + i /\ results'[r] = new[i]
           /\ \A i \in DOMAIN new : /\ Len(results) + i \in DOMAIN results' \ DOMAIN results
                                    /\ results'[Len(results) + i] = new[i]
<1>1. results \in Seq(Send!RowSet)
  BY DEF Send!DeliveryTypes
<1>2. PICK a \in Nat, b \in Nat : a = Len(results) /\ b = Len(new)
  BY <1>1
<1>3. /\ results' \in Seq(Send!RowSet) /\ DOMAIN results = 1..a /\ DOMAIN new = 1..b /\ DOMAIN results' = 1..(a + b)
      /\ \A i \in 1..a : results'[i] = results[i]
      /\ \A i \in 1..b : results'[a + i] = new[i]
  BY <1>1, <1>2
<1>4. \A r \in 1..(a + b) : r \notin 1..a => r - a \in 1..b /\ r = a + (r - a)
  BY <1>2
<1>5. \A i \in 1..b : a + i \in 1..(a + b) /\ a + i \notin 1..a
  BY <1>2
<1>6. \A r \in DOMAIN results' \ DOMAIN results : \E i \in DOMAIN new : r = Len(results) + i /\ results'[r] = new[i]
  <2>1. ASSUME NEW r \in DOMAIN results' \ DOMAIN results
        PROVE  \E i \in DOMAIN new : r = Len(results) + i /\ results'[r] = new[i]
    <3>1. PICK i : i = r - a
      OBVIOUS
    <3>2. i \in 1..b /\ r = a + i
      BY <1>3, <1>4, <2>1, <3>1
    <3>3. results'[r] = new[i]
      BY <1>3, <3>2
    <3>4. QED
      BY <1>2, <1>3, <3>2, <3>3
  <2>2. QED
    BY <2>1
<1>7. \A i \in DOMAIN new : /\ Len(results) + i \in DOMAIN results' \ DOMAIN results
                            /\ results'[Len(results) + i] = new[i]
  BY <1>2, <1>3, <1>5
<1>8. DOMAIN results \subseteq DOMAIN results'
  BY <1>2, <1>3
<1>9. Onward /\ \A r \in DOMAIN results : results'[r] = results[r]
  BY <1>3, <1>8 DEF Onward
<1>10. QED
  BY <1>6, <1>7, <1>9

\* The rows of a firing: each of its own, once, after those there were.
WritesRows(S) ==
  /\ Onward /\ \A r \in DOMAIN results : results'[r] = results[r]
  /\ \A r \in DOMAIN results' \ DOMAIN results : results'[r] \in S
  /\ \A x \in S : \E r \in DOMAIN results' \ DOMAIN results : results'[r] = x
  /\ \A r, s \in DOMAIN results' \ DOMAIN results : results'[r] = results'[s] => r = s

\* Rows appended in any order are rows written.
LEMMA RowsAreWritten ==
    ASSUME Send!DeliveryTypes, UNCHANGED fired, NEW S, S \subseteq Send!RowSet, IsFiniteSet(S),
           \E new \in Send!AnyOrder(S) : results' = results \o new
    PROVE  WritesRows(S)
<1>1. PICK new \in Send!AnyOrder(S) : results' = results \o new
  OBVIOUS
<1>2. /\ new \in Seq(Send!RowSet)
      /\ \A i \in DOMAIN new : new[i] \in S
      /\ \A x \in S : \E i \in DOMAIN new : new[i] = x
      /\ \A i, j \in DOMAIN new : new[i] = new[j] => i = j
  BY <1>1, OrderIs
<1>3. /\ Onward /\ \A r \in DOMAIN results : results'[r] = results[r]
      /\ \A r \in DOMAIN results' \ DOMAIN results : \E i \in DOMAIN new : r = Len(results) + i /\ results'[r] = new[i]
      /\ \A i \in DOMAIN new : /\ Len(results) + i \in DOMAIN results' \ DOMAIN results
                               /\ results'[Len(results) + i] = new[i]
  BY <1>1, <1>2, ConcatOnward
<1>4. /\ \A r \in DOMAIN results' \ DOMAIN results : results'[r] \in S
      /\ \A x \in S : \E r \in DOMAIN results' \ DOMAIN results : results'[r] = x
  BY <1>2, <1>3
<1>5. ASSUME NEW r \in DOMAIN results' \ DOMAIN results, NEW s \in DOMAIN results' \ DOMAIN results, results'[r] = results'[s]
      PROVE  r = s
  <2>1. PICK i \in DOMAIN new : r = Len(results) + i /\ results'[r] = new[i]
    BY <1>3
  <2>2. PICK j \in DOMAIN new : s = Len(results) + j /\ results'[s] = new[j]
    BY <1>3
  <2>3. i = j
    BY <1>2, <1>5, <2>1, <2>2
  <2>4. QED
    BY <2>1, <2>2, <2>3
<1>6. QED
  BY <1>3, <1>4, <1>5 DEF WritesRows

\* A loop is done with its firing: the rows and the tasks there are, or the part
\* of it that is cut off.
EndsDispatch(l) ==
  /\ UNCHANGED <<actions, fired, told, retries, resent, raced>> /\ cut \subseteq cut'
  /\ firing' = [firing EXCEPT ![l] = Send!NoFiring]
  /\ \/ tasks' = tasks \cup {Send!Task("worker", d) : d \in firing[l].spawn} /\ WritesRows(firing[l].inline)
     \/ tasks' = tasks /\ UNCHANGED results /\ fired[firing[l].n].owes \subseteq cut'
     \/ tasks' = tasks /\ WritesRows(firing[l].inline) /\ firing[l].spawn \subseteq cut'

\* _record_deliveries or its failure: rows are written or not, and the tasks start.
LEMMA EndsDispatchIs ==
    ASSUME Send!DeliveryInv, NEW l \in Send!DeliveryLoops, Send!Recorded(l) \/ Send!RecordFails(l)
    PROVE  Send!FiringKnown(l) /\ EndsDispatch(l)
<1>1. Send!DeliveryTypes /\ Send!FiringKnown(l)
  BY DEF Send!DeliveryInv, Send!DispatchKnown, Send!Recorded, Send!RecordFails
<1>2. PICK S : S = firing[l].inline
  OBVIOUS
<1>3. S \subseteq Send!RowSet /\ IsFiniteSet(S)
  BY <1>1, <1>2, SendCount DEF Send!DeliveryTypes, Send!FiringSet, Send!FiringKnown
<1>4. UNCHANGED fired
  BY DEF Send!Recorded, Send!RecordFails
<1>5. (\E new \in Send!AnyOrder(S) : results' = results \o new) => WritesRows(S)
  BY <1>1, <1>3, <1>4, RowsAreWritten
<1>6. CASE Send!Recorded(l)
  <2>1. /\ UNCHANGED <<actions, fired, told, retries, resent, raced, cut>>
        /\ firing' = [firing EXCEPT ![l] = Send!NoFiring]
        /\ tasks' = tasks \cup {Send!Task("worker", d) : d \in firing[l].spawn}
        /\ \E new \in Send!AnyOrder(S) : results' = results \o new
    BY <1>2, <1>6 DEF Send!Recorded
  <2>2. WritesRows(firing[l].inline)
    BY <1>2, <1>5, <2>1
  <2>3. QED
    BY <1>1, <2>1, <2>2 DEF EndsDispatch
<1>7. CASE Send!RecordFails(l)
  <2>1. /\ UNCHANGED <<actions, fired, tasks, told, retries, resent, raced>>
        /\ firing' = [firing EXCEPT ![l] = Send!NoFiring]
        /\ \/ cut' = cut \cup fired[firing[l].n].owes /\ UNCHANGED results
           \/ cut' = cut \cup firing[l].spawn /\ \E new \in Send!AnyOrder(S) : results' = results \o new
    BY <1>2, <1>7 DEF Send!RecordFails
  <2>2. CASE cut' = cut \cup fired[firing[l].n].owes /\ UNCHANGED results
    BY <1>1, <2>1, <2>2 DEF EndsDispatch
  <2>3. CASE cut' = cut \cup firing[l].spawn /\ \E new \in Send!AnyOrder(S) : results' = results \o new
    <3>1. WritesRows(firing[l].inline)
      BY <1>2, <1>5, <2>3
    <3>2. QED
      BY <1>1, <2>1, <2>3, <3>1 DEF EndsDispatch
  <2>4. QED
    BY <2>1, <2>2, <2>3
<1>8. QED
  BY <1>6, <1>7

\* What is there after it: the rows are the firing's, and so are the tasks.
LEMMA EndsDispatchLeaves ==
    ASSUME Send!DeliveryInv, NEW l \in Send!DeliveryLoops, Send!FiringKnown(l), EndsDispatch(l)
    PROVE  LET n == firing[l].n
           IN  /\ Onward /\ \A r \in DOMAIN results : results'[r] = results[r]
               /\ \A r \in DOMAIN results' \ DOMAIN results :
                    /\ results'[r] \in firing[l].inline /\ results'[r].of.firing = n /\ results'[r].of.by = 0
                    /\ ~results'[r].byTask /\ ~results'[r].retried
               /\ tasks \subseteq tasks' /\ tasks' \subseteq Send!TaskSet /\ IsFiniteSet(tasks')
               /\ \A t \in tasks' \ tasks : /\ t.of \in firing[l].spawn /\ t = Send!Task("worker", t.of)
                                            /\ t.of.firing = n /\ t.host = "worker" /\ t.phase = "ready" /\ t.row = 0
               /\ firing' \in [Send!DeliveryLoops -> Send!FiringSet]
               /\ firing'[l] = Send!NoFiring /\ \A k \in Send!DeliveryLoops : k # l => firing'[k] = firing[k]
<1>1. Send!DeliveryTypes /\ Send!DispatchKnown
  BY DEF Send!DeliveryInv
<1>2. PICK n : n = firing[l].n
  OBVIOUS
<1>3. /\ n \in DOMAIN fired /\ (firing[l].spawn = fired[n].owes \/ firing[l].spawn = {})
      /\ \A x \in firing[l].inline : x.of.firing = n /\ x.of.by = 0 /\ ~x.byTask /\ ~x.retried
  BY <1>2 DEF Send!FiringKnown
<1>4. UNCHANGED results => Onward
  BY <1>1 DEF Onward, Send!DeliveryTypes, EndsDispatch
<1>5. /\ Onward /\ \A r \in DOMAIN results : results'[r] = results[r]
      /\ \A r \in DOMAIN results' \ DOMAIN results : results'[r] \in firing[l].inline
  BY <1>4 DEF EndsDispatch, WritesRows
<1>6. firing[l].spawn \subseteq Send!Deliveries /\ IsFiniteSet(firing[l].spawn)
      /\ \A d \in firing[l].spawn : d.firing = n
  <2>1. firing[l].spawn \subseteq Send!Deliveries
    BY <1>1 DEF Send!DeliveryTypes, Send!FiringSet
  <2>2. \A d \in firing[l].spawn : d.firing = n
    BY <1>1, <1>3 DEF Send!DispatchKnown, Send!OwesKnown
  <2>3. QED
    BY <1>1, <2>1, <2>2, SpawnsAre
<1>7. /\ tasks \subseteq tasks'
      /\ \A t \in tasks' \ tasks : \E d \in firing[l].spawn : t = Send!Task("worker", d)
  BY DEF EndsDispatch
<1>8. \A t \in tasks' \ tasks : /\ t \in Send!TaskSet /\ t.of \in firing[l].spawn /\ t = Send!Task("worker", t.of)
                                /\ t.of.firing = n /\ t.host = "worker" /\ t.phase = "ready" /\ t.row = 0
  <2>1. ASSUME NEW t \in tasks' \ tasks
        PROVE  /\ t \in Send!TaskSet /\ t.of \in firing[l].spawn /\ t = Send!Task("worker", t.of)
               /\ t.of.firing = n /\ t.host = "worker" /\ t.phase = "ready" /\ t.row = 0
    <3>1. PICK d \in firing[l].spawn : t = Send!Task("worker", d)
      BY <1>7
    <3>2. /\ t \in Send!TaskSet /\ t.of = d /\ t.host = "worker" /\ t.phase = "ready" /\ t.row = 0
      BY <1>6, <3>1, TaskIs
    <3>3. QED
      BY <1>6, <3>1, <3>2
  <2>2. QED
    BY <2>1
<1>9. tasks' \subseteq Send!TaskSet
  BY <1>1, <1>8 DEF Send!DeliveryTypes
<1>10. IsFiniteSet(tasks')
  <2>1. PICK Q : Q = {Send!Task("worker", d) : d \in firing[l].spawn}
    OBVIOUS
  <2>2. IsFiniteSet(Q)
    <3>1. PICK f : f = [d \in firing[l].spawn |-> Send!Task("worker", d)]
      OBVIOUS
    <3>2. f \in Surjection(firing[l].spawn, Q)
      BY <2>1, <3>1 DEF Surjection
    <3>3. QED
      BY <1>6, <3>2, FS_Surjection
  <2>3. IsFiniteSet(tasks) /\ IsFiniteSet(tasks \cup Q)
    BY <1>1, <2>2, FS_Union, SendCount DEF Send!DeliveryTypes
  <2>4. QED
    BY <2>1, <2>3 DEF EndsDispatch
<1>11. /\ firing' \in [Send!DeliveryLoops -> Send!FiringSet]
       /\ firing'[l] = Send!NoFiring /\ \A k \in Send!DeliveryLoops : k # l => firing'[k] = firing[k]
  <2>1. Send!NoFiring \in Send!FiringSet
    BY DEF Send!NoFiring, Send!FiringSet
  <2>2. QED
    BY <1>1, <2>1 DEF EndsDispatch, Send!DeliveryTypes
<1>12. QED
  BY <1>2, <1>3, <1>5, <1>7, <1>8, <1>9, <1>10, <1>11

\* What is known of deliveries, tasks and rows at the end of a dispatch.
LEMMA EndsDispatchKnown ==
    ASSUME Send!DeliveryInv, NEW l \in Send!DeliveryLoops, Send!FiringKnown(l), EndsDispatch(l)
    PROVE  Send!DeliveryTypes' /\ Send!DispatchKnown'
<1>1. Send!DeliveryTypes /\ Send!DispatchKnown
  BY DEF Send!DeliveryInv
<1>2. PICK n : n = firing[l].n
  OBVIOUS
<1>3. /\ Onward /\ \A r \in DOMAIN results : results'[r] = results[r]
      /\ \A r \in DOMAIN results' \ DOMAIN results : results'[r].of.firing = n /\ results'[r].of.by = 0
      /\ tasks' \subseteq Send!TaskSet /\ IsFiniteSet(tasks')
      /\ \A t \in tasks' \ tasks : /\ t.of \in firing[l].spawn
                                   /\ t.of.firing = n /\ t.host = "worker" /\ t.phase = "ready" /\ t.row = 0
      /\ firing' \in [Send!DeliveryLoops -> Send!FiringSet]
      /\ firing'[l] = Send!NoFiring /\ \A k \in Send!DeliveryLoops : k # l => firing'[k] = firing[k]
  BY <1>2, EndsDispatchLeaves
<1>4. UNCHANGED <<actions, fired, told, retries, resent, raced>>
  BY DEF EndsDispatch
<1>5. n \in DOMAIN fired /\ (firing[l].spawn = fired[n].owes \/ firing[l].spawn = {}) /\ n # 0
      /\ \A k \in Send!DeliveryLoops : firing[k].n = n => k = l
  BY <1>1, <1>2 DEF Send!FiringKnown, Send!DeliveryTypes
<1>6. Send!DeliveryTypes'
  <2>1. told' \subseteq DOMAIN results' /\ results' \in Seq(Send!RowSet)
    BY <1>1, <1>3, <1>4 DEF Send!DeliveryTypes, Onward
  <2>2. QED
    BY <1>1, <1>3, <1>4, <2>1, SendCount DEF Send!DeliveryTypes, Send!Deliveries, Send!RowSet, Send!TaskSet, Send!FiringSet, Send!Statuses,
      Send!DeliveryLoops, Send!RetrySlots
<1>7. ASSUME NEW k \in Send!DeliveryLoops
      PROVE  firing'[k] = Send!NoFiring \/ Send!FiringKnown(k)'
  <2>1. CASE k = l \/ firing[k] = Send!NoFiring
    BY <1>3, <2>1
  <2>2. CASE k # l /\ Send!FiringKnown(k)
    <3>1. firing[k].n # n /\ firing'[k] = firing[k]
      BY <1>3, <1>5, <2>2
    <3>2. /\ \A r \in DOMAIN results' \ DOMAIN results : results'[r].of.firing # firing[k].n
          /\ \A t \in tasks' \ tasks : t.of.firing # firing[k].n
      BY <1>3, <3>1
    <3>3. firing[k].n # 0 /\ \A j \in Send!DeliveryLoops : firing[j].n = firing[k].n => j = k
      BY <1>1, <2>2 DEF Send!FiringKnown, Send!DeliveryTypes
    <3>4. \A j \in Send!DeliveryLoops : firing'[j].n = firing[k].n => j = k
      BY <1>3, <3>3 DEF Send!NoFiring
    <3>5. Send!FiringKnown(k)'
      BY <1>3, <2>2, <3>1, <3>2, <3>4, OldFiringKnown
    <3>6. QED
      BY <3>5
  <2>3. QED
    BY <1>1, <2>1, <2>2 DEF Send!DispatchKnown
<1>8. ASSUME NEW q \in Send!RetrySlots
      PROVE  retries'[q] = Send!NoRetry \/ Send!RetryKnown(q)'
  <2>1. CASE retries[q] = Send!NoRetry
    BY <1>4, <2>1
  <2>2. CASE Send!RetryKnown(q)
    <3>1. retries[q].row \in DOMAIN results
      BY <2>2 DEF Send!RetryKnown
    <3>2. Send!RetryKnown(q)'
      BY <1>3, <1>4, <2>2, <3>1, OldRetryKnown
    <3>3. QED
      BY <3>2
  <2>3. QED
    BY <1>1, <2>1, <2>2 DEF Send!DispatchKnown
<1>9. ASSUME NEW t \in tasks' \ tasks
      PROVE  Send!TaskKnown(t)'
  <2>1. t.of.firing = n /\ t.host = "worker" /\ t.phase = "ready" /\ t.row = 0 /\ t.of \in fired[n].owes
    BY <1>3, <1>5
  <2>2. t.of.by = 0
    BY <1>1, <1>5, <2>1 DEF Send!DispatchKnown, Send!OwesKnown
  <2>3. t.host # "api" /\ t.phase # "telling"
    BY <2>1
  <2>4. QED
    BY <1>4, <1>5, <2>1, <2>2, <2>3 DEF Send!TaskKnown
<1>10. \A r \in DOMAIN results' \ DOMAIN results : Send!RowKnown(r)'
  BY <1>3, <1>4, <1>5 DEF Send!RowKnown
<1>11. Send!DispatchKnown'
  BY <1>1, <1>3, <1>4, <1>7, <1>8, <1>9, <1>10, DispatchKeeps
<1>12. QED
  BY <1>6, <1>11

\* A delivery of the firing: it is a row now, or a task, or cut off; no other is touched.
LEMMA EndsDispatchSingle ==
    ASSUME Send!DeliveryInv, NEW l \in Send!DeliveryLoops, Send!FiringKnown(l), EndsDispatch(l)
    PROVE  Send!AllSingle'
<1>1. Send!DeliveryTypes /\ Send!DispatchKnown /\ Send!AllSingle
  BY DEF Send!DeliveryInv
<1>2. PICK n, f : n = firing[l].n /\ f = firing[l]
  OBVIOUS
<1>3. /\ Onward /\ \A r \in DOMAIN results : results'[r] = results[r]
      /\ \A r \in DOMAIN results' \ DOMAIN results :
           results'[r] \in f.inline /\ results'[r].of.firing = n /\ results'[r].of.by = 0 /\ ~results'[r].retried
      /\ tasks \subseteq tasks'
      /\ \A t \in tasks' \ tasks : /\ t.of \in f.spawn /\ t = Send!Task("worker", t.of)
                                   /\ t.of.firing = n /\ t.host = "worker" /\ t.phase = "ready"
      /\ firing'[l] = Send!NoFiring /\ \A k \in Send!DeliveryLoops : k # l => firing'[k] = firing[k]
  BY <1>2, EndsDispatchLeaves
<1>4. UNCHANGED <<fired, raced>> /\ cut \subseteq cut'
  BY DEF EndsDispatch
<1>5. /\ n \in DOMAIN fired /\ n # 0
      /\ \A k \in Send!DeliveryLoops : firing[k].n = n => k = l
      /\ \/ f.spawn = fired[n].owes /\ \A x \in f.inline : x.of \notin fired[n].owes
         \/ f.spawn = {} /\ \A d \in fired[n].owes : \E x \in f.inline : \A y \in f.inline : y.of = d <=> y = x
      /\ \A r \in DOMAIN results : results[r].of.firing # n
      /\ \A t \in tasks : t.of.firing # n
  BY <1>1, <1>2 DEF Send!FiringKnown, Send!DeliveryTypes
<1>6. /\ \A k \in Send!DeliveryLoops : firing[k] # Send!NoFiring => firing[k].n \in DOMAIN fired
      /\ \A k \in DOMAIN fired : \A d \in fired[k].owes : d.firing = k /\ d.by = 0
  BY <1>1 DEF Send!DispatchKnown, Send!FiringKnown, Send!OwesKnown
<1>7. firing[l] # Send!NoFiring
  BY <1>2, <1>5 DEF Send!NoFiring
<1>8. ASSUME NEW d \in fired[n].owes
      PROVE  Send!Single(d)'
  <2>1. d.firing = n
    BY <1>5, <1>6
  <2>2. ~Send!InDispatch(d)'
    <3>1. ASSUME NEW k \in Send!DeliveryLoops, firing'[k] # Send!NoFiring
          PROVE  d \notin fired'[firing'[k].n].owes
      <4>1. k # l /\ firing'[k] = firing[k] /\ firing[k].n # n /\ firing[k].n \in DOMAIN fired
        BY <1>3, <1>5, <1>6, <3>1
      <4>2. QED
        BY <1>4, <1>6, <2>1, <4>1
    <3>2. QED
      BY <3>1 DEF Send!InDispatch, Send!Dispatched, Send!NoFiring, Send!DeliveryLoops
  <2>3. \A r \in DOMAIN results : results'[r].of # d
    BY <1>3, <1>5, <2>1
  <2>4. \A t \in tasks : t.of # d
    BY <1>5, <2>1
  <2>5. CASE d \in f.spawn
    <3>1. f.spawn = fired[n].owes /\ \A x \in f.inline : x.of \notin fired[n].owes
      BY <1>5, <2>5
    <3>2. Send!RowsOf(d)' = {}
      BY <1>3, <2>3, <3>1 DEF Send!RowsOf
    <3>3. \A t \in tasks' : t.of = d => t = Send!Task("worker", d)
      BY <1>3, <2>4
    <3>4. \A t, u \in Send!PendingOf(d)' : t = u
      BY <3>3 DEF Send!PendingOf
    <3>5. Send!PendingOf(d)' # {} \/ d \in cut'
      <4>1. CASE tasks' = tasks \cup {Send!Task("worker", e) : e \in firing[l].spawn}
        <5>1. PICK t : t = Send!Task("worker", d)
          OBVIOUS
        <5>2. t \in tasks' /\ d \in Send!Deliveries
          BY <1>1, <1>2, <2>5, <4>1, <5>1 DEF Send!DeliveryTypes, Send!FiringSet
        <5>3. t.of = d /\ t.phase = "ready"
          BY <5>1, <5>2, TaskIs
        <5>4. t \in Send!PendingOf(d)'
          BY <5>2, <5>3 DEF Send!PendingOf
        <5>5. QED
          BY <5>4
      <4>2. CASE fired[firing[l].n].owes \subseteq cut' \/ firing[l].spawn \subseteq cut'
        BY <1>2, <2>5, <4>2
      <4>3. QED
        BY <4>1, <4>2 DEF EndsDispatch
    <3>6. QED
      BY <2>2, <3>2, <3>4, <3>5 DEF Send!Single
  <2>6. CASE d \notin f.spawn
    <3>1. PICK x \in f.inline : \A y \in f.inline : y.of = d <=> y = x
      BY <1>5, <2>6
    <3>2. Send!PendingOf(d)' = {}
      BY <1>3, <2>4, <2>6 DEF Send!PendingOf
    <3>3. CASE WritesRows(firing[l].inline)
      <4>1. PICK r \in DOMAIN results' \ DOMAIN results : results'[r] = x
        BY <1>2, <3>1, <3>3 DEF WritesRows
      <4>2. Send!RowsOf(d)' = {r}
        <5>1. \A s \in DOMAIN results' : results'[s].of = d => s \in DOMAIN results' \ DOMAIN results /\ results'[s] = x
          BY <1>3, <2>3, <3>1
        <5>2. \A s \in DOMAIN results' : results'[s].of = d => s = r
          BY <3>3, <4>1, <5>1 DEF WritesRows
        <5>3. results'[r].of = d
          BY <3>1, <4>1
        <5>4. QED
          BY <4>1, <5>2, <5>3 DEF Send!RowsOf
      <4>3. QED
        BY <2>2, <3>2, <4>2 DEF Send!Single
    <3>4. CASE UNCHANGED results /\ fired[firing[l].n].owes \subseteq cut'
      <4>1. Send!RowsOf(d)' = {}
        BY <2>3, <3>4 DEF Send!RowsOf
      <4>2. d \in cut'
        BY <1>2, <3>4
      <4>3. QED
        BY <2>2, <3>2, <4>1, <4>2 DEF Send!Single
    <3>5. QED
      BY <3>3, <3>4 DEF EndsDispatch
  <2>7. QED
    BY <2>5, <2>6
<1>9. ASSUME NEW d, Send!Single(d), d.firing # n \/ d.by # 0, d \notin fired[n].owes
      PROVE  Send!Single(d)'
  <2>1. Send!RowsOf(d)' = Send!RowsOf(d)
    BY <1>3, <1>9 DEF Send!RowsOf, Onward
  <2>2. f.spawn = fired[n].owes \/ f.spawn = {}
    BY <1>5
  <2>3. Send!PendingOf(d)' = Send!PendingOf(d)
    BY <1>3, <1>9, <2>2 DEF Send!PendingOf
  <2>4. Send!InDispatch(d)' <=> Send!InDispatch(d)
    <3>1. \A k \in Send!DeliveryLoops :
            (firing'[k] # Send!NoFiring /\ d \in fired'[firing'[k].n].owes)
              <=> (firing[k] # Send!NoFiring /\ d \in fired[firing[k].n].owes)
      BY <1>2, <1>3, <1>4, <1>9
    <3>2. QED
      BY <3>1 DEF Send!InDispatch, Send!Dispatched, Send!NoFiring, Send!DeliveryLoops
  <2>5. QED
    BY <1>4, <1>9, <2>1, <2>3, <2>4, SameSingle
<1>10. \A k \in DOMAIN fired' : \A d \in fired'[k].owes : Send!Single(d)'
  <2>1. ASSUME NEW k \in DOMAIN fired, NEW d \in fired[k].owes
        PROVE  Send!Single(d)'
    <3>1. CASE k = n
      BY <1>8, <3>1
    <3>2. CASE k # n
      <4>1. Send!Single(d) /\ d.firing # n /\ d \notin fired[n].owes
        BY <1>1, <1>5, <1>6, <3>2 DEF Send!AllSingle
      <4>2. QED
        BY <1>9, <4>1
    <3>3. QED
      BY <3>1, <3>2
  <2>2. QED
    BY <1>4, <2>1
<1>11. ASSUME NEW r \in DOMAIN results', results'[r].retried, r \notin raced'
       PROVE  Send!Single(Send!RetryOf(r))'
  <2>1. r \in DOMAIN results /\ results[r].retried /\ r \notin raced
    BY <1>3, <1>4, <1>11
  <2>2. PICK d : d = Send!RetryOf(r)
    OBVIOUS
  <2>3. Send!RetryOf(r)' = d /\ d.by = r /\ r # 0 /\ Send!Single(d)
    BY <1>1, <1>3, <2>1, <2>2, RetryOfStays, RetryOfIs DEF Send!AllSingle
  <2>4. d \notin fired[n].owes
    BY <1>5, <1>6, <2>3
  <2>5. Send!Single(d)'
    BY <1>9, <2>3, <2>4
  <2>6. QED
    BY <2>3, <2>5 DEF Send!Single, Send!RowsOf, Send!PendingOf, Send!InDispatch
<1>12. QED
  BY <1>10, <1>11 DEF Send!AllSingle

\* What was in hand is tasks now.
LEMMA EndsDispatchCounts ==
    ASSUME Send!DeliveryInv, NEW l \in Send!DeliveryLoops, Send!FiringKnown(l), EndsDispatch(l),
           tasks' = tasks \/ \A t \in Send!TasksOf("worker") : t.phase # "ready"
    PROVE  Send!TasksCounted' /\ Send!PermitsKept'
<1>1. Send!DeliveryTypes /\ Send!DispatchKnown /\ Send!TasksCounted /\ Send!PermitsKept
  BY DEF Send!DeliveryInv
<1>2. PICK S : S = firing[l].spawn
  OBVIOUS
<1>3. IsFiniteSet(S) /\ Cardinality(S) \in Nat
      /\ (Cardinality(S) = 0 \/ (firing[l].n \in DOMAIN fired /\ S = fired[firing[l].n].owes))
  BY <1>1, <1>2, SpawnsAre
<1>4. /\ \A t \in tasks' \ tasks : /\ t.of \in S /\ t = Send!Task("worker", t.of)
                                   /\ t.host = "worker" /\ t.phase = "ready"
      /\ tasks \subseteq tasks'
      /\ firing'[l] = Send!NoFiring /\ \A k \in Send!DeliveryLoops : k # l => firing'[k] = firing[k]
  BY <1>2, EndsDispatchLeaves
<1>5. PICK N : N = tasks' \ tasks
  OBVIOUS
<1>6. IsFiniteSet(N) /\ Cardinality(N) \in Nat /\ Cardinality(N) <= Cardinality(S)
  <2>1. PICK f, Q : f = [d \in S |-> Send!Task("worker", d)] /\ Q = {Send!Task("worker", d) : d \in S}
    OBVIOUS
  <2>2. f \in Surjection(S, Q)
    BY <2>1 DEF Surjection
  <2>3. IsFiniteSet(Q) /\ Cardinality(Q) <= Cardinality(S)
    BY <1>3, <2>2, FS_Surjection
  <2>4. N \subseteq Q
    BY <1>4, <1>5, <2>1
  <2>5. Cardinality(N) \in Nat /\ IsFiniteSet(N) /\ Cardinality(N) <= Cardinality(Q) /\ Cardinality(Q) \in Nat
    BY <2>3, <2>4, Fewer
  <2>6. QED
    BY <1>3, <2>3, <2>5
<1>7. Send!PermitsKept'
  <2>1. \A h : Send!Holders(h)' = Send!Holders(h)
    BY <1>4 DEF Send!Holders, Send!TasksOf
  <2>2. QED
    BY <1>1, <2>1, SendCount DEF Send!PermitsKept
<1>8. PICK A, B, P, Q : /\ A = Send!TasksOf("worker") /\ B = Send!TasksOf("worker")'
                        /\ P = Send!Ready /\ Q = Send!Ready'
  OBVIOUS
<1>9. IsFiniteSet(A) /\ IsFiniteSet(P) /\ Cardinality(A) \in Nat /\ Cardinality(P) \in Nat
  BY <1>1, <1>8, TasksAre, FS_CardinalityType
<1>10. B \subseteq A \cup N
  BY <1>4, <1>5, <1>8 DEF Send!TasksOf
<1>11. Cardinality(B) \in Nat /\ Cardinality(B) <= Cardinality(A) + Cardinality(N)
  <2>1. IsFiniteSet(A \cup N) /\ Cardinality(A \cup N) = Cardinality(A) + Cardinality(N) - Cardinality(A \cap N)
    BY <1>6, <1>9, FS_Union
  <2>2. Cardinality(A \cap N) \in Nat
    BY <1>9, Fewer
  <2>3. Cardinality(B) \in Nat /\ Cardinality(A \cup N) \in Nat /\ Cardinality(B) <= Cardinality(A \cup N)
    BY <1>10, <2>1, Fewer
  <2>4. QED
    BY <1>6, <1>9, <2>1, <2>2, <2>3
<1>12. Cardinality(Q) \in Nat /\ (Cardinality(Q) <= Cardinality(P) \/ Cardinality(Q) <= Cardinality(N))
  <2>1. CASE tasks' = tasks
    <3>1. Q \subseteq P
      BY <1>8, <2>1 DEF Send!Ready, Send!TasksOf
    <3>2. QED
      BY <1>9, <3>1, Fewer
  <2>2. CASE \A t \in Send!TasksOf("worker") : t.phase # "ready"
    <3>1. Q \subseteq N
      BY <1>4, <1>5, <1>8, <2>2 DEF Send!Ready, Send!TasksOf
    <3>2. QED
      BY <1>6, <3>1, Fewer
  <2>3. QED
    BY <2>1, <2>2
<1>13. fired # <<>> => Send!MostDeferred \in Nat /\ Cardinality(N) <= Send!MostDeferred
  <2>1. ASSUME fired # <<>>
        PROVE  Send!MostDeferred \in Nat /\ Cardinality(N) <= Send!MostDeferred
    <3>1. /\ Send!MostDeferred \in Nat
          /\ \A k \in DOMAIN fired : Cardinality(fired[k].owes) \in Nat /\ Cardinality(fired[k].owes) <= Send!MostDeferred
      BY <1>1, <2>1, MostThere
    <3>2. Cardinality(S) <= Send!MostDeferred
      BY <1>3, <3>1
    <3>3. QED
      BY <1>3, <1>6, <3>1, <3>2
  <2>2. QED
    BY <2>1
<1>14. PICK b \in Nat, c \in Nat : b = Cardinality(firing["Ingest"].spawn) /\ c = Cardinality(firing["Manual"].spawn)
  BY <1>1, SpawnsAre DEF Send!DeliveryLoops
<1>15. PICK y \in Nat, z \in Nat : /\ y = Cardinality(firing'["Ingest"].spawn) /\ z = Cardinality(firing'["Manual"].spawn)
                                   /\ y + z + Cardinality(S) = b + c
  <2>1. Cardinality(firing'[l].spawn) = 0
    BY <1>4, FS_EmptySet DEF Send!NoFiring
  <2>2. CASE l = "Ingest"
    <3>1. firing'["Manual"] = firing["Manual"]
      BY <1>4, <2>2 DEF Send!DeliveryLoops
    <3>2. b = Cardinality(S) /\ Cardinality(firing'["Ingest"].spawn) = 0
      BY <1>2, <1>14, <2>1, <2>2
    <3>3. 0 + c + b = b + c
      BY <1>14
    <3>4. QED
      BY <1>14, <3>1, <3>2, <3>3
  <2>3. CASE l = "Manual"
    <3>1. firing'["Ingest"] = firing["Ingest"]
      BY <1>4, <2>3 DEF Send!DeliveryLoops
    <3>2. c = Cardinality(S) /\ Cardinality(firing'["Manual"].spawn) = 0
      BY <1>2, <1>14, <2>1, <2>3
    <3>3. b + 0 + c = b + c
      BY <1>14
    <3>4. QED
      BY <1>14, <3>1, <3>2, <3>3
  <2>4. QED
    BY <2>2, <2>3 DEF Send!DeliveryLoops
<1>16. Cardinality(B) + y + z <= Cardinality(A) + b + c
  <2>1. PICK a \in Nat, x \in Nat, n \in Nat, s \in Nat :
          a = Cardinality(A) /\ x = Cardinality(B) /\ n = Cardinality(N) /\ s = Cardinality(S)
    BY <1>3, <1>6, <1>9, <1>11
  <2>2. x <= a + n /\ n <= s /\ y + z + s = b + c
    BY <1>6, <1>11, <1>15, <2>1
  <2>3. x + y + z <= a + b + c
    BY <1>14, <1>15, <2>1, <2>2
  <2>4. QED
    BY <2>1, <2>3
<1>17. fired' = fired
  BY DEF EndsDispatch
<1>18. PICK a \in Nat, x \in Nat : a = Cardinality(A) /\ x = Cardinality(B) /\ x + y + z <= a + b + c
  BY <1>9, <1>11, <1>16
<1>19. fired # <<>> => /\ Cardinality(Send!Ready') <= Cardinality(Send!Ready) \/ Cardinality(Send!Ready') <= Send!MostDeferred
                       /\ Cardinality(Send!Ready') \in Nat /\ Cardinality(Send!Ready) \in Nat
                       /\ Send!MostDeferred \in Nat
  <2>1. ASSUME NEW p \in Nat, NEW q \in Nat, NEW n \in Nat, NEW M \in Nat, q <= p \/ q <= n, n <= M
        PROVE  q <= p \/ q <= M
    BY <2>1
  <2>2. QED
    BY <1>6, <1>8, <1>9, <1>12, <1>13, <2>1
<1>20. QED
  BY <1>1, <1>7, <1>8, <1>14, <1>15, <1>17, <1>18, <1>19, CountsStay

\* The end of a dispatch keeps the whole.
LEMMA EndsDispatchKeeps ==
    ASSUME Send!DeliveryInv, NEW l \in Send!DeliveryLoops, Send!Recorded(l) \/ Send!RecordFails(l)
    PROVE  Send!DeliveryInv'
<1>1. Send!FiringKnown(l) /\ EndsDispatch(l)
  BY EndsDispatchIs
<1>2. Send!DeliveryTypes' /\ Send!DispatchKnown'
  BY <1>1, EndsDispatchKnown
<1>3. Send!AllSingle'
  BY <1>1, EndsDispatchSingle
<1>4. Send!TasksCounted' /\ Send!PermitsKept'
  BY <1>1, EndsDispatchCounts DEF Send!Recorded, Send!RecordFails
<1>5. Send!GivenUpIsTold'
  <2>1. /\ Onward /\ \A r \in DOMAIN results : results'[r] = results[r]
        /\ \A r \in DOMAIN results' \ DOMAIN results : ~results'[r].byTask
        /\ tasks \subseteq tasks'
    BY <1>1, EndsDispatchLeaves
  <2>2. told' = told /\ cut \subseteq cut'
    BY <1>1 DEF EndsDispatch
  <2>3. Send!GivenUpIsTold
    BY DEF Send!DeliveryInv
  <2>4. ASSUME NEW r \in DOMAIN results', results'[r].status = "failed", results'[r].byTask
        PROVE  r \in told' \/ results'[r].of \in cut' \/ \E t \in tasks' : t.row = r
    <3>1. r \in DOMAIN results /\ results'[r] = results[r]
      BY <2>1, <2>4
    <3>2. r \in told \/ results[r].of \in cut \/ \E t \in tasks : t.row = r
      BY <2>3, <2>4, <3>1 DEF Send!GivenUpIsTold
    <3>3. QED
      BY <2>1, <2>2, <3>1, <3>2
  <2>5. QED
    BY <2>4 DEF Send!GivenUpIsTold
<1>6. Send!RetriedOnce'
  BY <1>1 DEF EndsDispatch, Send!DeliveryInv, Send!RetriedOnce
<1>7. QED
  BY <1>2, <1>3, <1>4, <1>5, <1>6 DEF Send!DeliveryInv

-----------------------------------------------------------------------------
(* A firing. *)

\* What a list owes: finitely many deliveries of the firing, none of them a relay's.
LEMMA DeferredIs ==
    ASSUME NEW n \in Nat, NEW acts \in Seq(Send!ActionKinds)
    PROVE  /\ Send!DeferredOf(n, acts) \subseteq Send!Deliveries /\ IsFiniteSet(Send!DeferredOf(n, acts))
           /\ \A d \in Send!DeferredOf(n, acts) : d.firing = n /\ d.by = 0 /\ d.kind # "relay"
<1> DEFINE J == {j \in DOMAIN acts : \/ acts[j] \in {"webhook", "email"}
                                     \/ acts[j] = "notify" /\ \A k \in 1..(j - 1) : acts[k] # "notify"}
           D(i) == Send!DeliveryOf(n, Send!DeferredKind(acts[i]), i, 0)
<1>1. Send!DeferredOf(n, acts) = {D(i) : i \in J}
  BY DEF Send!DeferredOf
<1>2. J \subseteq 1..Len(acts) /\ Len(acts) \in Nat
  OBVIOUS
<1>3. IsFiniteSet(J)
  BY <1>2, FS_Interval, Fewer
<1>4. \A i \in Nat : D(i) \in Send!Deliveries /\ D(i).firing = n /\ D(i).by = 0 /\ D(i).kind # "relay"
  BY DEF Send!DeliveryOf, Send!DeferredKind, Send!Deliveries
<1>5. \A d \in {D(i) : i \in J} : d \in Send!Deliveries /\ d.firing = n /\ d.by = 0 /\ d.kind # "relay"
  <2> HIDE DEF J, D
  <2>1. QED
    BY <1>2, <1>4
<1>6. IsFiniteSet({D(i) : i \in J})
  <2> HIDE DEF J, D
  <2>1. PICK f, Q : f = [i \in J |-> D(i)] /\ Q = {D(i) : i \in J}
    OBVIOUS
  <2>2. f \in Surjection(J, Q)
    BY <2>1 DEF Surjection
  <2>3. QED
    BY <1>3, <2>1, <2>2, FS_Surjection
<1>7. QED
  BY <1>1, <1>5, <1>6

\* The rows written for it at once, of a finite set of deliveries.
LEMMA InlineRows ==
    ASSUME NEW S, S \subseteq Send!Deliveries, IsFiniteSet(S), NEW status \in Send!Statuses
    PROVE  LET T == {Send!RowOf(d, status, FALSE) : d \in S}
           IN  /\ T \subseteq Send!RowSet /\ IsFiniteSet(T)
               /\ \A x \in T : x.of \in S /\ x = Send!RowOf(x.of, status, FALSE) /\ ~x.byTask /\ ~x.retried
               /\ \A d \in S : Send!RowOf(d, status, FALSE) \in T /\ Send!RowOf(d, status, FALSE).of = d
<1> DEFINE D(d) == Send!RowOf(d, status, FALSE)
<1>1. \A d \in S : D(d) \in Send!RowSet /\ D(d).of = d /\ ~D(d).byTask /\ ~D(d).retried
  BY RowOfIs
<1>2. PICK f, Q : f = [d \in S |-> D(d)] /\ Q = {D(d) : d \in S}
  OBVIOUS
<1>3. f \in Surjection(S, Q)
  <2> HIDE DEF D
  <2>1. QED
    BY <1>2 DEF Surjection
<1>4. IsFiniteSet(Q)
  BY <1>3, FS_Surjection
<1>5. /\ Q \subseteq Send!RowSet
      /\ \A x \in Q : x.of \in S /\ x = D(x.of) /\ ~x.byTask /\ ~x.retried
      /\ \A d \in S : D(d) \in Q /\ D(d).of = d
  <2> HIDE DEF D
  <2>1. QED
    BY <1>1, <1>2
<1>6. QED
  BY <1>2, <1>4, <1>5

\* A firing is dispatched: its deliveries are spawned later, or recorded now.
Fires(l, n, all) ==
  /\ UNCHANGED <<actions, tasks, results, told, retries, resent, raced, cut>>
  /\ firing[l] = Send!NoFiring
  /\ n = Len(fired) + 1 /\ all \subseteq Send!Deliveries /\ IsFiniteSet(all)
  /\ \A d \in all : d.firing = n /\ d.by = 0 /\ d.kind # "relay"
  /\ \E edge \in DOMAIN actions : fired' = Append(fired, [edge |-> edge, owes |-> all])
  /\ \E spawn \in SUBSET Send!Deliveries, inline \in SUBSET Send!RowSet :
       /\ firing' = [firing EXCEPT ![l] = [n |-> n, spawn |-> spawn, inline |-> inline]]
       /\ IsFiniteSet(inline) /\ \A x \in inline : x.of.firing = n /\ x.of.by = 0 /\ ~x.byTask /\ ~x.retried
       /\ \/ ~Send!Saturated /\ spawn = all /\ \A x \in inline : x.of \notin all
          \/ spawn = {} /\ \A d \in all : \E x \in inline : \A y \in inline : y.of = d <=> y = x

\* A firing is the next, and owes what its actions defer.
LEMMA FireIs ==
    ASSUME Send!DeliveryTypes, NEW l \in Send!DeliveryLoops, NEW edge \in DOMAIN actions, Send!Fire(l, edge)
    PROVE  \E n, all : Fires(l, n, all)
<1>1. PICK n \in Nat : n = Len(fired) + 1
  BY DEF Send!DeliveryTypes
<1>2. PICK acts \in Seq(Send!ActionKinds) : acts = actions[edge]
  BY DEF Send!DeliveryTypes
<1>3. PICK all : all = Send!DeferredOf(n, acts)
  OBVIOUS
<1>4. /\ all \subseteq Send!Deliveries /\ IsFiniteSet(all)
      /\ \A d \in all : d.firing = n /\ d.by = 0 /\ d.kind # "relay"
  BY <1>3, DeferredIs
<1>5. PICK R : R = {Send!DeliveryOf(n, "relay", i, 0) : i \in {j \in DOMAIN acts : acts[j] = "relay"}}
  OBVIOUS
<1>6. R \subseteq Send!Deliveries /\ IsFiniteSet(R) /\ \A d \in R : d.firing = n /\ d.by = 0 /\ d.kind = "relay"
  <2> DEFINE J == {j \in DOMAIN acts : acts[j] = "relay"}
             D(i) == Send!DeliveryOf(n, "relay", i, 0)
  <2>1. J \subseteq 1..Len(acts) /\ Len(acts) \in Nat
    OBVIOUS
  <2>2. IsFiniteSet(J)
    BY <2>1, FS_Interval, Fewer
  <2>3. \A i \in Nat : D(i) \in Send!Deliveries /\ D(i).firing = n /\ D(i).by = 0 /\ D(i).kind = "relay"
    BY DEF Send!DeliveryOf, Send!Deliveries
  <2>4. R = {D(i) : i \in J}
    BY <1>5
  <2> HIDE DEF J, D
  <2>5. PICK f : f = [i \in J |-> D(i)]
    OBVIOUS
  <2>6. f \in Surjection(J, R)
    BY <2>4, <2>5 DEF Surjection
  <2>7. IsFiniteSet(R)
    BY <2>2, <2>6, FS_Surjection
  <2>8. QED
    BY <2>1, <2>3, <2>4, <2>7
<1>7. PICK outcome \in {"success", "failed"} :
        firing' = [firing EXCEPT ![l] =
          [n |-> Len(fired) + 1, spawn |-> IF Send!Saturated THEN {} ELSE Send!DeferredOf(Len(fired) + 1, actions[edge]),
           inline |-> {Send!RowOf(Send!DeliveryOf(Len(fired) + 1, "relay", i, 0), outcome, FALSE) :
                         i \in {j \in DOMAIN actions[edge] : actions[edge][j] = "relay"}}
                        \cup (IF Send!Saturated
                              THEN {Send!RowOf(d, "failed", FALSE) : d \in Send!DeferredOf(Len(fired) + 1, actions[edge])}
                              ELSE {})]]
  BY DEF Send!Fire
<1>8. PICK A, B : /\ A = {Send!RowOf(d, outcome, FALSE) : d \in R}
                  /\ B = {Send!RowOf(d, "failed", FALSE) : d \in all}
  OBVIOUS
<1>9. firing' = [firing EXCEPT ![l] = [n |-> n, spawn |-> IF Send!Saturated THEN {} ELSE all,
                                      inline |-> A \cup (IF Send!Saturated THEN B ELSE {})]]
  <2>1. PICK A0, B0 :
          /\ A0 = {Send!RowOf(Send!DeliveryOf(Len(fired) + 1, "relay", i, 0), outcome, FALSE) :
                     i \in {j \in DOMAIN actions[edge] : actions[edge][j] = "relay"}}
          /\ B0 = {Send!RowOf(d, "failed", FALSE) : d \in Send!DeferredOf(Len(fired) + 1, actions[edge])}
    OBVIOUS
  <2>2. firing' = [firing EXCEPT ![l] =
          [n |-> Len(fired) + 1, spawn |-> IF Send!Saturated THEN {} ELSE Send!DeferredOf(Len(fired) + 1, actions[edge]),
           inline |-> A0 \cup (IF Send!Saturated THEN B0 ELSE {})]]
    BY <1>7, <2>1
  <2>3. A0 = A
    BY <1>1, <1>2, <1>5, <1>8, <2>1
  <2>4. Send!DeferredOf(Len(fired) + 1, actions[edge]) = all
    BY <1>1, <1>2, <1>3
  <2>5. B0 = B
    BY <1>8, <2>1, <2>4
  <2>6. QED
    BY <1>1, <2>2, <2>3, <2>4, <2>5
<1>0. outcome \in Send!Statuses
  BY DEF Send!Statuses
<1>10. /\ A \subseteq Send!RowSet /\ IsFiniteSet(A)
       /\ \A x \in A : x.of \in R /\ ~x.byTask /\ ~x.retried
  BY <1>0, <1>6, <1>8, InlineRows
<1>11. /\ B \subseteq Send!RowSet /\ IsFiniteSet(B)
       /\ \A x \in B : x.of \in all /\ x = Send!RowOf(x.of, "failed", FALSE) /\ ~x.byTask /\ ~x.retried
       /\ \A d \in all : Send!RowOf(d, "failed", FALSE) \in B /\ Send!RowOf(d, "failed", FALSE).of = d
  <2>1. "failed" \in Send!Statuses
    BY DEF Send!Statuses
  <2>2. all \subseteq Send!Deliveries /\ IsFiniteSet(all)
    BY <1>4
  <2>3. B = {Send!RowOf(d, "failed", FALSE) : d \in all}
    BY <1>8
  <2>4. QED
    BY <2>1, <2>2, <2>3, InlineRows
<1>12. /\ UNCHANGED <<actions, tasks, results, told, retries, resent, raced, cut>>
       /\ firing[l] = Send!NoFiring
       /\ fired' = Append(fired, [edge |-> edge, owes |-> all])
  BY <1>1, <1>2, <1>3 DEF Send!Fire
<1>13. CASE Send!Saturated
  <2>1. PICK T : T = A \cup B
    OBVIOUS
  <2>2. T \subseteq Send!RowSet /\ IsFiniteSet(T) /\ \A x \in T : x.of.firing = n /\ x.of.by = 0 /\ ~x.byTask /\ ~x.retried
    BY <1>4, <1>6, <1>10, <1>11, <2>1, FS_Union
  <2>3. firing' = [firing EXCEPT ![l] = [n |-> n, spawn |-> {}, inline |-> T]]
    BY <1>9, <1>13, <2>1
  <2>4. ASSUME NEW d \in all
        PROVE  \E x \in T : \A y \in T : y.of = d <=> y = x
    <3>1. PICK x : x = Send!RowOf(d, "failed", FALSE)
      OBVIOUS
    <3>2. x \in T /\ x.of = d
      BY <1>11, <2>1, <3>1
    <3>3. \A y \in A : y.of # d
      BY <1>4, <1>6, <1>10
    <3>4. \A y \in T : y.of = d => y = x
      BY <1>11, <2>1, <3>1, <3>3
    <3>5. QED
      BY <3>2, <3>4
  <2>5. Fires(l, n, all)
    <3>1. {} \in SUBSET Send!Deliveries /\ T \in SUBSET Send!RowSet
      BY <2>2
    <3>2. QED
      BY <1>1, <1>4, <1>12, <2>2, <2>3, <2>4, <3>1 DEF Fires
  <2>6. QED
    BY <2>5
<1>14. CASE ~Send!Saturated
  <2>1. firing' = [firing EXCEPT ![l] = [n |-> n, spawn |-> all, inline |-> A]]
    BY <1>9, <1>14
  <2>2. \A x \in A : x.of.firing = n /\ x.of.by = 0 /\ ~x.byTask /\ ~x.retried /\ x.of \notin all
    BY <1>4, <1>6, <1>10
  <2>3. Fires(l, n, all)
    <3>1. all \in SUBSET Send!Deliveries /\ A \in SUBSET Send!RowSet
      BY <1>4, <1>10
    <3>2. QED
      BY <1>1, <1>4, <1>10, <1>12, <1>14, <2>1, <2>2, <3>1 DEF Fires
  <2>4. QED
    BY <2>3
<1>15. QED
  BY <1>13, <1>14

\* The firings after one more.
LEMMA FiresLeaves ==
    ASSUME Send!DeliveryInv, NEW l \in Send!DeliveryLoops, NEW n, NEW all, Fires(l, n, all)
    PROVE  /\ Onward /\ n \in Nat \ {0} /\ n \notin DOMAIN fired
           /\ DOMAIN fired' = DOMAIN fired \cup {n} /\ \A k \in DOMAIN fired : fired'[k] = fired[k] /\ k # n
           /\ fired'[n].owes = all
           /\ fired' \in Seq([edge : DOMAIN actions, owes : SUBSET Send!Deliveries])
           /\ firing' \in [Send!DeliveryLoops -> Send!FiringSet] /\ firing'[l].n = n /\ firing'[l] # Send!NoFiring
           /\ \A k \in Send!DeliveryLoops : k # l => firing'[k] = firing[k]
           /\ \A k \in Send!DeliveryLoops : firing[k] = Send!NoFiring \/ firing[k].n \in DOMAIN fired
           /\ \A r \in DOMAIN results : results[r].of.firing # n
           /\ \A t \in tasks : t.of.firing # n
<1>1. Send!DeliveryTypes /\ Send!DispatchKnown
  BY DEF Send!DeliveryInv
<1>2. PICK edge \in DOMAIN actions : fired' = Append(fired, [edge |-> edge, owes |-> all])
  BY DEF Fires
<1>3. fired \in Seq([edge : DOMAIN actions, owes : SUBSET Send!Deliveries])
      /\ [edge |-> edge, owes |-> all] \in [edge : DOMAIN actions, owes : SUBSET Send!Deliveries]
  BY <1>1 DEF Send!DeliveryTypes, Fires
<1>4. /\ fired' \in Seq([edge : DOMAIN actions, owes : SUBSET Send!Deliveries])
      /\ DOMAIN fired' = 1..(Len(fired) + 1) /\ DOMAIN fired = 1..Len(fired) /\ Len(fired) \in Nat
      /\ \A i \in 1..Len(fired) : fired'[i] = fired[i]
      /\ fired'[Len(fired) + 1] = [edge |-> edge, owes |-> all]
  BY <1>2, <1>3, AppendElements
<1>5. n = Len(fired) + 1
  BY DEF Fires
<1>6. /\ n \in Nat \ {0} /\ n \notin DOMAIN fired
      /\ DOMAIN fired' = DOMAIN fired \cup {n} /\ \A k \in DOMAIN fired : fired'[k] = fired[k] /\ k # n
      /\ fired'[n].owes = all
  BY <1>4, <1>5
<1>7. Onward
  BY <1>1, <1>6 DEF Fires, Onward, Send!DeliveryTypes
<1>8. PICK f : f \in Send!FiringSet /\ f.n = n /\ firing' = [firing EXCEPT ![l] = f]
  BY <1>6 DEF Fires, Send!FiringSet
<1>9. /\ firing' \in [Send!DeliveryLoops -> Send!FiringSet] /\ firing'[l] = f
      /\ \A k \in Send!DeliveryLoops : k # l => firing'[k] = firing[k]
  BY <1>1, <1>8 DEF Send!DeliveryTypes
<1>10. f # Send!NoFiring
  BY <1>6, <1>8 DEF Send!NoFiring
<1>11. \A k \in Send!DeliveryLoops : firing[k] = Send!NoFiring \/ firing[k].n \in DOMAIN fired
  BY <1>1 DEF Send!DispatchKnown, Send!FiringKnown
<1>12. /\ \A r \in DOMAIN results : results[r].of.firing # n
       /\ \A t \in tasks : t.of.firing # n
  BY <1>1, <1>6 DEF Send!DispatchKnown, Send!RowKnown, Send!TaskKnown
<1>13. QED
  BY <1>4, <1>6, <1>7, <1>8, <1>9, <1>10, <1>11, <1>12

\* What is known of deliveries, tasks and rows when a dispatch begins.
LEMMA FireKnown ==
    ASSUME Send!DeliveryInv, NEW l \in Send!DeliveryLoops, NEW n, NEW all, Fires(l, n, all)
    PROVE  Send!DeliveryTypes' /\ Send!DispatchKnown'
<1>1. Send!DeliveryTypes /\ Send!DispatchKnown
  BY DEF Send!DeliveryInv
<1>2. UNCHANGED <<actions, tasks, results, told, retries, resent, raced, cut>>
  BY DEF Fires
<1>3. /\ Onward /\ n \in Nat \ {0} /\ n \notin DOMAIN fired
      /\ DOMAIN fired' = DOMAIN fired \cup {n} /\ fired'[n].owes = all
      /\ fired' \in Seq([edge : DOMAIN actions, owes : SUBSET Send!Deliveries])
      /\ firing' \in [Send!DeliveryLoops -> Send!FiringSet] /\ firing'[l].n = n
      /\ \A k \in Send!DeliveryLoops : k # l => firing'[k] = firing[k]
      /\ \A k \in Send!DeliveryLoops : firing[k] = Send!NoFiring \/ firing[k].n \in DOMAIN fired
      /\ \A r \in DOMAIN results : results[r].of.firing # n
      /\ \A t \in tasks : t.of.firing # n
  BY FiresLeaves
<1>4. Send!DeliveryTypes'
  BY <1>1, <1>2, <1>3, SendCount DEF Send!DeliveryTypes, Send!Deliveries, Send!RowSet, Send!TaskSet, Send!FiringSet, Send!Statuses,
      Send!DeliveryLoops, Send!RetrySlots
<1>5. \A k \in Send!DeliveryLoops : firing'[k].n = n => k = l
  BY <1>3 DEF Send!NoFiring
<1>6. Send!FiringKnown(l)'
  <2>1. PICK spawn \in SUBSET Send!Deliveries, inline \in SUBSET Send!RowSet :
          /\ firing' = [firing EXCEPT ![l] = [n |-> n, spawn |-> spawn, inline |-> inline]]
          /\ IsFiniteSet(inline) /\ \A x \in inline : x.of.firing = n /\ x.of.by = 0 /\ ~x.byTask /\ ~x.retried
          /\ \/ ~Send!Saturated /\ spawn = all /\ \A x \in inline : x.of \notin all
             \/ spawn = {} /\ \A d \in all : \E x \in inline : \A y \in inline : y.of = d <=> y = x
    BY DEF Fires
  <2>2. firing'[l].spawn = spawn /\ firing'[l].inline = inline
    BY <1>1, <2>1 DEF Send!DeliveryTypes
  <2>3. /\ n \in DOMAIN fired' /\ \A r \in DOMAIN results' : results'[r].of.firing # n
        /\ \A t \in tasks' : t.of.firing # n
    BY <1>2, <1>3
  <2>4. QED
    BY <1>3, <1>5, <2>1, <2>2, <2>3, SendCount DEF Send!FiringKnown, Send!DeliveryLoops
<1>7. ASSUME NEW k \in Send!DeliveryLoops
      PROVE  firing'[k] = Send!NoFiring \/ Send!FiringKnown(k)'
  <2>1. CASE k = l
    BY <1>6, <2>1
  <2>2. CASE k # l /\ firing[k] = Send!NoFiring
    BY <1>3, <2>2
  <2>3. CASE k # l /\ Send!FiringKnown(k)
    <3>1. firing[k].n \in DOMAIN fired /\ \A j \in Send!DeliveryLoops : firing[j].n = firing[k].n => j = k
      BY <2>3 DEF Send!FiringKnown
    <3>2. firing'[k] = firing[k] /\ firing[k].n # n
      BY <1>3, <2>3, <3>1
    <3>3. \A j \in Send!DeliveryLoops : firing'[j].n = firing[k].n => j = k
      BY <1>3, <3>1, <3>2
    <3>4. Send!FiringKnown(k)'
      BY <1>2, <1>3, <2>3, <3>2, <3>3, OldFiringKnown
    <3>5. QED
      BY <3>4
  <2>4. QED
    BY <1>1, <2>1, <2>2, <2>3 DEF Send!DispatchKnown
<1>8. ASSUME NEW q \in Send!RetrySlots
      PROVE  retries'[q] = Send!NoRetry \/ Send!RetryKnown(q)'
  <2>1. CASE retries[q] = Send!NoRetry
    BY <1>2, <2>1
  <2>2. CASE Send!RetryKnown(q)
    <3>1. Send!RetryKnown(q)'
      BY <1>2, <1>3, <2>2, OldRetryKnown
    <3>2. QED
      BY <3>1
  <2>3. QED
    BY <1>1, <2>1, <2>2 DEF Send!DispatchKnown
<1>9. \A k \in DOMAIN fired' \ DOMAIN fired :
        IsFiniteSet(fired'[k].owes) /\ \A d \in fired'[k].owes : d.firing = k /\ d.by = 0 /\ d.kind # "relay"
  BY <1>3 DEF Fires
<1>10. Send!DispatchKnown'
  BY <1>1, <1>2, <1>3, <1>7, <1>8, <1>9, DispatchKeeps
<1>11. QED
  BY <1>4, <1>10

\* What a firing owes is in its dispatch and nowhere else.
LEMMA FireSingle ==
    ASSUME Send!DeliveryInv, NEW l \in Send!DeliveryLoops, NEW n, NEW all, Fires(l, n, all)
    PROVE  Send!AllSingle'
<1>1. Send!DeliveryTypes /\ Send!DispatchKnown /\ Send!AllSingle
  BY DEF Send!DeliveryInv
<1>2. UNCHANGED <<tasks, results, raced, cut>> /\ firing[l] = Send!NoFiring
      /\ \A d \in all : d.firing = n /\ d.by = 0
  BY DEF Fires
<1>3. /\ Onward
      /\ DOMAIN fired' = DOMAIN fired \cup {n} /\ fired'[n].owes = all
      /\ \A k \in DOMAIN fired : fired'[k] = fired[k] /\ k # n
      /\ firing'[l].n = n /\ firing'[l] # Send!NoFiring
      /\ \A k \in Send!DeliveryLoops : k # l => firing'[k] = firing[k]
      /\ \A k \in Send!DeliveryLoops : firing[k] = Send!NoFiring \/ firing[k].n \in DOMAIN fired
      /\ \A r \in DOMAIN results : results[r].of.firing # n
      /\ \A t \in tasks : t.of.firing # n
  BY FiresLeaves
<1>4. ASSUME NEW d \in all
      PROVE  Send!Single(d)'
  <2>1. Send!RowsOf(d)' = {} /\ Send!PendingOf(d)' = {}
    BY <1>2, <1>3 DEF Send!RowsOf, Send!PendingOf
  <2>2. Send!InDispatch(d)'
    BY <1>3 DEF Send!InDispatch, Send!Dispatched, Send!NoFiring, Send!DeliveryLoops
  <2>3. QED
    BY <2>1, <2>2 DEF Send!Single
<1>5. ASSUME NEW d, Send!Single(d), d \notin all
      PROVE  Send!Single(d)'
  <2>1. Send!RowsOf(d)' = Send!RowsOf(d) /\ Send!PendingOf(d)' = Send!PendingOf(d)
    BY <1>2 DEF Send!RowsOf, Send!PendingOf
  <2>2. Send!InDispatch(d)' <=> Send!InDispatch(d)
    <3>1. \A k \in Send!DeliveryLoops :
            (firing'[k] # Send!NoFiring /\ d \in fired'[firing'[k].n].owes)
              <=> (firing[k] # Send!NoFiring /\ d \in fired[firing[k].n].owes)
      BY <1>2, <1>3, <1>5
    <3>2. QED
      BY <3>1 DEF Send!InDispatch, Send!Dispatched, Send!NoFiring, Send!DeliveryLoops
  <2>3. QED
    BY <1>2, <1>5, <2>1, <2>2, SameSingle
<1>6. \A k \in DOMAIN fired' : \A d \in fired'[k].owes : Send!Single(d)'
  <2>1. ASSUME NEW k \in DOMAIN fired, NEW d \in fired[k].owes
        PROVE  Send!Single(d)'
    <3>1. Send!Single(d) /\ d.firing = k
      BY <1>1 DEF Send!AllSingle, Send!DispatchKnown, Send!OwesKnown
    <3>2. d \notin all
      BY <1>2, <1>3, <3>1
    <3>3. QED
      BY <1>5, <3>1, <3>2
  <2>2. QED
    BY <1>3, <1>4, <2>1
<1>7. ASSUME NEW r \in DOMAIN results', results'[r].retried, r \notin raced'
      PROVE  Send!Single(Send!RetryOf(r))'
  <2>1. PICK d : d = Send!RetryOf(r)
    OBVIOUS
  <2>2. Send!RetryOf(r)' = d /\ d.by = r /\ r # 0 /\ Send!Single(d)
    BY <1>1, <1>2, <1>3, <1>7, <2>1, RetryOfStays, RetryOfIs DEF Send!AllSingle
  <2>3. Send!Single(d)'
    BY <1>2, <1>5, <2>2
  <2>4. QED
    BY <2>2, <2>3 DEF Send!Single, Send!RowsOf, Send!PendingOf, Send!InDispatch
<1>8. QED
  BY <1>6, <1>7 DEF Send!AllSingle

\* The largest of numbers.
LEMMA SendMaxIs ==
    ASSUME NEW S, S \subseteq Nat, NEW x \in S, \A y \in S : y <= x
    PROVE  Send!Max(S) = x
<1>1. \A y \in S : x >= y
  OBVIOUS
<1>2. Send!Max(S) \in S /\ \A y \in S : Send!Max(S) >= y
  <2>1. Send!Max(S) = CHOOSE z \in S : \A y \in S : z >= y
    BY DEF Send!Max
  <2>2. QED
    BY <1>1, <2>1
<1>3. PICK mn \in Nat : mn = Send!Max(S)
  BY <1>2
<1>4. mn >= x /\ mn <= x /\ x \in Nat
  BY <1>2, <1>3
<1>5. QED
  BY <1>3, <1>4

\* What is owed at most after one more firing.
LEMMA MostGrows ==
    ASSUME Send!DeliveryInv, NEW l \in Send!DeliveryLoops, NEW n, NEW all, Fires(l, n, all)
    PROVE  \E M \in Nat :
             /\ M = Send!MostDeferred' /\ Cardinality(all) \in Nat /\ Cardinality(all) <= M
             /\ \E j \in DOMAIN fired' : \A k \in DOMAIN fired' : Cardinality(fired'[k].owes) <= Cardinality(fired'[j].owes)
             /\ fired # <<>> => Send!MostDeferred \in Nat /\ Send!MostDeferred <= M
<1>1. Send!DeliveryTypes /\ Send!DispatchKnown /\ Send!TasksCounted /\ Send!OwesKnown
  BY DEF Send!DeliveryInv, Send!DispatchKnown
<1>2. PICK c \in Nat : c = Cardinality(all)
  BY FS_CardinalityType DEF Fires
<1>3. /\ DOMAIN fired' = DOMAIN fired \cup {n} /\ fired'[n].owes = all
      /\ \A k \in DOMAIN fired : fired'[k] = fired[k] /\ k # n
  BY FiresLeaves
<1>4. \A k \in DOMAIN fired : Cardinality(fired[k].owes) \in Nat
  BY <1>1, SendCount, FS_CardinalityType DEF Send!OwesKnown
<1>5. \A k \in DOMAIN fired' : Cardinality(fired'[k].owes) \in Nat
  BY <1>2, <1>3, <1>4
<1>6. ASSUME NEW j \in DOMAIN fired', \A k \in DOMAIN fired' : Cardinality(fired'[k].owes) <= Cardinality(fired'[j].owes)
      PROVE  Send!MostDeferred' = Cardinality(fired'[j].owes)
  <2>1. PICK S, x : S = {Cardinality(fired'[k].owes) : k \in DOMAIN fired'} /\ x = Cardinality(fired'[j].owes)
    OBVIOUS
  <2>2. S \subseteq Nat /\ x \in S /\ \A y \in S : y <= x
    BY <1>5, <1>6, <2>1
  <2>3. Send!Max(S) = x
    BY <2>2, SendMaxIs
  <2>4. S = {Send!Cardinality(fired'[k].owes) : k \in DOMAIN fired'}
    BY <2>1, SendCount
  <2>5. Send!MostDeferred' = Send!Max({Send!Cardinality(fired'[k].owes) : k \in DOMAIN fired'})
    BY DEF Send!MostDeferred, Send!Max
  <2>6. QED
    BY <2>1, <2>3, <2>4, <2>5
<1>7. CASE fired = <<>>
  <2>1. DOMAIN fired' = {n}
    BY <1>3, <1>7
  <2>2. \A k \in DOMAIN fired' : Cardinality(fired'[k].owes) <= Cardinality(fired'[n].owes)
    BY <1>5, <2>1
  <2>3. Send!MostDeferred' = c
    <3>1. Send!MostDeferred' = Cardinality(fired'[n].owes)
      BY <1>6, <2>1, <2>2
    <3>2. QED
      BY <1>2, <1>3, <3>1
  <2>4. QED
    BY <1>2, <1>7, <2>1, <2>2, <2>3
<1>8. CASE fired # <<>>
  <2>1. PICK i \in DOMAIN fired : \A k \in DOMAIN fired : Send!Cardinality(fired[k].owes) <= Send!Cardinality(fired[i].owes)
    BY <1>1, <1>8 DEF Send!TasksCounted
  <2>2. Send!MostDeferred = Cardinality(fired[i].owes)
    BY <1>1, <2>1, MostIs
  <2>3. PICK a \in Nat : a = Cardinality(fired[i].owes) /\ a = Send!MostDeferred
    BY <1>4, <2>2
  <2>4. \A k \in DOMAIN fired : Cardinality(fired[k].owes) <= a
    BY <2>1, <2>3, SendCount
  <2>5. Cardinality(fired'[n].owes) = c /\ Cardinality(fired'[i].owes) = a
    BY <1>2, <1>3, <2>3
  <2>6. CASE c <= a
    <3>1. \A k \in DOMAIN fired' : Cardinality(fired'[k].owes) <= Cardinality(fired'[i].owes)
      BY <1>3, <2>4, <2>5, <2>6
    <3>2. i \in DOMAIN fired'
      BY <1>3
    <3>3. Send!MostDeferred' = a
      <4>1. Send!MostDeferred' = Cardinality(fired'[i].owes)
        BY <1>6, <3>1, <3>2
      <4>2. QED
        BY <2>5, <4>1
    <3>4. QED
      BY <1>2, <2>3, <2>6, <3>1, <3>2, <3>3
  <2>7. CASE a <= c
    <3>1. \A k \in DOMAIN fired' : Cardinality(fired'[k].owes) <= Cardinality(fired'[n].owes)
      BY <1>3, <1>4, <2>4, <2>5, <2>7
    <3>2. n \in DOMAIN fired'
      BY <1>3
    <3>3. Send!MostDeferred' = c
      <4>1. Send!MostDeferred' = Cardinality(fired'[n].owes)
        BY <1>6, <3>1, <3>2
      <4>2. QED
        BY <2>5, <4>1
    <3>4. QED
      BY <1>2, <2>3, <2>7, <3>1, <3>2, <3>3
  <2>8. c <= a \/ a <= c
    BY <1>2, <2>3
  <2>9. QED
    BY <2>6, <2>7, <2>8
<1>9. QED
  BY <1>7, <1>8

\* An executor with room has few tasks.
LEMMA RoomFor ==
    ASSUME Send!DeliveryTypes, Send!PermitsKept, ~Send!Saturated
    PROVE  \E a, p \in Nat : /\ a = Cardinality(Send!TasksOf("worker")) /\ p = Cardinality(Send!Ready)
                             /\ a < Permits + p
<1>1. PICK A, H, P : A = Send!TasksOf("worker") /\ H = Send!Holders("worker") /\ P = Send!Ready
  OBVIOUS
<1>2. IsFiniteSet(A) /\ IsFiniteSet(H) /\ IsFiniteSet(P) /\ Permits \in Nat
  BY <1>1, TasksAre, DeliveryAssumption
<1>3. PICK a \in Nat, h \in Nat, p \in Nat : a = Cardinality(A) /\ h = Cardinality(H) /\ p = Cardinality(P)
  BY <1>2, FS_CardinalityType
<1>4. h <= Permits /\ h # Permits /\ Send!Waiting("worker") = {}
  BY <1>1, <1>3, SendCount DEF Send!PermitsKept, Send!Saturated, Send!Locked
<1>5. A \subseteq H \cup P
  <2>1. \A t \in tasks : t.phase \in {"ready", "waiting", "trying", "writing", "telling"}
    BY DEF Send!DeliveryTypes, Send!TaskSet
  <2>2. QED
    BY <1>1, <1>4, <2>1 DEF Send!TasksOf, Send!Holders, Send!Waiting, Send!Ready
<1>6. a <= h + p
  <2>1. PICK i \in Nat, u \in Nat : i = Cardinality(H \cap P) /\ u = Cardinality(H \cup P)
    BY <1>2, FS_Union, FS_Intersection, FS_CardinalityType
  <2>2. u = h + p - i
    BY <1>2, <1>3, <2>1, FS_Union
  <2>3. a <= u
    BY <1>2, <1>3, <1>5, <2>1, FS_Union, Fewer
  <2>4. QED
    BY <2>1, <2>2, <2>3
<1>7. a < Permits + p
  BY <1>2, <1>3, <1>4, <1>6
<1>8. QED
  BY <1>1, <1>3, <1>7

\* What a loop takes in hand is no more than the executor had room for.
LEMMA FireCounts ==
    ASSUME Send!DeliveryInv, NEW l \in Send!DeliveryLoops, NEW n, NEW all, Fires(l, n, all)
    PROVE  Send!TasksCounted'
<1>1. Send!DeliveryTypes /\ Send!DispatchKnown /\ Send!TasksCounted /\ Send!PermitsKept
  BY DEF Send!DeliveryInv
<1>2. tasks' = tasks /\ firing[l] = Send!NoFiring
  BY DEF Fires
<1>3. PICK M \in Nat :
        /\ M = Send!MostDeferred' /\ Cardinality(all) \in Nat /\ Cardinality(all) <= M
        /\ \E j \in DOMAIN fired' : \A k \in DOMAIN fired' : Cardinality(fired'[k].owes) <= Cardinality(fired'[j].owes)
        /\ fired # <<>> => Send!MostDeferred \in Nat /\ Send!MostDeferred <= M
  BY MostGrows
<1>4. PICK c \in Nat, p \in Nat, P \in Nat \ {0} : c = Cardinality(all) /\ p = Cardinality(Send!Ready) /\ P = Permits
  BY <1>1, <1>3, TasksAre, FS_CardinalityType, DeliveryAssumption
<1>5. PICK a \in Nat : a = Cardinality(Send!TasksOf("worker"))
  BY <1>1, TasksAre, FS_CardinalityType
<1>6. PICK k \in Send!DeliveryLoops : {k, l} = {"Ingest", "Manual"} /\ k # l
  <2>1. "Ingest" # "Manual"
    OBVIOUS
  <2>2. CASE l = "Ingest"
    BY <2>1, <2>2 DEF Send!DeliveryLoops
  <2>3. CASE l = "Manual"
    BY <2>1, <2>3 DEF Send!DeliveryLoops
  <2>4. QED
    BY <2>2, <2>3 DEF Send!DeliveryLoops
<1>7. PICK x \in Nat : x = Cardinality(firing[k].spawn)
  BY <1>1, SpawnsAre
<1>8. firing'[k] = firing[k]
  <2>1. \A loop \in Send!DeliveryLoops : loop # l => firing'[loop] = firing[loop]
    BY FiresLeaves
  <2>2. QED
    BY <1>6, <2>1
<1>9. PICK s \in Nat : s = Cardinality(firing'[l].spawn) /\ (s = 0 \/ (s = c /\ ~Send!Saturated))
  <2>1. firing'[l].spawn = {} \/ (firing'[l].spawn = all /\ ~Send!Saturated)
    BY <1>1 DEF Fires, Send!DeliveryTypes
  <2>2. QED
    BY <1>4, <2>1, FS_EmptySet
<1>10. Cardinality(firing["Ingest"].spawn) + Cardinality(firing["Manual"].spawn) = x
  <2>1. Cardinality(firing[l].spawn) = 0
    BY <1>2, FS_EmptySet DEF Send!NoFiring
  <2>2. 0 + x = x /\ x + 0 = x
    BY <1>7
  <2>3. (k = "Ingest" /\ l = "Manual") \/ (k = "Manual" /\ l = "Ingest")
    BY <1>6
  <2>4. QED
    BY <1>7, <2>1, <2>2, <2>3
<1>11. Cardinality(firing'["Ingest"].spawn) + Cardinality(firing'["Manual"].spawn) = x + s
  <2>1. Cardinality(firing'[k].spawn) = x
    BY <1>7, <1>8
  <2>2. s + x = x + s
    BY <1>7, <1>9
  <2>3. (k = "Ingest" /\ l = "Manual") \/ (k = "Manual" /\ l = "Ingest")
    BY <1>6
  <2>4. QED
    BY <1>9, <2>1, <2>2, <2>3
<1>12. p <= M /\ a + x + s < P + 3 * M
  <2>1. CASE fired = <<>>
    <3>1. tasks = {}
      BY <1>1, <2>1 DEF Send!DispatchKnown, Send!TaskKnown
    <3>2. Send!TasksOf("worker") = {} /\ Send!Ready = {}
      BY <3>1 DEF Send!TasksOf, Send!Ready
    <3>3. a = 0 /\ p = 0
      BY <1>4, <1>5, <3>2, FS_EmptySet
    <3>4. firing[k] = Send!NoFiring
      BY <1>1, <2>1 DEF Send!DispatchKnown, Send!FiringKnown
    <3>5. x = 0
      BY <1>7, <3>4, FS_EmptySet DEF Send!NoFiring
    <3>6. s <= M
      BY <1>3, <1>4, <1>9
    <3>7. QED
      BY <1>4, <1>9, <3>3, <3>5, <3>6
  <2>2. CASE fired # <<>>
    <3>1. PICK mn \in Nat : mn = Send!MostDeferred /\ mn <= M
      BY <1>3, <2>2
    <3>2. p <= mn
      BY <1>1, <1>4, <2>2, <3>1, SendCount DEF Send!TasksCounted
    <3>3. p <= M
      BY <1>4, <3>1, <3>2
    <3>4. CASE s = 0
      <4>1. Cardinality(Send!TasksOf("worker")) + Cardinality(firing["Ingest"].spawn) + Cardinality(firing["Manual"].spawn)
              < Permits + 3 * Send!MostDeferred
        BY <1>1, <2>2, SendCount DEF Send!TasksCounted
      <4>2. PICK b \in Nat, e \in Nat : b = Cardinality(firing["Ingest"].spawn) /\ e = Cardinality(firing["Manual"].spawn)
        BY <1>1, SpawnsAre DEF Send!DeliveryLoops
      <4>3. a + b + e < P + 3 * mn /\ b + e = x
        BY <1>4, <1>5, <1>10, <3>1, <4>1, <4>2
      <4>4. a + x < P + 3 * mn
        BY <1>4, <1>5, <1>7, <3>1, <4>2, <4>3
      <4>5. QED
        BY <1>4, <1>5, <1>7, <1>9, <3>1, <3>3, <3>4, <4>4
    <3>5. CASE s = c /\ ~Send!Saturated
      <4>1. a < P + p
        BY <1>1, <1>4, <1>5, <3>5, RoomFor
      <4>2. x <= mn
        <5>1. \A j \in DOMAIN fired : Cardinality(fired[j].owes) \in Nat /\ Cardinality(fired[j].owes) <= mn
          BY <1>1, <2>2, <3>1, MostThere
        <5>2. x = 0 \/ \E j \in DOMAIN fired : x = Cardinality(fired[j].owes)
          BY <1>1, <1>7, SpawnsAre
        <5>3. QED
          BY <1>7, <3>1, <5>1, <5>2
      <4>3. s <= M
        BY <1>3, <1>4, <3>5
      <4>4. QED
        BY <1>4, <1>5, <1>7, <1>9, <3>1, <3>3, <4>1, <4>2, <4>3
    <3>6. QED
      BY <1>9, <3>4, <3>5
  <2>3. QED
    BY <2>1, <2>2
<1>13. Send!TasksOf("worker")' = Send!TasksOf("worker") /\ Send!Ready' = Send!Ready
  BY <1>2 DEF Send!Ready, Send!TasksOf
<1>14. Cardinality(Send!TasksOf("worker")') + Cardinality(firing'["Ingest"].spawn) + Cardinality(firing'["Manual"].spawn)
         < Permits + 3 * Send!MostDeferred'
  <2>1. PICK b \in Nat, e \in Nat : b = Cardinality(firing'["Ingest"].spawn) /\ e = Cardinality(firing'["Manual"].spawn)
    <3>1. (k = "Ingest" /\ l = "Manual") \/ (k = "Manual" /\ l = "Ingest")
      BY <1>6
    <3>2. QED
      BY <1>7, <1>8, <1>9, <3>1
  <2>2. b + e = x + s
    BY <1>11, <2>1
  <2>3. a + b + e < P + 3 * M
    BY <1>4, <1>5, <1>7, <1>9, <1>12, <2>1, <2>2
  <2>4. Cardinality(Send!TasksOf("worker")') = a /\ Permits = P /\ Send!MostDeferred' = M
    BY <1>3, <1>4, <1>5, <1>13
  <2>5. QED
    BY <2>1, <2>3, <2>4
<1>15. Cardinality(Send!Ready') <= Send!MostDeferred'
  BY <1>3, <1>4, <1>12, <1>13
<1>16. QED
  BY <1>3, <1>14, <1>15, SendCount DEF Send!TasksCounted

\* A dispatch begins.
LEMMA FireKeeps ==
    ASSUME Send!DeliveryInv, NEW l \in Send!DeliveryLoops, NEW edge \in DOMAIN actions, Send!Fire(l, edge)
    PROVE  Send!DeliveryInv'
<1>1. PICK n, all : Fires(l, n, all)
  BY FireIs DEF Send!DeliveryInv
<1>2. Send!DeliveryTypes' /\ Send!DispatchKnown'
  BY <1>1, FireKnown
<1>3. Send!AllSingle'
  BY <1>1, FireSingle
<1>4. Send!TasksCounted'
  BY <1>1, FireCounts
<1>5. UNCHANGED <<tasks, results, told, resent, raced, cut>>
  BY <1>1 DEF Fires
<1>6. Send!GivenUpIsTold' /\ Send!RetriedOnce'
  BY <1>5 DEF Send!DeliveryInv, Send!GivenUpIsTold, Send!RetriedOnce
<1>7. Send!PermitsKept'
  BY <1>5, SendCount DEF Send!DeliveryInv, Send!PermitsKept, Send!Holders, Send!TasksOf
<1>8. QED
  BY <1>2, <1>3, <1>4, <1>6, <1>7 DEF Send!DeliveryInv

-----------------------------------------------------------------------------
(* All of it. *)

\* A step of the deliveries, or of anything else.
LEMMA DeliveryStepKeeps ==
    ASSUME Send!DeliveryInv, Send!DeliveryNext \/ UNCHANGED sendVars
    PROVE  Send!DeliveryInv'
<1>1. ASSUME NEW l \in Send!DeliveryLoops, Send!Recorded(l) \/ Send!RecordFails(l)
      PROVE  Send!DeliveryInv'
  BY <1>1, EndsDispatchKeeps
<1>2. ASSUME NEW l \in Send!DeliveryLoops, NEW edge \in DOMAIN actions, Send!Fire(l, edge)
      PROVE  Send!DeliveryInv'
  BY <1>2, FireKeeps
<1>3. CASE Send!TaskStep
  BY <1>3, TaskStepKeeps
<1>4. ASSUME NEW q \in Send!RetrySlots, Send!RetryCommits(q)
      PROVE  Send!DeliveryInv'
  BY <1>4, RetryCommitsKeeps
<1>5. ASSUME NEW q \in Send!RetrySlots, NEW r \in DOMAIN results, Send!RetryReads(q, r)
      PROVE  Send!DeliveryInv'
  BY <1>5, RetryReadsKeeps
<1>6. ASSUME \/ \E edge \in DOMAIN actions, acts \in {<<>>, <<"webhook">>, <<"email">>} : Send!EditActions(edge, acts)
             \/ Send!StopWorker \/ Send!Drained \/ Send!EndApi \/ UNCHANGED sendVars
      PROVE  Send!DeliveryInv'
  BY <1>6, QuietDeliveryKeeps
<1>7. QED
  BY <1>1, <1>2, <1>3, <1>4, <1>5, <1>6 DEF Send!DeliveryNext

\* An outbox and a pool that are empty.
LEMMA DeliveryStarts ==
    ASSUME Send!DeliveryInit
    PROVE  Send!DeliveryInv
<1>1. /\ \E q \in DeliveryQuestions : actions = q.actions
      /\ firing = [l \in Send!DeliveryLoops |-> Send!NoFiring]
      /\ fired = <<>> /\ tasks = {} /\ results = <<>> /\ told = {}
      /\ retries = [q \in Send!RetrySlots |-> Send!NoRetry] /\ resent = <<>>
  BY DEF Send!DeliveryInit
<1>2. \A edge \in DOMAIN actions : actions[edge] \in Seq(Send!ActionKinds)
  BY <1>1, DeliveryAssumption
<1>3. Send!NoFiring \in Send!FiringSet /\ Send!NoRetry \in [row : Nat, spawn : SUBSET Send!Deliveries]
  BY DEF Send!NoFiring, Send!FiringSet, Send!NoRetry
<1>4. DOMAIN fired = {} /\ DOMAIN results = {} /\ DOMAIN resent = {} /\ \A S : <<>> \in Seq(S)
  BY <1>1
<1>5. Send!DeliveryTypes
  BY <1>1, <1>2, <1>3, <1>4, SendCount, FS_EmptySet DEF Send!DeliveryTypes
<1>6. Send!DispatchKnown
  BY <1>1, <1>4 DEF Send!DispatchKnown, Send!OwesKnown
<1>7. Send!AllSingle /\ Send!GivenUpIsTold /\ Send!RetriedOnce /\ Send!TasksCounted
  BY <1>1, <1>4 DEF Send!AllSingle, Send!GivenUpIsTold, Send!RetriedOnce, Send!TasksCounted
<1>8. Send!PermitsKept
  <2>1. \A h : Send!Holders(h) = {}
    BY <1>1 DEF Send!Holders, Send!TasksOf
  <2>2. QED
    BY <2>1, SendCount, FS_EmptySet, DeliveryAssumption DEF Send!PermitsKept
<1>9. QED
  BY <1>5, <1>6, <1>7, <1>8 DEF Send!DeliveryInv

\* At most one of a kind counts for at most one.
LEMMA AtMostOne ==
    ASSUME NEW S, \A x, y \in S : x = y
    PROVE  Cardinality(S) = IF S = {} THEN 0 ELSE 1
<1>1. CASE S = {}
  BY <1>1, FS_EmptySet
<1>2. CASE S # {}
  <2>1. PICK x : S = {x}
    BY <1>2
  <2>2. QED
    BY <1>2, <2>1, FS_Singleton
<1>3. QED
  BY <1>1, <1>2

\* What the parts say of the deliveries and the tasks.
LEMMA DeliveryMeans ==
    ASSUME Send!DeliveryInv
    PROVE  /\ Send!DeliveryTypeOK /\ Send!EveryDeliveryAccounted /\ Send!GivenUpIsTold
           /\ Send!RetriedOnce /\ Send!TasksBounded
<1>1. /\ Send!DeliveryTypes /\ Send!DispatchKnown /\ Send!AllSingle /\ Send!GivenUpIsTold
      /\ Send!RetriedOnce /\ Send!PermitsKept /\ Send!TasksCounted
  BY DEF Send!DeliveryInv
<1>2. Send!DeliveryTypeOK
  <2>1. ASSUME NEW l \in Send!DeliveryLoops
        PROVE  firing[l].n \in 0..Len(fired)
    <3>1. Len(fired) \in Nat /\ DOMAIN fired = 1..Len(fired)
      BY <1>1 DEF Send!DeliveryTypes
    <3>2. firing[l].n = 0 \/ firing[l].n \in DOMAIN fired
      BY <1>1 DEF Send!DispatchKnown, Send!FiringKnown, Send!NoFiring
    <3>3. QED
      BY <3>1, <3>2
  <2>2. \A t \in tasks : t.phase \in {"ready", "waiting", "trying", "writing", "telling"}
    BY <1>1 DEF Send!DeliveryTypes, Send!TaskSet
  <2>3. told \subseteq DOMAIN results
    BY <1>1 DEF Send!DeliveryTypes
  <2>4. QED
    BY <1>1, <2>1, <2>2, <2>3 DEF Send!DeliveryTypeOK, Send!PermitsKept
<1>3. ASSUME NEW d, Send!Single(d)
      PROVE  Send!Accounted(d)
  <2>1. PICK R, P : R = Send!RowsOf(d) /\ P = Send!PendingOf(d)
    OBVIOUS
  <2>2. /\ \A r, s \in R : r = s
        /\ \A t, u \in P : t = u
        /\ R = {} \/ P = {}
        /\ Send!InDispatch(d) => R = {} /\ P = {}
        /\ Send!InDispatch(d) \/ R # {} \/ P # {} \/ d \in cut
    BY <1>3, <2>1 DEF Send!Single
  <2>3. Cardinality(R) = (IF R = {} THEN 0 ELSE 1) /\ Cardinality(P) = (IF P = {} THEN 0 ELSE 1)
    BY <2>2, AtMostOne
  <2>4. PICK i \in {0, 1} : i = IF Send!InDispatch(d) THEN 1 ELSE 0
    OBVIOUS
  <2>5. Cardinality(R) + Cardinality(P) + i <= 1 /\ (Cardinality(R) + Cardinality(P) + i = 0 => d \in cut)
    BY <2>2, <2>3, <2>4
  <2>6. QED
    BY <2>1, <2>4, <2>5, SendCount DEF Send!Accounted
<1>4. Send!EveryDeliveryAccounted
  BY <1>1, <1>3 DEF Send!EveryDeliveryAccounted, Send!AllSingle, Send!RetryOf
<1>5. Send!TasksBounded
  <2>1. ASSUME fired # <<>>
        PROVE  Cardinality(Send!TasksOf("worker")) < Permits + (Cardinality(Send!DeliveryLoops) + 1) * Send!MostDeferred
    <3>1. PICK M \in Nat, P \in Nat : M = Send!MostDeferred /\ P = Permits
      BY <1>1, <2>1, MostThere, DeliveryAssumption
    <3>2. PICK a \in Nat, b \in Nat, c \in Nat :
            a = Cardinality(Send!TasksOf("worker")) /\ b = Cardinality(firing["Ingest"].spawn)
            /\ c = Cardinality(firing["Manual"].spawn)
      BY <1>1, TasksAre, FS_CardinalityType, SpawnsAre DEF Send!DeliveryLoops
    <3>3. a + b + c < P + 3 * M
      BY <1>1, <2>1, <3>1, <3>2, SendCount DEF Send!TasksCounted
    <3>4. Cardinality(Send!DeliveryLoops) = 2
      <4>1. Send!DeliveryLoops = {"Ingest"} \cup {"Manual"} /\ "Manual" \notin {"Ingest"}
        BY DEF Send!DeliveryLoops
      <4>2. IsFiniteSet({"Ingest"}) /\ Cardinality({"Ingest"}) = 1
        BY FS_Singleton
      <4>3. QED
        BY <4>1, <4>2, FS_AddElement
    <3>5. a < P + 3 * M
      BY <3>1, <3>2, <3>3
    <3>6. QED
      BY <3>1, <3>2, <3>4, <3>5
  <2>2. QED
    BY <2>1, SendCount DEF Send!TasksBounded
<1>6. QED
  BY <1>1, <1>2, <1>4, <1>5

-----------------------------------------------------------------------------
(* The parts together (MCCommands). *)

\* What a step may never do, of the row and of the board: take an acknowledgement
\* back, or forget the Wi-Fi without the button.
THEOREM CommandStepsTheorem == MCSpec => CommandSteps
<1>1. MCInit => AcknowledgedInv /\ ForgetInv
  BY AcknowledgedStarts, ForgetStarts DEF MCInit
<1>2. [MCNext]_partVars => [RowNext]_rowVars /\ [SketchNext]_sketchVars
  BY DEF MCNext, partVars, OnRow, Sending, Watching, OnStatus
<1>3. AcknowledgedInv /\ ForgetInv /\ [MCNext]_partVars
        => AcknowledgedInv' /\ ForgetInv' /\ AcknowledgedStep /\ ForgetStep
  BY <1>2, AcknowledgedKeeps, ForgetKeeps
<1>4. QED
  BY <1>1, <1>3, PTL DEF MCSpec, CommandSteps

\* The webhooks, the watch over signals and the two tracks of events, on any row.
LEMMA PartsKnown ==
    MCSpec => [](Send!DeliveryInv /\ Watch!HealthInv /\ Events!StatusInv /\ Events!ScheduleInv)
<1> DEFINE PartsInv == Send!DeliveryInv /\ Watch!HealthInv /\ Events!StatusInv /\ Events!ScheduleInv
<1>1. MCInit => PartsInv
  BY DeliveryStarts, HealthStarts, StatusStarts, ScheduleStarts DEF MCInit
<1>2. PartsInv /\ [MCNext]_partVars => PartsInv'
  <2>1. [MCNext]_partVars => /\ Send!DeliveryNext \/ UNCHANGED sendVars
                             /\ Watch!HealthNext \/ UNCHANGED Watch!health
                             /\ Events!StatusNext \/ UNCHANGED deviceVars
                             /\ Events!ScheduleNext \/ UNCHANGED cronVars
    BY DEF MCNext, partVars, OnRow, Sending, Watching, OnStatus, watchVars, eventVars, Watch!health
  <2>2. QED
    BY <2>1, DeliveryStepKeeps, HealthStepKeeps, StatusStepKeeps, ScheduleStepKeeps
<1>3. QED
  BY <1>1, <1>2, PTL DEF MCSpec

\* Rule health: stale rules are told, at most once an hour, and the last event
\* sent is the verdict kept; for any rules, signals and failures.
THEOREM HealthTheorem ==
    MCSpec => [](Watch!HealthTypeOK /\ Watch!AlertsSpaced /\ Watch!StaleWasTold /\ Watch!HeardIsTracked)
<1>1. Watch!HealthInv => Watch!HealthTypeOK /\ Watch!AlertsSpaced /\ Watch!StaleWasTold /\ Watch!HeardIsTracked
  BY HealthMeans
<1>2. QED
  BY <1>1, PartsKnown, PTL

\* Device status: rows, pages and worker agree with the broker, no alarm and no
\* run without a drop, who was seen online is told of, and a rule runs on its
\* transition; for any rules, reports, outages and restarts.
THEOREM StatusTheorem ==
    MCSpec => [](/\ Events!StatusCatchesUp /\ Events!NoFalseAlarm /\ Events!OfflineIsTold
                 /\ Events!RunsOnItsTransition)
<1>1. Events!StatusInv => /\ Events!StatusCatchesUp /\ Events!NoFalseAlarm /\ Events!OfflineIsTold
                          /\ Events!RunsOnItsTransition
  BY StatusMeans
<1>2. QED
  BY <1>1, PartsKnown, PTL

\* The schedule: a rule is asked for in every minute its cron matches, and once,
\* but for the minutes a failure, a restart or a clock adjustment touched; for
\* any rules, any length of a minute and any disturbance.
THEOREM ScheduleTheorem ==
    MCSpec => [](Events!AskedOnce /\ Events!AskedEveryMinute)
<1>1. Events!ScheduleInv => Events!AskedOnce /\ Events!AskedEveryMinute
  BY DEF Events!ScheduleInv
<1>2. QED
  BY <1>1, PartsKnown, PTL

\* Deliveries: each is in its dispatch, in one task or in one row unless the end
\* of its process cut it off, a row that gave up is told of, a row is retried
\* once unless two retries raced, and the tasks of a worker are bounded; for any
\* actions, outages, number of permits, of firings and of retries.
THEOREM DeliveryTheorem ==
    MCSpec => [](/\ Send!DeliveryTypeOK /\ Send!EveryDeliveryAccounted /\ Send!GivenUpIsTold
                 /\ Send!RetriedOnce /\ Send!TasksBounded)
<1>1. Send!DeliveryInv => /\ Send!DeliveryTypeOK /\ Send!EveryDeliveryAccounted /\ Send!GivenUpIsTold
                         /\ Send!RetriedOnce /\ Send!TasksBounded
  BY DeliveryMeans
<1>2. QED
  BY <1>1, PartsKnown, PTL

\* Nothing goes untold: the board tells what it reads, a webhook or an e-mail
\* owed is under way or in the history, a rule that goes stale is told of, pages
\* and worker agree with the broker on who is connected, and a schedule's rule is
\* asked for in its minutes; for any rules, devices, bounds and failures.
THEOREM NothingGoesUntoldTheorem == MCSpec => []NothingGoesUntold
<1>1. MCSpec => []BoardTells
  <2>1. MCInit => SketchInit
    BY DEF MCInit
  <2>2. [MCNext]_partVars => [SketchNext]_sketchVars
    BY DEF MCNext, partVars, OnRow, Sending, Watching, OnStatus
  <2>3. QED
    BY <2>1, <2>2, BoardTellsTheorem, PTL DEF MCSpec, SketchSpec
<1>2. BoardTells /\ Send!DeliveryInv /\ Watch!HealthInv /\ Events!StatusInv /\ Events!ScheduleInv
        => NothingGoesUntold
  <2> SUFFICES ASSUME BoardTells, Send!DeliveryInv, Watch!HealthInv, Events!StatusInv, Events!ScheduleInv
               PROVE  NothingGoesUntold
    OBVIOUS
  <2>1. Events!ScheduleTypeOK /\ Events!AskedOnce /\ Events!AskedEveryMinute
    BY DEF Events!ScheduleInv
  <2>2. cronLoop.step \in {"sleep", "pass"} /\ loaded \subseteq Events!ScheduledSet
    BY <2>1 DEF Events!ScheduleTypeOK
  <2>3. Events!TriggersTypeOK
    BY <2>2, StatusMeans DEF Events!TriggersTypeOK
  <2>4. /\ Send!DeliveryTypeOK /\ Send!EveryDeliveryAccounted /\ Send!GivenUpIsTold
        /\ Send!RetriedOnce /\ Send!TasksBounded
    BY DeliveryMeans
  <2>5. Watch!HealthTypeOK /\ Watch!AlertsSpaced /\ Watch!StaleWasTold /\ Watch!HeardIsTracked
    BY HealthMeans
  <2>6. /\ Events!StatusCatchesUp /\ Events!NoFalseAlarm /\ Events!OfflineIsTold
        /\ Events!RunsOnItsTransition
    BY StatusMeans
  <2>7. QED
    BY <2>1, <2>3, <2>4, <2>5, <2>6 DEF NothingGoesUntold
<1>3. QED
  BY <1>1, <1>2, PartsKnown, PTL
=============================================================================
