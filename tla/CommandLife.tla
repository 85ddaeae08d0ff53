----------------------------- MODULE CommandLife -----------------------------
(***************************************************************************)
(* What the platform promises about the commands to an actuator, whatever  *)
(* is lost on the way: a command is issued once, acted on at most once,      *)
(* and confirmed only after the device acted on it; the output never takes   *)
(* a value that was not asked for.                                           *)
(***************************************************************************)
CONSTANTS Ids, Values, Unset

VARIABLES
    life,       \* "none", "issued", "acted" or "confirmed"
    value,      \* what each command asks for
    output      \* what the actuator does; Unset after a restart

lifeVars == <<life, value, output>>

AskedFor == {value[c] : c \in {d \in Ids : life[d] # "none"}}

LifeInit ==
    /\ life = [c \in Ids |-> "none"]
    /\ value = [c \in Ids |-> Unset]
    /\ output = Unset

Issue(c) ==
    /\ life[c] = "none"
    /\ life' = [life EXCEPT ![c] = "issued"]
    /\ \E v \in Values : value' = [value EXCEPT ![c] = v]
    /\ UNCHANGED output

Act(c) ==
    /\ life[c] = "issued"
    /\ life' = [life EXCEPT ![c] = "acted"]
    /\ output' = value[c]
    /\ UNCHANGED value

Confirm(c) ==
    /\ life[c] = "acted"
    /\ life' = [life EXCEPT ![c] = "confirmed"]
    /\ UNCHANGED <<value, output>>

(* The desired state, which may be an earlier one still on its way; or a   *)
(* restart of the device.                                                    *)
Follow ==
    /\ output' \in AskedFor \cup {Unset}
    /\ UNCHANGED <<life, value>>

LifeNext == (\E c \in Ids : Issue(c) \/ Act(c) \/ Confirm(c)) \/ Follow

LifeSpec == LifeInit /\ [][LifeNext]_lifeVars
=============================================================================
