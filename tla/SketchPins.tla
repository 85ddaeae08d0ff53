------------------------------ MODULE SketchPins ------------------------------
(***************************************************************************)
(* The pins of a generated sketch (OptionsStep.tsx, firmware-sketch.ts).     *)
(* Defaults are handed out in order from the board's two pools, a picked pin *)
(* overrides its row's default, and a clash holds the sketch back.  The       *)
(* template and its wiring are re-read under the open page, so rows come, go  *)
(* and move, and the page may turn from the sketch to Install and back.       *)
(***************************************************************************)
EXTENDS Integers, Sequences, SequencesExt, TLC

CONSTANTS
    Chips,          \* BOARDS: the input and the output pool of each chip
    FirstChip,      \* the board the page starts with
    Templates,      \* what a re-read may find: metrics, actuators, the wired chip
    PinSteps        \* bound: picks, board changes and re-reads

VARIABLES
    chip,           \* the board chosen for the sketch
    pinOverrides,
    template,
    step,           \* 2 Options, 3 Firmware
    sketch,         \* the sketch downloaded or copied last
    pinsLeft

pinVars == <<chip, pinOverrides, template, step, sketch, pinsLeft>>

NoChip == "none"
NoSketch == [chip |-> NoChip]
Spend == pinsLeft > 0 /\ pinsLeft' = pinsLeft - 1

-----------------------------------------------------------------------------
(* A row is <<"m", id>> or <<"a", id>>; only the rows that get a pin are kept. *)
RowsOf(kind, list, types) ==
    LET wired == SelectSeq(list, LAMBDA r : r.type \in types)
    IN [i \in DOMAIN wired |-> <<kind, wired[i].id>>]
Inputs(t)  == RowsOf("m", t.metrics, {"bool"})
Outputs(t) == RowsOf("a", t.actuators, {"bool", "float"})
PinRows(t) == ToSet(Inputs(t)) \cup ToSet(Outputs(t))

\* The rows with a picker: a float actuator has a pin and no picker.
Pickers(t) == ToSet(Inputs(t)) \cup ToSet(RowsOf("a", t.actuators, {"bool"}))

\* Past the end of its pool a row gets GPIO 0.
HandOut(keys, pool) ==
    [k \in ToSet(keys) |-> LET i == CHOOSE j \in DOMAIN keys : keys[j] = k
                           IN IF i <= Len(pool) THEN pool[i] ELSE 0]
defaultPins(t, c) == HandOut(Inputs(t), Chips[c].inputs) @@ HandOut(Outputs(t), Chips[c].outputs)

pinChoices(c) == ToSet(Chips[c].inputs) \cup ToSet(Chips[c].outputs)
pinClashes(p) == {k \in DOMAIN p : \E l \in DOMAIN p \ {k} : p[l] = p[k]}

-----------------------------------------------------------------------------
installable == template.wired # NoChip
sketchBoard == IF installable THEN template.wired ELSE chip

\* An override stays when its row leaves the template.
pins == pinOverrides @@ defaultPins(template, sketchBoard)
blocked == ~installable /\ pinClashes(pins) # {}

changeBoard(c) ==
    /\ step = 2 /\ ~installable /\ c # chip /\ Spend
    /\ chip' = c /\ pinOverrides' = << >>
    /\ UNCHANGED <<template, step, sketch>>

PickPin(k, p) ==
    /\ step = 2 /\ ~installable /\ p # pins[k] /\ Spend
    /\ pinOverrides' = (k :> p) @@ pinOverrides
    /\ UNCHANGED <<chip, template, step, sketch>>

(* Continue is off while pins clash; the stepper, and Back, are not. *)
GoTo(n) ==
    /\ n # step /\ step' = n
    /\ UNCHANGED <<chip, pinOverrides, template, sketch, pinsLeft>>

(* Download and Copy: buildSketch takes the pins of the template's own rows. *)
buildSketch ==
    /\ step = 3 /\ ~blocked
    /\ sketch' = [chip |-> sketchBoard, install |-> installable, of |-> template,
                  pins |-> [k \in PinRows(template) |-> pins[k]]]
    /\ sketch' # sketch
    /\ UNCHANGED <<chip, pinOverrides, template, step, pinsLeft>>

(* The page's answers for the device, its template and the release. *)
TemplateRead(t) ==
    /\ t # template /\ Spend
    /\ template' = t
    /\ UNCHANGED <<chip, pinOverrides, step, sketch>>

PinsInit ==
    /\ chip = FirstChip /\ pinOverrides = << >>
    /\ template \in Templates /\ step = 2 /\ sketch = NoSketch /\ pinsLeft = PinSteps

PinsNext ==
    \/ \E c \in DOMAIN Chips : changeBoard(c)
    \/ \E k \in Pickers(template), p \in pinChoices(chip) : PickPin(k, p)
    \/ \E n \in {2, 3} : GoTo(n)
    \/ buildSketch
    \/ \E t \in Templates : TemplateRead(t)

-----------------------------------------------------------------------------
PinsTypeOK ==
    /\ chip \in DOMAIN Chips /\ template \in Templates /\ step \in {2, 3} /\ pinsLeft \in 0..PinSteps
    /\ \A k \in DOMAIN pinOverrides : pinOverrides[k] \in UNION {pinChoices(c) : c \in DOMAIN Chips}

Apart(s) == pinClashes(s.pins) = {}

\* Whether a row of the sketch lies past the end of its pool.
Overflows(s) ==
    Len(Inputs(s.of)) > Len(Chips[s.chip].inputs) \/ Len(Outputs(s.of)) > Len(Chips[s.chip].outputs)

(* BOARDS: "a generated sketch never wires two things to one pin. No strapping,  *)
(* flash or USB pins".  However rows moved and boards changed, a sketch handed    *)
(* out on the sketch's own path has every row on a pin of its own that the board  *)
(* it is for offers, unless the pool ran out.                                      *)
SketchPinsApart ==
    sketch # NoSketch /\ ~sketch.install =>
        Apart(sketch) /\ (Overflows(sketch) \/ \A k \in DOMAIN sketch.pins : sketch.pins[k] \in pinChoices(sketch.chip))

(* What BOARDS promises without the exceptions; the code does not keep it: under  *)
(* Install's "Advanced" nothing holds a sketch back, and overrides picked for the  *)
(* other board are still there.                                                    *)
EverySketchApart == sketch # NoSketch => Apart(sketch)

(* A pool that ran out hands out GPIO 0, which the board keeps for booting.        *)
OnlyOfferedPins ==
    sketch # NoSketch /\ ~sketch.install => \A k \in DOMAIN sketch.pins : sketch.pins[k] \in pinChoices(sketch.chip)

(* A sketch that is held back shows why at a row that can be changed; it does not  *)
(* for overrides whose rows went, or for actuators without a picker.               *)
BlockedIsShown == blocked => pinClashes(pins) \cap Pickers(template) # {}
=============================================================================
