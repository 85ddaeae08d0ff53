------------------------------- MODULE Wiring -------------------------------
(***************************************************************************)
(* A device template's wiring and the metrics and actuators it yields, as  *)
(* the template editor holds them: lib/template-draft.ts,                  *)
(* lib/hardware/{hardware-draft,board-pins,driver-catalog}.ts, the Wiring  *)
(* section (HardwareSection.tsx) and the Data sections (template/).        *)
(*                                                                         *)
(* A key is <<base, n>>: the text and its "_n" suffix, n = 1 for none; the *)
(* blank key is <<>>.  A channel points at nothing (<<>>), at a row        *)
(* (<<uid>>) or, after loading, at a key the template lacks.  A row's      *)
(* other fields (decimals, range, payloads ...) are valid or not: fine.    *)
(***************************************************************************)
EXTENDS Integers, Sequences, FiniteSets, SequencesExt

CONSTANTS
    Models,           \* the firmware's boards: a sequence of [id, chip, pins, i2c]
    Chips,            \* per chip: usable, adc1, inputOnly pins and the two pools
    Drivers,          \* per driver: kind, bus, chips, pins, channels, part
    UsedKeys,         \* <<rows, key>> that rules or dashboards use
    TypedKeys,        \* bound: the keys the author types
    WiringQuestions   \* bound: [stored, fresh, budget]

VARIABLES
    saved,            \* the template as the API stores it
    tmpl,             \* the draft: runsOn, metrics, actuators, hardware, seq
    original,         \* the editor's saved draft
    moved,            \* what the last board change moved
    detecting,        \* the draft "Detect my board" was pressed on, if it runs
    question,         \* the change a dialog asks about
    asked,            \* used keys the author was asked about since opening
    opened,           \* the template as the editor opened it
    did,              \* the last step, for the properties
    left              \* the budget

wiringVars == <<saved, tmpl, original, moved, detecting, question, asked, opened, did, left>>

Sides == {"inputs", "outputs"}
RowsOf(side) == IF side = "inputs" THEN "metrics" ELSE "actuators"
NoPin == -1
NoWiring == [board |-> "none"]
NoDraft == [seq |-> -1]
Nothing == [to |-> "nothing"]

-----------------------------------------------------------------------------
(* Boards and pins: lib/hardware/board-pins.ts and driver-catalog.ts.      *)

NoModel == [id |-> "none"]
resolveModel(id) ==
    LET named == SelectSeq(Models, LAMBDA m : m.id = id) \o SelectSeq(Models, LAMBDA m : m.chip = id)
    IN IF named = <<>> THEN NoModel ELSE named[1]

runsOn(driver, model) == model # NoModel => model.chip \in Drivers[driver].chips

pinProblem(model, needs, pin) ==
    LET chip == Chips[model.chip]
    IN \/ pin \notin Range(model.pins) \cap chip.usable
       \/ needs = "adc1" /\ pin \notin chip.adc1
       \/ needs \in {"output", "bus"} /\ pin \in chip.inputOnly

pinsFor(model, needs) ==
    IF model = NoModel THEN <<>> ELSE SelectSeq(model.pins, LAMBDA p : ~pinProblem(model, needs, p))

preferredPins(model, needs) ==
    LET allowed == pinsFor(model, needs)
        pool == CASE model = NoModel -> <<>>
                  [] needs \in {"output", "bus"} -> Chips[model.chip].outputs
                  [] needs = "input" -> Chips[model.chip].inputs
                  [] OTHER -> <<>>
    IN SelectSeq(pool, LAMBDA p : p \in Range(allowed)) \o SelectSeq(allowed, LAMBDA p : p \notin Range(pool))

-----------------------------------------------------------------------------
(* The wiring: lib/hardware/hardware-draft.ts.                             *)

blankHardware(board) == [board |-> board, i2c |-> <<>>, inputs |-> <<>>, outputs |-> <<>>]
PartsOf(h) == IF h = NoWiring THEN <<>> ELSE h.inputs \o h.outputs
Links(part) == Range(part.channels) \ {<<>>}

\* Every pin in use, with what uses it: a part's role, or a line of the bus (owner 0).
usedPins(h) ==
    {[owner |-> 0, role |-> i, pin |-> h.i2c[i]] : i \in DOMAIN h.i2c}
      \cup {s \in UNION {{[owner |-> b.uid, role |-> i, pin |-> b.pins[i]] : i \in DOMAIN b.pins}
                           : b \in Range(PartsOf(h))} : s.pin # NoPin}
PinsIn(h) == {s.pin : s \in usedPins(h)}

FirstFree(pins, taken) ==
    LET free == SelectSeq(pins, LAMBDA p : p \notin taken)
    IN IF free = <<>> THEN NoPin ELSE free[1]

\* Mutant: two roles of one part may be given the same pin.
PlacePinsForgets(model, needs, start) ==
    [i \in DOMAIN needs |-> FirstFree(preferredPins(model, needs[i]), start)]

\* One pin after the other, each on the first free one that suits it.
PlacePins(model, needs, start) ==
    FoldLeft(LAMBDA pins, n : Append(pins, FirstFree(preferredPins(model, n), start \cup Range(pins))),
             <<>>, needs)

blankBinding(driver, h, uid) ==
    [uid |-> uid, driver |-> driver, address |-> 1,
     pins |-> PlacePins(resolveModel(h.board), Drivers[driver].pins, PinsIn(h)),
     channels |-> [c \in {ch.key : ch \in Range(Drivers[driver].channels)} |-> <<>>],
     proposed |-> <<>>]

takenTargets(h, side) == UNION {Links(b) : b \in Range(h[side])}

usesI2c(h) == \E b \in Range(PartsOf(h)) : Drivers[b.driver].bus

syncI2c(h) ==
    LET model == resolveModel(h.board)
        free == SelectSeq(preferredPins(model, "bus"), LAMBDA p : p \notin PinsIn(h))
    IN CASE ~usesI2c(h) -> [h EXCEPT !.i2c = <<>>]
         [] h.i2c # <<>> \/ model = NoModel -> h
         [] model.i2c # <<>> /\ Range(model.i2c) \cap PinsIn(h) = {} -> [h EXCEPT !.i2c = model.i2c]
         [] Len(free) >= 2 -> [h EXCEPT !.i2c = SubSeq(free, 1, 2)]
         [] OTHER -> h

Move(owner, role, from, to) == [owner |-> owner, role |-> role, from |-> from, to |-> to]

MovedBus(from, to) ==
    {Move(0, i, from[i], to[i]) : i \in {j \in DOMAIN from \cap DOMAIN to : from[j] # to[j]}}

\* The wiring on another board: what still suits its role stays, the rest
\* moves to the first free pin that suits it; the bus takes the board's own pins.
moveToBoard(h, board) ==
    LET model == resolveModel(board)
        bus == IF usesI2c(h) THEN model.i2c ELSE <<>>
        roles == FlattenSeq([i \in DOMAIN PartsOf(h) |->
                   LET b == PartsOf(h)[i]
                   IN [r \in DOMAIN b.pins |-> [owner |-> b.uid, role |-> r, pin |-> b.pins[r],
                                                needs |-> Drivers[b.driver].pins[r]]]])
        Stays(s, taken) == s.pin # NoPin /\ s.pin \notin taken /\ ~pinProblem(model, s.needs, s.pin)
        kept == FoldLeft(LAMBDA acc, s : IF Stays(s, Range(bus) \cup {k.pin : k \in acc})
                                         THEN acc \cup {s} ELSE acc, {}, roles)
        placed == FoldLeft(LAMBDA acc, s :
                      IF s \in kept THEN acc
                      ELSE Append(acc, [s EXCEPT !.pin = FirstFree(preferredPins(model, s.needs),
                             Range(bus) \cup {k.pin : k \in kept \cup Range(acc)})]),
                      <<>>, roles)
        PinOf(owner, role) == (CHOOSE s \in kept \cup Range(placed) : s.owner = owner /\ s.role = role).pin
        Rebind(parts) == [i \in DOMAIN parts |->
                            [parts[i] EXCEPT !.pins = [r \in DOMAIN @ |-> PinOf(parts[i].uid, r)]]]
    IN [hardware |-> [h EXCEPT !.board = model.id, !.i2c = bus, !.inputs = Rebind(@), !.outputs = Rebind(@)],
        moved |-> MovedBus(h.i2c, bus) \cup {Move(s.owner, s.role, s.pin, PinOf(s.owner, s.role))
                            : s \in {t \in Range(roles) : t \notin kept /\ t.pin # NoPin}}]

-----------------------------------------------------------------------------
(* The rows a part brings: lib/template-draft.ts.                          *)

blankRow(side, uid) ==
    [uid |-> uid, name |-> "", key |-> <<>>, keyAuto |-> TRUE, origKey |-> <<>>,
     type |-> IF side = "inputs" THEN "float" ELSE "bool", unit |-> "", fine |-> TRUE]

RowAt(rows, ref) == SelectSeq(rows, LAMBDA r : <<r.uid>> = ref)
slugify(name) == IF name = "" THEN <<>> ELSE <<name, 1>>

Reserved == {<<"status", 1>>, <<"config", 1>>}

\* A part's lone `value` channel takes the part's name.
ProposedBase(spec, ch) == IF ch.key = "value" /\ Len(spec.channels) = 1 THEN spec.part ELSE ch.key

freeKey(base, used) ==
    LET n == CHOOSE n \in 1 .. Cardinality(used) + 2 :
               /\ <<base, n>> \notin used \cup Reserved
               /\ \A k \in 1 .. n - 1 : <<base, k>> \in used \cup Reserved
    IN <<base, n>>

\* The row a channel links to: a free one with its key and type, else a new one.
rowForChannel(spec, ch, rows, busy, uid) ==
    LET base == ProposedBase(spec, ch)
        free == SelectSeq(rows, LAMBDA r : r.key = <<base, 1>> /\ r.type = ch.type /\ <<r.uid>> \notin busy)
    IN IF free # <<>> THEN [ref |-> <<free[1].uid>>, created |-> <<>>]
       ELSE [ref |-> <<uid>>,
             created |-> << [blankRow("inputs", uid) EXCEPT
                 !.name = base, !.key = freeKey(base, {r.key : r \in Range(rows)}),
                 !.keyAuto = FALSE, !.type = ch.type, !.unit = ch.unit] >>]

\* Replace part: the old links the new driver's channels keep, by channel key
\* first, then by the row's type and unit.
carryLinks(side, old, spec, rows) ==
    LET sameKey == [c \in {ch.key : ch \in {x \in Range(spec.channels) :
                             x.key \in DOMAIN old.channels /\ old.channels[x.key] # <<>>}} |-> old.channels[c]]
        links == SelectSeq([i \in DOMAIN Drivers[old.driver].channels |->
                     LET c == Drivers[old.driver].channels[i].key
                     IN IF c \in DOMAIN old.channels THEN old.channels[c] ELSE <<>>], LAMBDA r : r # <<>>)
        Fits(ref, ch) == \E r \in Range(RowAt(rows, ref)) :
                           r.type = ch.type /\ (side = "inputs" => ch.unit # "" /\ r.unit = ch.unit)
        Carry(out, ch) ==
          LET free == SelectSeq(links, LAMBDA r : r \notin Range(out) /\ Fits(r, ch))
          IN IF ch.key \in DOMAIN out \/ free = <<>> THEN out ELSE (ch.key :> free[1]) @@ out
    IN FoldLeft(Carry, sameKey, spec.channels)

NoPart == [driver |-> "none"]
PartAt(parts, uid) == LET at == SelectSeq(parts, LAMBDA b : b.uid = uid) IN IF at = <<>> THEN NoPart ELSE at[1]

\* Proposals of parts that went, or changed driver, as long as nobody edited them.
Untouched(prev, next) ==
    LET leaving == {o \in Range(PartsOf(prev.hardware)) : PartAt(PartsOf(next), o.uid).driver # o.driver}
    IN {r.uid : r \in {x \in Range(prev.metrics \o prev.actuators) :
          \E o \in leaving : x.uid \in DOMAIN o.proposed /\ o.proposed[x.uid] = x}}

Reconciled(prev, next) ==
    LET Before(b) == PartAt(PartsOf(prev.hardware), b.uid)
        Same(b) == Before(b).driver = b.driver
        Carried(side, b) == IF Before(b) = NoPart \/ Same(b) THEN <<>>
                            ELSE carryLinks(side, Before(b), Drivers[b.driver], prev[RowsOf(side)])
        stillLinked == UNION {UNION {IF Same(b) THEN Links(b) ELSE Range(Carried(side, b))
                                       : b \in Range(next[side])} : side \in Sides}
        dropping == {u \in Untouched(prev, next) : <<u>> \notin stillLinked}
        Kept(rows) == SelectSeq(rows, LAMBDA r : r.uid \notin dropping)
        Unlinked(b) == [b EXCEPT !.channels = [c \in DOMAIN @ |->
                          IF @[c] \in {<<u>> : u \in dropping} THEN <<>> ELSE @[c]]]
        \* One channel of a new part: acc is the draft's rows and the part so far.
        Feed(side, spec, taken, acc, ch) ==
          LET hit == rowForChannel(spec, ch, acc.rows, taken \cup Links(acc.part), acc.seq)
          IN CASE ch.key \in DOMAIN acc.part.channels /\ acc.part.channels[ch.key] # <<>> -> acc
               [] ~ch.common -> [acc EXCEPT !.part.channels = (ch.key :> <<>>) @@ @]
               [] OTHER -> [rows |-> acc.rows \o hit.created, seq |-> acc.seq + Len(hit.created),
                            part |-> [acc.part EXCEPT
                              !.channels = (ch.key :> hit.ref) @@ @,
                              !.proposed = IF hit.created = <<>> THEN @ ELSE (acc.seq :> hit.created[1]) @@ @]]
        Fed(side, b, rows, seq) ==
          LET links == Carried(side, b)
              owned == IF Before(b) = NoPart THEN {} ELSE {u \in DOMAIN Before(b).proposed : <<u>> \in Range(links)}
              others == takenTargets([next EXCEPT ![side] = SelectSeq(@, LAMBDA x : x.uid # b.uid)], side)
          IN FoldLeft(LAMBDA acc, ch : Feed(side, Drivers[b.driver], others, acc, ch),
                      [rows |-> rows, seq |-> seq, part |-> [b EXCEPT
                         !.channels = links, !.proposed = [u \in owned |-> Before(b).proposed[u]]]],
                      Drivers[b.driver].channels)
        Propose(d, side) ==
          FoldLeft(LAMBDA acc, b :
              IF Same(b) THEN [acc EXCEPT !.hardware[side] = Append(@, Unlinked(b))]
              ELSE LET fed == Fed(side, b, acc[RowsOf(side)], acc.seq)
                   IN [acc EXCEPT !.hardware[side] = Append(@, fed.part), ![RowsOf(side)] = fed.rows, !.seq = fed.seq],
              [d EXCEPT !.hardware[side] = <<>>], next[side])
        start == [prev EXCEPT !.metrics = Kept(@), !.actuators = Kept(@), !.hardware = next]
    IN FoldLeft(Propose, start, <<"inputs", "outputs">>)

\* Wiring cleared: as if every part went.
reconcileParts(prev, next) ==
    LET cleared == next = NoWiring
        to == IF cleared THEN [prev.hardware EXCEPT !.inputs = <<>>, !.outputs = <<>>] ELSE next
    IN [Reconciled(prev, to) EXCEPT !.hardware = IF cleared THEN NoWiring ELSE @]

\* "Which readings to keep": keeping links the reading to a row, dropping it
\* takes the row along while it is an untouched proposal nothing else feeds.
keepReading(d, i, ch) ==
    LET b == d.hardware.inputs[i]
        ref == IF ch.key \in DOMAIN b.channels THEN b.channels[ch.key] ELSE <<>>
        hit == rowForChannel(Drivers[b.driver], ch, d.metrics, takenTargets(d.hardware, "inputs"), d.seq)
        untouched == \E r \in Range(RowAt(d.metrics, ref)) : r.uid \in DOMAIN b.proposed /\ b.proposed[r.uid] = r
        elsewhere == \E x \in Range(d.hardware.inputs) : x.uid # b.uid /\ ref \in Links(x)
        With(to, proposed) == [d EXCEPT !.hardware.inputs[i] =
                                 [b EXCEPT !.channels = (ch.key :> to) @@ @, !.proposed = proposed]]
    IN IF ref = <<>>
       THEN [With(hit.ref, IF hit.created = <<>> THEN b.proposed ELSE (d.seq :> hit.created[1]) @@ b.proposed)
               EXCEPT !.metrics = @ \o hit.created, !.seq = @ + Len(hit.created)]
       ELSE [With(<<>>, IF untouched THEN [u \in DOMAIN b.proposed \ {ref[1]} |-> b.proposed[u]] ELSE b.proposed)
               EXCEPT !.metrics = IF untouched /\ ~elsewhere THEN SelectSeq(@, LAMBDA r : <<r.uid>> # ref) ELSE @]

-----------------------------------------------------------------------------
(* To and from the API, and the checks on both sides.                      *)

StoredRow(r) == [name |-> r.name, key |-> r.key, type |-> r.type, unit |-> IF r.type = "bool" THEN "" ELSE r.unit]
StoredRows(rows) == [i \in DOMAIN rows |-> StoredRow(rows[i])]

KeyOf(rows, ref) ==
    CASE Len(ref) # 1 -> ref
      [] RowAt(rows, ref) = <<>> -> <<>>
      [] OTHER -> RowAt(rows, ref)[1].key

hardwareToRequest(h, d) ==
    LET Binding(b, rows) ==
          [driver |-> b.driver, pins |-> b.pins, address |-> b.address,
           channels |-> [c \in {x \in DOMAIN b.channels : KeyOf(rows, b.channels[x]) # <<>>}
                           |-> KeyOf(rows, b.channels[c])]]
    IN IF h = NoWiring THEN h
       ELSE [h EXCEPT !.inputs = [i \in DOMAIN @ |-> Binding(@[i], d.metrics)],
                      !.outputs = [i \in DOMAIN @ |-> Binding(@[i], d.actuators)]]

draftToRequest(d) ==
    [runsOn |-> d.runsOn, metrics |-> StoredRows(d.metrics), actuators |-> StoredRows(d.actuators),
     hardware |-> IF d.runsOn = "own_code" THEN NoWiring ELSE hardwareToRequest(d.hardware, d)]

\* A key the template does not have stays as the key itself.
RowByKey(rows, key) ==
    LET at == SelectSeq(rows, LAMBDA r : r.key = key) IN IF at = <<>> THEN key ELSE <<at[1].uid>>

hardwareToDraft(h, metrics, actuators, seq) ==
    LET Binding(b, rows, uid) == [uid |-> uid, driver |-> b.driver, address |-> b.address, pins |-> b.pins,
                                  channels |-> [c \in DOMAIN b.channels |-> RowByKey(rows, b.channels[c])],
                                  proposed |-> <<>>]
    IN IF h = NoWiring THEN h
       ELSE [h EXCEPT !.inputs = [i \in DOMAIN @ |-> Binding(@[i], metrics, seq + i)],
                      !.outputs = [i \in DOMAIN @ |-> Binding(@[i], actuators, seq + Len(h.inputs) + i)]]

templateToDraft(t) ==
    LET Rows(stored, from) == [i \in DOMAIN stored |->
            [uid |-> from + i, name |-> stored[i].name, key |-> stored[i].key, keyAuto |-> FALSE,
             origKey |-> stored[i].key, type |-> stored[i].type, unit |-> stored[i].unit, fine |-> TRUE]]
        metrics == Rows(t.metrics, 0)
        actuators == Rows(t.actuators, Len(metrics))
        rowsEnd == Len(metrics) + Len(actuators)
    IN [runsOn |-> t.runsOn, metrics |-> metrics, actuators |-> actuators,
        hardware |-> hardwareToDraft(t.hardware, metrics, actuators, rowsEnd),
        seq |-> rowsEnd + Len(PartsOf(t.hardware)) + 1]

Twice(s) == \E i, j \in DOMAIN s : i # j /\ s[i] = s[j]
KeysOf(rows) == [i \in DOMAIN rows |-> rows[i].key]

RowErrors(side, rows) ==
    \/ \E r \in Range(rows) : r.name = "" \/ r.key = <<>> \/ ~r.fine \/ (side = "inputs" /\ r.key \in Reserved)
    \/ Twice(KeysOf(rows))

\* Every channel's link, one entry per channel.
LinksOn(h, side) == {<<b.uid, c, b.channels[c]>> : <<b, c>> \in
    {<<x, k>> \in Range(h[side]) \X UNION {DOMAIN y.channels : y \in Range(h[side])} :
        k \in DOMAIN x.channels /\ x.channels[k] # <<>>}}
FedTwice(h, side) == \E l, m \in LinksOn(h, side) : l # m /\ l[3] = m[3]

LinkErrors(h, d, side) ==
    \/ \E l \in LinksOn(h, side) : RowAt(d[RowsOf(side)], l[3]) = <<>>
    \/ FedTwice(h, side)
    \/ side = "outputs" /\ \E b \in Range(h.outputs) : Links(b) = {}

PinErrors(h) ==
    LET model == resolveModel(h.board)
    IN \/ model = NoModel
       \/ \E s, t \in usedPins(h) : s # t /\ s.pin = t.pin
       \/ usesI2c(h) /\ h.i2c = <<>>
       \/ \E p \in Range(h.i2c) : pinProblem(model, "bus", p)
       \/ \E b \in Range(PartsOf(h)) :
            \/ ~runsOn(b.driver, model)
            \/ \E i \in DOMAIN b.pins : b.pins[i] = NoPin \/ pinProblem(model, Drivers[b.driver].pins[i], b.pins[i])
       \/ \E b, c \in {x \in Range(PartsOf(h)) : Drivers[x.driver].bus} : b # c /\ b.address = c.address

validateHardware(h, d) ==
    h # NoWiring /\ (PinErrors(h) \/ \E side \in Sides : LinkErrors(h, d, side))

HasErrors(d) ==
    \/ \E side \in Sides : RowErrors(side, d[RowsOf(side)])
    \/ d.runsOn # "own_code" /\ validateHardware(d.hardware, d)

\* What the API refuses: catalog/service.py's check_hardware and key checks.
check_hardware(t) ==
    LET Keys(side) == Range(KeysOf(t[RowsOf(side)]))
        Bad(side) == \/ FedTwice(t.hardware, side)
                     \/ \E l \in LinksOn(t.hardware, side) : l[3] \notin Keys(side)
    IN \/ \E side \in Sides : Bad(side)
       \/ \E b \in Range(t.hardware.outputs) : DOMAIN b.channels # {"value"}

\* The stored parts have no uid: number them so that LinksOn tells them apart.
Numbered(parts) == [i \in DOMAIN parts |-> [uid |-> i] @@ parts[i]]
Refused(t) ==
    \/ \E side \in Sides : Twice(KeysOf(t[RowsOf(side)]))
    \/ \E r \in Range(t.metrics) : r.key \in Reserved
    \/ t.runsOn = "own_code" /\ t.hardware # NoWiring
    \/ /\ t.hardware # NoWiring
       /\ check_hardware([t EXCEPT !.hardware.inputs = Numbered(@), !.hardware.outputs = Numbered(@)])

-----------------------------------------------------------------------------
(* What rules and dashboards would lose.                                   *)

LinkedRefs(h, side) == IF h = NoWiring THEN {} ELSE takenTargets(h, side)

\* Mutant: the actuators are forgotten.
unfedRowsMetrics(prev, next) ==
    {<<"metrics", r.origKey>> : r \in {x \in Range(prev.metrics) :
        <<x.uid>> \in LinkedRefs(prev.hardware, "inputs") \ LinkedRefs(next.hardware, "inputs")}}

unfedRows(prev, next) == UNION {
    {<<RowsOf(side), r.origKey>> : r \in {x \in Range(prev[RowsOf(side)]) :
        <<x.uid>> \in LinkedRefs(prev.hardware, side) \ LinkedRefs(next.hardware, side)}} : side \in Sides}

brokenUsages(d, orig) == UNION {
    {<<RowsOf(side), r.origKey>> : r \in {x \in Range(orig[RowsOf(side)]) :
        ~\E now \in Range(d[RowsOf(side)]) : now.uid = x.uid /\ now.key = x.origKey}} : side \in Sides} \cap UsedKeys

-----------------------------------------------------------------------------
(* The editor.                                                             *)

NoTemplate == [runsOn |-> "none"]
blankTemplate == [runsOn |-> "generic_firmware", metrics |-> <<>>, actuators |-> <<>>,
                  hardware |-> blankHardware(Models[1].id), seq |-> 1]

WiringInit ==
    \E q \in WiringQuestions :
        /\ saved = q.stored /\ opened = q.stored
        /\ tmpl = IF q.stored = NoTemplate THEN blankTemplate ELSE templateToDraft(q.stored)
        /\ original = tmpl
        /\ left = q.budget
        /\ moved = {} /\ detecting = NoDraft /\ question = Nothing /\ asked = {} /\ did = "open"

Spend(kind) == left[kind] > 0 /\ left' = [left EXCEPT ![kind] = @ - 1]
hw == tmpl.hardware
Wired == tmpl.runsOn = "generic_firmware" /\ hw # NoWiring

\* set(next): the draft is replaced.
SetDraft(next, what) ==
    /\ tmpl' = next /\ did' = what
    /\ UNCHANGED <<saved, original, moved, detecting, question, asked, opened>>

guardUnfed(prev, next, what) ==
    LET lost == unfedRows(prev, next) \cap UsedKeys
    IN IF lost = {} THEN SetDraft(next, what)
       ELSE /\ question' = [to |-> what, from |-> prev, next |-> next, keys |-> lost] /\ did' = "ask"
            /\ UNCHANGED <<saved, tmpl, original, moved, detecting, asked, opened>>

Free == question = Nothing
Dirty == [tmpl EXCEPT !.seq = 0] # [original EXCEPT !.seq = 0]

\* What the Wiring section offers: the wiring each control asks for.
Change(kind, what, next) == [kind |-> kind, what |-> what, next |-> next]
Each(side) == DOMAIN hw[side]
Model == resolveModel(hw.board)

SetUpWiring == {Change("part", "part", blankHardware(Models[1].id))}
RemoveWiring == {Change("part", "part", NoWiring)}

\* A new part's uid comes from the counter that the rows use.
AddPart ==
    {Change("part", "part", syncI2c([hw EXCEPT
         ![Drivers[driver].kind] = Append(@, blankBinding(driver, hw, tmpl.seq))]))
       : driver \in {d \in DOMAIN Drivers : runsOn(d, Model)}}

ReplacePart(side, i) ==
    LET old == hw[side][i]
        without == [hw EXCEPT ![side] = RemoveAt(@, i)]
    IN {Change("part", "replace", syncI2c([hw EXCEPT ![side][i] = blankBinding(driver, without, old.uid)]))
          : driver \in {d \in DOMAIN Drivers \ {old.driver} : Drivers[d].kind = side /\ runsOn(d, Model)}}

RemovePart(side, i) == {Change("part", "part", syncI2c([hw EXCEPT ![side] = RemoveAt(@, i)]))}

PickPin(side, i) ==
    UNION {{Change("pin", "pin", [hw EXCEPT ![side][i].pins[role] = pin])
              : pin \in Range(pinsFor(Model, Drivers[hw[side][i].driver].pins[role]))}
             : role \in DOMAIN hw[side][i].pins}

PickBusPin ==
    {Change("pin", "pin", [hw EXCEPT !.i2c[line] = pin]) :
       line \in DOMAIN hw.i2c, pin \in Range(pinsFor(Model, "bus"))}

SetAddress(side, i) ==
    IF Drivers[hw[side][i].driver].bus THEN {Change("pin", "pin", [hw EXCEPT ![side][i].address = 3 - @])} ELSE {}

\* The picker leaves out the rows another channel holds.
LinkChannel(side, i) ==
    {Change("link", "link", [hw EXCEPT ![side][i].channels = (ch.key :> ref) @@ @]) :
       ch \in Range(Drivers[hw[side][i].driver].channels),
       ref \in ({<<r.uid>> : r \in Range(tmpl[RowsOf(side)])} \ takenTargets(hw, side)) \cup {<<>>}}

PartChanges ==
    UNION {UNION {ReplacePart(side, i) \cup RemovePart(side, i) \cup PickPin(side, i)
                    \cup SetAddress(side, i) \cup LinkChannel(side, i) : i \in Each(side)} : side \in Sides}

Changes ==
    CASE tmpl.runsOn # "generic_firmware" -> {}
      [] hw = NoWiring -> SetUpWiring
      [] OTHER -> {c \in AddPart \cup RemoveWiring \cup PickBusPin \cup PartChanges : c.next # hw}

\* onChange of the Wiring section, whichever control it comes from: the rows
\* follow the parts, then what rules would lose is asked about.  Every control
\* brings the bus in step (syncI2c); where the drivers stay it does nothing.
EditWiring(c) ==
    /\ Free /\ Spend(c.kind)
    /\ LET from == [tmpl EXCEPT !.seq = @ + 1] IN guardUnfed(from, reconcileParts(from, c.next), c.what)

KeepReading(i, ch) ==
    /\ Free /\ Wired /\ Len(Drivers[hw.inputs[i].driver].channels) > 2 /\ Spend("link")
    /\ guardUnfed(tmpl, keepReading(tmpl, i, ch), "part")

\* changeBoard and detect().  The latter goes on with the wiring of the click,
\* whatever changed since.
changeBoard(from, id, what) ==
    LET to == moveToBoard(from.hardware, id)
    IN /\ moved' = to.moved /\ tmpl' = reconcileParts(from, syncI2c(to.hardware)) /\ did' = what
       /\ UNCHANGED <<saved, original, question, asked, opened>>

PressDetect ==
    /\ Free /\ Wired /\ detecting = NoDraft /\ Spend("board")
    /\ detecting' = tmpl /\ did' = "detect"
    /\ UNCHANGED <<saved, tmpl, original, moved, question, asked, opened>>

Picked(id) == Free /\ Wired /\ id # Model.id /\ Spend("board") /\ UNCHANGED detecting
Detected(id) ==
    /\ detecting # NoDraft /\ detecting' = NoDraft /\ UNCHANGED left
    /\ LET chip == resolveModel(id).chip
           model == resolveModel(detecting.hardware.board)
       IN id = resolveModel(chip).id /\ (model # NoModel => model.chip # chip)

ChangeBoard(id) ==
    \E what \in {"board", "detected"} :
        /\ IF what = "board" THEN Picked(id) ELSE Detected(id)
        /\ changeBoard(IF what = "board" THEN tmpl ELSE detecting, id, what)

\* The board was not read, or its chip is the one chosen, or unknown.
DetectFindsNothing ==
    /\ detecting # NoDraft /\ detecting' = NoDraft /\ did' = "known"
    /\ UNCHANGED <<saved, tmpl, original, moved, question, asked, opened, left>>

AddRow(side) ==
    /\ Free /\ Spend("row")
    /\ SetDraft([tmpl EXCEPT ![RowsOf(side)] = Append(@, blankRow(side, tmpl.seq)), !.seq = @ + 1], "row")

RemoveRow(side, i) ==
    Free /\ Spend("row") /\ SetDraft([tmpl EXCEPT ![RowsOf(side)] = RemoveAt(@, i)], "row")

renamed(r, name) == [r EXCEPT !.name = name, !.key = IF r.keyAuto THEN slugify(name) ELSE @]

RowEdits(side, r) ==
    {renamed(r, "mine"), [r EXCEPT !.fine = ~@], [r EXCEPT !.type = IF @ = "bool" THEN "float" ELSE "bool"]}
      \cup {[r EXCEPT !.key = k, !.keyAuto = FALSE] : k \in TypedKeys}

EditRow(side, i) ==
    /\ Free /\ Spend("row")
    /\ \E r \in RowEdits(side, tmpl[RowsOf(side)][i]) :
         SetDraft([tmpl EXCEPT ![RowsOf(side)][i] = r], "row")

setRunsOn(to) ==
    /\ Free /\ tmpl.runsOn # to /\ Spend("run")
    /\ SetDraft([tmpl EXCEPT
         !.runsOn = to, !.seq = @ + 1,
         !.metrics = IF to = "own_code" /\ @ = <<>> THEN <<blankRow("inputs", tmpl.seq)>> ELSE @,
         !.hardware = IF saved = NoTemplate /\ to = "generic_firmware" /\ @ = NoWiring
                      THEN blankHardware(Models[1].id) ELSE @], "run")

\* editor.save: refused by the checks here, by the API, or stored.
Store(d) ==
    LET request == draftToRequest(d)
    IN CASE HasErrors(d) -> did' = "invalid" /\ UNCHANGED <<saved, original>>
         [] Refused(request) -> did' = "refused" /\ UNCHANGED <<saved, original>>
         [] OTHER -> did' = "saved" /\ saved' = request /\ original' = d

onSave ==
    LET broken == brokenUsages(tmpl, original)
    IN /\ Free /\ Dirty /\ Spend("save")
       /\ UNCHANGED <<tmpl, moved, detecting, asked, opened>>
       /\ IF broken # {} /\ ~HasErrors(tmpl)
          THEN question' = [to |-> "save", from |-> tmpl, next |-> tmpl, keys |-> broken] /\ did' = "ask" /\ UNCHANGED <<saved, original>>
          ELSE Store(tmpl) /\ UNCHANGED question

Answer(yes) ==
    /\ ~Free /\ question' = Nothing /\ UNCHANGED <<moved, detecting, opened, left>>
    /\ asked' = IF yes THEN asked \cup question.keys ELSE asked
    /\ CASE ~yes -> did' = "cancel" /\ UNCHANGED <<saved, tmpl, original>>
         [] question.to = "save" -> Store(question.next) /\ UNCHANGED tmpl
         [] OTHER -> tmpl' = question.next /\ did' = question.to /\ UNCHANGED <<saved, original>>

DiscardWiring == Free /\ Dirty /\ Spend("save") /\ SetDraft(original, "discard")

\* The page is left and opened again.
Reopen ==
    /\ Free /\ ~Dirty /\ saved # NoTemplate /\ Spend("save")
    /\ tmpl' = templateToDraft(saved) /\ original' = tmpl' /\ opened' = saved
    /\ asked' = {} /\ moved' = {} /\ detecting' = NoDraft /\ did' = "open"
    /\ UNCHANGED <<saved, question>>

EditRows ==
    \E side \in Sides :
        \/ AddRow(side)
        \/ \E i \in DOMAIN tmpl[RowsOf(side)] : RemoveRow(side, i) \/ EditRow(side, i)

WiringNext ==
    \/ EditRows \/ PressDetect \/ DetectFindsNothing
    \/ \E c \in Changes : EditWiring(c)
    \/ Wired /\ \E i \in Each("inputs") : \E ch \in Range(Drivers[hw.inputs[i].driver].channels) : KeepReading(i, ch)
    \/ \E id \in {m.id : m \in Range(Models)} : ChangeBoard(id)
    \/ \E to \in {"generic_firmware", "own_code"} : setRunsOn(to)
    \/ onSave \/ (\E yes \in BOOLEAN : Answer(yes)) \/ DiscardWiring \/ Reopen

-----------------------------------------------------------------------------
(* Properties.                                                             *)

\* A metric is fed, and an actuator driven, by one channel at most: through
\* parts added, replaced and removed, readings kept and dropped, and the
\* pickers (HardwareSection.tsx:130 "One metric is fed, and one actuator
\* driven, by one channel").
LinkedOnce == hw # NoWiring => \A side \in Sides : ~FedTwice(hw, side)

\* What the editor lets through, the API takes: rows removed under a part,
\* renamed keys and replaced parts included (catalog/service.py check_hardware).
WiringAccepted == did # "refused"

\* What was just saved reads back as it was: every part feeds and drives the
\* same keys when the page is opened again, and the checks it passed it passes.
WiringReadsBack ==
    LET again == templateToDraft(saved)
    IN did = "saved" => ~HasErrors(again) /\ draftToRequest(again) = saved

\* No used key that was fed when the template was opened stops being fed by a
\* save the author was not asked about (TemplateEditor.tsx guardUnfed and
\* onSave).  Switching to custom firmware gives up the wiring as a whole.
FedKeys(t) ==
    IF t = NoTemplate \/ t.hardware = NoWiring THEN {}
    ELSE UNION {{<<RowsOf(side), k>> : k \in takenTargets(t.hardware, side)} : side \in Sides}
AskedBeforeUnfed ==
    saved.runsOn = "generic_firmware" => (FedKeys(opened) \cap UsedKeys) \ FedKeys(saved) \subseteq asked

\* The draft a change was made on: the one on screen when its button was pressed.
MadeOn == IF question = Nothing THEN tmpl ELSE question.from

\* A pin the editor hands out, for a new part, a replaced one, another board
\* or the bus, suits its role there and is nobody else's.
NeedOf(h, s) ==
    IF s.owner = 0 THEN "bus" ELSE Drivers[PartAt(PartsOf(h), s.owner).driver].pins[s.role]
PinsApartStep ==
    did' \in {"part", "replace", "board"} /\ tmpl'.hardware # NoWiring =>
      LET old == IF MadeOn.hardware = NoWiring \/ did' = "board" THEN {} ELSE usedPins(MadeOn.hardware)
          new == usedPins(tmpl'.hardware)
          model == resolveModel(tmpl'.hardware.board)
      IN \A s \in new \ old : /\ ~pinProblem(model, NeedOf(tmpl'.hardware, s), s.pin)
                              /\ \A t \in new : t.pin = s.pin => t = s

\* After another board was picked, the list of moved pins tells every pin that
\* changed and no other (HardwareSection.tsx "Rewire those").
MovedIsToldStep ==
    LET from == usedPins(IF did' = "detected" THEN detecting.hardware ELSE hw)
        PinNow(s) == LET at == {t \in usedPins(tmpl'.hardware) : t.owner = s.owner /\ t.role = s.role}
                     IN IF at = {} THEN NoPin ELSE (CHOOSE t \in at : TRUE).pin
    IN did' \in {"board", "detected"} =>
         moved' = {[owner |-> s.owner, role |-> s.role, from |-> s.pin, to |-> PinNow(s)]
                                      : s \in {t \in from : PinNow(t) # t.pin}}

\* A wiring change takes a row away only when it is a proposal as the part
\* brought it, not a saved or an edited one, and no part is left that feeds it.
AsProposed(r) ==
    /\ r.origKey = <<>> /\ r.fine
    /\ \E spec \in Range(Drivers) : \E ch \in Range(spec.channels) :
         LET base == ProposedBase(spec, ch)
         IN r.name = base /\ r.key # <<>> /\ r.key[1] = base /\ r.type = ch.type
EditedRowsStayStep ==
    did' \in {"part", "replace", "link"} =>
      \A side \in Sides : \A r \in Range(MadeOn[RowsOf(side)]) :
        \/ \E now \in Range(tmpl'[RowsOf(side)]) : now.uid = r.uid
        \/ AsProposed(r) /\ <<r.uid>> \notin LinkedRefs(tmpl'.hardware, side)

\* A replaced part keeps what it fed: a row is not left unfed while the new
\* part's channel of the same name, or of the same unit and type, was given
\* another row (template-draft.ts:410 "it keeps what it fed").
ReplaceKeepsStep ==
    did' = "replace" =>
      \A side \in Sides : \A i \in DOMAIN MadeOn.hardware[side] :
        LET old == MadeOn.hardware[side][i]
            now == tmpl'.hardware[side][i]
            lost == {r \in Range(MadeOn[RowsOf(side)]) :
                       <<r.uid>> \in Links(old) \ LinkedRefs(tmpl'.hardware, side)}
            made == {ch \in Range(Drivers[now.driver].channels) :
                       now.channels[ch.key] \notin Links(old) /\ ch.common}
        IN now.driver # old.driver => \A r \in lost : \A ch \in made :
             /\ r.type = ch.type => ch.unit # r.unit \/ (side = "inputs" /\ r.unit = "")
             /\ ch.key \in DOMAIN old.channels => old.channels[ch.key] # <<r.uid>>
=============================================================================
