------------------------------ MODULE RuleTree ------------------------------
(***************************************************************************)
(* The condition tree behind both rule editors and its drawing as a ladder *)
(* rung: the tree operations of lib/rule-draft.ts, the grid layout of      *)
(* lib/ladder-layout.ts, and the buttons of FormMode.tsx and               *)
(* LadderMode.tsx that edit the tree.                                      *)
(*                                                                         *)
(* A contact is its id: what it compares is the business of RuleDraft, and *)
(* which contacts are true at a moment is a set of ids.                    *)
(***************************************************************************)
EXTENDS Integers, Sequences, FiniteSets, SequencesExt

CONSTANTS
    MaxEdits,      \* bound: edits made to one tree
    MaxContacts    \* bound: contacts in one tree

VARIABLES
    condition,     \* RuleDraft.condition
    nextId,        \* newId(): ids are never used twice
    edits          \* edits made so far

treeVars == <<condition, nextId, edits>>

Ops == {"AND", "OR"}

Null == [kind |-> "null"]
Contact(id) == [kind |-> "contact", id |-> id]
Group(id, op, children) ==
    [kind |-> "group", id |-> id, op |-> op, children |-> children]

Children(node) == IF node.kind = "group" THEN node.children ELSE <<>>

-----------------------------------------------------------------------------
(* Reading a tree. *)

RECURSIVE contacts(_)
contacts(node) ==
    CASE node.kind = "null" -> <<>>
      [] node.kind = "contact" -> <<node.id>>
      [] OTHER -> FlattenSeq([i \in DOMAIN node.children |-> contacts(node.children[i])])

ContactIds(node) == Range(contacts(node))

RECURSIVE NodesOf(_)
NodesOf(node) ==
    IF node = Null THEN {}
    ELSE {node} \cup UNION {NodesOf(c) : c \in Range(Children(node))}

IdsOf(node) == {n.id : n \in NodesOf(node)}
GroupsOf(node) == {n \in NodesOf(node) : n.kind = "group"}

findNode(node, id) == CHOOSE n \in NodesOf(node) : n.id = id

(* What the engine makes of the tree when exactly the contacts in on are   *)
(* true: a rule without a condition runs whenever it is triggered.         *)
RECURSIVE Holds(_, _)
Holds(node, on) ==
    CASE node.kind = "null" -> TRUE
      [] node.kind = "contact" -> node.id \in on
      [] node.op = "AND" -> \A c \in Range(node.children) : Holds(c, on)
      [] OTHER -> \E c \in Range(node.children) : Holds(c, on)

-----------------------------------------------------------------------------
(* Editing a tree. *)

(* A group whose children have been normalized: empty groups go, groups    *)
(* with the same operator are merged, a single child takes its place.      *)
Collapse(node, children) ==
    LET kept == SelectSeq(children, LAMBDA c : c # Null)
        flat == FlattenSeq([i \in DOMAIN kept |->
                    IF kept[i].kind = "group" /\ kept[i].op = node.op
                    THEN kept[i].children ELSE <<kept[i]>>])
    IN  CASE Len(flat) = 0 -> Null
          [] Len(flat) = 1 -> flat[1]
          [] OTHER -> [node EXCEPT !.children = flat]

RECURSIVE normalize(_)
normalize(node) ==
    IF node.kind # "group" THEN node
    ELSE Collapse(node, [i \in DOMAIN node.children |-> normalize(node.children[i])])

(* mapNode with a function that changes only the node called id.           *)
RECURSIVE mapNode(_, _, _)
mapNode(node, id, by) ==
    CASE node.id = id -> by
      [] node.kind = "contact" -> node
      [] OTHER -> [node EXCEPT !.children =
                      [i \in DOMAIN node.children |-> mapNode(node.children[i], id, by)]]

parentOf(root, id) ==
    CHOOSE g \in GroupsOf(root) : \E c \in Range(g.children) : c.id = id

(* The parent of the target joins added to it, or wraps both in a group.   *)
BesideIn(parent, id, added, op, fresh) ==
    LET at == CHOOSE i \in DOMAIN parent.children : parent.children[i].id = id
    IN  IF parent.op = op
        THEN [parent EXCEPT !.children = InsertAt(@, at + 1, added)]
        ELSE [parent EXCEPT !.children[at] = Group(fresh, op, <<@, added>>)]

insertBeside(root, id, added, op, fresh) ==
    CASE root = Null -> added
      [] root.id = id -> normalize(Group(fresh, op, <<root, added>>))
      [] OTHER -> LET parent == parentOf(root, id)
                  IN normalize(mapNode(root, parent.id, BesideIn(parent, id, added, op, fresh)))

RECURSIVE prune(_, _)
prune(node, id) ==
    CASE node.id = id -> Null
      [] node.kind = "contact" -> node
      [] OTHER -> [node EXCEPT !.children =
                      SelectSeq([i \in DOMAIN node.children |-> prune(node.children[i], id)],
                                LAMBDA c : c # Null)]

removeNode(root, id) == IF root = Null THEN Null ELSE normalize(prune(root, id))

setGroupOp(root, id, op) ==
    normalize(mapNode(root, id, [findNode(root, id) EXCEPT !.op = op]))

-----------------------------------------------------------------------------
(* Drawing a tree: place() walks it and returns the size of the block and  *)
(* adds its contacts (one cell each) and wires to the drawing.             *)

Larger(a, b) == IF a > b THEN a ELSE b

(* Mutant of ParallelWires: the short branches are not wired to the bus.   *)
ParallelWiresShort(x, y, w, branches) ==
    LET lastRow == branches[Len(branches)].row
    IN  {[x1 |-> x, y1 |-> y, x2 |-> x, y2 |-> lastRow],
         [x1 |-> x + w, y1 |-> y, x2 |-> x + w, y2 |-> lastRow]}

(* The horizontal fillers of the short branches and the two buses of a     *)
(* parallel block of width w; each branch is its row and its own width.    *)
ParallelWires(x, y, w, branches) ==
    LET lastRow == branches[Len(branches)].row
        short == {b \in Range(branches) : b.width < w}
    IN  {[x1 |-> x + b.width, y1 |-> b.row, x2 |-> x + w, y2 |-> b.row] : b \in short}
          \cup {[x1 |-> x, y1 |-> y, x2 |-> x, y2 |-> lastRow],
                [x1 |-> x + w, y1 |-> y, x2 |-> x + w, y2 |-> lastRow]}

RECURSIVE place(_, _, _)
place(node, x, y) ==
    CASE node.kind = "contact" ->
           [w |-> 1, h |-> 1, cells |-> {[id |-> node.id, x |-> x, y |-> y]}, wires |-> {}]
      [] node.op = "AND" ->
           FoldLeft(LAMBDA acc, child :
                       LET p == place(child, x + acc.w, y)
                       IN  [w |-> acc.w + p.w, h |-> Larger(acc.h, p.h),
                            cells |-> acc.cells \cup p.cells, wires |-> acc.wires \cup p.wires],
                    [w |-> 0, h |-> 0, cells |-> {}, wires |-> {}],
                    node.children)
      [] OTHER ->
           LET all == FoldLeft(LAMBDA acc, child :
                          LET p == place(child, x, y + acc.h)
                          IN  [w |-> Larger(acc.w, p.w), h |-> acc.h + p.h,
                               cells |-> acc.cells \cup p.cells, wires |-> acc.wires \cup p.wires,
                               branches |-> Append(acc.branches, [row |-> y + acc.h, width |-> p.w])],
                       [w |-> 0, h |-> 0, cells |-> {}, wires |-> {}, branches |-> <<>>],
                       node.children)
           IN  [w |-> all.w, h |-> all.h, cells |-> all.cells,
                wires |-> all.wires \cup ParallelWires(x, y, all.w, all.branches)]

(* The whole rung: an empty condition is drawn as one wire.                *)
layoutCondition(node) ==
    IF node = Null
    THEN [w |-> 1, h |-> 1, cells |-> {}, wires |-> {[x1 |-> 0, y1 |-> 0, x2 |-> 1, y2 |-> 0]}]
    ELSE place(node, 0, 0)

(* Current passes a wire at every grid point it touches, a contact only    *)
(* when it is true.                                                        *)
WirePoints(wire) == (wire.x1 .. wire.x2) \X (wire.y1 .. wire.y2)

RECURSIVE Powered(_, _)
Powered(points, conductors) ==
    LET more == points \cup UNION {c \in conductors : c \cap points # {}}
    IN  IF more = points THEN points ELSE Powered(more, conductors)

Conducts(drawing, on) ==
    LET closed == {{<<c.x, c.y>>, <<c.x + 1, c.y>>} : c \in {d \in drawing.cells : d.id \in on}}
        wires == {WirePoints(w) : w \in drawing.wires}
    IN  <<drawing.w, 0>> \in Powered({<<0, 0>>}, closed \cup wires)

-----------------------------------------------------------------------------
(* The buttons. *)

(* A rule opened from the API is shown as it is stored: a group of a group *)
(* with the same operator is not normalized until it is edited.            *)
OpenedTrees == {
    Null,
    Contact(1),
    Group(4, "AND", <<Contact(1), Group(5, "AND", <<Contact(2), Contact(3)>>)>>),
    Group(4, "OR", <<Group(5, "AND", <<Contact(1), Contact(2)>>), Contact(3)>>)}

TreeInit ==
    /\ condition \in OpenedTrees
    /\ nextId = 6
    /\ edits = 0

Edit(tree, ids) ==
    /\ edits < MaxEdits
    /\ condition' = tree
    /\ nextId' = nextId + ids
    /\ edits' = edits + 1

HasRoom(n) == Len(contacts(condition)) + n <= MaxContacts

(* Form: "Add condition" on an empty rule; Ladder: the "+" does the same.  *)
AddFirst ==
    /\ condition = Null
    /\ Edit(Contact(nextId), 1)

(* Form: "And/Or condition" beside a lone contact; Ladder: "Add in series" *)
(* and "Add in parallel" beside the selected contact or block, and the "+" *)
(* at the end of the rung (in series with the root).                       *)
AddBeside(id, op) ==
    /\ id \in IdsOf(condition)
    /\ HasRoom(1)
    /\ Edit(insertBeside(condition, id, Contact(nextId), op, nextId + 1), 2)

(* Form: "Condition" at the foot of a group, after its last child.         *)
AddToGroup(g) ==
    /\ HasRoom(1)
    /\ LET last == g.children[Len(g.children)]
       IN  Edit(insertBeside(condition, last.id, Contact(nextId), g.op, nextId + 1), 2)

Other(op) == IF op = "AND" THEN "OR" ELSE "AND"

(* Form: "Any-of group" or "All-of group": two new contacts under the      *)
(* other operator.                                                         *)
AddGroup(g) ==
    /\ HasRoom(2)
    /\ LET last == g.children[Len(g.children)]
           sub == Group(nextId, Other(g.op), <<Contact(nextId + 1), Contact(nextId + 2)>>)
       IN  Edit(insertBeside(condition, last.id, sub, g.op, nextId + 3), 4)

(* "All | Any", "Series | Parallel".                                       *)
SetOp(g, op) ==
    /\ op # g.op
    /\ Edit(setGroupOp(condition, g.id, op), 0)

(* "Remove condition", "Remove group": only a group below the root can go. *)
RemoveElement(id) ==
    /\ id \in IdsOf(condition)
    /\ condition.kind = "group" => id # condition.id
    /\ Edit(removeNode(condition, id), 0)

TreeNext ==
    \/ AddFirst
    \/ \E id \in IdsOf(condition), op \in Ops : AddBeside(id, op)
    \/ \E g \in GroupsOf(condition) : AddToGroup(g) \/ AddGroup(g) \/ \E op \in Ops : SetOp(g, op)
    \/ \E id \in IdsOf(condition) : RemoveElement(id)

-----------------------------------------------------------------------------
(* Properties. *)

(* Every group of an edited tree has at least two children, none of them a *)
(* group of the same operator (what the API accepts: at least two          *)
(* predicates), and no id is used twice.                                   *)
TreeIsNormal ==
    edits > 0 =>
        /\ \A g \in GroupsOf(condition) :
              /\ Len(g.children) >= 2
              /\ \A c \in Range(g.children) : c.kind = "group" => c.op # g.op
        /\ Cardinality(IdsOf(condition)) = Cardinality(NodesOf(condition))
        /\ Cardinality(ContactIds(condition)) = Len(contacts(condition))

(* "which keeps the drawing electrically identical to the AND/OR tree"     *)
(* (ladder-layout.ts): whatever contacts are true, current passes the rung *)
(* exactly when the condition holds.                                       *)
LadderIsTheTree ==
    LET drawing == layoutCondition(condition)
    IN  \A on \in SUBSET ContactIds(condition) : Conducts(drawing, on) <=> Holds(condition, on)

(* The tree with the value of the node called id given as b: what a        *)
(* beside-insertion has to mean, said without building a tree.             *)
RECURSIVE HoldsWith(_, _, _, _)
HoldsWith(node, on, id, b) ==
    CASE node.kind = "null" -> TRUE
      [] node.id = id -> b
      [] node.kind = "contact" -> node.id \in on
      [] node.op = "AND" -> \A c \in Range(node.children) : HoldsWith(c, on, id, b)
      [] OTHER -> \E c \in Range(node.children) : HoldsWith(c, on, id, b)

(* "AND = in series (after it), OR = in parallel (below it)": the new      *)
(* contact combines with the element it was put beside and with nothing    *)
(* else, wherever that element sits in the tree.                           *)
BesideStep ==
    \A id \in IdsOf(condition), op \in Ops :
        AddBeside(id, op) =>
            \A on \in SUBSET ContactIds(condition') :
                LET target == Holds(findNode(condition, id), on)
                    new == nextId \in on
                IN  Holds(condition', on) <=>
                      HoldsWith(condition, on, id, IF op = "AND" THEN target /\ new ELSE target \/ new)
BesideMeansBeside == [][BesideStep]_treeVars

(* An edit never loses or invents a contact: what is added is added,       *)
(* removing removes what was under the node removed, and "changing the     *)
(* type keeps every contact" (LadderMode.tsx).                             *)
KeepStep ==
    /\ \A id \in IdsOf(condition) :
          RemoveElement(id) => contacts(condition') =
                            SelectSeq(contacts(condition),
                                      LAMBDA c : c \notin ContactIds(findNode(condition, id)))
    /\ \A g \in GroupsOf(condition), op \in Ops :
          SetOp(g, op) => contacts(condition') = contacts(condition)
    /\ \A g \in GroupsOf(condition) :
          AddToGroup(g) => ContactIds(condition') = ContactIds(condition) \cup {nextId}
EditsKeepContacts == [][KeepStep]_treeVars
=============================================================================
