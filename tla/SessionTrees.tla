---------------------------- MODULE SessionTrees ----------------------------
(***************************************************************************)
(* The trees of a session beside the recursive functions of the program:   *)
(* on every tree of up to three leaves, and on every larger one that a tab *)
(* comes to have, an edit of PaneTree gives the tree that the descent of   *)
(* SplitTree gives, and the descents do what their callers rely on.        *)
(***************************************************************************)
EXTENDS Session

Code == INSTANCE SplitTree

(* The tree as the program nests it.                                       *)
RECURSIVE NestedAt(_, _)
NestedAt(t, q) ==
    IF t[q].kind = "leaf" THEN Code!Leaf(t[q].pane)
    ELSE Code!Split(t[q].direction, t[q].ratio,
                    NestedAt(t, Append(q, "first")), NestedAt(t, Append(q, "second")))
Nested(t) == NestedAt(t, << >>)

(* The panes of the tree, and one that is not in it.                       *)
Candidates(t) == PaneSet(t) \cup {MaxPanes + 2}

SameEdits(t) ==
    LET n == Nested(t)
    IN  /\ DOMAIN t = Code!Paths(n)
        /\ PaneSet(t) = Code!PaneSet(n) /\ FirstPane(t) = Code!FirstPane(n)
        /\ \A p \in Candidates(t) :
             /\ \A d \in Directions : Nested(SplitAt(t, p, d, MaxPanes + 1))
                                        = Code!SplitAt(n, p, d, MaxPanes + 1)
             /\ t # Leaf(p) => Nested(RemoveLeaf(t, p)) = Code!RemoveLeaf(n, p)

SameResizes(t) ==
    LET n == Nested(t)
    IN  /\ Nested(Equalize(t)) = Code!Equalize(n)
        /\ \A p \in Candidates(t) :
             /\ \A axis \in Directions, inFirst \in BOOLEAN :
                  LET delta == IF inFirst THEN 1 ELSE -1
                      u     == TryResizeToward(t, p, axis, inFirst, delta)
                  IN  <<Nested(u[1]), u[2]>>
                        = Code!TryResizeToward(n, p, axis, inFirst, delta)
             /\ \A a \in Candidates(t), r \in RatioMin..RatioMax :
                  Nested(SetDividerRatio(t, p, a, r)) = Code!SetDividerRatio(n, p, a, r)

(* The trees in which no pane stands twice.                                *)
NoneTwice(t) == Cardinality(Leaves(t)) = Cardinality(PaneSet(t))

EditsKeepOrder(t) ==
    /\ SameEdits(t)
    /\ NoneTwice(t) => /\ Code!SplitThenRemove(Nested(t), MaxPanes + 1)
                       /\ Code!RemoveKeepsOrder(Nested(t))

ResizesMoveBorder(t) ==
    /\ SameResizes(t)
    /\ NoneTwice(t) => /\ Code!ResizeMovesNearest(Nested(t))
                       /\ Code!DividerMovesParting(Nested(t))

-----------------------------------------------------------------------------
(* All trees of up to three leaves.  With three panes a tab has a larger   *)
(* one only if undo has put a pane into it twice.                          *)

Under(s, t) == {<<s>> \o q : q \in DOMAIN t}

Join(node, a, b) ==
    [q \in {<< >>} \cup Under("first", a) \cup Under("second", b) |->
        CASE q = << >>  -> node
          [] q # << >> /\ q[1] = "first"  -> a[Tail(q)]
          [] q # << >> /\ q[1] = "second" -> b[Tail(q)]]

Joins(A, B) == {Join(SplitNode(d, r), a, b) :
                  d \in Directions, r \in RatioMin..RatioMax, a \in A, b \in B}

OneLeaf    == {Leaf(p) : p \in 1..MaxPanes}
TwoLeaves  == Joins(OneLeaf, OneLeaf)
SmallTrees == OneLeaf \cup TwoLeaves \cup Joins(OneLeaf, TwoLeaves) \cup Joins(TwoLeaves, OneLeaf)

SmallKeepOrder  == \A t \in SmallTrees : EditsKeepOrder(t)
SmallMoveBorder == \A t \in SmallTrees : ResizesMoveBorder(t)

-----------------------------------------------------------------------------
(* Properties *)

LargeTrees == {session.tabs[k].tree : k \in DOMAIN session.tabs} \ SmallTrees

(* Split and close are inverse and keep the order of the other panes; and  *)
(* PaneTree makes them as the program's recursion does, also when a pane   *)
(* stands in a tree twice, as undo can bring about.                        *)
TreeEditsKeepOrder == SmallKeepOrder /\ \A t \in LargeTrees : EditsKeepOrder(t)

(* Resizing by key or by divider moves exactly the border it is meant to,  *)
(* and PaneTree resizes as the program's recursion does.                   *)
ResizeMovesBorder == SmallMoveBorder /\ \A t \in LargeTrees : ResizesMoveBorder(t)
=============================================================================
