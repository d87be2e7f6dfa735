------------------------------ MODULE PaneTree ------------------------------
(***************************************************************************)
(* The split tree of a tab (oriterm/src/session/split_tree) as a function  *)
(* from the places of its nodes: a place is the path from the root, a      *)
(* sequence of sides; a node is a pane or the split of an area at a ratio. *)
(* An edit that the program makes by descending from the root is made here *)
(* at the place where the descent ends.  SplitTree has the descents        *)
(* themselves; SessionTrees compares the two.                              *)
(*                                                                         *)
(* A ratio is counted in steps of the keyboard resize (0.05), so the       *)
(* program's bounds 0.1, 0.5 and 0.9 are 2, 10 and 18.  The sizes a ratio  *)
(* gives in pixels are left out.                                           *)
(***************************************************************************)
EXTENDS Integers, Sequences, FiniteSets, SequencesExt

CONSTANTS RatioMin, RatioMid, RatioMax

ASSUME RatioAssumption ==
    /\ {RatioMin, RatioMid, RatioMax} \subseteq Nat
    /\ RatioMin <= RatioMid /\ RatioMid <= RatioMax

Directions == {"vertical", "horizontal"}
Sides      == {"first", "second"}

ClampRatio(r) == IF r < RatioMin THEN RatioMin
                 ELSE IF r > RatioMax THEN RatioMax ELSE r

LeafNode(p)     == [kind |-> "leaf", pane |-> p]
SplitNode(d, r) == [kind |-> "split", direction |-> d, ratio |-> r]

(* The tree that is one pane.                                              *)
Leaf(p) == [q \in {<< >>} |-> LeafNode(p)]

Leaves(t)     == {q \in DOMAIN t : t[q].kind = "leaf"}
Splits(t)     == {q \in DOMAIN t : t[q].kind = "split"}
PaneSet(t)    == {t[q].pane : q \in Leaves(t)}
HasPane(t, p) == p \in PaneSet(t)
FirstPane(t)  == t[CHOOSE q \in Leaves(t) : Range(q) \subseteq {"first"}].pane

(* The node at q, where there is one, is a leaf with p.                    *)
IsLeafOf(t, q, p) == q \in DOMAIN t /\ t[q] = LeafNode(p)

(* The subtree at q contains p.                                            *)
InSubtree(t, q, p) == \E k \in DOMAIN t : t[k] = LeafNode(p) /\ IsPrefix(q, k)

(* The nodes a descent to p visits: it goes to the first child if that     *)
(* contains p, and to the second if only that does.                        *)
Way(t, p) ==
    {q \in DOMAIN t :
        /\ InSubtree(t, q, p)
        /\ \A i \in 1..Len(q) :
              q[i] = "second" => ~InSubtree(t, Append(SubSeq(q, 1, i - 1), "first"), p)}

-----------------------------------------------------------------------------
(* Edits *)

(* The pane p at q becomes the first half of a split whose second half is  *)
(* new.                                                                    *)
Grow(t, q, p, d, new) ==
    LET a == Append(q, "first")
        b == Append(q, "second")
    IN  [k \in DOMAIN t \cup {a, b} |-> CASE k = q -> SplitNode(d, RatioMid)
                                         [] k = a -> LeafNode(p)
                                         [] k = b -> LeafNode(new)
                                         [] OTHER -> t[k]]

(* The tree is returned unchanged when it does not hold p.                 *)
SplitAt(t, p, d, new) ==
    LET found == Way(t, p) \cap Leaves(t)
    IN  IF found = {} THEN t
        ELSE Grow(t, CHOOSE q \in found : TRUE, p, d, new)

(* The child on the side keep takes the place of its parent q.             *)
Collapse(t, q, keep) ==
    LET n    == Len(q) + 1
        kept == {k \in DOMAIN t : IsPrefix(Append(q, keep), k)}
    IN  [k \in {k \in DOMAIN t : ~IsPrefix(q, k)} \cup {RemoveAt(k, n) : k \in kept} |->
            IF IsPrefix(q, k) THEN t[InsertAt(k, n, keep)] ELSE t[k]]

(* A leaf is taken out and its sibling takes the place of the parent: the  *)
(* first parent of a leaf p on the way to p.  Only trees that are not the  *)
(* leaf p itself come here: for those the program returns None.            *)
RemoveLeaf(t, p) ==
    LET HasLeaf(q) == \E s \in Sides : IsLeafOf(t, Append(q, s), p)
        parents    == {q \in Way(t, p) :
                         HasLeaf(q) /\ \A k \in Way(t, p) :
                                          HasLeaf(k) /\ IsPrefix(k, q) => k = q}
        q          == CHOOSE q \in parents : TRUE
    IN  IF parents = {} THEN t
        ELSE Collapse(t, q, IF IsLeafOf(t, Append(q, "first"), p) THEN "second"
                            ELSE "first")

WithRatio(t, q, r) == [t EXCEPT ![q].ratio = ClampRatio(r)]

(* The deepest split along axis with p on the given side moves by delta.   *)
(* <<tree, changed>>.                                                      *)
TryResizeToward(t, p, axis, inFirst, delta) ==
    LET borders == {q \in Way(t, p) \cap Splits(t) :
                      /\ t[q].direction = axis
                      /\ inFirst = InSubtree(t, Append(q, "first"), p)}
        q       == CHOOSE q \in borders : \A k \in borders : Len(k) <= Len(q)
    IN  IF borders = {} THEN <<t, FALSE>>
        ELSE <<WithRatio(t, q, t[q].ratio + delta), TRUE>>

(* The divider between two panes: the split with one of them on each side. *)
(* The descent goes on only into a child that contains both.               *)
SetDividerRatio(t, before, after, r) ==
    LET Parts(q)   == /\ InSubtree(t, Append(q, "first"), before)
                      /\ InSubtree(t, Append(q, "second"), after)
        Both(q)    == InSubtree(t, q, before) /\ InSubtree(t, q, after)
        Passes(q)  == \A i \in 1..Len(q) :
                        LET up == SubSeq(q, 1, i - 1)
                        IN  /\ ~Parts(up)
                            /\ Both(Append(up, q[i]))
                            /\ q[i] = "second" => ~Both(Append(up, "first"))
        dividers   == {q \in Splits(t) : Parts(q) /\ Passes(q)}
    IN  IF dividers = {} THEN t
        ELSE WithRatio(t, CHOOSE q \in dividers : TRUE, r)

Equalize(t) ==
    [q \in DOMAIN t |-> IF q \in Leaves(t) THEN t[q]
                        ELSE SplitNode(t[q].direction, RatioMid)]
=============================================================================
