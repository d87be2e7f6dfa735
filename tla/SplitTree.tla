----------------------------- MODULE SplitTree -----------------------------
(***************************************************************************)
(* The split tree of a tab (oriterm/src/session/split_tree): a binary tree *)
(* whose leaves are panes and whose inner nodes divide their area at a     *)
(* ratio.  Every edit returns a new tree.                                  *)
(*                                                                         *)
(* A ratio is counted in steps of the keyboard resize (0.05), so the       *)
(* program's bounds 0.1, 0.5 and 0.9 are 2, 10 and 18.  The sizes a ratio  *)
(* gives in pixels are left out.                                           *)
(***************************************************************************)
EXTENDS Integers, Sequences, SequencesExt

(* As in PaneTree, which has the assumption on them.                       *)
CONSTANTS RatioMin, RatioMid, RatioMax

Directions == {"vertical", "horizontal"}

ClampRatio(r) == IF r < RatioMin THEN RatioMin
                 ELSE IF r > RatioMax THEN RatioMax ELSE r

Leaf(p) == [kind |-> "leaf", pane |-> p]
Split(d, r, a, b) ==
    [kind |-> "split", direction |-> d, ratio |-> r, first |-> a, second |-> b]
IsLeaf(t) == t.kind = "leaf"

(* The panes in depth-first order.                                         *)
RECURSIVE PanesOf(_)
PanesOf(t) == IF IsLeaf(t) THEN <<t.pane>>
              ELSE PanesOf(t.first) \o PanesOf(t.second)

PaneSet(t)     == Range(PanesOf(t))
HasPane(t, p) == p \in PaneSet(t)
FirstPane(t)   == Head(PanesOf(t))

-----------------------------------------------------------------------------
(* Edits *)

(* The pane p becomes the first half of a split whose second half is new.  *)
(* The tree is returned unchanged when it does not hold p.                 *)
RECURSIVE SplitAtSwapped(_, _, _, _)
SplitAtSwapped(t, p, d, new) ==
    CASE IsLeaf(t) /\ t.pane = p -> Split(d, RatioMid, Leaf(new), Leaf(p))
      [] IsLeaf(t) /\ t.pane # p -> t
      [] ~IsLeaf(t) /\ HasPane(t.first, p) ->
            [t EXCEPT !.first = SplitAtSwapped(@, p, d, new)]
      [] OTHER -> [t EXCEPT !.second = SplitAtSwapped(@, p, d, new)]

RECURSIVE SplitAt(_, _, _, _)
SplitAt(t, p, d, new) ==
    CASE IsLeaf(t) /\ t.pane = p -> Split(d, RatioMid, Leaf(p), Leaf(new))
      [] IsLeaf(t) /\ t.pane # p -> t
      [] ~IsLeaf(t) /\ HasPane(t.first, p) ->
            [t EXCEPT !.first = SplitAt(@, p, d, new)]
      [] ~IsLeaf(t) /\ ~HasPane(t.first, p) ->
            [t EXCEPT !.second = SplitAt(@, p, d, new)]

(* A leaf is taken out and its sibling takes the place of the parent.  Only *)
(* trees that are not the leaf p itself come here: for those the program   *)
(* returns None.                                                           *)
RECURSIVE RemoveLeaf(_, _)
RemoveLeaf(t, p) ==
    CASE IsLeaf(t)                                  -> t
      [] ~IsLeaf(t) /\ t.first = Leaf(p)            -> t.second
      [] ~IsLeaf(t) /\ t.first # Leaf(p) /\ t.second = Leaf(p) -> t.first
      [] ~IsLeaf(t) /\ t.first # Leaf(p) /\ t.second # Leaf(p) ->
            IF HasPane(t.first, p) THEN [t EXCEPT !.first = RemoveLeaf(@, p)]
            ELSE [t EXCEPT !.second = RemoveLeaf(@, p)]

(* The deepest split along axis with p on the given side moves by delta.   *)
(* <<tree, changed>>.                                                      *)
RECURSIVE TryResizeOutermost(_, _, _, _, _)
TryResizeOutermost(t, p, axis, inFirst, delta) ==
    IF ~HasPane(t, p) \/ IsLeaf(t) THEN <<t, FALSE>>
    ELSE IF t.direction = axis /\ inFirst = HasPane(t.first, p)
         THEN <<[t EXCEPT !.ratio = ClampRatio(@ + delta)], TRUE>>
    ELSE LET side  == IF HasPane(t.first, p) THEN "first" ELSE "second"
             inner == TryResizeOutermost(t[side], p, axis, inFirst, delta)
         IN  <<[t EXCEPT ![side] = inner[1]], inner[2]>>

RECURSIVE TryResizeToward(_, _, _, _, _)
TryResizeToward(t, p, axis, inFirst, delta) ==
    IF IsLeaf(t) \/ ~HasPane(t, p) THEN <<t, FALSE>>
    ELSE LET side  == IF HasPane(t.first, p) THEN "first" ELSE "second"
             inner == TryResizeToward(t[side], p, axis, inFirst, delta)
         IN  IF inner[2] THEN <<[t EXCEPT ![side] = inner[1]], TRUE>>
             ELSE IF t.direction = axis /\ inFirst = (side = "first")
                  THEN <<[t EXCEPT !.ratio = ClampRatio(@ + delta)], TRUE>>
                  ELSE <<t, FALSE>>

(* The divider between two panes: the split with one of them on each side. *)
RECURSIVE SetDividerRatio(_, _, _, _)
SetDividerRatio(t, before, after, r) ==
    IF IsLeaf(t) THEN t
    ELSE CASE HasPane(t.first, before) /\ HasPane(t.second, after) ->
                [t EXCEPT !.ratio = ClampRatio(r)]
           [] HasPane(t.first, before) /\ HasPane(t.first, after)
              /\ ~HasPane(t.second, after) ->
                [t EXCEPT !.first = SetDividerRatio(@, before, after, r)]
           [] ~HasPane(t.first, before) /\ HasPane(t.second, before)
              /\ HasPane(t.second, after) ->
                [t EXCEPT !.second = SetDividerRatio(@, before, after, r)]
           [] OTHER -> t

RECURSIVE Equalize(_)
Equalize(t) == IF IsLeaf(t) THEN t
               ELSE Split(t.direction, RatioMid, Equalize(t.first),
                          Equalize(t.second))

-----------------------------------------------------------------------------
(* Reference definitions.  A node is named by its path from the root, a    *)
(* sequence of sides.                                                      *)
RECURSIVE Paths(_)
Paths(t) ==
    IF IsLeaf(t) THEN {<< >>}
    ELSE {<< >>} \cup {<<"first">> \o q : q \in Paths(t.first)}
                 \cup {<<"second">> \o q : q \in Paths(t.second)}

RECURSIVE At(_, _)
At(t, q) == IF q = << >> THEN t ELSE At(t[Head(q)], Tail(q))

Splits(t) == {q \in Paths(t) : ~IsLeaf(At(t, q))}
PathTo(t, p) == CHOOSE q \in Paths(t) : At(t, q) = Leaf(p)

(* The splits a resize of p along axis may move.                           *)
Borders(t, p, axis, side) ==
    {q \in Splits(t) : /\ IsStrictPrefix(q, PathTo(t, p))
                       /\ At(t, q).direction = axis
                       /\ PathTo(t, p)[Len(q) + 1] = side}

(* Two trees that differ at most in the ratio of the split q, which is r   *)
(* in the second.                                                          *)
OnlyRatioDiffers(t, u, q, r) ==
    /\ Paths(t) = Paths(u)
    /\ \A k \in Paths(t) :
         IF IsLeaf(At(t, k)) THEN At(u, k) = At(t, k)
         ELSE /\ At(u, k).direction = At(t, k).direction
              /\ At(u, k).ratio = IF k = q THEN r ELSE At(t, k).ratio

(* Splitting puts the new pane right after the split one, and taking it    *)
(* out again gives back the tree that was split: no other pane, divider or *)
(* ratio is disturbed (split_at, remove).                                  *)
SplitThenRemove(t, new) ==
    \A p \in PaneSet(t), d \in Directions :
        LET u == SplitAt(t, p, d, new)
            i == CHOOSE i \in 1..Len(PanesOf(t)) : PanesOf(t)[i] = p
        IN  /\ PanesOf(u) = InsertAt(PanesOf(t), i + 1, new)
            /\ RemoveLeaf(u, new) = t

(* Taking a pane out keeps the order of the others (remove).               *)
RemoveKeepsOrder(t) ==
    \A p \in PaneSet(t) :
        t # Leaf(p) =>
            PanesOf(RemoveLeaf(t, p)) = SelectSeq(PanesOf(t), LAMBDA x : x # p)

(* A keyboard resize moves the innermost border on that side of the pane   *)
(* and nothing else, and reports no change exactly when there is none      *)
(* (try_resize_toward).                                                    *)
ResizeMovesNearest(t) ==
    \A p \in PaneSet(t), axis \in Directions, side \in {"first", "second"},
       delta \in {-1, 1} :
        LET u == TryResizeToward(t, p, axis, side = "first", delta)
            B == Borders(t, p, axis, side)
        IN  IF B = {} THEN u = <<t, FALSE>>
            ELSE \E q \in B :
                    /\ \A k \in B : Len(k) <= Len(q)
                    /\ u[2]
                    /\ OnlyRatioDiffers(t, u[1], q,
                                        ClampRatio(At(t, q).ratio + delta))

(* Dragging the divider between two panes moves the split where their      *)
(* paths part, and nothing else (set_divider_ratio).                       *)
DividerMovesParting(t) ==
    \A i, j \in 1..Len(PanesOf(t)), r \in RatioMin..RatioMax :
        i < j =>
            LET a == PanesOf(t)[i]
                b == PanesOf(t)[j]
                q == LongestCommonPrefix({PathTo(t, a), PathTo(t, b)})
            IN  OnlyRatioDiffers(t, SetDividerRatio(t, a, b, r), q, r)
=============================================================================
