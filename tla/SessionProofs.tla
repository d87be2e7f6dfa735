---------------------------- MODULE SessionProofs ----------------------------
(***************************************************************************)
(* Theorems about Session, for any number of panes, tabs and windows: the  *)
(* trees of panes stay trees, no pane is in two tabs, the registry of tabs *)
(* agrees with the mux, and the session implements TabWindows, whose own   *)
(* theorems then hold of it.                                               *)
(*                                                                         *)
(* The proof goes from the trees (an edit gives a tree, with these panes)  *)
(* to the tab (an edit lets it know of no pane it did not know of), to the *)
(* registry and the mux (closing and pumping, pane by pane), and then      *)
(* takes each operation as a step of TabWindows.                           *)
(***************************************************************************)
EXTENDS Session, TLAPS, WellFoundedInduction, NaturalsInduction, FiniteSetTheorems

RP == INSTANCE TabWindowsProofs WITH
    tabs <- DOMAIN session.tabs, windows <- session.windows,
    nextTab <- next.tab, nextWindow <- next.window

(* The assumption under which the facts of TabWindowsProofs hold.          *)
LEMMA SameAssumption ==
    /\ {MaxTabs, MaxWindows} \subseteq Nat \ {0}
    /\ NoDrag \notin RP!Drags
  BY WindowsAssumption DEF RP!Drags, RP!TabIds, RP!WindowIds, Drags, TabIds, WindowIds

(* RemoveAt moves what follows p one position forward.                     *)
LEMMA RemoveAtSeq ==
    ASSUME NEW S, NEW s \in Seq(S), NEW p \in 1..Len(s)
    PROVE  /\ RemoveAt(s, p) \in Seq(S)
           /\ Len(RemoveAt(s, p)) = Len(s) - 1
           /\ \A i \in 1..(Len(s) - 1) :
                RemoveAt(s, p)[i] = IF i < p THEN s[i] ELSE s[i + 1]
<1>1. /\ RP!RemoveAt(s, p) \in Seq(S)
      /\ Len(RP!RemoveAt(s, p)) = Len(s) - 1
      /\ \A i \in 1..(Len(s) - 1) :
           RP!RemoveAt(s, p)[i] = IF i < p THEN s[i] ELSE s[i + 1]
  BY SameAssumption, RP!RemoveAtSeq
<1>2. RP!RemoveAt(s, p) = RemoveAt(s, p)
  BY DEF RP!RemoveAt, RemoveAt
<1> QED
  BY <1>1, <1>2

(* What is where in u, once e is inserted in s at p.                       *)
IsInserted(u, S, s, p, e) ==
    /\ u \in Seq(S) /\ Len(u) = Len(s) + 1 /\ u[p] = e
    /\ \A i \in 1..(Len(s) + 1) : i < p => u[i] = s[i]
    /\ \A i \in 1..(Len(s) + 1) : i > p => u[i] = s[i - 1]

(* InsertAt moves what was at p and after it one position back.            *)
LEMMA InsertAtSeq ==
    ASSUME NEW S, NEW s \in Seq(S), NEW p \in 1..(Len(s) + 1), NEW e \in S
    PROVE  IsInserted(InsertAt(s, p, e), S, s, p, e)
<1>1. /\ RP!InsertAt(s, p, e) \in Seq(S)
      /\ Len(RP!InsertAt(s, p, e)) = Len(s) + 1
      /\ \A i \in 1..(Len(s) + 1) :
           RP!InsertAt(s, p, e)[i] = RP!InsertedAt(s, p, e, i)
  BY SameAssumption, RP!InsertAtSeq, Zenon
<1>2. RP!InsertAt(s, p, e) = InsertAt(s, p, e)
  BY DEF RP!InsertAt, InsertAt
<1> DEFINE n == Len(s)
           u == InsertAt(s, p, e)
<1>3. n \in Nat /\ p \in 1..(n + 1)
  OBVIOUS
<1>4. /\ u \in Seq(S) /\ Len(u) = n + 1
      /\ \A i \in 1..(n + 1) : u[i] = RP!InsertedAt(s, p, e, i)
  BY <1>1, <1>2
<1> HIDE DEF n, u
<1>5. u[p] = e
  BY <1>3, <1>4 DEF RP!InsertedAt
<1>6. \A i \in 1..(n + 1) : i < p => u[i] = s[i]
  BY <1>3, <1>4 DEF RP!InsertedAt
<1>7. \A i \in 1..(n + 1) : i > p => u[i] = s[i - 1]
  BY <1>3, <1>4 DEF RP!InsertedAt
<1> QED
  BY <1>4, <1>5, <1>6, <1>7 DEF n, u, IsInserted

Path == Seq(Sides)

IsNode(n) == (\E p : n = LeafNode(p)) \/ (\E d, r : n = SplitNode(d, r))

(* The leaf reached from q by first children only.                         *)
LeftEnd(q, k) == IsPrefix(q, k) /\ \A i \in (Len(q) + 1)..Len(k) : k[i] = "first"

(* A binary tree: the root is a node, with a node its parent is one; a     *)
(* leaf has nothing below it and a split has both its children; from every *)
(* node first children lead to a leaf.                                     *)
IsTree(t) ==
    /\ t = [q \in DOMAIN t |-> t[q]]
    /\ DOMAIN t \subseteq Path
    /\ << >> \in DOMAIN t
    /\ \A q \in DOMAIN t : IsNode(t[q])
    /\ \A q \in Path, s \in Sides : Append(q, s) \in DOMAIN t => q \in DOMAIN t
    /\ \A k \in Leaves(t), j \in DOMAIN t : IsPrefix(k, j) => j = k
    /\ \A q \in DOMAIN t \ Leaves(t), s \in Sides : Append(q, s) \in DOMAIN t
    /\ \A q \in DOMAIN t : \E k \in Leaves(t) : LeftEnd(q, k)

(* A prefix, position by position.                                         *)
LEMMA PrefixPoints ==
    ASSUME NEW q \in Path, NEW k \in Path
    PROVE  IsPrefix(q, k) <=> Len(q) <= Len(k) /\ \A i \in 1..Len(q) : k[i] = q[i]
<1> DEFINE m == Len(q)
           n == Len(k)
<1>1. m \in Nat /\ n \in Nat
  BY DEF Path
<1>2. ASSUME m <= n
      PROVE  SubSeq(q, 1, m) = SubSeq(k, 1, m) <=> \A i \in 1..m : k[i] = q[i]
  <2>1. /\ SubSeq(q, 1, m) \in Seq(Sides) /\ Len(SubSeq(q, 1, m)) = m
        /\ \A i \in 1..m : SubSeq(q, 1, m)[i] = q[i]
    BY <1>1 DEF Path
  <2>2. /\ SubSeq(k, 1, m) \in Seq(Sides) /\ Len(SubSeq(k, 1, m)) = m
        /\ \A i \in 1..m : SubSeq(k, 1, m)[i] = k[i]
    BY <1>1, <1>2 DEF Path
  <2> HIDE DEF m, n
  <2> QED
    BY <2>1, <2>2
<1> QED
  BY <1>1, <1>2 DEF IsPrefix

(* Two paths of one length that agree everywhere are the same.             *)
LEMMA SamePath ==
    ASSUME NEW q \in Path, NEW k \in Path, Len(q) = Len(k),
           \A i \in 1..Len(q) : k[i] = q[i]
    PROVE  q = k
  BY DEF Path

(* A child.                                                                *)
LEMMA Child ==
    ASSUME NEW q \in Path, NEW s \in Sides
    PROVE  /\ Append(q, s) \in Path /\ Len(Append(q, s)) = Len(q) + 1
           /\ Append(q, s)[Len(q) + 1] = s
           /\ \A i \in 1..Len(q) : Append(q, s)[i] = q[i]
           /\ Append(q, s) # q
           /\ IsPrefix(q, Append(q, s)) /\ ~IsPrefix(Append(q, s), q)
<1>1. /\ Append(q, s) \in Path /\ Len(Append(q, s)) = Len(q) + 1
      /\ Append(q, s)[Len(q) + 1] = s
      /\ \A i \in 1..Len(q) : Append(q, s)[i] = q[i]
  BY DEF Path
<1>2. Len(q) \in Nat
  BY DEF Path
<1> DEFINE c == Append(q, s)
<1>3. IsPrefix(q, c) <=> Len(q) <= Len(c) /\ \A i \in 1..Len(q) : c[i] = q[i]
  BY <1>1, PrefixPoints, Zenon
<1>4. IsPrefix(c, q) <=> Len(c) <= Len(q) /\ \A i \in 1..Len(c) : q[i] = c[i]
  BY <1>1, PrefixPoints, Zenon
<1> QED
  BY <1>1, <1>2, <1>3, <1>4

(* What is above or below what.                                            *)
LEMMA PrefixOrder ==
    ASSUME NEW q \in Path, NEW k \in Path, NEW j \in Path
    PROVE  /\ IsPrefix(q, q) /\ IsPrefix(<< >>, q)
           /\ IsPrefix(q, k) /\ IsPrefix(k, j) => IsPrefix(q, j)
           /\ IsPrefix(q, k) /\ IsPrefix(k, q) => q = k
           /\ IsPrefix(q, j) /\ IsPrefix(k, j) => IsPrefix(q, k) \/ IsPrefix(k, q)
<1>1. Len(q) \in Nat /\ Len(k) \in Nat /\ Len(j) \in Nat /\ << >> \in Path /\ Len(<< >>) = 0
  BY DEF Path
<1>2. IsPrefix(q, q) /\ IsPrefix(<< >>, q)
  BY <1>1, PrefixPoints
<1>3. IsPrefix(q, k) /\ IsPrefix(k, j) => IsPrefix(q, j)
  BY <1>1, PrefixPoints
<1>4. IsPrefix(q, k) /\ IsPrefix(k, q) => q = k
  BY <1>1, PrefixPoints, SamePath
<1>5. IsPrefix(q, j) /\ IsPrefix(k, j) => IsPrefix(q, k) \/ IsPrefix(k, q)
  BY <1>1, PrefixPoints
<1> QED
  BY <1>2, <1>3, <1>4, <1>5

(* What lies strictly below a node lies below one of its children.         *)
LEMMA BelowChild ==
    ASSUME NEW q \in Path, NEW k \in Path, IsPrefix(q, k), k # q
    PROVE  \E s \in Sides : IsPrefix(Append(q, s), k)
<1>1. Len(q) \in Nat /\ Len(k) \in Nat
  BY DEF Path
<1>2. Len(q) < Len(k) /\ \A i \in 1..Len(q) : k[i] = q[i]
  BY <1>1, PrefixPoints, SamePath
<1>3. k[Len(q) + 1] \in Sides
  BY <1>1, <1>2 DEF Path
<1>4. IsPrefix(Append(q, k[Len(q) + 1]), k)
  <2> DEFINE c == Append(q, k[Len(q) + 1])
  <2>1. /\ c \in Path /\ Len(c) = Len(q) + 1 /\ c[Len(q) + 1] = k[Len(q) + 1]
        /\ \A i \in 1..Len(q) : c[i] = q[i]
    BY <1>3, Child, Zenon
  <2>2. IsPrefix(c, k) <=> Len(c) <= Len(k) /\ \A i \in 1..Len(c) : k[i] = c[i]
    BY <2>1, PrefixPoints, Zenon
  <2> QED
    BY <1>1, <1>2, <2>1, <2>2
<1> QED
  BY <1>3, <1>4

(* A path is not below both children of a node.                            *)
LEMMA OneChild ==
    ASSUME NEW q \in Path, NEW k \in Path, NEW s \in Sides, NEW r \in Sides,
           IsPrefix(Append(q, s), k), IsPrefix(Append(q, r), k)
    PROVE  s = r
<1>1. Len(q) \in Nat
  BY DEF Path
<1>2. ASSUME NEW u \in Sides, IsPrefix(Append(q, u), k)
      PROVE  k[Len(q) + 1] = u
  <2> DEFINE c == Append(q, u)
  <2>1. c \in Path /\ Len(c) = Len(q) + 1 /\ c[Len(q) + 1] = u
    BY Child, Zenon
  <2>2. \A i \in 1..Len(c) : k[i] = c[i]
    BY <1>2, <2>1, PrefixPoints, Zenon
  <2> QED
    BY <1>1, <2>1, <2>2
<1> QED
  BY <1>2

(* A path has one parent.                                                  *)
LEMMA OneParent ==
    ASSUME NEW q \in Path, NEW k \in Path, NEW s \in Sides, NEW r \in Sides,
           Append(q, s) = Append(k, r)
    PROVE  q = k
<1> DEFINE a == Append(q, s)
           b == Append(k, r)
<1>1. Len(a) = Len(q) + 1 /\ \A i \in 1..Len(q) : a[i] = q[i]
  BY Child, Zenon
<1>2. Len(b) = Len(k) + 1 /\ \A i \in 1..Len(k) : b[i] = k[i]
  BY Child, Zenon
<1>3. Len(q) \in Nat /\ Len(k) \in Nat /\ a = b
  BY DEF Path
<1> HIDE DEF a, b
<1>4. Len(q) = Len(k) /\ \A i \in 1..Len(q) : k[i] = q[i]
  BY <1>1, <1>2, <1>3
<1> QED
  BY <1>4, SamePath

-----------------------------------------------------------------------------
(* Trees *)

(* The kinds of nodes.                                                     *)
LEMMA NodeKinds ==
    ASSUME NEW p, NEW d, NEW r
    PROVE  /\ LeafNode(p).kind = "leaf" /\ LeafNode(p).pane = p
           /\ SplitNode(d, r).kind = "split"
           /\ \A n : IsNode(n) /\ n.kind = "leaf" => n = LeafNode(n.pane)
           /\ \A n : IsNode(n) /\ n.kind # "leaf" => \E e, f : n = SplitNode(e, f)
           /\ IsNode(LeafNode(p)) /\ IsNode(SplitNode(d, r))
<1>1. \A e : LeafNode(e).kind = "leaf" /\ LeafNode(e).pane = e
  BY DEF LeafNode
<1>2. \A e, f : SplitNode(e, f).kind = "split"
  BY DEF SplitNode
<1> QED
  BY <1>1, <1>2 DEF IsNode

(* A single pane.                                                          *)
LEMMA LeafIsTree ==
    ASSUME NEW p
    PROVE  IsTree(Leaf(p)) /\ PaneSet(Leaf(p)) = {p}
<1>1. DOMAIN Leaf(p) = {<< >>} /\ Leaf(p)[<< >>] = LeafNode(p)
  BY DEF Leaf
<1>2. << >> \in Path /\ Len(<< >>) = 0
  BY DEF Path
<1>3. Leaves(Leaf(p)) = {<< >>}
  BY <1>1, NodeKinds DEF Leaves
<1>4. LeftEnd(<< >>, << >>)
  BY <1>2, PrefixOrder DEF LeftEnd
<1>5. Leaf(p) = [q \in DOMAIN Leaf(p) |-> Leaf(p)[q]]
  BY DEF Leaf
<1>6. PaneSet(Leaf(p)) = {p}
  BY <1>1, <1>3, NodeKinds DEF PaneSet
<1>7. \A q \in DOMAIN Leaf(p) : IsNode(Leaf(p)[q])
  BY <1>1, NodeKinds
<1>8. ASSUME NEW q \in Path, NEW s \in Sides
      PROVE  Append(q, s) # << >>
  <2>1. Len(Append(q, s)) = Len(q) + 1 /\ Len(q) \in Nat
    BY Child DEF Path
  <2> QED
    BY <1>2, <2>1
<1> QED
  BY <1>1, <1>2, <1>3, <1>4, <1>5, <1>6, <1>7, <1>8 DEF IsTree

(* The first pane is one of the panes.                                     *)
LEMMA FirstPaneIn ==
    ASSUME NEW t, IsTree(t)
    PROVE  FirstPane(t) \in PaneSet(t)
<1>1. PICK k \in Leaves(t) : LeftEnd(<< >>, k)
  BY DEF IsTree
<1>2. k \in Path
  BY DEF IsTree, Leaves
<1>3. Range(k) \subseteq {"first"}
  BY <1>1, <1>2 DEF LeftEnd, Path, Range
<1> QED
  BY <1>3 DEF FirstPane, PaneSet

(* A tree has the panes of the leaves of the same kind elsewhere.          *)
LEMMA PaneSetIs ==
    ASSUME NEW t, IsTree(t), NEW p
    PROVE  p \in PaneSet(t) <=> \E k \in DOMAIN t : t[k] = LeafNode(p)
<1>1. \A k \in DOMAIN t : t[k].kind = "leaf" => t[k] = LeafNode(t[k].pane)
  BY NodeKinds DEF IsTree
<1>2. LeafNode(p).kind = "leaf" /\ LeafNode(p).pane = p
  BY NodeKinds
<1> QED
  BY <1>1, <1>2 DEF PaneSet, Leaves

(* Resizing.                                                               *)
LEMMA SameShape ==
    ASSUME NEW t, IsTree(t), NEW u, u = [q \in DOMAIN t |-> u[q]],
           \A q \in DOMAIN t : IsNode(u[q]),
           \A q \in DOMAIN t : t[q].kind = "leaf" => u[q] = t[q],
           \A q \in DOMAIN t : t[q].kind # "leaf" => u[q].kind # "leaf"
    PROVE  IsTree(u) /\ PaneSet(u) = PaneSet(t)
<1>1. DOMAIN u = DOMAIN t
  OBVIOUS
<1>2. Leaves(u) = Leaves(t)
  BY <1>1 DEF Leaves
<1>3. PaneSet(u) = PaneSet(t)
  BY <1>2 DEF PaneSet, Leaves
<1> QED
  BY <1>1, <1>2, <1>3 DEF IsTree

(* A split gets another ratio: same nodes, same panes.                     *)
LEMMA WithRatioIsTree ==
    ASSUME NEW t, IsTree(t), NEW q, NEW r
    PROVE  IsTree(WithRatio(t, q, r)) /\ PaneSet(WithRatio(t, q, r)) = PaneSet(t)
<1> DEFINE c == ClampRatio(r)
           u == WithRatio(t, q, r)
<1>1. u = [k \in DOMAIN t |-> IF k = q THEN [t[q] EXCEPT !.ratio = c] ELSE t[k]]
  BY DEF WithRatio, IsTree
<1>2. ASSUME NEW p
      PROVE  [LeafNode(p) EXCEPT !.ratio = c] = LeafNode(p)
  BY DEF LeafNode
<1>3. ASSUME NEW e, NEW f
      PROVE  [SplitNode(e, f) EXCEPT !.ratio = c] = SplitNode(e, c)
  BY DEF SplitNode
<1>4. u = [k \in DOMAIN t |-> u[k]]
  BY <1>1
<1>5. \A k \in DOMAIN t : u[k] = IF k = q THEN [t[k] EXCEPT !.ratio = c] ELSE t[k]
  BY <1>1
<1> HIDE DEF u, c
<1>6. ASSUME NEW k \in DOMAIN t
      PROVE  /\ IsNode(u[k])
             /\ t[k].kind = "leaf" => u[k] = t[k]
             /\ t[k].kind # "leaf" => u[k].kind # "leaf"
  <2>1. IsNode(t[k])
    BY DEF IsTree
  <2>2. CASE t[k].kind = "leaf"
    <3>1. t[k] = LeafNode(t[k].pane)
      BY <2>1, <2>2, NodeKinds
    <3>2. u[k] = t[k]
      BY <1>2, <1>5, <3>1
    <3> QED
      BY <2>1, <2>2, <3>2
  <2>3. CASE t[k].kind # "leaf"
    <3>1. PICK e, f : t[k] = SplitNode(e, f)
      BY <2>1, <2>3, NodeKinds
    <3>2. u[k] = SplitNode(e, c) \/ u[k] = SplitNode(e, f)
      BY <1>3, <1>5, <3>1
    <3> QED
      BY <2>3, <3>2, NodeKinds
  <2> QED
    BY <2>2, <2>3
<1>7. IsTree(u) /\ PaneSet(u) = PaneSet(t)
  BY <1>4, <1>6, SameShape
<1> QED
  BY <1>7 DEF u

(* equalize gives every split the middle ratio.                            *)
LEMMA EqualizeIsTree ==
    ASSUME NEW t, IsTree(t)
    PROVE  IsTree(Equalize(t)) /\ PaneSet(Equalize(t)) = PaneSet(t)
<1> DEFINE u == Equalize(t)
<1>1. u = [k \in DOMAIN t |-> u[k]]
  BY DEF Equalize
<1>2. \A k \in DOMAIN t : u[k] = IF t[k].kind = "leaf" THEN t[k]
                                 ELSE SplitNode(t[k].direction, RatioMid)
  BY DEF Equalize, Leaves
<1> HIDE DEF u
<1>3. \A k \in DOMAIN t : IsNode(u[k])
  BY <1>2, NodeKinds DEF IsTree
<1>4. IsTree(u) /\ PaneSet(u) = PaneSet(t)
  BY <1>1, <1>2, <1>3, SameShape, NodeKinds
<1> QED
  BY <1>4 DEF u

(* A resize by key changes one ratio or none.                              *)
LEMMA ResizeIsTree ==
    ASSUME NEW t, IsTree(t), NEW p, NEW axis, NEW inFirst, NEW delta
    PROVE  LET u == TryResizeToward(t, p, axis, inFirst, delta)[1]
           IN  IsTree(u) /\ PaneSet(u) = PaneSet(t)
  BY WithRatioIsTree DEF TryResizeToward

(* A divider drag changes one ratio or none.                               *)
LEMMA DividerIsTree ==
    ASSUME NEW t, IsTree(t), NEW a, NEW b, NEW r
    PROVE  LET u == SetDividerRatio(t, a, b, r)
           IN  IsTree(u) /\ PaneSet(u) = PaneSet(t)
  BY WithRatioIsTree DEF SetDividerRatio

(* A leaf that is split.                                                   *)
LEMMA GrownIsTree ==
    ASSUME NEW t, IsTree(t), NEW q \in DOMAIN t, NEW p, t[q] = LeafNode(p),
           NEW d, NEW new
    PROVE  /\ IsTree(Grow(t, q, p, d, new))
           /\ PaneSet(Grow(t, q, p, d, new)) = PaneSet(t) \cup {new}
<1> DEFINE u == Grow(t, q, p, d, new)
<1>1. /\ DOMAIN t \subseteq Path /\ q \in Path /\ << >> \in DOMAIN t
      /\ \A k \in DOMAIN t : IsNode(t[k])
      /\ \A k \in Path, s \in Sides : Append(k, s) \in DOMAIN t => k \in DOMAIN t
      /\ \A k \in Leaves(t), j \in DOMAIN t : IsPrefix(k, j) => j = k
      /\ \A k \in DOMAIN t \ Leaves(t), s \in Sides : Append(k, s) \in DOMAIN t
      /\ \A k \in DOMAIN t : \E j \in Leaves(t) : LeftEnd(k, j)
  BY DEF IsTree
<1>2. q \in Leaves(t)
  BY NodeKinds DEF Leaves
<1>3. PICK a, b : a = Append(q, "first") /\ b = Append(q, "second")
  OBVIOUS
<1>4. "first" \in Sides /\ "second" \in Sides /\ Sides = {"first", "second"}
  BY DEF Sides
<1>5. /\ a \in Path /\ a # q /\ IsPrefix(q, a) /\ ~IsPrefix(a, q)
      /\ Len(a) = Len(q) + 1 /\ a[Len(q) + 1] = "first"
      /\ \A i \in 1..Len(q) : a[i] = q[i]
  <2>1. q \in Path /\ "first" \in Sides
    BY <1>1, <1>4
  <2> QED
    BY <1>3, <2>1, Child
<1>6. b \in Path /\ b # q /\ IsPrefix(q, b) /\ ~IsPrefix(b, q)
  <2>1. q \in Path /\ "second" \in Sides
    BY <1>1, <1>4
  <2> QED
    BY <1>3, <2>1, Child
<1>7. a \notin DOMAIN t /\ b \notin DOMAIN t
  BY <1>1, <1>2, <1>5, <1>6
<1>8. ~IsPrefix(a, b) /\ ~IsPrefix(b, a) /\ a # b
  <2>1. \A k \in Path : IsPrefix(k, k)
    BY PrefixOrder
  <2>2. \A k \in Path : ~(IsPrefix(a, k) /\ IsPrefix(b, k))
    BY <1>1, <1>3, <1>4, OneChild
  <2> QED
    BY <1>5, <1>6, <2>1, <2>2
<1>9. /\ u = [k \in DOMAIN u |-> u[k]]
      /\ DOMAIN u = DOMAIN t \cup {a, b}
      /\ u[q] = SplitNode(d, RatioMid) /\ u[a] = LeafNode(p) /\ u[b] = LeafNode(new)
      /\ \A k \in DOMAIN t : k # q => u[k] = t[k]
  BY <1>3, <1>5, <1>6, <1>7, <1>8 DEF Grow
<1> HIDE DEF u
<1>10. Leaves(u) = (Leaves(t) \ {q}) \cup {a, b}
  <2>1. u[q].kind # "leaf" /\ u[a].kind = "leaf" /\ u[b].kind = "leaf"
    BY <1>9, NodeKinds
  <2>2. \A k \in DOMAIN t : k # q => u[k].kind = t[k].kind
    BY <1>9
  <2> QED
    BY <1>7, <1>9, <2>1, <2>2 DEF Leaves
<1>11. \A k \in DOMAIN u : IsNode(u[k])
  BY <1>1, <1>9, NodeKinds
<1>12. ASSUME NEW k \in Leaves(u), NEW j \in DOMAIN u, IsPrefix(k, j)
       PROVE  j = k
  <2>1. CASE k \in Leaves(t) \ {q} /\ j \in DOMAIN t
    BY <1>1, <1>12, <2>1
  <2>2. CASE k \in Leaves(t) \ {q} /\ j \in {a, b}
    <3>1. k \in Path /\ k \in DOMAIN t
      BY <1>1, <2>2 DEF Leaves
    <3>2. IsPrefix(k, q) \/ IsPrefix(q, k)
      BY <1>1, <1>5, <1>6, <1>12, <2>2, <3>1, PrefixOrder
    <3> QED
      BY <1>1, <1>2, <2>2, <3>1, <3>2
  <2>3. CASE k \in {a, b} /\ j \in DOMAIN t
    <3>1. IsPrefix(q, j)
      BY <1>1, <1>5, <1>6, <1>12, <2>3, PrefixOrder
    <3> QED
      BY <1>1, <1>2, <1>5, <1>6, <1>12, <2>3, <3>1
  <2>4. CASE k \in {a, b} /\ j \in {a, b}
    BY <1>8, <1>12, <2>4
  <2> QED
    BY <1>9, <1>10, <2>1, <2>2, <2>3, <2>4
<1>13. \A k \in DOMAIN u \ Leaves(u), s \in Sides : Append(k, s) \in DOMAIN u
  <2>1. \A k \in DOMAIN u \ Leaves(u) : k = q \/ k \in DOMAIN t \ Leaves(t)
    BY <1>9, <1>10
  <2>2. \A s \in Sides : Append(q, s) \in DOMAIN u
    BY <1>3, <1>4, <1>9
  <2> QED
    BY <1>1, <1>9, <2>1, <2>2
<1>14. ASSUME NEW k \in DOMAIN u
       PROVE  \E j \in Leaves(u) : LeftEnd(k, j)
  <2>1. CASE k \in DOMAIN t
    <3>1. PICK j \in Leaves(t) : LeftEnd(k, j)
      BY <1>1, <2>1
    <3>2. CASE j # q
      BY <1>10, <3>1, <3>2
    <3>3. CASE j = q
      <4>1. IsPrefix(k, a)
        BY <1>1, <1>5, <2>1, <3>1, <3>3, PrefixOrder DEF LeftEnd
      <4>2. \A i \in (Len(k) + 1)..Len(q) : q[i] = "first"
        BY <3>1, <3>3 DEF LeftEnd
      <4>3. Len(q) \in Nat /\ Len(k) \in Nat
        BY <1>1, <2>1 DEF Path
      <4>4. \A i \in (Len(k) + 1)..Len(a) : a[i] = "first"
        BY <1>5, <4>2, <4>3
      <4> QED
        BY <1>10, <4>1, <4>4 DEF LeftEnd
    <3> QED
      BY <3>2, <3>3
  <2>2. CASE k \in {a, b}
    <3>1. k \in Path /\ k \in Leaves(u)
      BY <1>5, <1>6, <1>10, <2>2
    <3>2. Len(k) \in Nat
      BY <3>1 DEF Path
    <3>3. LeftEnd(k, k)
      BY <3>1, <3>2, PrefixOrder DEF LeftEnd
    <3> QED
      BY <3>1, <3>3
  <2> QED
    BY <1>9, <2>1, <2>2
<1>15. IsTree(u)
  <2>1. ASSUME NEW k \in Path, NEW s \in Sides, Append(k, s) \in DOMAIN u
        PROVE  k \in DOMAIN u
    <3>1. CASE Append(k, s) \in DOMAIN t
      BY <1>1, <1>9, <3>1
    <3>2. CASE Append(k, s) \in {a, b}
      BY <1>1, <1>3, <1>4, <1>9, <3>2, OneParent
    <3> QED
      BY <1>9, <2>1, <3>1, <3>2
  <2> QED
    BY <1>1, <1>5, <1>6, <1>9, <1>11, <1>12, <1>13, <1>14, <2>1 DEF IsTree
<1>16. PaneSet(u) = PaneSet(t) \cup {new}
  <2>1. \A x : x \in PaneSet(u) <=> \E k \in DOMAIN u : u[k] = LeafNode(x)
    BY <1>15, PaneSetIs
  <2>2. \A x : x \in PaneSet(t) <=> \E k \in DOMAIN t : t[k] = LeafNode(x)
    BY PaneSetIs
  <2>3. \A x, y : LeafNode(x) = LeafNode(y) => x = y
    BY DEF LeafNode
  <2>4. \A x : SplitNode(d, RatioMid) # LeafNode(x)
    BY NodeKinds
  <2>5. \A x \in PaneSet(u) : x \in PaneSet(t) \cup {new}
    BY <1>9, <2>1, <2>2, <2>3, <2>4
  <2>6. \A x \in PaneSet(t) \cup {new} : x \in PaneSet(u)
    <3>1. new \in PaneSet(u) /\ p \in PaneSet(u)
      BY <1>9, <2>1
    <3>2. ASSUME NEW x \in PaneSet(t)
          PROVE  x \in PaneSet(u)
      <4>1. PICK k \in DOMAIN t : t[k] = LeafNode(x)
        BY <2>2
      <4>2. CASE k = q
        BY <2>3, <3>1, <4>1, <4>2
      <4>3. CASE k # q
        BY <1>9, <2>1, <4>1, <4>3
      <4> QED
        BY <4>2, <4>3
    <3> QED
      BY <3>1, <3>2
  <2> QED
    BY <2>5, <2>6
<1> QED
  BY <1>15, <1>16 DEF u

(* Splitting loses no pane and adds at most the new one.                   *)
LEMMA SplitAtIsTree ==
    ASSUME NEW t, IsTree(t), NEW p, NEW d, NEW new
    PROVE  LET u == SplitAt(t, p, d, new)
           IN  /\ IsTree(u)
               /\ PaneSet(u) = PaneSet(t) \/ PaneSet(u) = PaneSet(t) \cup {new}
<1> DEFINE found == Way(t, p) \cap Leaves(t)
           q     == CHOOSE q \in found : TRUE
<1>1. CASE found = {}
  BY <1>1 DEF SplitAt
<1>2. CASE found # {}
  <2>1. q \in found
    BY <1>2
  <2>2. q \in DOMAIN t /\ q \in Leaves(t)
    BY <2>1 DEF Leaves
  <2>3. PICK k \in DOMAIN t : t[k] = LeafNode(p) /\ IsPrefix(q, k)
    BY <2>1 DEF Way, InSubtree
  <2>4. t[q] = LeafNode(p)
    BY <2>2, <2>3 DEF IsTree
  <2>5. SplitAt(t, p, d, new) = Grow(t, q, p, d, new)
    BY <1>2 DEF SplitAt
  <2> HIDE DEF q
  <2> QED
    BY <2>2, <2>4, <2>5, GrownIsTree
<1> QED
  BY <1>1, <1>2

-----------------------------------------------------------------------------
(* The child on the side e of q moves up to q: k comes down to Up(q, e, k). *)

Up(q, k)      == RemoveAt(k, Len(q) + 1)
Down(q, e, k) == InsertAt(k, Len(q) + 1, e)

(* The path u is k with the step below q taken out, which was e.           *)
IsUp(u, q, e, k) ==
    /\ u \in Path /\ Len(u) = Len(k) - 1 /\ Len(q) < Len(k)
    /\ k[Len(q) + 1] = e
    /\ \A i \in 1..(Len(k) - 1) : u[i] = IF i <= Len(q) THEN q[i] ELSE k[i + 1]
    /\ IsPrefix(q, u)

(* The path u is k with a step e put in below q.                           *)
IsDown(u, q, e, k) ==
    /\ u \in Path /\ Len(u) = Len(k) + 1 /\ Len(q) <= Len(k)
    /\ \A i \in 1..(Len(k) + 1) :
         u[i] = IF i <= Len(q) THEN q[i] ELSE IF i = Len(q) + 1 THEN e ELSE k[i - 1]
    /\ IsPrefix(Append(q, e), u)

(* Where a node below the child goes.                                      *)
LEMMA UpPath ==
    ASSUME NEW q \in Path, NEW e \in Sides, NEW k \in Path, IsPrefix(Append(q, e), k)
    PROVE  IsUp(Up(q, k), q, e, k)
<1> DEFINE c == Append(q, e)
           m == Len(q)
           u == Up(q, k)
<1>1. m \in Nat /\ Len(k) \in Nat
  BY DEF Path
<1>2. c \in Path /\ Len(c) = m + 1 /\ c[m + 1] = e /\ \A i \in 1..m : c[i] = q[i]
  BY Child
<1>3. Len(c) <= Len(k) /\ \A i \in 1..Len(c) : k[i] = c[i]
  BY <1>2, PrefixPoints
<1>4. m + 1 \in 1..Len(k)
  BY <1>1, <1>2, <1>3
<1>5. /\ u \in Path /\ Len(u) = Len(k) - 1
      /\ \A i \in 1..(Len(k) - 1) : u[i] = IF i < m + 1 THEN k[i] ELSE k[i + 1]
  BY <1>4, RemoveAtSeq DEF Path, Up
<1> HIDE DEF c, m, u
<1>6. k[m + 1] = e /\ \A i \in 1..m : k[i] = q[i]
  BY <1>1, <1>2, <1>3
<1>7. \A i \in 1..(Len(k) - 1) : u[i] = IF i <= m THEN q[i] ELSE k[i + 1]
  BY <1>1, <1>5, <1>6
<1>8. m <= Len(u) /\ \A i \in 1..m : u[i] = q[i]
  BY <1>1, <1>4, <1>5, <1>7
<1>9. IsPrefix(q, u)
  BY <1>5, <1>8, PrefixPoints DEF m
<1> QED
  BY <1>1, <1>4, <1>5, <1>6, <1>7, <1>9 DEF m, u, IsUp

(* Where a node at or below q comes from.                                  *)
LEMMA DownPath ==
    ASSUME NEW q \in Path, NEW e \in Sides, NEW k \in Path, IsPrefix(q, k)
    PROVE  IsDown(Down(q, e, k), q, e, k)
<1> DEFINE c == Append(q, e)
           m == Len(q)
           u == Down(q, e, k)
<1>1. m \in Nat /\ Len(k) \in Nat
  BY DEF Path
<1>2. c \in Path /\ Len(c) = m + 1 /\ c[m + 1] = e /\ \A i \in 1..m : c[i] = q[i]
  BY Child
<1>3. m <= Len(k) /\ \A i \in 1..m : k[i] = q[i]
  BY PrefixPoints
<1>4. m + 1 \in 1..(Len(k) + 1)
  BY <1>1, <1>3
<1>5. /\ u \in Path /\ Len(u) = Len(k) + 1
      /\ \A i \in 1..(Len(k) + 1) :
           u[i] = IF i < m + 1 THEN k[i] ELSE IF i = m + 1 THEN e ELSE k[i - 1]
  <2>1. /\ u \in Path /\ Len(u) = Len(k) + 1 /\ u[m + 1] = e
        /\ \A i \in 1..(Len(k) + 1) : i < m + 1 => u[i] = k[i]
        /\ \A i \in 1..(Len(k) + 1) : i > m + 1 => u[i] = k[i - 1]
    <3>1. k \in Seq(Sides) /\ m + 1 \in 1..(Len(k) + 1) /\ Down(q, e, k) = InsertAt(k, m + 1, e)
      BY <1>4 DEF Path, Down
    <3> HIDE DEF m, u
    <3>2. IsInserted(InsertAt(k, m + 1, e), Sides, k, m + 1, e)
      BY <3>1, InsertAtSeq, Zenon
    <3>3. u = InsertAt(k, m + 1, e)
      BY <3>1 DEF u
    <3> QED
      BY <3>2, <3>3 DEF Path, IsInserted
  <2> QED
    BY <1>1, <2>1
<1> HIDE DEF c, m, u
<1>6. \A i \in 1..(Len(k) + 1) :
        u[i] = IF i <= m THEN q[i] ELSE IF i = m + 1 THEN e ELSE k[i - 1]
  BY <1>1, <1>3, <1>5
<1>7. Len(c) <= Len(u) /\ \A i \in 1..Len(c) : u[i] = c[i]
  BY <1>1, <1>2, <1>3, <1>5, <1>6
<1>8. IsPrefix(c, u)
  BY <1>2, <1>5, <1>7, PrefixPoints
<1> QED
  BY <1>1, <1>3, <1>5, <1>6, <1>8 DEF c, m, u, IsDown

(* The two are inverse.                                                    *)
LEMMA UpDown ==
    ASSUME NEW q \in Path, NEW e \in Sides, NEW k \in Path
    PROVE  /\ IsPrefix(Append(q, e), k) => Down(q, e, Up(q, k)) = k
           /\ IsPrefix(q, k) => Up(q, Down(q, e, k)) = k
<1>1. Len(q) \in Nat /\ Len(k) \in Nat
  BY DEF Path
<1>2. ASSUME IsPrefix(Append(q, e), k)
      PROVE  Down(q, e, Up(q, k)) = k
  <2> DEFINE u == Up(q, k)
             w == Down(q, e, u)
             m == Len(q)
  <2>1. /\ u \in Path /\ Len(u) = Len(k) - 1 /\ m < Len(k) /\ IsPrefix(q, u)
        /\ k[m + 1] = e
        /\ \A i \in 1..(Len(k) - 1) : u[i] = IF i <= m THEN q[i] ELSE k[i + 1]
    <3>1. IsUp(u, q, e, k)
      BY <1>2, UpPath, Zenon
    <3> HIDE DEF u
    <3> QED
      BY <3>1 DEF IsUp
  <2>2. /\ w \in Path /\ Len(w) = Len(u) + 1
        /\ \A i \in 1..(Len(u) + 1) :
             w[i] = IF i <= m THEN q[i] ELSE IF i = m + 1 THEN e ELSE u[i - 1]
    <3>1. IsDown(w, q, e, u)
      BY <2>1, DownPath, Zenon
    <3> HIDE DEF u, w
    <3> QED
      BY <3>1 DEF IsDown
  <2>3. \A i \in 1..m : k[i] = q[i]
    <3>1. Append(q, e) \in Path /\ Len(Append(q, e)) = m + 1
          /\ \A i \in 1..m : Append(q, e)[i] = q[i]
      BY Child
    <3>2. \A i \in 1..Len(Append(q, e)) : k[i] = Append(q, e)[i]
      BY <1>2, <3>1, PrefixPoints
    <3> HIDE DEF m
    <3>3. m \in Nat
      BY <1>1 DEF m
    <3> QED
      BY <3>1, <3>2, <3>3
  <2> HIDE DEF u, w, m
  <2>4. Len(w) = Len(k) /\ m \in Nat
    BY <1>1, <2>1, <2>2 DEF m
  <2>5. ASSUME NEW i \in 1..Len(k)
        PROVE  w[i] = k[i]
    <3>1. CASE i <= m + 1
      BY <1>1, <2>1, <2>2, <2>3, <2>4, <3>1
    <3>2. CASE i > m + 1
      <4>1. i - 1 \in 1..(Len(k) - 1) /\ ~(i - 1 <= m) /\ (i - 1) + 1 = i
        BY <1>1, <2>4, <3>2
      <4> QED
        BY <1>1, <2>1, <2>2, <2>4, <3>2, <4>1
    <3> QED
      BY <2>4, <3>1, <3>2
  <2>6. w = k
    BY <2>2, <2>4, <2>5, SamePath
  <2> QED
    BY <2>6 DEF w, u
<1>3. ASSUME IsPrefix(q, k)
      PROVE  Up(q, Down(q, e, k)) = k
  <2> DEFINE u == Down(q, e, k)
             w == Up(q, u)
             m == Len(q)
  <2>1. /\ u \in Path /\ Len(u) = Len(k) + 1 /\ m <= Len(k) /\ IsPrefix(Append(q, e), u)
        /\ \A i \in 1..(Len(k) + 1) :
             u[i] = IF i <= m THEN q[i] ELSE IF i = m + 1 THEN e ELSE k[i - 1]
    <3>1. IsDown(u, q, e, k)
      BY <1>3, DownPath, Zenon
    <3> HIDE DEF u
    <3> QED
      BY <3>1 DEF IsDown
  <2>2. /\ w \in Path /\ Len(w) = Len(u) - 1
        /\ \A i \in 1..(Len(u) - 1) : w[i] = IF i <= m THEN q[i] ELSE u[i + 1]
    <3>1. IsUp(w, q, e, u)
      BY <2>1, UpPath, Zenon
    <3> HIDE DEF u, w
    <3> QED
      BY <3>1 DEF IsUp
  <2>3. \A i \in 1..m : k[i] = q[i]
    BY <1>3, PrefixPoints
  <2> HIDE DEF u, w, m
  <2>4. Len(w) = Len(k) /\ m \in Nat
    BY <1>1, <2>1, <2>2 DEF m
  <2>5. ASSUME NEW i \in 1..Len(k)
        PROVE  w[i] = k[i]
    <3>1. CASE i <= m
      BY <1>1, <2>1, <2>2, <2>3, <2>4, <3>1
    <3>2. CASE i > m
      <4>1. i + 1 \in 1..(Len(k) + 1) /\ ~(i + 1 <= m) /\ i + 1 # m + 1 /\ (i + 1) - 1 = i
        BY <1>1, <2>4, <3>2
      <4> QED
        BY <1>1, <2>1, <2>2, <2>4, <3>2, <4>1
    <3> QED
      BY <2>4, <3>1, <3>2
  <2>6. w = k
    BY <2>2, <2>4, <2>5, SamePath
  <2> QED
    BY <2>6 DEF w, u
<1> QED
  BY <1>2, <1>3

(* Both keep the order of paths.                                           *)
LEMMA DownOrder ==
    ASSUME NEW q \in Path, NEW e \in Sides, NEW k \in Path, NEW j \in Path,
           IsPrefix(q, k), IsPrefix(q, j)
    PROVE  IsPrefix(k, j) <=> IsPrefix(Down(q, e, k), Down(q, e, j))
<1> DEFINE m == Len(q)
           v == Down(q, e, k)
           w == Down(q, e, j)
<1>1. m \in Nat /\ Len(k) \in Nat /\ Len(j) \in Nat
  BY DEF Path
<1>2. /\ v \in Path /\ Len(v) = Len(k) + 1 /\ m <= Len(k)
      /\ \A i \in 1..(Len(k) + 1) :
           v[i] = IF i <= m THEN q[i] ELSE IF i = m + 1 THEN e ELSE k[i - 1]
  <2>1. IsDown(v, q, e, k)
    BY DownPath, Zenon
  <2> HIDE DEF v
  <2> QED
    BY <2>1 DEF IsDown
<1>3. /\ w \in Path /\ Len(w) = Len(j) + 1 /\ m <= Len(j)
      /\ \A i \in 1..(Len(j) + 1) :
           w[i] = IF i <= m THEN q[i] ELSE IF i = m + 1 THEN e ELSE j[i - 1]
  <2>1. IsDown(w, q, e, j)
    BY DownPath, Zenon
  <2> HIDE DEF w
  <2> QED
    BY <2>1 DEF IsDown
<1>4. (\A i \in 1..m : k[i] = q[i]) /\ (\A i \in 1..m : j[i] = q[i])
  BY PrefixPoints
<1>5. IsPrefix(k, j) <=> Len(k) <= Len(j) /\ \A i \in 1..Len(k) : j[i] = k[i]
  BY PrefixPoints
<1>6. IsPrefix(v, w) <=> Len(v) <= Len(w) /\ \A i \in 1..Len(v) : w[i] = v[i]
  BY <1>2, <1>3, PrefixPoints
<1> HIDE DEF m, v, w
<1>7. ASSUME IsPrefix(k, j)
      PROVE  IsPrefix(v, w)
  <2>1. ASSUME NEW i \in 1..Len(v)
        PROVE  w[i] = v[i]
    <3>1. CASE i <= m + 1
      BY <1>1, <1>2, <1>3, <1>5, <1>7, <3>1
    <3>2. CASE i > m + 1
      <4>1. i - 1 \in 1..Len(k)
        BY <1>1, <1>2, <3>2
      <4> QED
        BY <1>1, <1>2, <1>3, <1>5, <1>7, <3>2, <4>1
    <3> QED
      BY <1>1, <1>2, <3>1, <3>2
  <2> QED
    BY <1>1, <1>2, <1>3, <1>5, <1>6, <1>7, <2>1
<1>8. ASSUME IsPrefix(v, w)
      PROVE  IsPrefix(k, j)
  <2>1. Len(k) <= Len(j)
    BY <1>1, <1>2, <1>3, <1>6, <1>8
  <2>2. ASSUME NEW i \in 1..Len(k)
        PROVE  j[i] = k[i]
    <3>1. CASE i <= m
      BY <1>1, <1>4, <3>1
    <3>2. CASE i > m
      <4>1. i + 1 \in 1..Len(v) /\ i + 1 # m + 1 /\ ~(i + 1 <= m) /\ (i + 1) - 1 = i
        BY <1>1, <1>2, <3>2
      <4>2. w[i + 1] = v[i + 1]
        BY <1>6, <1>8, <4>1
      <4> QED
        BY <1>1, <1>2, <1>3, <2>1, <4>1, <4>2
    <3> QED
      BY <1>1, <3>1, <3>2
  <2> QED
    BY <1>5, <2>1, <2>2
<1> QED
  BY <1>7, <1>8 DEF v, w

(* Coming down keeps the last step of a path.                              *)
LEMMA DownChild ==
    ASSUME NEW q \in Path, NEW e \in Sides, NEW k \in Path, NEW s \in Sides, IsPrefix(q, k)
    PROVE  Down(q, e, Append(k, s)) = Append(Down(q, e, k), s)
<1> DEFINE m == Len(q)
           a == Append(k, s)
           v == Down(q, e, a)
           d == Down(q, e, k)
           w == Append(d, s)
<1>1. m \in Nat /\ Len(k) \in Nat
  BY DEF Path
<1>2. /\ a \in Path /\ Len(a) = Len(k) + 1 /\ a[Len(k) + 1] = s
      /\ \A i \in 1..Len(k) : a[i] = k[i]
      /\ IsPrefix(k, a)
  BY Child, Zenon
<1>3. IsPrefix(q, a)
  BY <1>2, PrefixOrder
<1>4. /\ v \in Path /\ Len(v) = Len(a) + 1
      /\ \A i \in 1..(Len(a) + 1) :
           v[i] = IF i <= m THEN q[i] ELSE IF i = m + 1 THEN e ELSE a[i - 1]
  <2>1. IsDown(v, q, e, a)
    BY <1>2, <1>3, DownPath, Zenon
  <2> HIDE DEF v, a
  <2> QED
    BY <2>1 DEF IsDown
<1>5. /\ d \in Path /\ Len(d) = Len(k) + 1 /\ m <= Len(k)
      /\ \A i \in 1..(Len(k) + 1) :
           d[i] = IF i <= m THEN q[i] ELSE IF i = m + 1 THEN e ELSE k[i - 1]
  <2>1. IsDown(d, q, e, k)
    BY DownPath, Zenon
  <2> HIDE DEF d
  <2> QED
    BY <2>1 DEF IsDown
<1>6. /\ w \in Path /\ Len(w) = Len(d) + 1 /\ w[Len(d) + 1] = s
      /\ \A i \in 1..Len(d) : w[i] = d[i]
  BY <1>5, Child
<1> HIDE DEF m, a, v, d, w
<1>7. Len(v) = Len(w)
  BY <1>1, <1>2, <1>4, <1>5, <1>6
<1>8. ASSUME NEW i \in 1..Len(v)
      PROVE  w[i] = v[i]
  <2>1. CASE i <= m + 1
    BY <1>1, <1>2, <1>4, <1>5, <1>6, <1>7, <2>1
  <2>2. CASE i > m + 1 /\ i <= Len(k) + 1
    <3>1. i - 1 \in 1..Len(k)
      BY <1>1, <2>2
    <3> QED
      BY <1>1, <1>2, <1>4, <1>5, <1>6, <1>7, <2>2, <3>1
  <2>3. CASE i > m + 1 /\ i = Len(k) + 2
    <3>1. i - 1 = Len(k) + 1 /\ i = Len(d) + 1
      BY <1>1, <1>5, <2>3
    <3> QED
      BY <1>1, <1>2, <1>4, <1>6, <2>3, <3>1
  <2> QED
    BY <1>1, <1>2, <1>4, <2>1, <2>2, <2>3
<1>9. v = w
  BY <1>4, <1>6, <1>7, <1>8, SamePath
<1> QED
  BY <1>9 DEF v, w, a, d

(* A path that is above a child and not above its parent is the child.     *)
LEMMA AboveChild ==
    ASSUME NEW q \in Path, NEW k \in Path, NEW s \in Sides,
           IsPrefix(q, Append(k, s)), ~IsPrefix(q, k)
    PROVE  q = Append(k, s)
<1>1. Append(k, s) \in Path /\ IsPrefix(k, Append(k, s))
  BY Child
<1>2. IsPrefix(k, q) /\ k # q
  BY <1>1, PrefixOrder
<1>3. PICK r \in Sides : IsPrefix(Append(k, r), q)
  BY <1>2, BelowChild
<1>4. Append(k, r) \in Path
  BY Child
<1>5. IsPrefix(Append(k, r), Append(k, s)) /\ IsPrefix(Append(k, s), Append(k, s))
  BY <1>1, <1>3, <1>4, PrefixOrder
<1>6. r = s
  BY <1>1, <1>5, OneChild
<1> QED
  BY <1>1, <1>3, <1>6, PrefixOrder

(* A child goes to the place of its parent.                                *)
LEMMA UpChild ==
    ASSUME NEW q \in Path, NEW e \in Sides
    PROVE  Up(q, Append(q, e)) = q
<1> DEFINE c == Append(q, e)
           u == Up(q, c)
<1>1. c \in Path /\ Len(c) = Len(q) + 1
  BY Child
<1>2. IsPrefix(c, c)
  BY <1>1, PrefixOrder
<1>3. u \in Path /\ Len(u) = Len(c) - 1 /\ IsPrefix(q, u)
  <2>1. IsUp(u, q, e, c)
    BY <1>1, <1>2, UpPath, Zenon
  <2> HIDE DEF u, c
  <2> QED
    BY <2>1 DEF IsUp
<1>4. Len(q) \in Nat
  BY DEF Path
<1> HIDE DEF c, u
<1>5. \A i \in 1..Len(q) : u[i] = q[i]
  BY <1>3, PrefixPoints
<1>6. u = q
  BY <1>1, <1>3, <1>4, <1>5, SamePath
<1> QED
  BY <1>6 DEF u, c

(* The nodes of a collapsed tree: those that are not at or below q, and    *)
(* those at or below the child that is kept.                               *)
IsCollapsed(u, t, q, keep) ==
    /\ u = [k \in DOMAIN u |-> u[k]]
    /\ DOMAIN u \subseteq Path
    /\ \A k \in DOMAIN t : ~IsPrefix(q, k) => k \in DOMAIN u /\ u[k] = t[k]
    /\ \A k \in DOMAIN t : IsPrefix(Append(q, keep), k)
          => /\ Up(q, k) \in DOMAIN u /\ u[Up(q, k)] = t[k]
             /\ IsPrefix(q, Up(q, k)) /\ Down(q, keep, Up(q, k)) = k
    /\ \A k \in DOMAIN u : ~IsPrefix(q, k) => k \in DOMAIN t
    /\ \A k \in DOMAIN u : IsPrefix(q, k)
          => /\ Down(q, keep, k) \in DOMAIN t /\ u[k] = t[Down(q, keep, k)]
             /\ IsPrefix(Append(q, keep), Down(q, keep, k)) /\ Up(q, Down(q, keep, k)) = k

(* Where the nodes of a collapsed tree are, and what they are.             *)
LEMMA CollapsedNodes ==
    ASSUME NEW t, DOMAIN t \subseteq Path, NEW q \in Path, NEW keep \in Sides
    PROVE  IsCollapsed(Collapse(t, q, keep), t, q, keep)
<1> DEFINE c    == Append(q, keep)
           kept == {k \in DOMAIN t : IsPrefix(c, k)}
           out  == {k \in DOMAIN t : ~IsPrefix(q, k)}
           u    == Collapse(t, q, keep)
<1>1. u = [k \in out \cup {Up(q, k) : k \in kept} |->
              IF IsPrefix(q, k) THEN t[Down(q, keep, k)] ELSE t[k]]
  BY DEF Collapse, Up, Down
<1>2. \A k \in kept : Up(q, k) \in Path /\ IsPrefix(q, Up(q, k)) /\ Down(q, keep, Up(q, k)) = k
  <2> SUFFICES ASSUME NEW k \in kept
               PROVE  Up(q, k) \in Path /\ IsPrefix(q, Up(q, k)) /\ Down(q, keep, Up(q, k)) = k
    OBVIOUS
  <2>1. k \in Path /\ IsPrefix(c, k)
    OBVIOUS
  <2>2. IsUp(Up(q, k), q, keep, k)
    BY <2>1, UpPath
  <2> QED
    BY <2>1, <2>2, UpDown DEF IsUp
<1>3. \A k \in Path : IsPrefix(q, k) => Up(q, Down(q, keep, k)) = k
  BY UpDown
<1>4. kept \subseteq DOMAIN t /\ out \subseteq DOMAIN t
  OBVIOUS
<1> HIDE DEF u
<1>5. /\ u = [k \in DOMAIN u |-> u[k]]
      /\ DOMAIN u = out \cup {Up(q, k) : k \in kept}
      /\ \A k \in DOMAIN u : u[k] = IF IsPrefix(q, k) THEN t[Down(q, keep, k)] ELSE t[k]
  BY <1>1
<1>6. DOMAIN u \subseteq Path
  BY <1>2, <1>4, <1>5
<1>7. \A k \in DOMAIN t : ~IsPrefix(q, k) => k \in DOMAIN u /\ u[k] = t[k]
  BY <1>5
<1>8. ASSUME NEW k \in kept
      PROVE  Up(q, k) \in DOMAIN u /\ u[Up(q, k)] = t[k]
  BY <1>2, <1>5
<1>9. \A k \in DOMAIN u : ~IsPrefix(q, k) => k \in DOMAIN t
  BY <1>2, <1>5
<1>10. ASSUME NEW k \in DOMAIN u, IsPrefix(q, k)
       PROVE  /\ Down(q, keep, k) \in DOMAIN t /\ u[k] = t[Down(q, keep, k)]
              /\ IsPrefix(c, Down(q, keep, k)) /\ Up(q, Down(q, keep, k)) = k
  <2>1. PICK j \in kept : k = Up(q, j)
    BY <1>5, <1>10
  <2>2. Down(q, keep, k) = j
    BY <1>2, <2>1
  <2> QED
    BY <1>5, <1>10, <2>1, <2>2
<1>11. IsCollapsed(u, t, q, keep)
  BY <1>2, <1>5, <1>6, <1>7, <1>8, <1>9, <1>10 DEF IsCollapsed
<1> QED
  BY <1>11 DEF u

(* A place of the collapsed tree and where its node was.                   *)
Old(q, keep, k) == IF IsPrefix(q, k) THEN Down(q, keep, k) ELSE k

(* The order of the places of a collapsed tree is the one they had.        *)
LEMMA OldOrder ==
    ASSUME NEW q \in Path, NEW e \in Sides, NEW k \in Path, NEW j \in Path, IsPrefix(k, j),
           IsPrefix(k, q) => IsPrefix(q, k) \/ ~IsPrefix(q, j)
    PROVE  IsPrefix(Old(q, e, k), Old(q, e, j))
<1>1. CASE IsPrefix(q, k)
  <2>1. IsPrefix(q, j)
    BY <1>1, PrefixOrder
  <2> QED
    BY <1>1, <2>1, DownOrder DEF Old
<1>2. CASE ~IsPrefix(q, k)
  <2>1. ~IsPrefix(q, j)
    BY <1>2, PrefixOrder
  <2> QED
    BY <1>2, <2>1 DEF Old
<1> QED
  BY <1>1, <1>2

(* When a leaf is taken out and its parent with it, a tree is left, with   *)
(* every other pane and no new one.                                        *)
LEMMA CollapseIsTree ==
    ASSUME NEW t, IsTree(t), NEW q \in DOMAIN t, NEW keep \in Sides, NEW drop \in Sides,
           keep # drop, NEW p, Append(q, drop) \in DOMAIN t,
           t[Append(q, drop)] = LeafNode(p)
    PROVE  /\ IsTree(Collapse(t, q, keep))
           /\ PaneSet(t) \ {p} \subseteq PaneSet(Collapse(t, q, keep))
           /\ PaneSet(Collapse(t, q, keep)) \subseteq PaneSet(t)
<1> DEFINE u == Collapse(t, q, keep)
<1>1. /\ DOMAIN t \subseteq Path /\ q \in Path /\ << >> \in DOMAIN t
      /\ \A k \in DOMAIN t : IsNode(t[k])
      /\ \A k \in Path, s \in Sides : Append(k, s) \in DOMAIN t => k \in DOMAIN t
      /\ \A k \in Leaves(t), j \in DOMAIN t : IsPrefix(k, j) => j = k
      /\ \A k \in DOMAIN t \ Leaves(t), s \in Sides : Append(k, s) \in DOMAIN t
      /\ \A k \in DOMAIN t : \E j \in Leaves(t) : LeftEnd(k, j)
  BY DEF IsTree
<1>2. PICK c, d : c = Append(q, keep) /\ d = Append(q, drop)
  OBVIOUS
<1>3. IsCollapsed(u, t, q, keep)
  BY <1>1, CollapsedNodes
<1> HIDE DEF u
<1>4. /\ c \in Path /\ IsPrefix(q, c) /\ c # q /\ d \in Path /\ IsPrefix(q, d) /\ d # q
      /\ Len(c) = Len(q) + 1
  BY <1>1, <1>2, Child
<1>5. q \notin Leaves(t)
  BY <1>1, <1>2, <1>4
<1>6. c \in DOMAIN t /\ d \in Leaves(t) /\ t[d] = LeafNode(p)
  BY <1>1, <1>2, <1>5, NodeKinds DEF Leaves
<1>7. q \in DOMAIN u
  <2>1. IsPrefix(c, c)
    BY <1>4, PrefixOrder
  <2>2. Up(q, c) \in DOMAIN u
    BY <1>2, <1>3, <1>6, <2>1 DEF IsCollapsed
  <2> QED
    BY <1>1, <1>2, <2>2, UpChild
<1>8. \A k \in DOMAIN u : /\ k \in Path /\ Old(q, keep, k) \in DOMAIN t
                          /\ u[k] = t[Old(q, keep, k)]
  BY <1>3 DEF IsCollapsed, Old
<1>9. \A k \in DOMAIN u : k \in Leaves(u) <=> Old(q, keep, k) \in Leaves(t)
  BY <1>8 DEF Leaves
<1>10. << >> \in DOMAIN u
  <2>1. CASE q = << >>
    BY <1>7, <2>1
  <2>2. CASE q # << >>
    <3>1. ~IsPrefix(q, << >>)
      BY <1>1, <2>2, PrefixOrder
    <3> QED
      BY <1>1, <1>3, <3>1 DEF IsCollapsed
  <2> QED
    BY <2>1, <2>2
<1>11. ASSUME NEW k \in Leaves(u), NEW j \in DOMAIN u, IsPrefix(k, j)
       PROVE  j = k
  <2>1. k \in Path /\ j \in Path /\ Old(q, keep, k) \in Leaves(t) /\ Old(q, keep, j) \in DOMAIN t
    BY <1>8, <1>9 DEF Leaves
  <2>2. IsPrefix(k, q) => IsPrefix(q, k)
    <3>1. ASSUME IsPrefix(k, q), ~IsPrefix(q, k)
          PROVE  FALSE
      BY <1>1, <2>1, <3>1 DEF Old
    <3> QED
      BY <3>1
  <2>3. Old(q, keep, j) = Old(q, keep, k)
    BY <1>1, <1>11, <2>1, <2>2, OldOrder
  <2>4. IsPrefix(q, k) <=> IsPrefix(q, j)
    BY <1>1, <1>11, <2>1, <2>2, PrefixOrder
  <2> QED
    BY <1>3, <2>3, <2>4 DEF IsCollapsed, Old, Leaves
<1>12. ASSUME NEW k \in DOMAIN u \ Leaves(u), NEW s \in Sides
       PROVE  Append(k, s) \in DOMAIN u
  <2>1. Old(q, keep, k) \in DOMAIN t \ Leaves(t) /\ k \in Path
    BY <1>8, <1>9
  <2>2. CASE IsPrefix(q, k)
    <3>1. PICK e : e = Down(q, keep, k)
      OBVIOUS
    <3>2. e \in DOMAIN t /\ IsPrefix(c, e) /\ Append(e, s) \in DOMAIN t
      BY <1>1, <1>2, <1>3, <2>1, <2>2, <3>1 DEF Old, IsCollapsed
    <3>3. IsPrefix(c, Append(e, s))
      BY <1>1, <1>4, <3>2, PrefixOrder, Child
    <3>4. Up(q, Append(e, s)) \in DOMAIN u
      BY <1>2, <1>3, <3>2, <3>3 DEF IsCollapsed
    <3>5. Append(k, s) \in Path /\ IsPrefix(q, Append(k, s))
      BY <1>1, <2>1, <2>2, Child, PrefixOrder
    <3>6. Append(e, s) = Down(q, keep, Append(k, s))
      BY <1>1, <2>1, <2>2, <3>1, DownChild
    <3> QED
      BY <1>1, <3>4, <3>5, <3>6, UpDown
  <2>3. CASE ~IsPrefix(q, k)
    <3>1. Append(k, s) \in DOMAIN t
      BY <1>1, <2>1, <2>3 DEF Old
    <3>2. CASE IsPrefix(q, Append(k, s))
      BY <1>1, <1>7, <2>1, <2>3, <3>2, AboveChild
    <3>3. CASE ~IsPrefix(q, Append(k, s))
      BY <1>3, <3>1, <3>3 DEF IsCollapsed
    <3> QED
      BY <3>2, <3>3
  <2> QED
    BY <2>2, <2>3
<1>13. ASSUME NEW k \in DOMAIN u
       PROVE  \E j \in Leaves(u) : LeftEnd(k, j)
  <2>1. k \in Path /\ Len(k) \in Nat /\ Len(q) \in Nat
    BY <1>1, <1>8 DEF Path
  <2>2. ASSUME NEW j \in Leaves(t), IsPrefix(c, j)
        PROVE  Up(q, j) \in Leaves(u) /\ IsUp(Up(q, j), q, keep, j) /\ j \in Path /\ Len(j) \in Nat
    <3>1. j \in DOMAIN t /\ j \in Path
      BY <1>1 DEF Leaves
    <3>2. Up(q, j) \in DOMAIN u /\ u[Up(q, j)] = t[j]
      BY <1>2, <1>3, <2>2, <3>1 DEF IsCollapsed
    <3>3. IsUp(Up(q, j), q, keep, j)
      BY <1>1, <1>2, <2>2, <3>1, UpPath
    <3> QED
      BY <3>1, <3>2, <3>3 DEF Leaves, Path
  <2>3. CASE IsPrefix(q, k)
    <3>1. PICK e : e = Down(q, keep, k)
      OBVIOUS
    <3>2. e \in DOMAIN t /\ IsPrefix(c, e) /\ e \in Path
      BY <1>1, <1>2, <1>3, <2>3, <3>1 DEF IsCollapsed
    <3>3. PICK j \in Leaves(t) : LeftEnd(e, j)
      BY <1>1, <3>2
    <3>4. j \in Path /\ IsPrefix(e, j)
      BY <1>1, <3>3 DEF Leaves, LeftEnd
    <3>5. IsPrefix(c, j)
      BY <1>4, <3>2, <3>4, PrefixOrder
    <3>6. PICK v : v = Up(q, j)
      OBVIOUS
    <3>7. v \in Leaves(u) /\ IsUp(v, q, keep, j) /\ Len(j) \in Nat
      BY <2>2, <3>5, <3>6
    <3>8. IsDown(e, q, keep, k)
      BY <1>1, <2>1, <2>3, <3>1, DownPath
    <3>9. IsPrefix(k, v)
      <4>1. Down(q, keep, v) = j
        BY <1>1, <1>2, <3>4, <3>5, <3>6, UpDown
      <4>2. v \in Path /\ IsPrefix(q, v)
        BY <3>7 DEF IsUp
      <4> QED
        BY <1>1, <2>1, <2>3, <3>1, <3>4, <4>1, <4>2, DownOrder
    <3>10. ASSUME NEW i \in (Len(k) + 1)..Len(v)
           PROVE  v[i] = "first"
      <4>1. Len(v) = Len(j) - 1 /\ Len(e) = Len(k) + 1 /\ Len(q) <= Len(k)
        BY <3>7, <3>8 DEF IsUp, IsDown
      <4>2. i \in 1..(Len(j) - 1) /\ ~(i <= Len(q)) /\ i + 1 \in (Len(e) + 1)..Len(j)
        BY <2>1, <3>7, <4>1
      <4>3. v[i] = j[i + 1]
        BY <3>7, <4>2 DEF IsUp
      <4> QED
        BY <3>3, <4>2, <4>3 DEF LeftEnd
    <3> QED
      BY <3>7, <3>9, <3>10 DEF LeftEnd
  <2>4. CASE ~IsPrefix(q, k)
    <3>1. k \in DOMAIN t
      BY <1>3, <2>4 DEF IsCollapsed
    <3>2. PICK j \in Leaves(t) : LeftEnd(k, j)
      BY <1>1, <3>1
    <3>3. j \in Path /\ j \in DOMAIN t /\ IsPrefix(k, j) /\ Len(j) \in Nat
      BY <1>1, <3>2 DEF Leaves, LeftEnd, Path
    <3>4. CASE ~IsPrefix(q, j)
      <4>1. j \in Leaves(u)
        BY <1>3, <3>2, <3>3, <3>4 DEF IsCollapsed, Leaves
      <4> QED
        BY <3>2, <4>1
    <3>5. CASE IsPrefix(q, j)
      <4>1. IsPrefix(k, q)
        BY <1>1, <2>1, <2>4, <3>3, <3>5, PrefixOrder
      <4>2. Len(q) <= Len(j) /\ \A i \in 1..Len(q) : j[i] = q[i]
        BY <1>1, <3>3, <3>5, PrefixPoints
      <4>3. \A i \in (Len(k) + 1)..Len(q) : q[i] = "first"
        <5>1. \A i \in (Len(k) + 1)..Len(j) : j[i] = "first"
          BY <3>2 DEF LeftEnd
        <5> QED
          BY <2>1, <3>3, <4>2, <5>1
      <4>4. PICK l \in Leaves(t) : LeftEnd(c, l)
        BY <1>1, <1>6
      <4>5. PICK v : v = Up(q, l)
        OBVIOUS
      <4>6. v \in Leaves(u) /\ IsUp(v, q, keep, l) /\ l \in Path /\ Len(l) \in Nat
        BY <2>2, <4>4, <4>5 DEF LeftEnd
      <4>7. v \in Path /\ IsPrefix(q, v) /\ Len(v) = Len(l) - 1
        BY <4>6 DEF IsUp
      <4>8. IsPrefix(k, v)
        BY <1>1, <2>1, <4>1, <4>7, PrefixOrder
      <4>9. ASSUME NEW i \in (Len(k) + 1)..Len(v)
            PROVE  v[i] = "first"
        <5>1. i \in 1..(Len(l) - 1)
          BY <2>1, <4>6, <4>7
        <5>2. CASE i <= Len(q)
          <6>1. v[i] = q[i]
            BY <4>6, <5>1, <5>2 DEF IsUp
          <6>2. i \in (Len(k) + 1)..Len(q)
            BY <2>1, <4>6, <4>7, <5>2
          <6> QED
            BY <4>3, <6>1, <6>2
        <5>3. CASE ~(i <= Len(q))
          <6>1. v[i] = l[i + 1]
            BY <4>6, <5>1, <5>3 DEF IsUp
          <6>2. i + 1 \in (Len(c) + 1)..Len(l)
            BY <1>4, <2>1, <4>6, <4>7, <5>1, <5>3
          <6> QED
            BY <4>4, <6>1, <6>2 DEF LeftEnd
        <5> QED
          BY <5>2, <5>3
      <4> QED
        BY <4>6, <4>8, <4>9 DEF LeftEnd
    <3> QED
      BY <3>4, <3>5
  <2> QED
    BY <2>3, <2>4
<1>14. IsTree(u)
  <2>1. \A k \in DOMAIN u : IsNode(u[k])
    BY <1>1, <1>8
  <2>2. ASSUME NEW k \in Path, NEW s \in Sides, Append(k, s) \in DOMAIN u
        PROVE  k \in DOMAIN u
    <3>1. Append(k, s) \in Path /\ IsPrefix(k, Append(k, s))
      BY Child
    <3>2. CASE IsPrefix(q, k)
      <4>1. PICK e : e = Down(q, keep, k)
        OBVIOUS
      <4>2. IsDown(e, q, keep, k) /\ Up(q, e) = k
        BY <1>1, <3>2, <4>1, DownPath, UpDown
      <4>3. IsPrefix(q, Append(k, s)) /\ Down(q, keep, Append(k, s)) = Append(e, s)
        <5>1. IsPrefix(q, Append(k, s))
          BY <1>1, <3>1, <3>2, PrefixOrder
        <5>2. Down(q, keep, Append(k, s)) = Append(e, s)
          BY <1>1, <3>2, <4>1, DownChild
        <5> QED
          BY <5>1, <5>2
      <4>4. Append(e, s) \in DOMAIN t
        BY <1>2, <1>3, <2>2, <4>3 DEF IsCollapsed
      <4>5. e \in DOMAIN t /\ IsPrefix(c, e)
        BY <1>1, <1>2, <4>2, <4>4 DEF IsDown
      <4> QED
        BY <1>2, <1>3, <4>2, <4>5 DEF IsCollapsed
    <3>3. CASE ~IsPrefix(q, k)
      <4>1. Append(k, s) \in DOMAIN t
        <5>1. CASE IsPrefix(q, Append(k, s))
          <6>1. q = Append(k, s)
            BY <1>1, <3>3, <5>1, AboveChild
          <6> QED
            BY <6>1
        <5>2. CASE ~IsPrefix(q, Append(k, s))
          BY <1>3, <2>2, <5>2 DEF IsCollapsed
        <5> QED
          BY <5>1, <5>2
      <4> QED
        BY <1>1, <1>3, <3>3, <4>1 DEF IsCollapsed
    <3> QED
      BY <3>2, <3>3
  <2> QED
    BY <1>3, <1>10, <1>11, <1>12, <1>13, <2>1, <2>2 DEF IsTree, IsCollapsed
<1>15. PaneSet(u) \subseteq PaneSet(t)
  <2>1. ASSUME NEW x \in PaneSet(u)
        PROVE  x \in PaneSet(t)
    <3>1. PICK k \in DOMAIN u : u[k] = LeafNode(x)
      BY <1>14, PaneSetIs
    <3> QED
      BY <1>8, <3>1, PaneSetIs
  <2> QED
    BY <2>1
<1>16. ASSUME NEW x \in PaneSet(t) \ {p}
       PROVE  x \in PaneSet(u)
  <2>1. PICK k \in DOMAIN t : t[k] = LeafNode(x)
    BY PaneSetIs
  <2>2. k \in Leaves(t) /\ k \in Path
    BY <1>1, <2>1, NodeKinds DEF Leaves
  <2>3. CASE ~IsPrefix(q, k)
    BY <1>3, <1>14, <2>1, <2>3, PaneSetIs DEF IsCollapsed
  <2>4. CASE IsPrefix(q, k)
    <3>1. PICK s \in Sides : IsPrefix(Append(q, s), k)
      BY <1>1, <1>5, <2>2, <2>4, BelowChild
    <3>2. s = keep \/ s = drop
      BY DEF Sides
    <3>3. CASE s = keep
      BY <1>3, <1>14, <2>1, <3>1, <3>3, PaneSetIs DEF IsCollapsed
    <3>4. CASE s = drop
      <4>1. k = d
        BY <1>1, <1>2, <1>6, <3>1, <3>4
      <4>2. LeafNode(x) = LeafNode(p)
        BY <1>6, <2>1, <4>1
      <4> QED
        BY <4>2 DEF LeafNode
    <3> QED
      BY <3>2, <3>3, <3>4
  <2> QED
    BY <2>3, <2>4
<1> QED
  BY <1>14, <1>15, <1>16 DEF u

(* Removing a pane from a tree that is not the pane alone.                 *)
LEMMA RemoveLeafIsTree ==
    ASSUME NEW t, IsTree(t), NEW p
    PROVE  /\ IsTree(RemoveLeaf(t, p))
           /\ PaneSet(t) \ {p} \subseteq PaneSet(RemoveLeaf(t, p))
           /\ PaneSet(RemoveLeaf(t, p)) \subseteq PaneSet(t)
<1> DEFINE HasLeaf(k) == \E s \in Sides : IsLeafOf(t, Append(k, s), p)
           parents    == {k \in Way(t, p) :
                            HasLeaf(k) /\ \A j \in Way(t, p) :
                                             HasLeaf(j) /\ IsPrefix(j, k) => j = k}
           q          == CHOOSE k \in parents : TRUE
           keep       == IF IsLeafOf(t, Append(q, "first"), p) THEN "second" ELSE "first"
<1>1. RemoveLeaf(t, p) = IF parents = {} THEN t ELSE Collapse(t, q, keep)
  BY DEF RemoveLeaf
<1>2. CASE parents = {}
  BY <1>1, <1>2
<1>3. CASE parents # {}
  <2>1. q \in parents
    BY <1>3
  <2>2. q \in DOMAIN t /\ HasLeaf(q)
    BY <2>1 DEF Way
  <2>3. PICK k : k = q
    OBVIOUS
  <2>4. PICK e : e = keep
    OBVIOUS
  <2>5. RemoveLeaf(t, p) = Collapse(t, k, e)
    BY <1>1, <1>3, <2>3, <2>4
  <2>6. CASE IsLeafOf(t, Append(k, "first"), p)
    <3>1. e = "second"
      BY <2>3, <2>4, <2>6
    <3>2. "first" \in Sides /\ "second" \in Sides /\ Append(k, "first") \in DOMAIN t
          /\ t[Append(k, "first")] = LeafNode(p) /\ k \in DOMAIN t
      BY <2>2, <2>3, <2>6 DEF Sides, IsLeafOf
    <3> QED
      BY <2>5, <3>1, <3>2, CollapseIsTree
  <2>7. CASE ~IsLeafOf(t, Append(k, "first"), p)
    <3>1. e = "first" /\ IsLeafOf(t, Append(k, "second"), p)
      BY <2>2, <2>3, <2>4, <2>7 DEF Sides
    <3>2. "first" \in Sides /\ "second" \in Sides /\ Append(k, "second") \in DOMAIN t
          /\ t[Append(k, "second")] = LeafNode(p) /\ k \in DOMAIN t
      BY <2>2, <2>3, <3>1 DEF Sides, IsLeafOf
    <3> QED
      BY <2>5, <3>1, <3>2, CollapseIsTree
  <2> QED
    BY <2>6, <2>7
<1> QED
  BY <1>2, <1>3

-----------------------------------------------------------------------------
(* Numbers *)

(* There is no infinite descent among the natural numbers.                 *)
LEMMA LessWF == IsWellFoundedOn({ss \in Nat \X Nat : ss[1] < ss[2]}, Nat)
  BY NatLessThanWellFounded DEF OpToRel

(* A set with numbers in it has a least one.                               *)
LEMMA Least ==
    ASSUME NEW S, S \subseteq Nat, S # {}
    PROVE  \E x \in S : \A y \in S : x <= y
<1>1. PICK x \in S : \A y \in S : ~(<<y, x>> \in {ss \in Nat \X Nat : ss[1] < ss[2]})
  BY LessWF, WFMin, Zenon
<1>2. ASSUME NEW y \in S
      PROVE  x <= y
  <2>1. x \in Nat /\ y \in Nat
    OBVIOUS
  <2>2. ~(y < x)
    BY <1>1, <2>1
  <2> QED
    BY <2>1, <2>2
<1> QED
  BY <1>2

(* What holds of 0, and of the successor of whatever it holds of.          *)
LEMMA UpTo ==
    ASSUME NEW n \in Nat, NEW S, 0 \in S, \A i \in 0..(n - 1) : i \in S => i + 1 \in S
    PROVE  0..n \subseteq S
<1> DEFINE T == (0..n) \ S
<1> SUFFICES ASSUME T # {}
             PROVE  FALSE
  OBVIOUS
<1>0. T \subseteq Nat
  OBVIOUS
<1>1. PICK x \in T : \A y \in T : x <= y
  <2> HIDE DEF T
  <2> QED
    BY <1>0, Least
<1>2. x \in Nat /\ x # 0 /\ x <= n
  OBVIOUS
<1>3. x - 1 \in 0..(n - 1) /\ (x - 1) + 1 = x /\ ~(x <= x - 1)
  BY <1>2
<1>4. x - 1 \in S
  BY <1>1, <1>2, <1>3
<1> QED
  BY <1>3, <1>4

(* A set of numbers up to n has a greatest one.                            *)
LEMMA Greatest ==
    ASSUME NEW n \in Nat, NEW S, S \subseteq 0..n, S # {}
    PROVE  Max(S) \in S
<1> DEFINE T == {n - k : k \in S}
<1>1. T \subseteq Nat /\ T # {}
  <2>1. \A k \in S : n - k \in Nat
    OBVIOUS
  <2>2. T \subseteq Nat
    BY <2>1
  <2>3. T # {}
    OBVIOUS
  <2> QED
    BY <2>2, <2>3
<1>2. PICK x \in T : \A y \in T : x <= y
  <2> HIDE DEF T
  <2> QED
    BY <1>1, Least
<1>3. PICK k \in S : x = n - k
  OBVIOUS
<1>4. ASSUME NEW j \in S
      PROVE  k >= j
  <2>1. n - j \in T /\ j \in Nat /\ k \in Nat
    OBVIOUS
  <2>2. n - k <= n - j
    BY <1>2, <1>3, <2>1
  <2> QED
    BY <2>1, <2>2
<1> QED
  BY <1>4 DEF Max

-----------------------------------------------------------------------------
(* Sequences *)

(* The elements of a sequence are what stands at its positions.            *)
LEMMA RangeAt ==
    ASSUME NEW S, NEW u \in Seq(S)
    PROVE  /\ Len(u) \in Nat /\ Range(u) \subseteq S /\ u \in Seq(Range(u))
           /\ \A x : x \in Range(u) <=> \E i \in 1..Len(u) : u[i] = x
           /\ \A i \in 1..Len(u) : u[i] \in Range(u)
<1>1. Len(u) \in Nat /\ DOMAIN u = 1..Len(u) /\ \A i \in 1..Len(u) : u[i] \in S
  OBVIOUS
<1>2. \A x : x \in Range(u) <=> \E i \in 1..Len(u) : u[i] = x
  BY <1>1 DEF Range
<1>3. u \in Seq(Range(u))
  <2>1. u = [i \in 1..Len(u) |-> u[i]]
    BY <1>1
  <2>2. \A i \in 1..Len(u) : u[i] \in Range(u)
    BY <1>2
  <2> QED
    BY <1>1, <2>1, <2>2
<1> QED
  BY <1>1, <1>2, <1>3

(* Appending.                                                              *)
LEMMA AppendRange ==
    ASSUME NEW S, NEW u \in Seq(S), NEW e \in S
    PROVE  Append(u, e) \in Seq(S) /\ Range(Append(u, e)) = Range(u) \cup {e}
<1> DEFINE v == Append(u, e)
           n == Len(u)
<1>1. n \in Nat /\ v \in Seq(S) /\ Len(v) = n + 1 /\ v[n + 1] = e
      /\ \A i \in 1..n : v[i] = u[i]
  OBVIOUS
<1>2. \A x : x \in Range(v) <=> \E i \in 1..Len(v) : v[i] = x
  BY <1>1, RangeAt
<1>3. \A x : x \in Range(u) <=> \E i \in 1..n : u[i] = x
  BY RangeAt
<1> HIDE DEF v, n
<1>4. \A x \in Range(v) : x \in Range(u) \cup {e}
  BY <1>1, <1>2, <1>3
<1>5. \A x \in Range(u) \cup {e} : x \in Range(v)
  <2>1. e \in Range(v)
    BY <1>1, <1>2
  <2>2. ASSUME NEW x \in Range(u)
        PROVE  x \in Range(v)
    BY <1>1, <1>2, <1>3
  <2> QED
    BY <2>1, <2>2
<1>6. v \in Seq(S) /\ Range(v) = Range(u) \cup {e}
  BY <1>1, <1>4, <1>5
<1> QED
  BY <1>6 DEF v

(* Leaving out one element.                                                *)
LEMMA LowerRange ==
    ASSUME NEW S, NEW u \in Seq(S), NEW p
    PROVE  /\ Lower(u, p) \in Seq(S) /\ Range(Lower(u, p)) \subseteq Range(u)
           /\ Range(u) \ {p} \subseteq Range(Lower(u, p))
<1>1. CASE p \notin Range(u)
  BY <1>1 DEF Lower
<1>2. CASE p \in Range(u)
  <2>1. PICK k : k = CHOOSE i \in 1..Len(u) : u[i] = p
    OBVIOUS
  <2>2. k \in 1..Len(u) /\ u[k] = p
    BY <1>2, <2>1, RangeAt
  <2>3. PICK v : v = RemoveAt(u, k)
    OBVIOUS
  <2>4. Lower(u, p) = v
    BY <1>2, <2>1, <2>3 DEF Lower
  <2>5. /\ v \in Seq(S) /\ Len(v) = Len(u) - 1
        /\ \A i \in 1..(Len(u) - 1) : v[i] = IF i < k THEN u[i] ELSE u[i + 1]
    BY <2>2, <2>3, RemoveAtSeq
  <2>6. PICK n \in Nat : n = Len(u)
    BY RangeAt
  <2>7. \A x : x \in Range(v) <=> \E i \in 1..Len(v) : v[i] = x
    BY <2>5, RangeAt
  <2>8. \A x : x \in Range(u) <=> \E i \in 1..n : u[i] = x
    BY <2>6, RangeAt
  <2>9. ASSUME NEW x \in Range(v)
        PROVE  x \in Range(u)
    <3>1. PICK i \in 1..(n - 1) : v[i] = x
      BY <2>5, <2>6, <2>7
    <3>2. i \in 1..n /\ i + 1 \in 1..n /\ (v[i] = u[i] \/ v[i] = u[i + 1])
      BY <2>5, <2>6, <3>1
    <3> QED
      BY <2>8, <3>1, <3>2
  <2>10. ASSUME NEW x \in Range(u) \ {p}
         PROVE  x \in Range(v)
    <3>1. PICK i \in 1..n : u[i] = x
      BY <2>8
    <3>2. i # k
      BY <2>2, <3>1
    <3>3. CASE i < k
      <4>1. i \in 1..(n - 1)
        BY <2>2, <2>6, <3>3
      <4> QED
        BY <2>5, <2>6, <2>7, <3>1, <3>3, <4>1
    <3>4. CASE i > k
      <4>1. i - 1 \in 1..(n - 1) /\ ~(i - 1 < k) /\ (i - 1) + 1 = i
        BY <2>2, <2>6, <3>4
      <4> QED
        BY <2>5, <2>6, <2>7, <3>1, <4>1
    <3> QED
      BY <2>2, <2>6, <3>2, <3>3, <3>4
  <2> QED
    BY <2>4, <2>5, <2>9, <2>10
<1> QED
  BY <1>1, <1>2

(* SetToSeq lists a finite set.                                            *)
LEMMA SetToSeqRange ==
    ASSUME NEW S, IsFiniteSet(S)
    PROVE  SetToSeq(S) \in Seq(S) /\ Range(SetToSeq(S)) = S
<1> DEFINE n == Cardinality(S)
           u == SetToSeq(S)
<1>1. n \in Nat /\ ExistsBijection(1..n, S)
  BY FS_CardinalityType
<1>2. PICK f : f \in Bijection(1..n, S)
  BY <1>1 DEF ExistsBijection
<1>3. f \in [1..n -> S] /\ IsInjective(f)
  BY <1>2 DEF Bijection, Injection, IsInjective
<1>4. u \in [1..n -> S] /\ IsInjective(u)
  BY <1>3 DEF SetToSeq
<1> HIDE DEF u
<1>5. u \in Injection(1..n, S)
  BY <1>4 DEF Injection, IsInjective
<1>6. Cardinality(1..n) = n /\ IsFiniteSet(1..n)
  BY <1>1, FS_Interval
<1>7. u \in Surjection(1..n, S)
  BY <1>5, <1>6, FS_Injection DEF n
<1>8. Range(u) = S
  BY <1>4, <1>7 DEF Surjection, Range
<1>9. u \in Seq(S)
  BY <1>1, <1>4
<1> QED
  BY <1>8, <1>9 DEF u

-----------------------------------------------------------------------------
(* Tabs *)

(* A tree with panes in P, a stack of them, and a tab that knows only of   *)
(* panes in P.                                                             *)
IsTreeOf(t, P) == IsTree(t) /\ PaneSet(t) \subseteq P

IsStack(u, P) == u \in Seq(Range(u)) /\ \A t \in Range(u) : IsTreeOf(t, P)

IsTab(tab, P) ==
    /\ tab = [tree |-> tab.tree, floating |-> tab.floating, active |-> tab.active,
              undo |-> tab.undo, redo |-> tab.redo]
    /\ IsTreeOf(tab.tree, P) /\ tab.floating \in Seq(P) /\ tab.active \in P
    /\ IsStack(tab.undo, P) /\ Len(tab.undo) <= MaxUndo
    /\ IsStack(tab.redo, P) /\ Len(tab.redo) <= MaxUndo

(* A tab made of such parts.                                               *)
LEMMA MakeTab ==
    ASSUME NEW P, NEW t, IsTreeOf(t, P), NEW f \in Seq(P), NEW a \in P,
           NEW u, IsStack(u, P), Len(u) <= MaxUndo,
           NEW r, IsStack(r, P), Len(r) <= MaxUndo
    PROVE  IsTab([tree |-> t, floating |-> f, active |-> a, undo |-> u, redo |-> r], P)
  BY DEF IsTab

(* A tab knows of what it remembers, and of nothing else.                  *)
LEMMA TabSelf ==
    ASSUME NEW P, NEW tab, IsTab(tab, P)
    PROVE  /\ IsTab(tab, Remembered(tab)) /\ Remembered(tab) \subseteq P
           /\ AllPanes(tab) \subseteq Remembered(tab) /\ FirstPane(tab.tree) \in AllPanes(tab)
           /\ tab.active \in Remembered(tab)
<1> DEFINE R == Remembered(tab)
<1>1. /\ IsTreeOf(tab.tree, P) /\ tab.floating \in Seq(P) /\ tab.active \in P
      /\ IsStack(tab.undo, P) /\ IsStack(tab.redo, P)
  BY DEF IsTab
<1>2. AllPanes(tab) \subseteq R /\ tab.active \in R
  BY DEF Remembered
<1>3. PaneSet(tab.tree) \subseteq AllPanes(tab) /\ Range(tab.floating) \subseteq AllPanes(tab)
  BY DEF AllPanes
<1>4. /\ \A t \in Range(tab.undo) : IsTree(t) /\ PaneSet(t) \subseteq P /\ PaneSet(t) \subseteq R
      /\ \A t \in Range(tab.redo) : IsTree(t) /\ PaneSet(t) \subseteq P /\ PaneSet(t) \subseteq R
  BY <1>1 DEF IsStack, IsTreeOf, Remembered
<1>5. tab.floating \in Seq(Range(tab.floating)) /\ Range(tab.floating) \subseteq P
  BY <1>1, RangeAt
<1>6. R \subseteq P
  BY <1>1, <1>4, <1>5 DEF Remembered, AllPanes, IsTreeOf
<1>7. tab.floating \in Seq(R)
  <2>1. Range(tab.floating) \subseteq R
    BY <1>2, <1>3
  <2> HIDE DEF R
  <2> QED
    BY <1>5, <2>1
<1>8. IsTreeOf(tab.tree, R)
  BY <1>1, <1>2, <1>3 DEF IsTreeOf
<1>9. IsStack(tab.undo, R) /\ IsStack(tab.redo, R)
  BY <1>1, <1>4 DEF IsStack, IsTreeOf
<1> HIDE DEF R
<1>10. IsTab(tab, R)
  BY <1>2, <1>7, <1>8, <1>9 DEF IsTab
<1>11. FirstPane(tab.tree) \in AllPanes(tab)
  BY <1>1, <1>3, FirstPaneIn DEF IsTreeOf
<1> QED
  BY <1>2, <1>6, <1>10, <1>11 DEF R

(* More panes may be allowed.                                              *)
LEMMA TabWider ==
    ASSUME NEW P, NEW Q, P \subseteq Q, NEW tab, IsTab(tab, P)
    PROVE  IsTab(tab, Q)
<1>1. tab.floating \in Seq(Q)
  BY DEF IsTab
<1> QED
  BY <1>1 DEF IsTab, IsStack, IsTreeOf

(* A tree is pushed; the oldest goes when there are too many.              *)
LEMMA PushIsStack ==
    ASSUME NEW P, NEW u, IsStack(u, P), Len(u) <= MaxUndo, NEW t, IsTreeOf(t, P)
    PROVE  IsStack(Push(u, t), P) /\ Len(Push(u, t)) <= MaxUndo
<1> DEFINE S == Range(u) \cup {t}
           w == IF Len(u) >= MaxUndo THEN Tail(u) ELSE u
           v == Append(w, t)
<1>1. u \in Seq(S) /\ Len(u) \in Nat /\ MaxUndo \in Nat \ {0}
  <2>1. u \in Seq(Range(u))
    BY DEF IsStack
  <2> QED
    BY <2>1, SessionAssumption
<1>2. \A x \in S : IsTreeOf(x, P)
  BY DEF IsStack
<1>3. t \in S
  OBVIOUS
<1> HIDE DEF S
<1>4. w \in Seq(S) /\ Len(w) < MaxUndo /\ Len(w) \in Nat
  <2>1. CASE Len(u) >= MaxUndo
    <3>1. u # << >>
      BY <1>1, <2>1
    <3>2. Tail(u) \in Seq(S) /\ Len(Tail(u)) = Len(u) - 1
      BY <1>1, <3>1
    <3> QED
      BY <1>1, <2>1, <3>2
  <2>2. CASE ~(Len(u) >= MaxUndo)
    BY <1>1, <2>2
  <2> QED
    BY <2>1, <2>2
<1> HIDE DEF w
<1>5. v \in Seq(S) /\ Len(v) = Len(w) + 1
  BY <1>3, <1>4
<1> HIDE DEF v
<1>6. v \in Seq(Range(v)) /\ Range(v) \subseteq S
  BY <1>5, RangeAt
<1>7. IsStack(v, P) /\ Len(v) <= MaxUndo
  BY <1>1, <1>2, <1>4, <1>5, <1>6 DEF IsStack
<1> QED
  BY <1>7 DEF v, w, Push

(* The empty stack, and the older part of a stack.                         *)
LEMMA OlderIsStack ==
    ASSUME NEW P, NEW u, IsStack(u, P), Len(u) <= MaxUndo
    PROVE  /\ IsStack(<< >>, P) /\ Len(<< >>) <= MaxUndo
           /\ \A k \in 1..Len(u) : /\ IsStack(SubSeq(u, 1, k - 1), P)
                                   /\ Len(SubSeq(u, 1, k - 1)) <= MaxUndo
                                   /\ IsTreeOf(u[k], P)
<1>1. u \in Seq(Range(u)) /\ Len(u) \in Nat /\ MaxUndo \in Nat
  BY SessionAssumption DEF IsStack
<1>2. IsStack(<< >>, P) /\ Len(<< >>) <= MaxUndo
  <2>1. << >> \in Seq({}) /\ Len(<< >>) = 0
    OBVIOUS
  <2>2. PICK e, S : e = << >> /\ S = {}
    OBVIOUS
  <2>3. e \in Seq(Range(e)) /\ Range(e) \subseteq {}
    <3>1. e \in Seq(S)
      BY <2>1, <2>2
    <3>2. e \in Seq(Range(e)) /\ Range(e) \subseteq S
      BY <3>1, RangeAt
    <3> QED
      BY <2>2, <3>2
  <2>4. IsStack(e, P)
    BY <2>3 DEF IsStack
  <2> QED
    BY <1>1, <2>1, <2>2, <2>4
<1>3. ASSUME NEW k \in 1..Len(u)
      PROVE  /\ IsStack(SubSeq(u, 1, k - 1), P) /\ Len(SubSeq(u, 1, k - 1)) <= MaxUndo
             /\ IsTreeOf(u[k], P)
  <2> DEFINE v == SubSeq(u, 1, k - 1)
  <2>1. v \in Seq(Range(u)) /\ Len(v) = k - 1
    BY <1>1
  <2>2. u[k] \in Range(u)
    BY <1>1, RangeAt
  <2> HIDE DEF v
  <2>3. v \in Seq(Range(v)) /\ Range(v) \subseteq Range(u)
    BY <2>1, RangeAt
  <2>4. IsStack(v, P) /\ Len(v) <= MaxUndo /\ IsTreeOf(u[k], P)
    BY <1>1, <2>1, <2>2, <2>3 DEF IsStack
  <2> QED
    BY <2>4 DEF v
<1> QED
  BY <1>2, <1>3

(* What LastLive finds can be brought back: its panes are in the tab.      *)
LEMMA LastLiveFound ==
    ASSUME NEW u, u \in Seq(Range(u)), NEW tab, LastLive(u, tab) # 0
    PROVE  /\ LastLive(u, tab) \in 1..Len(u)
           /\ PaneSet(u[LastLive(u, tab)]) \subseteq AllPanes(tab)
<1> DEFINE S == {0} \cup {k \in 1..Len(u) : PaneSet(u[k]) \subseteq AllPanes(tab)}
<1>1. Len(u) \in Nat
  OBVIOUS
<1>2. S \subseteq 0..Len(u) /\ S # {}
  BY <1>1
<1> HIDE DEF S
<1>3. Max(S) \in S
  BY <1>1, <1>2, Greatest
<1>4. LastLive(u, tab) \in S
  BY <1>3 DEF LastLive, S
<1> QED
  BY <1>4 DEF S

-----------------------------------------------------------------------------
(* Edits of a tab *)

(* A tab u that an edit of tab may leave behind, with the panes of more    *)
(* added.                                                                  *)
IsEdit(u, tab, more) ==
    IsTab(u, Remembered(tab) \cup more) /\ AllPanes(u) \subseteq AllPanes(tab) \cup more

(* A tab with another active pane.                                         *)
LEMMA WithActive ==
    ASSUME NEW P, NEW tab, IsTab(tab, P), NEW p \in P
    PROVE  /\ IsTab([tab EXCEPT !.active = p], P)
           /\ AllPanes([tab EXCEPT !.active = p]) = AllPanes(tab)
<1> DEFINE u == [tab EXCEPT !.active = p]
<1>1. u = [tree |-> tab.tree, floating |-> tab.floating, active |-> p,
           undo |-> tab.undo, redo |-> tab.redo]
  BY DEF IsTab
<1> HIDE DEF u
<1>2. IsTab(u, P)
  BY <1>1, MakeTab DEF IsTab
<1>3. AllPanes(u) = AllPanes(tab)
  BY <1>1 DEF AllPanes
<1> QED
  BY <1>2, <1>3 DEF u

(* A tab with another floating layer.                                      *)
LEMMA WithFloating ==
    ASSUME NEW P, NEW tab, IsTab(tab, P), NEW f \in Seq(P)
    PROVE  /\ IsTab([tab EXCEPT !.floating = f], P)
           /\ [tab EXCEPT !.floating = f].floating = f
           /\ [tab EXCEPT !.floating = f].tree = tab.tree
           /\ [tab EXCEPT !.floating = f].active = tab.active
<1> DEFINE u == [tab EXCEPT !.floating = f]
<1>1. u = [tree |-> tab.tree, floating |-> f, active |-> tab.active,
           undo |-> tab.undo, redo |-> tab.redo]
  BY DEF IsTab
<1> HIDE DEF u
<1>2. IsTab(u, P)
  BY <1>1, MakeTab DEF IsTab
<1>3. u.floating = f /\ u.tree = tab.tree /\ u.active = tab.active
  BY <1>1
<1> QED
  BY <1>2, <1>3 DEF u

(* A tab with another tree, and the old one on its undo stack.             *)
LEMMA SetTreeIs ==
    ASSUME NEW P, NEW tab, IsTab(tab, P), NEW t, IsTreeOf(t, P)
    PROVE  /\ IsTab(SetTree(tab, t), P) /\ SetTree(tab, t).tree = t
           /\ SetTree(tab, t).floating = tab.floating
<1> DEFINE u == SetTree(tab, t)
           s == Push(tab.undo, tab.tree)
<1>1. IsTreeOf(tab.tree, P) /\ IsStack(tab.undo, P) /\ Len(tab.undo) <= MaxUndo
  BY DEF IsTab
<1>2. IsStack(s, P) /\ Len(s) <= MaxUndo /\ IsStack(<< >>, P) /\ Len(<< >>) <= MaxUndo
  BY <1>1, PushIsStack, OlderIsStack
<1>3. u = [tree |-> t, floating |-> tab.floating, active |-> tab.active,
           undo |-> s, redo |-> << >>]
  <2>1. tab = [tree |-> tab.tree, floating |-> tab.floating, active |-> tab.active,
               undo |-> tab.undo, redo |-> tab.redo]
    BY DEF IsTab
  <2>2. u = [tab EXCEPT !.undo = s, !.redo = << >>, !.tree = t]
    BY DEF SetTree
  <2> HIDE DEF u, s
  <2> QED
    BY <2>1, <2>2
<1> HIDE DEF u, s
<1>4. tab.floating \in Seq(P) /\ tab.active \in P
  BY DEF IsTab
<1>5. IsTab(u, P)
  BY <1>2, <1>3, <1>4, MakeTab
<1>6. u.tree = t /\ u.floating = tab.floating
  BY <1>3
<1> QED
  BY <1>5, <1>6 DEF u

(* A tree of the same panes in place of the tree.                          *)
LEMMA ReshapeIsEdit ==
    ASSUME NEW P, NEW tab, IsTab(tab, P), NEW t, IsTree(t),
           NEW more, PaneSet(t) \subseteq PaneSet(tab.tree) \cup more
    PROVE  /\ IsEdit(SetTree(tab, t), tab, more)
           /\ PaneSet(tab.tree) \subseteq PaneSet(t) =>
                AllPanes(tab) \subseteq AllPanes(SetTree(tab, t))
<1> DEFINE R == Remembered(tab) \cup more
           u == SetTree(tab, t)
<1>1. IsTab(tab, R) /\ AllPanes(tab) \subseteq Remembered(tab)
  BY TabSelf, TabWider
<1>2. PaneSet(tab.tree) \subseteq AllPanes(tab)
  BY DEF AllPanes
<1>3. IsTreeOf(t, R)
  BY <1>1, <1>2 DEF IsTreeOf
<1> HIDE DEF R
<1>4. IsTab(u, R) /\ u.tree = t /\ u.floating = tab.floating
  BY <1>1, <1>3, SetTreeIs
<1>5. AllPanes(u) \subseteq AllPanes(tab) \cup more
  BY <1>4 DEF AllPanes
<1>6. PaneSet(tab.tree) \subseteq PaneSet(t) => AllPanes(tab) \subseteq AllPanes(u)
  BY <1>4 DEF AllPanes
<1> QED
  BY <1>4, <1>5, <1>6 DEF IsEdit, R

(* The split tree is split, resized, equalized or its divider dragged.     *)
LEMMA TreeEdits ==
    ASSUME NEW P, NEW tab, IsTab(tab, P), NEW p, NEW d, NEW new, NEW f, NEW delta,
           NEW a, NEW b, NEW r
    PROVE  /\ IsEdit(SetTree(tab, SplitAt(tab.tree, p, d, new)), tab, {new})
           /\ AllPanes(tab) \subseteq AllPanes(SetTree(tab, SplitAt(tab.tree, p, d, new)))
           /\ IsEdit(SetTree(tab, TryResizeToward(tab.tree, p, d, f, delta)[1]), tab, {})
           /\ IsEdit(SetTree(tab, Equalize(tab.tree)), tab, {})
           /\ IsEdit(SetTree(tab, SetDividerRatio(tab.tree, a, b, r)), tab, {})
<1>1. IsTree(tab.tree)
  BY DEF IsTab, IsTreeOf
<1>2. PICK s : s = SplitAt(tab.tree, p, d, new)
  OBVIOUS
<1>3. /\ IsTree(s) /\ PaneSet(s) \subseteq PaneSet(tab.tree) \cup {new}
      /\ PaneSet(tab.tree) \subseteq PaneSet(s)
  BY <1>1, <1>2, SplitAtIsTree
<1>4. PICK x : x = TryResizeToward(tab.tree, p, d, f, delta)[1]
  OBVIOUS
<1>5. IsTree(x) /\ PaneSet(x) \subseteq PaneSet(tab.tree) \cup {}
  BY <1>1, <1>4, ResizeIsTree
<1>6. PICK y : y = Equalize(tab.tree)
  OBVIOUS
<1>7. IsTree(y) /\ PaneSet(y) \subseteq PaneSet(tab.tree) \cup {}
  BY <1>1, <1>6, EqualizeIsTree
<1>8. PICK z : z = SetDividerRatio(tab.tree, a, b, r)
  OBVIOUS
<1>9. IsTree(z) /\ PaneSet(z) \subseteq PaneSet(tab.tree) \cup {}
  BY <1>1, <1>8, DividerIsTree
<1>10. /\ IsEdit(SetTree(tab, s), tab, {new}) /\ AllPanes(tab) \subseteq AllPanes(SetTree(tab, s))
       /\ IsEdit(SetTree(tab, x), tab, {}) /\ IsEdit(SetTree(tab, y), tab, {})
       /\ IsEdit(SetTree(tab, z), tab, {})
  BY <1>3, <1>5, <1>7, <1>9, ReshapeIsEdit
<1> QED
  BY <1>2, <1>4, <1>6, <1>8, <1>10

(* The focus moves, and a floating pane may be raised.                     *)
LEMMA FocusEdits ==
    ASSUME NEW P, NEW tab, IsTab(tab, P), NEW p \in AllPanes(tab)
    PROVE  /\ IsEdit([tab EXCEPT !.active = p], tab, {})
           /\ p \in Range(tab.floating) =>
                IsEdit([tab EXCEPT !.active = p, !.floating = Raise(@, p)], tab, {})
<1> DEFINE R == Remembered(tab) \cup {}
<1>1. IsTab(tab, R) /\ p \in R
  BY TabSelf
<1> HIDE DEF R
<1>2. IsEdit([tab EXCEPT !.active = p], tab, {})
  BY <1>1, WithActive DEF IsEdit, R
<1>3. ASSUME p \in Range(tab.floating)
      PROVE  IsEdit([tab EXCEPT !.active = p, !.floating = Raise(@, p)], tab, {})
  <2> DEFINE l == Lower(tab.floating, p)
             f == Append(l, p)
             u == [[tab EXCEPT !.active = p] EXCEPT !.floating = f]
  <2>1. tab.floating \in Seq(R)
    BY <1>1 DEF IsTab
  <2>2. l \in Seq(R) /\ Range(l) \subseteq Range(tab.floating)
    BY <2>1, LowerRange
  <2> HIDE DEF l
  <2>3. f \in Seq(R) /\ Range(f) \subseteq Range(tab.floating)
    BY <1>1, <1>3, <2>2, AppendRange
  <2> HIDE DEF f
  <2>4. PICK v : v = [tab EXCEPT !.active = p]
    OBVIOUS
  <2>5. IsTab(v, R) /\ AllPanes(v) = AllPanes(tab) /\ v.floating = tab.floating
    BY <1>1, <2>4, WithActive DEF IsTab
  <2>6. IsTab(u, R) /\ u.floating = f /\ u.tree = v.tree
    <3>1. u = [v EXCEPT !.floating = f]
      BY <2>4
    <3> HIDE DEF u
    <3> QED
      BY <2>3, <2>5, <3>1, WithFloating
  <2>7. [tab EXCEPT !.active = p, !.floating = Raise(@, p)] = u
    BY <1>1 DEF IsTab, Raise, f, l
  <2> HIDE DEF u
  <2>8. AllPanes(u) \subseteq AllPanes(tab)
    BY <2>3, <2>5, <2>6 DEF AllPanes
  <2> QED
    BY <2>6, <2>7, <2>8 DEF IsEdit, R
<1> QED
  BY <1>2, <1>3

(* undo_tree brings back a tree whose panes are all in the tab, or none.   *)
LEMMA UndoIsEdit ==
    ASSUME NEW P, NEW tab, IsTab(tab, P)
    PROVE  IsEdit(UndoTree(tab), tab, {}) /\ IsEdit(RedoTree(tab), tab, {})
<1> DEFINE R == Remembered(tab) \cup {}
<1>1. IsTab(tab, R) /\ AllPanes(tab) \subseteq R
  BY TabSelf
<1> HIDE DEF R
<1>2. PICK t, f, a, u, r : tab = [tree |-> t, floating |-> f, active |-> a, undo |-> u, redo |-> r]
  BY DEF IsTab
<1>3. /\ tab.tree = t /\ tab.floating = f /\ tab.active = a /\ tab.undo = u /\ tab.redo = r
  BY <1>2
<1>4. /\ IsTreeOf(t, R) /\ f \in Seq(R) /\ a \in R
      /\ IsStack(u, R) /\ Len(u) <= MaxUndo /\ IsStack(r, R) /\ Len(r) <= MaxUndo
  BY <1>1, <1>3 DEF IsTab
<1>5. /\ IsStack(Push(u, t), R) /\ Len(Push(u, t)) <= MaxUndo
      /\ IsStack(Push(r, t), R) /\ Len(Push(r, t)) <= MaxUndo
      /\ IsStack(<< >>, R) /\ Len(<< >>) <= MaxUndo
  BY <1>4, PushIsStack, OlderIsStack
<1>6. u \in Seq(Range(u)) /\ r \in Seq(Range(r))
  BY <1>4 DEF IsStack
<1>7. IsEdit(UndoTree(tab), tab, {})
  <2>1. CASE LastLive(u, tab) = 0
    <3>1. PICK v : v = [tree |-> t, floating |-> f, active |-> a, undo |-> << >>, redo |-> r]
      OBVIOUS
    <3>2. UndoTree(tab) = v
      BY <1>2, <1>3, <2>1, <3>1 DEF UndoTree
    <3>3. IsTab(v, R)
      BY <1>4, <1>5, <3>1, MakeTab
    <3>4. AllPanes(v) = AllPanes(tab)
      BY <1>3, <3>1 DEF AllPanes
    <3> QED
      BY <3>2, <3>3, <3>4 DEF IsEdit, R
  <2>2. CASE LastLive(u, tab) # 0
    <3>1. PICK k : k = LastLive(u, tab)
      OBVIOUS
    <3>2. k \in 1..Len(u) /\ PaneSet(u[k]) \subseteq AllPanes(tab)
      BY <1>6, <2>2, <3>1, LastLiveFound
    <3>3. /\ IsStack(SubSeq(u, 1, k - 1), R) /\ Len(SubSeq(u, 1, k - 1)) <= MaxUndo
          /\ IsTreeOf(u[k], R)
      BY <1>4, <3>2, OlderIsStack
    <3>4. PICK v : v = [tree |-> u[k], floating |-> f, active |-> a,
                        undo |-> SubSeq(u, 1, k - 1), redo |-> Push(r, t)]
      OBVIOUS
    <3>5. UndoTree(tab) = v
      <4>1. PICK x, y, z : x = SubSeq(u, 1, k - 1) /\ y = Push(r, t) /\ z = u[k]
        OBVIOUS
      <4>2. UndoTree(tab) = [tab EXCEPT !.undo = x, !.redo = y, !.tree = z]
        BY <1>3, <2>2, <3>1, <4>1 DEF UndoTree
      <4>3. v = [tree |-> z, floating |-> f, active |-> a, undo |-> x, redo |-> y]
        BY <3>4, <4>1
      <4> QED
        BY <1>2, <4>2, <4>3
    <3>6. IsTab(v, R)
      BY <1>4, <1>5, <3>3, <3>4, MakeTab
    <3>7. AllPanes(v) \subseteq AllPanes(tab)
      BY <1>3, <3>2, <3>4 DEF AllPanes
    <3> QED
      BY <3>5, <3>6, <3>7 DEF IsEdit, R
  <2> QED
    BY <2>1, <2>2
<1>8. IsEdit(RedoTree(tab), tab, {})
  <2>1. CASE LastLive(r, tab) = 0
    <3>1. PICK v : v = [tree |-> t, floating |-> f, active |-> a, undo |-> u, redo |-> << >>]
      OBVIOUS
    <3>2. RedoTree(tab) = v
      BY <1>2, <1>3, <2>1, <3>1 DEF RedoTree
    <3>3. IsTab(v, R)
      BY <1>4, <1>5, <3>1, MakeTab
    <3>4. AllPanes(v) = AllPanes(tab)
      BY <1>3, <3>1 DEF AllPanes
    <3> QED
      BY <3>2, <3>3, <3>4 DEF IsEdit, R
  <2>2. CASE LastLive(r, tab) # 0
    <3>1. PICK k : k = LastLive(r, tab)
      OBVIOUS
    <3>2. k \in 1..Len(r) /\ PaneSet(r[k]) \subseteq AllPanes(tab)
      BY <1>6, <2>2, <3>1, LastLiveFound
    <3>3. /\ IsStack(SubSeq(r, 1, k - 1), R) /\ Len(SubSeq(r, 1, k - 1)) <= MaxUndo
          /\ IsTreeOf(r[k], R)
      BY <1>4, <3>2, OlderIsStack
    <3>4. PICK v : v = [tree |-> r[k], floating |-> f, active |-> a,
                        undo |-> Push(u, t), redo |-> SubSeq(r, 1, k - 1)]
      OBVIOUS
    <3>5. RedoTree(tab) = v
      <4>1. PICK x, y, z : x = SubSeq(r, 1, k - 1) /\ y = Push(u, t) /\ z = r[k]
        OBVIOUS
      <4>2. RedoTree(tab) = [tab EXCEPT !.redo = x, !.undo = y, !.tree = z]
        BY <1>3, <2>2, <3>1, <4>1 DEF RedoTree
      <4>3. v = [tree |-> z, floating |-> f, active |-> a, undo |-> y, redo |-> x]
        BY <3>4, <4>1
      <4> QED
        BY <1>2, <4>2, <4>3
    <3>6. IsTab(v, R)
      BY <1>4, <1>5, <3>3, <3>4, MakeTab
    <3>7. AllPanes(v) \subseteq AllPanes(tab)
      BY <1>3, <3>2, <3>4 DEF AllPanes
    <3> QED
      BY <3>5, <3>6, <3>7 DEF IsEdit, R
  <2> QED
    BY <2>1, <2>2
<1> QED
  BY <1>7, <1>8

(* The floating layer is entered, left, and given its first pane.          *)
LEMMA ToggleEdits ==
    ASSUME NEW P, NEW tab, IsTab(tab, P), NEW new
    PROVE  /\ tab.floating = << >> =>
                /\ IsEdit([tab EXCEPT !.floating = <<new>>, !.active = new], tab, {new})
                /\ AllPanes(tab) \subseteq
                      AllPanes([tab EXCEPT !.floating = <<new>>, !.active = new])
           /\ tab.floating # << >> =>
                IsEdit([tab EXCEPT !.active = IF IsFloating(tab, @)
                                              THEN FirstPane(tab.tree)
                                              ELSE Last(tab.floating)], tab, {})
<1>1. CASE tab.floating = << >>
  <2> DEFINE R == Remembered(tab) \cup {new}
             u == [tab EXCEPT !.floating = <<new>>, !.active = new]
  <2>1. IsTab(tab, R) /\ new \in R
    BY TabSelf, TabWider
  <2> HIDE DEF R
  <2>2. PICK f : f = <<new>>
    OBVIOUS
  <2>3. u = [tree |-> tab.tree, floating |-> f, active |-> new,
             undo |-> tab.undo, redo |-> tab.redo]
    <3>1. tab = [tree |-> tab.tree, floating |-> tab.floating, active |-> tab.active,
                 undo |-> tab.undo, redo |-> tab.redo]
      BY DEF IsTab
    <3>2. u = [tab EXCEPT !.floating = f, !.active = new]
      BY <2>2
    <3> HIDE DEF u
    <3> QED
      BY <3>1, <3>2
  <2>4. f \in Seq(R) /\ Range(f) = {new}
    <3>1. f \in Seq(R) /\ Len(f) = 1 /\ f[1] = new
      BY <2>1, <2>2
    <3>2. \A x : x \in Range(f) <=> \E i \in 1..Len(f) : f[i] = x
      BY <3>1, RangeAt
    <3> QED
      BY <3>1, <3>2
  <2> HIDE DEF u
  <2>5. IsTab(u, R) /\ u.tree = tab.tree /\ u.floating = f
    BY <2>1, <2>3, <2>4, MakeTab DEF IsTab
  <2>6. AllPanes(u) \subseteq AllPanes(tab) \cup {new}
    BY <2>4, <2>5 DEF AllPanes
  <2>7. AllPanes(tab) \subseteq AllPanes(u)
    <3>1. \A x : x \notin Range(tab.floating)
      <4>1. tab.floating \in Seq(P) /\ Len(tab.floating) = 0
        BY <1>1 DEF IsTab
      <4>2. \A x : x \in Range(tab.floating) <=> \E i \in 1..Len(tab.floating) : tab.floating[i] = x
        BY <4>1, RangeAt
      <4> QED
        BY <4>1, <4>2
    <3> QED
      BY <2>5, <3>1 DEF AllPanes
  <2> QED
    BY <1>1, <2>5, <2>6, <2>7 DEF IsEdit, u, R
<1>2. CASE tab.floating # << >>
  <2>1. tab.floating \in Seq(P)
    BY DEF IsTab
  <2>2. Last(tab.floating) \in AllPanes(tab)
    <3>1. Len(tab.floating) \in 1..Len(tab.floating)
      BY <1>2, <2>1
    <3> QED
      BY <2>1, <3>1, RangeAt DEF Last, AllPanes
  <2>3. PICK p : p = IF IsFloating(tab, tab.active) THEN FirstPane(tab.tree)
                     ELSE Last(tab.floating)
    OBVIOUS
  <2>4. p \in AllPanes(tab)
    BY <2>2, <2>3, TabSelf
  <2>5. [tab EXCEPT !.active = IF IsFloating(tab, @) THEN FirstPane(tab.tree)
                               ELSE Last(tab.floating)] = [tab EXCEPT !.active = p]
    BY <2>3
  <2> QED
    BY <1>2, <2>4, <2>5, FocusEdits
<1> QED
  BY <1>1, <1>2

(* A floating pane joins the tree, or a pane of the tree is made floating. *)
LEMMA FloatTileEdits ==
    ASSUME NEW P, NEW tab, IsTab(tab, P), NEW u,
           \/ /\ IsFloating(tab, tab.active)
              /\ LET w == [tab EXCEPT !.floating = Lower(@, tab.active)]
                 IN  u = SetTree(w, SplitAt(w.tree, FirstPane(w.tree), "vertical", tab.active))
           \/ /\ HasPane(tab.tree, tab.active)
              /\ u = [SetTree(tab, RemoveLeaf(tab.tree, tab.active))
                        EXCEPT !.floating = Append(@, tab.active)]
    PROVE  IsEdit(u, tab, {})
<1> DEFINE R == Remembered(tab) \cup {}
<1>1. IsTab(tab, R) /\ AllPanes(tab) \subseteq R /\ tab.active \in R
  BY TabSelf
<1> HIDE DEF R
<1>2. PICK p : p = tab.active
  OBVIOUS
<1>3. IsTreeOf(tab.tree, R) /\ tab.floating \in Seq(R)
  BY <1>1 DEF IsTab
<1>4. CASE /\ IsFloating(tab, p)
           /\ LET w == [tab EXCEPT !.floating = Lower(@, p)]
              IN  u = SetTree(w, SplitAt(w.tree, FirstPane(w.tree), "vertical", p))
  <2>1. PICK l : l = Lower(tab.floating, p)
    OBVIOUS
  <2>2. l \in Seq(R) /\ Range(l) \subseteq Range(tab.floating)
    BY <1>3, <2>1, LowerRange
  <2>3. PICK w : w = [tab EXCEPT !.floating = l]
    OBVIOUS
  <2>4. IsTab(w, R) /\ w.floating = l /\ w.tree = tab.tree
    BY <1>1, <2>2, <2>3, WithFloating
  <2>5. PICK t : t = SplitAt(w.tree, FirstPane(w.tree), "vertical", p)
    OBVIOUS
  <2>6. u = SetTree(w, t)
    BY <1>4, <2>1, <2>3, <2>5
  <2>7. IsTree(t) /\ PaneSet(t) \subseteq PaneSet(tab.tree) \cup {p}
    BY <1>3, <2>4, <2>5, SplitAtIsTree DEF IsTreeOf
  <2>8. p \in Range(tab.floating)
    BY <1>4 DEF IsFloating
  <2>9. IsTreeOf(t, R)
    BY <1>1, <1>3, <2>7, <2>8 DEF IsTreeOf, AllPanes
  <2>10. IsTab(u, R) /\ u.tree = t /\ u.floating = l
    BY <2>4, <2>6, <2>9, SetTreeIs
  <2>11. AllPanes(u) \subseteq AllPanes(tab)
    BY <2>2, <2>7, <2>8, <2>10 DEF AllPanes
  <2> QED
    BY <2>10, <2>11 DEF IsEdit, R
<1>5. CASE /\ HasPane(tab.tree, p)
           /\ u = [SetTree(tab, RemoveLeaf(tab.tree, p)) EXCEPT !.floating = Append(@, p)]
  <2>1. PICK t : t = RemoveLeaf(tab.tree, p)
    OBVIOUS
  <2>2. IsTree(t) /\ PaneSet(t) \subseteq PaneSet(tab.tree)
    BY <1>3, <2>1, RemoveLeafIsTree DEF IsTreeOf
  <2>3. IsTreeOf(t, R)
    BY <1>3, <2>2 DEF IsTreeOf
  <2>4. PICK w : w = SetTree(tab, t)
    OBVIOUS
  <2>5. IsTab(w, R) /\ w.tree = t /\ w.floating = tab.floating
    BY <1>1, <2>3, <2>4, SetTreeIs
  <2>6. PICK f : f = Append(tab.floating, p)
    OBVIOUS
  <2>7. f \in Seq(R) /\ Range(f) = Range(tab.floating) \cup {p}
    BY <1>1, <1>2, <1>3, <2>6, AppendRange
  <2>8. u = [w EXCEPT !.floating = f]
    BY <1>5, <2>1, <2>4, <2>5, <2>6
  <2>9. IsTab(u, R) /\ u.floating = f /\ u.tree = w.tree
    BY <2>5, <2>7, <2>8, WithFloating
  <2>10. p \in PaneSet(tab.tree)
    BY <1>5 DEF HasPane
  <2>11. AllPanes(u) \subseteq AllPanes(tab)
    BY <2>2, <2>5, <2>7, <2>9, <2>10 DEF AllPanes
  <2> QED
    BY <2>9, <2>11 DEF IsEdit, R
<1> QED
  BY <1>2, <1>4, <1>5

(* A pane leaves the tab; one that is the whole tree stays.                *)
LEMMA RemoveFromTabIs ==
    ASSUME NEW P, NEW tab, IsTab(tab, P), NEW p
    PROVE  /\ IsTab(RemoveFromTab(tab, p), P)
           /\ Remembered(RemoveFromTab(tab, p)) \subseteq Remembered(tab)
           /\ AllPanes(tab) \ {p} \subseteq AllPanes(RemoveFromTab(tab, p))
           /\ AllPanes(RemoveFromTab(tab, p)) \subseteq AllPanes(tab)
           /\ AllPanes(RemoveFromTab(tab, p)) # {}
<1> DEFINE R == Remembered(tab)
           u == IF IsFloating(tab, p) THEN [tab EXCEPT !.floating = Lower(@, p)]
                ELSE IF tab.tree # Leaf(p)
                     THEN [tab EXCEPT !.tree = RemoveLeaf(@, p)]
                ELSE tab
           v == IF u.active = p THEN [u EXCEPT !.active = FirstPane(u.tree)] ELSE u
<1>1. IsTab(tab, R) /\ AllPanes(tab) \subseteq R /\ R \subseteq P
  BY TabSelf
<1> HIDE DEF R
<1>2. IsTreeOf(tab.tree, R) /\ tab.floating \in Seq(R)
  BY <1>1 DEF IsTab
<1>3. /\ IsTab(u, R)
      /\ AllPanes(tab) \ {p} \subseteq AllPanes(u)
      /\ AllPanes(u) \subseteq AllPanes(tab)
  <2>1. CASE IsFloating(tab, p)
    <3>1. PICK l : l = Lower(tab.floating, p)
      OBVIOUS
    <3>2. /\ l \in Seq(R) /\ Range(l) \subseteq Range(tab.floating)
          /\ Range(tab.floating) \ {p} \subseteq Range(l)
      BY <1>2, <3>1, LowerRange
    <3>3. u = [tab EXCEPT !.floating = l]
      BY <2>1, <3>1
    <3> HIDE DEF u
    <3>4. IsTab(u, R) /\ u.floating = l /\ u.tree = tab.tree
      BY <1>1, <3>2, <3>3, WithFloating
    <3> QED
      BY <3>2, <3>4 DEF AllPanes
  <2>2. CASE ~IsFloating(tab, p) /\ tab.tree # Leaf(p)
    <3>1. PICK t : t = RemoveLeaf(tab.tree, p)
      OBVIOUS
    <3>2. /\ IsTree(t) /\ PaneSet(tab.tree) \ {p} \subseteq PaneSet(t)
          /\ PaneSet(t) \subseteq PaneSet(tab.tree)
      BY <1>2, <3>1, RemoveLeafIsTree DEF IsTreeOf
    <3>3. IsTreeOf(t, R)
      BY <1>2, <3>2 DEF IsTreeOf
    <3>4. u = [tab EXCEPT !.tree = t]
      BY <2>2, <3>1
    <3>5. tab = [tree |-> tab.tree, floating |-> tab.floating, active |-> tab.active,
                 undo |-> tab.undo, redo |-> tab.redo]
      BY <1>1 DEF IsTab
    <3> HIDE DEF u
    <3>6. u = [tree |-> t, floating |-> tab.floating, active |-> tab.active,
               undo |-> tab.undo, redo |-> tab.redo]
      BY <3>4, <3>5
    <3>7. IsTab(u, R)
      BY <1>1, <3>3, <3>6, MakeTab DEF IsTab
    <3>8. u.tree = t /\ u.floating = tab.floating
      BY <3>6
    <3> QED
      BY <3>2, <3>7, <3>8 DEF AllPanes
  <2>3. CASE ~IsFloating(tab, p) /\ tab.tree = Leaf(p)
    BY <1>1, <2>3
  <2> QED
    BY <2>1, <2>2, <2>3
<1>4. RemoveFromTab(tab, p) = v
  BY DEF RemoveFromTab
<1> HIDE DEF u
<1>5. FirstPane(u.tree) \in AllPanes(u)
  BY <1>3, TabSelf
<1>6. IsTab(v, R) /\ AllPanes(v) = AllPanes(u)
  BY <1>1, <1>3, <1>5, WithActive
<1> HIDE DEF v
<1>7. Remembered(v) \subseteq R
  BY <1>6, TabSelf
<1>8. IsTab(v, P)
  BY <1>1, <1>6, TabWider
<1> QED
  BY <1>3, <1>4, <1>5, <1>6, <1>7, <1>8 DEF R

-----------------------------------------------------------------------------
(* The registry of tabs *)

IsSession(s, P) ==
    /\ s = [tabs |-> s.tabs, windows |-> s.windows]
    /\ s.tabs = [t \in DOMAIN s.tabs |-> s.tabs[t]]
    /\ \A t \in DOMAIN s.tabs : IsTab(s.tabs[t], P)

(* The registry u is s without some of the panes in gone.                  *)
Shrunk(u, s, P, gone) ==
    /\ IsSession(u, P) /\ u.windows = s.windows /\ DOMAIN u.tabs = DOMAIN s.tabs
    /\ \A t \in DOMAIN s.tabs :
         /\ Remembered(u.tabs[t]) \subseteq Remembered(s.tabs[t])
         /\ AllPanes(s.tabs[t]) \ gone \subseteq AllPanes(u.tabs[t])
         /\ AllPanes(u.tabs[t]) \subseteq AllPanes(s.tabs[t])

(* One after the other.                                                    *)
LEMMA ShrunkTwice ==
    ASSUME NEW P, NEW s, IsSession(s, P), NEW u, NEW v, NEW a, NEW b, NEW c,
           Shrunk(u, s, P, a), Shrunk(v, u, P, b), a \cup b \subseteq c
    PROVE  Shrunk(v, s, P, c)
  BY DEF Shrunk

(* remove_pane_from_session never takes the last pane of a tab: no tab and *)
(* no window goes.                                                         *)
LEMMA RemovePaneShrinks ==
    ASSUME NEW P, NEW s, IsSession(s, P), NEW p
    PROVE  Shrunk(RemovePaneFromSession(s, p), s, P, {p})
<1> DEFINE Owner == {t \in DOMAIN s.tabs : p \in AllPanes(s.tabs[t])}
<1>1. CASE Owner = {}
  <2>1. RemovePaneFromSession(s, p) = s
    BY <1>1 DEF RemovePaneFromSession
  <2> QED
    BY <2>1 DEF Shrunk
<1>2. CASE Owner # {}
  <2>1. PICK t : t = CHOOSE x \in Owner : TRUE
    OBVIOUS
  <2>2. t \in DOMAIN s.tabs /\ t \in Owner
    BY <1>2, <2>1
  <2>3. PICK w : w = RemoveFromTab(s.tabs[t], p)
    OBVIOUS
  <2>4. /\ IsTab(w, P) /\ Remembered(w) \subseteq Remembered(s.tabs[t])
        /\ AllPanes(s.tabs[t]) \ {p} \subseteq AllPanes(w)
        /\ AllPanes(w) \subseteq AllPanes(s.tabs[t]) /\ AllPanes(w) # {}
    BY <2>2, <2>3, RemoveFromTabIs DEF IsSession
  <2>5. PICK u : u = [s EXCEPT !.tabs[t] = RemoveFromTab(@, p)]
    OBVIOUS
  <2>6. u = [tabs |-> [s.tabs EXCEPT ![t] = w], windows |-> s.windows]
    BY <2>2, <2>3, <2>5 DEF IsSession
  <2>7. /\ u.windows = s.windows /\ DOMAIN u.tabs = DOMAIN s.tabs
        /\ u = [tabs |-> u.tabs, windows |-> u.windows]
        /\ u.tabs = [x \in DOMAIN u.tabs |-> u.tabs[x]]
        /\ u.tabs[t] = w /\ \A x \in DOMAIN s.tabs : x # t => u.tabs[x] = s.tabs[x]
    BY <2>2, <2>6 DEF IsSession
  <2>8. RemovePaneFromSession(s, p) = u
    BY <1>2, <2>1, <2>4, <2>5, <2>7 DEF RemovePaneFromSession
  <2>9. Shrunk(u, s, P, {p})
    BY <2>2, <2>4, <2>7 DEF Shrunk, IsSession
  <2> QED
    BY <2>8, <2>9
<1> QED
  BY <1>1, <1>2

(* RemoveEach has the steps it is defined by.                              *)
LEMMA RemoveEachSteps ==
    ASSUME NEW s, NEW ps, Len(ps) \in Nat
    PROVE  \E f : /\ f[0] = s /\ RemoveEach(s, ps) = f[Len(ps)]
                  /\ \A i \in 1..Len(ps) : f[i] = RemovePaneFromSession(f[i - 1], ps[i])
<1> DEFINE n == Len(ps)
           Steps(f, k) == f = [i \in 0..k |-> IF i = 0 THEN s
                                              ELSE RemovePaneFromSession(f[i - 1], ps[i])]
           S == {k \in 0..n : \E f : Steps(f, k)}
<1>1. 0 \in S
  <2>1. PICK f : f = [i \in 0..0 |-> s]
    OBVIOUS
  <2>2. Steps(f, 0)
    BY <2>1
  <2> QED
    BY <2>2
<1>2. ASSUME NEW k \in 0..(n - 1), k \in S
      PROVE  k + 1 \in S
  <2>1. PICK f : Steps(f, k)
    BY <1>2
  <2>2. PICK g : g = [i \in 0..(k + 1) |-> IF i = k + 1
                                           THEN RemovePaneFromSession(f[k], ps[i])
                                           ELSE f[i]]
    OBVIOUS
  <2>3. \A i \in 0..k : f[i] = IF i = 0 THEN s ELSE RemovePaneFromSession(f[i - 1], ps[i])
    BY <2>1
  <2>4. \A i \in 0..(k + 1) : g[i] = IF i = 0 THEN s ELSE RemovePaneFromSession(g[i - 1], ps[i])
    <3>1. \A i \in 0..k : g[i] = f[i]
      BY <2>2
    <3>2. g[k + 1] = RemovePaneFromSession(g[k], ps[k + 1])
      BY <2>2
    <3>3. \A i \in 1..k : g[i - 1] = f[i - 1]
      BY <3>1
    <3> QED
      BY <2>3, <3>1, <3>2, <3>3
  <2>5. Steps(g, k + 1)
    BY <2>2, <2>4
  <2>6. k + 1 \in 0..n
    OBVIOUS
  <2> QED
    BY <2>5, <2>6
<1> HIDE DEF S
<1>3. n \in S
  <2>1. n \in Nat
    OBVIOUS
  <2> HIDE DEF n
  <2>2. 0..n \subseteq S
    BY <1>1, <1>2, <2>1, UpTo
  <2> QED
    BY <2>1, <2>2
<1>4. PICK f : Steps(f, n)
  BY <1>3 DEF S
<1>5. PICK g : g = CHOOSE h : Steps(h, n)
  OBVIOUS
<1>6. Steps(g, n)
  BY <1>4, <1>5
<1>7. RemoveEach(s, ps) = g[n]
  BY <1>5 DEF RemoveEach
<1> QED
  BY <1>6, <1>7

(* A pump removes the panes it is told of, and keeps the others.           *)
LEMMA RemoveEachShrinks ==
    ASSUME NEW P, NEW s, IsSession(s, P), NEW T, NEW ps \in Seq(T)
    PROVE  Shrunk(RemoveEach(s, ps), s, P, Range(ps))
<1>1. PICK n \in Nat : n = Len(ps)
  BY RangeAt
<1>2. PICK f : /\ f[0] = s /\ RemoveEach(s, ps) = f[n]
               /\ \A i \in 1..n : f[i] = RemovePaneFromSession(f[i - 1], ps[i])
  BY <1>1, RemoveEachSteps
<1>3. PICK G : G = Range(ps)
  OBVIOUS
<1>4. \A i \in 1..n : ps[i] \in G
  BY <1>1, <1>3, RangeAt
<1> DEFINE S == {k \in 0..n : Shrunk(f[k], s, P, G)}
<1>5. 0 \in S
  BY <1>2 DEF Shrunk
<1>6. ASSUME NEW k \in 0..(n - 1), k \in S
      PROVE  k + 1 \in S
  <2>1. k + 1 \in 1..n /\ (k + 1) - 1 = k
    BY <1>1
  <2>2. f[k + 1] = RemovePaneFromSession(f[k], ps[k + 1])
    BY <1>2, <2>1
  <2>3. Shrunk(f[k], s, P, G) /\ IsSession(f[k], P)
    BY <1>6 DEF Shrunk
  <2>4. Shrunk(f[k + 1], f[k], P, {ps[k + 1]})
    BY <2>2, <2>3, RemovePaneShrinks
  <2>5. G \cup {ps[k + 1]} \subseteq G
    BY <1>4, <2>1
  <2>6. Shrunk(f[k + 1], s, P, G)
    BY <2>3, <2>4, <2>5, ShrunkTwice
  <2> QED
    BY <2>1, <2>6
<1> HIDE DEF S
<1>7. 0..n \subseteq S
  BY <1>5, <1>6, UpTo
<1>8. n \in S
  BY <1>7
<1> QED
  BY <1>2, <1>3, <1>8 DEF S

-----------------------------------------------------------------------------
(* The mux *)

IsMux(m, P) ==
    /\ m = [registered |-> m.registered, panes |-> m.panes, closed |-> m.closed]
    /\ m.registered \subseteq P /\ m.panes \subseteq P /\ m.closed \in Seq(P)

(* The mux u is m with the panes in gone closed.                           *)
Closed(u, m, P, gone) ==
    /\ IsMux(u, P) /\ u.registered = m.registered \ gone /\ u.panes = m.panes
    /\ Range(u.closed) = Range(m.closed) \cup (m.registered \cap gone)

(* One pane is closed.                                                     *)
LEMMA CloseIsClosed ==
    ASSUME NEW P, NEW m, IsMux(m, P), NEW p
    PROVE  Closed(CloseInMux(m, p), m, P, {p})
<1>1. CASE p \notin m.registered
  <2>1. CloseInMux(m, p) = m
    BY <1>1 DEF CloseInMux
  <2> QED
    BY <1>1, <2>1 DEF Closed
<1>2. CASE p \in m.registered
  <2>1. PICK c : c = Append(m.closed, p)
    OBVIOUS
  <2>2. m.closed \in Seq(P) /\ p \in P
    BY <1>2 DEF IsMux
  <2>3. c \in Seq(P) /\ Range(c) = Range(m.closed) \cup {p}
    BY <2>1, <2>2, AppendRange
  <2>4. PICK g : g = m.registered \ {p}
    OBVIOUS
  <2>5. CloseInMux(m, p) = [registered |-> g, panes |-> m.panes, closed |-> c]
    <3>1. CloseInMux(m, p) = [m EXCEPT !.registered = g, !.closed = c]
      BY <1>2, <2>1, <2>4 DEF CloseInMux
    <3>2. m = [registered |-> m.registered, panes |-> m.panes, closed |-> m.closed]
      BY DEF IsMux
    <3> QED
      BY <3>1, <3>2
  <2>6. PICK u : u = [registered |-> g, panes |-> m.panes, closed |-> c]
    OBVIOUS
  <2>7. u.registered = g /\ u.panes = m.panes /\ u.closed = c
        /\ u = [registered |-> u.registered, panes |-> u.panes, closed |-> u.closed]
    BY <2>6
  <2>8. IsMux(u, P)
    BY <2>3, <2>4, <2>7 DEF IsMux
  <2>9. Closed(u, m, P, {p})
    BY <1>2, <2>3, <2>4, <2>7, <2>8 DEF Closed
  <2> QED
    BY <2>5, <2>6, <2>9
<1> QED
  BY <1>1, <1>2

(* CloseEach has the steps it is defined by.                               *)
LEMMA CloseEachSteps ==
    ASSUME NEW m, NEW ps, Len(ps) \in Nat
    PROVE  \E f : /\ f[0] = m /\ CloseEach(m, ps) = f[Len(ps)]
                  /\ \A i \in 1..Len(ps) : f[i] = CloseInMux(f[i - 1], ps[i])
<1> DEFINE n == Len(ps)
           Steps(f, k) == f = [i \in 0..k |-> IF i = 0 THEN m
                                              ELSE CloseInMux(f[i - 1], ps[i])]
           S == {k \in 0..n : \E f : Steps(f, k)}
<1>1. 0 \in S
  <2>1. PICK f : f = [i \in 0..0 |-> m]
    OBVIOUS
  <2>2. Steps(f, 0)
    BY <2>1
  <2> QED
    BY <2>2
<1>2. ASSUME NEW k \in 0..(n - 1), k \in S
      PROVE  k + 1 \in S
  <2>1. PICK f : Steps(f, k)
    BY <1>2
  <2>2. PICK g : g = [i \in 0..(k + 1) |-> IF i = k + 1 THEN CloseInMux(f[k], ps[i])
                                           ELSE f[i]]
    OBVIOUS
  <2>3. \A i \in 0..k : f[i] = IF i = 0 THEN m ELSE CloseInMux(f[i - 1], ps[i])
    BY <2>1
  <2>4. \A i \in 0..(k + 1) : g[i] = IF i = 0 THEN m ELSE CloseInMux(g[i - 1], ps[i])
    <3>1. \A i \in 0..k : g[i] = f[i]
      BY <2>2
    <3>2. g[k + 1] = CloseInMux(g[k], ps[k + 1])
      BY <2>2
    <3>3. \A i \in 1..k : g[i - 1] = f[i - 1]
      BY <3>1
    <3> QED
      BY <2>3, <3>1, <3>2, <3>3
  <2>5. Steps(g, k + 1)
    BY <2>2, <2>4
  <2>6. k + 1 \in 0..n
    OBVIOUS
  <2> QED
    BY <2>5, <2>6
<1> HIDE DEF S
<1>3. n \in S
  <2>1. n \in Nat
    OBVIOUS
  <2> HIDE DEF n
  <2>2. 0..n \subseteq S
    BY <1>1, <1>2, <2>1, UpTo
  <2> QED
    BY <2>1, <2>2
<1>4. PICK f : Steps(f, n)
  BY <1>3 DEF S
<1>5. PICK g : g = CHOOSE h : Steps(h, n)
  OBVIOUS
<1>6. Steps(g, n)
  BY <1>4, <1>5
<1>7. CloseEach(m, ps) = g[n]
  BY <1>5 DEF CloseEach
<1> QED
  BY <1>6, <1>7

(* Several panes are closed, each told of once if it was registered.       *)
LEMMA CloseEachIsClosed ==
    ASSUME NEW P, NEW m, IsMux(m, P), NEW T, NEW ps \in Seq(T)
    PROVE  Closed(CloseEach(m, ps), m, P, Range(ps))
<1>1. PICK n \in Nat : n = Len(ps)
  BY RangeAt
<1>2. PICK f : /\ f[0] = m /\ CloseEach(m, ps) = f[n]
               /\ \A i \in 1..n : f[i] = CloseInMux(f[i - 1], ps[i])
  BY <1>1, CloseEachSteps
<1> DEFINE Gone(k) == {ps[i] : i \in 1..k}
           S == {k \in 0..n : Closed(f[k], m, P, Gone(k))}
<1>3. 0 \in S
  <2>1. Gone(0) = {}
    OBVIOUS
  <2> HIDE DEF Gone
  <2>2. Closed(f[0], m, P, Gone(0))
    BY <1>2, <2>1 DEF Closed
  <2> QED
    BY <2>2
<1>4. ASSUME NEW k \in 0..(n - 1), k \in S
      PROVE  k + 1 \in S
  <2>1. k + 1 \in 1..n /\ (k + 1) - 1 = k
    BY <1>1
  <2>2. f[k + 1] = CloseInMux(f[k], ps[k + 1])
    BY <1>2, <2>1
  <2>3. Gone(k + 1) = Gone(k) \cup {ps[k + 1]}
    <3>1. 1..(k + 1) = (1..k) \cup {k + 1}
      OBVIOUS
    <3> QED
      BY <3>1
  <2> HIDE DEF Gone
  <2>4. Closed(f[k], m, P, Gone(k)) /\ IsMux(f[k], P)
    BY <1>4 DEF Closed
  <2>5. Closed(f[k + 1], f[k], P, {ps[k + 1]})
    BY <2>2, <2>4, CloseIsClosed
  <2>6. Closed(f[k + 1], m, P, Gone(k + 1))
    BY <2>3, <2>4, <2>5 DEF Closed
  <2> QED
    BY <2>1, <2>6
<1> HIDE DEF S
<1>5. 0..n \subseteq S
  BY <1>3, <1>4, UpTo
<1>6. n \in S
  BY <1>5
<1>7. Gone(n) = Range(ps)
  BY <1>1, RangeAt
<1> QED
  BY <1>2, <1>6, <1>7 DEF S

-----------------------------------------------------------------------------
(* The invariant *)

(* The panes that have been spawned.                                       *)
Known == 1..(next.pane - 1)

(* Nothing is held but panes that have been spawned; ids are counted.      *)
Data ==
    /\ next = [pane |-> next.pane, tab |-> next.tab, window |-> next.window]
    /\ next.pane \in 1..(MaxPanes + 1)
    /\ IsSession(session, Known) /\ IsMux(mux, Known) /\ exits \in Seq(Known)
    /\ running \in BOOLEAN

(* SessionMatchesMux, and the two facts that keep it: a pane whose         *)
(* PaneClosed waits is registered no more, and a registered pane has its   *)
(* Pane object.                                                            *)
Agrees(s, m, lo, st, le) ==
    /\ m.registered \subseteq PanesShown(s) \cup lo
    /\ PanesShown(s) \subseteq m.registered \cup st
    /\ m.panes \subseteq m.registered \cup Range(m.closed) \cup le
    /\ m.registered \cap Range(m.closed) = {}
    /\ m.registered \subseteq m.panes

Apart(s) ==
    \A t, u \in DOMAIN s.tabs :
        t # u => Remembered(s.tabs[t]) \cap Remembered(s.tabs[u]) = {}

Core == Data /\ Apart(session) /\ Agrees(session, mux, lost, stuck, leaked)

(* The panes that are shown, tab by tab.                                   *)
LEMMA ShownIs ==
    ASSUME NEW s, NEW x
    PROVE  x \in PanesShown(s) <=> \E t \in DOMAIN s.tabs : x \in AllPanes(s.tabs[t])
  BY DEF PanesShown

(* The panes that are shown and remembered are known.                      *)
LEMMA ShownKnown ==
    ASSUME NEW P, NEW s, IsSession(s, P)
    PROVE  /\ PanesShown(s) \subseteq P
           /\ \A t \in DOMAIN s.tabs : /\ Remembered(s.tabs[t]) \subseteq P
                                       /\ AllPanes(s.tabs[t]) \subseteq Remembered(s.tabs[t])
<1>1. \A t \in DOMAIN s.tabs : /\ Remembered(s.tabs[t]) \subseteq P
                               /\ AllPanes(s.tabs[t]) \subseteq Remembered(s.tabs[t])
  BY TabSelf DEF IsSession
<1> QED
  BY <1>1 DEF PanesShown

(* More panes become known.                                                *)
LEMMA KnownMore ==
    ASSUME NEW P, NEW Q, P \subseteq Q
    PROVE  /\ \A s : IsSession(s, P) => IsSession(s, Q)
           /\ \A m : IsMux(m, P) => IsMux(m, Q)
           /\ \A e \in Seq(P) : e \in Seq(Q)
<1>1. \A e \in Seq(P) : e \in Seq(Q)
  OBVIOUS
<1>2. \A s : IsSession(s, P) => IsSession(s, Q)
  BY TabWider DEF IsSession
<1>3. \A m : IsMux(m, P) => IsMux(m, Q)
  BY <1>1 DEF IsMux
<1> QED
  BY <1>1, <1>2, <1>3

(* What is left of a registry still knows panes apart, and shows what is   *)
(* not gone.                                                               *)
LEMMA ShrunkShows ==
    ASSUME NEW P, NEW s, NEW u, NEW gone, Shrunk(u, s, P, gone)
    PROVE  /\ Apart(s) => Apart(u)
           /\ PanesShown(s) \ gone \subseteq PanesShown(u)
           /\ PanesShown(u) \subseteq PanesShown(s)
<1>1. Apart(s) => Apart(u)
  BY DEF Shrunk, Apart
<1>2. PanesShown(s) \ gone \subseteq PanesShown(u)
  BY DEF Shrunk, PanesShown
<1>3. PanesShown(u) \subseteq PanesShown(s)
  BY DEF Shrunk, PanesShown
<1> QED
  BY <1>1, <1>2, <1>3

(* A pump: what is told of leaves the session and its Pane object goes.    *)
LEMMA PumpAgrees ==
    ASSUME NEW P, NEW s, IsSession(s, P), Apart(s), NEW m, IsMux(m, P),
           NEW ex \in Seq(P), NEW lo, NEW st, NEW le, Agrees(s, m, lo, st, le),
           NEW c, c = CloseEach(m, ex), NEW u, u = RemoveEach(s, c.closed)
    PROVE  /\ Shrunk(u, s, P, Range(c.closed)) /\ Apart(u) /\ IsMux(Cleanup(c), P)
           /\ Agrees(u, Cleanup(c), lo, st \cup (Range(c.closed) \cap PanesShown(u)), le)
<1>1. Closed(c, m, P, Range(ex)) /\ IsMux(c, P) /\ c.closed \in Seq(P)
  BY CloseEachIsClosed DEF Closed, IsMux
<1>2. Shrunk(u, s, P, Range(c.closed))
  BY <1>1, RemoveEachShrinks
<1>3. /\ Apart(u) /\ PanesShown(s) \ Range(c.closed) \subseteq PanesShown(u)
      /\ PanesShown(u) \subseteq PanesShown(s)
  BY <1>2, ShrunkShows
<1>4. PICK d : d = Cleanup(c)
  OBVIOUS
<1>5. d = [registered |-> c.registered, panes |-> c.panes \ Range(c.closed), closed |-> << >>]
  <2>1. c = [registered |-> c.registered, panes |-> c.panes, closed |-> c.closed]
    BY <1>1 DEF IsMux
  <2>2. PICK x, e : x = c.panes \ Range(c.closed) /\ e = << >>
    OBVIOUS
  <2>3. d = [c EXCEPT !.panes = x, !.closed = e]
    BY <1>4, <2>2 DEF Cleanup
  <2>4. d = [registered |-> c.registered, panes |-> x, closed |-> e]
    BY <2>1, <2>3
  <2> QED
    BY <2>2, <2>4
<1>6. /\ d.registered = c.registered /\ d.panes = c.panes \ Range(c.closed)
      /\ d.closed = << >>
      /\ d = [registered |-> d.registered, panes |-> d.panes, closed |-> d.closed]
  BY <1>5
<1>7. d.closed \in Seq(P) /\ \A x : x \notin Range(d.closed)
  <2>1. d.closed \in Seq(P) /\ Len(d.closed) = 0
    BY <1>6
  <2>2. \A x : x \in Range(d.closed) <=> \E i \in 1..Len(d.closed) : d.closed[i] = x
    BY <2>1, RangeAt
  <2> QED
    BY <2>1, <2>2
<1>8. IsMux(d, P)
  BY <1>1, <1>6, <1>7 DEF IsMux
<1>9. PICK C, X : C = Range(c.closed) /\ X = Range(ex)
  OBVIOUS
<1>10. /\ c.registered = m.registered \ X /\ c.panes = m.panes
       /\ C = Range(m.closed) \cup (m.registered \cap X)
  BY <1>1, <1>9 DEF Closed
<1>11. Agrees(u, d, lo, st \cup (C \cap PanesShown(u)), le)
  BY <1>3, <1>6, <1>7, <1>9, <1>10 DEF Agrees
<1> QED
  BY <1>2, <1>3, <1>4, <1>8, <1>9, <1>11

-----------------------------------------------------------------------------
(* Edits of the focused tab *)

(* An edit that adds no pane.                                              *)
LEMMA EditKeepsCore ==
    ASSUME Core, ActiveTab \in DOMAIN session.tabs, NEW tab, IsEdit(tab, Focused, {}),
           EditTab(tab)
    PROVE  Core'
<1> DEFINE t == ActiveTab
<1>1. /\ session' = [session EXCEPT !.tabs[t] = tab]
      /\ lost' = lost \cup (AllPanes(Focused) \ AllPanes(tab))
      /\ mux' = mux /\ exits' = exits /\ next' = next /\ running' = running
      /\ stuck' = stuck /\ leaked' = leaked
  BY DEF EditTab
<1>2. IsSession(session, Known) /\ Focused = session.tabs[t] /\ t \in DOMAIN session.tabs
  BY DEF Core, Data, Focused
<1> HIDE DEF t
<1>3. session' = [tabs |-> [session.tabs EXCEPT ![t] = tab], windows |-> session.windows]
  BY <1>1, <1>2 DEF IsSession
<1>4. /\ DOMAIN session'.tabs = DOMAIN session.tabs
      /\ session' = [tabs |-> session'.tabs, windows |-> session'.windows]
      /\ session'.tabs = [x \in DOMAIN session'.tabs |-> session'.tabs[x]]
      /\ session'.tabs[t] = tab
      /\ \A x \in DOMAIN session.tabs : x # t => session'.tabs[x] = session.tabs[x]
  BY <1>2, <1>3 DEF IsSession
<1>5. IsTab(tab, Remembered(Focused)) /\ AllPanes(tab) \subseteq AllPanes(Focused)
  BY DEF IsEdit
<1>6. Remembered(tab) \subseteq Remembered(Focused) /\ Remembered(Focused) \subseteq Known
  BY <1>2, <1>5, TabSelf, ShownKnown
<1>7. IsTab(tab, Known)
  BY <1>5, <1>6, TabWider
<1>8. IsSession(session', Known)
  BY <1>2, <1>4, <1>7 DEF IsSession
<1>9. Data'
  BY <1>1, <1>8 DEF Core, Data, Known
<1>10. Apart(session')
  BY <1>2, <1>4, <1>6 DEF Core, Apart
<1>11. /\ PanesShown(session') \subseteq PanesShown(session)
       /\ PanesShown(session) \subseteq PanesShown(session') \cup lost'
  <2>1. ASSUME NEW x \in PanesShown(session')
        PROVE  x \in PanesShown(session)
    <3>1. PICK y \in DOMAIN session.tabs : x \in AllPanes(session'.tabs[y])
      BY <1>4 DEF PanesShown
    <3>2. x \in AllPanes(session.tabs[y])
      BY <1>2, <1>4, <1>5, <3>1
    <3> QED
      BY <3>2, ShownIs
  <2>2. ASSUME NEW x \in PanesShown(session)
        PROVE  x \in PanesShown(session') \cup lost'
    <3>1. PICK y \in DOMAIN session.tabs : x \in AllPanes(session.tabs[y])
      BY ShownIs
    <3>2. x \in AllPanes(session'.tabs[y]) \/ x \in lost'
      BY <1>1, <1>2, <1>4, <3>1
    <3> QED
      BY <1>4, <3>2 DEF PanesShown
  <2> QED
    BY <2>1, <2>2
<1>12. Agrees(session', mux', lost', stuck', leaked')
  BY <1>1, <1>11 DEF Core, Agrees
<1> QED
  BY <1>9, <1>10, <1>12 DEF Core

(* An edit that adds the pane that is spawned for it, or loses it at once. *)
LEMMA NewKeepsCore ==
    ASSUME Core, ActiveTab \in DOMAIN session.tabs, NEW tab, IsEdit(tab, Focused, {next.pane}),
           AllPanes(Focused) \subseteq AllPanes(tab), EditTabWithNew(tab)
    PROVE  Core'
<1> DEFINE t == ActiveTab
           n == next.pane
           K == 1..n
<1>1. /\ session' = [session EXCEPT !.tabs[t] = tab]
      /\ lost' = lost \cup ({n} \ AllPanes(tab))
      /\ mux' = Spawned(n) /\ exits' = exits /\ next' = [next EXCEPT !.pane = @ + 1]
      /\ running' = running /\ stuck' = stuck /\ leaked' = leaked /\ n <= MaxPanes
  BY DEF EditTabWithNew
<1>2. /\ IsSession(session, Known) /\ IsMux(mux, Known) /\ exits \in Seq(Known)
      /\ Focused = session.tabs[t] /\ t \in DOMAIN session.tabs
  BY DEF Core, Data, Focused
<1>3. /\ n \in Nat /\ Known = 1..(n - 1) /\ Known \subseteq K /\ n \in K /\ n \notin Known
      /\ next' = [pane |-> n + 1, tab |-> next.tab, window |-> next.window]
      /\ next'.pane \in 1..(MaxPanes + 1) /\ Known' = K
      /\ next' = [pane |-> next'.pane, tab |-> next'.tab, window |-> next'.window]
  <2>1. next = [pane |-> n, tab |-> next.tab, window |-> next.window] /\ n \in 1..(MaxPanes + 1)
        /\ MaxPanes \in Nat
    BY SessionAssumption DEF Core, Data
  <2>2. next' = [pane |-> n + 1, tab |-> next.tab, window |-> next.window]
    BY <1>1, <2>1
  <2>3. next'.pane = n + 1
    BY <2>2
  <2> HIDE DEF n
  <2> QED
    BY <1>1, <2>1, <2>2, <2>3 DEF Known, n
<1>4. /\ session' = [tabs |-> [session.tabs EXCEPT ![t] = tab], windows |-> session.windows]
  <2> HIDE DEF t
  <2> QED
    BY <1>1, <1>2 DEF IsSession
<1> HIDE DEF t, n, K
<1>5. /\ DOMAIN session'.tabs = DOMAIN session.tabs
      /\ session' = [tabs |-> session'.tabs, windows |-> session'.windows]
      /\ session'.tabs = [x \in DOMAIN session'.tabs |-> session'.tabs[x]]
      /\ session'.tabs[t] = tab
      /\ \A x \in DOMAIN session.tabs : x # t => session'.tabs[x] = session.tabs[x]
  BY <1>2, <1>4 DEF IsSession
<1>6. /\ IsTab(tab, Remembered(Focused) \cup {n})
      /\ AllPanes(tab) \subseteq AllPanes(Focused) \cup {n}
  BY DEF IsEdit, n
<1>7. /\ Remembered(tab) \subseteq Remembered(Focused) \cup {n}
      /\ \A x \in DOMAIN session.tabs : Remembered(session.tabs[x]) \subseteq Known
      /\ PanesShown(session) \subseteq Known
  BY <1>2, <1>6, TabSelf, ShownKnown
<1>8. IsTab(tab, K)
  <2>1. PICK Q : Q = Remembered(Focused) \cup {n}
    OBVIOUS
  <2>2. Q \subseteq K
    BY <1>2, <1>3, <1>7, <2>1
  <2>3. IsTab(tab, Q)
    BY <1>6, <2>1
  <2> QED
    BY <2>2, <2>3, TabWider
<1>9. IsSession(session', K)
  <2>1. IsSession(session, K)
    BY <1>2, <1>3, KnownMore
  <2> QED
    BY <1>5, <1>8, <2>1 DEF IsSession
<1>10. mux' = [registered |-> mux.registered \cup {n}, panes |-> mux.panes \cup {n},
               closed |-> mux.closed]
  <2>1. PICK a, b : a = mux.registered \cup {n} /\ b = mux.panes \cup {n}
    OBVIOUS
  <2>2. mux = [registered |-> mux.registered, panes |-> mux.panes, closed |-> mux.closed]
    BY <1>2 DEF IsMux
  <2>3. mux' = [mux EXCEPT !.registered = a, !.panes = b]
    BY <1>1, <2>1 DEF Spawned
  <2> QED
    BY <2>1, <2>2, <2>3
<1>11. /\ mux'.registered = mux.registered \cup {n} /\ mux'.panes = mux.panes \cup {n}
       /\ mux'.closed = mux.closed
       /\ mux' = [registered |-> mux'.registered, panes |-> mux'.panes, closed |-> mux'.closed]
  BY <1>10
<1>12. IsMux(mux', K) /\ exits' \in Seq(K)
  <2>1. IsMux(mux, K) /\ exits \in Seq(K)
    BY <1>2, <1>3, KnownMore
  <2> QED
    BY <1>1, <1>3, <1>11, <2>1 DEF IsMux
<1>13. Data'
  BY <1>1, <1>3, <1>9, <1>12 DEF Core, Data
<1>14. Apart(session')
  <2> SUFFICES ASSUME NEW x \in DOMAIN session.tabs, NEW y \in DOMAIN session.tabs, x # y,
                      NEW p, p \in Remembered(session'.tabs[x]),
                      p \in Remembered(session'.tabs[y])
               PROVE  FALSE
    BY <1>5 DEF Apart
  <2>1. Remembered(session.tabs[x]) \cap Remembered(session.tabs[y]) = {}
    BY DEF Core, Apart
  <2>2. p \in Remembered(session.tabs[x]) \/ (x = t /\ p = n)
    BY <1>2, <1>5, <1>7
  <2>3. p \in Remembered(session.tabs[y]) \/ (y = t /\ p = n)
    BY <1>2, <1>5, <1>7
  <2> QED
    BY <1>3, <1>7, <2>1, <2>2, <2>3
<1>15. /\ PanesShown(session') \subseteq PanesShown(session) \cup {n}
       /\ PanesShown(session) \cup {n} \subseteq PanesShown(session') \cup lost'
  <2>1. ASSUME NEW x \in PanesShown(session')
        PROVE  x \in PanesShown(session) \cup {n}
    <3>1. PICK y \in DOMAIN session.tabs : x \in AllPanes(session'.tabs[y])
      BY <1>5 DEF PanesShown
    <3>2. x \in AllPanes(session.tabs[y]) \/ x = n
      BY <1>2, <1>5, <1>6, <3>1
    <3> QED
      BY <3>2, ShownIs
  <2>2. ASSUME NEW x \in PanesShown(session)
        PROVE  x \in PanesShown(session')
    <3>1. PICK y \in DOMAIN session.tabs : x \in AllPanes(session.tabs[y])
      BY ShownIs
    <3>2. x \in AllPanes(session'.tabs[y])
      BY <1>2, <1>5, <3>1
    <3> QED
      BY <1>5, <3>2 DEF PanesShown
  <2>3. n \in AllPanes(tab) => n \in PanesShown(session')
    BY <1>2, <1>5 DEF PanesShown
  <2>4. n \in PanesShown(session') \cup lost'
    BY <1>1, <2>3
  <2> QED
    BY <2>1, <2>2, <2>4
<1>16. n \notin Range(mux.closed)
  BY <1>2, <1>3, RangeAt DEF IsMux
<1>17. Agrees(session', mux', lost', stuck', leaked')
  BY <1>1, <1>11, <1>15, <1>16 DEF Core, Agrees
<1> QED
  BY <1>13, <1>14, <1>17 DEF Core

(* The focused tab is a tab of known panes.                                *)
LEMMA FocusedIs ==
    ASSUME Core, TabFocused
    PROVE  /\ ActiveTab \in DOMAIN session.tabs
           /\ Focused = session.tabs[ActiveTab] /\ IsTab(Focused, Known)
  BY DEF TabFocused, Core, Data, IsSession, Focused

(* What the user does to the panes of the focused tab without a new pane.  *)
EditsFocused ==
    \/ \E p \in 1..MaxPanes : FocusPane(p) \/ ClickPane(p)
    \/ \E axis \in SplitDirections, f \in BOOLEAN : ResizePaneToward(axis, f)
    \/ EqualizePanes
    \/ \E a, b \in 1..MaxPanes, r \in RatioMin..RatioMax : UpdateDividerDrag(a, b, r)
    \/ UndoSplit
    \/ RedoSplit
    \/ ToggleFloatTile

(* Each is an edit in the sense above.                                     *)
LEMMA EditsAreEdits ==
    ASSUME Core, EditsFocused
    PROVE  Core'
<1>1. IsTab(Focused, Known) /\ ActiveTab \in DOMAIN session.tabs
  <2>1. TabFocused
    BY DEF EditsFocused, FocusPane, ClickPane, ResizePaneToward, EqualizePanes,
           UpdateDividerDrag, UndoSplit, RedoSplit, ToggleFloatTile
  <2> QED
    BY <2>1, FocusedIs
<1>2. ASSUME NEW p, FocusPane(p)
      PROVE  Core'
  <2>1. p \in AllPanes(Focused) /\ EditTab([Focused EXCEPT !.active = p])
    BY <1>2 DEF FocusPane
  <2>2. IsEdit([Focused EXCEPT !.active = p], Focused, {})
    BY <1>1, <2>1, FocusEdits
  <2> QED
    BY <1>1, <2>1, <2>2, EditKeepsCore
<1>3. ASSUME NEW p, ClickPane(p)
      PROVE  Core'
  <2>1. PICK u : u = [Focused EXCEPT !.active = p,
                                     !.floating = IF IsFloating(Focused, p)
                                                  THEN Raise(@, p) ELSE @]
    OBVIOUS
  <2>2. p \in AllPanes(Focused) /\ EditTab(u)
    BY <1>3, <2>1 DEF ClickPane
  <2>3. CASE IsFloating(Focused, p)
    <3>1. p \in Range(Focused.floating)
      BY <2>3 DEF IsFloating
    <3>2. u = [Focused EXCEPT !.active = p, !.floating = Raise(@, p)]
      BY <2>1, <2>3
    <3>3. IsEdit(u, Focused, {})
      BY <1>1, <2>2, <3>1, <3>2, FocusEdits
    <3> QED
      BY <1>1, <2>2, <3>3, EditKeepsCore
  <2>4. CASE ~IsFloating(Focused, p)
    <3>1. u = [Focused EXCEPT !.active = p]
      <4>1. PICK t, f, a, x, r : Focused = [tree |-> t, floating |-> f, active |-> a,
                                            undo |-> x, redo |-> r]
        BY <1>1 DEF IsTab
      <4>2. PICK g : g = IF IsFloating(Focused, p) THEN Raise(Focused.floating, p)
                         ELSE Focused.floating
        OBVIOUS
      <4>3. g = f
        BY <2>4, <4>1, <4>2
      <4>4. u = [Focused EXCEPT !.active = p, !.floating = g]
        BY <2>1, <4>2
      <4>5. u = [tree |-> t, floating |-> g, active |-> p, undo |-> x, redo |-> r]
        BY <4>1, <4>4
      <4> QED
        BY <4>1, <4>3, <4>5
    <3>2. IsEdit(u, Focused, {})
      BY <1>1, <2>2, <3>1, FocusEdits
    <3> QED
      BY <1>1, <2>2, <3>2, EditKeepsCore
  <2> QED
    BY <2>3, <2>4
<1>4. ASSUME NEW axis, NEW f, ResizePaneToward(axis, f)
      PROVE  Core'
  <2>1. PICK delta : delta = IF f THEN 1 ELSE -1
    OBVIOUS
  <2>2. PICK u : u = SetTree(Focused, TryResizeToward(Focused.tree, Focused.active,
                                                      axis, f, delta)[1])
    OBVIOUS
  <2>3. EditTab(u)
    BY <1>4, <2>1, <2>2 DEF ResizePaneToward
  <2>4. IsEdit(u, Focused, {})
    BY <1>1, <2>2, TreeEdits
  <2> QED
    BY <1>1, <2>3, <2>4, EditKeepsCore
<1>5. CASE EqualizePanes
  <2>1. EditTab(SetTree(Focused, Equalize(Focused.tree)))
    BY <1>5 DEF EqualizePanes
  <2>2. IsEdit(SetTree(Focused, Equalize(Focused.tree)), Focused, {})
    BY <1>1, TreeEdits
  <2> QED
    BY <1>1, <2>1, <2>2, EditKeepsCore
<1>6. ASSUME NEW a, NEW b, NEW r, UpdateDividerDrag(a, b, r)
      PROVE  Core'
  <2>1. PICK u : u = SetTree(Focused, SetDividerRatio(Focused.tree, a, b, r))
    OBVIOUS
  <2>2. EditTab(u)
    BY <1>6, <2>1 DEF UpdateDividerDrag
  <2>3. IsEdit(u, Focused, {})
    BY <1>1, <2>1, TreeEdits
  <2> QED
    BY <1>1, <2>2, <2>3, EditKeepsCore
<1>7. CASE UndoSplit \/ RedoSplit
  <2>1. PICK u : /\ u = UndoTree(Focused) \/ u = RedoTree(Focused)
                 /\ EditTab(u)
    BY <1>7 DEF UndoSplit, RedoSplit
  <2>2. IsEdit(u, Focused, {})
    BY <1>1, <2>1, UndoIsEdit
  <2> QED
    BY <1>1, <2>1, <2>2, EditKeepsCore
<1>8. CASE ToggleFloatTile
  <2>1. PICK p : p = Focused.active
    OBVIOUS
  <2>2. PICK u : /\ EditTab(u)
                 /\ \/ /\ IsFloating(Focused, p)
                       /\ LET w == [Focused EXCEPT !.floating = Lower(@, p)]
                          IN  u = SetTree(w, SplitAt(w.tree, FirstPane(w.tree), "vertical", p))
                    \/ /\ HasPane(Focused.tree, p)
                       /\ u = [SetTree(Focused, RemoveLeaf(Focused.tree, p))
                                 EXCEPT !.floating = Append(@, p)]
    BY <1>8, <2>1 DEF ToggleFloatTile
  <2>3. IsEdit(u, Focused, {})
    BY <1>1, <2>1, <2>2, FloatTileEdits
  <2> QED
    BY <1>1, <2>2, <2>3, EditKeepsCore
<1> QED
  BY <1>2, <1>3, <1>4, <1>5, <1>6, <1>7, <1>8 DEF EditsFocused

(* The two operations that spawn a pane into the focused tab; the toggle   *)
(* does when the tab has no floating pane yet.                             *)
LEMMA SpawnsAreEdits ==
    ASSUME Core, (\E d \in SplitDirections : SplitPane(d)) \/ ToggleFloatingPane
    PROVE  Core'
<1>1. IsTab(Focused, Known) /\ ActiveTab \in DOMAIN session.tabs
  <2>1. TabFocused
    BY DEF SplitPane, ToggleFloatingPane
  <2> QED
    BY <2>1, FocusedIs
<1>2. ASSUME NEW d, SplitPane(d)
      PROVE  Core'
  <2>1. PICK u : u = SetTree(Focused, SplitAt(Focused.tree, Focused.active, d, next.pane))
    OBVIOUS
  <2>2. EditTabWithNew(u)
    BY <1>2, <2>1 DEF SplitPane
  <2>3. IsEdit(u, Focused, {next.pane}) /\ AllPanes(Focused) \subseteq AllPanes(u)
    BY <1>1, <2>1, TreeEdits
  <2> QED
    BY <1>1, <2>2, <2>3, NewKeepsCore
<1>3. CASE ToggleFloatingPane /\ Focused.floating = << >>
  <2>1. PICK u : u = [Focused EXCEPT !.floating = <<next.pane>>, !.active = next.pane]
    OBVIOUS
  <2>2. EditTabWithNew(u)
    BY <1>3, <2>1 DEF ToggleFloatingPane
  <2>3. IsEdit(u, Focused, {next.pane}) /\ AllPanes(Focused) \subseteq AllPanes(u)
    BY <1>1, <1>3, <2>1, ToggleEdits
  <2> QED
    BY <1>1, <2>2, <2>3, NewKeepsCore
<1>4. CASE ToggleFloatingPane /\ Focused.floating # << >>
  <2>1. PICK u : u = [Focused EXCEPT !.active = IF IsFloating(Focused, @)
                                                THEN FirstPane(Focused.tree)
                                                ELSE Last(Focused.floating)]
    OBVIOUS
  <2>2. EditTab(u)
    BY <1>4, <2>1 DEF ToggleFloatingPane
  <2>3. IsEdit(u, Focused, {})
    BY <1>1, <1>4, <2>1, ToggleEdits
  <2> QED
    BY <1>1, <2>2, <2>3, EditKeepsCore
<1> QED
  BY <1>2, <1>3, <1>4

-----------------------------------------------------------------------------
(* Closes, exits and pumps *)

(* The panes' ids stay as they are when only a window or a tab is numbered. *)
NumbersKept ==
    /\ next' = [pane |-> next'.pane, tab |-> next'.tab, window |-> next'.window]
    /\ next'.pane = next.pane

(* Other windows around the same tabs.                                     *)
LEMMA WindowsOnly ==
    ASSUME NEW P, NEW s, IsSession(s, P), NEW u,
           u = [tabs |-> u.tabs, windows |-> u.windows], u.tabs = s.tabs
    PROVE  /\ IsSession(u, P) /\ PanesShown(u) = PanesShown(s) /\ (Apart(s) => Apart(u))
           /\ \A lo, m, st, le : Agrees(s, m, lo, st, le) => Agrees(u, m, lo, st, le)
<1>1. IsSession(u, P)
  BY DEF IsSession
<1>2. Apart(s) => Apart(u)
  BY DEF Apart
<1>3. PanesShown(u) = PanesShown(s)
  BY DEF PanesShown
<1> QED
  BY <1>1, <1>2, <1>3 DEF Agrees

(* What a step leaves that touches no pane: the focus, the order of tabs,  *)
(* the drag, the end of the process.                                       *)
LEMMA NoPaneKeepsCore ==
    ASSUME Core, session' = [tabs |-> session'.tabs, windows |-> session'.windows],
           session'.tabs = session.tabs, NumbersKept, running' \in BOOLEAN,
           UNCHANGED <<mux, exits, lost, stuck, leaked>>
    PROVE  Core'
<1>1. /\ IsSession(session, Known) /\ Apart(session)
      /\ Agrees(session, mux, lost, stuck, leaked)
  BY DEF Core, Data
<1>2. /\ IsSession(session', Known) /\ Apart(session')
      /\ Agrees(session', mux, lost, stuck, leaked)
  BY <1>1, WindowsOnly
<1>3. Data'
  BY <1>2 DEF Core, Data, Known, NumbersKept
<1> QED
  BY <1>2, <1>3 DEF Core

(* The mux is pumped, with the tabs of v in the registry.                  *)
LEMMA PumpKeepsCore ==
    ASSUME Core, NEW v, v = [tabs |-> v.tabs, windows |-> v.windows], v.tabs = session.tabs,
           PumpsTo(Pumped(v)), session' = [tabs |-> session'.tabs, windows |-> session'.windows],
           session'.tabs = Pumped(v).tabs, NumbersKept, running' = running,
           lost' = lost, leaked' = leaked
    PROVE  /\ Core' /\ Pumped(v).windows = v.windows /\ DOMAIN session'.tabs = DOMAIN session.tabs
           /\ Pumped(v) = [tabs |-> Pumped(v).tabs, windows |-> Pumped(v).windows]
<1>1. /\ IsSession(session, Known) /\ IsMux(mux, Known) /\ exits \in Seq(Known)
      /\ Apart(session) /\ Agrees(session, mux, lost, stuck, leaked) /\ running \in BOOLEAN
  BY DEF Core, Data
<1>2. IsSession(v, Known) /\ Apart(v) /\ Agrees(v, mux, lost, stuck, leaked)
  BY <1>1, WindowsOnly
<1>3. PICK c : c = CloseEach(mux, exits)
  OBVIOUS
<1>4. PICK u : u = RemoveEach(v, c.closed)
  OBVIOUS
<1>5. Poll(mux) = c /\ Pumped(v) = u
  BY <1>3, <1>4 DEF Poll, Pumped
<1>6. PICK st : st = stuck \cup (Range(c.closed) \cap PanesShown(u))
  OBVIOUS
<1>7. /\ Shrunk(u, v, Known, Range(c.closed)) /\ Apart(u) /\ IsMux(Cleanup(c), Known)
      /\ Agrees(u, Cleanup(c), lost, st, leaked)
  BY <1>1, <1>2, <1>3, <1>4, <1>6, PumpAgrees
<1>8. mux' = Cleanup(c) /\ exits' = << >> /\ stuck' = st
  BY <1>5, <1>6 DEF PumpsTo
<1>9. IsSession(u, Known) /\ u.windows = v.windows /\ DOMAIN u.tabs = DOMAIN v.tabs
  BY <1>7 DEF Shrunk
<1>10. /\ IsSession(session', Known) /\ Apart(session')
       /\ Agrees(session', Cleanup(c), lost, st, leaked)
  BY <1>5, <1>7, <1>9, WindowsOnly
<1>11. exits' \in Seq(Known)
  BY <1>8
<1>12. IsMux(mux', Known)
  BY <1>7, <1>8
<1>13. Data'
  BY <1>1, <1>10, <1>11, <1>12 DEF Core, Data, Known, NumbersKept
<1>14. Core'
  BY <1>8, <1>10, <1>13 DEF Core
<1>15. u = [tabs |-> u.tabs, windows |-> u.windows]
  BY <1>9 DEF IsSession
<1> QED
  BY <1>5, <1>9, <1>14, <1>15

(* The focused pane is closed: the pane leaves the mux and the session, or *)
(* the application exits because it is the last one.                       *)
LEMMA CloseKeepsCore ==
    ASSUME Core, CloseFocusedPane
    PROVE  /\ Core' /\ session'.windows = session.windows
           /\ DOMAIN session'.tabs = DOMAIN session.tabs
           /\ active \in DOMAIN session.windows => active' = active
           /\ grabs' = grabs \/ KeepGrabs(grabs, session')
           /\ UNCHANGED <<moves, drag, next, astray, hollow>>
<1>1. /\ IsSession(session, Known) /\ IsMux(mux, Known) /\ exits \in Seq(Known)
      /\ Apart(session) /\ Agrees(session, mux, lost, stuck, leaked) /\ running \in BOOLEAN
      /\ next = [pane |-> next.pane, tab |-> next.tab, window |-> next.window]
  BY DEF Core, Data
<1>2. CASE ExitApp
  <2>1. /\ UNCHANGED <<session, active, moves, grabs, drag, mux, exits, next>>
        /\ UNCHANGED <<lost, stuck, leaked, astray, hollow>>
        /\ running' = FALSE
    BY <1>2 DEF ExitApp, held, past
  <2>2. Core'
    BY <1>1, <2>1, NoPaneKeepsCore DEF IsSession, NumbersKept
  <2> QED
    BY <2>1, <2>2
<1>3. CASE ~ExitApp
  <2>1. PICK p : p = Focused.active
    OBVIOUS
  <2>2. PICK s : s = RemovePaneFromSession(session, p)
    OBVIOUS
  <2>3. PICK st : st = stuck \cup ({p} \cap PanesShown(s))
    OBVIOUS
  <2>4. /\ mux' = CloseInMux(mux, p) /\ session' = s /\ stuck' = st /\ TransferFocus(s)
        /\ KeepGrabs(grabs, s)
        /\ UNCHANGED <<moves, drag, exits, next, running, lost, leaked, astray, hollow>>
    BY <1>3, <2>1, <2>2, <2>3 DEF CloseFocusedPane
  <2>5. Shrunk(s, session, Known, {p})
    BY <1>1, <2>2, RemovePaneShrinks
  <2>6. /\ Apart(s) /\ PanesShown(session) \ {p} \subseteq PanesShown(s)
        /\ PanesShown(s) \subseteq PanesShown(session)
    BY <1>1, <2>5, ShrunkShows
  <2>7. Closed(mux', mux, Known, {p})
    BY <1>1, <2>4, CloseIsClosed
  <2>8. Agrees(s, mux', lost, st, leaked)
    BY <1>1, <2>3, <2>6, <2>7 DEF Agrees, Closed
  <2>9. /\ IsSession(s, Known) /\ s.windows = session.windows
        /\ DOMAIN s.tabs = DOMAIN session.tabs
    BY <2>5 DEF Shrunk
  <2>10. IsMux(mux', Known)
    BY <2>7 DEF Closed
  <2>11. Data'
    BY <1>1, <2>4, <2>9, <2>10 DEF Core, Data, Known
  <2>12. Core'
    BY <2>4, <2>6, <2>8, <2>11 DEF Core
  <2> QED
    BY <2>4, <2>9, <2>12 DEF TransferFocus
<1> QED
  BY <1>2, <1>3

(* A shell exits: the event waits in the mux's channel.                    *)
LEMMA ExitKeepsCore ==
    ASSUME Core, NEW p, ChildExits(p)
    PROVE  Core'
<1>1. /\ p \in mux.registered /\ exits' = Append(exits, p)
      /\ UNCHANGED <<session, mux, next, running, lost, stuck, leaked>>
  BY DEF ChildExits, past
<1>2. exits \in Seq(Known) /\ mux.registered \subseteq Known
  BY DEF Core, Data, IsMux
<1>3. exits' \in Seq(Known)
  BY <1>1, <1>2, AppendRange
<1>4. Data'
  BY <1>1, <1>3 DEF Core, Data, Known
<1> QED
  BY <1>1, <1>4 DEF Core

-----------------------------------------------------------------------------
(* The steps, as steps of TabWindows *)

(* The operations on windows are the same under both names.                *)
LEMMA SameHere ==
    /\ RP!NewWindow = NewWindow
    /\ \A w, t : RP!AddTab(w, t) = AddTab(w, t)
    /\ \A w, i, t : RP!InsertTabAt(w, i, t) = InsertTabAt(w, i, t)
    /\ \A w, i, j : RP!ReorderTab(w, i, j) = ReorderTab(w, i, j)
    /\ \A w, i, t : RP!Merged(w, i, t) = Merged(w, i, t)
    /\ \A ws, t : RP!WithoutTab(ws, t) = WithoutTab(ws, t)
    /\ \A ws, w : RP!WithoutEmpty(ws, w) = WithoutEmpty(ws, w)
    /\ \A ws, w, u : RP!With(ws, w, u) = With(ws, w, u)
    /\ \A ws, w : RP!Without(ws, w) = Without(ws, w)
    /\ \A ws, w, t : RP!MovedTo(ws, w, t) = MovedTo(ws, w, t)
    /\ \A ws, t : RP!LeftEmpty(ws, t) = LeftEmpty(ws, t)
    /\ \A g, S : RP!Within(g, S) = Within(g, S)
    /\ \A u : RP!Range(u) = Range(u)
<1> USE DEF NewWindow, RP!NewWindow, AddTab, RP!AddTab, InsertTabAt, RP!InsertTabAt,
            InsertAt, RP!InsertAt, RemoveAt, RP!RemoveAt, PositionOf, RP!PositionOf,
            WindowsOf, RP!WindowsOf, Range, RP!Range, Without, RP!Without, With, RP!With
<1>1. \A w, i, j : RP!ReorderTab(w, i, j) = ReorderTab(w, i, j)
  BY DEF ReorderTab, RP!ReorderTab
<1>2. \A w, i, t : RP!Merged(w, i, t) = Merged(w, i, t)
  BY DEF Merged, RP!Merged
<1>3. \A ws, t : RP!WithoutTab(ws, t) = WithoutTab(ws, t)
  BY DEF WithoutTab, RP!WithoutTab, WindowRemoveTab, RP!WindowRemoveTab
<1>4. \A ws, w : RP!WithoutEmpty(ws, w) = WithoutEmpty(ws, w)
  BY DEF WithoutEmpty, RP!WithoutEmpty
<1>5. \A ws, w, t : RP!MovedTo(ws, w, t) = MovedTo(ws, w, t)
  BY <1>3 DEF MovedTo, RP!MovedTo
<1>6. \A ws, t : RP!LeftEmpty(ws, t) = LeftEmpty(ws, t)
  BY DEF LeftEmpty, RP!LeftEmpty
<1>7. \A g, S : RP!Within(g, S) = Within(g, S)
  BY DEF Within, RP!Within
<1> QED
  BY <1>1, <1>2, <1>3, <1>4, <1>5, <1>6, <1>7

(* The drags stay when the windows do.                                     *)
LEMMA GrabsSame ==
    ASSUME RP!Inv, NEW s, DOMAIN s.windows = DOMAIN session.windows, KeepGrabs(grabs, s)
    PROVE  grabs' = grabs
<1>1. PICK D : D = DOMAIN grabs
  OBVIOUS
<1>2. grabs = [w \in D |-> grabs[w]] /\ D \subseteq DOMAIN session.windows
  BY <1>1 DEF RP!Inv, RP!Held
<1>3. grabs' = [w \in D |-> grabs[w]]
  BY <1>1, <1>2 DEF KeepGrabs, Within
<1> QED
  BY <1>2, <1>3

(* The shape of what the invariant speaks of.                              *)
LEMMA Shapes ==
    ASSUME Core
    PROVE  /\ session = [tabs |-> session.tabs, windows |-> session.windows]
           /\ next = [pane |-> next.pane, tab |-> next.tab, window |-> next.window]
           /\ running \in BOOLEAN
  BY DEF Core, Data, IsSession

(* An edit of a tab leaves the windows and the set of tabs as they are.    *)
LEMMA EditStutters ==
    ASSUME Core, NEW tab, EditTab(tab) \/ EditTabWithNew(tab)
    PROVE  UNCHANGED RP!vars
<1>1. PICK T, W : session = [tabs |-> T, windows |-> W]
  BY Shapes
<1>2. PICK p, t, w : next = [pane |-> p, tab |-> t, window |-> w]
  BY Shapes
<1>3. /\ session' = [session EXCEPT !.tabs[ActiveTab] = tab]
      /\ UNCHANGED <<active, moves, grabs, drag, astray, hollow>>
  BY DEF EditTab, EditTabWithNew, held
<1>4. session' = [tabs |-> [T EXCEPT ![ActiveTab] = tab], windows |-> W]
  BY <1>1, <1>3
<1>5. DOMAIN session'.tabs = DOMAIN session.tabs /\ session'.windows = session.windows
  BY <1>1, <1>4
<1>6. next' = next \/ next' = [next EXCEPT !.pane = @ + 1]
  BY DEF EditTab, EditTabWithNew
<1>7. next'.tab = next.tab /\ next'.window = next.window
  BY <1>2, <1>6
<1> QED
  BY <1>3, <1>5, <1>7 DEF RP!vars

(* The steps that touch no pane.                                           *)
WindowStep ==
    \/ \E i \in Positions : SwitchToTab(i) \/ GrabTab(i)
    \/ ReleaseTab
    \/ \E i, j \in Positions : MoveTab(i, j)
    \/ \E t \in 1..MaxTabs : MoveTabToNewWindowDeferred(t)
    \/ DragSingleTab
    \/ EndDrag
    \/ \E w \in 1..MaxWindows : FocusWindow(w)

(* They are steps of TabWindows.                                           *)
LEMMA WindowSteps ==
    ASSUME Core, WindowStep
    PROVE  Core' /\ RP!Next
<1>1. PICK T, W : session = [tabs |-> T, windows |-> W]
  BY Shapes
<1>2. next = [pane |-> next.pane, tab |-> next.tab, window |-> next.window] /\ running \in BOOLEAN
  BY Shapes
<1>3. Positions = RP!TabIds /\ RP!WindowIds = 1..MaxWindows /\ RP!TabIds = 1..MaxTabs
  BY DEF Positions, RP!TabIds, RP!WindowIds
<1>4. ASSUME NEW i \in Positions, SwitchToTab(i) \/ GrabTab(i)
      PROVE  Core' /\ RP!Next
  <2>1. /\ i \in 1..Len(session.windows[active].tabs)
        /\ session' = [session EXCEPT !.windows[active].current = i]
        /\ UNCHANGED <<active, moves, drag, mux, exits, next, running>>
        /\ UNCHANGED <<lost, stuck, leaked, astray, hollow>>
    BY <1>4 DEF SwitchToTab, GrabTab, held, past
  <2>2. session' = [tabs |-> T, windows |-> [W EXCEPT ![active].current = i]]
    BY <1>1, <2>1
  <2>3. session'.windows = [session.windows EXCEPT ![active].current = i]
        /\ session'.tabs = session.tabs
    BY <1>1, <2>2
  <2>4. Core'
    BY <1>2, <2>1, <2>2, <2>3, NoPaneKeepsCore DEF NumbersKept
  <2>5. CASE SwitchToTab(i)
    <3>1. grabs' = grabs
      BY <2>5 DEF SwitchToTab, held
    <3>2. RP!SwitchToTab(i)
      BY <2>1, <2>3, <3>1 DEF RP!SwitchToTab
    <3> QED
      BY <1>3, <2>4, <3>2 DEF RP!Next
  <2>6. CASE GrabTab(i)
    <3>1. grabs' = With(grabs, active, session.windows[active].tabs[i])
      BY <2>6 DEF GrabTab
    <3>2. RP!GrabTab(i)
      BY <2>1, <2>3, <3>1, SameHere DEF RP!GrabTab
    <3> QED
      BY <1>3, <2>4, <3>2 DEF RP!Next
  <2> QED
    BY <1>4, <2>5, <2>6
<1>5. ASSUME NEW i \in Positions, NEW j \in Positions, MoveTab(i, j)
      PROVE  Core' /\ RP!Next
  <2>1. /\ active \in DOMAIN grabs /\ {i, j} \subseteq 1..Len(session.windows[active].tabs)
        /\ session' = [session EXCEPT !.windows[active] = ReorderTab(@, i, j)]
        /\ grabs' \in {grabs, Without(grabs, active)}
        /\ UNCHANGED <<active, moves, drag, mux, exits, next, running>>
        /\ UNCHANGED <<lost, stuck, leaked, astray, hollow>>
    BY <1>5 DEF MoveTab, past
  <2>2. session' = [tabs |-> T, windows |-> [W EXCEPT ![active] = ReorderTab(@, i, j)]]
    BY <1>1, <2>1
  <2>3. session'.windows = [session.windows EXCEPT ![active] = ReorderTab(@, i, j)]
        /\ session'.tabs = session.tabs
    BY <1>1, <2>2
  <2>4. Core'
    BY <1>2, <2>1, <2>2, <2>3, NoPaneKeepsCore DEF NumbersKept
  <2>5. RP!MoveTab(i, j)
    BY <2>1, <2>3, SameHere DEF RP!MoveTab
  <2> QED
    BY <1>3, <2>4, <2>5 DEF RP!Next
<1>6. ASSUME NEW t \in 1..MaxTabs, MoveTabToNewWindowDeferred(t)
      PROVE  Core' /\ RP!Next
  <2>1. /\ t \in Range(session.windows[active].tabs) /\ moves' = Append(moves, t)
        /\ UNCHANGED <<session, active, grabs, drag, mux, exits, next, running>>
        /\ UNCHANGED <<lost, stuck, leaked, astray, hollow>>
    BY <1>6 DEF MoveTabToNewWindowDeferred, past
  <2>2. Core'
    BY <1>1, <1>2, <2>1, NoPaneKeepsCore DEF NumbersKept
  <2>3. RP!MoveTabToNewWindowDeferred(t)
    BY <2>1, SameHere DEF RP!MoveTabToNewWindowDeferred
  <2> QED
    BY <1>3, <2>2, <2>3 DEF RP!Next
<1>7. CASE ReleaseTab
  <2>1. /\ active \in DOMAIN grabs /\ grabs' = Without(grabs, active)
        /\ UNCHANGED <<session, active, moves, drag, mux, exits, next, running>>
        /\ UNCHANGED <<lost, stuck, leaked, astray, hollow>>
    BY <1>7 DEF ReleaseTab, past
  <2>2. Core'
    BY <1>1, <1>2, <2>1, NoPaneKeepsCore DEF NumbersKept
  <2> QED
    BY <2>1, <2>2, SameHere DEF RP!Next, RP!ReleaseTab
<1>8. CASE DragSingleTab
  <2>1. /\ active \in DOMAIN grabs /\ Len(session.windows[active].tabs) <= 1
        /\ drag' = [window |-> active, tab |-> grabs[active]]
        /\ grabs' = Without(grabs, active)
        /\ UNCHANGED <<session, active, moves, mux, exits, next, running>>
        /\ UNCHANGED <<lost, stuck, leaked, astray, hollow>>
    BY <1>8 DEF DragSingleTab, past
  <2>2. Core'
    BY <1>1, <1>2, <2>1, NoPaneKeepsCore DEF NumbersKept
  <2> QED
    BY <2>1, <2>2, SameHere DEF RP!Next, RP!DragSingleTab
<1>9. CASE EndDrag
  <2>1. /\ drag # NoDrag /\ drag' = NoDrag
        /\ UNCHANGED <<session, active, moves, grabs, mux, exits, next, running>>
        /\ UNCHANGED <<lost, stuck, leaked, astray, hollow>>
    BY <1>9 DEF EndDrag, past
  <2>2. Core'
    BY <1>1, <1>2, <2>1, NoPaneKeepsCore DEF NumbersKept
  <2> QED
    BY <2>1, <2>2 DEF RP!Next, RP!EndDrag
<1>10. ASSUME NEW w \in 1..MaxWindows, FocusWindow(w)
       PROVE  Core' /\ RP!Next
  <2>1. /\ w \in DOMAIN session.windows /\ active' = w
        /\ UNCHANGED <<session, moves, grabs, drag, mux, exits, next, running>>
        /\ UNCHANGED <<lost, stuck, leaked, astray, hollow>>
    BY <1>10 DEF FocusWindow, held, past
  <2>2. Core'
    BY <1>1, <1>2, <2>1, NoPaneKeepsCore DEF NumbersKept
  <2>3. RP!FocusWindow(w)
    BY <2>1 DEF RP!FocusWindow
  <2> QED
    BY <1>3, <2>2, <2>3 DEF RP!Next
<1> QED
  BY <1>4, <1>5, <1>6, <1>7, <1>8, <1>9, <1>10 DEF WindowStep

(* The pane operations, a close of the focused pane, an exit and a pump    *)
(* change no window.                                                       *)
PaneStep ==
    \/ EditsFocused \/ ToggleFloatingPane \/ CloseFocusedPane \/ PumpMuxEvents
    \/ \E d \in SplitDirections : SplitPane(d)
    \/ \E p \in 1..MaxPanes : ChildExits(p)

(* TabWindows sees nothing of them.                                        *)
LEMMA PaneSteps ==
    ASSUME Core, RP!Inv, PaneStep
    PROVE  Core' /\ UNCHANGED RP!vars
<1>1. session = [tabs |-> session.tabs, windows |-> session.windows]
      /\ next = [pane |-> next.pane, tab |-> next.tab, window |-> next.window]
  BY Shapes
<1>2. CASE EditsFocused
  <2>1. \E tab : EditTab(tab)
    BY <1>2 DEF EditsFocused, FocusPane, ClickPane, ResizePaneToward, EqualizePanes,
                UpdateDividerDrag, UndoSplit, RedoSplit, ToggleFloatTile
  <2> QED
    BY <1>2, <2>1, EditsAreEdits, EditStutters
<1>3. CASE ToggleFloatingPane \/ \E d \in SplitDirections : SplitPane(d)
  <2>1. \E tab : EditTab(tab) \/ EditTabWithNew(tab)
    BY <1>3 DEF ToggleFloatingPane, SplitPane
  <2> QED
    BY <1>3, <2>1, SpawnsAreEdits, EditStutters
<1>4. CASE CloseFocusedPane
  <2>1. active \in DOMAIN session.windows
    BY DEF RP!Inv, RP!Layout
  <2>2. /\ Core' /\ session'.windows = session.windows
        /\ DOMAIN session'.tabs = DOMAIN session.tabs
        /\ active' = active
        /\ grabs' = grabs \/ KeepGrabs(grabs, session')
        /\ UNCHANGED <<moves, drag, next, astray, hollow>>
    BY <1>4, <2>1, CloseKeepsCore
  <2>3. grabs' = grabs
    <3>1. PICK s : s = session'
      OBVIOUS
    <3>2. DOMAIN s.windows = DOMAIN session.windows
      BY <2>2, <3>1
    <3> QED
      BY <2>2, <3>1, <3>2, GrabsSame
  <2> QED
    BY <2>2, <2>3 DEF RP!vars
<1>5. CASE PumpMuxEvents
  <2>1. active \in DOMAIN session.windows
    BY DEF RP!Inv, RP!Layout
  <2>2. PICK s : s = Pumped(session)
    OBVIOUS
  <2>3. /\ session' = s /\ PumpsTo(s) /\ TransferFocus(s) /\ KeepGrabs(grabs, s)
        /\ UNCHANGED <<moves, drag, next, running, lost, leaked, astray, hollow>>
    BY <1>5, <2>2 DEF PumpMuxEvents
  <2>4. IsSession(session, Known) /\ exits \in Seq(Known) /\ IsMux(mux, Known)
    BY DEF Core, Data
  <2>5. s = [tabs |-> s.tabs, windows |-> s.windows]
    <3>1. PICK c : c = CloseEach(mux, exits)
      OBVIOUS
    <3>2. c.closed \in Seq(Known)
      BY <2>4, <3>1, CloseEachIsClosed DEF Closed, IsMux
    <3>3. s = RemoveEach(session, c.closed)
      BY <2>2, <3>1 DEF Pumped, Poll
    <3>4. Shrunk(s, session, Known, Range(c.closed))
      BY <2>4, <3>2, <3>3, RemoveEachShrinks
    <3> QED
      BY <3>4 DEF Shrunk, IsSession
  <2>6. /\ Core' /\ s.windows = session.windows /\ DOMAIN session'.tabs = DOMAIN session.tabs
    BY <1>1, <2>2, <2>3, <2>5, PumpKeepsCore DEF NumbersKept
  <2>7. active' = active
    BY <2>1, <2>3, <2>6 DEF TransferFocus
  <2>8. grabs' = grabs
    BY <2>3, <2>6, GrabsSame
  <2> QED
    BY <2>3, <2>6, <2>7, <2>8 DEF RP!vars
<1>6. ASSUME NEW p \in 1..MaxPanes, ChildExits(p)
      PROVE  Core' /\ UNCHANGED RP!vars
  <2>1. UNCHANGED <<session, active, moves, grabs, drag, next, astray, hollow>>
    BY <1>6 DEF ChildExits, held, past
  <2> QED
    BY <1>6, <2>1, ExitKeepsCore DEF RP!vars
<1> QED
  BY <1>2, <1>3, <1>4, <1>5, <1>6 DEF PaneStep

-----------------------------------------------------------------------------
(* New tabs *)

(* A new tab knows of its pane.                                            *)
LEMMA NewTabIs ==
    ASSUME NEW p
    PROVE  /\ IsTab(NewTab(p), {p}) /\ AllPanes(NewTab(p)) = {p}
           /\ Remembered(NewTab(p)) = {p}
<1>1. PICK t : t = Leaf(p)
  OBVIOUS
<1>2. PICK e : e = << >>
  OBVIOUS
<1>3. IsTree(t) /\ PaneSet(t) = {p}
  BY <1>1, LeafIsTree
<1>4. IsTreeOf(t, {p})
  BY <1>3 DEF IsTreeOf
<1>5. e \in Seq({p}) /\ e \in Seq({}) /\ Len(e) = 0 /\ MaxUndo \in Nat
  BY <1>2, SessionAssumption
<1>6. \A x : x \notin Range(e)
  <2>1. \A x : x \in Range(e) <=> \E i \in 1..Len(e) : e[i] = x
    BY <1>5, RangeAt
  <2> QED
    BY <1>5, <2>1
<1>7. e \in Seq(Range(e))
  BY <1>5, RangeAt
<1>8. IsStack(e, {p}) /\ Len(e) <= MaxUndo
  BY <1>5, <1>6, <1>7 DEF IsStack
<1>9. PICK v : v = [tree |-> t, floating |-> e, active |-> p, undo |-> e, redo |-> e]
  OBVIOUS
<1>10. NewTab(p) = v
  BY <1>1, <1>2, <1>9 DEF NewTab
<1>11. IsTab(v, {p})
  BY <1>4, <1>5, <1>8, <1>9, MakeTab
<1>12. AllPanes(v) = {p}
  BY <1>3, <1>6, <1>9 DEF AllPanes
<1>13. Remembered(v) = {p}
  BY <1>11, <1>12, TabSelf
<1> QED
  BY <1>10, <1>11, <1>12, <1>13

(* What create_window throws away is recorded.                             *)
Discards ==
    /\ mux'.closed \in Seq(Known) /\ Range(mux'.closed) \subseteq Range(mux.closed)
    /\ leaked \subseteq leaked'
    /\ mux.panes \cap Range(mux.closed) \subseteq Range(mux'.closed) \cup leaked'

(* A tab with a pane spawned for it is registered.                         *)
LEMMA NewTabKeepsCore ==
    ASSUME Core, next.tab \notin DOMAIN session.tabs, next.pane <= MaxPanes,
           session' = [tabs    |-> With(session.tabs, next.tab, NewTab(next.pane)),
                       windows |-> session'.windows],
           mux' = [registered |-> mux.registered \cup {next.pane},
                   panes      |-> mux.panes \cup {next.pane}, closed |-> mux'.closed],
           next' = [pane |-> next.pane + 1, tab |-> next'.tab, window |-> next'.window],
           UNCHANGED <<exits, running, lost, stuck>>, Discards
    PROVE  Core' /\ DOMAIN session'.tabs = DOMAIN session.tabs \cup {next.tab}
<1>1. PICK n, t : n = next.pane /\ t = next.tab
  OBVIOUS
<1>2. /\ IsSession(session, Known) /\ IsMux(mux, Known) /\ exits \in Seq(Known)
      /\ Apart(session) /\ Agrees(session, mux, lost, stuck, leaked) /\ running \in BOOLEAN
  BY DEF Core, Data
<1>3. /\ n \in Nat /\ Known \subseteq Known' /\ n \in Known' /\ n \notin Known
      /\ next'.pane \in 1..(MaxPanes + 1)
      /\ next' = [pane |-> next'.pane, tab |-> next'.tab, window |-> next'.window]
  <2>1. n \in 1..(MaxPanes + 1) /\ MaxPanes \in Nat /\ n <= MaxPanes
    BY <1>1, SessionAssumption DEF Core, Data
  <2>2. next'.pane = n + 1
    BY <1>1
  <2>3. Known = 1..(n - 1) /\ Known' = 1..n
    BY <1>1, <2>1, <2>2 DEF Known
  <2> QED
    BY <1>1, <2>1, <2>2, <2>3
<1>4. PICK K : K = Known'
  OBVIOUS
<1>5. PICK v : v = NewTab(n)
  OBVIOUS
<1>6. IsTab(v, {n}) /\ AllPanes(v) = {n} /\ Remembered(v) = {n}
  BY <1>5, NewTabIs
<1>7. PICK T, U : T = session.tabs /\ U = session'.tabs
  OBVIOUS
<1>8. U = [y \in DOMAIN T \cup {t} |-> IF y = t THEN v ELSE T[y]]
  BY <1>1, <1>5, <1>7 DEF With
<1>9. /\ DOMAIN U = DOMAIN T \cup {t} /\ U = [y \in DOMAIN U |-> U[y]]
      /\ U[t] = v /\ \A y \in DOMAIN T : y # t /\ U[y] = T[y]
  BY <1>1, <1>7, <1>8
<1>10. session' = [tabs |-> session'.tabs, windows |-> session'.windows]
  OBVIOUS
<1>11. IsSession(session', K)
  <2>1. IsSession(session, K)
    BY <1>2, <1>3, <1>4, KnownMore
  <2>2. {n} \subseteq K
    BY <1>3, <1>4
  <2>3. IsTab(v, K)
    BY <1>6, <2>2, TabWider
  <2> QED
    BY <1>7, <1>9, <1>10, <2>1, <2>3 DEF IsSession
<1>12. /\ mux'.registered = mux.registered \cup {n} /\ mux'.panes = mux.panes \cup {n}
       /\ mux' = [registered |-> mux'.registered, panes |-> mux'.panes, closed |-> mux'.closed]
  BY <1>1
<1>13. IsMux(mux', K) /\ exits' \in Seq(K)
  <2>1. IsMux(mux, K) /\ exits \in Seq(K) /\ mux'.closed \in Seq(K)
    BY <1>2, <1>3, <1>4, KnownMore DEF Discards
  <2> QED
    BY <1>3, <1>4, <1>12, <2>1 DEF IsMux
<1>14. Data'
  BY <1>2, <1>3, <1>4, <1>11, <1>13 DEF Data
<1>15. \A y \in DOMAIN T : Remembered(T[y]) \subseteq Known /\ n \notin Remembered(T[y])
  BY <1>2, <1>3, <1>7, ShownKnown
<1>16. Apart(session')
  <2> SUFFICES ASSUME NEW x \in DOMAIN U, NEW y \in DOMAIN U, x # y
               PROVE  Remembered(U[x]) \cap Remembered(U[y]) = {}
    BY <1>7 DEF Apart
  <2>1. CASE x = t
    BY <1>6, <1>9, <1>15, <2>1
  <2>2. CASE y = t
    BY <1>6, <1>9, <1>15, <2>2
  <2>3. CASE x # t /\ y # t
    BY <1>2, <1>7, <1>9, <2>3 DEF Apart
  <2> QED
    BY <2>1, <2>2, <2>3
<1>17. \A x : x \in PanesShown(session') <=> x \in PanesShown(session) \/ x = n
  BY <1>6, <1>7, <1>9 DEF PanesShown
<1>18. n \notin Range(mux.closed)
  BY <1>2, <1>3, RangeAt DEF IsMux
<1>19. Agrees(session', mux', lost', stuck', leaked')
  <2>1. mux.panes \subseteq mux.registered \cup Range(mux.closed) \cup leaked
    BY <1>2 DEF Agrees
  <2>2. mux'.panes \subseteq mux'.registered \cup Range(mux'.closed) \cup leaked'
    BY <1>12, <2>1 DEF Discards
  <2>3. /\ mux'.registered \subseteq PanesShown(session') \cup lost'
        /\ PanesShown(session') \subseteq mux'.registered \cup stuck'
    BY <1>2, <1>12, <1>17 DEF Agrees
  <2>4. mux'.registered \cap Range(mux'.closed) = {} /\ mux'.registered \subseteq mux'.panes
    BY <1>2, <1>12, <1>18 DEF Agrees, Discards
  <2> QED
    BY <2>2, <2>3, <2>4 DEF Agrees
<1> QED
  BY <1>1, <1>7, <1>9, <1>14, <1>16, <1>19 DEF Core

(* The mux with a pane spawned.                                            *)
LEMMA SpawnedIs ==
    ASSUME Core, NEW n
    PROVE  /\ Spawned(n) = [registered |-> mux.registered \cup {n},
                            panes |-> mux.panes \cup {n}, closed |-> mux.closed]
           /\ [Spawned(n) EXCEPT !.closed = << >>]
                 = [registered |-> mux.registered \cup {n},
                    panes |-> mux.panes \cup {n}, closed |-> << >>]
           /\ [mux EXCEPT !.closed = << >>]
                 = [registered |-> mux.registered, panes |-> mux.panes, closed |-> << >>]
<1>1. PICK a, b, r, q, c, e : /\ a = mux.registered \cup {n} /\ b = mux.panes \cup {n} /\ e = << >>
                              /\ r = mux.registered /\ q = mux.panes /\ c = mux.closed
  OBVIOUS
<1>2. mux = [registered |-> r, panes |-> q, closed |-> c]
  BY <1>1 DEF Core, Data, IsMux
<1>3. Spawned(n) = [mux EXCEPT !.registered = a, !.panes = b]
  BY <1>1 DEF Spawned
<1>4. Spawned(n) = [registered |-> a, panes |-> b, closed |-> c]
  BY <1>2, <1>3
<1>5. [Spawned(n) EXCEPT !.closed = e] = [registered |-> a, panes |-> b, closed |-> e]
  BY <1>4
<1>6. [mux EXCEPT !.closed = e] = [registered |-> r, panes |-> q, closed |-> e]
  BY <1>2
<1> QED
  BY <1>1, <1>4, <1>5, <1>6

(* Ids are fresh.                                                          *)
LEMMA FreshIds ==
    ASSUME RP!Inv
    PROVE  /\ next.tab \notin DOMAIN session.tabs /\ next.window \notin DOMAIN session.windows
           /\ next.tab \in Nat /\ next.window \in Nat
<1>1. /\ next.tab \in 1..(MaxTabs + 1) /\ DOMAIN session.tabs \subseteq 1..(next.tab - 1)
      /\ next.window \in 1..(MaxWindows + 1)
      /\ DOMAIN session.windows \subseteq 1..(next.window - 1)
      /\ MaxTabs \in Nat /\ MaxWindows \in Nat
  BY WindowsAssumption DEF RP!Inv, RP!Ids, RP!Used
<1> QED
  BY <1>1

(* new_tab and create_window.                                              *)
LEMMA NewTabSteps ==
    ASSUME Core, RP!Inv, NewTabInWindow \/ \E ok \in BOOLEAN : CreateWindow(ok)
    PROVE  Core' /\ RP!Next
<1>1. PICK n, t, w : next = [pane |-> n, tab |-> t, window |-> w]
  BY Shapes
<1>2. n = next.pane /\ t = next.tab /\ w = next.window
  BY <1>1
<1>3. /\ next.tab \notin DOMAIN session.tabs
      /\ session = [tabs |-> session.tabs, windows |-> session.windows]
  BY FreshIds, Shapes
<1>4. /\ IsMux(mux, Known) /\ mux.closed \in Seq(Known) /\ mux.registered \subseteq mux.panes
      /\ Agrees(session, mux, lost, stuck, leaked)
  BY DEF Core, Data, IsMux, Agrees
<1>5. CASE NewTabInWindow
  <2>1. /\ next.pane <= MaxPanes /\ next.tab <= MaxTabs
        /\ next' = [next EXCEPT !.pane = @ + 1, !.tab = @ + 1]
        /\ mux' = Spawned(next.pane)
        /\ session' = [tabs    |-> With(session.tabs, next.tab, NewTab(next.pane)),
                       windows |-> [session.windows EXCEPT ![active] = AddTab(@, next.tab)]]
        /\ UNCHANGED <<active, moves, grabs, drag, exits, running>>
        /\ UNCHANGED <<lost, stuck, leaked, astray, hollow>>
    BY <1>5 DEF NewTabInWindow, held, past
  <2>2. PICK W : W = [session.windows EXCEPT ![active] = AddTab(@, next.tab)]
    OBVIOUS
  <2>3. session' = [tabs |-> With(session.tabs, next.tab, NewTab(next.pane)), windows |-> W]
    BY <2>1, <2>2
  <2>4. /\ session'.windows = W
        /\ session' = [tabs    |-> With(session.tabs, next.tab, NewTab(next.pane)),
                       windows |-> session'.windows]
    BY <2>3
  <2>5. next' = [pane |-> n + 1, tab |-> t + 1, window |-> w]
    BY <1>1, <2>1
  <2>6. /\ next' = [pane |-> next.pane + 1, tab |-> next'.tab, window |-> next'.window]
        /\ next'.tab = next.tab + 1 /\ next'.window = next.window
    BY <1>2, <2>5
  <2>7. mux' = [registered |-> mux.registered \cup {next.pane},
                panes |-> mux.panes \cup {next.pane}, closed |-> mux.closed]
    BY <2>1, SpawnedIs
  <2>8. /\ mux'.closed = mux.closed
        /\ mux' = [registered |-> mux.registered \cup {next.pane},
                   panes |-> mux.panes \cup {next.pane}, closed |-> mux'.closed]
    BY <2>7
  <2>9. Discards
    BY <1>4, <2>1, <2>8 DEF Discards
  <2>10. Core' /\ DOMAIN session'.tabs = DOMAIN session.tabs \cup {next.tab}
    BY <1>3, <2>1, <2>4, <2>6, <2>8, <2>9, NewTabKeepsCore
  <2>11. RP!NewTabInWindow
    BY <2>1, <2>2, <2>4, <2>6, <2>10, SameHere DEF RP!NewTabInWindow
  <2> QED
    BY <2>10, <2>11 DEF RP!Next
<1>6. CASE CreateWindow(TRUE)
  <2>1. /\ next.window <= MaxWindows /\ next.pane <= MaxPanes /\ next.tab <= MaxTabs
        /\ next' = [pane |-> next.pane + 1, tab |-> next.tab + 1, window |-> next.window + 1]
        /\ mux' = [Spawned(next.pane) EXCEPT !.closed = << >>]
        /\ leaked' = leaked \cup (Range(mux.closed) \cap mux.panes)
        /\ session' = [tabs    |-> With(session.tabs, next.tab, NewTab(next.pane)),
                       windows |-> With(session.windows, next.window,
                                        AddTab(NewWindow, next.tab))]
        /\ active' = next.window
        /\ UNCHANGED <<moves, grabs, drag, exits, running>>
        /\ UNCHANGED <<lost, stuck, astray, hollow>>
    BY <1>6 DEF CreateWindow, held
  <2>2. PICK W : W = With(session.windows, next.window, AddTab(NewWindow, next.tab))
    OBVIOUS
  <2>3. session' = [tabs |-> With(session.tabs, next.tab, NewTab(next.pane)), windows |-> W]
    BY <2>1, <2>2
  <2>4. /\ session'.windows = W
        /\ session' = [tabs    |-> With(session.tabs, next.tab, NewTab(next.pane)),
                       windows |-> session'.windows]
    BY <2>3
  <2>5. /\ next' = [pane |-> next.pane + 1, tab |-> next'.tab, window |-> next'.window]
        /\ next'.tab = next.tab + 1 /\ next'.window = next.window + 1
    BY <2>1
  <2>6. PICK e : e = << >>
    OBVIOUS
  <2>7. mux' = [registered |-> mux.registered \cup {next.pane},
                panes |-> mux.panes \cup {next.pane}, closed |-> e]
    BY <2>1, <2>6, SpawnedIs
  <2>8. /\ mux'.closed = e
        /\ mux' = [registered |-> mux.registered \cup {next.pane},
                   panes |-> mux.panes \cup {next.pane}, closed |-> mux'.closed]
    BY <2>7
  <2>9. e \in Seq(Known) /\ e \in Seq({})
    BY <2>6
  <2>10. Range(e) \subseteq {}
    BY <2>9, RangeAt
  <2>11. Discards
    BY <2>1, <2>8, <2>9, <2>10 DEF Discards
  <2>12. Core' /\ DOMAIN session'.tabs = DOMAIN session.tabs \cup {next.tab}
    BY <1>3, <2>1, <2>4, <2>5, <2>8, <2>11, NewTabKeepsCore
  <2>13. RP!CreateWindow
    BY <2>1, <2>2, <2>4, <2>5, <2>12, SameHere DEF RP!CreateWindow
  <2> QED
    BY <2>12, <2>13 DEF RP!Next
<1>7. CASE CreateWindow(FALSE)
  <2>1. /\ next.window <= MaxWindows
        /\ next' = [next EXCEPT !.window = @ + 1]
        /\ mux' = [mux EXCEPT !.closed = << >>]
        /\ leaked' = leaked \cup (Range(mux.closed) \cap mux.panes)
        /\ session' = session /\ active' = active
        /\ UNCHANGED <<moves, grabs, drag, exits, running>>
        /\ UNCHANGED <<lost, stuck, astray, hollow>>
    BY <1>7 DEF CreateWindow, held
  <2>2. next' = [pane |-> n, tab |-> t, window |-> w + 1]
    BY <1>1, <2>1
  <2>3. /\ next' = [pane |-> next'.pane, tab |-> next'.tab, window |-> next'.window]
        /\ next'.pane = next.pane /\ next'.tab = next.tab /\ next'.window = next.window + 1
    BY <1>2, <2>2
  <2>4. PICK e : e = << >>
    OBVIOUS
  <2>5. mux' = [registered |-> mux.registered, panes |-> mux.panes, closed |-> e]
    BY <2>1, <2>4, SpawnedIs
  <2>6. /\ mux'.closed = e /\ mux'.registered = mux.registered /\ mux'.panes = mux.panes
        /\ mux' = [registered |-> mux'.registered, panes |-> mux'.panes, closed |-> mux'.closed]
    BY <2>5
  <2>7. e \in Seq(Known) /\ e \in Seq({})
    BY <2>4
  <2>8. Range(e) \subseteq {}
    BY <2>7, RangeAt
  <2>9. IsMux(mux', Known)
    BY <1>4, <2>6, <2>7 DEF IsMux
  <2>10. Agrees(session, mux', lost, stuck, leaked')
    BY <1>4, <2>1, <2>6, <2>8 DEF Agrees
  <2>11. Core'
    BY <2>1, <2>3, <2>9, <2>10 DEF Core, Data, Known
  <2>12. RP!CreateWindow
    BY <2>1, <2>3 DEF RP!CreateWindow
  <2> QED
    BY <2>11, <2>12 DEF RP!Next
<1> QED
  BY <1>5, <1>6, <1>7

-----------------------------------------------------------------------------
(* Tabs that go *)

(* Tabs leave the registry and the mux closes their panes; a window also   *)
(* handles the notifications itself.                                       *)
LEMMA DropKeepsCore ==
    ASSUME Core, NEW ts, NEW ps, ps = UNION {AllPanes(session.tabs[t]) : t \in ts},
           ts \subseteq DOMAIN session.tabs,
           session' = [tabs    |-> [t \in DOMAIN session.tabs \ ts |-> session.tabs[t]],
                       windows |-> session'.windows],
           NEW m, m = CloseEach(mux, SetToSeq(ps)),
           mux' = m \/ mux' = Cleanup([m EXCEPT !.panes = @ \ ps]),
           UNCHANGED <<exits, next, running, lost, stuck, leaked>>
    PROVE  Core' /\ DOMAIN session'.tabs = DOMAIN session.tabs \ ts
<1>1. /\ IsSession(session, Known) /\ IsMux(mux, Known) /\ Apart(session)
      /\ Agrees(session, mux, lost, stuck, leaked)
  BY DEF Core, Data
<1>2. PICK T, U : T = session.tabs /\ U = [t \in DOMAIN T \ ts |-> T[t]]
  OBVIOUS
<1>3. session' = [tabs |-> U, windows |-> session'.windows]
  BY <1>2
<1>4. /\ session'.tabs = U /\ session' = [tabs |-> session'.tabs, windows |-> session'.windows]
      /\ DOMAIN U = DOMAIN T \ ts /\ U = [t \in DOMAIN U |-> U[t]]
      /\ \A t \in DOMAIN U : t \in DOMAIN T /\ U[t] = T[t]
  BY <1>2, <1>3
<1>5. IsSession(session', Known) /\ Apart(session')
  BY <1>1, <1>2, <1>4 DEF IsSession, Apart
<1>6. \A t \in DOMAIN T : /\ AllPanes(T[t]) \subseteq Remembered(T[t])
                          /\ Remembered(T[t]) \subseteq Known
  BY <1>1, <1>2, ShownKnown
<1>7. \A x : x \in ps <=> \E t \in ts : x \in AllPanes(T[t])
  BY <1>2
<1>8. \A x : x \in PanesShown(session') <=> x \in PanesShown(session) /\ x \notin ps
  <2>1. ASSUME NEW x, x \in PanesShown(session')
        PROVE  x \in PanesShown(session) /\ x \notin ps
    <3>1. PICK t \in DOMAIN U : x \in AllPanes(U[t])
      BY <1>4, <2>1, ShownIs
    <3>2. t \in DOMAIN T /\ t \notin ts /\ x \in AllPanes(T[t])
      BY <1>4, <3>1
    <3>3. ASSUME NEW y \in ts, x \in AllPanes(T[y])
          PROVE  FALSE
      <4>1. y \in DOMAIN T /\ y # t
        BY <1>2, <3>2
      <4>2. Remembered(T[t]) \cap Remembered(T[y]) = {}
        BY <1>1, <1>2, <3>2, <4>1 DEF Apart
      <4> QED
        BY <1>6, <3>2, <3>3, <4>1, <4>2
    <3> QED
      BY <1>2, <1>7, <3>2, <3>3, ShownIs
  <2>2. ASSUME NEW x, x \in PanesShown(session), x \notin ps
        PROVE  x \in PanesShown(session')
    <3>1. PICK t \in DOMAIN T : x \in AllPanes(T[t])
      BY <1>2, <2>2, ShownIs
    <3>2. t \in DOMAIN U /\ x \in AllPanes(U[t])
      BY <1>4, <1>7, <2>2, <3>1
    <3> QED
      BY <1>4, <3>2, ShownIs
  <2> QED
    BY <2>1, <2>2
<1>9. PICK q : q = SetToSeq(ps)
  OBVIOUS
<1>10. q \in Seq(ps) /\ Range(q) = ps
  <2>1. ps \subseteq Known
    BY <1>2, <1>6, <1>7
  <2>2. IsFiniteSet(Known)
    <3>1. next.pane - 1 \in Int
      BY DEF Core, Data
    <3> QED
      BY <3>1, FS_Interval DEF Known
  <2>3. IsFiniteSet(ps)
    BY <2>1, <2>2, FS_Subset
  <2> QED
    BY <1>9, <2>3, SetToSeqRange
<1>11. Closed(m, mux, Known, ps)
  <2>1. m = CloseEach(mux, q)
    BY <1>9
  <2>2. Closed(CloseEach(mux, q), mux, Known, Range(q))
    BY <1>1, <1>10, CloseEachIsClosed
  <2> QED
    BY <1>10, <2>1, <2>2
<1>12. /\ IsMux(m, Known) /\ m.registered = mux.registered \ ps /\ m.panes = mux.panes
       /\ Range(m.closed) = Range(mux.closed) \cup (mux.registered \cap ps)
  BY <1>11 DEF Closed
<1>13. CASE mux' = m
  <2>1. Agrees(session', m, lost, stuck, leaked)
    BY <1>1, <1>8, <1>12 DEF Agrees
  <2> QED
    BY <1>1, <1>2, <1>4, <1>5, <1>12, <1>13, <2>1 DEF Core, Data, Known
<1>14. CASE mux' = Cleanup([m EXCEPT !.panes = @ \ ps])
  <2>1. PICK a, b, c, e : a = m.registered /\ b = m.panes \ ps /\ c = m.closed /\ e = << >>
    OBVIOUS
  <2>2. m = [registered |-> m.registered, panes |-> m.panes, closed |-> m.closed]
    BY <1>12 DEF IsMux
  <2>3. PICK d : d = [m EXCEPT !.panes = b]
    OBVIOUS
  <2>4. d = [registered |-> a, panes |-> b, closed |-> c]
    BY <2>1, <2>2, <2>3
  <2>5. PICK g : g = b \ Range(c)
    OBVIOUS
  <2>6. mux' = [d EXCEPT !.panes = g, !.closed = e]
    BY <1>14, <2>1, <2>3, <2>4, <2>5 DEF Cleanup
  <2>7. mux' = [registered |-> a, panes |-> g, closed |-> e]
    BY <2>4, <2>6
  <2>8. /\ mux'.registered = a /\ mux'.panes = g /\ mux'.closed = e
        /\ mux' = [registered |-> mux'.registered, panes |-> mux'.panes, closed |-> mux'.closed]
    BY <2>7
  <2>9. e \in Seq(Known) /\ e \in Seq({})
    BY <2>1
  <2>10. Range(e) \subseteq {}
    BY <2>9, RangeAt
  <2>11. a \subseteq Known /\ g \subseteq Known
    BY <1>12, <2>1, <2>5 DEF IsMux
  <2>12. IsMux(mux', Known)
    BY <2>8, <2>9, <2>11 DEF IsMux
  <2>13. Agrees(session', mux', lost, stuck, leaked)
    BY <1>1, <1>8, <1>12, <2>1, <2>5, <2>8, <2>10 DEF Agrees
  <2> QED
    BY <1>1, <1>2, <1>4, <1>5, <2>12, <2>13 DEF Core, Data, Known
<1> QED
  BY <1>13, <1>14

(* Not one tab only.                                                       *)
LEMMA MoreThanOne ==
    ASSUME NEW S, NEW x, ~(Cardinality(S) <= 1) \/ Cardinality(S) > 1
    PROVE  S # {x}
<1>1. Cardinality({x}) = 1
  BY FS_Singleton
<1> QED
  BY <1>1

(* Sets are counted the same under both names.                             *)
LEMMA SameCount ==
    \A S : RP!Cardinality(S) = Cardinality(S)
  BY DEF Cardinality, RP!Cardinality, IsFiniteSet, RP!IsFiniteSet

(* A tab of the focused window leaves it, and no other window is empty     *)
(* then.                                                                   *)
LEMMA TabLeaves ==
    ASSUME RP!Inv, NEW t, t \in Range(session.windows[active].tabs)
    PROVE  LET X == WithoutEmpty(WithoutTab(session.windows, t), active)
           IN  WithoutSessionTab(session, t) = [tabs |-> Without(session.tabs, t), windows |-> X]
<1>1. PICK W, a : W = session.windows /\ a = active
  OBVIOUS
<1>2. /\ a \in DOMAIN W /\ W[a] \in RP!Window /\ RP!Good(W[a])
      /\ \A v \in DOMAIN W : v # a => \A x \in RP!Listed(W[a]) : x \notin RP!Listed(W[v])
  BY <1>1 DEF RP!Inv, RP!Layout, RP!Partition
<1>3. \A w : RP!Listed(w) = Range(w.tabs)
  BY SameHere DEF RP!Listed
<1>4. t \in RP!Listed(W[a]) /\ t \in Range(W[a].tabs)
  BY <1>1, <1>3
<1>5. WindowsOf(W, t) = {a}
  BY <1>2, <1>3, <1>4 DEF WindowsOf
<1>6. RP!WindowRemoveTab(W[a], t) = WindowRemoveTab(W[a], t)
  BY DEF WindowRemoveTab, RP!WindowRemoveTab, PositionOf, RP!PositionOf, RemoveAt, RP!RemoveAt
<1>7. WindowRemoveTab(W[a], t).tabs = << >> <=> Len(W[a].tabs) = 1
  BY <1>2, <1>4, <1>6, SameAssumption, RP!RemovedTab
<1>8. PICK O : O = WithoutTab(W, t)
  OBVIOUS
<1>9. /\ DOMAIN O = DOMAIN W /\ O = [w \in DOMAIN W |-> O[w]]
      /\ O[a] = WindowRemoveTab(W[a], t)
  BY <1>2, <1>5, <1>8 DEF WithoutTab
<1>10. PICK X : X = WithoutEmpty(O, a)
  OBVIOUS
<1>11. X = [w \in DOMAIN O \ LeftEmpty(W, t) |-> O[w]]
  <2>1. CASE Len(W[a].tabs) = 1
    <3>1. LeftEmpty(W, t) = {a}
      BY <1>5, <2>1 DEF LeftEmpty
    <3> QED
      BY <1>7, <1>9, <1>10, <2>1, <3>1 DEF WithoutEmpty, Without
  <2>2. CASE Len(W[a].tabs) # 1
    <3>1. LeftEmpty(W, t) = {}
      BY <1>5, <2>2 DEF LeftEmpty
    <3> QED
      BY <1>7, <1>9, <1>10, <2>2, <3>1 DEF WithoutEmpty
  <2> QED
    BY <2>1, <2>2
<1> QED
  BY <1>1, <1>8, <1>10, <1>11 DEF WithoutSessionTab

(* close_tab and close_window; the last one is not closed.                 *)
LEMMA CloseSteps ==
    ASSUME Core, RP!Inv,
           (\E t \in 1..MaxTabs : CloseTab(t)) \/ (\E w \in 1..MaxWindows : CloseWindow(w))
    PROVE  Core' /\ (RP!Next \/ UNCHANGED RP!vars)
<1>1. session = [tabs |-> session.tabs, windows |-> session.windows]
  BY Shapes
<1>2. RP!TabIds = 1..MaxTabs /\ RP!WindowIds = 1..MaxWindows
  BY DEF RP!TabIds, RP!WindowIds
<1>3. ASSUME ExitApp
      PROVE  Core' /\ UNCHANGED RP!vars
  <2>1. /\ UNCHANGED <<session, active, moves, grabs, drag, mux, exits, next>>
        /\ UNCHANGED <<lost, stuck, leaked, astray, hollow>>
        /\ running' = FALSE
    BY <1>3 DEF ExitApp, held, past
  <2>2. NumbersKept
    BY <2>1, Shapes DEF NumbersKept
  <2>3. Core'
    BY <1>1, <2>1, <2>2, NoPaneKeepsCore
  <2> QED
    BY <2>1, <2>3 DEF RP!vars
<1>4. ASSUME NEW t \in 1..MaxTabs, CloseTab(t), ~ExitApp
      PROVE  Core' /\ RP!Next
  <2>1. PICK u : u = WithoutSessionTab(session, t)
    OBVIOUS
  <2>2. PICK ts, ps : ts = {t} \cap DOMAIN session.tabs /\ ps = PanesOf(t)
    OBVIOUS
  <2>3. PICK m : m = CloseEach(mux, SetToSeq(ps))
    OBVIOUS
  <2>4. /\ t \in Range(session.windows[active].tabs) /\ ~LastOfAll(t)
        /\ mux' = m /\ session' = u /\ TransferFocus(u) /\ KeepGrabs(grabs, u)
        /\ UNCHANGED <<moves, drag, exits, next, running>>
        /\ UNCHANGED <<lost, stuck, leaked, astray, hollow>>
    BY <1>4, <2>1, <2>2, <2>3 DEF CloseTab, past
  <2>5. PICK X : X = WithoutEmpty(WithoutTab(session.windows, t), active)
    OBVIOUS
  <2>6. u = [tabs |-> Without(session.tabs, t), windows |-> X]
    BY <2>1, <2>4, <2>5, TabLeaves
  <2>7. Without(session.tabs, t) = [y \in DOMAIN session.tabs \ ts |-> session.tabs[y]]
    BY <2>2 DEF Without
  <2>8. /\ session'.windows = X
        /\ session' = [tabs    |-> [y \in DOMAIN session.tabs \ ts |-> session.tabs[y]],
                       windows |-> session'.windows]
    BY <2>4, <2>6, <2>7
  <2>9. ps = UNION {AllPanes(session.tabs[y]) : y \in ts} /\ ts \subseteq DOMAIN session.tabs
    BY <2>2 DEF PanesOf
  <2>10. Core' /\ DOMAIN session'.tabs = DOMAIN session.tabs \ ts
    BY <2>3, <2>4, <2>8, <2>9, DropKeepsCore
  <2>11. DOMAIN session'.tabs = DOMAIN session.tabs \ {t}
    BY <2>2, <2>10
  <2>12. RP!TransferFocus
    BY <2>4 DEF TransferFocus, RP!TransferFocus
  <2>13. RP!KeepGrabs(grabs)
    BY <2>4, SameHere DEF KeepGrabs, RP!KeepGrabs
  <2>14. Cardinality(DOMAIN session.tabs) > 1
    <3>1. next.tab - 1 \in Int /\ DOMAIN session.tabs \subseteq 1..(next.tab - 1)
      BY DEF RP!Inv, RP!Ids, RP!Used
    <3>2. IsFiniteSet(1..(next.tab - 1))
      BY <3>1, FS_Interval
    <3>3. IsFiniteSet(DOMAIN session.tabs)
      BY <3>1, <3>2, FS_Subset
    <3>4. Cardinality(DOMAIN session.tabs) \in Nat
      BY <3>3, FS_CardinalityType
    <3> QED
      BY <2>4, <3>4 DEF LastOfAll
  <2>15. active \in LeftEmpty(session.windows, t) => DOMAIN session.windows # {active}
    BY <2>4 DEF LastOfAll
  <2>16. session'.windows = RP!WithoutEmpty(RP!WithoutTab(session.windows, t), active)
    BY <2>5, <2>8, SameHere
  <2>17. RP!CloseTab(t)
    BY <2>4, <2>11, <2>12, <2>13, <2>14, <2>15, <2>16, SameHere, SameCount DEF RP!CloseTab
  <2> QED
    BY <1>2, <2>10, <2>17 DEF RP!Next
<1>5. ASSUME NEW w \in 1..MaxWindows, CloseWindow(w), ~ExitApp
      PROVE  Core' /\ RP!Next
  <2>1. PICK ts : ts = Range(session.windows[w].tabs) \cap DOMAIN session.tabs
    OBVIOUS
  <2>2. PICK ps : ps = UNION {AllPanes(session.tabs[t]) : t \in ts}
    OBVIOUS
  <2>3. PICK m : m = CloseEach(mux, SetToSeq(ps))
    OBVIOUS
  <2>4. PICK s : s = [tabs    |-> [t \in DOMAIN session.tabs \ ts |-> session.tabs[t]],
                      windows |-> Without(session.windows, w)]
    OBVIOUS
  <2>5. /\ w \in DOMAIN session.windows
        /\ ~(Cardinality(DOMAIN session.windows) <= 1)
        /\ session' = s /\ mux' = Cleanup([m EXCEPT !.panes = @ \ ps]) /\ TransferFocus(s)
        /\ KeepGrabs(grabs, s)
        /\ UNCHANGED <<moves, drag, exits, next, running>>
        /\ UNCHANGED <<lost, stuck, leaked, astray, hollow>>
    BY <1>5, <2>1, <2>2, <2>3, <2>4 DEF CloseWindow, past
  <2>6. /\ session'.windows = Without(session.windows, w)
        /\ session' = [tabs    |-> [t \in DOMAIN session.tabs \ ts |-> session.tabs[t]],
                       windows |-> session'.windows]
    BY <2>4, <2>5
  <2>7. ts \subseteq DOMAIN session.tabs
    BY <2>1
  <2>8. Core' /\ DOMAIN session'.tabs = DOMAIN session.tabs \ ts
    BY <2>2, <2>3, <2>5, <2>6, <2>7, DropKeepsCore
  <2>9. RP!TransferFocus
    BY <2>5 DEF TransferFocus, RP!TransferFocus
  <2>10. DOMAIN session.windows # {w}
    BY <2>5, MoreThanOne
  <2>11. DOMAIN session'.tabs = DOMAIN session.tabs \ Range(session.windows[w].tabs)
    BY <2>1, <2>8
  <2>12. RP!KeepGrabs(grabs)
    BY <2>5, SameHere DEF KeepGrabs, RP!KeepGrabs
  <2>13. RP!CloseWindow(w)
    BY <2>5, <2>6, <2>9, <2>10, <2>11, <2>12, SameHere DEF RP!CloseWindow
  <2> QED
    BY <1>2, <2>8, <2>13 DEF RP!Next
<1> QED
  BY <1>3, <1>4, <1>5

-----------------------------------------------------------------------------
(* Tabs that move *)

(* The windows change, the mux is pumped, and the windows change again: of *)
(* the tabs only the pump lets go of anything.                             *)
LEMMA MoveKeepsCore ==
    ASSUME Core, NEW X, NEW Y, NEW v, v = [tabs |-> session.tabs, windows |-> X],
           NEW s, s = Pumped(v), PumpsTo(s), session' = [s EXCEPT !.windows = Y],
           NumbersKept, running' = running, lost' = lost, leaked' = leaked
    PROVE  /\ Core' /\ s.windows = X /\ session'.windows = Y
           /\ DOMAIN session'.tabs = DOMAIN session.tabs
<1>1. v.tabs = session.tabs /\ v = [tabs |-> v.tabs, windows |-> v.windows] /\ v.windows = X
  OBVIOUS
<1>2. s = [tabs |-> s.tabs, windows |-> s.windows]
  <2>1. IsSession(session, Known) /\ IsMux(mux, Known) /\ exits \in Seq(Known)
    BY DEF Core, Data
  <2>2. IsSession(v, Known)
    BY <1>1, <2>1, WindowsOnly
  <2>3. PICK c : c = CloseEach(mux, exits)
    OBVIOUS
  <2>4. c.closed \in Seq(Known)
    BY <2>1, <2>3, CloseEachIsClosed DEF Closed, IsMux
  <2>5. s = RemoveEach(v, c.closed)
    BY <2>3 DEF Pumped, Poll
  <2>6. Shrunk(s, v, Known, Range(c.closed))
    BY <2>2, <2>4, <2>5, RemoveEachShrinks
  <2> QED
    BY <2>6 DEF Shrunk, IsSession
<1>3. PICK T, W : s = [tabs |-> T, windows |-> W]
  BY <1>2
<1>4. session' = [tabs |-> T, windows |-> Y]
  BY <1>3
<1>5. /\ session'.windows = Y /\ session'.tabs = s.tabs
      /\ session' = [tabs |-> session'.tabs, windows |-> session'.windows]
  BY <1>3, <1>4
<1>6. PumpsTo(Pumped(v)) /\ session'.tabs = Pumped(v).tabs
  BY <1>5
<1>7. /\ Core' /\ Pumped(v).windows = v.windows /\ DOMAIN session'.tabs = DOMAIN session.tabs
  BY <1>1, <1>5, <1>6, PumpKeepsCore
<1> QED
  BY <1>1, <1>5, <1>7

(* A move that comes to nothing.                                           *)
LEMMA NoMoveIs ==
    ASSUME Core, Refused \/ NotMade, running' = running
    PROVE  Core' /\ (RP!Refused \/ RP!NotMade)
<1>1. session = [tabs |-> session.tabs, windows |-> session.windows] /\ running \in BOOLEAN
  BY Shapes
<1>2. PICK p, k, n : next = [pane |-> p, tab |-> k, window |-> n]
  BY Shapes
<1>3. /\ UNCHANGED <<session, active, mux, exits>>
      /\ UNCHANGED <<lost, stuck, leaked, astray, hollow>>
  BY DEF Refused, NotMade, past
<1>4. CASE Refused
  <2>1. next' = next /\ Cardinality(DOMAIN session.tabs) <= 1
    BY <1>4 DEF Refused
  <2>2. Core'
    BY <1>1, <1>2, <1>3, <2>1, NoPaneKeepsCore DEF NumbersKept
  <2>3. RP!Refused
    BY <1>3, <2>1, SameCount DEF RP!Refused
  <2> QED
    BY <2>2, <2>3
<1>5. CASE NotMade
  <2>1. /\ Cardinality(DOMAIN session.tabs) > 1 /\ next.window <= MaxWindows
        /\ next' = [next EXCEPT !.window = @ + 1]
    BY <1>5 DEF NotMade
  <2>2. next' = [pane |-> p, tab |-> k, window |-> n + 1]
    BY <1>2, <2>1
  <2>3. NumbersKept /\ next'.tab = next.tab /\ next'.window = next.window + 1
    BY <1>2, <2>2 DEF NumbersKept
  <2>4. Core'
    BY <1>1, <1>3, <2>3, NoPaneKeepsCore
  <2>5. RP!NotMade
    BY <1>3, <2>1, <2>3, SameCount DEF RP!NotMade
  <2> QED
    BY <2>4, <2>5
<1> QED
  BY <1>4, <1>5

(* A tab, registered or not, moves to a window made for it.                *)
LEMMA MoveOutIs ==
    ASSUME Core, NEW t, MoveOut(t), running' = running
    PROVE  Core' /\ RP!MoveOut(t)
<1>1. PICK T, W : session = [tabs |-> T, windows |-> W]
  BY Shapes
<1>2. PICK p, k, n : next = [pane |-> p, tab |-> k, window |-> n]
  BY Shapes
<1>3. PICK X : X = MovedTo(W, next.window, t)
  OBVIOUS
<1>4. PICK v : v = [session EXCEPT !.windows = MovedTo(@, next.window, t)]
  OBVIOUS
<1>5. PICK s : s = Pumped(v)
  OBVIOUS
<1>6. PICK Y : Y = WithoutEmpty(s.windows, active)
  OBVIOUS
<1>7. /\ Cardinality(DOMAIN session.tabs) > 1 /\ next.window <= MaxWindows
      /\ next' = [next EXCEPT !.window = @ + 1]
      /\ session' = [s EXCEPT !.windows = Y] /\ PumpsTo(s)
      /\ TransferFocus([s EXCEPT !.windows = Y])
      /\ astray' = astray \cup ({t} \ DOMAIN session.tabs)
      /\ hollow' = hollow \cup (LeftEmpty(session.windows, t) \ {active})
      /\ UNCHANGED <<lost, leaked>>
  BY <1>4, <1>5, <1>6 DEF MoveOut
<1>8. v = [tabs |-> session.tabs, windows |-> X]
  <2>1. v = [tabs |-> T, windows |-> X]
    BY <1>1, <1>3, <1>4
  <2> QED
    BY <1>1, <2>1
<1>9. next' = [pane |-> p, tab |-> k, window |-> n + 1]
  BY <1>2, <1>7
<1>10. /\ NumbersKept /\ next'.tab = next.tab /\ next'.window = next.window + 1
  BY <1>2, <1>9 DEF NumbersKept
<1>11. /\ Core' /\ s.windows = X /\ session'.windows = Y
       /\ DOMAIN session'.tabs = DOMAIN session.tabs
  BY <1>5, <1>7, <1>8, <1>10, MoveKeepsCore
<1>12. session'.windows = WithoutEmpty(MovedTo(session.windows, next.window, t), active)
  BY <1>1, <1>3, <1>6, <1>11
<1>13. RP!TransferFocus
  BY <1>7 DEF TransferFocus, RP!TransferFocus
<1>14. RP!MoveOut(t)
  BY <1>7, <1>10, <1>11, <1>12, <1>13, SameHere, SameCount DEF RP!MoveOut
<1> QED
  BY <1>11, <1>14

(* move_tab_to_new_window, tear_off_tab and execute_tab_merge.             *)
MoveStep ==
    \/ MoveTabToNewWindow \/ TearOffTab
    \/ \E w \in 1..MaxWindows, i \in Positions : ExecuteTabMerge(w, i)

(* They are steps of TabWindows; the pump in them shows nowhere.           *)
LEMMA MoveSteps ==
    ASSUME Core, MoveStep
    PROVE  Core' /\ RP!Next
<1>1. RP!TabIds = 1..MaxTabs /\ RP!WindowIds = 1..MaxWindows /\ Positions = 1..MaxTabs
  BY DEF RP!TabIds, RP!WindowIds, Positions
<1>2. \A g : KeepGrabs(g, session') => RP!KeepGrabs(g)
  BY SameHere DEF KeepGrabs, RP!KeepGrabs
<1>3. CASE MoveTabToNewWindow
  <2>1. /\ moves # << >> /\ moves' = Tail(moves)
        /\ Refused \/ NotMade \/ MoveOut(Head(moves))
        /\ KeepGrabs(grabs, session') /\ drag' = drag /\ running' = running
    BY <1>3 DEF MoveTabToNewWindow
  <2>2. Core' /\ (RP!Refused \/ RP!NotMade \/ RP!MoveOut(Head(moves)))
    BY <2>1, NoMoveIs, MoveOutIs
  <2>3. RP!MoveTabToNewWindow
    BY <1>2, <2>1, <2>2 DEF RP!MoveTabToNewWindow
  <2> QED
    BY <2>2, <2>3 DEF RP!Next
<1>4. CASE TearOffTab
  <2>1. /\ active \in DOMAIN grabs
        /\ KeepGrabs(Without(grabs, active), session')
        /\ moves' = moves /\ running' = running
    BY <1>4 DEF TearOffTab
  <2>2. RP!KeepGrabs(RP!Without(grabs, active))
    BY <1>2, <2>1, SameHere
  <2>3. CASE (Refused \/ NotMade) /\ drag' = drag
    <3>1. Core' /\ (RP!Refused \/ RP!NotMade)
      BY <2>1, <2>3, NoMoveIs
    <3>2. RP!TearOffTab
      BY <2>1, <2>2, <2>3, <3>1 DEF RP!TearOffTab
    <3> QED
      BY <3>1, <3>2 DEF RP!Next
  <2>4. CASE /\ MoveOut(grabs[active])
             /\ drag' \in {drag, [window |-> next.window, tab |-> grabs[active]]}
    <3>1. Core' /\ RP!MoveOut(grabs[active])
      BY <2>1, <2>4, MoveOutIs
    <3>2. RP!TearOffTab
      BY <2>1, <2>2, <2>4, <3>1 DEF RP!TearOffTab
    <3> QED
      BY <3>1, <3>2 DEF RP!Next
  <2> QED
    BY <1>4, <2>3, <2>4 DEF TearOffTab
<1>5. ASSUME NEW w \in 1..MaxWindows, NEW i \in Positions, ExecuteTabMerge(w, i)
      PROVE  Core' /\ RP!Next
  <2>1. PICK T, W : session = [tabs |-> T, windows |-> W]
    BY Shapes
  <2>2. PICK O : O = WithoutTab(session.windows, drag.tab)
    OBVIOUS
  <2>3. PICK X : X = [O EXCEPT ![w] = Merged(@, i, drag.tab)]
    OBVIOUS
  <2>4. PICK v : v = [session EXCEPT !.windows = X]
    OBVIOUS
  <2>5. PICK s : s = Pumped(v)
    OBVIOUS
  <2>6. PICK Y : Y = Without(s.windows, drag.window)
    OBVIOUS
  <2>7. /\ drag # NoDrag /\ drag.window \in DOMAIN session.windows
        /\ w \in DOMAIN session.windows \ {drag.window}
        /\ i \in 1..(Len(session.windows[w].tabs) + 1)
        /\ session' = [s EXCEPT !.windows = Y] /\ PumpsTo(s)
        /\ KeepGrabs(grabs, session') \/ KeepGrabs(With(grabs, w, drag.tab), session')
        /\ astray' = astray \cup ({drag.tab} \ DOMAIN session.tabs)
                            \cup (DOMAIN session.tabs \cap Range(O[drag.window].tabs))
        /\ hollow' = hollow \cup (LeftEmpty(session.windows, drag.tab) \ {drag.window, w})
        /\ active' = w /\ drag' = NoDrag
        /\ UNCHANGED <<moves, next, running, lost, leaked>>
    BY <1>5, <2>2, <2>3, <2>4, <2>5, <2>6 DEF ExecuteTabMerge
  <2>8. v = [tabs |-> session.tabs, windows |-> X]
    BY <2>1, <2>4
  <2>9. NumbersKept
    BY <2>7, Shapes DEF NumbersKept
  <2>10. /\ Core' /\ s.windows = X /\ session'.windows = Y
         /\ DOMAIN session'.tabs = DOMAIN session.tabs
    BY <2>5, <2>7, <2>8, <2>9, MoveKeepsCore
  <2>11. /\ O = RP!WithoutTab(session.windows, drag.tab)
         /\ X = [O EXCEPT ![w] = RP!Merged(@, i, drag.tab)]
         /\ session'.windows = RP!Without(X, drag.window)
    BY <2>2, <2>3, <2>6, <2>10, SameHere
  <2>12. RP!KeepGrabs(grabs) \/ RP!KeepGrabs(RP!With(grabs, w, drag.tab))
    BY <1>2, <2>7, SameHere
  <2>13. RP!ExecuteTabMerge(w, i)
    BY <2>7, <2>10, <2>11, <2>12, SameHere DEF RP!ExecuteTabMerge
  <2> QED
    BY <1>1, <2>10, <2>13 DEF RP!Next
<1> QED
  BY <1>3, <1>4, <1>5 DEF MoveStep

(* Every step keeps Core, and is a step of TabWindows or leaves its        *)
(* variables alone.                                                        *)
LEMMA CoreNext ==
    ASSUME Core, RP!Inv, [Next]_vars
    PROVE  Core' /\ (RP!Next \/ UNCHANGED RP!vars)
<1>1. CASE UserStep
  <2>1. \/ PaneStep \/ WindowStep \/ MoveStep
        \/ NewTabInWindow \/ \E ok \in BOOLEAN : CreateWindow(ok)
        \/ (\E t \in 1..MaxTabs : CloseTab(t)) \/ (\E w \in 1..MaxWindows : CloseWindow(w))
    BY <1>1 DEF UserStep, PaneStep, EditsFocused, WindowStep, MoveStep
  <2> QED
    BY <2>1, PaneSteps, WindowSteps, MoveSteps, NewTabSteps, CloseSteps
<1>2. CASE MuxStep
  <2>1. PaneStep
    BY <1>2 DEF MuxStep, PaneStep
  <2> QED
    BY <2>1, PaneSteps
<1>3. CASE LoopStep
  <2>1. MoveStep
    BY <1>3 DEF LoopStep, MoveStep
  <2> QED
    BY <2>1, MoveSteps
<1>4. CASE UNCHANGED vars
  <2>1. /\ UNCHANGED <<session, active, moves, grabs, drag, mux, exits, next, running>>
        /\ UNCHANGED <<lost, stuck, leaked, astray, hollow>>
    BY <1>4 DEF vars
  <2> QED
    BY <2>1 DEF Core, Data, Known, RP!vars
<1> QED
  BY <1>1, <1>2, <1>3, <1>4 DEF Next

(* It holds of the first pane, in its tab and window.                      *)
LEMMA CoreInit ==
    ASSUME Init
    PROVE  Core /\ RP!Init
<1>1. /\ session = [tabs    |-> [t \in {1} |-> NewTab(1)],
                    windows |-> [w \in {1} |-> AddTab(NewWindow, 1)]]
      /\ active = 1 /\ moves = << >> /\ grabs = << >> /\ drag = NoDrag
      /\ astray = {} /\ hollow = {}
      /\ mux = [registered |-> {1}, panes |-> {1}, closed |-> << >>]
      /\ exits = << >> /\ next = [pane |-> 2, tab |-> 2, window |-> 2]
      /\ running = TRUE /\ lost = {} /\ stuck = {} /\ leaked = {}
  BY DEF Init
<1>2. PICK v, u, e : v = NewTab(1) /\ u = AddTab(NewWindow, 1) /\ e = << >>
  OBVIOUS
<1>3. session = [tabs |-> [x \in {1} |-> v], windows |-> [x \in {1} |-> u]]
  BY <1>1, <1>2
<1>4. IsTab(v, {1}) /\ AllPanes(v) = {1}
  BY <1>2, NewTabIs
<1>5. Known = {1}
  BY <1>1 DEF Known
<1>6. /\ DOMAIN session.tabs = {1} /\ session.tabs[1] = v
      /\ session.windows = [x \in {1} |-> u]
      /\ session.tabs = [x \in DOMAIN session.tabs |-> session.tabs[x]]
      /\ session = [tabs |-> session.tabs, windows |-> session.windows]
  BY <1>3
<1>7. IsSession(session, Known) /\ Apart(session)
  BY <1>4, <1>5, <1>6 DEF IsSession, Apart
<1>8. e \in Seq(Known) /\ e \in Seq({})
  BY <1>2
<1>9. Range(e) \subseteq {}
  BY <1>8, RangeAt
<1>10. /\ mux.registered = {1} /\ mux.panes = {1} /\ mux.closed = e
       /\ mux = [registered |-> mux.registered, panes |-> mux.panes, closed |-> mux.closed]
  BY <1>1, <1>2
<1>11. PanesShown(session) = {1}
  BY <1>4, <1>6 DEF PanesShown
<1>12. Agrees(session, mux, lost, stuck, leaked)
  BY <1>1, <1>9, <1>10, <1>11 DEF Agrees
<1>13. IsMux(mux, Known)
  BY <1>5, <1>8, <1>10 DEF IsMux
<1>14. Data
  <2>1. MaxPanes \in Nat \ {0}
    BY SessionAssumption
  <2>2. next.pane \in 1..(MaxPanes + 1)
    BY <1>1, <2>1
  <2> QED
    BY <1>1, <1>2, <1>7, <1>8, <1>13, <2>2 DEF Data
<1>15. RP!Init
  BY <1>1, <1>2, <1>6, SameHere DEF RP!Init
<1> QED
  BY <1>7, <1>12, <1>14, <1>15 DEF Core

-----------------------------------------------------------------------------
(* The specification that Session names is the one of TabWindowsProofs.    *)

(* What its actions are made of is the same.                               *)
LEMMA SameParts ==
    /\ Registry!NewWindow = RP!NewWindow
    /\ \A w, t : Registry!AddTab(w, t) = RP!AddTab(w, t)
    /\ \A w, i, t : Registry!InsertTabAt(w, i, t) = RP!InsertTabAt(w, i, t)
    /\ \A w, i, j : Registry!ReorderTab(w, i, j) = RP!ReorderTab(w, i, j)
    /\ \A w, i, t : Registry!Merged(w, i, t) = RP!Merged(w, i, t)
    /\ \A ws, t : Registry!WithoutTab(ws, t) = RP!WithoutTab(ws, t)
    /\ \A ws, w : Registry!WithoutEmpty(ws, w) = RP!WithoutEmpty(ws, w)
    /\ \A ws, w, u : Registry!With(ws, w, u) = RP!With(ws, w, u)
    /\ \A ws, w : Registry!Without(ws, w) = RP!Without(ws, w)
    /\ \A ws, w, t : Registry!MovedTo(ws, w, t) = RP!MovedTo(ws, w, t)
    /\ \A ws, t : Registry!LeftEmpty(ws, t) = RP!LeftEmpty(ws, t)
    /\ \A g, S : Registry!Within(g, S) = RP!Within(g, S)
    /\ \A S : Registry!Cardinality(S) = RP!Cardinality(S)
    /\ \A u : Registry!Range(u) = RP!Range(u)
<1> USE DEF Registry!NewWindow, RP!NewWindow, Registry!AddTab, RP!AddTab,
            Registry!InsertTabAt, RP!InsertTabAt, Registry!InsertAt, RP!InsertAt,
            Registry!RemoveAt, RP!RemoveAt, Registry!PositionOf, RP!PositionOf,
            Registry!WindowsOf, RP!WindowsOf, Registry!Range, RP!Range,
            Registry!Without, RP!Without, Registry!With, RP!With
<1>1. \A w, i, j : Registry!ReorderTab(w, i, j) = RP!ReorderTab(w, i, j)
  BY DEF Registry!ReorderTab, RP!ReorderTab
<1>2. \A w, i, t : Registry!Merged(w, i, t) = RP!Merged(w, i, t)
  BY DEF Registry!Merged, RP!Merged
<1>3. \A ws, t : Registry!WithoutTab(ws, t) = RP!WithoutTab(ws, t)
  BY DEF Registry!WithoutTab, RP!WithoutTab, Registry!WindowRemoveTab, RP!WindowRemoveTab
<1>4. \A ws, w : Registry!WithoutEmpty(ws, w) = RP!WithoutEmpty(ws, w)
  BY DEF Registry!WithoutEmpty, RP!WithoutEmpty
<1>5. \A ws, w, t : Registry!MovedTo(ws, w, t) = RP!MovedTo(ws, w, t)
  BY <1>3 DEF Registry!MovedTo, RP!MovedTo
<1>6. \A ws, t : Registry!LeftEmpty(ws, t) = RP!LeftEmpty(ws, t)
  BY DEF Registry!LeftEmpty, RP!LeftEmpty
<1>7. \A g, S : Registry!Within(g, S) = RP!Within(g, S)
  BY DEF Registry!Within, RP!Within
<1>8. \A S : Registry!Cardinality(S) = RP!Cardinality(S)
  BY DEF Registry!Cardinality, RP!Cardinality, Registry!IsFiniteSet, RP!IsFiniteSet
<1> QED
  BY <1>1, <1>2, <1>3, <1>4, <1>5, <1>6, <1>7, <1>8

(* Its initial states and its steps are the same.                          *)
LEMMA SameSpec ==
    /\ Registry!Init <=> RP!Init
    /\ Registry!Next <=> RP!Next
    /\ Registry!vars = RP!vars
<1>1. /\ TabIds = RP!TabIds /\ WindowIds = RP!WindowIds
      /\ TabIds = Registry!TabIds /\ WindowIds = Registry!WindowIds
  BY DEF RP!TabIds, RP!WindowIds, TabIds, WindowIds, Registry!TabIds, Registry!WindowIds
<1> USE SameParts DEF Registry!TransferFocus, RP!TransferFocus,
                       Registry!KeepGrabs, RP!KeepGrabs
<1>2. Registry!Init <=> RP!Init
  BY DEF Registry!Init, RP!Init
<1>3. Registry!NewTabInWindow <=> RP!NewTabInWindow
  BY DEF Registry!NewTabInWindow, RP!NewTabInWindow
<1>4. \A t : Registry!CloseTab(t) <=> RP!CloseTab(t)
  BY DEF Registry!CloseTab, RP!CloseTab
<1>5. \A t : Registry!MoveTabToNewWindowDeferred(t) <=> RP!MoveTabToNewWindowDeferred(t)
  BY DEF Registry!MoveTabToNewWindowDeferred, RP!MoveTabToNewWindowDeferred
<1>6. \A i : Registry!SwitchToTab(i) <=> RP!SwitchToTab(i)
  BY DEF Registry!SwitchToTab, RP!SwitchToTab
<1>7. \A i : Registry!GrabTab(i) <=> RP!GrabTab(i)
  BY DEF Registry!GrabTab, RP!GrabTab
<1>8. Registry!ReleaseTab <=> RP!ReleaseTab
  BY DEF Registry!ReleaseTab, RP!ReleaseTab
<1>9. \A i, j : Registry!MoveTab(i, j) <=> RP!MoveTab(i, j)
  BY DEF Registry!MoveTab, RP!MoveTab
<1>10. Registry!Refused <=> RP!Refused
  BY DEF Registry!Refused, RP!Refused
<1>11. Registry!NotMade <=> RP!NotMade
  BY DEF Registry!NotMade, RP!NotMade
<1>12. \A t : Registry!MoveOut(t) <=> RP!MoveOut(t)
  BY DEF Registry!MoveOut, RP!MoveOut
<1>13. Registry!MoveTabToNewWindow <=> RP!MoveTabToNewWindow
  BY <1>10, <1>11, <1>12 DEF Registry!MoveTabToNewWindow, RP!MoveTabToNewWindow
<1>14. Registry!TearOffTab <=> RP!TearOffTab
  BY <1>10, <1>11, <1>12 DEF Registry!TearOffTab, RP!TearOffTab
<1>15. Registry!DragSingleTab <=> RP!DragSingleTab
  BY DEF Registry!DragSingleTab, RP!DragSingleTab
<1>16. \A w, i : Registry!ExecuteTabMerge(w, i) <=> RP!ExecuteTabMerge(w, i)
  BY DEF Registry!ExecuteTabMerge, RP!ExecuteTabMerge
<1>17. Registry!EndDrag <=> RP!EndDrag
  BY DEF Registry!EndDrag, RP!EndDrag
<1>18. \A w : Registry!FocusWindow(w) <=> RP!FocusWindow(w)
  BY DEF Registry!FocusWindow, RP!FocusWindow
<1>19. \A w : Registry!CloseWindow(w) <=> RP!CloseWindow(w)
  BY DEF Registry!CloseWindow, RP!CloseWindow
<1>20. Registry!CreateWindow <=> RP!CreateWindow
  BY DEF Registry!CreateWindow, RP!CreateWindow
<1>21. Registry!Next <=> RP!Next
  BY <1>1, <1>3, <1>4, <1>5, <1>6, <1>7, <1>8, <1>9, <1>13, <1>14,
     <1>15, <1>16, <1>17, <1>18, <1>19, <1>20
  DEF Registry!Next, RP!Next
<1> QED
  BY <1>2, <1>21 DEF Registry!vars, RP!vars

-----------------------------------------------------------------------------
(* The theorems *)

(* The two parts of the invariant together.                                *)
SInv == Core /\ RP!Inv

(* It holds at the start.                                                  *)
LEMMA SInvInit ==
    ASSUME Init
    PROVE  SInv
  BY CoreInit, SameAssumption, RP!InvInit DEF SInv

(* Every step keeps it, and is a step or a stutter of TabWindows.          *)
LEMMA SInvNext ==
    ASSUME SInv, [Next]_vars
    PROVE  SInv' /\ [RP!Next]_RP!vars /\ RP!ShownStep
<1>1. Core' /\ [RP!Next]_RP!vars
  BY CoreNext DEF SInv
<1>2. RP!Inv' /\ RP!ShownStep
  BY <1>1, SameAssumption, RP!InvNext DEF SInv
<1> QED
  BY <1>1, <1>2 DEF SInv

(* It says what is to be shown.                                            *)
LEMMA SInvMeans ==
    ASSUME SInv
    PROVE  TypeOK /\ TabsPartition /\ NoSharedPane /\ SessionMatchesMux
<1>1. /\ Data /\ Apart(session) /\ Agrees(session, mux, lost, stuck, leaked)
      /\ RP!TypeOK /\ RP!TabsPartition
  BY SameAssumption, RP!InvMeans DEF SInv, Core
<1>2. Known \subseteq PaneIds
  BY <1>1, SessionAssumption DEF Data, Known, PaneIds
<1>3. DOMAIN session.tabs \subseteq TabIds /\ DOMAIN session.windows \subseteq WindowIds
  BY <1>1, WindowsAssumption DEF RP!TypeOK, TabIds, WindowIds
<1>4. ASSUME NEW t \in DOMAIN session.tabs
      PROVE  /\ AllPanes(session.tabs[t]) \cup {session.tabs[t].active} \subseteq PaneIds
             /\ Len(session.tabs[t].undo) <= MaxUndo /\ Len(session.tabs[t].redo) <= MaxUndo
  <2>1. IsTab(session.tabs[t], Known)
    BY <1>1 DEF Data, IsSession
  <2>2. AllPanes(session.tabs[t]) \subseteq Known /\ session.tabs[t].active \in Known
    BY <1>1, <2>1, ShownKnown DEF Data, IsTab
  <2> QED
    BY <1>2, <2>1, <2>2 DEF IsTab
<1>5. /\ mux.registered \subseteq mux.panes /\ mux.panes \subseteq PaneIds
      /\ Range(mux.closed) \cup Range(exits) \subseteq PaneIds
  BY <1>1, <1>2, RangeAt DEF Data, IsMux, Agrees
<1>6. drag \in Drags \cup {NoDrag}
  BY <1>1 DEF RP!TypeOK, RP!Drags, RP!TabIds, RP!WindowIds, Drags, TabIds, WindowIds
<1>7. /\ moves \in Seq(TabIds) /\ DOMAIN grabs \subseteq DOMAIN session.windows
      /\ Range(grabs) \subseteq TabIds
  BY <1>1 DEF RP!TypeOK, RP!TabIds, TabIds, Range
<1>8. TypeOK
  BY <1>1, <1>3, <1>4, <1>5, <1>6, <1>7 DEF TypeOK, Data
<1>9. TabsPartition
  BY <1>1, SameParts DEF RP!TabsPartition, Registry!TabsPartition, TabsPartition,
                         RP!ListedTabs, Registry!ListedTabs, RP!ListedOnce, Registry!ListedOnce
<1>10. NoSharedPane
  BY <1>1 DEF Apart, NoSharedPane
<1>11. SessionMatchesMux
  BY <1>1 DEF Agrees, SessionMatchesMux
<1> QED
  BY <1>8, <1>9, <1>10, <1>11

(* Sessions hold tabs, trees of panes and bounded undo and redo stacks     *)
(* whatever splits, closes, moves, exits and pumps come in what order.     *)
THEOREM SessionTypeCorrect == Spec => []TypeOK
<1>1. Init => SInv
  BY SInvInit
<1>2. SInv /\ [Next]_vars => SInv'
  BY SInvNext
<1>3. SInv => TypeOK
  BY SInvMeans
<1> QED
  BY <1>1, <1>2, <1>3, PTL DEF Spec

(* Every layout that a tab has, and every one that undo or redo can bring  *)
(* back, is a whole binary tree: no edit of split_tree leaves a split with *)
(* one child, a node that is not below the root, or a pane with something  *)
(* below it.                                                               *)
TreesAreWhole ==
    \A t \in DOMAIN session.tabs :
        \A tree \in {session.tabs[t].tree} \cup Range(session.tabs[t].undo)
                                          \cup Range(session.tabs[t].redo) : IsTree(tree)

(* Splitting, closing, resizing, floating, undo and redo, and the exits of *)
(* shells in between, keep the split trees whole, also those in which undo *)
(* has put a pane twice.                                                   *)
THEOREM SplitTreesStayWhole == Spec => []TreesAreWhole
<1>1. Init => SInv
  BY SInvInit
<1>2. SInv /\ [Next]_vars => SInv'
  BY SInvNext
<1>3. SInv => TreesAreWhole
  BY DEF SInv, Core, Data, IsSession, IsTab, IsStack, IsTreeOf, TreesAreWhole
<1> QED
  BY <1>1, <1>2, <1>3, PTL DEF Spec

(* No tab is listed twice and no registered one is unlisted, whatever the  *)
(* panes, shells and pumps do and whichever names events and drags still   *)
(* hold, but for the tabs that went astray and the windows left hollow.    *)
THEOREM SessionTabsPartitioned == Spec => []TabsPartition
<1>1. Init => SInv
  BY SInvInit
<1>2. SInv /\ [Next]_vars => SInv'
  BY SInvNext
<1>3. SInv => TabsPartition
  BY SInvMeans
<1> QED
  BY <1>1, <1>2, <1>3, PTL DEF Spec

(* No pane is ever in two tabs, and no undo or redo brings a pane of       *)
(* another tab back.                                                       *)
THEOREM PanesAreNotShared == Spec => []NoSharedPane
<1>1. Init => SInv
  BY SInvInit
<1>2. SInv /\ [Next]_vars => SInv'
  BY SInvNext
<1>3. SInv => NoSharedPane
  BY SInvMeans
<1> QED
  BY <1>1, <1>2, <1>3, PTL DEF Spec

(* The registry of tabs and the mux agree, through every close, exit,      *)
(* pump, move and undo, up to the panes that undo lets go of, that         *)
(* remove_pane_from_session keeps and that create_window leaks.            *)
THEOREM SessionAgreesWithMux == Spec => []SessionMatchesMux
<1>1. Init => SInv
  BY SInvInit
<1>2. SInv /\ [Next]_vars => SInv'
  BY SInvNext
<1>3. SInv => SessionMatchesMux
  BY SInvMeans
<1> QED
  BY <1>1, <1>2, <1>3, PTL DEF Spec

(* The session, with its panes, its mux and the exits of shells,           *)
(* implements the registry of tabs and windows: of every step TabWindows   *)
(* sees one of its own or nothing at all.                                  *)
THEOREM SessionImplementsTabWindows == Spec => ImplementsTabWindows
<1> SUFFICES Spec => Registry!Spec
  BY DEF ImplementsTabWindows
<1>1. Init => SInv /\ Registry!Init
  BY SInvInit, CoreInit, SameSpec
<1>2. SInv /\ [Next]_vars => SInv' /\ [Registry!Next]_Registry!vars
  BY SInvNext, SameSpec DEF RP!vars, Registry!vars
<1> QED
  BY <1>1, <1>2, PTL DEF Spec, Registry!Spec

(* Nothing that happens to other tabs, or to panes, changes which tab a    *)
(* window shows, but for a merge into a window that lists the tab already. *)
THEOREM SessionShownKept == Spec => ShownTabKept
<1> SUFFICES Spec => Registry!ShownTabKept
  BY DEF ShownTabKept
<1>1. Init => SInv
  BY SInvInit
<1>2. SInv /\ [Next]_vars => SInv'
  BY SInvNext
<1>3. SInv /\ [Next]_vars =>
        [\A w \in DOMAIN session.windows \cap DOMAIN session.windows' :
           ( /\ session.windows'[w].tabs # session.windows[w].tabs
             /\ Registry!Range(session.windows'[w].tabs)
                  \subseteq Registry!Range(session.windows[w].tabs)
             /\ Registry!Shown(session.windows[w])
                  \in Registry!Range(session.windows'[w].tabs) )
           => \/ Registry!Shown(session.windows'[w])
                   = Registry!Shown(session.windows[w])
              \/ drag # NoDrag /\ drag' = NoDrag
                   /\ Registry!Shown(session.windows'[w]) = drag.tab]_Registry!vars
  BY SInvNext, SameParts DEF RP!ShownStep, RP!Kept, RP!Shown, Registry!Shown
<1> QED
  BY <1>1, <1>2, <1>3, PTL DEF Spec, Registry!ShownTabKept
=============================================================================
