------------------------ MODULE FramePipelineProofs ------------------------
(***************************************************************************)
(* Theorems about FramePipeline, for every set of panes, rows and values,  *)
(* every bound and every choice of application operations.                 *)
(***************************************************************************)
EXTENDS FramePipeline, TLAPS

-----------------------------------------------------------------------------
(* The operators.                                                          *)

(* A content built from the grid is a content.                             *)
LEMMA RenderableContentType ==
    ASSUME TypeOK, NEW p \in Panes
    PROVE  RenderableContent(p) \in Content
BY DEF TypeOK, RenderableContent, CollectDamage, Content, AnyCells

(* A flip yields a slot with something new in it, whose front shows what   *)
(* was flipped in, with the same damage unless a snapshot was skipped, and *)
(* then everything is dirty.                                               *)
LEMMA FlipSwapFacts ==
    ASSUME NEW s \in Slots, s.consumed <= s.seqno, NEW b \in Content
    PROVE  /\ FlipSwap(s, b) \in Slots
           /\ FlipSwap(s, b).consumed = s.consumed
           /\ FlipSwap(s, b).seqno = s.seqno + 1
           /\ HasNew(FlipSwap(s, b))
           /\ FlipSwap(s, b).front.cells = b.cells
           /\ FlipSwap(s, b).front.damage = b.damage
           /\ HasNew(s) => FlipSwap(s, b).front.all_dirty = TRUE
           /\ ~HasNew(s) => FlipSwap(s, b).front = b
<1>1. s = [front |-> s.front, seqno |-> s.seqno, consumed |-> s.consumed]
      /\ s.front \in Content /\ s.seqno \in Nat /\ s.consumed \in Nat
  BY DEF Slots
<1>2. b = [cells |-> b.cells, damage |-> b.damage, all_dirty |-> b.all_dirty]
  BY DEF Content
<1>3. [b EXCEPT !.all_dirty = TRUE] \in Content
  BY DEF Content
<1>4. CASE HasNew(s)
  <2>1. FlipSwap(s, b) = [front |-> [b EXCEPT !.all_dirty = TRUE],
                          seqno |-> s.seqno + 1, consumed |-> s.consumed]
    BY <1>1, <1>4 DEF FlipSwap
  <2>2. /\ [b EXCEPT !.all_dirty = TRUE].cells = b.cells
        /\ [b EXCEPT !.all_dirty = TRUE].damage = b.damage
        /\ [b EXCEPT !.all_dirty = TRUE].all_dirty = TRUE
    BY <1>2
  <2>3. FlipSwap(s, b).front = [b EXCEPT !.all_dirty = TRUE]
        /\ FlipSwap(s, b).seqno = s.seqno + 1
        /\ FlipSwap(s, b).consumed = s.consumed
    BY <2>1
  <2>4. FlipSwap(s, b) \in Slots
    BY <1>1, <1>3, <2>1 DEF Slots
  <2>5. HasNew(FlipSwap(s, b))
    BY <1>1, <2>3 DEF HasNew
  <2> QED  BY <1>4, <2>2, <2>3, <2>4, <2>5
<1>5. CASE ~HasNew(s)
  <2>1. FlipSwap(s, b) = [front |-> b, seqno |-> s.seqno + 1, consumed |-> s.consumed]
    BY <1>1, <1>5 DEF FlipSwap
  <2> QED  BY <1>1, <1>5, <2>1 DEF HasNew, Slots
<1> QED  BY <1>4, <1>5

(* A swap leaves a slot with nothing new in it, and hands over the front   *)
(* if there was something new.                                             *)
LEMMA SwapFrontFacts ==
    ASSUME NEW s \in Slots, s.consumed <= s.seqno, NEW b \in Content
    PROVE  /\ SwapFront(s, b) \in Slots
           /\ SwapFront(s, b).consumed = s.seqno
           /\ SwapFront(s, b).seqno = s.seqno
           /\ ~HasNew(SwapFront(s, b))
           /\ SwappedBuffer(s, b) \in Content
<1>1. s = [front |-> s.front, seqno |-> s.seqno, consumed |-> s.consumed]
      /\ s.front \in Content /\ s.seqno \in Nat /\ s.consumed \in Nat
  BY DEF Slots
<1>2. CASE HasNew(s)
  <2>1. SwapFront(s, b) = [front |-> b, seqno |-> s.seqno, consumed |-> s.seqno]
    BY <1>1, <1>2 DEF SwapFront
  <2> QED  BY <1>1, <1>2, <2>1 DEF SwappedBuffer, HasNew, Slots
<1>3. CASE ~HasNew(s)
  BY <1>1, <1>3 DEF SwapFront, SwappedBuffer, HasNew, Slots
<1> QED  BY <1>2, <1>3

(* Marking rows yields a tracker.                                          *)
Trackers == [lines : SUBSET Rows, all : BOOLEAN]

LEMMA MarkTypes ==
    ASSUME NEW d \in Trackers, NEW rows \in SUBSET Rows
    PROVE  MarkRange(d, rows) \in Trackers /\ MarkAll(d) \in Trackers
BY DEF Trackers, MarkRange, MarkAll

-----------------------------------------------------------------------------
(* Type correctness.                                                       *)

LEMMA TypeInit == Init => TypeOK
<1> SUFFICES ASSUME Init PROVE TypeOK OBVIOUS
<1>1. EmptyContent \in Content
  BY DEF EmptyContent, Content, AnyCells
<1>2. NewSlot(EmptyContent) \in Slots
  BY <1>1 DEF NewSlot, Slots
<1>3. \A p \in Panes : slot[p].consumed <= slot[p].seqno
  BY DEF Init, NewSlot
<1>4. grid \in [Panes -> Cells]
  BY DEF Init, Cells
<1>5. CleanTracker \in [lines : SUBSET Rows, all : BOOLEAN]
  BY DEF CleanTracker
<1>6. NoCells \in AnyCells
  BY DEF AnyCells
<1>7. budget \in 0..MaxInputs /\ cmdq \in [Panes -> 0..CmdCap]
  BY PipelineAssumption DEF Init
<1> QED
  BY <1>1, <1>2, <1>3, <1>4, <1>5, <1>6, <1>7 DEF Init, TypeOK

(* What a refresh does to the caches keeps their types.                    *)
LEMMA RefreshType ==
    ASSUME TypeOK, NEW p \in Panes, RefreshPaneSnapshot(p)
    PROVE  /\ slot' \in [Panes -> Slots]
           /\ \A q \in Panes : slot'[q].consumed <= slot'[q].seqno
           /\ cached' \subseteq Panes /\ snapDirty' \subseteq Panes
           /\ snapCells' \in [Panes -> AnyCells]
           /\ consumedCells' \in [Panes -> AnyCells]
           /\ SwappedBuffer(slot[p], cache[p]) \in Content
<1>1. slot[p] \in Slots /\ slot[p].consumed <= slot[p].seqno /\ cache[p] \in Content
  BY DEF TypeOK
<1>2. slot' = [slot EXCEPT ![p] = SwapFront(slot[p], cache[p])]
  BY DEF RefreshPaneSnapshot
<1>3. /\ SwapFront(slot[p], cache[p]) \in Slots
      /\ SwapFront(slot[p], cache[p]).consumed <= SwapFront(slot[p], cache[p]).seqno
      /\ SwappedBuffer(slot[p], cache[p]) \in Content
  BY <1>1, SwapFrontFacts DEF Slots
<1>4. slot' \in [Panes -> Slots] /\ \A q \in Panes : slot'[q].consumed <= slot'[q].seqno
  BY <1>2, <1>3 DEF TypeOK
<1>5. slot[p].front.cells \in AnyCells
  BY <1>1 DEF Slots, Content
<1> QED  BY <1>3, <1>4, <1>5 DEF TypeOK, RefreshPaneSnapshot

(* What is on screen is a full set of rows or none.                        *)
LEMMA PreparedRowsType ==
    ASSUME NEW f \in Content, NEW fp \in BOOLEAN, NEW rows \in SUBSET Rows,
           screen \in AnyCells
    PROVE  PreparedRows(f, fp, rows) \in AnyCells
<1>1. f.cells \in AnyCells
  BY DEF Content
<1>2. CASE f.cells # NoCells /\ screen # NoCells
  <2>1. f.cells \in Cells /\ screen \in Cells
    BY <1>1, <1>2 DEF AnyCells
  <2>2. [r \in Rows |-> IF r \in f.damage \cup rows THEN f.cells[r] ELSE screen[r]] \in Cells
    BY <2>1 DEF Cells
  <2> QED  BY <1>1, <2>2 DEF PreparedRows, IncrementalRows, DirtySet, AnyCells
<1> QED  BY <1>1, <1>2 DEF PreparedRows, CanIncremental, AnyCells

LEMMA TypeNext == TypeOK /\ [Next]_vars => TypeOK'
<1> SUFFICES ASSUME TypeOK, [Next]_vars PROVE TypeOK'
  OBVIOUS
<1>1. ASSUME NEW p \in Panes, HandleBytes(p) PROVE TypeOK'
  <2>1. PICK rows \in SUBSET Rows \ {{}}, g \in Cells :
            /\ grid' = [grid EXCEPT ![p] = g]
            /\ dirty' = [dirty EXCEPT ![p] = MarkRange(dirty[p], rows)]
    BY <1>1 DEF HandleBytes
  <2>2. dirty' \in [Panes -> Trackers]
    BY <2>1, MarkTypes DEF TypeOK, Trackers
  <2>3. grid' \in [Panes -> Cells]
    BY <2>1 DEF TypeOK
  <2> QED
    BY <1>1, <2>2, <2>3, PipelineAssumption DEF TypeOK, Trackers, HandleBytes, cacheVars, viewVars
<1>2. ASSUME NEW p \in Panes, ApplyCommand(p) PROVE TypeOK'
  <2>1. dirty' \in [Panes -> Trackers] /\ grid' \in [Panes -> Cells]
    <3>1. MarkAll(dirty[p]) \in Trackers
      BY MarkTypes DEF TypeOK, Trackers
    <3>2. CASE UNCHANGED <<grid, dirty>>
      BY <3>2 DEF TypeOK, Trackers
    <3>3. ASSUME NEW g \in Cells, grid' = [grid EXCEPT ![p] = g],
                 dirty' = [dirty EXCEPT ![p] = MarkAll(dirty[p])]
          PROVE  dirty' \in [Panes -> Trackers] /\ grid' \in [Panes -> Cells]
      BY <3>1, <3>3 DEF TypeOK, Trackers
    <3> QED  BY <1>2, <3>2, <3>3 DEF ApplyCommand
  <2>2. cmdq' \in [Panes -> 0..CmdCap]
    BY <1>2, PipelineAssumption DEF TypeOK, ApplyCommand
  <2> QED
    BY <1>2, <2>1, <2>2 DEF TypeOK, Trackers, ApplyCommand, cacheVars, viewVars
<1>3. ASSUME NEW p \in Panes, ApplyResize(p) PROVE TypeOK'
  <2>1. dirty' \in [Panes -> Trackers] /\ grid' \in [Panes -> Cells]
    <3>1. MarkAll(dirty[p]) \in Trackers
      BY MarkTypes DEF TypeOK, Trackers
    <3>2. CASE UNCHANGED <<grid, dirty>>
      BY <3>2 DEF TypeOK, Trackers
    <3>3. ASSUME NEW g \in Cells, grid' = [grid EXCEPT ![p] = g],
                 dirty' = [dirty EXCEPT ![p] = MarkAll(dirty[p])]
          PROVE  dirty' \in [Panes -> Trackers] /\ grid' \in [Panes -> Cells]
      BY <3>1, <3>3 DEF TypeOK, Trackers
    <3> QED  BY <1>3, <3>2, <3>3 DEF ApplyResize
  <2> QED
    BY <1>3, <2>1 DEF TypeOK, Trackers, ApplyResize, cacheVars, viewVars
<1>4. ASSUME NEW p \in Panes, ProduceSnapshot(p) PROVE TypeOK'
  <2>1. slot' = [slot EXCEPT ![p] = FlipSwap(slot[p], RenderableContent(p))]
    BY <1>4 DEF ProduceSnapshot
  <2>2. slot[p] \in Slots /\ slot[p].consumed <= slot[p].seqno
    BY DEF TypeOK
  <2>3. /\ FlipSwap(slot[p], RenderableContent(p)) \in Slots
        /\ FlipSwap(slot[p], RenderableContent(p)).consumed
              <= FlipSwap(slot[p], RenderableContent(p)).seqno
    <3>1. RenderableContent(p) \in Content
      BY RenderableContentType
    <3>2. /\ FlipSwap(slot[p], RenderableContent(p)) \in Slots
          /\ FlipSwap(slot[p], RenderableContent(p)).consumed = slot[p].consumed
          /\ FlipSwap(slot[p], RenderableContent(p)).seqno = slot[p].seqno + 1
      BY <2>2, <3>1, FlipSwapFacts
    <3>3. slot[p].consumed \in Nat /\ slot[p].seqno \in Nat
      BY <2>2 DEF Slots
    <3> QED  BY <2>2, <3>2, <3>3
  <2>4. slot' \in [Panes -> Slots] /\ \A q \in Panes : slot'[q].consumed <= slot'[q].seqno
    BY <2>1, <2>3 DEF TypeOK
  <2> QED
    BY <1>4, <2>4 DEF TypeOK, ProduceSnapshot, CleanTracker, cacheVars, viewVars
<1>5. ASSUME NEW p \in Panes, FireWakeup(p) PROVE TypeOK'
  BY <1>5 DEF TypeOK, FireWakeup, cacheVars, viewVars
<1>6. ASSUME NEW p \in Panes, PumpScan(p) PROVE TypeOK'
  BY <1>6 DEF TypeOK, PumpScan, ioVars, viewVars
<1>7. ASSUME RefreshOutOfBand \/ AutoScroll PROVE TypeOK'
  <2>1. /\ active \in Panes /\ RefreshPaneSnapshot(active)
        /\ cache' = [cache EXCEPT ![active] = SwappedBuffer(slot[active], cache[active])]
    BY <1>7 DEF TypeOK, RefreshOutOfBand, AutoScroll
  <2>2. cache' \in [Panes -> Content]
    BY <2>1, RefreshType DEF TypeOK
  <2>3. CASE RefreshOutOfBand
    <3>1. windowDirty' \in BOOLEAN
      BY <2>3, Zenon DEF TypeOK, RefreshOutOfBand
    <3>2. budget' \in 0..MaxInputs /\ UNCHANGED <<ioVars, wakeup, toScan, viewVars>>
      BY <2>3, PipelineAssumption DEF TypeOK, RefreshOutOfBand
    <3> QED
      BY <2>1, <2>2, <3>1, <3>2, RefreshType DEF TypeOK, ioVars, viewVars
  <2>4. CASE AutoScroll
    <3>1. cmdq' \in [Panes -> 0..CmdCap]
      BY <2>4, PipelineAssumption DEF TypeOK, AutoScroll
    <3> QED
      BY <2>1, <2>2, <2>4, <3>1, RefreshType, PipelineAssumption DEF TypeOK, AutoScroll, viewVars
  <2> QED  BY <1>7, <2>3, <2>4
<1>8. ASSUME NEW p \in Panes, SwitchTab(p) PROVE TypeOK'
  BY <1>8, PipelineAssumption DEF TypeOK, SwitchTab, cacheVars
<1>9. ASSUME PumpClear PROVE TypeOK'
  BY <1>9 DEF TypeOK, PumpClear, ioVars, cacheVars, viewVars
<1>10. ASSUME NEW preedit \in BOOLEAN, NEW fp \in BOOLEAN, NEW rows \in SUBSET Rows,
              Redraw(preedit, fp, rows)
       PROVE TypeOK'
  <2> DEFINE p == active
             changed == SnapshotChanged(p)
             refreshed == IF changed THEN SwappedBuffer(slot[p], cache[p]) ELSE cache[p]
             swapped == changed /\ hasFrame
             newFrame == IF swapped THEN refreshed
                         ELSE IF changed \/ preedit \/ ~hasFrame THEN ExtractedFrame(snapCells'[p])
                         ELSE frame
  <2>1. p \in Panes
    BY DEF TypeOK
  <2>2. \/ RefreshPaneSnapshot(p)
        \/ UNCHANGED <<slot, cached, snapDirty, snapCells, consumedCells>>
    BY <1>10 DEF Redraw
  <2>3. /\ slot' \in [Panes -> Slots]
        /\ \A q \in Panes : slot'[q].consumed <= slot'[q].seqno
        /\ cached' \subseteq Panes /\ snapDirty' \subseteq Panes
        /\ snapCells' \in [Panes -> AnyCells]
        /\ consumedCells' \in [Panes -> AnyCells]
    BY <2>1, <2>2, RefreshType DEF TypeOK
  <2>4. refreshed \in Content
    <3>1. slot[p] \in Slots /\ slot[p].consumed <= slot[p].seqno /\ cache[p] \in Content
      BY <2>1 DEF TypeOK
    <3>2. SwappedBuffer(slot[p], cache[p]) \in Content
      BY <3>1, SwapFrontFacts
    <3> QED  BY <3>1, <3>2
  <2>5. ExtractedFrame(snapCells'[p]) \in Content
    BY <2>1, <2>3 DEF ExtractedFrame, Content
  <2>6. newFrame \in Content
    BY <2>4, <2>5 DEF TypeOK
  <2>7. frame' = newFrame /\ cache' = [cache EXCEPT ![p] = IF swapped THEN frame ELSE refreshed]
    BY <1>10 DEF Redraw, ContentChanged, SwapOrExtract
  <2>8. frame' \in Content /\ cache' \in [Panes -> Content]
    BY <2>1, <2>4, <2>6, <2>7 DEF TypeOK
  <2>9. screen' \in AnyCells
    <3>1. PreparedRows(newFrame, fp, rows) \in AnyCells
      BY <2>6, PreparedRowsType DEF TypeOK
    <3>2. screen' = screen \/ screen' = PreparedRows(newFrame, fp, rows)
      BY <1>10, <2>7 DEF Redraw
    <3> QED  BY <3>1, <3>2 DEF TypeOK
  <2> QED
    BY <1>10, <2>1, <2>3, <2>8, <2>9 DEF TypeOK, Redraw, ioVars
<1>11. ASSUME Invalidate PROVE TypeOK'
  BY <1>11 DEF TypeOK, Invalidate, ioVars, cacheVars, viewVars
<1>12. ASSUME SendCommand PROVE TypeOK'
  <2>1. cmdq' \in [Panes -> 0..CmdCap]
    BY <1>12, PipelineAssumption DEF TypeOK, SendCommand
  <2> QED  BY <1>12, <2>1, PipelineAssumption DEF TypeOK, SendCommand, viewVars
<1>13. ASSUME SendResize PROVE TypeOK'
  BY <1>13, PipelineAssumption DEF TypeOK, SendResize, cacheVars, viewVars
<1>14. ASSUME FontChange PROVE TypeOK'
  <2>1. budget' \in 0..MaxInputs
    BY <1>14, PipelineAssumption DEF TypeOK, FontChange
  <2> QED  BY <1>14, <2>1 DEF TypeOK, FontChange, ioVars, cacheVars
<1>15. ASSUME UNCHANGED vars PROVE TypeOK'
  BY <1>15 DEF TypeOK, vars, ioVars, cacheVars, viewVars
<1> QED
  BY <1>1, <1>2, <1>3, <1>4, <1>5, <1>6, <1>7, <1>8, <1>9, <1>10, <1>11, <1>12,
     <1>13, <1>14, <1>15
  DEF Next, IoStep, RedrawAny

(* Every variable keeps its type, the command channel its bound, and no    *)
(* consumer is ahead of its producer.                                      *)
THEOREM TypeCorrect == Spec => []TypeOK
<1>1. Init => TypeOK
  BY TypeInit
<1>2. TypeOK /\ [Next]_vars => TypeOK'
  BY TypeNext
<1> QED  BY <1>1, <1>2, PTL DEF Spec

-----------------------------------------------------------------------------
(* Cumulative damage.  The invariant relates the three copies of a pane's  *)
(* rows: the consumed snapshot, the front, and the grid.                   *)

DamageInv == CumulativeDamage /\ TrackerCoversGrid

(* Steps that touch neither a grid nor a slot.                             *)
LEMMA DamageUnchanged ==
    ASSUME DamageInv, UNCHANGED <<grid, dirty, slot, consumedCells>>
    PROVE  DamageInv'
BY DEF DamageInv, CumulativeDamage, TrackerCoversGrid, NewestCells

(* A change of rows that the tracker is told about.                        *)
LEMMA DamageGridStep ==
    ASSUME TypeOK, DamageInv, NEW p \in Panes, NEW g \in Cells,
           NEW rows \in SUBSET Rows, NEW d \in Trackers,
           \A r \in Rows \ rows : g[r] = grid[p][r],
           ~d.all => ~dirty[p].all /\ dirty[p].lines \cup rows \subseteq d.lines,
           grid' = [grid EXCEPT ![p] = g],
           dirty' = [dirty EXCEPT ![p] = d],
           UNCHANGED <<slot, consumedCells>>
    PROVE  DamageInv'
<1>1. CumulativeDamage'
  BY DEF DamageInv, CumulativeDamage
<1>2. ASSUME NEW q \in Panes, slot[q].seqno > 0
      PROVE  dirty'[q].all \/ \A r \in Rows \ dirty'[q].lines : grid'[q][r] = NewestCells(q)[r]
  <2>1. dirty[q].all \/ \A r \in Rows \ dirty[q].lines : grid[q][r] = NewestCells(q)[r]
    BY <1>2 DEF DamageInv, TrackerCoversGrid
  <2>2. CASE q # p
    <3>1. dirty'[q] = dirty[q] /\ grid'[q] = grid[q]
      BY <2>2 DEF TypeOK
    <3> QED  BY <2>1, <3>1
  <2>3. CASE q = p
    <3>1. dirty'[q] = d /\ grid'[q] = g
      BY <2>3 DEF TypeOK
    <3>2. CASE d.all
      BY <3>1, <3>2
    <3>3. CASE ~d.all
      <4>1. ~dirty[p].all /\ dirty[p].lines \cup rows \subseteq d.lines
        BY <3>3
      <4>2. \A r \in Rows \ d.lines : g[r] = NewestCells(q)[r]
        BY <2>1, <2>3, <4>1
      <4> QED  BY <3>1, <4>2
    <3> QED  BY <3>2, <3>3
  <2> QED  BY <2>2, <2>3
<1>3. \A q \in Panes : slot'[q] = slot[q] /\ NewestCells(q)' = NewestCells(q)
  BY DEF NewestCells
<1>4. TrackerCoversGrid'
  BY <1>2, <1>3 DEF TrackerCoversGrid
<1> QED  BY <1>1, <1>4 DEF DamageInv

(* Publication: the new front carries the tracker's damage relative to the *)
(* consumed snapshot, or everything if the previous front was not consumed.*)
LEMMA DamageProduce ==
    ASSUME TypeOK, DamageInv, NEW p \in Panes, ProduceSnapshot(p)
    PROVE  DamageInv'
<1>0. PICK c \in Content : c = RenderableContent(p)
  BY RenderableContentType
<1>1. /\ slot' = [slot EXCEPT ![p] = FlipSwap(slot[p], c)]
      /\ dirty' = [dirty EXCEPT ![p] = CleanTracker]
      /\ UNCHANGED <<grid, consumedCells>>
  BY <1>0 DEF ProduceSnapshot, cacheVars
<1>2. slot[p] \in Slots /\ slot[p].consumed <= slot[p].seqno
  BY DEF TypeOK
<1>3. slot[p].consumed \in Nat /\ slot[p].seqno \in Nat
  BY <1>2 DEF Slots
<1>4. /\ HasNew(slot'[p])
      /\ slot'[p].consumed = slot[p].consumed
      /\ slot'[p].front.cells = c.cells
      /\ HasNew(slot[p]) => slot'[p].front.all_dirty = TRUE
      /\ ~HasNew(slot[p]) => slot'[p].front = c
  <2>1. slot'[p] = FlipSwap(slot[p], c)
    BY <1>1 DEF TypeOK
  <2>2. /\ HasNew(FlipSwap(slot[p], c))
        /\ FlipSwap(slot[p], c).consumed = slot[p].consumed
        /\ FlipSwap(slot[p], c).front.cells = c.cells
        /\ HasNew(slot[p]) => FlipSwap(slot[p], c).front.all_dirty = TRUE
        /\ ~HasNew(slot[p]) => FlipSwap(slot[p], c).front = c
    BY <1>2, FlipSwapFacts
  <2> QED  BY <2>1, <2>2
<1>5. /\ c.cells = grid[p]
      /\ dirty[p].all \/ dirty[p].lines = Rows => c.all_dirty = TRUE
      /\ ~(dirty[p].all \/ dirty[p].lines = Rows) => c.damage = dirty[p].lines
  BY <1>0 DEF RenderableContent, CollectDamage
<1>6. \A q \in Panes \ {p} : slot'[q] = slot[q] /\ dirty'[q] = dirty[q]
  BY <1>1 DEF TypeOK
<1>7. ASSUME NEW q \in Panes, HasNew(slot'[q]), slot'[q].consumed > 0
      PROVE  DamageCovers(slot'[q].front, consumedCells[q])
  <2>1. CASE q # p
    BY <1>6, <1>7, <2>1 DEF DamageInv, CumulativeDamage
  <2>2. CASE q = p /\ HasNew(slot[p])
    BY <1>4, <2>2 DEF DamageCovers
  <2>3. CASE q = p /\ ~HasNew(slot[p])
    <3>1. slot[p].seqno > 0 /\ NewestCells(p) = consumedCells[p]
      <4>1. slot[p].consumed > 0
        BY <1>4, <1>7, <2>3
      <4> QED  BY <1>2, <1>3, <2>3, <4>1 DEF HasNew, NewestCells
    <3>2. dirty[p].all \/ \A r \in Rows \ dirty[p].lines : grid[p][r] = consumedCells[p][r]
      BY <3>1 DEF DamageInv, TrackerCoversGrid
    <3>3. slot'[q].front = c
      BY <1>4, <2>3
    <3>4. c.all_dirty \/ \A r \in Rows \ c.damage : c.cells[r] = consumedCells[p][r]
      BY <1>5, <3>2
    <3> QED  BY <2>3, <3>3, <3>4 DEF DamageCovers
  <2> QED  BY <2>1, <2>2, <2>3
<1>8. CumulativeDamage'
  BY <1>1, <1>7 DEF CumulativeDamage, DamageCovers, HasNew
<1>9. ASSUME NEW q \in Panes, slot'[q].seqno > 0
      PROVE  dirty'[q].all \/ \A r \in Rows \ dirty'[q].lines : grid'[q][r] = NewestCells(q)'[r]
  <2>1. CASE q # p
    BY <1>1, <1>6, <1>9, <2>1 DEF DamageInv, TrackerCoversGrid, NewestCells, HasNew
  <2>2. CASE q = p
    <3>1. NewestCells(p)' = grid[p]
      BY <1>4, <1>5 DEF NewestCells, HasNew
    <3> QED  BY <1>1, <2>2, <3>1
  <2> QED  BY <2>1, <2>2
<1>10. TrackerCoversGrid'
  BY <1>9 DEF TrackerCoversGrid
<1> QED  BY <1>8, <1>10 DEF DamageInv

(* Consumption: nothing is new any more, and the newest rows are the ones  *)
(* just taken.                                                             *)
LEMMA DamageRefresh ==
    ASSUME TypeOK, DamageInv, NEW p \in Panes, RefreshPaneSnapshot(p),
           UNCHANGED <<grid, dirty>>
    PROVE  DamageInv'
<1>1. /\ slot' = [slot EXCEPT ![p] = SwapFront(slot[p], cache[p])]
      /\ consumedCells' = [consumedCells EXCEPT ![p] =
             IF HasNew(slot[p]) THEN slot[p].front.cells ELSE consumedCells[p]]
  BY DEF RefreshPaneSnapshot
<1>2. slot[p] \in Slots /\ slot[p].consumed <= slot[p].seqno /\ cache[p] \in Content
  BY DEF TypeOK
<1>3. /\ ~HasNew(slot'[p])
      /\ slot'[p].seqno = slot[p].seqno
  <2>1. slot'[p] = SwapFront(slot[p], cache[p])
    BY <1>1 DEF TypeOK
  <2> QED  BY <1>2, <2>1, SwapFrontFacts
<1>4. consumedCells'[p] = NewestCells(p)
  BY <1>1 DEF TypeOK, NewestCells
<1>5. \A q \in Panes \ {p} : slot'[q] = slot[q] /\ consumedCells'[q] = consumedCells[q]
  BY <1>1 DEF TypeOK
<1>6. \A q \in Panes : NewestCells(q)' = NewestCells(q) /\ slot'[q].seqno = slot[q].seqno
  BY <1>3, <1>4, <1>5 DEF NewestCells, HasNew
<1>7. TrackerCoversGrid'
  BY <1>6 DEF DamageInv, TrackerCoversGrid
<1>8. CumulativeDamage'
  BY <1>3, <1>5 DEF DamageInv, CumulativeDamage, HasNew, DamageCovers
<1> QED  BY <1>7, <1>8 DEF DamageInv

LEMMA DamageNext == TypeOK /\ DamageInv /\ [Next]_vars => DamageInv'
<1> SUFFICES ASSUME TypeOK, DamageInv, [Next]_vars PROVE DamageInv'
  OBVIOUS
<1>1. ASSUME NEW p \in Panes, HandleBytes(p) PROVE DamageInv'
  <2>1. PICK rows \in SUBSET Rows \ {{}}, g \in Cells :
            /\ \A r \in Rows \ rows : g[r] = grid[p][r]
            /\ grid' = [grid EXCEPT ![p] = g]
            /\ dirty' = [dirty EXCEPT ![p] = MarkRange(dirty[p], rows)]
    BY <1>1 DEF HandleBytes
  <2>2. UNCHANGED <<slot, consumedCells>>
    BY <1>1 DEF HandleBytes, cacheVars
  <2>3. dirty[p] \in Trackers
    BY DEF TypeOK, Trackers
  <2>4. PICK d \in Trackers : d = MarkRange(dirty[p], rows)
    BY <2>3, MarkTypes
  <2>5. ~d.all => ~dirty[p].all /\ dirty[p].lines \cup rows \subseteq d.lines
    <3>1. dirty[p] = [lines |-> dirty[p].lines, all |-> dirty[p].all]
      BY <2>3 DEF Trackers
    <3>2. CASE rows = Rows
      <4>1. d.all
        BY <2>3, <2>4, <3>2 DEF MarkRange, Trackers
      <4> QED  BY <4>1
    <3>3. CASE rows # Rows
      <4>1. d.all = dirty[p].all /\ d.lines = dirty[p].lines \cup rows
        BY <2>4, <3>1, <3>3 DEF MarkRange
      <4> QED  BY <4>1
    <3> QED  BY <3>2, <3>3
  <2> QED  BY <2>1, <2>2, <2>4, <2>5, DamageGridStep
<1>2. ASSUME NEW p \in Panes, NEW g \in Cells, UNCHANGED <<slot, consumedCells>>,
             grid' = [grid EXCEPT ![p] = g],
             dirty' = [dirty EXCEPT ![p] = MarkAll(dirty[p])]
      PROVE  DamageInv'
  <2>1. dirty[p] \in Trackers
    BY DEF TypeOK, Trackers
  <2>2. PICK d \in Trackers : d = MarkAll(dirty[p])
    BY <2>1, MarkTypes
  <2>3. d.all
    BY <2>1, <2>2 DEF MarkAll, Trackers
  <2>4. PICK rows \in SUBSET Rows : \A r \in Rows \ rows : g[r] = grid[p][r]
    OBVIOUS
  <2>5. dirty' = [dirty EXCEPT ![p] = d]
    BY <1>2, <2>2
  <2>6. UNCHANGED slot /\ UNCHANGED consumedCells
    BY <1>2
  <2>7. grid' = [grid EXCEPT ![p] = g]
    BY <1>2
  <2>8. ~d.all => ~dirty[p].all /\ dirty[p].lines \cup rows \subseteq d.lines
    BY <2>3
  <2> QED  BY <2>4, <2>5, <2>6, <2>7, <2>8, DamageGridStep
<1>3. ASSUME NEW p \in Panes, ApplyCommand(p) \/ ApplyResize(p) PROVE DamageInv'
  <2>1. UNCHANGED <<slot, consumedCells>>
    BY <1>3 DEF ApplyCommand, ApplyResize, cacheVars
  <2>2. \/ UNCHANGED <<grid, dirty>>
        \/ \E g \in Cells : /\ grid' = [grid EXCEPT ![p] = g]
                            /\ dirty' = [dirty EXCEPT ![p] = MarkAll(dirty[p])]
    BY <1>3 DEF ApplyCommand, ApplyResize
  <2> QED  BY <2>1, <2>2, <1>2, DamageUnchanged
<1>4. ASSUME NEW p \in Panes, ProduceSnapshot(p) PROVE DamageInv'
  BY <1>4, DamageProduce
<1>5. ASSUME RefreshOutOfBand \/ AutoScroll PROVE DamageInv'
  <2>1. active \in Panes /\ RefreshPaneSnapshot(active) /\ UNCHANGED <<grid, dirty>>
    BY <1>5 DEF RefreshOutOfBand, AutoScroll, ioVars, TypeOK
  <2> QED  BY <2>1, DamageRefresh
<1>6. ASSUME NEW preedit \in BOOLEAN, NEW fp \in BOOLEAN, NEW rows \in SUBSET Rows,
             Redraw(preedit, fp, rows)
      PROVE  DamageInv'
  <2>1. active \in Panes /\ UNCHANGED <<grid, dirty>>
    BY <1>6 DEF Redraw, ioVars, TypeOK
  <2>2. RefreshPaneSnapshot(active) \/ UNCHANGED <<slot, consumedCells>>
    BY <1>6 DEF Redraw
  <2> QED  BY <2>1, <2>2, DamageRefresh, DamageUnchanged
<1>7. ASSUME NEW p \in Panes, FireWakeup(p) \/ PumpScan(p) \/ SwitchTab(p) PROVE DamageInv'
  BY <1>7, DamageUnchanged DEF FireWakeup, PumpScan, SwitchTab, ioVars, cacheVars
<1>8. ASSUME PumpClear \/ Invalidate \/ SendCommand \/ SendResize \/ FontChange PROVE DamageInv'
  BY <1>8, DamageUnchanged
  DEF PumpClear, Invalidate, SendCommand, SendResize, FontChange, ioVars, cacheVars
<1>9. ASSUME UNCHANGED vars PROVE DamageInv'
  BY <1>9, DamageUnchanged DEF vars, ioVars, cacheVars
<1> QED
  BY <1>1, <1>3, <1>4, <1>5, <1>6, <1>7, <1>8, <1>9 DEF Next, IoStep, RedrawAny

(* The double buffer keeps its first promise in every behaviour: whatever  *)
(* the panes output, however publications and refreshes interleave and     *)
(* however many snapshots are skipped, a snapshot's damage covers what     *)
(* changed since the one consumed before it.                               *)
THEOREM DamageIsCumulative == Spec => []CumulativeDamage
<1>1. Init => DamageInv
  BY DEF Init, DamageInv, CumulativeDamage, TrackerCoversGrid, NewSlot, HasNew
<1>2. DamageInv => CumulativeDamage
  BY DEF DamageInv
<1> QED  BY <1>1, <1>2, TypeInit, TypeNext, DamageNext, PTL DEF Spec

-----------------------------------------------------------------------------
(* The wakeup.  A thread inside produce_snapshot still has grid_dirty set, *)
(* so that the wakeup after the flip does fire.                            *)

WakeInv ==
    /\ NoLostWakeup
    /\ \A p \in Panes : ioPc[p] # "run" => gridDirty[p]

LEMMA WakeNext == TypeOK /\ WakeInv /\ [Next]_vars => WakeInv'
<1> SUFFICES ASSUME TypeOK, WakeInv, [Next]_vars PROVE WakeInv'
  OBVIOUS
<1>1. ASSUME NEW p \in Panes, HandleBytes(p) \/ ApplyCommand(p) \/ ApplyResize(p) PROVE WakeInv'
  <2>1. UNCHANGED <<slot, ioPc, wakeup, toScan, snapDirty>>
    BY <1>1 DEF HandleBytes, ApplyCommand, ApplyResize, cacheVars
  <2>2. gridDirty' = [gridDirty EXCEPT ![p] = TRUE]
    BY <1>1 DEF HandleBytes, ApplyCommand, ApplyResize
  <2> QED  BY <2>1, <2>2 DEF WakeInv, NoLostWakeup, TypeOK
<1>2. ASSUME NEW p \in Panes, ProduceSnapshot(p) PROVE WakeInv'
  <2>1. /\ UNCHANGED <<wakeup, toScan, snapDirty, gridDirty>>
        /\ ioPc' = [ioPc EXCEPT ![p] = "wake"]
        /\ \A q \in Panes \ {p} : slot'[q] = slot[q]
        /\ ioPc[p] = "start" \/ gridDirty[p]
    BY <1>2 DEF ProduceSnapshot, cacheVars, TypeOK
  <2> QED  BY <2>1 DEF WakeInv, NoLostWakeup, TypeOK
<1>3. ASSUME NEW p \in Panes, FireWakeup(p) PROVE WakeInv'
  <2>1. gridDirty[p]
    BY <1>3 DEF FireWakeup, WakeInv
  <2>2. /\ wakeup' /\ UNCHANGED <<slot, toScan, snapDirty>>
        /\ ioPc' = [ioPc EXCEPT ![p] = "run"]
        /\ gridDirty' = [gridDirty EXCEPT ![p] = FALSE]
    BY <1>3, <2>1 DEF FireWakeup, cacheVars
  <2> QED  BY <2>2 DEF WakeInv, NoLostWakeup, TypeOK
<1>4. ASSUME NEW p \in Panes, PumpScan(p) PROVE WakeInv'
  BY <1>4 DEF PumpScan, WakeInv, NoLostWakeup, TypeOK, ioVars
<1>5. ASSUME PumpClear PROVE WakeInv'
  BY <1>5 DEF PumpClear, WakeInv, NoLostWakeup, TypeOK, ioVars, cacheVars
<1>6. ASSUME NEW p \in Panes, RefreshPaneSnapshot(p),
             UNCHANGED <<ioPc, wakeup, toScan, gridDirty>>
      PROVE  WakeInv'
  <2>1. slot[p] \in Slots /\ slot[p].consumed <= slot[p].seqno /\ cache[p] \in Content
    BY DEF TypeOK
  <2>2. slot'[p] = SwapFront(slot[p], cache[p]) /\ \A q \in Panes \ {p} : slot'[q] = slot[q]
    BY <1>6 DEF RefreshPaneSnapshot, TypeOK
  <2>3. ~HasNew(slot'[p])
    BY <2>1, <2>2, SwapFrontFacts
  <2>4. snapDirty' = snapDirty \ {p}
    BY <1>6 DEF RefreshPaneSnapshot
  <2>5. ASSUME NEW q \in Panes, HasNew(slot'[q])
        PROVE  wakeup' \/ ioPc'[q] = "wake" \/ q \in toScan' \/ q \in snapDirty'
    BY <1>6, <2>2, <2>3, <2>4, <2>5 DEF WakeInv, NoLostWakeup
  <2>6. NoLostWakeup'
    BY <2>5 DEF NoLostWakeup, HasNew
  <2> QED  BY <1>6, <2>6 DEF WakeInv
<1>7. ASSUME UNCHANGED <<slot, ioPc, wakeup, toScan, gridDirty>>, snapDirty \subseteq snapDirty'
      PROVE  WakeInv'
  BY <1>7 DEF WakeInv, NoLostWakeup
<1>8. ASSUME RefreshOutOfBand \/ AutoScroll PROVE WakeInv'
  <2>1. /\ active \in Panes /\ RefreshPaneSnapshot(active)
        /\ UNCHANGED <<ioPc, wakeup, toScan, gridDirty>>
    BY <1>8 DEF RefreshOutOfBand, AutoScroll, ioVars, TypeOK
  <2> QED  BY <1>6, <2>1
<1>9. ASSUME NEW preedit \in BOOLEAN, NEW fp \in BOOLEAN, NEW rows \in SUBSET Rows,
             Redraw(preedit, fp, rows)
      PROVE  WakeInv'
  <2>1. active \in Panes /\ UNCHANGED <<ioPc, wakeup, toScan, gridDirty>>
    BY <1>9 DEF Redraw, ioVars, TypeOK
  <2>2. RefreshPaneSnapshot(active) \/ UNCHANGED <<slot, snapDirty>>
    BY <1>9 DEF Redraw
  <2> QED  BY <1>6, <1>7, <2>1, <2>2
<1>10. ASSUME NEW p \in Panes, SwitchTab(p) PROVE WakeInv'
  BY <1>7, <1>10 DEF SwitchTab, cacheVars
<1>11. ASSUME Invalidate \/ SendCommand \/ SendResize \/ FontChange PROVE WakeInv'
  BY <1>7, <1>11 DEF Invalidate, SendCommand, SendResize, FontChange, ioVars, cacheVars
<1>12. ASSUME UNCHANGED vars PROVE WakeInv'
  BY <1>7, <1>12 DEF vars, ioVars, cacheVars
<1> QED
  BY <1>1, <1>2, <1>3, <1>4, <1>5, <1>8, <1>9, <1>10, <1>11, <1>12 DEF Next, IoStep, RedrawAny

(* The coalesced wakeup loses nothing: clearing the flag before looking at *)
(* the panes, and raising it after the flip, leave no snapshot that nobody *)
(* will ever look at.                                                      *)
THEOREM WakeupIsNeverLost == Spec => []NoLostWakeup
<1>1. Init => WakeInv
  BY DEF Init, WakeInv, NoLostWakeup, NewSlot, HasNew
<1>2. WakeInv => NoLostWakeup
  BY DEF WakeInv
<1> QED  BY <1>1, <1>2, TypeInit, TypeNext, WakeNext, PTL DEF Spec

-----------------------------------------------------------------------------
(* Incremental drawing.  With one pane, and an application that neither    *)
(* sends commands marked dirty in advance nor refreshes outside the        *)
(* redraw, a dirty mark means that there is something new to consume, so   *)
(* the buffer that the swap surfaces is the one just consumed, and its     *)
(* damage is relative to the rows on screen.                               *)

PushOnly == (\E p : Panes = {p}) /\ "command" \notin MainOps /\ "refresh" \notin MainOps

ScreenInv ==
    /\ ScreenFaithful
    /\ FrameNotStale
    /\ \A p \in snapDirty : HasNew(slot[p])
    /\ hasFrame => lastPane = active /\ active \in cached
    /\ ~hasFrame => lastPane = NoPane
    /\ snapCells[active] = consumedCells[active]
    /\ slot[active].consumed = 0 => consumedCells[active] = NoCells

(* Rows replayed from the screen are right when the damage covers the      *)
(* difference between the screen and the new frame.                        *)
LEMMA PreparedRowsFaithful ==
    ASSUME NEW f \in Content, NEW fp \in BOOLEAN, NEW rows \in SUBSET Rows,
           screen = NoCells \/ DamageCovers(f, screen)
    PROVE  PreparedRows(f, fp, rows) = f.cells
<1>1. f.cells \in AnyCells
  BY DEF Content
<1>2. CASE f.cells = NoCells \/ f.all_dirty \/ fp \/ screen = NoCells
  BY <1>2 DEF PreparedRows, CanIncremental
<1>3. CASE ~(f.cells = NoCells \/ f.all_dirty \/ fp \/ screen = NoCells)
  <2>1. f.cells \in [Rows -> Values]
    BY <1>1, <1>3 DEF AnyCells, Cells
  <2>2. \A r \in Rows \ f.damage : f.cells[r] = screen[r]
    BY <1>3 DEF DamageCovers
  <2>3. PreparedRows(f, fp, rows)
          = [r \in Rows |-> IF r \in f.damage \cup rows THEN f.cells[r] ELSE screen[r]]
    BY <1>3 DEF PreparedRows, CanIncremental, IncrementalRows, DirtySet
  <2>4. PreparedRows(f, fp, rows) = [r \in Rows |-> f.cells[r]]
    BY <2>2, <2>3
  <2> QED  BY <2>1, <2>4
<1> QED  BY <1>2, <1>3

LEMMA ScreenRedraw ==
    ASSUME PushOnly, TypeOK, CumulativeDamage, ScreenInv,
           NEW preedit \in BOOLEAN, NEW fp \in BOOLEAN, NEW rows \in SUBSET Rows,
           Redraw(preedit, fp, rows)
    PROVE  ScreenInv'
<1>1. active \in Panes /\ active' = active /\ Panes = {active}
  BY DEF PushOnly, TypeOK, Redraw
<1>2. PICK s \in Slots : s = slot[active] /\ s.consumed <= s.seqno
  BY <1>1 DEF TypeOK
<1>3. hasFrame' /\ lastPane' = active
  BY DEF Redraw
<1>4. cache[active] \in Content /\ s.front \in Content /\ frame \in Content /\ screen \in AnyCells
  BY <1>1, <1>2 DEF TypeOK, Slots
<1>5. CASE ~SnapshotChanged(active)
  <2>1. hasFrame /\ active \in cached
    BY <1>1, <1>5, PipelineAssumption DEF SnapshotChanged, ScreenInv
  <2>2. UNCHANGED <<slot, cached, snapDirty, snapCells, consumedCells>>
    BY <1>5 DEF Redraw
  <2>3. screen = frame.cells /\ frame.cells = consumedCells[active]
    BY <2>1 DEF ScreenInv, ScreenFaithful, FrameNotStale
  <2>4. /\ frame' = IF preedit THEN ExtractedFrame(snapCells'[active]) ELSE frame
        /\ screen' = screen \/ screen' = PreparedRows(frame', fp, rows)
        /\ preedit => screen' = PreparedRows(frame', fp, rows)
    BY <1>5, <2>1 DEF Redraw, ContentChanged, SwapOrExtract, CanReuseContentCache
  <2>5. CASE preedit
    <3>1. frame' = ExtractedFrame(consumedCells[active])
      BY <2>2, <2>4, <2>5 DEF ScreenInv
    <3>2. frame'.all_dirty /\ frame'.cells = consumedCells[active]
      BY <3>1 DEF ExtractedFrame
    <3>3. screen' = frame'.cells
      BY <2>4, <2>5, <3>2 DEF PreparedRows, CanIncremental
    <3> QED  BY <1>1, <1>3, <2>1, <2>2, <3>2, <3>3 DEF ScreenInv, ScreenFaithful, FrameNotStale
  <2>6. CASE ~preedit
    <3>1. frame' = frame
      BY <2>4, <2>6
    <3>2. DamageCovers(frame, screen)
      BY <2>3 DEF DamageCovers
    <3>3. PreparedRows(frame, fp, rows) = frame.cells
      BY <1>4, <3>2, PreparedRowsFaithful
    <3>4. screen' = frame'.cells
      BY <2>3, <2>4, <3>1, <3>3
    <3> QED  BY <1>1, <1>3, <2>1, <2>2, <2>3, <3>1, <3>4 DEF ScreenInv, ScreenFaithful, FrameNotStale
  <2> QED  BY <2>5, <2>6
<1>6. CASE SnapshotChanged(active)
  <2>1. /\ RefreshPaneSnapshot(active)
        /\ screen' = PreparedRows(frame', fp, rows)
        /\ frame' = IF hasFrame THEN SwappedBuffer(slot[active], cache[active])
                     ELSE ExtractedFrame(snapCells'[active])
    BY <1>6 DEF Redraw, ContentChanged, SwapOrExtract, CanReuseContentCache
  <2>2. /\ slot'[active] = SwapFront(s, cache[active])
        /\ active \in cached'
        /\ snapDirty' = {}
        /\ snapCells'[active] = consumedCells'[active]
        /\ HasNew(s) => consumedCells'[active] = s.front.cells
        /\ ~HasNew(s) => consumedCells'[active] = consumedCells[active]
    BY <1>1, <1>2, <2>1 DEF RefreshPaneSnapshot, TypeOK, ScreenInv
  <2>3. slot'[active].consumed = 0 => consumedCells'[active] = NoCells
    <3>1. slot'[active].consumed = s.seqno
      BY <1>2, <1>4, <2>2, SwapFrontFacts
    <3>2. s.seqno \in Nat /\ s.consumed \in Nat
      BY DEF Slots
    <3>3. s.seqno = 0 => ~HasNew(s) /\ s.consumed = 0
      BY <1>2, <3>2 DEF HasNew
    <3> QED  BY <1>2, <2>2, <3>1, <3>3 DEF ScreenInv
  <2>4. frame'.cells = consumedCells'[active] /\ screen' = frame'.cells
    <3>1. CASE ~hasFrame
      <4>1. frame' = ExtractedFrame(consumedCells'[active])
        BY <2>1, <2>2, <3>1
      <4> QED  BY <2>1, <4>1 DEF ExtractedFrame, PreparedRows, CanIncremental
    <3>2. CASE hasFrame
      <4>1. active \in snapDirty /\ HasNew(s)
        BY <1>2, <1>6, <3>2 DEF SnapshotChanged, ScreenInv
      <4>2. frame' = s.front /\ frame'.cells = consumedCells'[active]
        BY <1>2, <2>1, <2>2, <3>2, <4>1 DEF SwappedBuffer
      <4>3. screen = consumedCells[active]
        BY <3>2 DEF ScreenInv, ScreenFaithful, FrameNotStale
      <4>4. screen = NoCells \/ DamageCovers(s.front, screen)
        <5>1. CASE s.consumed = 0
          BY <1>2, <4>3, <5>1 DEF ScreenInv
        <5>2. CASE s.consumed > 0
          BY <1>1, <1>2, <4>1, <4>3, <5>2 DEF CumulativeDamage
        <5>3. s.consumed \in Nat
          BY DEF Slots
        <5> QED  BY <5>1, <5>2, <5>3
      <4>5. PreparedRows(s.front, fp, rows) = s.front.cells
        BY <1>4, <4>4, PreparedRowsFaithful
      <4> QED  BY <2>1, <4>2, <4>5
    <3> QED  BY <3>1, <3>2
  <2> QED
    BY <1>1, <1>3, <2>2, <2>3, <2>4 DEF ScreenInv, ScreenFaithful, FrameNotStale
<1> QED  BY <1>5, <1>6

LEMMA ScreenNext ==
    ASSUME PushOnly, TypeOK, CumulativeDamage, ScreenInv, [Next]_vars
    PROVE  ScreenInv'
<1>0. active \in Panes /\ Panes = {active}
  BY DEF PushOnly, TypeOK
<1>1. ASSUME UNCHANGED <<slot, consumedCells, snapCells, cached, snapDirty, viewVars>>
      PROVE  ScreenInv'
  BY <1>1 DEF ScreenInv, ScreenFaithful, FrameNotStale, viewVars
<1>2. ASSUME NEW p \in Panes,
             HandleBytes(p) \/ ApplyCommand(p) \/ ApplyResize(p) \/ FireWakeup(p)
      PROVE  ScreenInv'
  BY <1>1, <1>2 DEF HandleBytes, ApplyCommand, ApplyResize, FireWakeup, cacheVars
<1>3. ASSUME NEW p \in Panes, ProduceSnapshot(p) PROVE ScreenInv'
  <2>1. /\ p = active
        /\ slot' = [slot EXCEPT ![p] = FlipSwap(slot[p], RenderableContent(p))]
        /\ UNCHANGED <<consumedCells, snapCells, cached, snapDirty, viewVars>>
    BY <1>0, <1>3 DEF ProduceSnapshot, cacheVars
  <2>2. slot[p] \in Slots /\ slot[p].consumed <= slot[p].seqno
    BY DEF TypeOK
  <2>3. RenderableContent(p) \in Content
    BY RenderableContentType
  <2>4. slot'[p] = FlipSwap(slot[p], RenderableContent(p))
    BY <2>1 DEF TypeOK
  <2>5. HasNew(slot'[p]) /\ slot'[p].consumed = slot[p].consumed
    BY <2>2, <2>3, <2>4, FlipSwapFacts
  <2>6. \A q \in snapDirty' : HasNew(slot'[q])
    BY <1>0, <2>1, <2>5 DEF TypeOK
  <2> QED
    BY <2>1, <2>5, <2>6 DEF ScreenInv, ScreenFaithful, FrameNotStale, viewVars, HasNew
<1>4. ASSUME NEW p \in Panes, PumpScan(p) PROVE ScreenInv'
  <2>1. UNCHANGED <<slot, consumedCells, snapCells, cached, viewVars>>
    BY <1>4 DEF PumpScan
  <2>2. snapDirty' = snapDirty \/ (snapDirty' = snapDirty \cup {p} /\ HasNew(slot[p]))
    BY <1>4 DEF PumpScan
  <2>3. \A q \in snapDirty' : HasNew(slot'[q])
    BY <2>1, <2>2 DEF ScreenInv
  <2> QED
    BY <2>1, <2>3 DEF ScreenInv, ScreenFaithful, FrameNotStale, viewVars, HasNew
<1>5. ASSUME NEW p \in Panes, SwitchTab(p) PROVE FALSE
  BY <1>0, <1>5 DEF SwitchTab, PushOnly
<1>6. ASSUME SendCommand \/ RefreshOutOfBand \/ AutoScroll PROVE FALSE
  BY <1>6 DEF SendCommand, RefreshOutOfBand, AutoScroll, PushOnly
<1>7. ASSUME PumpClear \/ Invalidate \/ SendResize PROVE ScreenInv'
  BY <1>1, <1>7 DEF PumpClear, Invalidate, SendResize, cacheVars
<1>8. ASSUME FontChange PROVE ScreenInv'
  <2>1. /\ ~hasFrame' /\ lastPane' = NoPane
        /\ UNCHANGED <<slot, consumedCells, snapCells, cached, snapDirty, active>>
    BY <1>8 DEF FontChange, cacheVars
  <2> QED  BY <2>1 DEF ScreenInv, ScreenFaithful, FrameNotStale
<1>9. ASSUME RedrawAny PROVE ScreenInv'
  BY <1>9, ScreenRedraw DEF RedrawAny
<1>10. ASSUME UNCHANGED vars PROVE ScreenInv'
  BY <1>1, <1>10 DEF vars, cacheVars
<1> QED
  BY <1>2, <1>3, <1>4, <1>5, <1>6, <1>7, <1>8, <1>9, <1>10 DEF Next, IoStep

LEMMA ScreenInit == Init => ScreenInv /\ DamageInv
<1> SUFFICES ASSUME Init PROVE ScreenInv /\ DamageInv
  OBVIOUS
<1>1. /\ snapDirty = {} /\ hasFrame = FALSE /\ lastPane = NoPane /\ active \in Panes
      /\ snapCells[active] = NoCells /\ consumedCells[active] = NoCells
  BY DEF Init
<1>3. ScreenFaithful /\ FrameNotStale
  BY <1>1 DEF ScreenFaithful, FrameNotStale
<1>4. ScreenInv
  BY <1>1, <1>3 DEF ScreenInv
<1>2. DamageInv
  BY DEF Init, DamageInv, CumulativeDamage, TrackerCoversGrid, NewSlot, HasNew
<1> QED  BY <1>4, <1>2

(* Replaying clean rows is invisible: with one pane whose content only the *)
(* IO thread pushes, the rows on screen are those of the frame, and the    *)
(* frame is the newest snapshot consumed.                                  *)
THEOREM IncrementalDrawingFaithful ==
    PushOnly => (Spec => [](ScreenFaithful /\ FrameNotStale))
<1> SUFFICES ASSUME PushOnly PROVE Spec => [](ScreenFaithful /\ FrameNotStale)
  OBVIOUS
<1>1. Init => ScreenInv /\ DamageInv
  BY ScreenInit
<1>2. DamageInv => CumulativeDamage
  BY DEF DamageInv
<1>3. TypeOK /\ CumulativeDamage /\ ScreenInv /\ [Next]_vars => ScreenInv'
  BY ScreenNext
<1>4. ScreenInv => ScreenFaithful /\ FrameNotStale
  BY DEF ScreenInv
<1> QED  BY <1>1, <1>2, <1>3, <1>4, TypeInit, TypeNext, DamageNext, PTL DEF Spec

(* What the tracker marks covers everything the grid has gained over the   *)
(* newest snapshot: no row changes behind the damage list's back.          *)
THEOREM TrackerCovers == Spec => []TrackerCoversGrid
<1>1. Init => DamageInv
  BY DEF Init, DamageInv, CumulativeDamage, TrackerCoversGrid, NewSlot, HasNew
<1>2. DamageInv => TrackerCoversGrid
  BY DEF DamageInv
<1> QED  BY <1>1, <1>2, TypeInit, TypeNext, DamageNext, PTL DEF Spec

-----------------------------------------------------------------------------
(* Refinement: every step of the pipeline is a step of FullRedraw or none. *)

(* The newest snapshot of every pane, as FullRedraw sees it.               *)
Newest == [p \in Panes |-> NewestCells(p)]

LEMMA StutterStep ==
    ASSUME UNCHANGED <<grid, slot, consumedCells, viewVars>>
    PROVE  UNCHANGED Abstract!vars
<1>1. Newest' = Newest
  BY DEF Newest, NewestCells
<1> QED  BY <1>1 DEF Newest, Abstract!vars, viewVars

LEMMA ChangeStep ==
    ASSUME TypeOK, TypeOK', NEW p \in Panes, NEW g \in Cells,
           grid' = [grid EXCEPT ![p] = g],
           UNCHANGED <<slot, consumedCells, viewVars>>
    PROVE  Abstract!Change(p)
<1>1. Newest' = Newest
  BY DEF Newest, NewestCells
<1> QED  BY <1>1 DEF Newest, Abstract!Change, viewVars

(* A flip makes the grid the newest snapshot.                              *)
LEMMA OfferStep ==
    ASSUME TypeOK, NEW p \in Panes, ProduceSnapshot(p)
    PROVE  Abstract!Offer(p)
<1>1. /\ slot' = [slot EXCEPT ![p] = FlipSwap(slot[p], RenderableContent(p))]
      /\ UNCHANGED <<grid, consumedCells, viewVars>>
  BY DEF ProduceSnapshot, cacheVars
<1>2. slot[p] \in Slots /\ slot[p].consumed <= slot[p].seqno
  BY DEF TypeOK
<1>3. RenderableContent(p) \in Content /\ RenderableContent(p).cells = grid[p]
  BY RenderableContentType DEF RenderableContent
<1>4. slot'[p] = FlipSwap(slot[p], RenderableContent(p))
      /\ \A q \in Panes \ {p} : slot'[q] = slot[q]
  BY <1>1 DEF TypeOK
<1>5. HasNew(slot'[p]) /\ slot'[p].front.cells = grid[p]
  <2>1. PICK c \in Content : c = RenderableContent(p) /\ c.cells = grid[p]
    BY <1>3
  <2>2. /\ HasNew(FlipSwap(slot[p], c))
        /\ FlipSwap(slot[p], c).front.cells = c.cells
    BY <1>2, FlipSwapFacts
  <2> QED  BY <1>4, <2>1, <2>2
<1>6. NewestCells(p)' = grid[p]
  BY <1>5 DEF NewestCells, HasNew
<1>7. \A q \in Panes \ {p} : NewestCells(q)' = NewestCells(q)
  BY <1>1, <1>4 DEF NewestCells, HasNew
<1>8. Newest' = [Newest EXCEPT ![p] = grid[p]]
  BY <1>6, <1>7 DEF Newest
<1> QED  BY <1>1, <1>8 DEF Newest, Abstract!Offer, viewVars

(* A redraw consumes the newest snapshot or none, and what it leaves on    *)
(* screen is the whole of what is then consumed.                           *)
LEMMA DrawStep ==
    ASSUME TypeOK, ScreenInv', active \in Panes,
           NEW preedit \in BOOLEAN, NEW fp \in BOOLEAN, NEW rows \in SUBSET Rows,
           Redraw(preedit, fp, rows)
    PROVE  Abstract!Draw(active)
<1>1. hasFrame' /\ lastPane' = active /\ UNCHANGED <<grid, active>>
  BY DEF Redraw, ioVars
<1>2. screen' = consumedCells'[active]
  BY <1>1 DEF ScreenInv, ScreenFaithful, FrameNotStale
<1>3. CASE UNCHANGED <<slot, consumedCells>>
  <2>1. Newest' = Newest
    BY <1>3 DEF Newest, NewestCells
  <2> QED  BY <1>1, <1>2, <1>3, <2>1 DEF Newest, Abstract!Draw
<1>4. CASE RefreshPaneSnapshot(active)
  <2>1. /\ slot' = [slot EXCEPT ![active] = SwapFront(slot[active], cache[active])]
        /\ consumedCells' = [consumedCells EXCEPT ![active] = NewestCells(active)]
    BY <1>4 DEF RefreshPaneSnapshot, NewestCells
  <2>2. slot[active] \in Slots /\ slot[active].consumed <= slot[active].seqno
        /\ cache[active] \in Content
    BY DEF TypeOK
  <2>3. slot'[active] = SwapFront(slot[active], cache[active])
        /\ \A q \in Panes \ {active} : slot'[q] = slot[q]
    BY <2>1 DEF TypeOK
  <2>4. ~HasNew(slot'[active])
    BY <2>2, <2>3, SwapFrontFacts
  <2>5. consumedCells'[active] = NewestCells(active)
        /\ \A q \in Panes \ {active} : consumedCells'[q] = consumedCells[q]
    BY <2>1 DEF TypeOK
  <2>6. \A q \in Panes : NewestCells(q)' = NewestCells(q)
    BY <2>3, <2>4, <2>5 DEF NewestCells, HasNew
  <2>7. Newest' = Newest
    BY <2>6 DEF Newest
  <2>8. consumedCells' = [consumedCells EXCEPT ![active] = Newest[active]]
    BY <2>1 DEF Newest
  <2> QED  BY <1>1, <1>2, <2>7, <2>8 DEF Newest, Abstract!Draw
<1> QED  BY <1>3, <1>4 DEF Redraw

LEMMA RefinementNext ==
    ASSUME PushOnly, TypeOK, TypeOK', ScreenInv', [Next]_vars
    PROVE  [Abstract!Next]_(Abstract!vars)
<1>0. active \in Panes /\ Panes = {active}
  BY DEF PushOnly, TypeOK
<1>1. ASSUME NEW p \in Panes, HandleBytes(p) \/ ApplyCommand(p) \/ ApplyResize(p)
      PROVE  Abstract!Next \/ UNCHANGED Abstract!vars
  <2>1. UNCHANGED <<slot, consumedCells, viewVars>>
    BY <1>1 DEF HandleBytes, ApplyCommand, ApplyResize, cacheVars
  <2>2. grid' = grid \/ \E g \in Cells : grid' = [grid EXCEPT ![p] = g]
    BY <1>1 DEF HandleBytes, ApplyCommand, ApplyResize
  <2> QED  BY <2>1, <2>2, StutterStep, ChangeStep DEF Abstract!Next
<1>2. ASSUME NEW p \in Panes, ProduceSnapshot(p) PROVE Abstract!Next
  BY <1>2, OfferStep DEF Abstract!Next
<1>3. ASSUME NEW p \in Panes, FireWakeup(p) \/ PumpScan(p) PROVE UNCHANGED Abstract!vars
  BY <1>3, StutterStep DEF FireWakeup, PumpScan, ioVars, cacheVars
<1>4. ASSUME PumpClear \/ Invalidate \/ SendResize PROVE UNCHANGED Abstract!vars
  BY <1>4, StutterStep DEF PumpClear, Invalidate, SendResize, ioVars, cacheVars
<1>5. ASSUME NEW p \in Panes, SwitchTab(p) PROVE FALSE
  BY <1>0, <1>5 DEF SwitchTab
<1>6. ASSUME SendCommand \/ RefreshOutOfBand \/ AutoScroll PROVE FALSE
  BY <1>6 DEF SendCommand, RefreshOutOfBand, AutoScroll, PushOnly
<1>7. ASSUME FontChange PROVE Abstract!Next
  <2>1. ~hasFrame' /\ UNCHANGED <<grid, slot, consumedCells>>
    BY <1>7 DEF FontChange, ioVars, cacheVars
  <2>2. Newest' = Newest
    BY <2>1 DEF Newest, NewestCells
  <2>3. hasFrame' = FALSE
    BY <1>7 DEF FontChange
  <2> QED  BY <2>1, <2>2, <2>3 DEF Newest, Abstract!Next, Abstract!Forget
<1>8. ASSUME RedrawAny PROVE Abstract!Next
  <2>1. PICK preedit \in BOOLEAN, fp \in BOOLEAN, rows \in SUBSET Rows :
          Redraw(preedit, fp, rows)
    BY <1>8 DEF RedrawAny
  <2>2. Abstract!Draw(active)
    BY <1>0, <2>1, DrawStep
  <2> QED  BY <1>0, <2>2 DEF Abstract!Next
<1>9. ASSUME UNCHANGED vars PROVE UNCHANGED Abstract!vars
  BY <1>9, StutterStep DEF vars, ioVars, cacheVars
<1> QED
  BY <1>1, <1>2, <1>3, <1>4, <1>5, <1>6, <1>7, <1>8, <1>9 DEF Next, IoStep

(* With one pane whose content only the IO thread pushes, the pipeline     *)
(* implements the redraw of whole snapshots.                               *)
THEOREM Refinement == PushOnly => (Spec => ImplementsFullRedraw)
<1> SUFFICES ASSUME PushOnly PROVE Spec => ImplementsFullRedraw
  OBVIOUS
<1>1. Init => Abstract!Init
  <2> SUFFICES ASSUME Init PROVE Abstract!Init
    OBVIOUS
  <2>1. grid \in [Panes -> Cells]
    BY TypeInit DEF TypeOK
  <2>2. \A p \in Panes : NewestCells(p) = NoCells
    BY DEF Init, NewestCells, HasNew, NewSlot, EmptyContent
  <2>3. Newest = [p \in Panes |-> NoCells]
    BY <2>2 DEF Newest
  <2>4. hasFrame = FALSE /\ consumedCells = [p \in Panes |-> NoCells]
    BY DEF Init
  <2> QED  BY <2>1, <2>3, <2>4 DEF Newest, Abstract!Init
<1>2. Init => ScreenInv /\ DamageInv
  BY ScreenInit
<1>3. DamageInv => CumulativeDamage
  BY DEF DamageInv
<1>4. TypeOK /\ CumulativeDamage /\ ScreenInv /\ [Next]_vars => ScreenInv'
  BY ScreenNext
<1>5. TypeOK /\ TypeOK' /\ ScreenInv' /\ [Next]_vars => [Abstract!Next]_(Abstract!vars)
  BY RefinementNext
<1> QED
  BY <1>1, <1>2, <1>3, <1>4, <1>5, TypeInit, TypeNext, DamageNext, PTL
  DEF Spec, ImplementsFullRedraw, Abstract!Spec
=============================================================================
