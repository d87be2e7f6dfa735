---------------------------- MODULE FramePipeline ----------------------------
(***************************************************************************)
(* From the terminal grid to the rows on screen, in one process (the       *)
(* embedded backend): per pane an IO thread that parses output, tracks the *)
(* rows it dirtied and publishes snapshots; the coalesced wakeup; and the  *)
(* main thread, which polls, refreshes its caches and redraws only what    *)
(* the snapshot says is damaged.                                           *)
(*                                                                         *)
(* The main thread is one thread: its steps are atomic to each other but   *)
(* the IO threads run between any two of them, and between the clearing of *)
(* the wakeup flag and the look at each pane.  A window with one visible   *)
(* pane per tab is modelled; a row is an element of Rows and what it shows *)
(* an element of Values.                                                   *)
(***************************************************************************)
EXTENDS SnapshotDoubleBuffer, FiniteSets

CONSTANTS
    Panes,      \* the panes, one per tab of the window
    Rows,       \* the rows of the viewport
    Values,     \* what a row can show
    NoCell,     \* the row of a RenderableContent::default(), which has none
    NoPane,     \* Option::None of a pane id
    MainOps,    \* what the application does besides pumping and redrawing
    CmdCap,     \* capacity of a pane's command channel
    MaxInputs   \* bound on the inputs of one behaviour

ASSUME PipelineAssumption ==
    /\ NoPane \notin Panes
    /\ NoCell \notin Values
    /\ Rows # {} /\ Panes # {}
    /\ MaxInputs \in Nat /\ CmdCap \in Nat
    /\ MainOps \subseteq {"command", "refresh", "switch", "font", "resize", "preedit"}

VARIABLES
    (* the IO thread of each pane *)
    grid,           \* the visible rows of the pane's Term
    dirty,          \* DirtyTracker: [lines, all]
    gridDirty,      \* PaneIoThread::grid_dirty
    cmdq,           \* commands in the channel
    resizeReq,      \* the pending_resize slot
    ioPc,           \* "start", "run", or "wake" inside produce_snapshot
    slot,           \* the double buffer
    (* the main thread *)
    wakeup,         \* EmbeddedMux::wakeup_pending
    toScan,         \* panes poll_events has still to look at
    windowDirty,    \* WindowRoot dirty flag
    cached,         \* panes with an entry in snapshot_cache and renderable_cache
    cache,          \* renderable_cache
    snapCells,      \* the cells of snapshot_cache
    snapDirty,      \* snapshot_dirty
    active,         \* the pane of the active tab
    lastPane,       \* WindowContext::last_rendered_pane
    hasFrame, frame, \* WindowContext::frame
    screen,         \* the rows of the prepared frame
    budget,         \* inputs left
    (* history: the cells of the snapshot last taken from each slot *)
    consumedCells

ioVars   == <<grid, dirty, gridDirty, cmdq, resizeReq, ioPc>>
viewVars == <<active, lastPane, hasFrame, frame, screen>>
cacheVars == <<cached, cache, snapCells, snapDirty, consumedCells>>
vars == <<ioVars, slot, wakeup, toScan, windowDirty, cacheVars, viewVars, budget>>

Cells     == [Rows -> Values]
NoCells   == [r \in Rows |-> NoCell]
AnyCells  == Cells \cup {NoCells}
Content   == [cells : AnyCells, damage : SUBSET Rows, all_dirty : BOOLEAN]
EmptyContent == [cells |-> NoCells, damage |-> {}, all_dirty |-> FALSE]
CleanTracker == [lines |-> {}, all |-> FALSE]

-----------------------------------------------------------------------------
(* The IO thread.                                                          *)

(* A range that excludes its last line.                                    *)
MarkRangeExclusive(d, rows) ==
    IF rows = Rows THEN [d EXCEPT !.all = TRUE]
                   ELSE [d EXCEPT !.lines = @ \cup (rows \ {CHOOSE r \in rows : TRUE})]

MarkRange(d, rows) ==
    IF rows = Rows THEN [d EXCEPT !.all = TRUE]
                   ELSE [d EXCEPT !.lines = @ \cup rows]

MarkAll(d) == [d EXCEPT !.all = TRUE]

(* collect_damage reports "everything" both for the tracker's flag and     *)
(* when every line happens to be marked; the list is then empty.           *)
CollectDamage(d) ==
    LET everything == d.all \/ d.lines = Rows
    IN  [damage |-> IF everything THEN {} ELSE d.lines, all_dirty |-> everything]

RenderableContent(p) ==
    [cells |-> grid[p],
     damage |-> CollectDamage(dirty[p]).damage,
     all_dirty |-> CollectDamage(dirty[p]).all_dirty]

(* Parsing marks the rows it changes, and only those.                      *)
HandleBytes(p) ==
    /\ ioPc[p] = "run" /\ budget > 0
    /\ \E rows \in SUBSET Rows \ {{}}, g \in Cells :
          /\ \A r \in Rows \ rows : g[r] = grid[p][r]
          /\ grid' = [grid EXCEPT ![p] = g]
          /\ dirty' = [dirty EXCEPT ![p] = MarkRange(@, rows)]
    /\ gridDirty' = [gridDirty EXCEPT ![p] = TRUE]
    /\ budget' = budget - 1
    /\ UNCHANGED <<cmdq, resizeReq, ioPc, slot, wakeup, toScan, windowDirty,
                   cacheVars, viewVars>>

(* A command that changes the view (ScrollDisplay): new rows everywhere    *)
(* and mark_all, or a clamped scroll that changes nothing.  grid_dirty is  *)
(* set either way.                                                         *)
ApplyCommand(p) ==
    /\ ioPc[p] = "run" /\ cmdq[p] > 0
    /\ cmdq' = [cmdq EXCEPT ![p] = @ - 1]
    /\ gridDirty' = [gridDirty EXCEPT ![p] = TRUE]
    /\ \/ \E g \in Cells :
             /\ grid' = [grid EXCEPT ![p] = g]
             /\ dirty' = [dirty EXCEPT ![p] = MarkAll(@)]
       \/ UNCHANGED <<grid, dirty>>
    /\ UNCHANGED <<resizeReq, ioPc, slot, wakeup, toScan, windowDirty,
                   cacheVars, viewVars, budget>>

(* process_resize sets grid_dirty even when Term::resize returns early     *)
(* because the dimensions are the same, and then no row is marked.         *)
ApplyResize(p) ==
    /\ ioPc[p] = "run" /\ resizeReq[p] # "none"
    /\ resizeReq' = [resizeReq EXCEPT ![p] = "none"]
    /\ gridDirty' = [gridDirty EXCEPT ![p] = TRUE]
    /\ \/ /\ resizeReq[p] = "same"
          /\ UNCHANGED <<grid, dirty>>
       \/ /\ resizeReq[p] = "new"
          /\ \E g \in Cells : grid' = [grid EXCEPT ![p] = g]
          /\ dirty' = [dirty EXCEPT ![p] = MarkAll(@)]
    /\ UNCHANGED <<cmdq, ioPc, slot, wakeup, toScan, windowDirty, cacheVars,
                   viewVars, budget>>

(* produce_snapshot up to the flip: the content is taken, the tracker is   *)
(* reset, the content becomes the front.  The first one precedes the loop. *)
ProduceSnapshot(p) ==
    /\ \/ ioPc[p] = "start"
       \/ ioPc[p] = "run" /\ gridDirty[p]
    /\ slot' = [slot EXCEPT ![p] = FlipSwap(@, RenderableContent(p))]
    /\ dirty' = [dirty EXCEPT ![p] = CleanTracker]
    /\ ioPc' = [ioPc EXCEPT ![p] = "wake"]
    /\ UNCHANGED <<grid, gridDirty, cmdq, resizeReq, wakeup, toScan, windowDirty,
                   cacheVars, viewVars, budget>>

(* ... and after it: grid_dirty.swap(false), and the wakeup if it was set. *)
FireWakeup(p) ==
    /\ ioPc[p] = "wake"
    /\ gridDirty' = [gridDirty EXCEPT ![p] = FALSE]
    /\ wakeup' = (wakeup \/ gridDirty[p])
    /\ ioPc' = [ioPc EXCEPT ![p] = "run"]
    /\ UNCHANGED <<grid, dirty, cmdq, resizeReq, slot, toScan, windowDirty,
                   cacheVars, viewVars, budget>>

-----------------------------------------------------------------------------
(* The main thread: the pump.                                              *)

MainIdle == toScan = {}

(* The gate, then the first statement of poll_events: the flag is cleared  *)
(* before any pane is looked at.                                           *)
PumpClear ==
    /\ MainIdle /\ wakeup
    /\ wakeup' = FALSE
    /\ toScan' = Panes
    /\ UNCHANGED <<ioVars, slot, windowDirty, cacheVars, viewVars, budget>>

(* Three ways to get the next step wrong: clearing the flag once more      *)
(* after the scan, trusting the wakeup instead of looking at the pane, and *)
(* marking the pane without the notification that marks its window.        *)
PumpScanClearsLate(p) ==
    /\ p \in toScan
    /\ toScan' = toScan \ {p}
    /\ wakeup' = FALSE
    /\ snapDirty' = IF HasNew(slot[p]) THEN snapDirty \cup {p} ELSE snapDirty
    /\ windowDirty' = (windowDirty \/ HasNew(slot[p]))
    /\ UNCHANGED <<ioVars, slot, cached, cache, snapCells, consumedCells,
                   viewVars, budget>>

PumpScanMarksAll(p) ==
    /\ p \in toScan
    /\ toScan' = toScan \ {p}
    /\ snapDirty' = snapDirty \cup {p}
    /\ windowDirty' = TRUE
    /\ UNCHANGED <<ioVars, slot, wakeup, cached, cache, snapCells, consumedCells,
                   viewVars, budget>>

PumpScanSilent(p) ==
    /\ p \in toScan
    /\ toScan' = toScan \ {p}
    /\ snapDirty' = IF HasNew(slot[p]) THEN snapDirty \cup {p} ELSE snapDirty
    /\ UNCHANGED <<ioVars, slot, wakeup, windowDirty, cached, cache, snapCells,
                   consumedCells, viewVars, budget>>

(* A pane with a new snapshot becomes dirty, and its PaneOutput            *)
(* notification marks the window.                                          *)
PumpScan(p) ==
    /\ p \in toScan
    /\ toScan' = toScan \ {p}
    /\ \/ /\ HasNew(slot[p])
          /\ snapDirty' = snapDirty \cup {p}
          /\ windowDirty' = TRUE
       \/ /\ ~HasNew(slot[p])
          /\ UNCHANGED <<snapDirty, windowDirty>>
    /\ UNCHANGED <<ioVars, slot, wakeup, cached, cache, snapCells, consumedCells,
                   viewVars, budget>>

-----------------------------------------------------------------------------
(* The main thread: caches, redraw, and what the application asks for.     *)

(* refresh_pane_snapshot: both cache entries come to exist, the front is   *)
(* swapped into the render buffer and converted when there is a new one,   *)
(* and the dirty mark goes either way.                                     *)
RefreshPaneSnapshot(p) ==
    /\ slot' = [slot EXCEPT ![p] = SwapFront(@, cache[p])]
    /\ cached' = cached \cup {p}
    /\ snapDirty' = snapDirty \ {p}
    /\ snapCells' = [snapCells EXCEPT ![p] = IF HasNew(slot[p]) THEN slot[p].front.cells ELSE @]
    /\ consumedCells' = [consumedCells EXCEPT ![p] = IF HasNew(slot[p]) THEN slot[p].front.cells ELSE @]

(* A refresh outside the redraw (a press or a drag of the mouse, mark mode,*)
(* select all): only when the pane is dirty or has no snapshot yet.  Most  *)
(* of these mark the window afterwards; a press that selects nothing does  *)
(* not.                                                                    *)
RefreshOutOfBand ==
    /\ MainIdle /\ "refresh" \in MainOps /\ budget > 0
    /\ active \notin cached \/ active \in snapDirty
    /\ RefreshPaneSnapshot(active)
    /\ cache' = [cache EXCEPT ![active] = SwappedBuffer(slot[active], @)]
    /\ windowDirty' \in {windowDirty, TRUE}
    /\ budget' = budget - 1
    /\ UNCHANGED <<ioVars, wakeup, toScan, viewVars>>

(* A drag beyond the edge: scroll_display marks the pane dirty, and the    *)
(* refresh right after it, without a look at the mark, takes it off again. *)
AutoScroll ==
    /\ MainIdle /\ "refresh" \in MainOps /\ budget > 0
    /\ cmdq' = [cmdq EXCEPT ![active] = IF @ < CmdCap THEN @ + 1 ELSE @]
    /\ RefreshPaneSnapshot(active)
    /\ cache' = [cache EXCEPT ![active] = SwappedBuffer(slot[active], @)]
    /\ windowDirty' = TRUE
    /\ budget' = budget - 1
    /\ UNCHANGED <<grid, dirty, gridDirty, resizeReq, ioPc, wakeup, toScan, viewVars>>

(* compute_redraw_predicates: what gates the refresh and the swap, and the *)
(* wider condition that gates the extraction.                              *)
SnapshotChanged(p) == p \notin cached \/ p \in snapDirty \/ lastPane # p
ContentChanged(p, preedit) == SnapshotChanged(p) \/ preedit

(* extract_frame_from_snapshot: the converted snapshot, everything dirty.  *)
ExtractedFrame(cells) == [cells |-> cells, damage |-> {}, all_dirty |-> TRUE]

(* try_swap_or_extract_pane_content: swap, extract or keep the frame.      *)
SwapOrExtract(swapGate, reextractGate, buffer, cells) ==
    IF swapGate /\ hasFrame THEN buffer
    ELSE IF reextractGate THEN ExtractedFrame(cells)
    ELSE frame

(* A renderer that trusts the damage list alone.                           *)
CanIncrementalIgnoresAll(f, fingerprintChanged) ==
    ~fingerprintChanged /\ screen # NoCells

(* can_incremental: the content does not ask for everything, the frame     *)
(* parameters (the dispatch fingerprint, of which the number of rows is    *)
(* part) are those of the frame before, and that frame left rows.          *)
CanIncremental(f, fingerprintChanged) ==
    ~f.all_dirty /\ ~fingerprintChanged /\ screen # NoCells

(* build_dirty_set: the damaged rows and those of cursor, hover and        *)
(* selection.                                                              *)
DirtySet(f, stateRows) == f.damage \cup stateRows

(* fill_frame_incremental: a dirty row is regenerated, every other row is  *)
(* replayed from the frame before.                                         *)
IncrementalRows(f, stateRows) ==
    [r \in Rows |-> IF r \in DirtySet(f, stateRows) THEN f.cells[r] ELSE screen[r]]

(* prepare_frame_shaped_into.                                              *)
PreparedRows(f, fingerprintChanged, stateRows) ==
    IF f.cells = NoCells THEN NoCells
    ELSE IF CanIncremental(f, fingerprintChanged) THEN IncrementalRows(f, stateRows)
    ELSE f.cells

(* prepare: a frame on which nothing but the cursor's blink changed keeps  *)
(* the prepared rows.                                                      *)
CanReuseContentCache(contentChanged, fingerprintChanged, stateRows) ==
    ~contentChanged /\ ~fingerprintChanged /\ stateRows = {} /\ hasFrame

(* handle_redraw for the active pane.  swap_renderable_content exchanges   *)
(* the frame with the cache entry whatever the refresh found.              *)
Redraw(preedit, fingerprintChanged, stateRows) ==
    LET p == active
        changed == SnapshotChanged(p)
        content == ContentChanged(p, preedit)
        refreshed == IF changed THEN SwappedBuffer(slot[p], cache[p]) ELSE cache[p]
    IN  /\ MainIdle /\ windowDirty
        /\ windowDirty' = FALSE
        /\ \/ changed /\ RefreshPaneSnapshot(p)
           \/ ~changed /\ UNCHANGED <<slot, cached, snapDirty, snapCells, consumedCells>>
        /\ cache' = [cache EXCEPT ![p] = IF changed /\ hasFrame THEN frame ELSE refreshed]
        /\ frame' = SwapOrExtract(changed, content \/ ~hasFrame, refreshed, snapCells'[p])
        /\ hasFrame' = TRUE
        /\ lastPane' = p
        /\ screen' = IF CanReuseContentCache(content, fingerprintChanged, stateRows) THEN screen
                     ELSE PreparedRows(frame', fingerprintChanged, stateRows)
        /\ UNCHANGED <<ioVars, wakeup, toScan, active, budget>>

(* Timers and the window system mark a window dirty at any time.           *)
Invalidate ==
    /\ MainIdle /\ ~windowDirty
    /\ windowDirty' = TRUE
    /\ UNCHANGED <<ioVars, slot, wakeup, toScan, cacheVars, viewVars, budget>>

(* scroll_display and the other visible commands: sent with try_send (a    *)
(* full channel drops the command) and marked dirty at once, before the IO *)
(* thread has seen them.                                                   *)
SendCommand ==
    /\ MainIdle /\ "command" \in MainOps /\ budget > 0
    /\ cmdq' = [cmdq EXCEPT ![active] = IF @ < CmdCap THEN @ + 1 ELSE @]
    /\ snapDirty' = snapDirty \cup {active}
    /\ windowDirty' = TRUE
    /\ budget' = budget - 1
    /\ UNCHANGED <<grid, dirty, gridDirty, resizeReq, ioPc, slot, wakeup, toScan,
                   cached, cache, snapCells, consumedCells, viewVars>>

(* A resize of the window: last writer wins in the slot, nothing is marked *)
(* dirty on this side.                                                     *)
SendResize ==
    /\ MainIdle /\ "resize" \in MainOps /\ budget > 0
    /\ resizeReq' = [resizeReq EXCEPT ![active] = "new"]
    /\ budget' = budget - 1
    /\ UNCHANGED <<grid, dirty, gridDirty, cmdq, ioPc, slot, wakeup, toScan,
                   windowDirty, cacheVars, viewVars>>

(* switch_to_tab also resizes the pane it shows, to the size it has unless *)
(* a resize is still to be applied: the slot keeps the last size, which is *)
(* the window's in both cases.                                             *)
SwitchTab(p) ==
    /\ MainIdle /\ "switch" \in MainOps /\ budget > 0 /\ p # active
    /\ active' = p
    /\ windowDirty' = TRUE
    /\ resizeReq' = [resizeReq EXCEPT ![p] = IF @ = "none" THEN "same" ELSE @]
    /\ budget' = budget - 1
    /\ UNCHANGED <<grid, dirty, gridDirty, cmdq, ioPc, slot, wakeup, toScan,
                   cacheVars, lastPane, hasFrame, frame, screen>>

(* invalidate_font_caches.                                                 *)
FontChange ==
    /\ MainIdle /\ "font" \in MainOps /\ budget > 0
    /\ lastPane' = NoPane
    /\ hasFrame' = FALSE
    /\ windowDirty' = TRUE
    /\ budget' = budget - 1
    /\ UNCHANGED <<ioVars, slot, wakeup, toScan, cacheVars, active, frame, screen>>

-----------------------------------------------------------------------------

(* A fresh grid shows the same blank in every row.                         *)
Init ==
    /\ \E blank \in Values : grid = [p \in Panes |-> [r \in Rows |-> blank]]
    /\ dirty = [p \in Panes |-> CleanTracker]
    /\ gridDirty = [p \in Panes |-> TRUE]
    /\ cmdq = [p \in Panes |-> 0]
    /\ resizeReq = [p \in Panes |-> "none"]
    /\ ioPc = [p \in Panes |-> "start"]
    /\ slot = [p \in Panes |-> NewSlot(EmptyContent)]
    /\ wakeup = FALSE
    /\ toScan = {}
    /\ windowDirty = TRUE
    /\ cached = {}
    /\ cache = [p \in Panes |-> EmptyContent]
    /\ snapCells = [p \in Panes |-> NoCells]
    /\ snapDirty = {}
    /\ active \in Panes
    /\ lastPane = NoPane
    /\ hasFrame = FALSE
    /\ frame = EmptyContent
    /\ screen = NoCells
    /\ budget = MaxInputs
    /\ consumedCells = [p \in Panes |-> NoCells]

IoStep(p) ==
    \/ HandleBytes(p) \/ ApplyCommand(p) \/ ApplyResize(p)
    \/ ProduceSnapshot(p) \/ FireWakeup(p)

RedrawAny ==
    \E preedit \in BOOLEAN, fp \in BOOLEAN, rows \in SUBSET Rows :
        /\ preedit => "preedit" \in MainOps
        /\ Redraw(preedit, fp, rows)

Next ==
    \/ \E p \in Panes : IoStep(p) \/ PumpScan(p) \/ SwitchTab(p)
    \/ PumpClear \/ RedrawAny \/ Invalidate \/ RefreshOutOfBand \/ AutoScroll
    \/ SendCommand \/ SendResize \/ FontChange

(* Each IO thread runs its loop, and the event loop keeps turning: a set   *)
(* wakeup flag is pumped (the event it posted wakes the loop) and a dirty  *)
(* window is drawn once its frame budget has elapsed.  No input is fair.   *)
Fairness ==
    /\ \A p \in Panes :
          /\ WF_vars(ApplyCommand(p) \/ ApplyResize(p) \/ ProduceSnapshot(p) \/ FireWakeup(p))
          /\ WF_vars(PumpScan(p))
    /\ WF_vars(PumpClear)
    /\ WF_vars(RedrawAny)

Spec     == Init /\ [][Next]_vars
FairSpec == Spec /\ Fairness

-----------------------------------------------------------------------------
(* Properties.                                                             *)

Slots == [front : Content, seqno : Nat, consumed : Nat]

(* Every variable has the type of the field it stands for; in particular   *)
(* the command channel never exceeds its capacity and the consumer's       *)
(* sequence number never passes the producer's.                            *)
TypeOK ==
    /\ grid \in [Panes -> Cells]
    /\ dirty \in [Panes -> [lines : SUBSET Rows, all : BOOLEAN]]
    /\ gridDirty \in [Panes -> BOOLEAN]
    /\ cmdq \in [Panes -> 0..CmdCap]
    /\ resizeReq \in [Panes -> {"none", "same", "new"}]
    /\ ioPc \in [Panes -> {"start", "run", "wake"}]
    /\ slot \in [Panes -> Slots]
    /\ \A p \in Panes : slot[p].consumed <= slot[p].seqno
    /\ wakeup \in BOOLEAN /\ windowDirty \in BOOLEAN /\ hasFrame \in BOOLEAN
    /\ toScan \subseteq Panes /\ cached \subseteq Panes /\ snapDirty \subseteq Panes
    /\ cache \in [Panes -> Content] /\ frame \in Content
    /\ snapCells \in [Panes -> AnyCells] /\ consumedCells \in [Panes -> AnyCells]
    /\ screen \in AnyCells
    /\ active \in Panes /\ lastPane \in Panes \cup {NoPane}
    /\ budget \in 0..MaxInputs

(* Rows outside the damage of a content are what they were in base.        *)
DamageCovers(content, base) ==
    content.all_dirty \/ \A r \in Rows \ content.damage : content.cells[r] = base[r]

(* The double buffer's first promise: the damage of a snapshot waiting to  *)
(* be consumed covers everything that changed since the snapshot consumed  *)
(* before it, however many were skipped in between.                        *)
CumulativeDamage ==
    \A p \in Panes : HasNew(slot[p]) /\ slot[p].consumed > 0 =>
        DamageCovers(slot[p].front, consumedCells[p])

(* What makes it inductive: the tracker covers what the grid has gained    *)
(* over the newest snapshot, which is the front until it is consumed.      *)
NewestCells(p) == IF HasNew(slot[p]) THEN slot[p].front.cells ELSE consumedCells[p]

TrackerCoversGrid ==
    \A p \in Panes : slot[p].seqno > 0 =>
        \/ dirty[p].all
        \/ \A r \in Rows \ dirty[p].lines : grid[p][r] = NewestCells(p)[r]

(* Incremental drawing is invisible: after every redraw the rows on screen *)
(* are the rows of the frame, although most of them were replayed from the *)
(* frame before.                                                           *)
ScreenFaithful == hasFrame => screen = frame.cells

(* A redraw never goes back: the frame holds the newest snapshot that was  *)
(* taken from the pane it shows, never an older one that a buffer still    *)
(* held, nor another pane's (the promise of the swap gate).                *)
FrameNotStale == hasFrame => frame.cells = consumedCells[lastPane]

(* Nothing published is forgotten: when the inputs stop, the screen ends   *)
(* up showing the grid of the active pane and stays so.                    *)
ScreenSettles == <>[](hasFrame /\ screen = grid[active])

(* A wakeup is never lost: a snapshot nobody has looked at implies that    *)
(* the flag is up, that its producer is about to raise it, or that the     *)
(* pump is running and has not looked at that pane yet.                    *)
NoLostWakeup ==
    \A p \in Panes : HasNew(slot[p]) =>
        wakeup \/ ioPc[p] = "wake" \/ p \in toScan \/ p \in snapDirty

(* The pipeline implements the redraw of whole snapshots (FullRedraw): the *)
(* newest snapshot of a pane is its front or, once consumed, what was last *)
(* taken from the slot, and the picture is what is on screen while there   *)
(* is a frame.  Damage, buffer swaps, replayed rows and the wakeup are all *)
(* invisible at that level.                                                *)
Abstract == INSTANCE FullRedraw WITH
    Contents <- Cells,
    Blank    <- NoCells,
    content  <- grid,
    offered  <- [p \in Panes |-> NewestCells(p)],
    taken    <- consumedCells,
    drawn    <- hasFrame,
    of       <- IF hasFrame THEN lastPane ELSE NoPane,
    picture  <- IF hasFrame THEN screen ELSE NoCells

ImplementsFullRedraw == Abstract!Spec
=============================================================================
