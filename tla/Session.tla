------------------------------ MODULE Session ------------------------------
(***************************************************************************)
(* The session of the application in embedded mode: windows hold tabs,     *)
(* tabs hold panes in a split tree and a floating layer, and the mux holds *)
(* the panes themselves (oriterm/src/session, oriterm/src/app/{pane_ops,   *)
(* tab_management,window_management,tab_drag,mux_pump}).                   *)
(*                                                                         *)
(* Every operation runs on the event loop, so it is one step.  What        *)
(* interleaves with them are the exits of shells, reported through the     *)
(* mux's event channel, the mux's own notifications, which wait for the    *)
(* next pump, the events that ask for a tab to get a window of its own,    *)
(* and drags, which hold on to a tab from the press of a button to its     *)
(* release.  A pane, a tab and a window is named by a number that is never *)
(* used again.  Zoom, titles, bells and geometry are left out; focus       *)
(* movement, which depends on geometry, may reach any pane of the tab.     *)
(***************************************************************************)
EXTENDS PaneTree, Windows, FiniteSetsExt

CONSTANTS MaxPanes,             \* panes spawned in a behaviour
          MaxOps,               \* operations of the user in a behaviour
          MaxUndo,              \* MAX_UNDO_ENTRIES (32)
          SplitDirections       \* the directions the user splits in

ASSUME SessionAssumption ==
    /\ {MaxPanes, MaxOps, MaxUndo} \subseteq Nat \ {0}
    /\ SplitDirections \subseteq Directions

VARIABLES session,   \* SessionRegistry: its tabs and windows
          active,    \* App.active_window
          moves,     \* MoveTabToNewWindow events of the event loop
          grabs,     \* WindowContext.tab_drag of the windows
          drag,      \* App.torn_off_pending
          mux,       \* registered panes, Pane objects, notifications
          exits,     \* PaneExited events in the mux's channel
          next,      \* the ids to be given out
          ops,       \* operations of the user so far
          running,   \* the process has not called exit_app
          lost,      \* history: panes no tab shows any more (or ever did)
          stuck,     \* history: panes still in a tab after their PaneClosed
          leaked,    \* history: panes whose PaneClosed was thrown away
          astray,    \* history: closed tabs put into a window, and tabs whose
                     \* window a merge removed
          hollow     \* history: windows left empty by a move

vars == <<session, active, moves, grabs, drag, mux, exits, next, ops, running,
          lost, stuck, leaked, astray, hollow>>

-----------------------------------------------------------------------------
(* Tab *)

NewTab(p) == [tree |-> Leaf(p), floating |-> << >>, active |-> p,
              undo |-> << >>, redo |-> << >>]

AllPanes(tab)  == PaneSet(tab.tree) \cup Range(tab.floating)
PaneCount(tab) == Cardinality(Leaves(tab.tree)) + Len(tab.floating)
IsFloating(tab, p) == p \in Range(tab.floating)

Push(stack, t) ==
    Append(IF Len(stack) >= MaxUndo THEN Tail(stack) ELSE stack, t)

(* set_tree: the old tree goes on the undo stack, the redo stack is        *)
(* emptied.                                                                *)
SetTree(tab, t) ==
    [tab EXCEPT !.undo = Push(@, tab.tree), !.redo = << >>, !.tree = t]

(* The newest entry whose panes are all still in the tab, 0 if there is    *)
(* none; newer entries are dropped on the way.                             *)
LastLive(stack, tab) ==
    Max({0} \cup {k \in 1..Len(stack) :
                    PaneSet(stack[k]) \subseteq AllPanes(tab)})

UndoTree(tab) ==
    LET k == LastLive(tab.undo, tab)
    IN  IF k = 0 THEN [tab EXCEPT !.undo = << >>]
        ELSE [tab EXCEPT !.undo = SubSeq(@, 1, k - 1),
                         !.redo = Push(@, tab.tree),
                         !.tree = tab.undo[k]]

RedoTree(tab) ==
    LET k == LastLive(tab.redo, tab)
    IN  IF k = 0 THEN [tab EXCEPT !.redo = << >>]
        ELSE [tab EXCEPT !.redo = SubSeq(@, 1, k - 1),
                         !.undo = Push(@, tab.tree),
                         !.tree = tab.redo[k]]

(* FloatingLayer: the panes in z-order, the topmost last.                  *)
(* A pane stands in it at most once.                                       *)
Lower(layer, p) ==
    IF p \in Range(layer)
    THEN RemoveAt(layer, CHOOSE i \in 1..Len(layer) : layer[i] = p)
    ELSE layer
Raise(layer, p) == Append(Lower(layer, p), p)

(* The part of remove_pane_from_session that edits the tab: a pane that is *)
(* the whole tree stays.                                                   *)
RemoveFromTab(tab, p) ==
    LET u == IF IsFloating(tab, p) THEN [tab EXCEPT !.floating = Lower(@, p)]
             ELSE IF tab.tree # Leaf(p)
                  THEN [tab EXCEPT !.tree = RemoveLeaf(@, p)]
             ELSE tab
    IN  IF u.active = p THEN [u EXCEPT !.active = FirstPane(u.tree)] ELSE u

-----------------------------------------------------------------------------
(* SessionRegistry *)

PanesShown(s) == UNION {AllPanes(s.tabs[t]) : t \in DOMAIN s.tabs}
IsLastPane(s, p) == \E t \in DOMAIN s.tabs : /\ DOMAIN s.tabs = {t}
                                             /\ PaneCount(s.tabs[t]) = 1
                                             /\ AllPanes(s.tabs[t]) = {p}

(* A tab is unregistered and leaves its window, which goes if it is empty. *)
WithoutSessionTab(s, t) ==
    LET out == WithoutTab(s.windows, t)
    IN  [tabs    |-> Without(s.tabs, t),
         windows |-> [w \in DOMAIN out \ LeftEmpty(s.windows, t) |-> out[w]]]

(* remove_pane_from_session and, where its result asks for it,             *)
(* close_empty_session_window.                                             *)
RemovePaneFromSession(s, p) ==
    LET Owner == {t \in DOMAIN s.tabs : p \in AllPanes(s.tabs[t])}
    IN  IF Owner = {} THEN s
        ELSE LET t == CHOOSE t \in Owner : TRUE
                 u == [s EXCEPT !.tabs[t] = RemoveFromTab(@, p)]
             IN  IF AllPanes(u.tabs[t]) # {} THEN u
                 ELSE WithoutSessionTab(u, t)

-----------------------------------------------------------------------------
(* The mux *)

Spawned(p) == [mux EXCEPT !.registered = @ \cup {p}, !.panes = @ \cup {p}]

(* close_pane: unregister and notify, unless it is gone already.           *)
CloseInMux(m, p) ==
    IF p \in m.registered
    THEN [m EXCEPT !.registered = @ \ {p}, !.closed = Append(@, p)]
    ELSE m

(* close_pane for each of the panes in turn.                               *)
CloseEach(m, ps) ==
    LET after[i \in 0..Len(ps)] == IF i = 0 THEN m
                                   ELSE CloseInMux(after[i - 1], ps[i])
    IN  after[Len(ps)]

(* cleanup_closed_pane for every PaneClosed that waits.                    *)
Cleanup(m) == [m EXCEPT !.panes = @ \ Range(m.closed), !.closed = << >>]

(* poll_events: exits become PaneClosed notifications.                     *)
Poll(m) == CloseEach(m, exits)

(* pump_mux_events applied to the registry s: every notification is        *)
(* handled in turn (handle_pane_closed).                                   *)
RemoveEach(s, ps) ==
    LET after[i \in 0..Len(ps)] == IF i = 0 THEN s
                                   ELSE RemovePaneFromSession(after[i - 1], ps[i])
    IN  after[Len(ps)]

Pumped(s) == RemoveEach(s, Poll(mux).closed)

(* What a pump leaves of the mux, and the histories.                       *)
PumpsTo(s) ==
    /\ mux' = Cleanup(Poll(mux))
    /\ exits' = << >>
    /\ stuck' = stuck \cup (Range(Poll(mux).closed) \cap PanesShown(s))

-----------------------------------------------------------------------------

Init ==
    /\ session = [tabs    |-> [t \in {1} |-> NewTab(1)],
                   windows |-> [w \in {1} |-> AddTab(NewWindow, 1)]]
    /\ active = 1
    /\ moves = << >> /\ grabs = << >> /\ drag = NoDrag
    /\ mux = [registered |-> {1}, panes |-> {1}, closed |-> << >>]
    /\ exits = << >>
    /\ next = [pane |-> 2, tab |-> 2, window |-> 2]
    /\ ops = 0
    /\ running = TRUE
    /\ lost = {} /\ stuck = {} /\ leaked = {}
    /\ astray = {} /\ hollow = {}

ActiveTab == Shown(session.windows[active])
Focused   == session.tabs[ActiveTab]

(* active_pane_context: the active window shows a tab that is registered.  *)
TabFocused == /\ running
              /\ session.windows[active].tabs # << >>
              /\ ActiveTab \in DOMAIN session.tabs

(* The histories, and the names of tabs that are held.                     *)
held == <<moves, grabs, drag>>
past == <<lost, stuck, leaked, astray, hollow>>

ExitApp == /\ running' = FALSE
           /\ UNCHANGED <<session, active, held, mux, exits, next, past>>

(* transfer_focus_from: any window that is left, when the focused one is   *)
(* gone.                                                                   *)
TransferFocus(s) ==
    IF active \in DOMAIN s.windows THEN active' = active
    ELSE \E w \in DOMAIN s.windows : active' = w

(* The drag of a window goes with it.                                      *)
KeepGrabs(g, s) == grabs' = Within(g, DOMAIN s.windows)

(* An edit of the focused tab that touches nothing else; the panes it lets *)
(* go of are recorded.                                                     *)
EditTab(tab) ==
    /\ session' = [session EXCEPT !.tabs[ActiveTab] = tab]
    /\ lost' = lost \cup (AllPanes(Focused) \ AllPanes(tab))
    /\ UNCHANGED <<active, held, mux, exits, next, running, stuck, leaked,
                   astray, hollow>>

(* The same with a pane spawned for it.                                    *)
EditTabWithNew(tab) ==
    /\ next.pane <= MaxPanes
    /\ next' = [next EXCEPT !.pane = @ + 1]
    /\ mux' = Spawned(next.pane)
    /\ session' = [session EXCEPT !.tabs[ActiveTab] = tab]
    /\ lost' = lost \cup ({next.pane} \ AllPanes(tab))
    /\ UNCHANGED <<active, held, exits, running, stuck, leaked, astray, hollow>>

-----------------------------------------------------------------------------
(* Pane operations *)

SplitPane(d) ==
    /\ TabFocused
    /\ EditTabWithNew(SetTree(Focused,
                              SplitAt(Focused.tree, Focused.active, d, next.pane)))

(* focus_pane_direction and cycle_pane start from the focused pane's       *)
(* layout and do nothing when it has none; a click needs none and raises.  *)
FocusPane(p) ==
    /\ TabFocused
    /\ {p, Focused.active} \subseteq AllPanes(Focused)
    /\ EditTab([Focused EXCEPT !.active = p])

ClickPane(p) ==
    /\ TabFocused
    /\ PaneCount(Focused) > 1
    /\ p \in AllPanes(Focused) \ {Focused.active}
    /\ EditTab([Focused EXCEPT !.active = p,
                               !.floating = IF IsFloating(Focused, p)
                                            THEN Raise(@, p) ELSE @])

CloseFocusedPane ==
    /\ TabFocused
    /\ LET p == Focused.active
           s == RemovePaneFromSession(session, p)
       IN  IF IsLastPane(session, p) THEN ExitApp
           ELSE /\ mux' = CloseInMux(mux, p)
                /\ session' = s
                /\ stuck' = stuck \cup ({p} \cap PanesShown(s))
                /\ TransferFocus(s)
                /\ KeepGrabs(grabs, s)
                /\ UNCHANGED <<moves, drag, exits, next, running, lost, leaked,
                               astray, hollow>>

ResizePaneToward(axis, inFirst) ==
    /\ TabFocused
    /\ LET r == TryResizeToward(Focused.tree, Focused.active, axis, inFirst,
                                IF inFirst THEN 1 ELSE -1)
       IN  r[2] /\ EditTab(SetTree(Focused, r[1]))

EqualizePanes ==
    /\ TabFocused
    /\ Equalize(Focused.tree) # Focused.tree
    /\ EditTab(SetTree(Focused, Equalize(Focused.tree)))

(* Every move of the pointer during a divider drag edits the tree.         *)
UpdateDividerDrag(before, after, r) ==
    /\ TabFocused
    /\ LET t == SetDividerRatio(Focused.tree, before, after, r)
       IN  t # Focused.tree /\ EditTab(SetTree(Focused, t))

UndoSplit == TabFocused /\ EditTab(UndoTree(Focused))
RedoSplit == TabFocused /\ EditTab(RedoTree(Focused))

ToggleFloatingPane ==
    /\ TabFocused
    /\ IF Focused.floating = << >>
       THEN EditTabWithNew([Focused EXCEPT !.floating = <<next.pane>>,
                                           !.active = next.pane])
       ELSE EditTab([Focused EXCEPT
                       !.active = IF IsFloating(Focused, @)
                                  THEN FirstPane(Focused.tree)
                                  ELSE Last(Focused.floating)])

ToggleFloatTile ==
    /\ TabFocused
    /\ LET p == Focused.active
           u == [Focused EXCEPT !.floating = Lower(@, p)]
       IN  \/ /\ IsFloating(Focused, p)
              /\ EditTab(SetTree(u, SplitAt(u.tree, FirstPane(u.tree),
                                            "vertical", p)))
           \/ /\ ~IsFloating(Focused, p)
              /\ HasPane(Focused.tree, p) /\ Focused.tree # Leaf(p)
              /\ EditTab([SetTree(Focused, RemoveLeaf(Focused.tree, p))
                            EXCEPT !.floating = Append(@, p)])

-----------------------------------------------------------------------------
(* Tab operations *)

NewTabInWindowSharesPane ==
    /\ TabFocused
    /\ next.tab <= MaxTabs
    /\ next' = [next EXCEPT !.tab = @ + 1]
    /\ session' = [tabs    |-> With(session.tabs, next.tab, NewTab(Focused.active)),
                   windows |-> [session.windows EXCEPT
                                  ![active] = AddTab(@, next.tab)]]
    /\ UNCHANGED <<active, held, mux, exits, running, past>>

NewTabInWindow ==
    /\ running
    /\ next.pane <= MaxPanes /\ next.tab <= MaxTabs
    /\ next' = [next EXCEPT !.pane = @ + 1, !.tab = @ + 1]
    /\ mux' = Spawned(next.pane)
    /\ session' = [tabs    |-> With(session.tabs, next.tab, NewTab(next.pane)),
                   windows |-> [session.windows EXCEPT
                                  ![active] = AddTab(@, next.tab)]]
    /\ UNCHANGED <<active, held, exits, running, past>>

(* close_tab exits without another tab, close_empty_session_window         *)
(* without another window.                                                 *)
LastOfAll(t) ==
    \/ Cardinality(DOMAIN session.tabs) <= 1
    \/ active \in LeftEmpty(session.windows, t) /\ DOMAIN session.windows = {active}

PanesOf(t) == IF t \in DOMAIN session.tabs THEN AllPanes(session.tabs[t]) ELSE {}

CloseTabKeepsPanes(t) ==
    /\ running
    /\ t \in Range(session.windows[active].tabs)
    /\ ~LastOfAll(t)
    /\ session' = WithoutSessionTab(session, t)
    /\ TransferFocus(WithoutSessionTab(session, t))
    /\ KeepGrabs(grabs, WithoutSessionTab(session, t))
    /\ UNCHANGED <<moves, drag, mux, exits, next, running, past>>

(* The panes are closed in some order: no tab shows them any more.         *)
CloseTab(t) ==
    /\ running
    /\ t \in Range(session.windows[active].tabs)
    /\ IF LastOfAll(t) THEN ExitApp
       ELSE LET s == WithoutSessionTab(session, t)
            IN  /\ mux' = CloseEach(mux, SetToSeq(PanesOf(t)))
                /\ session' = s
                /\ TransferFocus(s)
                /\ KeepGrabs(grabs, s)
                /\ UNCHANGED <<moves, drag, exits, next, running, past>>

(* switch_to_tab and cycle_tab.                                            *)
SwitchToTab(i) ==
    /\ running
    /\ i \in 1..Len(session.windows[active].tabs)
    /\ session' = [session EXCEPT !.windows[active].current = i]
    /\ UNCHANGED <<active, held, mux, exits, next, running, past>>

(* A button is pressed on a tab: it is shown, and a drag of it begins.     *)
GrabTab(i) ==
    /\ running
    /\ i \in 1..Len(session.windows[active].tabs)
    /\ session' = [session EXCEPT !.windows[active].current = i]
    /\ grabs' = With(grabs, active, session.windows[active].tabs[i])
    /\ UNCHANGED <<active, moves, drag, mux, exits, next, running, past>>

ReleaseTab ==
    /\ running
    /\ active \in DOMAIN grabs
    /\ grabs' = Without(grabs, active)
    /\ UNCHANGED <<session, active, moves, drag, mux, exits, next, running, past>>

(* Within the bar; a drag that is cancelled moves the tab back.            *)
MoveTab(from, to) ==
    /\ running
    /\ active \in DOMAIN grabs
    /\ {from, to} \subseteq 1..Len(session.windows[active].tabs)
    /\ session' = [session EXCEPT !.windows[active] = ReorderTab(@, from, to)]
    /\ grabs' \in {grabs, Without(grabs, active)}
    /\ UNCHANGED <<active, moves, drag, mux, exits, next, running, past>>

(* By key the tab that is shown, by menu any tab of the bar.               *)
MoveTabToNewWindowDeferred(t) ==
    /\ running
    /\ t \in Range(session.windows[active].tabs)
    /\ moves' = Append(moves, t)
    /\ UNCHANGED <<session, active, grabs, drag, mux, exits, next, running, past>>

(* There is no other tab.                                                  *)
Refused ==
    /\ Cardinality(DOMAIN session.tabs) <= 1
    /\ UNCHANGED <<session, active, mux, exits, next, past>>

(* create_window_bare takes the id back out of the registry.               *)
NotMade ==
    /\ Cardinality(DOMAIN session.tabs) > 1
    /\ next.window <= MaxWindows
    /\ next' = [next EXCEPT !.window = @ + 1]
    /\ UNCHANGED <<session, active, mux, exits, past>>

(* The name of a tab, registered or not, moves to a window made for it;    *)
(* the mux is pumped; and the focused window goes if it is empty, whether  *)
(* or not it is the one that the tab came from.                            *)
MoveOut(t) ==
    /\ Cardinality(DOMAIN session.tabs) > 1
    /\ next.window <= MaxWindows
    /\ next' = [next EXCEPT !.window = @ + 1]
    /\ LET s == Pumped([session EXCEPT !.windows = MovedTo(@, next.window, t)])
           u == [s EXCEPT !.windows = WithoutEmpty(@, active)]
       IN  /\ session' = u
           /\ PumpsTo(s)
           /\ TransferFocus(u)
    /\ astray' = astray \cup ({t} \ DOMAIN session.tabs)
    /\ hollow' = hollow \cup (LeftEmpty(session.windows, t) \ {active})
    /\ UNCHANGED <<lost, leaked>>

MoveTabToNewWindow ==
    /\ running
    /\ moves # << >>
    /\ moves' = Tail(moves)
    /\ Refused \/ NotMade \/ MoveOut(Head(moves))
    /\ KeepGrabs(grabs, session')
    /\ UNCHANGED <<drag, running>>

(* Where the compositor moves the window (Wayland) the application does    *)
(* not follow the drag.                                                    *)
TearOffTab ==
    /\ running
    /\ active \in DOMAIN grabs
    /\ \/ (Refused \/ NotMade) /\ drag' = drag
       \/ /\ MoveOut(grabs[active])
          /\ drag' \in {drag, [window |-> next.window, tab |-> grabs[active]]}
    /\ KeepGrabs(Without(grabs, active), session')
    /\ UNCHANGED <<moves, running>>

(* The whole window is dragged when its bar has one tab (Windows, macOS).  *)
DragSingleTab ==
    /\ running
    /\ active \in DOMAIN grabs
    /\ Len(session.windows[active].tabs) <= 1
    /\ drag' = [window |-> active, tab |-> grabs[active]]
    /\ grabs' = Without(grabs, active)
    /\ UNCHANGED <<session, active, moves, mux, exits, next, running, past>>

(* execute_tab_merge: the dragged tab joins another window at the drop     *)
(* position and is shown there; the window that was dragged is removed     *)
(* with whatever it lists.  A merge under the pointer goes on as a drag in *)
(* the bar (Windows).                                                      *)
ExecuteTabMerge(target, i) ==
    /\ running /\ drag # NoDrag
    /\ drag.window \in DOMAIN session.windows
    /\ target \in DOMAIN session.windows \ {drag.window}
    /\ i \in 1..(Len(session.windows[target].tabs) + 1)
    /\ LET out == WithoutTab(session.windows, drag.tab)
           s == Pumped([session EXCEPT
                          !.windows = [out EXCEPT ![target] = Merged(@, i, drag.tab)]])
           u == [s EXCEPT !.windows = Without(@, drag.window)]
       IN  /\ session' = u
           /\ PumpsTo(s)
           /\ KeepGrabs(grabs, u) \/ KeepGrabs(With(grabs, target, drag.tab), u)
           /\ astray' = astray \cup ({drag.tab} \ DOMAIN session.tabs)
                               \cup (DOMAIN session.tabs \cap Range(out[drag.window].tabs))
    /\ hollow' = hollow \cup (LeftEmpty(session.windows, drag.tab)
                                \ {drag.window, target})
    /\ active' = target
    /\ drag' = NoDrag
    /\ UNCHANGED <<moves, next, running, lost, leaked>>

(* The button is released, or the torn-off window is gone when a target is *)
(* found.                                                                  *)
EndDrag ==
    /\ running /\ drag # NoDrag
    /\ drag' = NoDrag
    /\ UNCHANGED <<session, active, moves, grabs, mux, exits, next, running, past>>

-----------------------------------------------------------------------------
(* Window operations *)

FocusWindow(w) ==
    /\ running
    /\ w \in DOMAIN session.windows
    /\ active' = w
    /\ UNCHANGED <<session, held, mux, exits, next, running, past>>

(* A failed spawn that leaves the window in the registry.                  *)
CreateWindowNotTakenBack(ok) ==
    /\ running
    /\ next.window <= MaxWindows
    /\ ok => next.pane <= MaxPanes /\ next.tab <= MaxTabs
    /\ next' = IF ok THEN [pane |-> next.pane + 1, tab |-> next.tab + 1,
                           window |-> next.window + 1]
               ELSE [next EXCEPT !.window = @ + 1]
    /\ mux' = [(IF ok THEN Spawned(next.pane) ELSE mux) EXCEPT !.closed = << >>]
    /\ leaked' = leaked \cup (Range(mux.closed) \cap mux.panes)
    /\ session' = IF ok
                  THEN [tabs    |-> With(session.tabs, next.tab, NewTab(next.pane)),
                        windows |-> With(session.windows, next.window,
                                         AddTab(NewWindow, next.tab))]
                  ELSE [session EXCEPT !.windows = With(@, next.window, NewWindow)]
    /\ active' = IF ok THEN next.window ELSE active
    /\ UNCHANGED <<held, exits, running, lost, stuck, astray, hollow>>

(* create_window spawns the first tab of the new window and then discards  *)
(* every notification the mux holds; when the spawn fails the window is    *)
(* taken back.                                                             *)
CreateWindow(ok) ==
    /\ running
    /\ next.window <= MaxWindows
    /\ ok => next.pane <= MaxPanes /\ next.tab <= MaxTabs
    /\ next' = IF ok THEN [pane |-> next.pane + 1, tab |-> next.tab + 1,
                           window |-> next.window + 1]
               ELSE [next EXCEPT !.window = @ + 1]
    /\ mux' = [(IF ok THEN Spawned(next.pane) ELSE mux) EXCEPT !.closed = << >>]
    /\ leaked' = leaked \cup (Range(mux.closed) \cap mux.panes)
    /\ session' = IF ok
                  THEN [tabs    |-> With(session.tabs, next.tab, NewTab(next.pane)),
                        windows |-> With(session.windows, next.window,
                                         AddTab(NewWindow, next.tab))]
                  ELSE session
    /\ active' = IF ok THEN next.window ELSE active
    /\ UNCHANGED <<held, exits, running, lost, stuck, astray, hollow>>

(* close_window closes and cleans up the window's panes and drains the     *)
(* notifications that wait (pump_close_notifications).                     *)
CloseWindow(w) ==
    /\ running
    /\ w \in DOMAIN session.windows
    /\ IF Cardinality(DOMAIN session.windows) <= 1 THEN ExitApp
       ELSE LET ts == Range(session.windows[w].tabs) \cap DOMAIN session.tabs
                ps == UNION {AllPanes(session.tabs[t]) : t \in ts}
                s  == [tabs    |-> [t \in DOMAIN session.tabs \ ts
                                      |-> session.tabs[t]],
                       windows |-> Without(session.windows, w)]
                m  == CloseEach(mux, SetToSeq(ps))
            IN  /\ session' = s
                /\ mux' = Cleanup([m EXCEPT !.panes = @ \ ps])
                /\ TransferFocus(s)
                /\ KeepGrabs(grabs, s)
                /\ UNCHANGED <<moves, drag, exits, next, running, past>>

-----------------------------------------------------------------------------
(* The mux's side *)

ChildExits(p) ==
    /\ running
    /\ p \in mux.registered \ Range(exits)
    /\ exits' = Append(exits, p)
    /\ UNCHANGED <<session, active, held, mux, next, running, past>>

PumpMuxEvents ==
    /\ running
    /\ exits # << >> \/ mux.closed # << >>
    /\ session' = Pumped(session)
    /\ PumpsTo(Pumped(session))
    /\ TransferFocus(Pumped(session))
    /\ KeepGrabs(grabs, Pumped(session))
    /\ UNCHANGED <<moves, drag, next, running, lost, leaked, astray, hollow>>

Positions == 1..MaxTabs

UserStep ==
    \/ \E d \in SplitDirections : SplitPane(d)
    \/ \E p \in 1..MaxPanes : FocusPane(p) \/ ClickPane(p)
    \/ CloseFocusedPane
    \/ \E axis \in SplitDirections, f \in BOOLEAN : ResizePaneToward(axis, f)
    \/ EqualizePanes
    \/ \E a, b \in 1..MaxPanes, r \in RatioMin..RatioMax : UpdateDividerDrag(a, b, r)
    \/ UndoSplit
    \/ RedoSplit
    \/ ToggleFloatingPane
    \/ ToggleFloatTile
    \/ NewTabInWindow
    \/ \E t \in 1..MaxTabs : CloseTab(t) \/ MoveTabToNewWindowDeferred(t)
    \/ \E i \in Positions : SwitchToTab(i) \/ GrabTab(i)
    \/ ReleaseTab
    \/ TearOffTab
    \/ DragSingleTab
    \/ \E i, j \in Positions : MoveTab(i, j)
    \/ \E w \in 1..MaxWindows, i \in Positions : ExecuteTabMerge(w, i)
    \/ EndDrag
    \/ \E w \in 1..MaxWindows : FocusWindow(w) \/ CloseWindow(w)
    \/ \E ok \in BOOLEAN : CreateWindow(ok)

MuxStep ==
    \/ \E p \in 1..MaxPanes : ChildExits(p)
    \/ PumpMuxEvents

(* The event loop handles an event that was sent earlier.                  *)
LoopStep == MoveTabToNewWindow

Next ==
    \/ /\ ops < MaxOps
       /\ ops' = ops + 1
       /\ UserStep
    \/ (MuxStep \/ LoopStep) /\ ops' = ops

Spec == Init /\ [][Next]_vars

-----------------------------------------------------------------------------
(* Properties *)

PaneIds   == 1..MaxPanes

(* Types; an undo or redo stack never holds more than MAX_UNDO_ENTRIES     *)
(* trees (set_tree, undo_tree, redo_tree push on both).                    *)
TypeOK ==
    /\ DOMAIN session.tabs \subseteq TabIds
    /\ DOMAIN session.windows \subseteq WindowIds
    /\ \A t \in DOMAIN session.tabs :
         LET tab == session.tabs[t]
         IN  /\ AllPanes(tab) \cup {tab.active} \subseteq PaneIds
             /\ Len(tab.undo) <= MaxUndo /\ Len(tab.redo) <= MaxUndo
    /\ mux.registered \subseteq mux.panes /\ mux.panes \subseteq PaneIds
    /\ Range(mux.closed) \cup Range(exits) \subseteq PaneIds
    /\ drag \in Drags \cup {NoDrag}
    /\ moves \in Seq(TabIds)
    /\ DOMAIN grabs \subseteq DOMAIN session.windows /\ Range(grabs) \subseteq TabIds
    /\ running \in BOOLEAN

(* The operations on tabs and windows are the ones of TabWindows, and what *)
(* happens to the panes (splits, closes, exits, pumps) changes no window.  *)
Registry == INSTANCE TabWindows WITH
    tabs <- DOMAIN session.tabs, windows <- session.windows,
    nextTab <- next.tab, nextWindow <- next.window

ImplementsTabWindows == Registry!Spec

(* Tabs are moved between windows in several steps by new_tab, close_tab,  *)
(* the move to a new window, tear-off and merge, on names taken earlier.   *)
(* Whatever their order, no name is listed twice, the active window        *)
(* exists, and the position of a window that lists something is one of its *)
(* tabs.  The registered tabs are the listed ones but for those that went  *)
(* astray, and no window is empty but the hollow ones.                     *)
TabsPartition == Registry!TabsPartition

(* Reordering, closing, moving out or tearing off other tabs never changes *)
(* which tab a window shows: remove_tab and reorder_tab shift the position *)
(* with the tab.  Only a merge does, into a window that lists the dragged  *)
(* tab already.                                                            *)
ShownTabKept == Registry!ShownTabKept

(* No pane is in two tabs, and no undo or redo entry of a tab could bring  *)
(* a pane of another tab into it.                                          *)
Remembered(tab) ==
    AllPanes(tab) \cup {tab.active}
        \cup UNION {PaneSet(t) : t \in Range(tab.undo) \cup Range(tab.redo)}

NoSharedPane ==
    \A t, u \in DOMAIN session.tabs :
        t # u => Remembered(session.tabs[t]) \cap Remembered(session.tabs[u]) = {}

(* The registry of tabs and the mux agree through closes, exits, pumps,    *)
(* moves and window closes: a registered pane is in a tab unless undo,     *)
(* redo or a split of a pane that is not in the tree let go of it; a pane  *)
(* in a tab is registered unless remove_pane_from_session kept it; and a   *)
(* Pane object outlives its registration only while its PaneClosed waits   *)
(* or was discarded by create_window.                                      *)
SessionMatchesMux ==
    running =>
        /\ mux.registered \subseteq PanesShown(session) \cup lost
        /\ PanesShown(session) \subseteq mux.registered \cup stuck
        /\ mux.panes \subseteq mux.registered \cup Range(mux.closed) \cup leaked

(* A pane whose PaneClosed was handled is in no tab (mux_pump/mod.rs,      *)
(* handle_pane_closed: "removes the pane from the local session          *)
(* (tree/floating). If the tab becomes empty, removes the tab").           *)
ClosedIsGone == stuck = {}
=============================================================================
