---------------------------- MODULE TabWindows -----------------------------
(***************************************************************************)
(* What the application promises about its windows: which tabs there are,  *)
(* in which window and in which order, and which of them is shown.  The    *)
(* panes in the tabs, the mux and its events are in Session, which         *)
(* implements this specification: a pump, a shell that exits, and an edit  *)
(* of a tab's panes leave every window as it is.                           *)
(*                                                                         *)
(* A tab is named some time before it is moved: by the event that asks for *)
(* a window of its own, by the drag that the press of a button starts, and *)
(* by the drag of a torn-off window.  Nothing looks at the name again.     *)
(***************************************************************************)
EXTENDS Windows, FiniteSets

VARIABLES tabs,                 \* the registered tabs
          windows,              \* the registered windows
          active,               \* App.active_window
          moves,                \* MoveTabToNewWindow events of the event loop
          grabs,                \* WindowContext.tab_drag of the windows
          drag,                 \* App.torn_off_pending
          nextTab, nextWindow,  \* the ids to be given out
          astray,               \* history: closed tabs put into a window, and
                                \* tabs whose window a merge removed
          hollow                \* history: windows left empty by a move

vars == <<tabs, windows, active, moves, grabs, drag, nextTab, nextWindow,
          astray, hollow>>

Init ==
    /\ tabs = {1} /\ windows = [w \in {1} |-> AddTab(NewWindow, 1)]
    /\ active = 1
    /\ moves = << >> /\ grabs = << >> /\ drag = NoDrag
    /\ nextTab = 2 /\ nextWindow = 2
    /\ astray = {} /\ hollow = {}

(* transfer_focus_from: any window that is left, when the focused one is   *)
(* gone.                                                                   *)
TransferFocus ==
    IF active \in DOMAIN windows' THEN active' = active
    ELSE active' \in DOMAIN windows'

(* The drag of a window goes with it.                                      *)
KeepGrabs(g) == grabs' = Within(g, DOMAIN windows')

NewTabInWindow ==
    /\ nextTab <= MaxTabs
    /\ nextTab' = nextTab + 1
    /\ tabs' = tabs \cup {nextTab}
    /\ windows' = [windows EXCEPT ![active] = AddTab(@, nextTab)]
    /\ UNCHANGED <<active, moves, grabs, drag, nextWindow, astray, hollow>>

(* The last tab, and the last tab of the only window, are not closed: the  *)
(* application exits.                                                      *)
CloseTab(t) ==
    /\ t \in Range(windows[active].tabs)
    /\ Cardinality(tabs) > 1
    /\ active \in LeftEmpty(windows, t) => DOMAIN windows # {active}
    /\ tabs' = tabs \ {t}
    /\ windows' = WithoutEmpty(WithoutTab(windows, t), active)
    /\ TransferFocus
    /\ KeepGrabs(grabs)
    /\ UNCHANGED <<moves, drag, nextTab, nextWindow, astray, hollow>>

SwitchToTab(i) ==
    /\ i \in 1..Len(windows[active].tabs)
    /\ windows' = [windows EXCEPT ![active].current = i]
    /\ UNCHANGED <<tabs, active, moves, grabs, drag, nextTab, nextWindow,
                   astray, hollow>>

(* A button is pressed on a tab: it is shown, and a drag of it begins.     *)
GrabTab(i) ==
    /\ i \in 1..Len(windows[active].tabs)
    /\ windows' = [windows EXCEPT ![active].current = i]
    /\ grabs' = With(grabs, active, windows[active].tabs[i])
    /\ UNCHANGED <<tabs, active, moves, drag, nextTab, nextWindow, astray, hollow>>

ReleaseTab ==
    /\ active \in DOMAIN grabs
    /\ grabs' = Without(grabs, active)
    /\ UNCHANGED <<tabs, windows, active, moves, drag, nextTab, nextWindow,
                   astray, hollow>>

(* Within the bar; a drag that is cancelled moves the tab back.            *)
MoveTab(from, to) ==
    /\ active \in DOMAIN grabs
    /\ {from, to} \subseteq 1..Len(windows[active].tabs)
    /\ windows' = [windows EXCEPT ![active] = ReorderTab(@, from, to)]
    /\ grabs' \in {grabs, Without(grabs, active)}
    /\ UNCHANGED <<tabs, active, moves, drag, nextTab, nextWindow, astray, hollow>>

MoveTabToNewWindowDeferred(t) ==
    /\ t \in Range(windows[active].tabs)
    /\ moves' = Append(moves, t)
    /\ UNCHANGED <<tabs, windows, active, grabs, drag, nextTab, nextWindow,
                   astray, hollow>>

Refused ==
    /\ Cardinality(tabs) <= 1
    /\ UNCHANGED <<tabs, windows, active, nextTab, nextWindow, astray, hollow>>

(* create_window_bare takes the id back out of the registry.               *)
NotMade ==
    /\ Cardinality(tabs) > 1
    /\ nextWindow <= MaxWindows
    /\ nextWindow' = nextWindow + 1
    /\ UNCHANGED <<tabs, windows, active, nextTab, astray, hollow>>

(* The name of a tab, registered or not, moves to a window made for it.    *)
(* The focused window goes if it is empty, no other one does.              *)
MoveOut(t) ==
    /\ Cardinality(tabs) > 1
    /\ nextWindow <= MaxWindows
    /\ nextWindow' = nextWindow + 1
    /\ windows' = WithoutEmpty(MovedTo(windows, nextWindow, t), active)
    /\ TransferFocus
    /\ astray' = astray \cup ({t} \ tabs)
    /\ hollow' = hollow \cup (LeftEmpty(windows, t) \ {active})
    /\ UNCHANGED <<tabs, nextTab>>

MoveTabToNewWindow ==
    /\ moves # << >>
    /\ moves' = Tail(moves)
    /\ Refused \/ NotMade \/ MoveOut(Head(moves))
    /\ KeepGrabs(grabs)
    /\ UNCHANGED drag

TearOffTab ==
    /\ active \in DOMAIN grabs
    /\ \/ (Refused \/ NotMade) /\ drag' = drag
       \/ /\ MoveOut(grabs[active])
          /\ drag' \in {drag, [window |-> nextWindow, tab |-> grabs[active]]}
    /\ KeepGrabs(Without(grabs, active))
    /\ UNCHANGED moves

DragSingleTab ==
    /\ active \in DOMAIN grabs
    /\ Len(windows[active].tabs) <= 1
    /\ drag' = [window |-> active, tab |-> grabs[active]]
    /\ grabs' = Without(grabs, active)
    /\ UNCHANGED <<tabs, windows, active, moves, nextTab, nextWindow, astray, hollow>>

(* The window that was dragged is removed whatever it lists.               *)
ExecuteTabMerge(target, i) ==
    /\ drag # NoDrag /\ drag.window \in DOMAIN windows
    /\ target \in DOMAIN windows \ {drag.window}
    /\ i \in 1..(Len(windows[target].tabs) + 1)
    /\ LET out == WithoutTab(windows, drag.tab)
       IN  /\ windows' = Without([out EXCEPT ![target] = Merged(@, i, drag.tab)],
                                 drag.window)
           /\ astray' = astray \cup ({drag.tab} \ tabs)
                               \cup (tabs \cap Range(out[drag.window].tabs))
    /\ hollow' = hollow \cup (LeftEmpty(windows, drag.tab) \ {drag.window, target})
    /\ active' = target
    /\ KeepGrabs(grabs) \/ KeepGrabs(With(grabs, target, drag.tab))
    /\ drag' = NoDrag
    /\ UNCHANGED <<tabs, moves, nextTab, nextWindow>>

EndDrag ==
    /\ drag # NoDrag
    /\ drag' = NoDrag
    /\ UNCHANGED <<tabs, windows, active, moves, grabs, nextTab, nextWindow,
                   astray, hollow>>

FocusWindow(w) ==
    /\ w \in DOMAIN windows
    /\ active' = w
    /\ UNCHANGED <<tabs, windows, moves, grabs, drag, nextTab, nextWindow,
                   astray, hollow>>

(* create_window, with its first tab; when the spawn fails only the id is  *)
(* used up.                                                                *)
CreateWindow ==
    /\ nextWindow <= MaxWindows
    /\ nextWindow' = nextWindow + 1
    /\ \/ /\ nextTab <= MaxTabs
          /\ nextTab' = nextTab + 1
          /\ tabs' = tabs \cup {nextTab}
          /\ windows' = With(windows, nextWindow, AddTab(NewWindow, nextTab))
          /\ active' = nextWindow
       \/ UNCHANGED <<tabs, windows, active, nextTab>>
    /\ UNCHANGED <<moves, grabs, drag, astray, hollow>>

(* The last window is not closed: the application exits.                   *)
CloseWindow(w) ==
    /\ w \in DOMAIN windows /\ DOMAIN windows # {w}
    /\ tabs' = tabs \ Range(windows[w].tabs)
    /\ windows' = Without(windows, w)
    /\ TransferFocus
    /\ KeepGrabs(grabs)
    /\ UNCHANGED <<moves, drag, nextTab, nextWindow, astray, hollow>>

Next ==
    \/ NewTabInWindow
    \/ \E t \in TabIds : CloseTab(t) \/ MoveTabToNewWindowDeferred(t)
    \/ \E i \in TabIds : SwitchToTab(i) \/ GrabTab(i)
    \/ ReleaseTab
    \/ \E i, j \in TabIds : MoveTab(i, j)
    \/ MoveTabToNewWindow
    \/ TearOffTab
    \/ DragSingleTab
    \/ \E w \in WindowIds, i \in TabIds : ExecuteTabMerge(w, i)
    \/ EndDrag
    \/ \E w \in WindowIds : FocusWindow(w) \/ CloseWindow(w)
    \/ CreateWindow

Spec == Init /\ [][Next]_vars

-----------------------------------------------------------------------------
(* Properties *)

TypeOK ==
    /\ tabs \subseteq 1..(nextTab - 1) /\ nextTab \in 1..(MaxTabs + 1)
    /\ DOMAIN windows \subseteq 1..(nextWindow - 1) /\ nextWindow \in 1..(MaxWindows + 1)
    /\ windows \in [DOMAIN windows -> [tabs : Seq(TabIds), current : Nat]]
    /\ active \in WindowIds /\ drag \in Drags \cup {NoDrag}
    /\ moves \in Seq(TabIds)
    /\ DOMAIN grabs \subseteq DOMAIN windows /\ grabs \in [DOMAIN grabs -> TabIds]
    /\ astray \subseteq TabIds /\ hollow \subseteq WindowIds

ListedTabs == UNION {Range(windows[w].tabs) : w \in DOMAIN windows}

ListedOnce ==
    \A v, w \in DOMAIN windows :
       \A i \in 1..Len(windows[v].tabs), j \in 1..Len(windows[w].tabs) :
          windows[v].tabs[i] = windows[w].tabs[j] => v = w /\ i = j

(* Tabs are moved between windows in several steps by new_tab, close_tab,  *)
(* the move to a new window, tear-off and merge, on names taken earlier.   *)
(* Whatever their order, no name is listed twice, the active window        *)
(* exists, and the position of a window that lists something is one of its *)
(* tabs.  The registered tabs are the listed ones but for those that went  *)
(* astray, and no window is empty but the hollow ones.                     *)
TabsPartition ==
    /\ active \in DOMAIN windows
    /\ ListedOnce
    /\ tabs \ astray = ListedTabs \ astray
    /\ \A w \in DOMAIN windows :
         \/ w \in hollow /\ windows[w].tabs = << >>
         \/ windows[w].current \in 1..Len(windows[w].tabs)

(* Reordering, closing, moving out or tearing off other tabs never changes *)
(* which tab a window shows: remove_tab and reorder_tab shift the position *)
(* with the tab.  Only a merge does, into a window that lists the dragged  *)
(* tab already.                                                            *)
ShownTabKept ==
    [][\A w \in DOMAIN windows \cap DOMAIN windows' :
         ( /\ windows'[w].tabs # windows[w].tabs
           /\ Range(windows'[w].tabs) \subseteq Range(windows[w].tabs)
           /\ Shown(windows[w]) \in Range(windows'[w].tabs) )
         => \/ Shown(windows'[w]) = Shown(windows[w])
            \/ drag # NoDrag /\ drag' = NoDrag /\ Shown(windows'[w]) = drag.tab]_vars
=============================================================================
