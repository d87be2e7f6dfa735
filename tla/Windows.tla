------------------------------ MODULE Windows ------------------------------
(***************************************************************************)
(* A window of the application (oriterm/src/session/window): its tabs in   *)
(* order and the position of the one that is shown; the operations of the  *)
(* registry on all the windows, a function from their ids; and what        *)
(* TabWindows and Session have in common.                                  *)
(***************************************************************************)
EXTENDS Integers, Sequences, SequencesExt

CONSTANTS MaxTabs,              \* tabs created in a behaviour
          MaxWindows,           \* windows created in a behaviour
          NoDrag

TabIds    == 1..MaxTabs
WindowIds == 1..MaxWindows
Drags     == [window : WindowIds, tab : TabIds]

ASSUME WindowsAssumption ==
    /\ {MaxTabs, MaxWindows} \subseteq Nat \ {0}
    /\ NoDrag \notin Drags

-----------------------------------------------------------------------------
NewWindow == [tabs |-> << >>, current |-> 1]
Shown(w) == w.tabs[w.current]
PositionOf(w, t) == CHOOSE i \in 1..Len(w.tabs) : w.tabs[i] = t

AddTab(w, t) == [tabs |-> Append(w.tabs, t), current |-> Len(w.tabs) + 1]

InsertTabAt(w, i, t) ==
    IF i > Len(w.tabs) THEN [w EXCEPT !.tabs = Append(@, t)]
    ELSE [tabs    |-> InsertAt(w.tabs, i, t),
          current |-> w.current + IF i <= w.current THEN 1 ELSE 0]

WindowRemoveTabKeepsPosition(w, t) ==
    [w EXCEPT !.tabs = RemoveAt(@, PositionOf(w, t))]

WindowRemoveTabNoShift(w, t) ==
    LET rest == RemoveAt(w.tabs, PositionOf(w, t))
    IN  [tabs |-> rest, current |-> Max({1, Min({w.current, Len(rest)})})]

WindowRemoveTab(w, t) ==
    LET pos  == PositionOf(w, t)
        rest == RemoveAt(w.tabs, pos)
    IN  [tabs    |-> rest,
         current |-> IF rest = << >> THEN 1
                     ELSE IF w.current > Len(rest) THEN Len(rest)
                     ELSE IF pos < w.current THEN w.current - 1
                     ELSE w.current]

ReorderTab(w, from, to) ==
    [tabs    |-> InsertAt(RemoveAt(w.tabs, from), to, w.tabs[from]),
     current |-> IF w.current = from THEN to
                 ELSE IF from < w.current /\ to >= w.current THEN w.current - 1
                 ELSE IF from > w.current /\ to <= w.current THEN w.current + 1
                 ELSE w.current]

-----------------------------------------------------------------------------
Within(f, S) == [y \in DOMAIN f \cap S |-> f[y]]
Without(f, x) == [y \in DOMAIN f \ {x} |-> f[y]]
With(f, x, v) == [y \in DOMAIN f \cup {x} |-> IF y = x THEN v ELSE f[y]]

(* window_for_tab.                                                         *)
WindowsOf(ws, t) == {w \in DOMAIN ws : t \in Range(ws[w].tabs)}

(* A tab leaves the window that lists it.                                  *)
WithoutTab(ws, t) ==
    [w \in DOMAIN ws |-> IF w \in WindowsOf(ws, t) THEN WindowRemoveTab(ws[w], t)
                         ELSE ws[w]]

(* A tab leaves its window, if it is in one, for the new window w.         *)
MovedTo(ws, w, t) == With(WithoutTab(ws, t), w, InsertTabAt(NewWindow, 1, t))

(* The windows that are empty without it.                                  *)
LeftEmpty(ws, t) == {w \in WindowsOf(ws, t) : Len(ws[w].tabs) = 1}

(* A window that has been left empty goes.                                 *)
WithoutEmpty(ws, w) == IF ws[w].tabs = << >> THEN Without(ws, w) ELSE ws

(* The window w takes in t at position i and shows it.                     *)
Merged(w, i, t) ==
    LET u == InsertTabAt(w, i, t) IN [u EXCEPT !.current = PositionOf(u, t)]
=============================================================================
