----------------------------- MODULE FullRedraw -----------------------------
(***************************************************************************)
(* What the frame pipeline promises, without the machinery that makes it   *)
(* cheap: no damage, no buffers that change hands, no caches and no wakeup.*)
(* A pane offers whole snapshots and only the newest one counts; the       *)
(* window draws a whole snapshot, the newest it has taken or the newest on *)
(* offer, never an older one and never a mixture of two.                   *)
(***************************************************************************)
CONSTANTS
    Panes,
    Contents,   \* what a pane can show as a whole
    Blank,      \* nothing: before the first snapshot, or without a frame
    NoPane

VARIABLES
    content,    \* what each pane shows now
    offered,    \* its newest snapshot
    taken,      \* the newest snapshot the window took from it
    drawn,      \* whether the window has a frame
    of,         \* the pane of the frame
    picture     \* the rows of the frame

vars == <<content, offered, taken, drawn, of, picture>>

Init ==
    /\ content \in [Panes -> Contents]
    /\ offered = [p \in Panes |-> Blank]
    /\ taken = [p \in Panes |-> Blank]
    /\ drawn = FALSE /\ of = NoPane /\ picture = Blank

(* The pane's program writes, or its view is moved or resized.             *)
Change(p) ==
    /\ \E c \in Contents : content' = [content EXCEPT ![p] = c]
    /\ UNCHANGED <<offered, taken, drawn, of, picture>>

(* The IO thread publishes what the pane shows.                            *)
Offer(p) ==
    /\ offered' = [offered EXCEPT ![p] = content[p]]
    /\ UNCHANGED <<content, taken, drawn, of, picture>>

(* A redraw takes the newest snapshot or keeps the one it has, and draws   *)
(* all of it.                                                              *)
Draw(p) ==
    /\ taken' = taken \/ taken' = [taken EXCEPT ![p] = offered[p]]
    /\ drawn' = TRUE /\ of' = p /\ picture' = taken'[p]
    /\ UNCHANGED <<content, offered>>

(* The frame is thrown away.                                               *)
Forget ==
    /\ drawn' = FALSE /\ of' = NoPane /\ picture' = Blank
    /\ UNCHANGED <<content, offered, taken>>

Next == \/ \E p \in Panes : Change(p) \/ Offer(p) \/ Draw(p)
        \/ Forget

Spec == Init /\ [][Next]_vars
=============================================================================
