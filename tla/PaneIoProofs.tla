---------------------------- MODULE PaneIoProofs ----------------------------
(***************************************************************************)
(* Proofs about the threads of a pane: types, what is published before the *)
(* IO thread blocks, and the wakes it blocks on.                           *)
(***************************************************************************)
EXTENDS PaneIo, TLAPS

-----------------------------------------------------------------------------
(* The terminal.                                                           *)

(* What the terminal shows and nobody has seen is marked in grid_dirty, or *)
(* waits for the end of a synchronized update.                             *)
Marked(t) == t.stale /\ ~t.sync => t.gridDirty

(* A resize keeps the type of the terminal and the mark.                   *)
LEMMA ResizedFacts ==
    ASSUME NEW t \in Terms, NEW size \in Sizes \cup {NoSize}
    PROVE  Resized(t, size) \in Terms /\ (Marked(t) => Marked(Resized(t, size)))
  BY DEF Resized, Terms, Marked

LEMMA DispatchedType ==
    ASSUME NEW t \in Terms, NEW chunk
    PROVE  Dispatched(t, chunk) \in Terms
  BY DEF Dispatched, Terms

(* Parsing a chunk marks what it changes, unless it ends inside an update. *)
LEMMA ParsedFacts ==
    ASSUME NEW t \in Terms, NEW chunk
    PROVE  Parsed(t, chunk) \in Terms /\ Marked(Parsed(t, chunk))
<1>1. PICK d \in Terms : d = Dispatched(t, chunk)
  BY DispatchedType
<1>2. Parsed(t, chunk) = [d EXCEPT !.gridDirty = d.gridDirty \/ ~d.sync]
  BY <1>1 DEF Parsed
<1> QED  BY <1>2 DEF Terms, Marked

(* A publication leaves nothing unseen outside a synchronized update.      *)
LEMMA PublishFacts ==
    ASSUME NEW t \in Terms
    PROVE  /\ PublishPending(t) \in Terms
           /\ Marked(t) => /\ Marked(PublishPending(t))
                           /\ PublishPending(t).stale => PublishPending(t).sync
  BY DEF PublishPending, Terms, Marked

LEMMA MaybeProducedFacts ==
    ASSUME NEW t \in Terms, NEW u \in MaybeProduced(t)
    PROVE  u \in Terms /\ (Marked(t) => Marked(u))
  BY PublishFacts DEF MaybeProduced

LEMMA CommandedFacts ==
    ASSUME NEW t \in Terms, NEW cmd
    PROVE  Commanded(t, cmd) \in Terms /\ Marked(Commanded(t, cmd))
<1>1. PICK d \in Terms : d = [t EXCEPT !.gridDirty = TRUE]
  BY DEF Terms
<1>2. Marked(d)
  BY <1>1 DEF Marked, Terms
<1>3. CASE cmd = "snapshot"
  BY <1>1, <1>2, <1>3, PublishFacts DEF Commanded
<1>4. CASE cmd # "snapshot"
  BY <1>4 DEF Commanded, Marked, Terms
<1> QED  BY <1>3, <1>4

LEMMA SyncTimedOutFacts ==
    ASSUME NEW t \in Terms
    PROVE  SyncTimedOut(t) \in Terms /\ Marked(SyncTimedOut(t))
<1>1. PICK d \in Terms : d = [t EXCEPT !.sync = FALSE, !.timer = FALSE, !.gridDirty = TRUE]
  BY DEF Terms
<1>2. Marked(d)
  BY <1>1 DEF Marked, Terms
<1> QED  BY <1>1, <1>2, PublishFacts DEF SyncTimedOut

-----------------------------------------------------------------------------
(* Types.                                                                  *)

Commands == {"command", "snapshot", "shutdown"}

(* The types of what the IO thread does not write, or writes by itself.    *)
IoTypes ==
    /\ pc \in {"start", "enter", "drain", "check", "bytes", "quiesce", "select", "exited"}
    /\ caller \in {"loop", "bytes", "arm"}
    /\ wake \in BOOLEAN /\ shutdown \in BOOLEAN
    /\ resize \in Sizes \cup {NoSize} /\ asked \in Sizes
    /\ token \in {"none", "asked", "fulfilled", "dropped"}
    /\ exitCh \in {"open", "status", "closed", "never"}
    /\ answer \in {"none", "fresh", "stale"}

PeerTypes ==
    /\ reader \in {"read", "hold", "done"}
    /\ writer \in {"run", "told", "flagged", "done"}
    /\ child \in BOOLEAN
    /\ main \in {"idle", "wake", "kill", "reap", "flag", "send", "join", "closed"}
    /\ ops \in 0..MaxOps

QueueTypes ==
    /\ cmdq \in Seq(Commands) /\ Len(cmdq) <= CmdCap
    /\ byteq \in Seq(Outputs) /\ Len(byteq) <= ByteCap

(* TypeOK, cut along the lines on which the steps preserve it.             *)
Types == IoTypes /\ PeerTypes /\ QueueTypes /\ term \in Terms

LEMMA TypesAreTypeOK == Types <=> TypeOK
  BY DEF TypeOK, Types, IoTypes, PeerTypes, QueueTypes, Commands

LEMMA TailFacts ==
    ASSUME NEW S, NEW q \in Seq(S), q # <<>>, NEW n \in Nat, Len(q) <= n
    PROVE  Head(q) \in S /\ Tail(q) \in Seq(S) /\ Len(Tail(q)) <= n
  OBVIOUS

LEMMA AppendFacts ==
    ASSUME NEW S, NEW q \in Seq(S), NEW e \in S, NEW n \in Nat, Len(q) < n
    PROVE  Append(q, e) \in Seq(S) /\ Len(Append(q, e)) <= n
  OBVIOUS

(* try_send never lets the channel outgrow its capacity.                   *)
LEMMA TrySendFacts ==
    ASSUME Types, NEW cmd \in Commands, TrySend(cmd)
    PROVE  cmdq' \in Seq(Commands) /\ Len(cmdq') <= CmdCap
<1>1. cmdq \in Seq(Commands) /\ Len(cmdq) <= CmdCap /\ CmdCap \in Nat
  BY PaneIoAssumption DEF Types, QueueTypes
<1>2. CASE Len(cmdq) < CmdCap /\ Alive
  BY <1>1, <1>2, AppendFacts DEF TrySend
<1>3. CASE ~(Len(cmdq) < CmdCap /\ Alive)
  BY <1>1, <1>3 DEF TrySend
<1> QED  BY <1>2, <1>3

(* The types survive a step of the IO thread.                              *)
LEMMA TypeIoStep ==
    ASSUME Types, IoStep
    PROVE  Types'
<1> USE DEF Types
<1>0. /\ term \in Terms /\ QueueTypes /\ IoTypes /\ PeerTypes
      /\ CmdCap \in Nat /\ ByteCap \in Nat
  BY PaneIoAssumption
<1>1. CASE Start
  <2>1. term' \in Terms
    BY <1>0, <1>1 DEF Start, Terms
  <2> QED  BY <1>0, <1>1, <2>1 DEF Start, DrainFor, IoTypes, PeerTypes, QueueTypes, peerVars
<1>2. CASE DrainEnter
  <2>1. term' \in Terms
    BY <1>0, <1>2, ResizedFacts DEF DrainEnter, IoTypes
  <2> QED  BY <1>0, <1>2, <2>1 DEF DrainEnter, GoTo, IoTypes, PeerTypes, QueueTypes, peerVars
<1>3. CASE DrainCommand
  <2>1. cmdq' \in Seq(Commands) /\ Len(cmdq') <= CmdCap
    BY <1>0, <1>3, TailFacts DEF DrainCommand, QueueTypes
  <2>2. Resized(term, resize) \in Terms
    BY <1>0, ResizedFacts DEF IoTypes
  <2>3. term' \in Terms
    BY <1>3, <2>2, CommandedFacts DEF DrainCommand
  <2>4. answer' \in {"none", "fresh", "stale"}
    BY <1>0, <1>3 DEF DrainCommand, Answered, IoTypes
  <2>5. pc' \in {"drain", "check"} /\ caller' = caller /\ shutdown' \in {shutdown, TRUE}
    BY <1>3 DEF DrainCommand, GoTo
  <2>6. IoTypes'
    BY <1>0, <1>3, <2>4, <2>5 DEF DrainCommand, IoTypes
  <2> QED
    BY <1>0, <1>3, <2>1, <2>3, <2>6 DEF DrainCommand, PeerTypes, QueueTypes, peerVars
<1>4. CASE DrainDone
  BY <1>0, <1>4 DEF DrainDone, GoTo, IoTypes, PeerTypes, QueueTypes, peerVars
<1>5. CASE CheckShutdown
  <2>1. term' \in Terms
    BY <1>0, <1>5, PublishFacts, MaybeProducedFacts DEF CheckShutdown
  <2> QED
    BY <1>0, <1>5, <2>1 DEF CheckShutdown, GoTo, DrainFor, IoTypes, PeerTypes, QueueTypes, peerVars
<1>6. CASE ProcessBytes \/ SelectBytes
  <2>1. HandleBytes /\ (DrainFor("bytes") \/ DrainFor("arm"))
    BY <1>6 DEF ProcessBytes, SelectBytes
  <2>2. byteq' \in Seq(Outputs) /\ Len(byteq') <= ByteCap
    BY <1>0, <2>1, TailFacts DEF HandleBytes, QueueTypes
  <2>3. term' \in Terms
    BY <1>0, <2>1, ParsedFacts DEF HandleBytes
  <2> QED
    BY <1>0, <2>1, <2>2, <2>3 DEF HandleBytes, DrainFor, IoTypes, PeerTypes, QueueTypes, peerVars
<1>7. CASE BytesDone
  BY <1>0, <1>7 DEF BytesDone, GoTo, IoTypes, PeerTypes, QueueTypes, peerVars
<1>8. CASE Quiesce
  <2>1. term' \in Terms
    BY <1>0, <1>8, PublishFacts DEF Quiesce
  <2> QED
    BY <1>0, <1>8, <2>1 DEF Quiesce, GoTo, IoTypes, PeerTypes, QueueTypes, peerVars
<1>9. CASE SelectCmd
  <2>1. cmdq' \in Seq(Commands) /\ Len(cmdq') <= CmdCap
    BY <1>0, <1>9, TailFacts DEF SelectCmd, QueueTypes
  <2>2. Resized(term, resize) \in Terms
    BY <1>0, ResizedFacts DEF IoTypes
  <2>3. term' \in Terms
    BY <1>9, <2>2, CommandedFacts, PublishFacts DEF SelectCmd
  <2>4. answer' \in {"none", "fresh", "stale"}
    BY <1>0, <1>9 DEF SelectCmd, Answered, IoTypes
  <2>5. /\ pc' \in {"enter", "exited"} /\ caller' \in {caller, "loop"}
        /\ shutdown' \in {shutdown, TRUE}
    BY <1>9 DEF SelectCmd, GoTo, DrainFor
  <2>6. IoTypes'
    BY <1>0, <1>9, <2>4, <2>5 DEF SelectCmd, IoTypes
  <2> QED
    BY <1>0, <1>9, <2>1, <2>3, <2>6 DEF SelectCmd, PeerTypes, QueueTypes, peerVars
<1>11. CASE SelectChildExit
  BY <1>0, <1>11
  DEF SelectChildExit, DrainFor, IoTypes, PeerTypes, QueueTypes, peerVars
<1>12. CASE SelectWake
  <2>1. IoTypes'
    BY <1>0, <1>12 DEF SelectWake, DrainFor, IoTypes
  <2> QED  BY <1>0, <1>12, <2>1 DEF SelectWake, PeerTypes, QueueTypes, peerVars
<1>13. CASE SelectTimeout
  <2>1. term' \in Terms
    BY <1>0, <1>13, SyncTimedOutFacts DEF SelectTimeout
  <2> QED
    BY <1>0, <1>13, <2>1 DEF SelectTimeout, DrainFor, IoTypes, PeerTypes, QueueTypes, peerVars
<1> QED
  BY <1>1, <1>2, <1>3, <1>4, <1>5, <1>6, <1>7, <1>8, <1>9, <1>11, <1>12, <1>13
  DEF IoStep

(* ... and a step of any other thread.                                     *)
LEMMA TypePeerStep ==
    ASSUME Types, [Next]_vars, ~IoStep
    PROVE  Types'
<1> USE DEF Types
<1>0. /\ term \in Terms /\ QueueTypes /\ IoTypes /\ PeerTypes
      /\ CmdCap \in Nat /\ ByteCap \in Nat /\ MaxOps \in Nat
  BY PaneIoAssumption
<1>1. ASSUME WriterStep \/ MainContinues PROVE Types'
  <2>1. CASE SendShutdown
    <3>1. cmdq' \in Seq(Commands) /\ Len(cmdq') <= CmdCap
      BY <2>1, TrySendFacts DEF SendShutdown, Commands
    <3> QED
      BY <1>0, <2>1, <3>1 DEF SendShutdown, IoTypes, PeerTypes, QueueTypes, ioVars
  <2>2. CASE WriterStep
    BY <1>0, <2>2 DEF WriterStep, WriterStops, WriterWakes, IoTypes, PeerTypes, QueueTypes, ioVars
  <2>3. CASE TrySendWake \/ KillChild \/ ReapChild \/ RaiseFlag \/ Join
    BY <1>0, <2>3
    DEF TrySendWake, KillChild, ReapChild, RaiseFlag, Join, IoTypes, PeerTypes, QueueTypes, ioVars
  <2> QED  BY <1>1, <2>1, <2>2, <2>3 DEF MainContinues
<1>2. ASSUME ReaderSend PROVE Types'
  <2>1. byteq' \in Seq(Outputs) /\ Len(byteq') <= ByteCap
    BY <1>0, <1>2, AppendFacts DEF ReaderSend, QueueTypes
  <2> QED
    BY <1>0, <1>2, <2>1 DEF ReaderSend, IoTypes, PeerTypes, QueueTypes, ioVars
<1>3. ASSUME ReaderRead \/ ReaderEof \/ ReaderSeesEnd \/ ChildExits \/ WatcherReports PROVE Types'
  BY <1>0, <1>3
  DEF ReaderRead, ReaderEof, ReaderSeesEnd, ChildExits, WatcherReports, IoTypes, PeerTypes,
      QueueTypes, ioVars, peerVars
<1>4. ASSUME NEW cmd \in {"command", "snapshot"}, SendCommand(cmd) PROVE Types'
  <2>1. cmdq' \in Seq(Commands) /\ Len(cmdq') <= CmdCap
    BY <1>4, TrySendFacts DEF SendCommand, Commands
  <2> QED
    BY <1>0, <1>4, <2>1 DEF SendCommand, IoTypes, PeerTypes, QueueTypes, ioVars
<1>5. ASSUME NEW size \in Sizes, SendResize(size) PROVE Types'
  BY <1>0, <1>5 DEF SendResize, IoTypes, PeerTypes, QueueTypes, ioVars
<1>6. ASSUME Fulfill \/ DropToken \/ DropPane PROVE Types'
  BY <1>0, <1>6
  DEF Fulfill, DropToken, DropPane, IoTypes, PeerTypes, QueueTypes, ioVars, peerVars
<1>7. ASSUME UNCHANGED vars PROVE Types'
  BY <1>0, <1>7 DEF vars, ioVars, peerVars, IoTypes, PeerTypes, QueueTypes
<1> QED
  BY <1>1, <1>2, <1>3, <1>4, <1>5, <1>6, <1>7 DEF Next

LEMMA TypeInit == Init => TypeOK
<1> SUFFICES ASSUME Init PROVE TypeOK
  OBVIOUS
<1>1. term \in Terms /\ asked \in Sizes
  BY PaneIoAssumption DEF Init, Terms, SpawnSize
<1>2. cmdq = <<>> /\ byteq = <<>> /\ ops \in 0..MaxOps /\ CmdCap \in Nat /\ ByteCap \in Nat
  BY PaneIoAssumption DEF Init
<1>3. IoTypes /\ PeerTypes
  BY <1>1, <1>2 DEF Init, IoTypes, PeerTypes
<1>4. QueueTypes
  BY <1>2 DEF QueueTypes
<1> QED  BY <1>1, <1>3, <1>4, TypesAreTypeOK DEF Types

LEMMA TypeNext == Types /\ [Next]_vars => Types'
  BY TypeIoStep, TypePeerStep

(* Every variable keeps its type and neither channel outgrows its          *)
(* capacity, whatever the capacities and however the threads interleave.   *)
THEOREM PaneTypeCorrect == Spec => []TypeOK
  BY TypeInit, TypesAreTypeOK, TypeNext, PTL DEF Spec

-----------------------------------------------------------------------------
(* Nothing is held back.  NothingHeldBack looks at one place of the loop;  *)
(* what carries it there is that everywhere after the initial snapshot the *)
(* terminal is marked: the flush of the quiescence point then publishes    *)
(* whatever a rate-limited snapshot in between may have left.              *)

HeldInv == (pc # "start" => Marked(term)) /\ NothingHeldBack

LEMMA HeldNext ==
    ASSUME Types, Types', HeldInv, [Next]_vars
    PROVE  HeldInv'
<1> USE DEF HeldInv, NothingHeldBack
<1>0. term \in Terms /\ resize \in Sizes \cup {NoSize}
  BY DEF Types, IoTypes
<1>1. CASE Start
  <2>1. pc' = "enter" /\ ~term'.stale
    BY <1>0, <1>1 DEF Start, DrainFor, Terms
  <2> QED  BY <2>1 DEF Marked
<1>2. CASE DrainEnter
  <2>1. pc = "enter" /\ pc' = "drain" /\ term' = Resized(term, resize)
    BY <1>2 DEF DrainEnter, GoTo
  <2> QED  BY <1>0, <2>1, ResizedFacts
<1>3. CASE DrainCommand \/ SelectCmd
  <2>1. Resized(term, resize) \in Terms /\ Marked(Resized(term, resize)) /\ pc # "start"
    BY <1>0, <1>3, ResizedFacts DEF DrainCommand, SelectCmd
  <2>2. pc' # "select"
    BY <1>3 DEF DrainCommand, SelectCmd, GoTo, DrainFor
  <2>3. \/ term' = Resized(term, resize)
        \/ term' = Commanded(Resized(term, resize), Head(cmdq))
        \/ term' = PublishPending(Resized(term, resize))
    BY <1>3 DEF DrainCommand, SelectCmd
  <2> QED  BY <2>1, <2>2, <2>3, CommandedFacts, PublishFacts
<1>4. CASE CheckShutdown
  <2>1. pc = "check" /\ pc' # "select"
    BY <1>4 DEF CheckShutdown, GoTo, DrainFor
  <2>2. term' = term \/ term' = PublishPending(term) \/ term' \in MaybeProduced(term)
    BY <1>4 DEF CheckShutdown
  <2> QED  BY <1>0, <2>1, <2>2, PublishFacts, MaybeProducedFacts
<1>5. CASE ProcessBytes \/ SelectBytes
  <2>1. pc' = "enter" /\ term' = Parsed(term, Head(byteq))
    BY <1>5 DEF ProcessBytes, SelectBytes, HandleBytes, DrainFor
  <2> QED  BY <1>0, <2>1, ParsedFacts
<1>6. CASE Quiesce
  <2>1. pc = "quiesce" /\ term' = PublishPending(term)
    BY <1>6 DEF Quiesce
  <2> QED  BY <1>0, <2>1, PublishFacts
<1>8. CASE SelectTimeout
  <2>1. pc' = "enter" /\ term' = SyncTimedOut(term)
    BY <1>8 DEF SelectTimeout, DrainFor
  <2> QED  BY <1>0, <2>1, SyncTimedOutFacts
<1>9. CASE DrainDone \/ BytesDone \/ SelectChildExit \/ SelectWake
  <2>1. pc # "start" /\ pc' # "select" /\ UNCHANGED term
    BY <1>9 DEF DrainDone, BytesDone, SelectChildExit, SelectWake, GoTo, DrainFor
  <2> QED  BY <2>1 DEF Marked
<1>10. ASSUME UNCHANGED <<pc, term>> PROVE HeldInv'
  BY <1>10 DEF Marked
<1>11. CASE WriterStep \/ MainContinues
  BY <1>10, <1>11
  DEF WriterStep, WriterStops, WriterWakes, MainContinues, TrySendWake, KillChild, ReapChild, RaiseFlag,
      SendShutdown, Join, ioVars
<1>12. CASE ReaderRead \/ ReaderSend \/ ReaderEof \/ ReaderSeesEnd \/ ChildExits \/ WatcherReports
  BY <1>10, <1>12 DEF ReaderRead, ReaderSend, ReaderEof, ReaderSeesEnd, ChildExits, WatcherReports, ioVars
<1>13. ASSUME NEW cmd, SendCommand(cmd) PROVE HeldInv'
  BY <1>10, <1>13 DEF SendCommand, ioVars
<1>14. ASSUME NEW size, SendResize(size) PROVE HeldInv'
  BY <1>10, <1>14 DEF SendResize, ioVars
<1>15. CASE Fulfill \/ DropToken \/ DropPane \/ UNCHANGED vars
  BY <1>10, <1>15 DEF Fulfill, DropToken, DropPane, vars, ioVars
<1> QED
  BY <1>1, <1>2, <1>3, <1>4, <1>5, <1>6, <1>8, <1>9, <1>11, <1>12, <1>13, <1>14, <1>15
  DEF Next, IoStep

(* Before the IO thread blocks it has published everything it parsed that  *)
(* no synchronized update holds back: for every way the output is cut into *)
(* chunks, commands come in between and the rate limit strikes.            *)
THEOREM PublishedBeforeBlocking == Spec => []NothingHeldBack
<1>1. Init => HeldInv
  BY DEF Init, HeldInv, NothingHeldBack
<1>2. HeldInv => NothingHeldBack
  BY DEF HeldInv
<1>3. Types /\ Types' /\ HeldInv /\ [Next]_vars => HeldInv'
  BY HeldNext
<1> QED  BY <1>1, <1>2, <1>3, TypeInit, TypesAreTypeOK, TypeNext, PTL DEF Spec

-----------------------------------------------------------------------------
(* Wakes.  Each thing the wake stands for is stored first and announced    *)
(* afterwards.  As long as it is stored, its owner is still to send the    *)
(* wake, or the wake is in the channel, or the IO thread has taken it and  *)
(* has yet to pass the place where it looks: the resize slot when a drain  *)
(* begins, the responses when it ends, the flag after it.                  *)

ResizeWoken == resize # NoSize => main = "wake" \/ wake \/ pc = "enter"

ReplyWoken ==
    token = "fulfilled" =>
        \/ main = "wake" \/ wake \/ pc \in {"enter", "drain", "exited"}
        \/ (pc = "check" /\ shutdown)

ShutdownWoken ==
    shutdown =>
        main = "send" \/ writer = "flagged" \/ wake \/ pc \in {"enter", "drain", "check", "exited"}

WakeInv == ResizeWoken /\ ReplyWoken /\ ShutdownWoken

(* Host requests are fulfilled through the handle only.                    *)
LocalReplies == "remoteReply" \notin Ops

LEMMA WakeNext ==
    ASSUME LocalReplies, Types, WakeInv, [Next]_vars
    PROVE  WakeInv'
<1> USE DEF WakeInv, ResizeWoken, ReplyWoken, ShutdownWoken
<1>0. NoSize \notin Sizes
  BY PaneIoAssumption
<1>1. CASE Start \/ DrainEnter
  BY <1>1 DEF Start, DrainEnter, GoTo, DrainFor, peerVars
<1>2. CASE DrainCommand
  BY <1>2 DEF DrainCommand, GoTo, peerVars
<1>3. CASE DrainDone
  BY <1>3 DEF DrainDone, GoTo, peerVars
<1>4. CASE CheckShutdown
  BY <1>4 DEF CheckShutdown, GoTo, DrainFor, peerVars
<1>5. CASE ProcessBytes \/ SelectBytes
  BY <1>5 DEF ProcessBytes, SelectBytes, HandleBytes, DrainFor, peerVars
<1>6. CASE BytesDone \/ Quiesce
  BY <1>6 DEF BytesDone, Quiesce, GoTo, peerVars
<1>7. CASE SelectCmd
  BY <1>7 DEF SelectCmd, GoTo, DrainFor, peerVars
<1>9. CASE SelectChildExit \/ SelectWake \/ SelectTimeout
  BY <1>9 DEF SelectChildExit, SelectWake, SelectTimeout, DrainFor, peerVars
<1>10. CASE WriterStep
  BY <1>10 DEF WriterStep, WriterStops, WriterWakes, ioVars
<1>11. CASE MainContinues
  BY <1>11 DEF MainContinues, TrySendWake, KillChild, ReapChild, RaiseFlag, SendShutdown, Join, ioVars
<1>12. CASE ReaderRead \/ ReaderSend \/ ReaderEof \/ ReaderSeesEnd \/ ChildExits \/ WatcherReports
  BY <1>12
  DEF ReaderRead, ReaderSend, ReaderEof, ReaderSeesEnd, ChildExits, WatcherReports, ioVars, peerVars
<1>13. ASSUME NEW cmd, SendCommand(cmd) PROVE WakeInv'
  BY <1>13 DEF SendCommand, ioVars
<1>14. ASSUME NEW size, SendResize(size) PROVE WakeInv'
  BY <1>14 DEF SendResize, ioVars
<1>15. CASE Fulfill \/ DropToken \/ DropPane
  BY <1>15 DEF Fulfill, DropToken, DropPane, LocalReplies, ioVars, peerVars
<1>16. CASE UNCHANGED vars
  BY <1>16 DEF vars, ioVars, peerVars
<1> QED
  BY <1>1, <1>2, <1>3, <1>4, <1>5, <1>6, <1>7, <1>9, <1>10, <1>11, <1>12, <1>13,
     <1>14, <1>15, <1>16
  DEF Next, IoStep

(* The IO thread never sleeps on something it should do: a size, a reply   *)
(* or the end of the pane that it has not seen is announced, or about to   *)
(* be, by a wake it has not taken.  Replies of daemon clients are excluded *)
(* (ReplyHostRequest fulfills the token without a wake).                   *)
THEOREM WakesAreNotLost == LocalReplies => (Spec => []NoWakeLost)
<1> SUFFICES ASSUME LocalReplies PROVE Spec => []NoWakeLost
  OBVIOUS
<1>1. Init => WakeInv
  BY DEF Init, WakeInv, ResizeWoken, ReplyWoken, ShutdownWoken
<1>2. WakeInv => NoWakeLost
  BY DEF WakeInv, ResizeWoken, ReplyWoken, ShutdownWoken, NoWakeLost
<1>3. Types /\ WakeInv /\ [Next]_vars => WakeInv'
  BY WakeNext
<1> QED  BY <1>1, <1>2, <1>3, TypeInit, TypesAreTypeOK, TypeNext, PTL DEF Spec
=============================================================================
