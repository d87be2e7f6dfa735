------------------------------- MODULE PaneIo -------------------------------
(***************************************************************************)
(* The threads of one pane: the terminal IO thread with its run loop, the  *)
(* PTY reader and writer threads, the child and its watcher, and the side  *)
(* that owns the PaneIoHandle (called main here: the application's event   *)
(* loop, the daemon, or the background thread that drops the pane).        *)
(*                                                                         *)
(* Main and the IO thread meet in a bounded command channel fed with       *)
(* try_send, a last-writer-wins resize slot, a shutdown flag, the response *)
(* token of a host request, and a wake channel of capacity one.  The run   *)
(* loop is modelled at its reads of shared state.  A chunk of output is    *)
(* known by what it does to Mode 2026 (synchronized output); whether the   *)
(* terminal shows something no snapshot has shown yet is term.stale.       *)
(* No step stands for the 24 hour ceiling of the loop's timeout.           *)
(***************************************************************************)
EXTENDS Naturals, Sequences

CONSTANTS
    Outputs,    \* the chunks the child writes
    Ops,        \* what the other side does with the pane
    Sizes,      \* terminal sizes
    NoSize,     \* PENDING_RESIZE_NONE
    CmdCap,     \* CMD_CHANNEL_CAPACITY
    ByteCap,    \* BYTE_CHANNEL_CAPACITY
    MaxOps      \* bound on the commands and resizes of one behaviour

ChunkKinds == {"text", "bsu", "esu", "flip", "save", "restore", "query"}
OpKinds == {"command", "snapshot", "resize", "reply", "remoteReply", "drop",
            "input", "exit", "close"}

ASSUME PaneIoAssumption ==
    /\ Outputs \subseteq ChunkKinds
    /\ Ops \subseteq OpKinds
    /\ Sizes # {} /\ NoSize \notin Sizes
    /\ CmdCap \in Nat \ {0} /\ ByteCap \in Nat \ {0} /\ MaxOps \in Nat

VARIABLES
    (* the IO thread *)
    pc,         \* "start", "enter", "drain", "check", "bytes", "quiesce",
                \* "select", "exited"
    caller,     \* who called drain_commands: "loop", "bytes" or "arm"
    term,       \* the terminal, its parser's sync timer, and grid_dirty
    (* shared *)
    cmdq, byteq,
    wake,       \* a token in the wake channel
    shutdown,   \* the shutdown flag
    resize,     \* the pending_resize slot
    token,      \* a host request: "none", "asked", "fulfilled", "dropped"
    exitCh,     \* child_exit_rx: "open", "status", "closed", "never"
    (* the other threads *)
    reader,     \* "read", "hold" (a chunk to send) or "done"
    writer,     \* "run", "told", "flagged", "done"
    child,      \* is the child alive?
    main,       \* "idle", "wake", "kill", "reap", "flag", "send", "join",
                \* "closed"
    ops,        \* commands and resizes still to come
    (* history: the size last asked for, and a SnapshotNow that was answered *)
    asked,
    answer      \* "none", "fresh" or "stale"

ioVars == <<pc, caller, term>>
peerVars == <<reader, writer, child, main, ops>>
vars == <<ioVars, cmdq, byteq, wake, shutdown, resize, token, exitCh, peerVars,
          asked, answer>>

-----------------------------------------------------------------------------
(* What the run loop's helpers do to the terminal.                         *)

(* process_resize: grid_dirty is set even when the size is the one it has. *)
Resized(t, size) ==
    IF size = NoSize THEN t
    ELSE [t EXCEPT !.size = size, !.gridDirty = TRUE, !.stale = @ \/ size # t.size]

(* Mode 2026 in the parser and the terminal.  BSU arms the timer and ESU   *)
(* disarms it; XTRESTORE sets the mode through the terminal alone.  "flip" *)
(* is the end of one window and the start of the next in the same chunk.   *)
Dispatched(t, chunk) ==
    CASE chunk = "text"    -> [t EXCEPT !.stale = TRUE]
      [] chunk = "bsu"     -> [t EXCEPT !.sync = TRUE, !.timer = TRUE]
      [] chunk = "esu"     -> [t EXCEPT !.sync = FALSE, !.timer = FALSE]
      [] chunk = "flip"    -> [t EXCEPT !.sync = TRUE, !.timer = TRUE, !.stale = TRUE]
      [] chunk = "save"    -> [t EXCEPT !.saved = IF t.sync THEN "on" ELSE "off"]
      [] chunk = "restore" -> [t EXCEPT !.sync = IF t.saved = "none" THEN @
                                                 ELSE t.saved = "on"]
      [] OTHER             -> t

(* A chunk that begins or ends inside an update leaves grid_dirty alone.   *)
ParsedOutsideOnly(t, chunk) ==
    LET d == Dispatched(t, chunk)
    IN  [d EXCEPT !.gridDirty = @ \/ (~t.sync /\ ~d.sync)]

(* handle_bytes: grid_dirty is left alone inside a synchronized update.    *)
Parsed(t, chunk) ==
    LET d == Dispatched(t, chunk)
    IN  [d EXCEPT !.gridDirty = @ \/ ~d.sync]

(* publish_pending_snapshot: held back by a synchronized update.           *)
PublishPending(t) ==
    IF t.sync \/ ~t.gridDirty THEN t
    ELSE [t EXCEPT !.gridDirty = FALSE, !.stale = FALSE]

(* maybe_produce_snapshot: the same, unless the last one is too recent.    *)
MaybeProduced(t) == {t, PublishPending(t)}

(* handle_command for a command that changes the view, and SnapshotNow.    *)
Commanded(t, cmd) ==
    IF cmd = "snapshot" THEN PublishPending([t EXCEPT !.gridDirty = TRUE])
    ELSE [t EXCEPT !.gridDirty = TRUE, !.stale = TRUE]

Answered(t, cmd) ==
    IF cmd # "snapshot" THEN answer
    ELSE IF t.stale THEN "stale" ELSE "fresh"

(* The timer is disarmed and the mode left set.                            *)
SyncTimedOutKeepsMode(t) ==
    PublishPending([t EXCEPT !.timer = FALSE, !.gridDirty = TRUE])

(* handle_sync_timeout.                                                    *)
SyncTimedOut(t) ==
    PublishPending([t EXCEPT !.sync = FALSE, !.timer = FALSE, !.gridDirty = TRUE])

-----------------------------------------------------------------------------
(* The IO thread.                                                          *)

GoTo(label) == pc' = label /\ UNCHANGED caller
DrainFor(who) == pc' = "enter" /\ caller' = who

(* run, before the loop: the initial snapshot.                             *)
Start ==
    /\ pc = "start"
    /\ term' = [term EXCEPT !.stale = FALSE]
    /\ DrainFor("loop")
    /\ UNCHANGED <<cmdq, byteq, wake, shutdown, resize,
                   token, exitCh, peerVars, asked, answer>>

(* A drain that looks at the slot only when there is a command.            *)
DrainEnterSkipsResize ==
    /\ pc = "enter"
    /\ GoTo("drain")
    /\ UNCHANGED <<term, cmdq, byteq, wake, shutdown, resize,
                   token, exitCh, peerVars, asked, answer>>

(* drain_commands: a pending resize first,                                 *)
DrainEnter ==
    /\ pc = "enter"
    /\ term' = Resized(term, resize)
    /\ resize' = NoSize
    /\ GoTo("drain")
    /\ UNCHANGED <<cmdq, byteq, wake, shutdown, token,
                   exitCh, peerVars, asked, answer>>

(* then each command, with the resize slot emptied before it; Shutdown     *)
(* leaves the rest of the queue and the responses alone;                   *)
DrainCommand ==
    /\ pc = "drain" /\ cmdq # <<>>
    /\ cmdq' = Tail(cmdq)
    /\ resize' = NoSize
    /\ \/ /\ Head(cmdq) = "shutdown"
          /\ term' = Resized(term, resize)
          /\ shutdown' = TRUE
          /\ GoTo("check")
          /\ UNCHANGED answer
       \/ /\ Head(cmdq) # "shutdown"
          /\ term' = Commanded(Resized(term, resize), Head(cmdq))
          /\ answer' = Answered(term', Head(cmdq))
          /\ UNCHANGED <<pc, caller, shutdown>>
    /\ UNCHANGED <<byteq, wake, token, exitCh, peerVars, asked>>

(* and when none is left, the responses: a fulfilled token becomes a PTY   *)
(* write, a dropped one is forgotten.                                      *)
DrainDone ==
    /\ pc = "drain" /\ cmdq = <<>>
    /\ token' = IF token \in {"fulfilled", "dropped"} THEN "none" ELSE token
    /\ GoTo("check")
    /\ UNCHANGED <<term, cmdq, byteq, wake, shutdown, resize,
                   exitCh, peerVars, asked, answer>>

(* The check of the flag after drain_commands.  Between chunks the drain   *)
(* of bytes returns to it; the byte arm of select! returns to the loop.    *)
CheckShutdown ==
    /\ pc = "check"
    /\ \/ /\ shutdown /\ caller # "arm"
          /\ term' = PublishPending(term)
          /\ GoTo("exited")
       \/ /\ shutdown /\ caller = "arm"
          /\ UNCHANGED term
          /\ DrainFor("loop")
       \/ /\ ~shutdown /\ caller = "loop"
          /\ UNCHANGED term
          /\ GoTo("bytes")
       \/ /\ ~shutdown /\ caller = "bytes"
          /\ term' \in MaybeProduced(term)
          /\ GoTo("bytes")
       \/ /\ ~shutdown /\ caller = "arm"
          /\ term' \in MaybeProduced(term)
          /\ DrainFor("loop")
    /\ UNCHANGED <<cmdq, byteq, wake, shutdown, resize,
                   token, exitCh, peerVars, asked, answer>>

(* handle_bytes on the next chunk; a query registers its token and then    *)
(* tells main.                                                             *)
HandleBytes ==
    /\ byteq # <<>>
    /\ byteq' = Tail(byteq)
    /\ term' = Parsed(term, Head(byteq))
    /\ token' = IF Head(byteq) = "query" /\ token = "none" THEN "asked" ELSE token
    /\ UNCHANGED <<cmdq, wake, shutdown, resize, exitCh,
                   peerVars, asked, answer>>

(* Bytes first: commands and responses wait until the channel is empty.    *)
ProcessBytesGreedily == pc = "bytes" /\ HandleBytes /\ GoTo("bytes")

ProcessBytes == pc = "bytes" /\ HandleBytes /\ DrainFor("bytes")

BytesDone ==
    /\ pc = "bytes" /\ byteq = <<>>
    /\ GoTo("quiesce")
    /\ UNCHANGED <<term, cmdq, byteq, wake, shutdown, resize,
                   token, exitCh, peerVars, asked, answer>>

(* The rate-limited snapshot in the place of the flush.                    *)
QuiesceRateLimited ==
    /\ pc = "quiesce"
    /\ term' \in MaybeProduced(term)
    /\ GoTo(IF shutdown THEN "exited" ELSE "select")
    /\ UNCHANGED <<cmdq, byteq, wake, shutdown, resize,
                   token, exitCh, peerVars, asked, answer>>

(* The snapshot at the quiescence point, and the last look at the flag.    *)
Quiesce ==
    /\ pc = "quiesce"
    /\ term' = PublishPending(term)
    /\ GoTo(IF shutdown THEN "exited" ELSE "select")
    /\ UNCHANGED <<cmdq, byteq, wake, shutdown, resize,
                   token, exitCh, peerVars, asked, answer>>

(* The arms of select!.                                                    *)
SelectCmd ==
    /\ pc = "select" /\ cmdq # <<>>
    /\ cmdq' = Tail(cmdq)
    /\ resize' = NoSize
    /\ \/ /\ Head(cmdq) = "shutdown"
          /\ term' = PublishPending(Resized(term, resize))
          /\ shutdown' = TRUE
          /\ GoTo("exited")
          /\ UNCHANGED answer
       \/ /\ Head(cmdq) # "shutdown"
          /\ term' = Commanded(Resized(term, resize), Head(cmdq))
          /\ answer' = Answered(term', Head(cmdq))
          /\ DrainFor("loop")
          /\ UNCHANGED shutdown
    /\ UNCHANGED <<byteq, wake, token, exitCh, peerVars, asked>>

(* The byte arm.  Its other branch, handle_pty_eof, needs the channel to   *)
(* be disconnected, and new_with_handle leaves a sender in the handle,     *)
(* which lives until it has joined this thread: no step takes it.          *)
SelectBytes == pc = "select" /\ HandleBytes /\ DrainFor("arm")

(* The closed receiver stays in the select!, always ready.                 *)
SelectChildExitSpins ==
    /\ pc = "select" /\ exitCh \in {"status", "closed"}
    /\ exitCh' = "closed"
    /\ DrainFor("loop")
    /\ UNCHANGED <<term, cmdq, byteq, wake, shutdown, resize, token,
                   peerVars, asked, answer>>

(* The status is put aside for an EOF that does not come; a receiver       *)
(* without senders is replaced.                                            *)
SelectChildExit ==
    /\ pc = "select" /\ exitCh \in {"status", "closed"}
    /\ exitCh' = IF exitCh = "status" THEN "closed" ELSE "never"
    /\ DrainFor("loop")
    /\ UNCHANGED <<term, cmdq, byteq, wake, shutdown, resize, token,
                   peerVars, asked, answer>>

(* The wake has no content: the next turn of the loop finds what it is for.*)
SelectWake ==
    /\ pc = "select" /\ wake
    /\ wake' = FALSE
    /\ DrainFor("loop")
    /\ UNCHANGED <<term, cmdq, byteq, shutdown, resize, token,
                   exitCh, peerVars, asked, answer>>

(* The default arm, taken only when no other is ready.                     *)
SelectTimeout ==
    /\ pc = "select" /\ term.timer
    /\ cmdq = <<>> /\ byteq = <<>> /\ ~wake
    /\ exitCh \in {"open", "never"}
    /\ term' = SyncTimedOut(term)
    /\ DrainFor("loop")
    /\ UNCHANGED <<cmdq, byteq, wake, shutdown, resize, token,
                   exitCh, peerVars, asked, answer>>

IoStep ==
    \/ Start \/ DrainEnter \/ DrainCommand \/ DrainDone \/ CheckShutdown
    \/ ProcessBytes \/ BytesDone \/ Quiesce
    \/ SelectCmd \/ SelectBytes \/ SelectChildExit \/ SelectWake
    \/ SelectTimeout

-----------------------------------------------------------------------------
(* The reader, the writer, the child and its watcher.                      *)

Alive == pc # "exited"

(* read_loop: a read returns a chunk, which the reader then holds;         *)
ReaderRead ==
    /\ reader = "read" /\ child /\ Outputs # {}
    /\ reader' = "hold"
    /\ UNCHANGED <<ioVars, cmdq, byteq, wake, shutdown, resize, token, exitCh,
                   writer, child, main, ops, asked, answer>>

(* send blocks while the channel is full, and fails once the IO thread,    *)
(* with the receiver, is gone;                                             *)
ReaderSend ==
    /\ reader = "hold"
    /\ \/ /\ Alive /\ Len(byteq) < ByteCap
          /\ \E chunk \in Outputs : byteq' = Append(byteq, chunk)
          /\ reader' = "read"
       \/ /\ ~Alive
          /\ reader' = "done"
          /\ UNCHANGED byteq
    /\ UNCHANGED <<ioVars, cmdq, wake, shutdown, resize, token, exitCh, writer,
                   child, main, ops, asked, answer>>

ReaderEof ==
    /\ reader = "read" /\ ~child
    /\ reader' = "done"
    /\ UNCHANGED <<ioVars, cmdq, byteq, wake, shutdown, resize, token, exitCh,
                   writer, child, main, ops, asked, answer>>

(* and the flag is seen between two reads, not during one.                 *)
ReaderSeesEnd ==
    /\ reader = "read" /\ shutdown
    /\ reader' = "done"
    /\ UNCHANGED <<ioVars, cmdq, byteq, wake, shutdown, resize, token, exitCh,
                   writer, child, main, ops, asked, answer>>

(* The writer stops when it is told to, when it sees the flag on its       *)
(* timeout, or when a write fails; it raises the flag,                     *)
WriterStops ==
    /\ \/ writer = "told"
       \/ writer = "run" /\ shutdown
       \/ writer = "run" /\ ~child /\ "input" \in Ops
    /\ writer' = "flagged"
    /\ shutdown' = TRUE
    /\ UNCHANGED <<ioVars, cmdq, byteq, wake, resize, token, exitCh, reader, child,
                   main, ops, asked, answer>>

(* and then wakes the IO thread.                                           *)
WriterWakes ==
    /\ writer = "flagged"
    /\ writer' = "done"
    /\ wake' = TRUE
    /\ UNCHANGED <<ioVars, cmdq, byteq, shutdown, resize, token, exitCh, reader,
                   child, main, ops, asked, answer>>

ChildExits ==
    /\ child /\ "exit" \in Ops
    /\ child' = FALSE
    /\ UNCHANGED <<ioVars, cmdq, byteq, wake, shutdown, resize, token, exitCh,
                   reader, writer, main, ops, asked, answer>>

(* The watcher sends the status, or drops its sender when wait fails.      *)
WatcherReports ==
    /\ ~child /\ exitCh = "open"
    /\ exitCh' \in {"status", "closed"}
    /\ UNCHANGED <<ioVars, cmdq, byteq, wake, shutdown, resize, token, peerVars,
                   asked, answer>>

-----------------------------------------------------------------------------
(* The side that owns the handle.                                          *)

(* A channel that grows instead of dropping.                               *)
TrySendUnbounded(cmd) == cmdq' = IF Alive THEN Append(cmdq, cmd) ELSE cmdq

(* try_send: a full channel drops the command.                             *)
TrySend(cmd) == cmdq' = IF Len(cmdq) < CmdCap /\ Alive THEN Append(cmdq, cmd) ELSE cmdq

SendCommand(cmd) ==
    /\ main = "idle" /\ cmd \in Ops /\ ops > 0
    /\ TrySend(cmd)
    /\ ops' = ops - 1
    /\ UNCHANGED <<ioVars, byteq, wake, shutdown, resize, token, exitCh, reader,
                   writer, child, main, asked, answer>>

(* send_resize: the store; the wake is the next step.                      *)
SendResize(size) ==
    /\ main = "idle" /\ "resize" \in Ops /\ ops > 0
    /\ resize' = size /\ asked' = size
    /\ ops' = ops - 1
    /\ main' = "wake"
    /\ UNCHANGED <<ioVars, cmdq, byteq, wake, shutdown, token, exitCh, reader,
                   writer, child, answer>>

(* fulfill_clipboard_load and fulfill_color_query: the token, then the     *)
(* wake.  The daemon's ReplyHostRequest fulfills the token and stops there.*)
Fulfill ==
    /\ main = "idle" /\ token = "asked"
    /\ token' = "fulfilled"
    /\ \/ "reply" \in Ops /\ main' = "wake"
       \/ "remoteReply" \in Ops /\ main' = "idle"
    /\ UNCHANGED <<ioVars, cmdq, byteq, wake, shutdown, resize, exitCh, reader,
                   writer, child, ops, asked, answer>>

DropToken ==
    /\ main = "idle" /\ token = "asked" /\ "drop" \in Ops
    /\ token' = "dropped"
    /\ UNCHANGED <<ioVars, cmdq, byteq, wake, shutdown, resize, exitCh, peerVars,
                   asked, answer>>

TrySendWake ==
    /\ main = "wake"
    /\ wake' = TRUE
    /\ main' = "idle"
    /\ UNCHANGED <<ioVars, cmdq, byteq, shutdown, resize, token, exitCh, reader,
                   writer, child, ops, asked, answer>>

(* The pane is dropped: the writer is told to stop,                        *)
DropPane ==
    /\ main = "idle" /\ "close" \in Ops
    /\ writer' = IF writer = "run" THEN "told" ELSE writer
    /\ main' = "kill"
    /\ UNCHANGED <<ioVars, cmdq, byteq, wake, shutdown, resize, token, exitCh,
                   reader, child, ops, asked, answer>>

(* The child is left to end by itself.                                     *)
KillNobody ==
    /\ main = "kill"
    /\ main' = "reap"
    /\ UNCHANGED <<ioVars, cmdq, byteq, wake, shutdown, resize, token, exitCh,
                   reader, writer, child, ops, asked, answer>>

(* the child killed,                                                       *)
KillChild ==
    /\ main = "kill"
    /\ child' = FALSE
    /\ main' = "reap"
    /\ UNCHANGED <<ioVars, cmdq, byteq, wake, shutdown, resize, token, exitCh,
                   reader, writer, ops, asked, answer>>

(* waited for,                                                             *)
ReapChild ==
    /\ main = "reap" /\ exitCh # "open"
    /\ main' = "flag"
    /\ UNCHANGED <<ioVars, cmdq, byteq, wake, shutdown, resize, token, exitCh,
                   reader, writer, child, ops, asked, answer>>

(* and the handle shut down: first the flag,                               *)
RaiseFlag ==
    /\ main = "flag"
    /\ shutdown' = TRUE
    /\ main' = "send"
    /\ UNCHANGED <<ioVars, cmdq, byteq, wake, resize, token, exitCh, reader, writer,
                   child, ops, asked, answer>>

(* then the command if there is room and the wake in any case,             *)
SendShutdown ==
    /\ main = "send"
    /\ TrySend("shutdown")
    /\ wake' = TRUE
    /\ main' = "join"
    /\ UNCHANGED <<ioVars, byteq, shutdown, resize, token, exitCh, reader, writer,
                   child, ops, asked, answer>>

(* then the join.                                                          *)
Join ==
    /\ main = "join" /\ ~Alive
    /\ main' = "closed"
    /\ UNCHANGED <<ioVars, cmdq, byteq, wake, shutdown, resize, token, exitCh,
                   reader, writer, child, ops, asked, answer>>

-----------------------------------------------------------------------------

(* The size the pane was spawned with.                                     *)
SpawnSize == CHOOSE size \in Sizes : TRUE

Init ==
    /\ pc = "start" /\ caller = "loop"
    /\ term = [sync |-> FALSE, timer |-> FALSE, saved |-> "none", size |-> SpawnSize,
               gridDirty |-> FALSE, stale |-> TRUE]
    /\ cmdq = <<>> /\ byteq = <<>>
    /\ wake = FALSE /\ shutdown = FALSE
    /\ resize = NoSize /\ asked = term.size
    /\ token = "none" /\ exitCh = "open"
    /\ reader = "read" /\ writer = "run" /\ child = TRUE /\ main = "idle"
    /\ ops = MaxOps
    /\ answer = "none"

MainContinues ==
    TrySendWake \/ KillChild \/ ReapChild \/ RaiseFlag \/ SendShutdown \/ Join
WriterStep == WriterStops \/ WriterWakes

Next ==
    \/ IoStep \/ WriterStep \/ MainContinues
    \/ ReaderRead \/ ReaderSend \/ ReaderEof \/ ReaderSeesEnd
    \/ ChildExits \/ WatcherReports
    \/ \E cmd \in {"command", "snapshot"} : SendCommand(cmd)
    \/ \E size \in Sizes : SendResize(size)
    \/ Fulfill \/ DropToken \/ DropPane

(* Every thread runs.  What comes from outside (output, the child's exit,  *)
(* commands, resizes, replies, the close) may come or not.                 *)
Fairness ==
    /\ WF_vars(IoStep) /\ WF_vars(ReaderSend \/ ReaderEof)
    /\ WF_vars(WatcherReports)
    /\ WF_vars(WriterStep) /\ WF_vars(MainContinues)

Spec     == Init /\ [][Next]_vars
FairSpec == Spec /\ Fairness

-----------------------------------------------------------------------------
(* Properties.                                                             *)

Terms == [sync : BOOLEAN, timer : BOOLEAN, saved : {"none", "on", "off"},
          size : Sizes, gridDirty : BOOLEAN, stale : BOOLEAN]

(* Every variable has the type of the field it stands for, and neither     *)
(* channel outgrows its capacity.                                          *)
TypeOK ==
    /\ pc \in {"start", "enter", "drain", "check", "bytes", "quiesce", "select", "exited"}
    /\ caller \in {"loop", "bytes", "arm"}
    /\ term \in Terms
    /\ cmdq \in Seq({"command", "snapshot", "shutdown"}) /\ Len(cmdq) <= CmdCap
    /\ byteq \in Seq(Outputs) /\ Len(byteq) <= ByteCap
    /\ wake \in BOOLEAN /\ shutdown \in BOOLEAN
    /\ resize \in Sizes \cup {NoSize} /\ asked \in Sizes
    /\ token \in {"none", "asked", "fulfilled", "dropped"}
    /\ exitCh \in {"open", "status", "closed", "never"}
    /\ reader \in {"read", "hold", "done"}
    /\ writer \in {"run", "told", "flagged", "done"}
    /\ child \in BOOLEAN
    /\ main \in {"idle", "wake", "kill", "reap", "flag", "send", "join", "closed"}
    /\ ops \in 0..MaxOps
    /\ answer \in {"none", "fresh", "stale"}

(* Before the thread blocks, everything it parsed is published: at select! *)
(* only a synchronized update still open can hold something back, however  *)
(* the output was cut into chunks and commands came in between.            *)
NothingHeldBack == pc = "select" /\ term.stale => term.sync

(* A blocked thread misses nothing: with a size to apply, a response to    *)
(* send or a flag to obey, select! has an arm that is ready or whoever     *)
(* stored it is still about to send the wake.                              *)
NoWakeLost ==
    pc = "select" /\ (resize # NoSize \/ token = "fulfilled" \/ shutdown) =>
        wake \/ cmdq # <<>> \/ main \in {"wake", "send"} \/ writer = "flagged"

(* The last size asked for is applied, whatever the child writes.          *)
ResizeApplied ==
    \A size \in Sizes :
        asked = size ~> (term.size = size \/ asked # size \/ ~Alive)

(* A fulfilled host request is answered.                                   *)
ReplyDelivered == token = "fulfilled" ~> (token # "fulfilled" \/ ~Alive)

(* Dropping a pane ends: the join returns and no thread stays behind, with *)
(* both channels full and the child still writing.                         *)
CloseCompletes ==
    main = "kill" ~> (main = "closed" /\ reader = "done" /\ writer = "done")

(* A synchronized update ends, by ESU or by the timer, once the pane's     *)
(* channels fall silent.                                                   *)
SyncEndsWhenQuiet ==
    <>[](byteq = <<>> /\ cmdq = <<>>) => [](term.sync => <>(~term.sync \/ ~Alive))

(* Two promises the code makes and does not keep; they are not checked.    *)
(* A synchronized update left open ends after the timeout: output that     *)
(* never pauses keeps the default arm of select! from being taken.         *)
SyncEnds == term.sync ~> (~term.sync \/ ~Alive)

(* SnapshotNow is answered once a snapshot of what came before is out:     *)
(* inside a synchronized update it is answered and nothing is published.   *)
SnapshotNowIsFresh == answer # "stale"

(* Checked, and found not to hold: once the child has ended and the reader *)
(* with it, the byte arm hands off to the EOF handler and the loop exits   *)
(* (which is how the exit is reported), unless the pane is being closed.   *)
ExitEndsThread ==
    (reader = "done" /\ ~child) ~> (~Alive \/ main \notin {"idle", "wake"})
=============================================================================
