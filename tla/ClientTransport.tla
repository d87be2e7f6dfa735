--------------------------- MODULE ClientTransport ---------------------------
(***************************************************************************)
(* One connection of a client to the daemon, as the client's three threads *)
(* see it: the main thread, which makes RPCs and sends requests it wants   *)
(* no answer to; the writer, which takes them from a channel, keeps the    *)
(* reply sender of an RPC and writes the frame, and pings; and the reader, *)
(* which hands answers to their callers.  Dropping the transport joins     *)
(* both threads.  The daemon answers in order, stops reading (wedged) or   *)
(* is gone.                                                                *)
(*                                                                         *)
(* Requests are numbered by `sends`; the sequence number on the wire wraps *)
(* at SeqMax (u32::MAX).  Time is left out: an interval or a timeout may   *)
(* elapse at any moment.  Notifications are in DaemonClients.              *)
(***************************************************************************)
EXTENDS Integers, Sequences, Functions

CONSTANTS
    SeqMax,     \* the largest sequence number
    MaxSends,   \* bound on the requests
    Capacity    \* frames the socket takes before a write blocks

ASSUME TransportAssumption ==
    /\ SeqMax \in Nat /\ SeqMax >= 3
    /\ MaxSends \in Nat /\ Capacity \in Nat \ {0}

VARIABLES
    (* the main thread *)
    main,       \* where it is in rpc or in drop
    call,       \* the number of the RPC it waits for
    reply,      \* what has arrived in the reply channel of that RPC
    next_seq, sends,
    (* shared *)
    alive, queue, sendOpen, pending, outstanding,
    (* the writer and the reader thread *)
    writer, hand, pingSeq, reader,
    (* the socket and the daemon *)
    writeOpen, up, wire, daemon

mainVars   == <<main, call, reply, next_seq, sends>>
writerVars == <<writer, hand, pingSeq>>
socketVars == <<writeOpen, up, wire, daemon>>
vars == <<mainVars, alive, queue, sendOpen, pending, outstanding, writerVars,
          reader, socketVars>>

Frame(op, seq, n) == [op |-> op, seq |-> seq, n |-> n]
NoFrame == Frame("none", 0, 0)

(* The requests that have not been answered.                               *)
Unanswered == {f \in Range(queue) \cup {hand} \cup Range(up) \cup Range(wire) :
                 f.op \in {"rpc", "answer"}}

(* The reply sender of request n exists somewhere.                         *)
HasSender(n) ==
    \/ \E f \in Range(queue) : f.op = "rpc" /\ f.n = n
    \/ \E s \in 1..SeqMax : pending[s] = n

-----------------------------------------------------------------------------
(* The main thread.                                                        *)

(* alloc_seq: zero is skipped.                                             *)
SuccSeqEarly(s) == IF s >= SeqMax - 1 THEN 1 ELSE s + 1
SuccSeq(s) == IF s = SeqMax THEN 1 ELSE s + 1

(* send on the channel fails when the writer has returned.  The bound: in  *)
(* the time one request is unanswered, fewer than SeqMax follow it.        *)
Enqueue(op) ==
    /\ sends < MaxSends
    /\ \A f \in Unanswered : sends + 1 - f.n < SeqMax
    /\ sends' = sends + 1
    /\ next_seq' = SuccSeq(next_seq)
    /\ queue' = IF writer = "done" THEN queue
                ELSE Append(queue, Frame(op, next_seq, sends'))

(* rpc: the connection is alive when asked.                                *)
StartRpc ==
    /\ main = "idle" /\ alive
    /\ main' = "rpc"
    /\ UNCHANGED <<call, reply, next_seq, sends, alive, queue, sendOpen,
                   pending, outstanding, writerVars, reader, socketVars>>

SendRpc ==
    /\ main = "rpc"
    /\ Enqueue("rpc")
    /\ \/ writer = "done" /\ main' = "idle" /\ UNCHANGED <<call, reply>>
       \/ writer # "done" /\ main' = "wait" /\ call' = sends' /\ reply' = 0
    /\ UNCHANGED <<alive, sendOpen, pending, outstanding, writerVars, reader,
                   socketVars>>

(* fire_and_forget and try_fire_and_forget.                                *)
FireAndForget ==
    /\ main = "idle" /\ alive
    /\ Enqueue("send")
    /\ UNCHANGED <<main, call, reply, alive, sendOpen, pending, outstanding,
                   writerVars, reader, socketVars>>

(* recv_timeout returns an answer, or that every sender is gone.           *)
RpcReturns ==
    /\ main = "wait"
    /\ reply # 0 \/ ~HasSender(call)
    /\ main' = "idle" /\ call' = 0 /\ reply' = 0
    /\ UNCHANGED <<next_seq, sends, alive, queue, sendOpen, pending,
                   outstanding, writerVars, reader, socketVars>>

(* RPC_TIMEOUT: the entry in pending stays.                                *)
RpcTimesOut ==
    /\ main = "wait" /\ reply = 0
    /\ main' = "idle" /\ call' = 0
    /\ UNCHANGED <<reply, next_seq, sends, alive, queue, sendOpen, pending,
                   outstanding, writerVars, reader, socketVars>>

(* Drop: close the channel, abort a blocked write, join the writer, tell   *)
(* the reader and join it.                                                 *)
DropClose ==
    /\ main = "idle"
    /\ main' = "shutdown" /\ sendOpen' = FALSE
    /\ UNCHANGED <<call, reply, next_seq, sends, alive, queue, pending,
                   outstanding, writerVars, reader, socketVars>>

DropShutdownSkipped ==
    /\ main = "shutdown"
    /\ main' = "join"
    /\ UNCHANGED <<call, reply, next_seq, sends, alive, queue, sendOpen,
                   pending, outstanding, writerVars, reader, socketVars>>
DropShutdown ==
    /\ main = "shutdown"
    /\ main' = "join" /\ writeOpen' = FALSE
    /\ UNCHANGED <<call, reply, next_seq, sends, alive, queue, sendOpen,
                   pending, outstanding, writerVars, reader, up, wire, daemon>>

DropJoin ==
    /\ \/ /\ main = "join" /\ writer = "done"
          /\ main' = "joinReader" /\ alive' = FALSE
       \/ /\ main = "joinReader" /\ reader = "done"
          /\ main' = "dropped" /\ UNCHANGED alive
    /\ UNCHANGED <<call, reply, next_seq, sends, queue, sendOpen, pending,
                   outstanding, writerVars, reader, socketVars>>

-----------------------------------------------------------------------------
(* The writer.                                                             *)

NoPending == [s \in 1..SeqMax |-> 0]

(* Every way out: the connection is marked dead, drain_pending drops the   *)
(* senders, and the channel's end drops the requests still in it.          *)
WriterEndsKeepsQueue ==
    /\ writer' = "done" /\ hand' = NoFrame /\ alive' = FALSE
    /\ pending' = NoPending
    /\ UNCHANGED queue
WriterEnds ==
    /\ writer' = "done" /\ hand' = NoFrame /\ alive' = FALSE
    /\ pending' = NoPending
    /\ queue' = <<>>

(* The top of the loop.                                                    *)
WriterTop ==
    /\ writer = "top"
    /\ \/ ~alive /\ WriterEnds
       \/ alive /\ writer' = "recv" /\ UNCHANGED <<alive, queue, pending, hand>>
    /\ UNCHANGED <<mainVars, sendOpen, outstanding, pingSeq, reader,
                   socketVars>>

(* A request: its sender is kept before its frame is written.  Or the      *)
(* timeout, or the end of the channel.                                     *)
WriterRecv ==
    /\ writer = "recv"
    /\ \/ /\ queue # <<>>
          /\ queue' = Tail(queue) /\ hand' = Head(queue)
          /\ pending' = IF Head(queue).op = "rpc"
                        THEN [pending EXCEPT ![Head(queue).seq] = Head(queue).n]
                        ELSE pending
          /\ writer' = "write" /\ UNCHANGED alive
       \/ /\ queue = <<>> /\ sendOpen
          /\ writer' = "health" /\ UNCHANGED <<alive, queue, pending, hand>>
       \/ queue = <<>> /\ ~sendOpen /\ WriterEnds
    /\ UNCHANGED <<mainVars, sendOpen, outstanding, pingSeq, reader,
                   socketVars>>

(* A write fails once the daemon is gone or the write side is shut down,   *)
(* and blocks while the socket is full.                                    *)
WriterWrite ==
    /\ writer \in {"write", "ping"}
    /\ \/ /\ ~writeOpen \/ daemon = "gone"
          /\ WriterEnds
          /\ outstanding' = IF writer = "ping" THEN 0 ELSE outstanding
          /\ UNCHANGED up
       \/ /\ writeOpen /\ daemon # "gone" /\ Len(up) < Capacity
          /\ up' = Append(up, hand) /\ hand' = NoFrame
          /\ writer' = IF writer = "write" THEN "health" ELSE "top"
          /\ UNCHANGED <<alive, queue, pending, outstanding>>
    /\ UNCHANGED <<mainVars, sendOpen, pingSeq, reader, writeOpen, wire,
                   daemon>>

(* The health check, when PING_INTERVAL has elapsed: an unanswered ping is *)
(* the end, otherwise the next one is published before it is written.      *)
PublishPingNext ==
    /\ outstanding' = IF pingSeq = 1 THEN SeqMax ELSE pingSeq - 1
    /\ pingSeq' = IF pingSeq = 1 THEN SeqMax ELSE pingSeq - 1
    /\ hand' = Frame("ping", pingSeq, 0)
PublishPing ==
    /\ outstanding' = pingSeq
    /\ pingSeq' = IF pingSeq = 1 THEN SeqMax ELSE pingSeq - 1
    /\ hand' = Frame("ping", pingSeq, 0)

WriterHealth ==
    /\ writer = "health"
    /\ \/ /\ writer' = "top"
          /\ UNCHANGED <<alive, queue, pending, outstanding, hand, pingSeq>>
       \/ outstanding # 0 /\ WriterEnds /\ UNCHANGED <<outstanding, pingSeq>>
       \/ /\ outstanding = 0
          /\ PublishPing
          /\ writer' = "ping" /\ UNCHANGED <<alive, queue, pending>>
    /\ UNCHANGED <<mainVars, sendOpen, reader, socketVars>>

-----------------------------------------------------------------------------
(* The reader.                                                             *)

(* When it returns as the last thread, the pending map goes too.           *)
ReaderEnds ==
    /\ reader' = "done" /\ alive' = FALSE
    /\ pending' = IF writer = "done" THEN NoPending ELSE pending

(* The top of the loop, where alive is looked at, and the wait for data.   *)
ReaderTop ==
    /\ reader = "top"
    /\ \/ ~alive /\ ReaderEnds
       \/ /\ alive /\ (wire # <<>> \/ daemon = "gone")
          /\ reader' = "frames" /\ UNCHANGED <<alive, pending>>
    /\ UNCHANGED <<mainVars, queue, sendOpen, outstanding, writerVars,
                   socketVars>>

(* A frame: the answer to the ping that is outstanding, or one for whoever *)
(* is pending under its number; a late answer finds its receiver gone.     *)
DispatchAnyAck(f) ==
    \/ /\ outstanding # 0 /\ f.seq = outstanding
       /\ outstanding' = 0
       /\ UNCHANGED <<pending, reply>>
    \/ /\ ~(outstanding # 0 /\ f.seq = outstanding)
       /\ pending' = [pending EXCEPT ![f.seq] = 0]
       /\ reply' = IF main = "wait" /\ pending[f.seq] = call THEN f.n ELSE reply
       /\ UNCHANGED outstanding
Dispatch(f) ==
    \/ /\ outstanding # 0 /\ f.seq = outstanding /\ f.op = "ack"
       /\ outstanding' = 0
       /\ UNCHANGED <<pending, reply>>
    \/ /\ ~(outstanding # 0 /\ f.seq = outstanding /\ f.op = "ack")
       /\ pending' = [pending EXCEPT ![f.seq] = 0]
       /\ reply' = IF main = "wait" /\ pending[f.seq] = call THEN f.n ELSE reply
       /\ UNCHANGED outstanding

(* read_and_dispatch_frames goes on while there is data, and ends the      *)
(* thread at the end of the stream.                                        *)
ReaderFrame ==
    /\ reader = "frames"
    /\ \/ /\ wire # <<>>
          /\ Dispatch(Head(wire))
          /\ wire' = Tail(wire)
          /\ reader' = IF wire' = <<>> THEN "top" ELSE "frames"
          /\ UNCHANGED alive
       \/ /\ wire = <<>> /\ daemon = "gone"
          /\ ReaderEnds
          /\ UNCHANGED <<wire, reply, outstanding>>
    /\ UNCHANGED <<main, call, next_seq, sends, queue, sendOpen, writerVars,
                   writeOpen, up, daemon>>

-----------------------------------------------------------------------------
(* The daemon.                                                             *)

(* It handles the next frame; requests without an answer get none.         *)
DaemonAnswers ==
    /\ daemon = "up" /\ up # <<>>
    /\ up' = Tail(up)
    /\ LET f == Head(up) IN
         wire' = CASE f.op = "rpc"  -> Append(wire, Frame("answer", f.seq, f.n))
                   [] f.op = "ping" -> Append(wire, Frame("ack", f.seq, 0))
                   [] f.op = "send" -> wire
    /\ UNCHANGED <<mainVars, alive, queue, sendOpen, pending, outstanding,
                   writerVars, reader, writeOpen, daemon>>

(* It hangs; or it ends, or closes the connection at the end of the        *)
(* client's stream.  What it has not read is lost.                         *)
DaemonWedges ==
    /\ daemon = "up"
    /\ daemon' = "wedged"
    /\ UNCHANGED <<mainVars, alive, queue, sendOpen, pending, outstanding,
                   writerVars, reader, writeOpen, up, wire>>

DaemonEnds ==
    /\ daemon # "gone"
    /\ daemon' = "gone" /\ up' = <<>>
    /\ UNCHANGED <<mainVars, alive, queue, sendOpen, pending, outstanding,
                   writerVars, reader, writeOpen, wire>>

-----------------------------------------------------------------------------
Init ==
    /\ main = "idle" /\ call = 0 /\ reply = 0 /\ next_seq = 3 /\ sends = 0
    /\ alive = TRUE /\ queue = <<>> /\ sendOpen = TRUE
    /\ pending = NoPending /\ outstanding = 0
    /\ writer = "top" /\ hand = NoFrame /\ pingSeq = SeqMax /\ reader = "top"
    /\ writeOpen = TRUE /\ up = <<>> /\ wire = <<>> /\ daemon = "up"

Writer == WriterTop \/ WriterRecv \/ WriterWrite \/ WriterHealth
Reader == ReaderTop \/ ReaderFrame
Drop   == DropShutdown \/ DropJoin

Next ==
    \/ StartRpc \/ SendRpc \/ FireAndForget \/ RpcReturns \/ RpcTimesOut
    \/ DropClose \/ Drop
    \/ Writer \/ Reader
    \/ DaemonAnswers \/ DaemonWedges \/ DaemonEnds

(* Threads run and destructors finish; nothing is assumed of the daemon,   *)
(* and no caller is rescued by its timeout.                                *)
Fairness == WF_vars(Writer) /\ WF_vars(Reader) /\ WF_vars(Drop)
                            /\ WF_vars(RpcReturns)

Spec == Init /\ [][Next]_vars /\ Fairness

-----------------------------------------------------------------------------
Numbers == 0..MaxSends
UpFrames == [op : {"rpc", "send"}, seq : 1..SeqMax, n : 1..MaxSends]
              \cup [op : {"ping"}, seq : 1..SeqMax, n : {0}]
DownFrames == [op : {"answer"}, seq : 1..SeqMax, n : 1..MaxSends]
                \cup [op : {"ack"}, seq : 1..SeqMax, n : {0}]

(* The variables have their types: above all, no sequence number is ever   *)
(* zero, the mark of notifications and of "no ping" (alloc_seq,            *)
(* next_ping_seq).                                                         *)
TypeOK ==
    /\ main \in {"idle", "rpc", "wait", "shutdown", "join", "joinReader",
                 "dropped"}
    /\ call \in Numbers /\ reply \in Numbers
    /\ next_seq \in 1..SeqMax /\ sends \in Numbers
    /\ alive \in BOOLEAN /\ sendOpen \in BOOLEAN /\ writeOpen \in BOOLEAN
    /\ queue \in Seq(UpFrames)
    /\ up \in Seq(UpFrames) /\ wire \in Seq(DownFrames)
    /\ pending \in [1..SeqMax -> Numbers] /\ outstanding \in 0..SeqMax
    /\ writer \in {"top", "recv", "write", "ping", "health", "done"}
    /\ hand \in UpFrames \cup {NoFrame} /\ pingSeq \in 1..SeqMax
    /\ reader \in {"top", "frames", "done"}
    /\ daemon \in {"up", "wedged", "gone"}

(* A caller gets the answer to its own request, although requests time     *)
(* out, their answers come late and sequence numbers are used again.       *)
AnswersCorrelate == main = "wait" /\ reply # 0 => reply = call

(* A call that is waited for is never lost while the connection lives: it  *)
(* is in the channel, or it is in the writer's hands or on the way and     *)
(* the reader will find its sender, whatever number a ping has.            *)
CallIsTracked ==
    main = "wait" /\ reply = 0 /\ daemon # "gone" /\ alive =>
        \/ \E f \in Range(queue) : f.n = call
        \/ \E f \in {hand} \cup Range(up) \cup Range(wire) :
              f.n = call /\ pending[f.seq] = call

(* A ping counted as unanswered has its answer still to come: the writer   *)
(* never takes a connection for dead after the answer has been dropped     *)
(* (the ping is published before it is written).                           *)
PingIsTracked ==
    outstanding # 0 /\ daemon # "gone" /\ alive =>
        \E f \in {hand} \cup Range(up) \cup Range(wire) :
            f.op \in {"ping", "ack"} /\ f.seq = outstanding

(* When the daemon is gone, a caller comes back without its timeout: both  *)
(* threads end and take every reply sender with them.                      *)
GoneFreesCaller == daemon = "gone" /\ main = "wait" ~> main # "wait"

(* Dropping the transport ends, even when the writer is blocked in a write *)
(* to a daemon that does not read.                                         *)
DropEnds == main = "shutdown" ~> main = "dropped"

=============================================================================
