------------------------ MODULE ClientTransportProofs ------------------------
(***************************************************************************)
(* Theorems about ClientTransport: answers reach the caller they belong to *)
(* and nothing that is waited for is forgotten while the connection lives, *)
(* for any range of sequence numbers and any number of requests.           *)
(***************************************************************************)
EXTENDS ClientTransport, TLAPS

(* A request that is not answered is younger than SeqMax requests, so its  *)
(* sequence number says which one it is.                                   *)
Windowed(f) ==
    LET age == sends - f.n
    IN  age \in 0..(SeqMax - 1) /\ f.seq + age + 1 \in {next_seq, next_seq + SeqMax}

UnansweredWindowed == \A f \in Unanswered : Windowed(f)

(* The writer has a frame in its hands only where it writes one, and only  *)
(* requests come through the channel.                                      *)
HandMatchesPlace ==
    /\ \A f \in Range(queue) : f.op \in {"rpc", "send"}
    /\ writer = "write" => hand.op \in {"rpc", "send"}
    /\ writer = "ping" => hand.op = "ping"
    /\ writer \notin {"write", "ping"} => hand = NoFrame

(* The caller waits for the youngest request, and where pending knows it,  *)
(* it does by the number the request was given.                            *)
CallIsYoungest ==
    /\ \A s \in 1..SeqMax : pending[s] <= sends
    /\ main = "wait" =>
         /\ call = sends /\ call # 0
         /\ \A s \in 1..SeqMax : pending[s] = call => s + 1 \in {next_seq, next_seq + SeqMax}

(* There is one ping at a time, and it is the outstanding one.             *)
IsPing(f) == f.op \in {"ping", "ack"}
Single(s) == \A i, j \in 1..Len(s) : IsPing(s[i]) /\ IsPing(s[j]) => i = j
HasPing(s) == \E f \in Range(s) : IsPing(f)
OnePing ==
    /\ \A f \in {hand} \cup Range(up) \cup Range(wire) : IsPing(f) => f.seq = outstanding
    /\ Single(up) /\ Single(wire)
    /\ HasPing(wire) => ~HasPing(up) /\ ~IsPing(hand)
    /\ HasPing(up) => ~IsPing(hand)

(* CallIsTracked, with the frames being the call's own.                    *)
CallTracked ==
    main = "wait" /\ reply = 0 /\ daemon # "gone" /\ alive =>
        \/ \E f \in Range(queue) : f.op = "rpc" /\ f.n = call
        \/ \E f \in {hand} \cup Range(up) \cup Range(wire) :
              f.op \in {"rpc", "answer"} /\ f.n = call /\ pending[f.seq] = call

Inv ==
    /\ TypeOK /\ UnansweredWindowed /\ HandMatchesPlace /\ CallIsYoungest /\ OnePing
    /\ AnswersCorrelate /\ CallTracked /\ PingIsTracked

-----------------------------------------------------------------------------
(* Sequences and what is in them.                                          *)
LEMMA RangeEmpty == Range(<<>>) = {}
  BY DEF Range

LEMMA RangeAppend ==
    ASSUME NEW S, NEW s \in Seq(S), NEW e
    PROVE  Range(Append(s, e)) = Range(s) \cup {e}
<1>1. /\ DOMAIN Append(s, e) = 1..(Len(s) + 1) /\ DOMAIN s = 1..Len(s) /\ Len(s) \in Nat
      /\ \A i \in 1..Len(s) : Append(s, e)[i] = s[i]
      /\ Append(s, e)[Len(s) + 1] = e
  OBVIOUS
<1> QED  BY <1>1 DEF Range

LEMMA RangeTail ==
    ASSUME NEW S, NEW s \in Seq(S), s # <<>>
    PROVE  /\ Range(s) = {Head(s)} \cup Range(Tail(s))
           /\ Head(s) \in S /\ Tail(s) \in Seq(S)
<1>1. /\ Len(s) \in Nat \ {0} /\ DOMAIN s = 1..Len(s) /\ DOMAIN Tail(s) = 1..(Len(s) - 1)
      /\ \A i \in 1..(Len(s) - 1) : Tail(s)[i] = s[i + 1]
      /\ Head(s) = s[1] /\ Head(s) \in S /\ Tail(s) \in Seq(S)
  OBVIOUS
<1>2. Range(s) \subseteq {Head(s)} \cup Range(Tail(s))
  <2> SUFFICES ASSUME NEW i \in 1..Len(s), i # 1 PROVE s[i] \in Range(Tail(s))
    BY <1>1 DEF Range
  <2>1. i - 1 \in 1..(Len(s) - 1) /\ s[i] = Tail(s)[i - 1]
    BY <1>1
  <2> QED  BY <1>1, <2>1 DEF Range
<1>3. {Head(s)} \cup Range(Tail(s)) \subseteq Range(s)
  <2>1. \A i \in 1..(Len(s) - 1) : Tail(s)[i] \in Range(s)
    <3> TAKE i \in 1..(Len(s) - 1)
    <3>1. i + 1 \in 1..Len(s) /\ Tail(s)[i] = s[i + 1]
      BY <1>1
    <3> QED  BY <1>1, <3>1 DEF Range
  <2> QED  BY <1>1, <2>1 DEF Range
<1> QED  BY <1>1, <1>2, <1>3

LEMMA RangeIn ==
    ASSUME NEW S, NEW s \in Seq(S) PROVE Range(s) \subseteq S
  BY DEF Range

LEMMA SingleAppend ==
    ASSUME NEW S, NEW s \in Seq(S), NEW e, Single(s), HasPing(s) => ~IsPing(e)
    PROVE  Single(Append(s, e))
<1>1. /\ Len(s) \in Nat /\ Len(Append(s, e)) = Len(s) + 1 /\ DOMAIN s = 1..Len(s)
      /\ \A i \in 1..Len(s) : Append(s, e)[i] = s[i]
      /\ Append(s, e)[Len(s) + 1] = e
  OBVIOUS
<1>2. \A i \in 1..Len(s) : s[i] \in Range(s)
  BY <1>1 DEF Range
<1> QED  BY <1>1, <1>2 DEF Single, HasPing

LEMMA SingleTail ==
    ASSUME NEW S, NEW s \in Seq(S), s # <<>>, Single(s)
    PROVE  Single(Tail(s)) /\ (IsPing(Head(s)) => ~HasPing(Tail(s)))
<1>1. /\ Len(s) \in Nat \ {0} /\ Len(Tail(s)) = Len(s) - 1
      /\ DOMAIN Tail(s) = 1..(Len(s) - 1)
      /\ \A i \in 1..(Len(s) - 1) : Tail(s)[i] = s[i + 1]
      /\ Head(s) = s[1]
  OBVIOUS
<1>2. Single(Tail(s))
  <2> SUFFICES ASSUME NEW i \in 1..(Len(s) - 1), NEW j \in 1..(Len(s) - 1),
                      IsPing(s[i + 1]), IsPing(s[j + 1])
               PROVE  i = j
    BY <1>1 DEF Single
  <2>1. i + 1 \in 1..Len(s) /\ j + 1 \in 1..Len(s)
    BY <1>1
  <2>2. i + 1 = j + 1
    BY <2>1 DEF Single
  <2> QED  BY <2>2
<1>3. ASSUME IsPing(Head(s)), HasPing(Tail(s)) PROVE FALSE
  <2>1. PICK i \in 1..(Len(s) - 1) : IsPing(s[i + 1])
    BY <1>1, <1>3 DEF HasPing, Range
  <2>2. i + 1 \in 1..Len(s) /\ 1 \in 1..Len(s)
    BY <1>1
  <2>3. i + 1 = 1
    BY <1>1, <1>3, <2>1, <2>2 DEF Single
  <2> QED  BY <2>3
<1> QED  BY <1>2, <1>3

(* Two unanswered requests with one number are one.                        *)
LEMMA SameNumber ==
    ASSUME TypeOK, NEW f, NEW g, f.seq \in 1..SeqMax, g.seq \in 1..SeqMax,
           f.n \in 1..MaxSends, g.n \in 1..MaxSends, Windowed(f), Windowed(g)
    PROVE  f.seq = g.seq <=> f.n = g.n
<1>1. /\ SeqMax \in Nat /\ sends \in Nat /\ next_seq \in Nat
      /\ f.seq \in Nat /\ g.seq \in Nat /\ f.n \in Nat /\ g.n \in Nat
      /\ 1 <= f.seq /\ f.seq <= SeqMax /\ 1 <= g.seq /\ g.seq <= SeqMax
  BY TransportAssumption DEF TypeOK, Numbers
<1>2. /\ 0 <= sends - f.n /\ sends - f.n < SeqMax
      /\ 0 <= sends - g.n /\ sends - g.n < SeqMax
      /\ \/ f.seq + (sends - f.n) + 1 = next_seq
         \/ f.seq + (sends - f.n) + 1 = next_seq + SeqMax
      /\ \/ g.seq + (sends - g.n) + 1 = next_seq
         \/ g.seq + (sends - g.n) + 1 = next_seq + SeqMax
  BY <1>1 DEF Windowed
<1> QED  BY <1>1, <1>2

-----------------------------------------------------------------------------
LEMMA TypedInit == Init => TypeOK
  BY TransportAssumption DEF Init, TypeOK, NoPending, Numbers, NoFrame

(* What alloc_seq gives out is a sequence number.                          *)
LEMMA SuccSeqType == \A s \in 1..SeqMax : SuccSeq(s) \in 1..SeqMax
  BY TransportAssumption DEF SuccSeq

LEMMA EnqueueTyped ==
    ASSUME TypeOK, NEW op \in {"rpc", "send"}, Enqueue(op)
    PROVE  /\ next_seq' \in 1..SeqMax /\ sends' = sends + 1 /\ sends' \in 1..MaxSends
           /\ Frame(op, next_seq, sends') \in UpFrames
           /\ queue' \in Seq(UpFrames)
<1>1. sends' = sends + 1 /\ sends' \in 1..MaxSends /\ next_seq' \in 1..SeqMax
  BY SuccSeqType, TransportAssumption DEF Enqueue, TypeOK, Numbers
<1>2. Frame(op, next_seq, sends') \in UpFrames
  BY <1>1 DEF TypeOK, UpFrames, Frame
<1> QED  BY <1>1, <1>2 DEF Enqueue, TypeOK

LEMMA EmptyTyped ==
    NoPending \in [1..SeqMax -> Numbers] /\ <<>> \in Seq(UpFrames)
<1>1. 0 \in Numbers
  BY TransportAssumption DEF Numbers
<1>2. NoPending \in [1..SeqMax -> Numbers]
  BY <1>1 DEF NoPending
<1>3. <<>> \in Seq(UpFrames)
  <2> DEFINE S == UpFrames
  <2> HIDE DEF S
  <2>1. <<>> \in Seq(S)
    OBVIOUS
  <2> QED  BY <2>1 DEF S
<1> QED  BY <1>2, <1>3

LEMMA WriterEndsTyped ==
    ASSUME WriterEnds
    PROVE  /\ writer' = "done" /\ hand' \in UpFrames \cup {NoFrame}
           /\ alive' \in BOOLEAN /\ pending' \in [1..SeqMax -> Numbers]
           /\ queue' \in Seq(UpFrames)
  BY EmptyTyped DEF WriterEnds

LEMMA ReaderEndsTyped ==
    ASSUME TypeOK, ReaderEnds
    PROVE  reader' = "done" /\ alive' \in BOOLEAN /\ pending' \in [1..SeqMax -> Numbers]
  BY EmptyTyped DEF TypeOK, ReaderEnds

LEMMA TypedNext == TypeOK /\ HandMatchesPlace /\ [Next]_vars => TypeOK'
<1> SUFFICES ASSUME TypeOK, HandMatchesPlace, [Next]_vars PROVE TypeOK'
  OBVIOUS
<1> USE DEF mainVars, writerVars, socketVars
<1>1. CASE UNCHANGED vars
  BY <1>1 DEF vars, TypeOK
<1>2. CASE StartRpc
  BY <1>2 DEF StartRpc, TypeOK
<1>3. CASE SendRpc
  <2>1. next_seq' \in 1..SeqMax /\ sends' \in 1..MaxSends /\ queue' \in Seq(UpFrames)
    BY <1>3, EnqueueTyped DEF SendRpc
  <2>2. call' \in Numbers /\ reply' \in Numbers /\ main' \in {"idle", "wait"}
    BY <1>3, <2>1, TransportAssumption DEF SendRpc, TypeOK, Numbers
  <2>3. sends' \in Numbers
    BY <2>1 DEF Numbers
  <2> QED  BY <1>3, <2>1, <2>2, <2>3 DEF SendRpc, TypeOK
<1>4. CASE FireAndForget
  <2>1. next_seq' \in 1..SeqMax /\ sends' \in 1..MaxSends /\ queue' \in Seq(UpFrames)
    BY <1>4, EnqueueTyped DEF FireAndForget
  <2>2. sends' \in Numbers
    BY <2>1 DEF Numbers
  <2> QED  BY <1>4, <2>1, <2>2 DEF FireAndForget, TypeOK
<1>5. CASE RpcReturns \/ RpcTimesOut
  BY <1>5, TransportAssumption DEF RpcReturns, RpcTimesOut, TypeOK, Numbers
<1>6. CASE DropClose \/ DropShutdown \/ DropJoin
  BY <1>6 DEF DropClose, DropShutdown, DropJoin, TypeOK
<1>7. CASE WriterTop
  <2>1. CASE WriterEnds
    BY <1>7, <2>1, WriterEndsTyped DEF WriterTop, TypeOK
  <2>2. CASE writer' = "recv" /\ UNCHANGED <<alive, queue, pending, hand>>
    BY <1>7, <2>2 DEF WriterTop, TypeOK
  <2> QED  BY <1>7, <2>1, <2>2 DEF WriterTop
<1>8. CASE WriterRecv
  <2>1. CASE WriterEnds
    BY <1>8, <2>1, WriterEndsTyped DEF WriterRecv, TypeOK
  <2>2. CASE writer' = "health" /\ UNCHANGED <<alive, queue, pending, hand>>
    BY <1>8, <2>2 DEF WriterRecv, TypeOK
  <2>3. CASE /\ queue # <<>> /\ queue' = Tail(queue) /\ hand' = Head(queue)
             /\ pending' = IF Head(queue).op = "rpc"
                           THEN [pending EXCEPT ![Head(queue).seq] = Head(queue).n]
                           ELSE pending
             /\ writer' = "write" /\ UNCHANGED alive
    <3>1. Head(queue) \in UpFrames /\ Tail(queue) \in Seq(UpFrames)
      BY <2>3, RangeTail DEF TypeOK
    <3>2. Head(queue).n \in Numbers
      BY <3>1, TransportAssumption DEF UpFrames, Numbers
    <3>3. pending' \in [1..SeqMax -> Numbers]
      BY <2>3, <3>2 DEF TypeOK
    <3> QED  BY <1>8, <2>3, <3>1, <3>3 DEF WriterRecv, TypeOK
  <2> QED  BY <1>8, <2>1, <2>2, <2>3 DEF WriterRecv
<1>9. CASE WriterWrite
  <2>1. CASE WriterEnds /\ UNCHANGED up
    <3>1. outstanding' \in 0..SeqMax
      BY <1>9, TransportAssumption DEF WriterWrite, TypeOK
    <3> QED  BY <1>9, <2>1, <3>1, WriterEndsTyped DEF WriterWrite, TypeOK
  <2>2. CASE /\ up' = Append(up, hand) /\ hand' = NoFrame
             /\ writer' = IF writer = "write" THEN "health" ELSE "top"
             /\ UNCHANGED <<alive, queue, pending, outstanding>>
    <3>1. hand \in UpFrames
      BY <1>9 DEF WriterWrite, HandMatchesPlace, TypeOK, NoFrame, Frame
    <3> QED  BY <1>9, <2>2, <3>1 DEF WriterWrite, TypeOK
  <2> QED  BY <1>9, <2>1, <2>2 DEF WriterWrite
<1>10. CASE WriterHealth
  <2>1. CASE WriterEnds /\ UNCHANGED <<outstanding, pingSeq>>
    BY <1>10, <2>1, WriterEndsTyped DEF WriterHealth, TypeOK
  <2>2. CASE writer' = "top" /\ UNCHANGED <<alive, queue, pending, outstanding, hand, pingSeq>>
    BY <1>10, <2>2 DEF WriterHealth, TypeOK
  <2>3. CASE PublishPing /\ writer' = "ping" /\ UNCHANGED <<alive, queue, pending>>
    <3>1. pingSeq' \in 1..SeqMax /\ outstanding' \in 0..SeqMax
      BY <2>3, TransportAssumption DEF PublishPing, TypeOK
    <3>2. hand' \in UpFrames
      BY <2>3 DEF PublishPing, TypeOK, UpFrames, Frame
    <3> QED  BY <1>10, <2>3, <3>1, <3>2 DEF WriterHealth, TypeOK
  <2> QED  BY <1>10, <2>1, <2>2, <2>3 DEF WriterHealth
<1>11. CASE ReaderTop
  <2>1. CASE ReaderEnds
    BY <1>11, <2>1, ReaderEndsTyped DEF ReaderTop, TypeOK
  <2>2. CASE reader' = "frames" /\ UNCHANGED <<alive, pending>>
    BY <1>11, <2>2 DEF ReaderTop, TypeOK
  <2> QED  BY <1>11, <2>1, <2>2 DEF ReaderTop
<1>12. CASE ReaderFrame
  <2>1. CASE ReaderEnds /\ UNCHANGED <<wire, reply, outstanding>>
    BY <1>12, <2>1, ReaderEndsTyped DEF ReaderFrame, TypeOK
  <2>2. CASE /\ wire # <<>> /\ Dispatch(Head(wire)) /\ wire' = Tail(wire)
             /\ reader' = IF wire' = <<>> THEN "top" ELSE "frames"
             /\ UNCHANGED alive
    <3>1. Head(wire) \in DownFrames /\ wire' \in Seq(DownFrames)
      BY <2>2, RangeTail DEF TypeOK
    <3>2. Head(wire).n \in Numbers /\ 0 \in Numbers /\ 0 \in 0..SeqMax
      BY <3>1, TransportAssumption DEF DownFrames, Numbers
    <3>3. /\ outstanding' \in 0..SeqMax /\ reply' \in Numbers
          /\ pending' \in [1..SeqMax -> Numbers]
      BY <2>2, <3>2 DEF Dispatch, TypeOK
    <3> QED  BY <1>12, <2>2, <3>1, <3>3 DEF ReaderFrame, TypeOK
  <2> QED  BY <1>12, <2>1, <2>2 DEF ReaderFrame
<1>13. CASE DaemonAnswers
  <2> DEFINE f == Head(up)
  <2>1. f \in UpFrames /\ up' \in Seq(UpFrames)
    BY <1>13, RangeTail DEF DaemonAnswers, TypeOK
  <2>2. wire' \in Seq(DownFrames)
    <3>1. CASE f.op = "rpc"
      <4>1. Frame("answer", f.seq, f.n) \in DownFrames
        BY <2>1, <3>1 DEF UpFrames, DownFrames, Frame
      <4>2. wire' = Append(wire, Frame("answer", f.seq, f.n))
        BY <1>13, <3>1 DEF DaemonAnswers
      <4> QED  BY <4>1, <4>2 DEF TypeOK
    <3>2. CASE f.op = "ping"
      <4>1. Frame("ack", f.seq, 0) \in DownFrames
        BY <2>1, <3>2 DEF UpFrames, DownFrames, Frame
      <4>2. wire' = Append(wire, Frame("ack", f.seq, 0))
        BY <1>13, <3>2 DEF DaemonAnswers
      <4> QED  BY <4>1, <4>2 DEF TypeOK
    <3>3. CASE f.op = "send"
      BY <1>13, <3>3 DEF DaemonAnswers, TypeOK
    <3> QED  BY <2>1, <3>1, <3>2, <3>3 DEF UpFrames
  <2> QED  BY <1>13, <2>1, <2>2 DEF DaemonAnswers, TypeOK
<1>14. CASE DaemonWedges \/ DaemonEnds
  BY <1>14, EmptyTyped DEF DaemonWedges, DaemonEnds, TypeOK
<1> QED
  BY <1>1, <1>2, <1>3, <1>4, <1>5, <1>6, <1>7, <1>8, <1>9, <1>10, <1>11,
     <1>12, <1>13, <1>14 DEF Next, Drop, Writer, Reader

-----------------------------------------------------------------------------
LEMMA InvInit == Init => Inv
<1> SUFFICES ASSUME Init PROVE Inv
  OBVIOUS
<1>1. TypeOK
  BY TypedInit
<1>2. UnansweredWindowed /\ HandMatchesPlace
  BY RangeEmpty DEF Init, UnansweredWindowed, Unanswered, HandMatchesPlace, NoFrame, Frame
<1>3. CallIsYoungest /\ AnswersCorrelate /\ CallTracked /\ PingIsTracked
  BY DEF Init, CallIsYoungest, AnswersCorrelate, CallTracked, PingIsTracked, NoPending
<1>4. OnePing
  BY RangeEmpty DEF Init, OnePing, Single, HasPing, IsPing, NoFrame, Frame
<1> QED  BY <1>1, <1>2, <1>3, <1>4 DEF Inv

(* A request is appended to the channel, or nothing is.                    *)
LEMMA EnqueueRange ==
    ASSUME TypeOK, NEW op \in {"rpc", "send"}, Enqueue(op)
    PROVE  \A f \in Range(queue') :
             f \in Range(queue) \/ (f.op = op /\ f.seq = next_seq /\ f.n = sends')
<1>1. CASE queue' = queue
  BY <1>1
<1>2. CASE queue' = Append(queue, Frame(op, next_seq, sends'))
  BY <1>2, RangeAppend DEF TypeOK, Frame
<1> QED  BY <1>1, <1>2 DEF Enqueue

LEMMA HandNext == HandMatchesPlace /\ TypeOK /\ [Next]_vars => HandMatchesPlace'
<1> SUFFICES ASSUME HandMatchesPlace, TypeOK, [Next]_vars PROVE HandMatchesPlace'
  OBVIOUS
<1> USE DEF mainVars, writerVars, socketVars
<1>1. CASE UNCHANGED <<writer, hand, queue>>
  BY <1>1 DEF HandMatchesPlace
<1>2. CASE SendRpc \/ FireAndForget
  <2>1. UNCHANGED <<writer, hand>>
    BY <1>2 DEF SendRpc, FireAndForget
  <2>2. \A f \in Range(queue') : f.op \in {"rpc", "send"}
    BY <1>2, EnqueueRange DEF SendRpc, FireAndForget, HandMatchesPlace
  <2> QED  BY <2>1, <2>2 DEF HandMatchesPlace
<1>3. CASE WriterEnds
  BY <1>3, RangeEmpty DEF WriterEnds, HandMatchesPlace
<1>4. CASE WriterRecv /\ ~WriterEnds
  <2>1. CASE queue # <<>> /\ queue' = Tail(queue) /\ hand' = Head(queue) /\ writer' = "write"
    <3>1. Range(queue) = {hand'} \cup Range(queue')
      BY <2>1, RangeTail DEF TypeOK
    <3> QED  BY <2>1, <3>1 DEF HandMatchesPlace
  <2> QED  BY <1>4, <2>1 DEF WriterRecv, HandMatchesPlace
<1>5. CASE (WriterTop \/ WriterWrite \/ WriterHealth) /\ ~WriterEnds
  BY <1>5 DEF WriterTop, WriterWrite, WriterHealth, PublishPing, HandMatchesPlace, Frame
<1> QED
  BY <1>1, <1>2, <1>3, <1>4, <1>5 DEF Next, vars, StartRpc,
     RpcReturns, RpcTimesOut, DropClose, Drop, DropShutdown, DropJoin, Writer, Reader,
     ReaderTop, ReaderFrame, DaemonAnswers, DaemonWedges, DaemonEnds

-----------------------------------------------------------------------------
(* Sequence numbers.                                                       *)

LEMMA UnansweredTyped ==
    ASSUME TypeOK, NEW f \in Unanswered
    PROVE  f.seq \in 1..SeqMax /\ f.n \in 1..MaxSends
<1>1. f \in UpFrames \cup DownFrames \cup {NoFrame}
  BY RangeIn DEF TypeOK, Unanswered
<1> QED  BY <1>1 DEF Unanswered, UpFrames, DownFrames, NoFrame, Frame

(* A request more: the others are one older, and the new one is new.       *)
LEMMA EnqueueWindowed ==
    ASSUME TypeOK, UnansweredWindowed, NEW op \in {"rpc", "send"}, Enqueue(op), NEW f,
           f \in Unanswered \/ (f.seq = next_seq /\ f.n = sends')
    PROVE  Windowed(f)'
<1>1. /\ SeqMax \in Nat /\ SeqMax >= 3 /\ sends \in Nat /\ sends' = sends + 1
      /\ next_seq \in 1..SeqMax
      /\ next_seq' = IF next_seq = SeqMax THEN 1 ELSE next_seq + 1
  BY TransportAssumption DEF TypeOK, Numbers, Enqueue, SuccSeq
<1>2. CASE f.seq = next_seq /\ f.n = sends'
  <2>1. sends' - f.n = 0
    BY <1>1, <1>2
  <2>2. f.seq + 0 + 1 \in {next_seq', next_seq' + SeqMax}
    BY <1>1, <1>2
  <2> QED  BY <1>1, <2>1, <2>2 DEF Windowed
<1>3. CASE f \in Unanswered
  <2>1. f.seq \in 1..SeqMax /\ f.n \in 1..MaxSends
    BY <1>3, UnansweredTyped
  <2> DEFINE age == sends - f.n
  <2>2. age \in 0..(SeqMax - 1) /\ f.seq + age + 1 \in {next_seq, next_seq + SeqMax}
    BY <1>3 DEF UnansweredWindowed, Windowed
  <2>3. age + 1 < SeqMax
    BY <1>1, <1>3, <2>1 DEF Enqueue
  <2>4. sends' - f.n = age + 1
    BY <1>1, <2>1, TransportAssumption
  <2>5. sends' - f.n \in 0..(SeqMax - 1)
    BY <1>1, <2>2, <2>3, <2>4
  <2>6. f.seq + (age + 1) + 1 \in {next_seq', next_seq' + SeqMax}
    <3> HIDE DEF age
    <3> QED  BY <1>1, <2>1, <2>2, <2>3
  <2>7. f.seq + (sends' - f.n) + 1 \in {next_seq', next_seq' + SeqMax}
    BY <2>4, <2>6
  <2> QED  BY <2>5, <2>7 DEF Windowed
<1> QED  BY <1>2, <1>3

(* A frame that stands for the same request is as old.                     *)
LEMMA SameWindow ==
    ASSUME UnansweredWindowed, UNCHANGED <<next_seq, sends>>,
           \A f \in Unanswered' : \E g \in Unanswered : f.n = g.n /\ f.seq = g.seq
    PROVE  UnansweredWindowed'
<1> SUFFICES ASSUME NEW f \in Unanswered' PROVE Windowed(f)'
  BY DEF UnansweredWindowed
<1>1. PICK g \in Unanswered : f.n = g.n /\ f.seq = g.seq
  OBVIOUS
<1>2. Windowed(g)
  BY DEF UnansweredWindowed
<1> QED  BY <1>1, <1>2 DEF Windowed

LEMMA WindowedNext ==
    TypeOK /\ HandMatchesPlace /\ UnansweredWindowed /\ [Next]_vars => UnansweredWindowed'
<1> SUFFICES ASSUME TypeOK, HandMatchesPlace, UnansweredWindowed, [Next]_vars
             PROVE  UnansweredWindowed'
  OBVIOUS
<1> USE DEF mainVars, writerVars, socketVars
<1>1. CASE SendRpc \/ FireAndForget
  <2>1. PICK op \in {"rpc", "send"} : Enqueue(op)
    BY <1>1 DEF SendRpc, FireAndForget
  <2>2. UNCHANGED <<hand, up, wire>>
    BY <1>1 DEF SendRpc, FireAndForget
  <2>3. \A f \in Unanswered' : f \in Unanswered \/ (f.seq = next_seq /\ f.n = sends')
    BY <2>1, <2>2, EnqueueRange DEF Unanswered
  <2> QED  BY <2>1, <2>3, EnqueueWindowed DEF UnansweredWindowed
<1>2. CASE UNCHANGED <<next_seq, sends>>
  <2>1. CASE Unanswered' \subseteq Unanswered
    BY <1>2, <2>1, SameWindow
  <2>2. CASE UNCHANGED <<queue, hand, up, wire>>
    BY <2>1, <2>2 DEF Unanswered
  <2>3. CASE WriterEnds /\ UNCHANGED <<up, wire>>
    BY <2>1, <2>3, RangeEmpty DEF WriterEnds, Unanswered, NoFrame, Frame
  <2>4. CASE WriterRecv /\ ~WriterEnds
    <3>1. CASE queue # <<>> /\ queue' = Tail(queue) /\ hand' = Head(queue)
      <4>1. Range(queue) = {hand'} \cup Range(queue')
        BY <3>1, RangeTail DEF TypeOK
      <4> QED  BY <2>1, <2>4, <4>1 DEF WriterRecv, Unanswered
    <3> QED  BY <2>2, <2>4, <3>1 DEF WriterRecv
  <2>5. CASE WriterWrite /\ ~WriterEnds
    <3>1. Range(up') = Range(up) \cup {hand}
      BY <2>5, RangeAppend DEF WriterWrite, TypeOK
    <3> QED  BY <2>1, <2>5, <3>1 DEF WriterWrite, Unanswered, NoFrame, Frame
  <2>6. CASE WriterHealth /\ ~WriterEnds
    BY <2>1, <2>6 DEF WriterHealth, PublishPing, Unanswered, Frame
  <2>7. CASE ReaderFrame
    <3>1. CASE wire # <<>> /\ wire' = Tail(wire)
      <4>1. Range(wire') \subseteq Range(wire)
        BY <3>1, RangeTail DEF TypeOK
      <4> QED  BY <2>1, <2>7, <4>1 DEF ReaderFrame, Unanswered
    <3> QED  BY <2>2, <2>7, <3>1 DEF ReaderFrame
  <2>8. CASE DaemonAnswers
    <3> DEFINE g == Head(up)
    <3>1. Range(up) = {g} \cup Range(up') /\ g \in UpFrames
      BY <2>8, RangeTail DEF DaemonAnswers, TypeOK
    <3>2. CASE g.op = "rpc"
      <4>1. Range(wire') = Range(wire) \cup {Frame("answer", g.seq, g.n)}
        BY <2>8, <3>2, RangeAppend DEF DaemonAnswers, TypeOK
      <4>2. g \in Unanswered
        BY <3>1, <3>2 DEF Unanswered
      <4>3. \A f \in Unanswered' : f \in Unanswered \/ f = Frame("answer", g.seq, g.n)
        BY <2>8, <3>1, <4>1 DEF DaemonAnswers, Unanswered
      <4> QED  BY <1>2, <4>2, <4>3, SameWindow DEF Frame
    <3>3. CASE g.op = "ping"
      <4>1. Range(wire') = Range(wire) \cup {Frame("ack", g.seq, 0)}
        BY <2>8, <3>3, RangeAppend DEF DaemonAnswers, TypeOK
      <4>2. Frame("ack", g.seq, 0).op = "ack"
        BY DEF Frame
      <4> HIDE DEF g
      <4>3. Unanswered' \subseteq Unanswered
        BY <2>8, <3>1, <4>1, <4>2 DEF DaemonAnswers, Unanswered
      <4> QED  BY <2>1, <4>3
    <3>4. CASE g.op = "send"
      <4>1. wire' = wire
        BY <2>8, <3>4 DEF DaemonAnswers
      <4> QED  BY <2>1, <2>8, <3>1, <4>1 DEF DaemonAnswers, Unanswered
    <3> QED  BY <3>1, <3>2, <3>3, <3>4 DEF UpFrames
  <2>9. CASE DaemonEnds
    BY <2>1, <2>9, RangeEmpty DEF DaemonEnds, Unanswered
  <2>10. CASE WriterTop \/ WriterWrite \/ WriterHealth \/ WriterRecv
    <3>1. CASE WriterEnds
      <4>1. UNCHANGED <<up, wire>>
        BY <2>10, <3>1 DEF WriterTop, WriterWrite, WriterHealth, WriterRecv,
           WriterEnds, HandMatchesPlace, NoFrame, Frame
      <4> QED  BY <2>3, <3>1, <4>1
    <3>2. CASE WriterTop /\ ~WriterEnds
      BY <2>2, <3>2 DEF WriterTop
    <3> QED  BY <2>4, <2>5, <2>6, <2>10, <3>1, <3>2
  <2> QED
    BY <1>1, <2>2, <2>7, <2>8, <2>9, <2>10 DEF Next, vars, StartRpc,
     RpcReturns, RpcTimesOut, DropClose, Drop, DropShutdown, DropJoin, Writer, Reader,
     ReaderTop, DaemonWedges
<1> QED
  BY <1>1, <1>2 DEF Next, vars, StartRpc,
     RpcReturns, RpcTimesOut, DropClose, Drop, DropShutdown, DropJoin, Writer, Reader,
     WriterTop, WriterRecv, WriterWrite, WriterHealth,
     ReaderTop, ReaderFrame, DaemonAnswers, DaemonWedges, DaemonEnds

-----------------------------------------------------------------------------
(* Answers.                                                                *)

(* What is pending under the number of an answer is that answer's request, *)
(* if it is the call that is waited for.                                   *)
LEMMA AnswerIsTheCalls ==
    ASSUME TypeOK, UnansweredWindowed, CallIsYoungest, main = "wait",
           NEW f \in Unanswered, pending[f.seq] = call
    PROVE  f.n = call
<1>1. f.seq \in 1..SeqMax /\ f.n \in 1..MaxSends
  BY UnansweredTyped
<1>2. call = sends /\ f.seq + 1 \in {next_seq, next_seq + SeqMax}
  BY <1>1 DEF CallIsYoungest
<1>3. /\ sends - f.n \in 0..(SeqMax - 1)
      /\ f.seq + (sends - f.n) + 1 \in {next_seq, next_seq + SeqMax}
  BY DEF UnansweredWindowed, Windowed
<1>4. next_seq \in Nat /\ SeqMax \in Nat /\ sends \in Nat
  BY TransportAssumption DEF TypeOK, Numbers
<1> QED  BY <1>1, <1>2, <1>3, <1>4

(* The frame at the head of the channel and the one at the head of the     *)
(* wire.                                                                   *)
LEMMA HeadOfQueue ==
    ASSUME TypeOK, HandMatchesPlace, queue # <<>>
    PROVE  /\ Head(queue) \in UpFrames /\ Head(queue).op \in {"rpc", "send"}
           /\ Range(queue) = {Head(queue)} \cup Range(Tail(queue))
           /\ Head(queue).op = "rpc" => Head(queue) \in Unanswered
<1>1. Head(queue) \in UpFrames /\ Range(queue) = {Head(queue)} \cup Range(Tail(queue))
  BY RangeTail DEF TypeOK
<1> QED  BY <1>1 DEF HandMatchesPlace, Unanswered

LEMMA HeadOfWire ==
    ASSUME TypeOK, wire # <<>>
    PROVE  /\ Head(wire) \in DownFrames
           /\ Range(wire) = {Head(wire)} \cup Range(Tail(wire))
           /\ Head(wire).op = "answer" => Head(wire) \in Unanswered
<1>1. Head(wire) \in DownFrames /\ Range(wire) = {Head(wire)} \cup Range(Tail(wire))
  BY RangeTail DEF TypeOK
<1> QED  BY <1>1 DEF Unanswered

LEMMA CallNext ==
    TypeOK /\ HandMatchesPlace /\ UnansweredWindowed /\ CallIsYoungest /\ AnswersCorrelate
      /\ [Next]_vars => CallIsYoungest' /\ AnswersCorrelate'
<1> SUFFICES ASSUME TypeOK, HandMatchesPlace, UnansweredWindowed, CallIsYoungest,
                    AnswersCorrelate, [Next]_vars
             PROVE  CallIsYoungest' /\ AnswersCorrelate'
  OBVIOUS
<1> USE DEF mainVars, writerVars, socketVars
<1>0. /\ sends \in Nat /\ SeqMax \in Nat /\ \A s \in 1..SeqMax : pending[s] \in Nat
      /\ \A s \in 1..SeqMax : pending[s] <= sends
  BY TransportAssumption DEF TypeOK, Numbers, CallIsYoungest
<1>1. CASE SendRpc \/ FireAndForget
  <2>1. sends' = sends + 1 /\ UNCHANGED pending
    BY <1>1 DEF SendRpc, FireAndForget, Enqueue
  <2>2. main' = "wait" => call' = sends' /\ reply' = 0
    BY <1>1 DEF SendRpc, FireAndForget
  <2>3. \A s \in 1..SeqMax : pending'[s] <= sends' /\ pending'[s] # sends'
    BY <1>0, <2>1
  <2>4. sends' # 0
    BY <1>0, <2>1
  <2> QED  BY <2>2, <2>3, <2>4 DEF CallIsYoungest, AnswersCorrelate
<1>2. CASE UNCHANGED <<pending, sends, next_seq>> /\ main' # "wait"
  BY <1>2 DEF CallIsYoungest, AnswersCorrelate
<1>3. CASE UNCHANGED <<pending, mainVars>>
  BY <1>3 DEF CallIsYoungest, AnswersCorrelate
<1>4. CASE pending' = NoPending /\ UNCHANGED mainVars
  <2>1. \A s \in 1..SeqMax : pending'[s] = 0
    BY <1>4 DEF NoPending
  <2> QED  BY <1>0, <1>4, <2>1 DEF CallIsYoungest, AnswersCorrelate
<1>5. CASE WriterRecv
  <2> DEFINE f == Head(queue)
  <2>1. CASE queue # <<>> /\ f.op = "rpc" /\ pending' = [pending EXCEPT ![f.seq] = f.n]
    <3>1. f \in Unanswered
      BY <2>1, HeadOfQueue
    <3>2. f.seq \in 1..SeqMax /\ f.n \in 1..MaxSends /\ Windowed(f)
      BY <3>1, UnansweredTyped DEF UnansweredWindowed
    <3> HIDE DEF f
    <3>3. f.n <= sends /\ (f.n = sends => f.seq + 1 \in {next_seq, next_seq + SeqMax})
      BY <1>0, <3>2, TransportAssumption DEF Windowed
    <3>4. \A s \in 1..SeqMax : pending'[s] = IF s = f.seq THEN f.n ELSE pending[s]
      BY <2>1, <3>2 DEF TypeOK
    <3>5. UNCHANGED mainVars
      BY <1>5 DEF WriterRecv
    <3> QED  BY <3>3, <3>4, <3>5 DEF CallIsYoungest, AnswersCorrelate
  <2>2. CASE WriterEnds
    BY <1>4, <1>5, <2>2 DEF WriterRecv, WriterEnds
  <2> QED  BY <1>3, <1>5, <2>1, <2>2 DEF WriterRecv
<1>6. CASE ReaderFrame /\ wire # <<>>
  <2> DEFINE f == Head(wire)
  <2>1. /\ f \in DownFrames /\ f.seq \in 1..SeqMax /\ f.op \in {"answer", "ack"}
        /\ f.op = "answer" => f \in Unanswered
        /\ f.op = "ack" => f.n = 0
    BY <1>6, HeadOfWire DEF DownFrames
  <2>2. Dispatch(f) /\ UNCHANGED <<main, call, next_seq, sends>>
    BY <1>6 DEF ReaderFrame
  <2> HIDE DEF f
  <2>3. CASE UNCHANGED <<pending, reply>>
    BY <1>3, <2>2, <2>3
  <2>4. CASE /\ pending' = [pending EXCEPT ![f.seq] = 0]
             /\ reply' = IF main = "wait" /\ pending[f.seq] = call THEN f.n ELSE reply
    <3>1. \A s \in 1..SeqMax : pending'[s] = IF s = f.seq THEN 0 ELSE pending[s]
      BY <2>1, <2>4 DEF TypeOK
    <3>2. CallIsYoungest'
      BY <1>0, <2>2, <3>1 DEF CallIsYoungest
    <3>3. ASSUME main = "wait", pending[f.seq] = call, f.op = "answer" PROVE f.n = call
      BY <2>1, <3>3, AnswerIsTheCalls
    <3> QED  BY <2>1, <2>2, <2>4, <3>2, <3>3 DEF AnswersCorrelate
  <2> QED  BY <2>2, <2>3, <2>4 DEF Dispatch
<1>7. CASE WriterEnds \/ ReaderEnds
  <2>1. CASE SendRpc \/ FireAndForget \/ StartRpc \/ RpcReturns \/ RpcTimesOut
    BY <1>1, <1>2, <2>1 DEF StartRpc, RpcReturns, RpcTimesOut
  <2> QED
    BY <1>1, <1>2, <1>3, <1>4, <1>5, <1>6, <1>7, <2>1 DEF WriterEnds, ReaderEnds, Next, vars,
       DropClose, Drop, DropShutdown, DropJoin, Writer, Reader, WriterTop, WriterWrite,
       WriterHealth, ReaderTop, ReaderFrame, DaemonAnswers, DaemonWedges, DaemonEnds
<1> QED
  BY <1>1, <1>2, <1>3, <1>5, <1>6, <1>7 DEF Next, vars, StartRpc,
     RpcReturns, RpcTimesOut, DropClose, Drop, DropShutdown, DropJoin, Writer, Reader,
     WriterTop, WriterWrite, WriterHealth, PublishPing,
     ReaderTop, ReaderFrame, DaemonAnswers, DaemonWedges, DaemonEnds

-----------------------------------------------------------------------------
(* Pings.                                                                  *)

LEMMA HasPingAppend ==
    ASSUME NEW S, NEW s \in Seq(S), NEW e
    PROVE  HasPing(Append(s, e)) <=> HasPing(s) \/ IsPing(e)
  BY RangeAppend DEF HasPing

(* The frame the daemon reads, and what it does with it.                   *)
LEMMA DaemonMoves ==
    ASSUME TypeOK, DaemonAnswers
    PROVE  \E f \in UpFrames :
             /\ f = Head(up) /\ up # <<>> /\ up' = Tail(up)
             /\ Range(up) = {f} \cup Range(up')
             /\ \/ f.op = "send" /\ wire' = wire
                \/ \E g \in DownFrames :
                     /\ g.seq = f.seq /\ g.n = f.n
                     /\ \/ f.op = "rpc" /\ g.op = "answer"
                        \/ f.op = "ping" /\ g.op = "ack"
                     /\ wire' = Append(wire, g) /\ Range(wire') = Range(wire) \cup {g}
<1>1. PICK f \in UpFrames : f = Head(up)
  BY RangeTail DEF DaemonAnswers, TypeOK
<1>2. up # <<>> /\ up' = Tail(up) /\ Range(up) = {f} \cup Range(up')
  BY <1>1, RangeTail DEF DaemonAnswers, TypeOK
<1>3. f.op = "send" => wire' = wire
  BY <1>1 DEF DaemonAnswers
<1>4. ASSUME f.op = "rpc"
      PROVE  \E g \in DownFrames :
               /\ g.seq = f.seq /\ g.n = f.n /\ g.op = "answer"
               /\ wire' = Append(wire, g) /\ Range(wire') = Range(wire) \cup {g}
  <2>1. PICK g \in DownFrames : g = Frame("answer", f.seq, f.n)
    BY <1>4 DEF UpFrames, DownFrames, Frame
  <2>2. wire' = Append(wire, g)
    BY <1>1, <1>4, <2>1 DEF DaemonAnswers
  <2>3. Range(wire') = Range(wire) \cup {g}
    BY <2>2, RangeAppend DEF TypeOK
  <2> QED  BY <2>1, <2>2, <2>3 DEF Frame
<1>5. ASSUME f.op = "ping"
      PROVE  \E g \in DownFrames :
               /\ g.seq = f.seq /\ g.n = f.n /\ g.op = "ack"
               /\ wire' = Append(wire, g) /\ Range(wire') = Range(wire) \cup {g}
  <2>1. PICK g \in DownFrames : g = Frame("ack", f.seq, 0)
    BY <1>5 DEF UpFrames, DownFrames, Frame
  <2>2. wire' = Append(wire, g)
    BY <1>1, <1>5, <2>1 DEF DaemonAnswers
  <2>3. Range(wire') = Range(wire) \cup {g}
    BY <2>2, RangeAppend DEF TypeOK
  <2> QED  BY <1>5, <2>1, <2>2, <2>3 DEF Frame, UpFrames
<1>6. f.op \in {"rpc", "send", "ping"}
  BY DEF UpFrames
<1> QED  BY <1>1, <1>2, <1>3, <1>4, <1>5, <1>6

LEMMA PingNext ==
    TypeOK /\ HandMatchesPlace /\ OnePing /\ PingIsTracked /\ [Next]_vars
      => OnePing' /\ PingIsTracked'
<1> SUFFICES ASSUME TypeOK, HandMatchesPlace, OnePing, PingIsTracked, [Next]_vars
             PROVE  OnePing' /\ PingIsTracked'
  OBVIOUS
<1> USE DEF mainVars, writerVars, socketVars
<1>1. CASE UNCHANGED <<hand, up, wire, outstanding>> /\ (alive' => alive)
           /\ (daemon' # "gone" => daemon # "gone")
  BY <1>1 DEF OnePing, PingIsTracked
<1>2. CASE WriterEnds /\ UNCHANGED <<up, wire>>
           /\ (outstanding' = outstanding \/ (hand.op = "ping" /\ outstanding' = 0))
  <2>1. ~IsPing(hand') /\ ~alive'
    BY <1>2 DEF WriterEnds, IsPing, NoFrame, Frame
  <2>2. CASE outstanding' = outstanding
    BY <1>2, <2>1, <2>2 DEF OnePing, PingIsTracked
  <2>3. CASE hand.op = "ping"
    <3>1. ~HasPing(up) /\ ~HasPing(wire)
      BY <2>3 DEF OnePing, IsPing
    <3> QED  BY <1>2, <2>1, <3>1 DEF OnePing, PingIsTracked, HasPing
  <2> QED  BY <1>2, <2>2, <2>3
<1>3. CASE WriterRecv /\ ~WriterEnds
  <2>1. CASE queue # <<>> /\ hand' = Head(queue)
    <3>1. ~IsPing(hand')
      BY <2>1, HeadOfQueue DEF IsPing
    <3>2. ~IsPing(hand)
      BY <1>3 DEF WriterRecv, HandMatchesPlace, NoFrame, Frame, IsPing
    <3>3. UNCHANGED <<up, wire, outstanding, daemon>> /\ alive' = alive
      BY <1>3 DEF WriterRecv
    <3> QED  BY <3>1, <3>2, <3>3 DEF OnePing, PingIsTracked, IsPing
  <2> QED  BY <1>1, <1>3, <2>1 DEF WriterRecv
<1>4. CASE WriterWrite /\ ~WriterEnds
  <2>1. /\ up' = Append(up, hand) /\ hand' = NoFrame
        /\ UNCHANGED <<wire, outstanding, daemon, alive>>
    BY <1>4 DEF WriterWrite
  <2>2. /\ Range(up') = Range(up) \cup {hand} /\ Single(up')
        /\ HasPing(up') <=> HasPing(up) \/ IsPing(hand)
    BY <2>1, RangeAppend, SingleAppend, HasPingAppend DEF TypeOK, OnePing
  <2>3. ~IsPing(hand')
    BY <2>1 DEF IsPing, NoFrame, Frame
  <2>4. OnePing'
    BY <2>1, <2>2, <2>3 DEF OnePing
  <2> QED  BY <2>1, <2>2, <2>4 DEF PingIsTracked
<1>5. CASE WriterHealth /\ ~WriterEnds
  <2>1. CASE outstanding = 0 /\ PublishPing
    <3>1. hand'.seq = pingSeq /\ IsPing(hand') /\ outstanding' = pingSeq /\ hand'.op = "ping"
      BY <2>1 DEF PublishPing, Frame, IsPing
    <3>2. \A f \in Range(up) \cup Range(wire) : f.seq # 0
      BY RangeIn DEF TypeOK, UpFrames, DownFrames
    <3>3. ~HasPing(up) /\ ~HasPing(wire)
      BY <2>1, <3>2 DEF OnePing, HasPing
    <3>4. UNCHANGED <<up, wire>>
      BY <1>5 DEF WriterHealth
    <3> QED  BY <3>1, <3>3, <3>4 DEF OnePing, PingIsTracked, HasPing
  <2> QED  BY <1>1, <1>5, <2>1 DEF WriterHealth
<1>6. CASE ReaderFrame /\ wire # <<>>
  <2>1. PICK f \in DownFrames : f = Head(wire) /\ Range(wire) = {f} \cup Range(Tail(wire))
    BY <1>6, HeadOfWire
  <2>2. /\ Dispatch(f) /\ wire' = Tail(wire) /\ UNCHANGED <<hand, up, daemon, alive>>
    BY <1>6, <2>1 DEF ReaderFrame
  <2>3. Single(wire') /\ (IsPing(f) => ~HasPing(wire'))
    BY <1>6, <2>1, <2>2, SingleTail DEF TypeOK, OnePing
  <2>4. HasPing(wire') => HasPing(wire)
    BY <2>1, <2>2 DEF HasPing
  <2>5. CASE f.op = "ack"
    <3>1. IsPing(f) /\ f \in Range(wire) /\ HasPing(wire) /\ f.seq # 0
      BY <2>1, <2>5 DEF IsPing, HasPing, DownFrames
    <3>2. f.seq = outstanding
      BY <3>1 DEF OnePing
    <3>3. outstanding' = 0
      BY <2>2, <2>5, <3>1, <3>2 DEF Dispatch
    <3>4. ~HasPing(wire') /\ ~HasPing(up) /\ ~IsPing(hand)
      BY <2>3, <3>1 DEF OnePing
    <3> QED  BY <2>2, <2>3, <3>3, <3>4 DEF OnePing, PingIsTracked, HasPing
  <2>6. CASE f.op = "answer"
    <3>1. ~IsPing(f) /\ outstanding' = outstanding
      BY <2>2, <2>6 DEF IsPing, Dispatch
    <3>2. OnePing'
      BY <2>1, <2>2, <2>3, <2>4, <3>1 DEF OnePing
    <3>3. PingIsTracked'
      BY <2>1, <2>2, <2>6, <3>1 DEF PingIsTracked
    <3> QED  BY <3>2, <3>3
  <2> QED  BY <2>5, <2>6 DEF DownFrames
<1>7. CASE DaemonAnswers
  <2>1. UNCHANGED <<hand, outstanding, daemon, alive>>
    BY <1>7 DEF DaemonAnswers
  <2>2. PICK f \in UpFrames :
             /\ f = Head(up) /\ up # <<>> /\ up' = Tail(up)
             /\ Range(up) = {f} \cup Range(up')
             /\ \/ f.op = "send" /\ wire' = wire
                \/ \E g \in DownFrames :
                     /\ g.seq = f.seq /\ g.n = f.n
                     /\ \/ f.op = "rpc" /\ g.op = "answer"
                        \/ f.op = "ping" /\ g.op = "ack"
                     /\ wire' = Append(wire, g) /\ Range(wire') = Range(wire) \cup {g}
    BY <1>7, DaemonMoves
  <2>3. Single(up') /\ (IsPing(f) => ~HasPing(up')) /\ (HasPing(up') => HasPing(up))
    BY <2>2, SingleTail DEF TypeOK, OnePing, HasPing
  <2>4. CASE f.op = "send" /\ wire' = wire
    <3>1. ~IsPing(f)
      BY <2>4 DEF IsPing
    <3>2. OnePing'
      BY <2>1, <2>2, <2>3, <2>4 DEF OnePing
    <3> QED  BY <2>1, <2>2, <2>4, <3>2 DEF PingIsTracked
  <2>5. ASSUME NEW g \in DownFrames, g.seq = f.seq,
               \/ f.op = "rpc" /\ g.op = "answer"
               \/ f.op = "ping" /\ g.op = "ack",
               wire' = Append(wire, g), Range(wire') = Range(wire) \cup {g}
        PROVE  OnePing' /\ PingIsTracked'
    <3>1. IsPing(g) <=> IsPing(f)
      BY <2>5 DEF IsPing
    <3>2. IsPing(f) => HasPing(up) /\ ~HasPing(wire) /\ f.seq = outstanding /\ ~IsPing(hand)
      BY <2>2 DEF OnePing, HasPing
    <3>3. Single(wire') /\ (HasPing(wire') <=> HasPing(wire) \/ IsPing(g))
      BY <2>5, <3>1, <3>2, SingleAppend, HasPingAppend DEF TypeOK, OnePing
    <3>4. OnePing'
      BY <2>1, <2>2, <2>3, <2>5, <3>1, <3>2, <3>3 DEF OnePing
    <3>5. PingIsTracked'
      BY <2>1, <2>2, <2>5 DEF PingIsTracked
    <3> QED  BY <3>4, <3>5
  <2> QED  BY <2>2, <2>4, <2>5
<1>8. CASE DaemonEnds
  BY <1>8, RangeEmpty DEF DaemonEnds, OnePing, PingIsTracked, Single, HasPing
<1>9. CASE WriterTop \/ WriterRecv \/ WriterWrite \/ WriterHealth
  <2>1. CASE WriterEnds
    <3>1. UNCHANGED <<up, wire>>
      BY <1>9, <2>1 DEF WriterTop, WriterRecv, WriterWrite, WriterHealth, WriterEnds,
         HandMatchesPlace, NoFrame, Frame
    <3>2. outstanding' = outstanding \/ (hand.op = "ping" /\ outstanding' = 0)
      BY <1>9, <2>1 DEF WriterTop, WriterRecv, WriterWrite, WriterHealth, WriterEnds,
         HandMatchesPlace
    <3> QED  BY <1>2, <2>1, <3>1, <3>2
  <2>2. CASE WriterTop /\ ~WriterEnds
    BY <1>1, <2>2 DEF WriterTop
  <2> QED  BY <1>3, <1>4, <1>5, <1>9, <2>1, <2>2
<1>10. CASE StartRpc \/ SendRpc \/ FireAndForget \/ RpcReturns \/ RpcTimesOut
  BY <1>1, <1>10 DEF StartRpc, SendRpc, FireAndForget, RpcReturns, RpcTimesOut
<1>11. CASE DropClose \/ Drop
  BY <1>1, <1>11 DEF DropClose, Drop, DropShutdown, DropJoin
<1>12. CASE ReaderTop \/ ReaderFrame
  <2>1. CASE ReaderTop
    BY <1>1, <2>1 DEF ReaderTop, ReaderEnds
  <2>2. CASE ReaderFrame /\ wire = <<>>
    BY <1>1, <2>2 DEF ReaderFrame, ReaderEnds
  <2> QED  BY <1>6, <1>12, <2>1, <2>2
<1>13. CASE DaemonWedges \/ UNCHANGED vars
  BY <1>1, <1>13 DEF DaemonWedges, vars
<1> QED
  BY <1>7, <1>8, <1>9, <1>10, <1>11, <1>12, <1>13 DEF Next, Writer, Reader

-----------------------------------------------------------------------------
(* Calls.                                                                  *)

LEMMA TrackNext ==
    Inv /\ [Next]_vars => CallTracked'
<1> SUFFICES ASSUME Inv, [Next]_vars, main' = "wait", reply' = 0, daemon' # "gone", alive'
             PROVE  CallTracked'
  BY DEF CallTracked
<1> USE DEF mainVars, writerVars, socketVars
<1> TypeOK /\ HandMatchesPlace /\ UnansweredWindowed /\ CallTracked /\ OnePing
  BY DEF Inv
<1> DEFINE Ways == {hand} \cup Range(up) \cup Range(wire)
           Mine(f) == f.op \in {"rpc", "answer"} /\ f.n = call /\ pending[f.seq] = call
           Tracked == \/ \E f \in Range(queue) : f.op = "rpc" /\ f.n = call
                      \/ \E f \in Ways : Mine(f)
<1>0. ASSUME main = "wait", reply = 0, daemon # "gone", alive PROVE Tracked
  BY <1>0 DEF CallTracked
<1>1. CASE UNCHANGED <<main, call, reply, alive, queue, hand, up, wire, pending, daemon>>
  BY <1>1 DEF CallTracked
<1>2. CASE StartRpc \/ FireAndForget \/ RpcReturns \/ RpcTimesOut \/ DropClose \/ Drop
  BY <1>2 DEF StartRpc, FireAndForget, RpcReturns, RpcTimesOut, DropClose, Drop,
     DropShutdown, DropJoin
<1>3. CASE SendRpc
  <2>1. call' = sends' /\ queue' = Append(queue, Frame("rpc", next_seq, sends'))
    BY <1>3 DEF SendRpc, Enqueue
  <2>2. Frame("rpc", next_seq, sends') \in Range(queue')
    BY <2>1, RangeAppend DEF TypeOK
  <2> QED  BY <2>1, <2>2 DEF CallTracked, Frame
<1>4. CASE WriterEnds \/ ReaderEnds
  BY <1>4 DEF WriterEnds, ReaderEnds
<1>5. CASE WriterRecv /\ ~WriterEnds
  <2>1. UNCHANGED <<main, call, reply, alive, up, wire, daemon>> /\ hand = NoFrame
    BY <1>5 DEF WriterRecv, HandMatchesPlace
  <2>2. Tracked
    BY <1>0, <2>1
  <2>3. CASE queue = <<>>
    BY <1>1, <1>5, <2>1, <2>3 DEF WriterRecv
  <2>4. CASE queue # <<>>
    <3>1. PICK g \in UpFrames :
            /\ g = Head(queue) /\ Range(queue) = {g} \cup Range(queue')
            /\ hand' = g /\ g.op \in {"rpc", "send"}
            /\ g.op = "rpc" => g \in Unanswered
            /\ pending' = IF g.op = "rpc" THEN [pending EXCEPT ![g.seq] = g.n] ELSE pending
      BY <1>5, <2>4, HeadOfQueue DEF WriterRecv
    <3>2. \A s \in 1..SeqMax : pending'[s] = IF g.op = "rpc" /\ s = g.seq THEN g.n ELSE pending[s]
      BY <3>1 DEF TypeOK
    <3>3. g.seq \in 1..SeqMax
      BY DEF UpFrames
    <3>4. CASE \E f \in Range(queue) : f.op = "rpc" /\ f.n = call
      <4>1. CASE g.op = "rpc" /\ g.n = call
        BY <2>1, <3>1, <3>2, <3>3, <4>1 DEF CallTracked
      <4>2. CASE \E f \in Range(queue') : f.op = "rpc" /\ f.n = call
        BY <2>1, <4>2 DEF CallTracked
      <4> QED  BY <3>1, <3>4, <4>1, <4>2
    <3>5. ASSUME NEW f \in Range(up) \cup Range(wire), Mine(f) PROVE CallTracked'
      <4>1. f \in Unanswered
        BY <3>5 DEF Unanswered
      <4>2. f.seq \in 1..SeqMax /\ f.n \in 1..MaxSends /\ Windowed(f)
        BY <4>1, UnansweredTyped DEF UnansweredWindowed
      <4>3. g.op = "rpc" /\ g.seq = f.seq => g.n = f.n
        <5>1. g.op = "rpc" => g.n \in 1..MaxSends /\ Windowed(g)
          BY <3>1, UnansweredTyped DEF UnansweredWindowed
        <5> QED  BY <3>3, <4>2, <5>1, SameNumber
      <4>4. pending'[f.seq] = call
        BY <3>2, <3>5, <4>2, <4>3
      <4> QED  BY <2>1, <3>5, <4>4 DEF CallTracked
    <3>6. ~Mine(hand)
      BY <2>1 DEF NoFrame, Frame
    <3> QED  BY <2>2, <3>4, <3>5, <3>6
  <2> QED  BY <2>3, <2>4
<1>6. CASE WriterWrite /\ ~WriterEnds
  <2>1. /\ up' = Append(up, hand)
        /\ UNCHANGED <<main, call, reply, alive, queue, pending, wire, daemon>>
    BY <1>6 DEF WriterWrite
  <2>2. Range(up') = Range(up) \cup {hand}
    BY <2>1, RangeAppend DEF TypeOK
  <2>3. Tracked
    BY <1>0, <2>1
  <2> QED  BY <2>1, <2>2, <2>3 DEF CallTracked
<1>7. CASE WriterHealth /\ ~WriterEnds
  <2>1. /\ UNCHANGED <<main, call, reply, alive, queue, pending, up, wire, daemon>>
        /\ hand = NoFrame
    BY <1>7 DEF WriterHealth, HandMatchesPlace
  <2>2. Tracked /\ ~Mine(hand)
    BY <1>0, <2>1 DEF NoFrame, Frame
  <2> QED  BY <2>1, <2>2 DEF CallTracked
<1>8. CASE ReaderFrame /\ wire # <<>>
  <2>1. PICK g \in DownFrames :
          /\ g = Head(wire) /\ Range(wire) = {g} \cup Range(Tail(wire))
          /\ g.op = "answer" => g \in Unanswered
    BY <1>8, HeadOfWire
  <2>2. /\ Dispatch(g) /\ wire' = Tail(wire)
        /\ UNCHANGED <<main, call, queue, hand, up, daemon, alive>>
    BY <1>8, <2>1 DEF ReaderFrame
  <2>3. g.op = "ack" => outstanding # 0 /\ g.seq = outstanding
    <3> SUFFICES ASSUME g.op = "ack" PROVE outstanding # 0 /\ g.seq = outstanding
      OBVIOUS
    <3>1. IsPing(g) /\ g \in Range(wire) /\ g.seq # 0
      BY <2>1 DEF IsPing, DownFrames
    <3> QED  BY <3>1 DEF OnePing
  <2>4. CASE g.op = "ack"
    <3>1. UNCHANGED <<pending, reply>>
      BY <2>2, <2>3, <2>4 DEF Dispatch
    <3>2. Tracked /\ ~Mine(g)
      BY <1>0, <2>2, <2>4, <3>1
    <3> QED  BY <2>1, <2>2, <3>1, <3>2 DEF CallTracked
  <2>5. CASE g.op = "answer"
    <3>1. g.seq \in 1..SeqMax /\ g.n \in 1..MaxSends /\ Windowed(g)
      BY <2>1, <2>5, UnansweredTyped DEF UnansweredWindowed
    <3>2. /\ pending' = [pending EXCEPT ![g.seq] = 0]
          /\ reply' = IF main = "wait" /\ pending[g.seq] = call THEN g.n ELSE reply
      BY <2>2, <2>5 DEF Dispatch
    <3>3. \A s \in 1..SeqMax : s # g.seq => pending'[s] = pending[s]
      BY <3>1, <3>2 DEF TypeOK
    <3>4. pending[g.seq] # call /\ reply = 0
      BY <2>2, <3>1, <3>2, TransportAssumption
    <3>5. Tracked
      BY <1>0, <2>2, <3>4
    <3>6. ASSUME NEW f \in Ways, Mine(f) PROVE CallTracked'
      <4>1. f # g /\ f.seq # g.seq
        BY <3>4, <3>6
      <4>2. f \in Unanswered /\ f.seq \in 1..SeqMax
        BY <3>6, UnansweredTyped DEF Unanswered
      <4>3. pending'[f.seq] = call
        BY <3>3, <3>6, <4>1, <4>2
      <4> QED  BY <2>1, <2>2, <3>6, <4>1, <4>3 DEF CallTracked
    <3>7. CASE \E f \in Range(queue) : f.op = "rpc" /\ f.n = call
      BY <2>2, <3>7 DEF CallTracked
    <3> QED  BY <3>5, <3>6, <3>7
  <2> QED  BY <2>4, <2>5 DEF DownFrames
<1>9. CASE DaemonAnswers
  <2>1. UNCHANGED <<main, call, reply, alive, queue, hand, pending, daemon>>
    BY <1>9 DEF DaemonAnswers
  <2>2. PICK f \in UpFrames :
             /\ f = Head(up) /\ up # <<>> /\ up' = Tail(up)
             /\ Range(up) = {f} \cup Range(up')
             /\ \/ f.op = "send" /\ wire' = wire
                \/ \E g \in DownFrames :
                     /\ g.seq = f.seq /\ g.n = f.n
                     /\ \/ f.op = "rpc" /\ g.op = "answer"
                        \/ f.op = "ping" /\ g.op = "ack"
                     /\ wire' = Append(wire, g) /\ Range(wire') = Range(wire) \cup {g}
    BY <1>9, DaemonMoves
  <2>3. Range(wire) \subseteq Range(wire')
    BY <2>2
  <2>4. Tracked
    BY <1>0, <2>1
  <2>5. CASE Mine(f)
    <3>1. PICK g \in Range(wire') : g.seq = f.seq /\ g.n = f.n /\ g.op = "answer"
      BY <2>2, <2>5 DEF UpFrames
    <3> QED  BY <2>1, <2>5, <3>1 DEF CallTracked
  <2>6. CASE ~Mine(f)
    BY <2>1, <2>2, <2>3, <2>4, <2>6 DEF CallTracked
  <2> QED  BY <2>5, <2>6
<1>10. CASE WriterTop \/ WriterRecv \/ WriterWrite \/ WriterHealth
  <2>1. CASE WriterTop /\ ~WriterEnds
    BY <1>1, <2>1 DEF WriterTop
  <2> QED  BY <1>4, <1>5, <1>6, <1>7, <1>10, <2>1
<1>11. CASE ReaderTop \/ ReaderFrame
  <2>1. CASE ReaderTop
    BY <1>1, <1>4, <2>1 DEF ReaderTop
  <2>2. CASE ReaderFrame /\ wire = <<>>
    BY <1>4, <2>2 DEF ReaderFrame
  <2> QED  BY <1>8, <1>11, <2>1, <2>2
<1>12. CASE DaemonWedges
  BY <1>0, <1>12 DEF DaemonWedges, CallTracked
<1>13. CASE DaemonEnds \/ UNCHANGED vars
  BY <1>1, <1>13 DEF DaemonEnds, vars
<1> QED
  BY <1>2, <1>3, <1>9, <1>10, <1>11, <1>12, <1>13 DEF Next, Writer, Reader

-----------------------------------------------------------------------------
LEMMA InvNext == Inv /\ [Next]_vars => Inv'
  BY TypedNext, HandNext, WindowedNext, CallNext, PingNext, TrackNext DEF Inv

LEMMA Invariance == Spec => []Inv
  BY InvInit, InvNext, PTL DEF Spec

(* Every number, frame and state of a thread stays in its range.           *)
THEOREM TransportTypeCorrect == Spec => []TypeOK
<1>1. Inv => TypeOK
  BY DEF Inv
<1> QED  BY <1>1, Invariance, PTL

(* Numbers wrap (alloc_seq) and requests time out, yet two requests that   *)
(* are not answered yet never have the same number, wherever they are: in  *)
(* the channel, with the writer, or as request or answer on the way.       *)
NumbersTellApart == \A f, g \in Unanswered : f.seq = g.seq <=> f.n = g.n

THEOREM UnansweredNumbersDiffer == Spec => []NumbersTellApart
<1>1. Inv => NumbersTellApart
  <2> SUFFICES ASSUME Inv, NEW f \in Unanswered, NEW g \in Unanswered
               PROVE  f.seq = g.seq <=> f.n = g.n
    BY DEF NumbersTellApart
  <2>1. TypeOK /\ Windowed(f) /\ Windowed(g)
    BY DEF Inv, UnansweredWindowed
  <2>2. /\ f.seq \in 1..SeqMax /\ f.n \in 1..MaxSends
        /\ g.seq \in 1..SeqMax /\ g.n \in 1..MaxSends
    BY <2>1, UnansweredTyped
  <2> QED  BY <2>1, <2>2, SameNumber
<1> QED  BY <1>1, Invariance, PTL

(* A caller gets the answer to its own request, however the sequence       *)
(* numbers wrap and however late answers come (read_and_dispatch_frames    *)
(* and rpc).                                                               *)
THEOREM AnswersReachTheirCaller == Spec => []AnswersCorrelate
<1>1. Inv => AnswersCorrelate
  BY DEF Inv
<1> QED  BY <1>1, Invariance, PTL

(* A call that is waited for is in the channel, or on its way and under    *)
(* its number in the pending map (writer_loop inserts before it writes).   *)
THEOREM CallsAreTracked == Spec => []CallIsTracked
<1>1. Inv => CallIsTracked
  BY DEF Inv, CallTracked, CallIsTracked
<1> QED  BY <1>1, Invariance, PTL

(* A ping that counts as unanswered has its answer still to come           *)
(* (the ping is published before it is written).                           *)
THEOREM PingsAreTracked == Spec => []PingIsTracked
<1>1. Inv => PingIsTracked
  BY DEF Inv
<1> QED  BY <1>1, Invariance, PTL
=============================================================================
