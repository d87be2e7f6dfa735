------------------------- MODULE SnapshotPushProofs -------------------------
(***************************************************************************)
(* Theorems about SnapshotPush: answers to GetPaneSnapshot are fresh unless*)
(* a synchronized update holds them back, only subscribers are owed a push,*)
(* no client goes back in time or is blanked, and no update is lost on its *)
(* way to a subscriber.                                                    *)
(***************************************************************************)
EXTENDS SnapshotPush, TLAPS

Frames   == [kind : FrameKinds, v : Snapshots \cup {None}]
Requests == [kind : RequestKinds, arg : Priorities \cup {None}]
Records  == [shown : Snapshots \cup {None}, pushed : Snapshots \cup {None},
             notified : BOOLEAN, dirty : BOOLEAN, refresh : BOOLEAN,
             waiting : BOOLEAN]
Commands == {"mutate", "markDirty", "snapshotNow", "orphan"}

(* SetPanePriority carries a priority.                                     *)
RequestTyped(r) == r.kind = "priority" => r.arg \in Priorities
RequestsTyped ==
    \A c \in Clients : \A i \in 1..Len(requests[c]) : RequestTyped(requests[c][i])

RpcKinds == {"subscribe", "unsubscribe", "get"}
AnswerKinds == {"subscribed", "unsubscribed", "resp", "error"}

Asking(r)   == \E i \in 1..Len(r) : r[i].kind \in RpcKinds
Answered(w) == \E i \in 1..Len(w) : w[i].kind \in AnswerKinds

(* The frames of a connection: only the end of a subscription and an error *)
(* carry no snapshot.                                                      *)
FrameTyped(f) == (f.v = None) <=> f.kind \in {"unsubscribed", "error"}

(* A client with record k, frames w on their way to it and requests r on   *)
(* their way from it has one RPC at a time; in says whether the daemon has *)
(* it as a subscriber, asked whether it is blocked in its GetPaneSnapshot. *)
OneRpc(k, w, r, asked) ==
    /\ Asking(r) \/ asked \/ Answered(w) => k.waiting
    /\ Asking(r) => ~asked /\ ~Answered(w)
    /\ asked => ~Answered(w)
    /\ \A i \in 1..Len(r) : r[i].kind \in RpcKinds => i = Len(r)
    /\ \A i, j \in 1..Len(w) : w[i].kind \in AnswerKinds /\ w[j].kind \in AnswerKinds => i = j

(* What a client has been sent agrees with what it is subscribed to.       *)
Attachment(k, w, r, in, asked) ==
    /\ \A i \in 1..Len(r) : r[i].kind \in RpcKinds => (r[i].kind = "subscribe" <=> k.shown = None)
    /\ asked => k.shown # None
    /\ \A i \in 1..Len(w) :
         /\ w[i].kind = "subscribed" => i = 1 /\ k.shown = None /\ k.pushed = None /\ in
         /\ w[i].kind = "unsubscribed" => i = Len(w) /\ ~in
         /\ w[i].kind \in AnswerKinds \ {"subscribed"} => k.shown # None
         /\ FrameTyped(w[i])
    /\ k.shown = None /\ (\A i \in 1..Len(w) : w[i].kind # "subscribed")
         => ~in /\ w = <<>> /\ k.pushed = None

Talk(k, w, r, in, asked) == OneRpc(k, w, r, asked) /\ Attachment(k, w, r, in, asked)

Conversations == \A c \in Clients : Talk(client[c], wire[c], requests[c], c \in subs, asker = c)

(* Nobody asks for what Ops leaves out.                                    *)
OnlyOps ==
    /\ \A c \in Clients :
         /\ \A i \in 1..Len(requests[c]) :
              requests[c][i].kind \in {"get", "unsubscribe"} => requests[c][i].kind \in Ops
         /\ \A i \in 1..Len(wire[c]) :
              /\ wire[c][i].kind \in {"resp", "error"} => "get" \in Ops
              /\ wire[c][i].kind = "unsubscribed" => "unsubscribe" \in Ops
    /\ asker # None => "get" \in Ops

(* Versions in the order the pane had them.                                *)
Versions ==
    /\ published \in Nat => published <= version
    /\ slot # None => slot = published
    /\ cache \in Nat => published \in Nat /\ cache <= published
    /\ slot = None => cache \in {published, Blank}
    /\ passed # None => passed.at <= version

(* What the passing of a barrier leaves: the IO thread has published, or an *)
(* open synchronized update has held that back.                            *)
Served == passed # None /\ (passed.held \/ (slot # None /\ slot >= passed.at))

(* While the daemon waits for its barrier nobody can take what the IO      *)
(* thread has published there.                                             *)
Barrier ==
    /\ phase # "barrier" => \A i \in 1..Len(cmds) : cmds[i] # "snapshotNow"
    /\ phase = "barrier" => Served \/ \E i \in 1..Len(cmds) : cmds[i] = "snapshotNow"

(* What client record k shows and what is on its way to it is in order,    *)
(* and not newer than the last snapshot published, p, nor than the entry e.*)
Values(k, w) == ({k.shown, k.pushed} \cup {w[i].v : i \in 1..Len(w)}) \cap Nat
Ordered(k, w) ==
    /\ \A i, j \in 1..Len(w) : i < j /\ w[i].v \in Nat /\ w[j].v \in Nat => w[i].v <= w[j].v
    /\ k.pushed \in Nat => \A i \in 1..Len(w) : w[i].v \in Nat => k.pushed <= w[i].v
    /\ k.shown \in Nat => \A x \in Values(k, w) : k.shown <= x
Kept(k, w, p, e) ==
    /\ Ordered(k, w)
    /\ \A x \in Values(k, w) : p \in Nat /\ x <= p /\ (e \in Nat => x <= e)
Chain(c) == Kept(client[c], wire[c], published, cache)

(* One client, and nobody empties the entry behind its back.               *)
Filled ==
    /\ pending # {} => slot # None \/ cache \in Nat
    /\ \A c \in Clients :
         /\ client[c].pushed # Blank
         /\ \A i \in 1..Len(wire[c]) : wire[c][i].kind = "snapshot" => wire[c][i].v # Blank

(* OnItsWay as the steps of one client keep it: its refresh is a request    *)
(* on its way, and what is owed to it is in the daemon's entry.            *)
Coming(c) ==
    \/ slot # None
    \/ c \in pending /\ cache = published
    \/ client[c].shown = published
    \/ client[c].pushed = published /\ (client[c].dirty \/ client[c].notified)
    \/ \E i \in 1..Len(wire[c]) : wire[c][i].v = published
    \/ \E i \in 1..Len(requests[c]) : requests[c][i].kind \in {"mutate", "markDirty"}
    \/ cmds # <<>> \/ ioDirty
AllComing == published # None => \A c \in subs : Coming(c)

(* What is published before anyone subscribes waits in the buffer.         *)
Unseen == subs = {} /\ published # None => slot # None

-----------------------------------------------------------------------------
(* Sequences.                                                              *)
LEMMA AppendFacts ==
    ASSUME NEW S, NEW s \in Seq(S), NEW e
    PROVE  /\ Len(Append(s, e)) = Len(s) + 1 /\ Len(s) \in Nat
           /\ \A i \in 1..Len(s) : Append(s, e)[i] = s[i]
           /\ Append(s, e)[Len(s) + 1] = e
           /\ Append(s, e) # <<>>
           /\ e \in S => Append(s, e) \in Seq(S)
  OBVIOUS

LEMMA TailFacts ==
    ASSUME NEW S, NEW s \in Seq(S), s # <<>>
    PROVE  /\ Len(s) \in Nat \ {0} /\ Len(Tail(s)) = Len(s) - 1
           /\ \A i \in 1..(Len(s) - 1) : Tail(s)[i] = s[i + 1]
           /\ Head(s) = s[1] /\ Head(s) \in S /\ Tail(s) \in Seq(S)
           /\ Len(s) = 1 => Tail(s) = <<>>
<1>1. /\ Len(s) \in Nat \ {0} /\ Len(Tail(s)) = Len(s) - 1
      /\ \A i \in 1..(Len(s) - 1) : Tail(s)[i] = s[i + 1]
      /\ Head(s) = s[1] /\ Head(s) \in S /\ Tail(s) \in Seq(S)
  OBVIOUS
<1>2. ASSUME NEW t \in Seq(S), Len(t) = 0 PROVE t = <<>>
  BY <1>2
<1> QED  BY <1>1, <1>2

LEMMA EmptyFacts ==
    ASSUME NEW S, NEW s \in Seq(S)
    PROVE  s = <<>> <=> Len(s) = 0
  OBVIOUS

-----------------------------------------------------------------------------
(* Types.                                                                  *)

LEMMA Values0 == Blank \notin Nat /\ None \notin Nat /\ Blank # None /\ None \notin Clients
                 /\ Joined \subseteq Clients /\ Snapshots = Nat \cup {Blank}
  BY SnapshotPushAssumption DEF Snapshots

LEMMA BuiltTyped == TypeOK => Built \in Snapshots /\ (slot # None => Built \in Nat)
  BY Values0 DEF TypeOK, Built

LEMMA TypedInit == Init => TypeOK /\ RequestsTyped
<1> SUFFICES ASSUME Init PROVE TypeOK /\ RequestsTyped
  OBVIOUS
<1>1. /\ wire \in [Clients -> Seq(Frames)] /\ requests \in [Clients -> Seq(Requests)]
      /\ cmds \in Seq(Commands)
  <2> HIDE DEF Frames, Requests, Commands
  <2> QED  BY DEF Init
<1>2. client \in [Clients -> Records]
  BY Values0 DEF Init, Records, Snapshots
<1>3. RequestsTyped
  BY DEF Init, RequestsTyped
<1>4. subs \subseteq Clients /\ prio \in [Clients -> Priorities] /\ outputs \in 0..MaxOutput
      /\ ops \in 0..MaxOps
  BY SnapshotPushAssumption DEF Init, Priorities
<1>5. slot \in Nat \cup {None} /\ published \in Nat \cup {None} /\ cache \in Snapshots
  BY DEF Init, Snapshots
<1>6. sync \in BOOLEAN /\ passed \in [at : Nat, held : BOOLEAN] \cup {None}
  BY DEF Init
<1> QED
  BY <1>1, <1>2, <1>3, <1>4, <1>5, <1>6 DEF Init, TypeOK, Frames, Records, Requests, Commands

(* The frame of an answer or a push is a frame, if what it carries is.     *)
LEMMA FrameIn ==
    ASSUME NEW kind \in FrameKinds, NEW v \in Snapshots \cup {None}
    PROVE  Frame(kind, v) \in Frames /\ Frame(kind, v).kind = kind /\ Frame(kind, v).v = v
  BY DEF Frame, Frames

LEMMA PushedTyped ==
    ASSUME TypeOK, NEW to PROVE Pushed(to) \in [Clients -> Seq(Frames)]
<1>1. Frame("snapshot", Built) \in Frames
  BY BuiltTyped, FrameIn DEF FrameKinds
<1>2. wire \in [Clients -> Seq(Frames)]
  BY DEF TypeOK, Frames
<1> HIDE DEF Frames
<1>3. \A c \in Clients : Append(wire[c], Frame("snapshot", Built)) \in Seq(Frames)
  BY <1>1, <1>2
<1> QED  BY <1>2, <1>3 DEF Pushed

LEMMA ReplyTyped ==
    ASSUME TypeOK, NEW c \in Clients, NEW kind \in FrameKinds, NEW v \in Snapshots \cup {None},
           Reply(c, kind, v)
    PROVE  wire' \in [Clients -> Seq(Frames)]
<1>1. Frame(kind, v) \in Frames
  BY FrameIn
<1>2. wire \in [Clients -> Seq(Frames)]
  BY DEF TypeOK, Frames
<1> HIDE DEF Frames
<1>3. Append(wire[c], Frame(kind, v)) \in Seq(Frames)
  BY <1>1, <1>2
<1> QED  BY <1>2, <1>3 DEF Reply

LEMMA ReceiveTyped ==
    ASSUME TypeOK, RequestsTyped, NEW c \in Clients, NEW kind, Receive(c, kind)
    PROVE  /\ requests' \in [Clients -> Seq(Requests)] /\ RequestsTyped'
           /\ Head(requests[c]) \in Requests /\ RequestTyped(Head(requests[c]))
<1>1. requests \in [Clients -> Seq(Requests)] /\ requests[c] # <<>>
      /\ requests' = [requests EXCEPT ![c] = Tail(@)]
  BY DEF TypeOK, Requests, Receive
<1> HIDE DEF Requests
<1>2. /\ Tail(requests[c]) \in Seq(Requests) /\ Head(requests[c]) \in Requests
      /\ Head(requests[c]) = requests[c][1] /\ Len(requests[c]) \in Nat \ {0}
      /\ Len(Tail(requests[c])) = Len(requests[c]) - 1
      /\ \A i \in 1..(Len(requests[c]) - 1) : Tail(requests[c])[i] = requests[c][i + 1]
  BY <1>1, TailFacts
<1>3. RequestsTyped'
  <2> SUFFICES ASSUME NEW d \in Clients, NEW i \in 1..Len(requests'[d])
               PROVE  RequestTyped(requests'[d][i])
    BY DEF RequestsTyped
  <2>1. CASE d = c
    <3>1. i + 1 \in 1..Len(requests[c]) /\ requests'[d][i] = requests[c][i + 1]
      BY <1>1, <1>2, <2>1
    <3> QED  BY <3>1 DEF RequestsTyped
  <2>2. CASE d # c
    BY <1>1, <2>2 DEF RequestsTyped
  <2> QED  BY <2>1, <2>2
<1>4. RequestTyped(Head(requests[c]))
  BY <1>2 DEF RequestsTyped
<1> QED  BY <1>1, <1>2, <1>3, <1>4

LEMMA SendTyped ==
    ASSUME TypeOK, RequestsTyped, NEW c \in Clients, NEW r \in Requests, RequestTyped(r), Send(c, r)
    PROVE  requests' \in [Clients -> Seq(Requests)] /\ RequestsTyped'
<1>1. requests \in [Clients -> Seq(Requests)] /\ requests' = [requests EXCEPT ![c] = Append(@, r)]
  BY DEF TypeOK, Requests, Send
<1> HIDE DEF Requests
<1>2. Append(requests[c], r) \in Seq(Requests)
  BY <1>1
<1>3. RequestsTyped'
  <2> SUFFICES ASSUME NEW d \in Clients, NEW i \in 1..Len(requests'[d])
               PROVE  RequestTyped(requests'[d][i])
    BY DEF RequestsTyped
  <2>1. CASE d = c
    BY <1>1, <2>1, AppendFacts DEF RequestsTyped
  <2>2. CASE d # c
    BY <1>1, <2>2 DEF RequestsTyped
  <2> QED  BY <2>1, <2>2
<1> QED  BY <1>1, <1>2, <1>3

LEMMA ReceivedTyped ==
    ASSUME NEW k \in Records, NEW f \in Frames PROVE Received(k, f) \in Records
  BY DEF Records, Frames, FrameKinds, Received

(* What the client's own actions do to its record.                         *)
LEMMA ClientSteps ==
    ASSUME TypeOK, NEW c \in Clients
    PROVE  /\ client \in [Clients -> Records] /\ client[c] \in Records
           /\ Subscribe(c) => client' = [client EXCEPT ![c] = [@ EXCEPT !.waiting = TRUE]]
           /\ \A op : Rpc(c, op) =>
                client' = [client EXCEPT ![c] = [@ EXCEPT !.waiting = TRUE]]
           /\ Mutate(c) =>
                client' = [client EXCEPT ![c] = [@ EXCEPT !.pushed = None, !.dirty = TRUE]]
           /\ PollEvents(c) =>
                client' = [client EXCEPT ![c] = [@ EXCEPT !.notified = FALSE, !.dirty = TRUE]]
           /\ Redraw(c) =>
                \/ /\ client[c].pushed # None
                   /\ client' = [client EXCEPT ![c] = [@ EXCEPT !.shown = client[c].pushed,
                                   !.pushed = None, !.refresh = FALSE, !.dirty = FALSE]]
                   /\ UNCHANGED requests
                \/ /\ client[c].pushed = None
                   /\ client' = [client EXCEPT ![c] = [@ EXCEPT !.refresh = TRUE]]
                   /\ Send(c, Request("markDirty", None))
<1>1. client \in [Clients -> Records]
  BY DEF TypeOK, Records
<1> HIDE DEF Records
<1> QED  BY <1>1 DEF Subscribe, Rpc, Mutate, PollEvents, Redraw

(* What the pane's IO thread does.                                         *)
Inner == IoOutput \/ IoCommand \/ IoPublish \/ SyncTimesOut

(* A command is a barrier that publishes, or it marks the grid.            *)
LEMMA CommandSteps ==
    ASSUME IoCommand
    PROVE  /\ cmds # <<>> /\ cmds' = Tail(cmds)
           /\ \/ version' = version /\ Publish(version) /\ ioDirty' = FALSE /\ ~sync
              \/ /\ version' \in {version, version + 1} /\ ioDirty' = TRUE
                 /\ UNCHANGED <<slot, published>>
                 /\ Head(cmds) = "snapshotNow" => sync
           /\ Head(cmds) = "snapshotNow" =>
                version' = version /\ passed' = [at |-> version, held |-> sync]
           /\ Head(cmds) # "snapshotNow" => passed' = passed
           /\ UNCHANGED <<sync, serverVars, cache, age, wire, requests, client, outputs, ops>>
<1>1. CASE Head(cmds) \in {"snapshotNow", "orphan"} /\ ~sync
  BY <1>1 DEF IoCommand
<1>2. CASE ~(Head(cmds) \in {"snapshotNow", "orphan"} /\ ~sync)
  BY <1>2 DEF IoCommand
<1> QED  BY <1>1, <1>2

LEMMA TypedNext == TypeOK /\ RequestsTyped /\ [Next]_vars => TypeOK' /\ RequestsTyped'
<1> SUFFICES ASSUME TypeOK, RequestsTyped, [Next]_vars PROVE TypeOK' /\ RequestsTyped'
  OBVIOUS
<1> USE DEF paneVars, serverVars
<1>1. CASE UNCHANGED vars
  BY <1>1 DEF vars, TypeOK, RequestsTyped
<1>2. CASE IoOutput \/ IoPublish \/ SyncTimesOut
  <2>1. /\ version' \in Nat /\ ioDirty' \in BOOLEAN /\ sync' \in BOOLEAN
        /\ slot' \in Nat \cup {None} /\ published' \in Nat \cup {None}
    <3>1. CASE IoOutput
      BY <3>1 DEF IoOutput, TypeOK
    <3>2. CASE IoPublish \/ SyncTimesOut
      BY <3>2 DEF IoPublish, SyncTimesOut, Publish, TypeOK
    <3> QED  BY <1>2, <3>1, <3>2
  <2>2. outputs' \in 0..MaxOutput
    BY <1>2, SnapshotPushAssumption DEF IoOutput, IoPublish, SyncTimesOut, TypeOK
  <2> QED  BY <1>2, <2>1, <2>2 DEF IoOutput, IoPublish, SyncTimesOut, TypeOK, RequestsTyped
<1>3. CASE IoCommand
  <2>1. Tail(cmds) \in Seq(Commands)
    <3>1. cmds \in Seq(Commands) /\ cmds # <<>>
      BY <1>3 DEF IoCommand, TypeOK, Commands
    <3> HIDE DEF Commands
    <3> QED  BY <3>1
  <2>2. /\ version' \in Nat /\ ioDirty' \in BOOLEAN
        /\ slot' \in Nat \cup {None} /\ published' \in Nat \cup {None}
    <3>1. \/ version' = version /\ Publish(version) /\ ioDirty' = FALSE
          \/ /\ version' \in {version, version + 1} /\ ioDirty' = TRUE
             /\ UNCHANGED <<slot, published>>
      BY <1>3, CommandSteps, Zenon
    <3>2. version \in Nat /\ slot \in Nat \cup {None} /\ published \in Nat \cup {None}
      BY DEF TypeOK
    <3>3. ioDirty' \in BOOLEAN
      BY <3>1, Zenon
    <3>4. version' \in Nat /\ slot' \in Nat \cup {None} /\ published' \in Nat \cup {None}
      BY <3>1, <3>2 DEF Publish
    <3> QED  BY <3>3, <3>4
  <2>3. passed' \in [at : Nat, held : BOOLEAN] \cup {None}
    <3>1. version \in Nat /\ sync \in BOOLEAN /\ passed \in [at : Nat, held : BOOLEAN] \cup {None}
      BY DEF TypeOK
    <3>2. passed' = [at |-> version, held |-> sync] \/ passed' = passed
      BY <1>3, CommandSteps
    <3> QED  BY <3>1, <3>2
  <2> QED  BY <1>3, <2>1, <2>2, <2>3 DEF IoCommand, TypeOK, RequestsTyped, Commands
<1>4. CASE TrailingEdgeFlush
  <2>1. pending' \subseteq Clients /\ age' \in 0..3
    BY <1>4 DEF TrailingEdgeFlush, TypeOK
  <2>2. slot' \in Nat \cup {None} /\ cache' \in Snapshots
    BY <1>4, BuiltTyped DEF TrailingEdgeFlush, TypeOK, BuildClone
  <2>3. wire' \in [Clients -> Seq(Frames)]
    <3>1. wire' = wire \/ \E to : wire' = Pushed(to)
      BY <1>4 DEF TrailingEdgeFlush
    <3> QED  BY <3>1, PushedTyped DEF TypeOK, Frames
  <2> QED  BY <1>4, <2>1, <2>2, <2>3 DEF TrailingEdgeFlush, TypeOK, RequestsTyped, Frames
<1>5. CASE PushFresh
  <2>1. pending' \subseteq Clients /\ age' \in 0..3
    BY <1>5 DEF PushFresh, TypeOK
  <2>2. slot' \in Nat \cup {None} /\ cache' \in Snapshots
    BY <1>5, BuiltTyped DEF PushFresh, TypeOK, BuildClone
  <2>3. wire' \in [Clients -> Seq(Frames)]
    <3>1. wire' = wire \/ \E to : wire' = Pushed(to)
      BY <1>5 DEF PushFresh
    <3> QED  BY <3>1, PushedTyped DEF TypeOK, Frames
  <2> QED  BY <1>5, <2>1, <2>2, <2>3 DEF PushFresh, TypeOK, RequestsTyped, Frames
<1>6. CASE Tick
  <2>1. age' \in 0..3
    BY <1>6 DEF Tick, TypeOK
  <2> QED  BY <1>6, <2>1 DEF Tick, TypeOK, RequestsTyped
<1>7. CASE BarrierPassed
  <2>1. asker \in Clients
    BY <1>7 DEF BarrierPassed, TypeOK
  <2>2. wire' \in [Clients -> Seq(Frames)]
    BY <1>7, <2>1, ReplyTyped, BuiltTyped DEF BarrierPassed, FrameKinds
  <2> QED  BY <1>7, <2>2 DEF BarrierPassed, BuildAndTake, TypeOK, RequestsTyped, Frames, Snapshots
<1>8. CASE BarrierTimesOut
  <2>1. asker \in Clients
    BY <1>8 DEF BarrierTimesOut, TypeOK
  <2>2. wire' \in [Clients -> Seq(Frames)]
    BY <1>8, <2>1, ReplyTyped DEF BarrierTimesOut, FrameKinds
  <2>3. cmds' \in Seq(Commands)
    <3>1. cmds \in Seq(Commands) /\ "orphan" \in Commands
      BY DEF TypeOK, Commands
    <3> HIDE DEF Commands
    <3>2. cmds' = [i \in 1..Len(cmds) |-> IF cmds[i] = "snapshotNow" THEN "orphan" ELSE cmds[i]]
      BY <1>8, <3>1 DEF BarrierTimesOut
    <3>3. \A i \in 1..Len(cmds) : cmds[i] \in Commands
      BY <3>1
    <3> QED  BY <3>1, <3>2, <3>3
  <2> QED  BY <1>8, <2>2, <2>3 DEF BarrierTimesOut, TypeOK, RequestsTyped, Frames, Commands
<1>9. ASSUME NEW c \in Clients, Handle(c) PROVE TypeOK' /\ RequestsTyped'
  <2>1. CASE HandleSubscribe(c)
    <3>1. requests' \in [Clients -> Seq(Requests)] /\ RequestsTyped'
      BY <2>1, ReceiveTyped DEF HandleSubscribe
    <3>2. wire' \in [Clients -> Seq(Frames)]
      BY <2>1, ReplyTyped, BuiltTyped DEF HandleSubscribe, FrameKinds
    <3> QED  BY <2>1, <3>1, <3>2 DEF HandleSubscribe, Receive, BuildAndTake, TypeOK, Frames, Requests, Snapshots
  <2>2. CASE HandleUnsubscribe(c)
    <3>1. requests' \in [Clients -> Seq(Requests)] /\ RequestsTyped'
      BY <2>2, ReceiveTyped DEF HandleUnsubscribe
    <3>2. wire' \in [Clients -> Seq(Frames)]
      BY <2>2, ReplyTyped DEF HandleUnsubscribe, FrameKinds
    <3>3. prio' \in [Clients -> Priorities] /\ subs' \subseteq Clients /\ pending' \subseteq Clients
      BY <2>2 DEF HandleUnsubscribe, TypeOK, Priorities
    <3> QED  BY <2>2, <3>1, <3>2, <3>3 DEF HandleUnsubscribe, Receive, TypeOK, Frames, Requests
  <2>3. CASE HandleSetPanePriority(c)
    <3>1. /\ requests' \in [Clients -> Seq(Requests)] /\ RequestsTyped'
          /\ RequestTyped(Head(requests[c])) /\ Head(requests[c]).kind = "priority"
      BY <2>3, ReceiveTyped DEF HandleSetPanePriority, Receive
    <3>2. prio' \in [Clients -> Priorities]
      BY <2>3, <3>1 DEF HandleSetPanePriority, TypeOK, RequestTyped
    <3> QED  BY <2>3, <3>1, <3>2 DEF HandleSetPanePriority, Receive, TypeOK, Requests
  <2>4. CASE HandleGetPaneSnapshot(c)
    <3>1. requests' \in [Clients -> Seq(Requests)] /\ RequestsTyped'
      BY <2>4, ReceiveTyped DEF HandleGetPaneSnapshot
    <3>2. Append(cmds, "snapshotNow") \in Seq(Commands)
      BY AppendFacts DEF TypeOK, Commands
    <3>3. c # None
      BY Values0
    <3> QED  BY <2>4, <3>1, <3>2, <3>3 DEF HandleGetPaneSnapshot, Receive, TypeOK, Requests, Commands
  <2>5. ASSUME NEW cmd \in {"mutate", "markDirty"}, HandleCommand(c, cmd) PROVE TypeOK' /\ RequestsTyped'
    <3>1. requests' \in [Clients -> Seq(Requests)] /\ RequestsTyped'
      BY <2>5, ReceiveTyped DEF HandleCommand
    <3>2. Append(cmds, cmd) \in Seq(Commands)
      BY AppendFacts DEF TypeOK, Commands
    <3> QED  BY <2>5, <3>1, <3>2 DEF HandleCommand, Receive, TypeOK, Requests, Commands
  <2> QED  BY <1>9, <2>1, <2>2, <2>3, <2>4, <2>5 DEF Handle
<1>10. ASSUME NEW c \in Clients, Subscribe(c) \/ Rpc(c, "get") \/ Rpc(c, "unsubscribe")
       PROVE  TypeOK' /\ RequestsTyped'
  <2>1. PICK kind \in {"subscribe", "get", "unsubscribe"} : Send(c, Request(kind, None))
    BY <1>10 DEF Subscribe, Rpc
  <2>2. Request(kind, None) \in Requests /\ RequestTyped(Request(kind, None))
    BY DEF Request, Requests, RequestTyped, RequestKinds
  <2>3. requests' \in [Clients -> Seq(Requests)] /\ RequestsTyped'
    BY <2>1, <2>2, SendTyped
  <2>4. client' \in [Clients -> Records]
    <3>1. [client[c] EXCEPT !.waiting = TRUE] \in Records
      BY ClientSteps DEF Records
    <3> HIDE DEF Records
    <3> QED  BY <1>10, <3>1, ClientSteps
  <2>5. ops' \in 0..MaxOps
    BY <1>10, SnapshotPushAssumption DEF Subscribe, Rpc, Spend, TypeOK
  <2> QED  BY <1>10, <2>3, <2>4, <2>5 DEF Subscribe, Rpc, ClientFrame, TypeOK, Requests, Records
<1>11. ASSUME NEW c \in Clients, SetPanePriority(c) \/ Mutate(c)
       PROVE  TypeOK' /\ RequestsTyped'
  <2>1. PICK kind \in {"priority", "mutate"}, arg \in Priorities \cup {None} :
          Send(c, Request(kind, arg)) /\ (kind = "priority" => arg \in Priorities)
    BY <1>11 DEF SetPanePriority, Mutate
  <2>2. Request(kind, arg) \in Requests /\ RequestTyped(Request(kind, arg))
    BY <2>1 DEF Request, Requests, RequestTyped, RequestKinds
  <2>3. requests' \in [Clients -> Seq(Requests)] /\ RequestsTyped'
    BY <2>1, <2>2, SendTyped
  <2>4. client' \in [Clients -> Records]
    <3>1. [client[c] EXCEPT !.pushed = None, !.dirty = TRUE] \in Records
      BY ClientSteps DEF Records
    <3> HIDE DEF Records
    <3> QED  BY <1>11, <3>1, ClientSteps DEF SetPanePriority
  <2>5. ops' \in 0..MaxOps
    BY <1>11, SnapshotPushAssumption DEF SetPanePriority, Mutate, Spend, TypeOK
  <2> QED  BY <1>11, <2>3, <2>4, <2>5 DEF SetPanePriority, Mutate, ClientFrame, TypeOK, Requests, Records
<1>12. ASSUME NEW c \in Clients, Read(c) PROVE TypeOK' /\ RequestsTyped'
  <2>1. wire \in [Clients -> Seq(Frames)] /\ client \in [Clients -> Records]
    BY DEF TypeOK, Frames, Records
  <2>2. wire[c] # <<>> /\ wire' = [wire EXCEPT ![c] = Tail(@)]
        /\ client' = [client EXCEPT ![c] = Received(@, Head(wire[c]))]
    BY <1>12 DEF Read
  <2>3. Head(wire[c]) \in Frames /\ Tail(wire[c]) \in Seq(Frames)
    <3> HIDE DEF Frames
    <3> QED  BY <2>1, <2>2
  <2>4. Received(client[c], Head(wire[c])) \in Records
    BY <2>1, <2>3, ReceivedTyped
  <2>5. wire' \in [Clients -> Seq(Frames)] /\ client' \in [Clients -> Records]
    <3> HIDE DEF Frames, Records
    <3> QED  BY <2>1, <2>2, <2>3, <2>4
  <2> QED  BY <1>12, <2>5 DEF Read, ClientFrame, TypeOK, Frames, Records, RequestsTyped
<1>13. ASSUME NEW c \in Clients, PollEvents(c) PROVE TypeOK' /\ RequestsTyped'
  <2>1. client' \in [Clients -> Records]
    BY <1>13 DEF PollEvents, TypeOK, Records
  <2> QED  BY <1>13, <2>1 DEF PollEvents, ClientFrame, TypeOK, RequestsTyped, Records
<1>14. ASSUME NEW c \in Clients, Redraw(c) PROVE TypeOK' /\ RequestsTyped'
  <2>1. client' \in [Clients -> Records]
    <3>1. /\ [client[c] EXCEPT !.shown = client[c].pushed, !.pushed = None, !.refresh = FALSE,
                               !.dirty = FALSE] \in Records
          /\ [client[c] EXCEPT !.refresh = TRUE] \in Records
      BY ClientSteps DEF Records
    <3> HIDE DEF Records
    <3> QED  BY <1>14, <3>1, ClientSteps
  <2>2. ops' \in 0..MaxOps
    BY <1>14, SnapshotPushAssumption DEF Redraw, TypeOK
  <2>3. requests' \in [Clients -> Seq(Requests)] /\ RequestsTyped'
    <3>1. CASE UNCHANGED requests
      BY <3>1 DEF TypeOK, Requests, RequestsTyped
    <3>2. CASE Send(c, Request("markDirty", None))
      <4>1. Request("markDirty", None) \in Requests /\ RequestTyped(Request("markDirty", None))
        BY DEF Request, Requests, RequestTyped, RequestKinds
      <4> QED  BY <3>2, <4>1, SendTyped
    <3> QED  BY <1>14, <3>1, <3>2 DEF Redraw
  <2> QED  BY <1>14, <2>1, <2>2, <2>3 DEF Redraw, ClientFrame, TypeOK, Records, Requests
<1> QED
  BY <1>1, <1>2, <1>3, <1>4, <1>5, <1>6, <1>7, <1>8, <1>9, <1>10, <1>11, <1>12, <1>13, <1>14
     DEF Next, Drain

-----------------------------------------------------------------------------
(* One conversation: what each thing that can happen in it preserves.      *)

LEMMA RpcIsLast ==
    ASSUME NEW k, NEW w, NEW r \in Seq(Requests), NEW asked, OneRpc(k, w, r, asked),
           r # <<>>, Head(r).kind \in RpcKinds
    PROVE  Len(r) = 1 /\ Asking(r) /\ ~Answered(w) /\ ~asked /\ k.waiting /\ ~Asking(Tail(r))
<1> HIDE DEF Requests
<1>1. /\ Len(r) \in Nat \ {0} /\ Len(Tail(r)) = Len(r) - 1 /\ Head(r) = r[1]
      /\ 1 \in 1..Len(r)
  BY TailFacts
<1>2. Asking(r) /\ Len(r) = 1
  BY <1>1 DEF OneRpc, Asking
<1>3. ~Asking(Tail(r))
  <2>1. Len(Tail(r)) = 0
    BY <1>1, <1>2
  <2>2. \A i \in 1..0 : FALSE
    OBVIOUS
  <2> QED  BY <2>1, <2>2 DEF Asking
<1> QED  BY <1>2, <1>3 DEF OneRpc

(* What the reader, poll_events or a redraw does to a record that has no   *)
(* part in an RPC.                                                         *)
LEMMA TalkSame ==
    ASSUME NEW k, NEW k2, NEW w, NEW r, NEW in, NEW asked, Talk(k, w, r, in, asked),
           k2.waiting = k.waiting, k2.shown = None <=> k.shown = None,
           k.pushed = None => k2.pushed = None
    PROVE  Talk(k2, w, r, in, asked)
  BY DEF Talk, OneRpc, Attachment

LEMMA TalkPush ==
    ASSUME NEW k, NEW w \in Seq(Frames), NEW r, NEW asked, Talk(k, w, r, TRUE, asked),
           NEW f \in Frames, f.kind = "snapshot", f.v # None
    PROVE  Talk(k, Append(w, f), r, TRUE, asked)
<1> HIDE DEF Frames
<1>1. /\ Len(Append(w, f)) = Len(w) + 1 /\ Len(w) \in Nat
      /\ \A i \in 1..Len(w) : Append(w, f)[i] = w[i]
      /\ Append(w, f)[Len(w) + 1] = f
  BY AppendFacts
<1>2. f.kind \notin AnswerKinds /\ FrameTyped(f)
  BY DEF AnswerKinds, FrameTyped
<1>3. Answered(Append(w, f)) => Answered(w)
  BY <1>1, <1>2 DEF Answered
<1>4. OneRpc(k, Append(w, f), r, asked)
  BY <1>1, <1>2, <1>3 DEF Talk, OneRpc
<1>5. (\A i \in 1..(Len(w) + 1) : Append(w, f)[i].kind # "subscribed")
        => \A i \in 1..Len(w) : w[i].kind # "subscribed"
  BY <1>1
<1>6. Attachment(k, Append(w, f), r, TRUE, asked)
  BY <1>1, <1>2, <1>5 DEF Talk, Attachment, AnswerKinds
<1> QED  BY <1>4, <1>6 DEF Talk

(* A request nobody waits for is sent, and handled.                        *)
LEMMA TalkSend ==
    ASSUME NEW k, NEW w, NEW r \in Seq(Requests), NEW in, NEW asked, Talk(k, w, r, in, asked),
           NEW q \in Requests, q.kind \notin RpcKinds, ~k.waiting
    PROVE  Talk(k, w, Append(r, q), in, asked)
<1> HIDE DEF Requests
<1>1. /\ Len(Append(r, q)) = Len(r) + 1 /\ Len(r) \in Nat
      /\ \A i \in 1..Len(r) : Append(r, q)[i] = r[i]
      /\ Append(r, q)[Len(r) + 1] = q
  BY AppendFacts
<1>2. ~Asking(r)
  BY DEF Talk, OneRpc
<1>3. \A i \in 1..(Len(r) + 1) : Append(r, q)[i].kind \notin RpcKinds
  BY <1>1, <1>2 DEF Asking
<1> QED  BY <1>1, <1>3 DEF Talk, OneRpc, Attachment, Asking

LEMMA TalkHandled ==
    ASSUME NEW k, NEW w, NEW r \in Seq(Requests), NEW in, NEW asked, Talk(k, w, r, in, asked),
           r # <<>>
    PROVE  Talk(k, w, Tail(r), in, asked)
<1> HIDE DEF Requests
<1>1. /\ Len(r) \in Nat \ {0} /\ Len(Tail(r)) = Len(r) - 1
      /\ \A i \in 1..(Len(r) - 1) : Tail(r)[i] = r[i + 1] /\ i + 1 \in 1..Len(r)
  BY TailFacts
<1>2. Asking(Tail(r)) => Asking(r)
  BY <1>1 DEF Asking
<1>3. OneRpc(k, w, Tail(r), asked)
  <2>1. ASSUME NEW i \in 1..Len(Tail(r)), Tail(r)[i].kind \in RpcKinds
        PROVE  i = Len(Tail(r))
    <3>1. i + 1 \in 1..Len(r) /\ r[i + 1].kind \in RpcKinds
      BY <1>1, <2>1
    <3>2. i + 1 = Len(r) /\ i \in Nat
      BY <3>1 DEF Talk, OneRpc
    <3>3. i = Len(r) - 1
      <4>1. Len(r) \in Nat
        BY <1>1
      <4> QED  BY <3>2, <4>1
    <3> QED  BY <1>1, <3>3
  <2> QED  BY <1>2, <2>1 DEF Talk, OneRpc
<1> QED  BY <1>1, <1>3 DEF Talk, Attachment

(* An RPC is sent by a client that waits for nothing.                      *)
LEMMA TalkAsk ==
    ASSUME NEW k, NEW k2, NEW w, NEW r \in Seq(Requests), NEW in, NEW asked,
           Talk(k, w, r, in, asked), NEW q \in Requests, q.kind \in RpcKinds, ~k.waiting,
           k2.waiting, k2.shown = k.shown, k2.pushed = k.pushed,
           q.kind = "subscribe" <=> k.shown = None
    PROVE  Talk(k2, w, Append(r, q), in, asked)
<1> HIDE DEF Requests
<1>1. /\ Len(Append(r, q)) = Len(r) + 1 /\ Len(r) \in Nat
      /\ \A i \in 1..Len(r) : Append(r, q)[i] = r[i]
      /\ Append(r, q)[Len(r) + 1] = q
  BY AppendFacts
<1>2. ~Asking(r) /\ ~asked /\ ~Answered(w)
  BY DEF Talk, OneRpc
<1>3. \A i \in 1..Len(r) : Append(r, q)[i].kind \notin RpcKinds
  BY <1>1, <1>2 DEF Asking
<1>4. OneRpc(k2, w, Append(r, q), asked)
  BY <1>1, <1>2, <1>3 DEF Talk, OneRpc
<1>5. Attachment(k2, w, Append(r, q), in, asked)
  <2>1. \A i \in 1..(Len(r) + 1) : Append(r, q)[i].kind \in RpcKinds => Append(r, q)[i] = q
    BY <1>1, <1>3
  <2> QED  BY <1>1, <2>1 DEF Talk, Attachment
<1> QED  BY <1>4, <1>5 DEF Talk

(* The daemon answers an RPC: Subscribe, Unsubscribe, or the GetPaneSnap-  *)
(* shot it has been blocked in.                                            *)
LEMMA TalkAnswer ==
    ASSUME NEW k, NEW w \in Seq(Frames), NEW r, NEW in, NEW in2, NEW asked,
           NEW f \in Frames, f.kind \in AnswerKinds, FrameTyped(f),
           OneRpc(k, w, r, asked), Attachment(k, w, r, in, asked),
           ~Answered(w), ~Asking(r), k.waiting,
           f.kind = "subscribed" <=> k.shown = None, f.kind = "unsubscribed" => ~in2,
           f.kind = "subscribed" => in2, f.kind \in {"resp", "error"} => in2 = in
    PROVE  Talk(k, Append(w, f), r, in2, FALSE)
<1> HIDE DEF Frames
<1>1. /\ Len(Append(w, f)) = Len(w) + 1 /\ Len(w) \in Nat
      /\ \A i \in 1..Len(w) : Append(w, f)[i] = w[i] /\ w[i].kind \notin AnswerKinds
      /\ Append(w, f)[Len(w) + 1] = f
  BY AppendFacts DEF Answered
<1>2. OneRpc(k, Append(w, f), r, FALSE)
  BY <1>1 DEF OneRpc, Asking
<1>3. \A i \in 1..Len(w) : w[i].kind # "subscribed" /\ w[i].kind # "unsubscribed"
  BY <1>1 DEF AnswerKinds
<1>4. CASE k.shown = None
  <2>1. w = <<>> /\ k.pushed = None /\ ~in
    BY <1>3, <1>4 DEF Attachment
  <2>2. Len(w) = 0
    BY <2>1
  <2>3. f.kind = "subscribed" /\ in2 /\ Append(w, f)[1] = f
    BY <1>1, <1>4, <2>2
  <2>4. Attachment(k, Append(w, f), r, in2, FALSE)
    BY <1>1, <1>4, <2>1, <2>2, <2>3 DEF Attachment, Asking, AnswerKinds
  <2> QED  BY <1>2, <2>4 DEF Talk
<1>5. CASE k.shown # None
  <2>1. Attachment(k, Append(w, f), r, in2, FALSE)
    BY <1>1, <1>3, <1>5 DEF Attachment, Asking, AnswerKinds
  <2> QED  BY <1>2, <2>1 DEF Talk
<1> QED  BY <1>4, <1>5

LEMMA TalkTaken ==
    ASSUME NEW k, NEW w, NEW r \in Seq(Requests), NEW in, Talk(k, w, r, in, FALSE),
           r # <<>>, Head(r).kind = "get"
    PROVE  Talk(k, w, Tail(r), in, TRUE)
<1>1. Len(r) = 1 /\ ~Answered(w) /\ k.waiting /\ ~Asking(Tail(r))
  BY RpcIsLast DEF Talk, RpcKinds
<1>2. Head(r) = r[1] /\ k.shown # None
  BY <1>1 DEF Talk, Attachment, RpcKinds
<1>3. \A i \in 1..Len(Tail(r)) : Tail(r)[i].kind \notin RpcKinds
  BY <1>1 DEF Asking
<1> QED  BY <1>1, <1>2, <1>3 DEF Talk, OneRpc, Attachment

(* The reader thread reads a frame.                                        *)
LEMMA TalkRead ==
    ASSUME NEW k \in Records, NEW w \in Seq(Frames), NEW r, NEW in, NEW asked,
           Talk(k, w, r, in, asked), w # <<>>
    PROVE  Talk(Received(k, Head(w)), Tail(w), r, in, asked)
<1> DEFINE f == Head(w)
           k2 == Received(k, f)
<1>1. /\ Len(w) \in Nat \ {0} /\ Len(Tail(w)) = Len(w) - 1 /\ f = w[1] /\ f \in Frames
      /\ \A i \in 1..(Len(w) - 1) : Tail(w)[i] = w[i + 1] /\ i + 1 \in 1..Len(w)
      /\ 1 \in 1..Len(w) /\ (Len(w) = 1 => Tail(w) = <<>>)
  <2> HIDE DEF Frames
  <2> QED  BY TailFacts
<1>2. \A i \in 1..(Len(w) - 1) :
        /\ FrameTyped(Tail(w)[i]) /\ Tail(w)[i].kind # "subscribed"
        /\ Tail(w)[i].kind = "unsubscribed" => i = Len(w) - 1 /\ ~in
        /\ Tail(w)[i].kind \in AnswerKinds => k.shown # None
  <2> TAKE i \in 1..(Len(w) - 1)
  <2>1. PICK j \in 1..Len(w) : j = i + 1 /\ Tail(w)[i] = w[j] /\ j # 1
    BY <1>1
  <2>2. /\ FrameTyped(w[j]) /\ w[j].kind # "subscribed"
        /\ w[j].kind = "unsubscribed" => j = Len(w) /\ ~in
        /\ w[j].kind \in AnswerKinds => k.shown # None
    BY <2>1 DEF Talk, Attachment
  <2>3. j = Len(w) => i = Len(w) - 1
    <3>1. Len(w) \in Nat
      BY <1>1
    <3> QED  BY <2>1, <3>1
  <2> QED  BY <2>1, <2>2, <2>3 DEF FrameTyped
<1>3. FrameTyped(f)
  BY <1>1 DEF Talk, Attachment
<1>4. CASE f.kind = "snapshot"
  <2>1. k2.waiting = k.waiting /\ k2.shown = k.shown
    BY <1>4 DEF Received, Records
  <2>2. k.shown # None
    <3>1. \A i \in 1..Len(w) : w[i].kind # "subscribed"
      BY <1>1, <1>4 DEF Talk, Attachment
    <3> QED  BY <3>1 DEF Talk, Attachment
  <2>3. Answered(Tail(w)) => Answered(w)
    BY <1>1 DEF Answered
  <2> HIDE DEF k2, f
  <2>4. OneRpc(k2, Tail(w), r, asked)
    BY <1>1, <2>1, <2>3 DEF Talk, OneRpc
  <2>5. Attachment(k2, Tail(w), r, in, asked)
    BY <1>1, <1>2, <2>1, <2>2 DEF Talk, Attachment
  <2> QED  BY <2>4, <2>5 DEF Talk, k2, f
<1>5. CASE f.kind \in AnswerKinds
  <2>1. Answered(w) /\ ~Asking(r) /\ ~asked
    BY <1>1, <1>5 DEF Talk, OneRpc, Answered
  <2>2. \A i \in 1..(Len(w) - 1) : Tail(w)[i].kind \notin AnswerKinds
    BY <1>1, <1>5 DEF Talk, OneRpc
  <2>3. ~Answered(Tail(w))
    BY <1>1, <2>2 DEF Answered
  <2>4. OneRpc(k2, Tail(w), r, asked)
    BY <2>1, <2>3, <1>1, <2>2 DEF Talk, OneRpc, Asking
  <2>5. k2.shown = None => ~in /\ Tail(w) = <<>> /\ k2.pushed = None
    <3>1. f.kind = "subscribed" => k2.shown # None
      BY <1>3 DEF FrameTyped, Received, Records
    <3>2. f.kind = "resp" => k2.shown # None
      BY <1>3 DEF FrameTyped, Received, Records
    <3>3. f.kind = "error" => k2.shown # None
      BY <1>1, <1>5 DEF Talk, Attachment, Received, Records
    <3>4. f.kind = "unsubscribed" => k2.pushed = None /\ ~in /\ Len(w) = 1
      BY <1>1 DEF Talk, Attachment, Received, Records
    <3> QED  BY <1>1, <1>5, <3>1, <3>2, <3>3, <3>4 DEF AnswerKinds
  <2> HIDE DEF k2, f
  <2>6. Attachment(k2, Tail(w), r, in, asked)
    <3>1. \A i \in 1..Len(r) : r[i].kind \notin RpcKinds
      BY <2>1 DEF Asking
    <3>2. \A i \in 1..(Len(w) - 1) : Tail(w)[i].kind # "subscribed" /\ Tail(w)[i].kind # "unsubscribed"
      BY <2>2 DEF AnswerKinds
    <3> QED  BY <1>1, <1>2, <2>1, <2>2, <2>5, <3>1, <3>2 DEF Attachment
  <2> QED  BY <2>4, <2>6 DEF Talk, k2, f
<1> QED  BY <1>1, <1>4, <1>5 DEF Frames, FrameKinds, AnswerKinds

-----------------------------------------------------------------------------
(* All the conversations.                                                  *)

LEMMA Typed ==
    ASSUME TypeOK, NEW c \in Clients
    PROVE  /\ client \in [Clients -> Records] /\ client[c] \in Records
           /\ wire \in [Clients -> Seq(Frames)] /\ wire[c] \in Seq(Frames)
           /\ requests \in [Clients -> Seq(Requests)] /\ requests[c] \in Seq(Requests)
           /\ cmds \in Seq(Commands)
  BY DEF TypeOK, Records, Frames, Requests, Commands

(* A step that concerns client c only.                                     *)
LEMMA OneConversation ==
    ASSUME Conversations, NEW c,
           \A d \in Clients \ {c} :
             /\ client'[d] = client[d] /\ wire'[d] = wire[d] /\ requests'[d] = requests[d]
             /\ (d \in subs') <=> (d \in subs)
             /\ (asker' = d) <=> (asker = d),
           c \in Clients => Talk(client[c], wire[c], requests[c], c \in subs, asker = c)'
    PROVE  Conversations'
<1> SUFFICES ASSUME NEW d \in Clients, d # c
             PROVE  Talk(client[d], wire[d], requests[d], d \in subs, asker = d)'
  BY DEF Conversations
<1>1. Talk(client[d], wire[d], requests[d], d \in subs, asker = d)
  BY DEF Conversations
<1> QED  BY <1>1 DEF Talk, OneRpc, Attachment, Asking, Answered

(* A push to some of the subscribers.                                      *)
LEMMA PushConversations ==
    ASSUME TypeOK, Conversations, NEW to \in SUBSET subs, wire' = Pushed(to),
           UNCHANGED <<client, requests, subs, asker>>
    PROVE  Conversations'
<1> SUFFICES ASSUME NEW c \in Clients
             PROVE  Talk(client[c], wire'[c], requests[c], c \in subs, asker = c)
  BY DEF Conversations
<1>1. Talk(client[c], wire[c], requests[c], c \in subs, asker = c)
  BY DEF Conversations
<1>2. CASE c \in to
  <2>1. wire'[c] = Append(wire[c], Frame("snapshot", Built))
    BY <1>2 DEF Pushed
  <2>2. /\ Frame("snapshot", Built) \in Frames /\ Frame("snapshot", Built).kind = "snapshot"
        /\ Frame("snapshot", Built).v = Built /\ Built # None
    BY BuiltTyped, FrameIn, Values0 DEF FrameKinds
  <2>3. Talk(client[c], wire[c], requests[c], TRUE, asker = c)
    BY <1>1, <1>2
  <2> DEFINE f == Frame("snapshot", Built)
  <2>4. wire[c] \in Seq(Frames)
    BY Typed
  <2>5. Talk(client[c], Append(wire[c], f), requests[c], TRUE, asker = c)
    <3> HIDE DEF f, Frames
    <3>1. f \in Frames /\ f.kind = "snapshot" /\ f.v # None
      BY <2>2 DEF f
    <3> QED  BY <2>3, <2>4, <3>1, TalkPush
  <2>6. c \in subs
    BY <1>2
  <2> QED  BY <2>1, <2>5, <2>6
<1>3. CASE c \notin to
  BY <1>1, <1>3 DEF Pushed
<1> QED  BY <1>2, <1>3

LEMMA NotBlocked == TypeOK /\ phase # "barrier" => \A c \in Clients : asker # c
  BY Values0 DEF TypeOK

LEMMA ReceiveFacts ==
    ASSUME TypeOK, NEW c \in Clients, NEW kind, Receive(c, kind)
    PROVE  /\ requests[c] # <<>> /\ Head(requests[c]).kind = kind
           /\ requests'[c] = Tail(requests[c]) /\ requests[c] \in Seq(Requests)
           /\ \A d \in Clients \ {c} : requests'[d] = requests[d]
           /\ client' = client /\ \A d \in Clients : asker # d
<1>1. requests \in [Clients -> Seq(Requests)]
  BY Typed
<1>2. requests' = [requests EXCEPT ![c] = Tail(requests[c])]
  BY DEF Receive
<1> HIDE DEF Requests
<1> QED  BY <1>1, <1>2, NotBlocked DEF Receive

LEMMA ReplyFacts ==
    ASSUME TypeOK, NEW c \in Clients, NEW kind \in FrameKinds, NEW v \in Snapshots \cup {None},
           Reply(c, kind, v)
    PROVE  /\ wire'[c] = Append(wire[c], Frame(kind, v)) /\ wire[c] \in Seq(Frames)
           /\ \A d \in Clients \ {c} : wire'[d] = wire[d]
           /\ Frame(kind, v) \in Frames /\ Frame(kind, v).kind = kind /\ Frame(kind, v).v = v
<1>1. wire \in [Clients -> Seq(Frames)]
  BY Typed
<1> HIDE DEF Frames
<1> QED  BY <1>1, FrameIn DEF Reply

LEMMA HandleConversations ==
    ASSUME TypeOK, Conversations, NEW c \in Clients, Handle(c)
    PROVE  Conversations'
<1>0. Talk(client[c], wire[c], requests[c], c \in subs, FALSE)
  <2>1. asker # c
    BY NotBlocked DEF Handle, HandleSubscribe, HandleUnsubscribe, HandleSetPanePriority,
       HandleGetPaneSnapshot, HandleCommand, Receive
  <2> QED  BY <2>1 DEF Conversations
<1> DEFINE k == client[c]
           w == wire[c]
           r == requests[c]
<1>r. \A kind \in {"subscribe", "unsubscribe", "get"} : Receive(c, kind) =>
        /\ Len(r) = 1 /\ Asking(r) /\ ~Answered(w) /\ k.waiting /\ ~Asking(Tail(r))
        /\ Talk(k, w, Tail(r), c \in subs, FALSE) /\ (kind = "subscribe" <=> k.shown = None)
  <2> SUFFICES ASSUME NEW kind \in {"subscribe", "unsubscribe", "get"}, Receive(c, kind)
               PROVE  /\ Len(r) = 1 /\ Asking(r) /\ ~Answered(w) /\ k.waiting /\ ~Asking(Tail(r))
                      /\ Talk(k, w, Tail(r), c \in subs, FALSE) /\ (kind = "subscribe" <=> k.shown = None)
    OBVIOUS
  <2>1. r \in Seq(Requests) /\ r # <<>> /\ Head(r).kind = kind /\ kind \in RpcKinds
    BY ReceiveFacts DEF RpcKinds
  <2>2. OneRpc(k, w, r, FALSE)
    BY <1>0 DEF Talk
  <2>3. Len(r) = 1 /\ Asking(r) /\ ~Answered(w) /\ k.waiting /\ ~Asking(Tail(r))
    BY <2>1, <2>2, RpcIsLast
  <2>4. Talk(k, w, Tail(r), c \in subs, FALSE)
    BY <1>0, <2>1, TalkHandled
  <2>5. Head(r) = r[1] /\ 1 \in 1..Len(r)
    BY <2>1, <2>3
  <2>6. kind = "subscribe" <=> k.shown = None
    BY <1>0, <2>1, <2>5 DEF Talk, Attachment
  <2> QED  BY <2>3, <2>4, <2>6
<1> HIDE DEF k, w, r
<1>1. CASE HandleSubscribe(c)
  <2>1. Receive(c, "subscribe") /\ Reply(c, "subscribed", Built) /\ subs' = subs \cup {c}
        /\ asker' = asker
    BY <1>1 DEF HandleSubscribe
  <2> DEFINE f == Frame("subscribed", Built)
  <2>2. /\ wire'[c] = Append(w, f) /\ w \in Seq(Frames) /\ f \in Frames /\ f.kind = "subscribed"
        /\ f.v = Built /\ Built # None /\ \A d \in Clients \ {c} : wire'[d] = wire[d]
    BY <2>1, ReplyFacts, BuiltTyped, Values0 DEF FrameKinds, w
  <2>3. FrameTyped(f) /\ f.kind \in AnswerKinds
    BY <2>2 DEF FrameTyped, AnswerKinds
  <2>4. Talk(k, Append(w, f), Tail(r), TRUE, FALSE)
    <3> HIDE DEF f
    <3>1. OneRpc(k, w, Tail(r), FALSE) /\ Attachment(k, w, Tail(r), c \in subs, FALSE)
      BY <1>r, <2>1 DEF Talk
    <3>2. ~Answered(w) /\ ~Asking(Tail(r)) /\ k.waiting /\ k.shown = None
      BY <1>r, <2>1
    <3> QED  BY <2>2, <2>3, <3>1, <3>2, TalkAnswer
  <2>5. Talk(client[c], wire[c], requests[c], c \in subs, asker = c)'
    BY <2>1, <2>2, <2>4, ReceiveFacts DEF k, r
  <2> QED  BY <2>1, <2>2, <2>5, ReceiveFacts, OneConversation
<1>2. CASE HandleUnsubscribe(c)
  <2>1. Receive(c, "unsubscribe") /\ Reply(c, "unsubscribed", None) /\ subs' = subs \ {c}
        /\ asker' = asker
    BY <1>2 DEF HandleUnsubscribe
  <2> DEFINE f == Frame("unsubscribed", None)
  <2>2. /\ wire'[c] = Append(w, f) /\ w \in Seq(Frames) /\ f \in Frames /\ f.kind = "unsubscribed"
        /\ f.v = None /\ \A d \in Clients \ {c} : wire'[d] = wire[d]
    BY <2>1, ReplyFacts DEF FrameKinds, w
  <2>3. FrameTyped(f) /\ f.kind \in AnswerKinds
    BY <2>2 DEF FrameTyped, AnswerKinds
  <2>4. Talk(k, Append(w, f), Tail(r), FALSE, FALSE)
    <3> HIDE DEF f
    <3>1. OneRpc(k, w, Tail(r), FALSE) /\ Attachment(k, w, Tail(r), c \in subs, FALSE)
      BY <1>r, <2>1 DEF Talk
    <3>2. ~Answered(w) /\ ~Asking(Tail(r)) /\ k.waiting /\ k.shown # None
      BY <1>r, <2>1
    <3> QED  BY <2>2, <2>3, <3>1, <3>2, TalkAnswer
  <2>5. client'[c] = k /\ requests'[c] = Tail(r) /\ c \notin subs' /\ asker' # c
    BY <2>1, ReceiveFacts DEF k, r
  <2>6. Talk(client'[c], wire'[c], requests'[c], FALSE, FALSE)
    <3> HIDE DEF f
    <3> QED  BY <2>2, <2>4, <2>5
  <2>7. Talk(client[c], wire[c], requests[c], c \in subs, asker = c)'
    BY <2>5, <2>6 DEF Talk, OneRpc, Attachment
  <2>8. \A d \in Clients \ {c} : (d \in subs') <=> (d \in subs)
    BY <2>1
  <2> QED  BY <2>1, <2>2, <2>7, <2>8, ReceiveFacts, OneConversation
<1>3. CASE HandleGetPaneSnapshot(c)
  <2>1. Receive(c, "get") /\ asker' = c /\ UNCHANGED <<subs, wire>>
    BY <1>3 DEF HandleGetPaneSnapshot
  <2>2. r \in Seq(Requests) /\ r # <<>> /\ Head(r).kind = "get"
    BY <2>1, ReceiveFacts DEF r
  <2>3. Talk(k, w, Tail(r), c \in subs, TRUE)
    BY <1>0, <2>2, TalkTaken DEF k, w, r
  <2>4. Talk(client[c], wire[c], requests[c], c \in subs, asker = c)'
    BY <2>1, <2>3, ReceiveFacts DEF k, w, r
  <2> QED  BY <2>1, <2>4, ReceiveFacts, OneConversation
<1>4. ASSUME NEW kind, Receive(c, kind), UNCHANGED <<subs, wire, asker>>
      PROVE  Conversations'
  <2>1. r \in Seq(Requests) /\ r # <<>>
    BY <1>4, ReceiveFacts DEF r
  <2>2. Talk(k, w, Tail(r), c \in subs, FALSE)
    BY <1>0, <2>1, TalkHandled DEF k, w, r
  <2>3. Talk(client[c], wire[c], requests[c], c \in subs, asker = c)'
    BY <1>4, <2>2, ReceiveFacts DEF k, w, r
  <2> QED  BY <1>4, <2>3, ReceiveFacts, OneConversation
<1>5. CASE HandleSetPanePriority(c)
  BY <1>4, <1>5 DEF HandleSetPanePriority
<1>6. CASE HandleCommand(c, "mutate") \/ HandleCommand(c, "markDirty")
  BY <1>4, <1>6 DEF HandleCommand, serverVars
<1> QED  BY <1>1, <1>2, <1>3, <1>5, <1>6 DEF Handle

(* The daemon comes out of a barrier.                                      *)
LEMMA BarrierConversations ==
    ASSUME TypeOK, Conversations, BarrierPassed \/ BarrierTimesOut
    PROVE  Conversations'
<1>1. PICK c \in Clients : c = asker
  BY DEF TypeOK, BarrierPassed, BarrierTimesOut
<1>2. PICK f \in Frames :
        /\ wire'[c] = Append(wire[c], f) /\ f.kind \in {"resp", "error"} /\ FrameTyped(f)
        /\ \A d \in Clients \ {c} : wire'[d] = wire[d]
  <2>1. CASE BarrierPassed
    <3> DEFINE f == Frame("resp", Built)
    <3>1. Reply(c, "resp", Built) /\ Built \in Snapshots /\ Built # None
      BY <1>1, <2>1, BuiltTyped, Values0 DEF BarrierPassed
    <3>2. /\ wire'[c] = Append(wire[c], f) /\ f \in Frames /\ f.kind = "resp" /\ f.v = Built
          /\ \A d \in Clients \ {c} : wire'[d] = wire[d]
      BY <3>1, ReplyFacts DEF FrameKinds
    <3> HIDE DEF f
    <3>3. FrameTyped(f)
      BY <3>1, <3>2 DEF FrameTyped
    <3> QED  BY <3>2, <3>3
  <2>2. CASE BarrierTimesOut
    BY <1>1, <2>2, ReplyFacts DEF BarrierTimesOut, FrameKinds, FrameTyped
  <2> QED  BY <2>1, <2>2
<1>3. /\ asker' = None /\ UNCHANGED <<client, requests, subs>>
      /\ \A d \in Clients : asker' # d
  BY Values0 DEF BarrierPassed, BarrierTimesOut
<1>4. Talk(client[c], wire[c], requests[c], c \in subs, TRUE) /\ wire[c] \in Seq(Frames)
  BY <1>1, Typed DEF Conversations
<1>5. Talk(client[c], wire'[c], requests[c], c \in subs, FALSE)
  <2>1. ~Answered(wire[c]) /\ ~Asking(requests[c]) /\ client[c].waiting /\ client[c].shown # None
    BY <1>4 DEF Talk, OneRpc, Attachment
  <2> HIDE DEF Frames
  <2> QED  BY <1>2, <1>4, <2>1, TalkAnswer DEF Talk, AnswerKinds
<1>6. Talk(client[c], wire[c], requests[c], c \in subs, asker = c)'
  BY <1>3, <1>5
<1> QED  BY <1>1, <1>2, <1>3, <1>6, OneConversation

LEMMA SendFacts ==
    ASSUME TypeOK, NEW c \in Clients, NEW r, Send(c, r)
    PROVE  /\ requests'[c] = Append(requests[c], r) /\ requests[c] \in Seq(Requests)
           /\ \A d \in Clients \ {c} : requests'[d] = requests[d]
<1>1. requests \in [Clients -> Seq(Requests)]
  BY Typed
<1> HIDE DEF Requests
<1> QED  BY <1>1 DEF Send

LEMMA RequestIn ==
    ASSUME NEW kind \in RequestKinds, NEW arg \in Priorities \cup {None}
    PROVE  Request(kind, arg) \in Requests /\ Request(kind, arg).kind = kind
  BY DEF Request, Requests

(* What the clients do.                                                    *)
LEMMA ClientConversations ==
    ASSUME TypeOK, Conversations, NEW c \in Clients,
           \/ Subscribe(c) \/ Rpc(c, "get") \/ Rpc(c, "unsubscribe") \/ SetPanePriority(c)
           \/ Mutate(c) \/ Read(c) \/ PollEvents(c) \/ Redraw(c)
    PROVE  Conversations'
<1> DEFINE k == client[c]
           w == wire[c]
           r == requests[c]
<1>0. /\ Talk(k, w, r, c \in subs, asker = c) /\ k \in Records
      /\ w \in Seq(Frames) /\ r \in Seq(Requests) /\ client \in [Clients -> Records]
      /\ wire \in [Clients -> Seq(Frames)]
  BY Typed DEF Conversations
<1>s. UNCHANGED <<subs, asker>>
  BY DEF Subscribe, Rpc, SetPanePriority, Mutate, Read, PollEvents, Redraw, ClientFrame, serverVars
<1> HIDE DEF k, w, r
<1>1. CASE Subscribe(c) \/ Rpc(c, "get") \/ Rpc(c, "unsubscribe")
  <2>1. PICK kind \in RpcKinds :
          /\ Send(c, Request(kind, None)) /\ kind \in RequestKinds /\ ~k.waiting
          /\ kind = "subscribe" <=> k.shown = None
    BY <1>1 DEF Subscribe, Rpc, RpcKinds, RequestKinds, Attached, k
  <2>2. PICK k2 \in Records :
          /\ client' = [client EXCEPT ![c] = k2]
          /\ k2.waiting /\ k2.shown = k.shown /\ k2.pushed = k.pushed
    <3>1. [k EXCEPT !.waiting = TRUE] \in Records
      BY <1>0 DEF Records
    <3>2. client' = [client EXCEPT ![c] = [k EXCEPT !.waiting = TRUE]]
      BY <1>1, ClientSteps DEF k
    <3> QED  BY <1>0, <3>1, <3>2 DEF Records
  <2>3. client'[c] = k2 /\ (\A d \in Clients \ {c} : client'[d] = client[d]) /\ wire' = wire
    <3> HIDE DEF Records
    <3> QED  BY <1>0, <1>1, <2>2 DEF Subscribe, Rpc
  <2>4. Request(kind, None) \in Requests /\ Request(kind, None).kind = kind
    BY <2>1, RequestIn
  <2>5. Talk(k2, w, Append(r, Request(kind, None)), c \in subs, asker = c)
    <3> HIDE DEF Requests, Records
    <3> QED  BY <1>0, <2>1, <2>2, <2>4, TalkAsk
  <2>6. Talk(client[c], wire[c], requests[c], c \in subs, asker = c)'
    BY <1>s, <2>1, <2>3, <2>5, SendFacts DEF w, r
  <2> QED  BY <1>s, <2>1, <2>3, <2>6, SendFacts, OneConversation
<1>2. CASE SetPanePriority(c) \/ Mutate(c)
  <2>1. PICK kind \in {"priority", "mutate"}, arg \in Priorities \cup {None} :
          /\ Send(c, Request(kind, arg)) /\ kind \in RequestKinds \ RpcKinds /\ ~k.waiting
    BY <1>2 DEF SetPanePriority, Mutate, RpcKinds, RequestKinds, k
  <2>2. PICK k2 \in Records :
          /\ client' = [client EXCEPT ![c] = k2]
          /\ k2.waiting = k.waiting /\ k2.shown = k.shown /\ (k.pushed = None => k2.pushed = None)
    <3>1. CASE SetPanePriority(c)
      <4> HIDE DEF Records
      <4>1. client' = [client EXCEPT ![c] = k]
        BY <1>0, <3>1 DEF SetPanePriority, k
      <4> QED  BY <1>0, <4>1
    <3>2. CASE Mutate(c)
      <4>1. [k EXCEPT !.pushed = None, !.dirty = TRUE] \in Records
        BY <1>0 DEF Records
      <4>2. client' = [client EXCEPT ![c] = [k EXCEPT !.pushed = None, !.dirty = TRUE]]
        BY <3>2, ClientSteps DEF k
      <4> QED  BY <1>0, <4>1, <4>2 DEF Records
    <3> QED  BY <1>2, <3>1, <3>2
  <2>3. client'[c] = k2 /\ (\A d \in Clients \ {c} : client'[d] = client[d]) /\ wire' = wire
    <3> HIDE DEF Records
    <3> QED  BY <1>0, <1>2, <2>2 DEF SetPanePriority, Mutate
  <2>4. Request(kind, arg) \in Requests /\ Request(kind, arg).kind = kind
    BY <2>1, RequestIn
  <2>5. Talk(k, w, Append(r, Request(kind, arg)), c \in subs, asker = c)
    <3> HIDE DEF Requests, Records
    <3> QED  BY <1>0, <2>1, <2>4, TalkSend
  <2>6. Talk(k2, w, Append(r, Request(kind, arg)), c \in subs, asker = c)
    BY <2>2, <2>5, TalkSame
  <2>7. Talk(client[c], wire[c], requests[c], c \in subs, asker = c)'
    BY <1>s, <2>1, <2>3, <2>6, SendFacts DEF w, r
  <2> QED  BY <1>s, <2>1, <2>3, <2>7, SendFacts, OneConversation
<1>3. CASE Read(c)
  <2>1. /\ w # <<>> /\ wire'[c] = Tail(w) /\ requests' = requests
        /\ client'[c] = Received(k, Head(w))
        /\ \A d \in Clients \ {c} : client'[d] = client[d] /\ wire'[d] = wire[d]
    <3> HIDE DEF Records, Frames
    <3> QED  BY <1>0, <1>3 DEF Read, k, w
  <2>2. Talk(Received(k, Head(w)), Tail(w), r, c \in subs, asker = c)
    BY <1>0, <2>1, TalkRead
  <2>3. Talk(client[c], wire[c], requests[c], c \in subs, asker = c)'
    BY <1>s, <2>1, <2>2 DEF r
  <2> QED  BY <1>s, <2>1, <2>3, OneConversation
<1>4. CASE PollEvents(c)
  <2>1. /\ client'[c] = [k EXCEPT !.notified = FALSE, !.dirty = TRUE]
        /\ \A d \in Clients \ {c} : client'[d] = client[d]
        /\ UNCHANGED <<wire, requests>>
    <3> HIDE DEF Records
    <3> QED  BY <1>0, <1>4, ClientSteps DEF PollEvents, k
  <2>2. /\ client'[c].waiting = k.waiting /\ client'[c].shown = k.shown
        /\ client'[c].pushed = k.pushed
    BY <1>0, <2>1 DEF Records
  <2>3. Talk(client'[c], w, r, c \in subs, asker = c)
    BY <1>0, <2>2, TalkSame
  <2>4. Talk(client[c], wire[c], requests[c], c \in subs, asker = c)'
    BY <1>s, <2>1, <2>3 DEF w, r
  <2> QED  BY <1>s, <2>1, <2>4, OneConversation
<1>5. CASE Redraw(c)
  <2>1. wire' = wire /\ ~k.waiting /\ k.shown # None
    BY <1>5 DEF Redraw, Attached, k
  <2>2. CASE /\ k.pushed # None /\ UNCHANGED requests
             /\ client' = [client EXCEPT ![c] = [k EXCEPT !.shown = k.pushed,
                             !.pushed = None, !.refresh = FALSE, !.dirty = FALSE]]
    <3>1. /\ client'[c] = [k EXCEPT !.shown = k.pushed, !.pushed = None, !.refresh = FALSE, !.dirty = FALSE]
          /\ \A d \in Clients \ {c} : client'[d] = client[d]
      <4> HIDE DEF Records
      <4> QED  BY <1>0, <2>2
    <3>2. /\ client'[c].waiting = k.waiting /\ client'[c].shown # None /\ client'[c].pushed = None
      BY <1>0, <2>2, <3>1 DEF Records
    <3>3. Talk(client'[c], w, r, c \in subs, asker = c)
      BY <1>0, <2>1, <3>2, TalkSame
    <3>4. Talk(client[c], wire[c], requests[c], c \in subs, asker = c)'
      BY <1>s, <2>1, <2>2, <3>3 DEF w, r
    <3> QED  BY <1>s, <2>1, <2>2, <3>1, <3>4, OneConversation
  <2>3. CASE /\ client' = [client EXCEPT ![c] = [k EXCEPT !.refresh = TRUE]]
             /\ Send(c, Request("markDirty", None))
    <3>1. /\ client'[c] = [k EXCEPT !.refresh = TRUE]
          /\ \A d \in Clients \ {c} : client'[d] = client[d]
      <4> HIDE DEF Records
      <4> QED  BY <1>0, <2>3
    <3>2. /\ client'[c].waiting = k.waiting /\ client'[c].shown = k.shown
          /\ client'[c].pushed = k.pushed
      BY <1>0, <3>1 DEF Records
    <3>3. /\ Request("markDirty", None) \in Requests /\ Request("markDirty", None).kind \notin RpcKinds
      BY RequestIn DEF RequestKinds, RpcKinds
    <3>4. Talk(k, w, Append(r, Request("markDirty", None)), c \in subs, asker = c)
      <4> HIDE DEF Requests, Records
      <4> QED  BY <1>0, <2>1, <3>3, TalkSend
    <3>5. Talk(client'[c], w, Append(r, Request("markDirty", None)), c \in subs, asker = c)
      BY <3>2, <3>4, TalkSame
    <3>6. Talk(client[c], wire[c], requests[c], c \in subs, asker = c)'
      BY <1>s, <2>1, <2>3, <3>5, SendFacts DEF w, r
    <3> QED  BY <1>s, <2>1, <2>3, <3>1, <3>6, SendFacts, OneConversation
  <2> QED  BY <1>5, <2>2, <2>3, ClientSteps DEF k
<1> QED  BY <1>1, <1>2, <1>3, <1>4, <1>5

LEMMA ConversationsNext == TypeOK /\ Conversations /\ [Next]_vars => Conversations'
<1> SUFFICES ASSUME TypeOK, Conversations, [Next]_vars PROVE Conversations'
  OBVIOUS
<1>1. CASE UNCHANGED <<client, wire, requests, subs, asker>>
  BY <1>1 DEF Conversations
<1>2. CASE Inner \/ Tick \/ UNCHANGED vars
  BY <1>1, <1>2 DEF Inner, IoOutput, IoCommand, IoPublish, SyncTimesOut, Tick, vars, paneVars,
     serverVars
<1>3. CASE Drain
  <2>1. wire' = wire \/ \E to \in SUBSET subs : wire' = Pushed(to)
    BY <1>3 DEF Drain, TrailingEdgeFlush, PushFresh
  <2>2. UNCHANGED <<client, requests, subs, asker>>
    BY <1>3 DEF Drain, TrailingEdgeFlush, PushFresh
  <2> QED  BY <1>1, <2>1, <2>2, PushConversations
<1> QED
  BY <1>2, <1>3, BarrierConversations, HandleConversations, ClientConversations DEF Next, Inner

-----------------------------------------------------------------------------
(* What a step does to one client, as the orders and the freshness of what *)
(* it is sent see it.                                                      *)
Sent(c, f) ==
    \/ f = Frame("snapshot", Built) /\ c \in subs /\ BuildClone /\ Drain
    \/ f = Frame("subscribed", Built) /\ HandleSubscribe(c)
    \/ f = Frame("unsubscribed", None) /\ HandleUnsubscribe(c)
    \/ f = Frame("resp", Built) /\ BarrierPassed /\ asker = c
    \/ f = Frame("error", None) /\ BarrierTimesOut /\ asker = c

Own(c) ==
    LET k == client[c]
    IN  \/ ~k.waiting /\ client'[c] = [k EXCEPT !.waiting = TRUE]
        \/ client'[c] = [k EXCEPT !.pushed = None, !.dirty = TRUE]
        \/ k.notified /\ client'[c] = [k EXCEPT !.notified = FALSE, !.dirty = TRUE]
        \/ /\ k.pushed # None
           /\ client'[c] = [k EXCEPT !.shown = k.pushed, !.pushed = None, !.refresh = FALSE,
                                     !.dirty = FALSE]
        \/ k.pushed = None /\ client'[c] = [k EXCEPT !.refresh = TRUE]

LEMMA StepOf ==
    ASSUME TypeOK, [Next]_vars, NEW c \in Clients
    PROVE  \/ wire'[c] = wire[c] /\ client'[c] = client[c]
           \/ \E f \in Frames : Sent(c, f) /\ wire'[c] = Append(wire[c], f) /\ client'[c] = client[c]
           \/ /\ wire[c] # <<>> /\ wire'[c] = Tail(wire[c])
              /\ client'[c] = Received(client[c], Head(wire[c]))
           \/ wire'[c] = wire[c] /\ Own(c)
<1>1. CASE Inner \/ Tick \/ UNCHANGED vars
  BY <1>1 DEF Inner, IoOutput, IoCommand, IoPublish, SyncTimesOut, Tick, vars
<1>2. CASE Drain
  <2>1. wire' = wire \/ (BuildClone /\ \E to \in SUBSET subs : wire' = Pushed(to))
    BY <1>2 DEF Drain, TrailingEdgeFlush, PushFresh
  <2>2. client' = client
    BY <1>2 DEF Drain, TrailingEdgeFlush, PushFresh
  <2>3. ASSUME NEW to \in SUBSET subs, wire' = Pushed(to), BuildClone, c \in to
        PROVE  \E f \in Frames : Sent(c, f) /\ wire'[c] = Append(wire[c], f) /\ client'[c] = client[c]
    <3>1. Frame("snapshot", Built) \in Frames
      BY BuiltTyped, FrameIn DEF FrameKinds
    <3>2. wire'[c] = Append(wire[c], Frame("snapshot", Built))
      BY <2>3 DEF Pushed
    <3>3. Sent(c, Frame("snapshot", Built))
      BY <1>2, <2>3 DEF Sent
    <3> QED  BY <2>2, <3>1, <3>2, <3>3
  <2>4. ASSUME NEW to \in SUBSET subs, wire' = Pushed(to), c \notin to
        PROVE  wire'[c] = wire[c]
    BY <2>4 DEF Pushed
  <2> QED  BY <2>1, <2>2, <2>3, <2>4
<1>3. CASE BarrierPassed \/ BarrierTimesOut
  <2>1. client' = client
    BY <1>3 DEF BarrierPassed, BarrierTimesOut
  <2>2. PICK a \in Clients : a = asker
    BY <1>3 DEF TypeOK, BarrierPassed, BarrierTimesOut
  <2>3. PICK f \in Frames :
          /\ (f = Frame("resp", Built) /\ BarrierPassed) \/ (f = Frame("error", None) /\ BarrierTimesOut)
          /\ wire'[a] = Append(wire[a], f) /\ \A d \in Clients \ {a} : wire'[d] = wire[d]
    <3>1. CASE BarrierPassed
      <4>1. Reply(a, "resp", Built) /\ Built \in Snapshots
        BY <2>2, <3>1, BuiltTyped DEF BarrierPassed
      <4> QED  BY <3>1, <4>1, ReplyFacts DEF FrameKinds
    <3>2. CASE BarrierTimesOut
      <4>1. Reply(a, "error", None)
        BY <2>2, <3>2 DEF BarrierTimesOut
      <4> QED  BY <3>2, <4>1, ReplyFacts DEF FrameKinds
    <3> QED  BY <1>3, <3>1, <3>2
  <2> QED  BY <2>1, <2>2, <2>3 DEF Sent
<1>4. ASSUME NEW d \in Clients, Handle(d)
      PROVE  \/ wire'[c] = wire[c] /\ client'[c] = client[c]
             \/ \E f \in Frames : Sent(c, f) /\ wire'[c] = Append(wire[c], f) /\ client'[c] = client[c]
  <2>1. client' = client
    BY <1>4 DEF Handle, HandleSubscribe, HandleUnsubscribe, HandleSetPanePriority,
       HandleGetPaneSnapshot, HandleCommand, Receive
  <2>2. CASE HandleSubscribe(d)
    <3>1. Reply(d, "subscribed", Built) /\ Built \in Snapshots
      BY <2>2, BuiltTyped DEF HandleSubscribe
    <3>2. /\ Frame("subscribed", Built) \in Frames
          /\ wire'[d] = Append(wire[d], Frame("subscribed", Built))
          /\ \A e \in Clients \ {d} : wire'[e] = wire[e]
      BY <3>1, ReplyFacts DEF FrameKinds
    <3> QED  BY <2>1, <2>2, <3>2 DEF Sent
  <2>3. CASE HandleUnsubscribe(d)
    <3>1. Reply(d, "unsubscribed", None)
      BY <2>3 DEF HandleUnsubscribe
    <3>2. /\ Frame("unsubscribed", None) \in Frames
          /\ wire'[d] = Append(wire[d], Frame("unsubscribed", None))
          /\ \A e \in Clients \ {d} : wire'[e] = wire[e]
      BY <3>1, ReplyFacts DEF FrameKinds
    <3> QED  BY <2>1, <2>3, <3>2 DEF Sent
  <2>4. CASE HandleSetPanePriority(d) \/ HandleGetPaneSnapshot(d)
             \/ HandleCommand(d, "mutate") \/ HandleCommand(d, "markDirty")
    BY <2>1, <2>4 DEF HandleSetPanePriority, HandleGetPaneSnapshot, HandleCommand
  <2> QED  BY <1>4, <2>2, <2>3, <2>4 DEF Handle
<1>5. ASSUME NEW d \in Clients, d # c,
             \/ Subscribe(d) \/ Rpc(d, "get") \/ Rpc(d, "unsubscribe") \/ SetPanePriority(d)
             \/ Mutate(d) \/ Read(d) \/ PollEvents(d) \/ Redraw(d)
      PROVE  wire'[c] = wire[c] /\ client'[c] = client[c]
  <2>1. client' = client \/ \E k : client' = [client EXCEPT ![d] = k]
    BY <1>5 DEF Subscribe, Rpc, SetPanePriority, Mutate, Read, PollEvents, Redraw
  <2>2. wire' = wire \/ \E w : wire' = [wire EXCEPT ![d] = w]
    BY <1>5 DEF Subscribe, Rpc, SetPanePriority, Mutate, Read, PollEvents, Redraw
  <2>3. wire \in [Clients -> Seq(Frames)] /\ client \in [Clients -> Records]
    BY Typed
  <2> HIDE DEF Frames, Records
  <2> QED  BY <1>5, <2>1, <2>2, <2>3
<1>6. CASE Read(c)
  <2>1. wire \in [Clients -> Seq(Frames)] /\ client \in [Clients -> Records]
    BY Typed
  <2> HIDE DEF Frames, Records
  <2> QED  BY <1>6, <2>1 DEF Read
<1>7. CASE \/ Subscribe(c) \/ Rpc(c, "get") \/ Rpc(c, "unsubscribe") \/ SetPanePriority(c)
           \/ Mutate(c) \/ PollEvents(c) \/ Redraw(c)
  <2>1. wire' = wire /\ client \in [Clients -> Records]
    BY <1>7, Typed DEF Subscribe, Rpc, SetPanePriority, Mutate, PollEvents, Redraw
  <2> HIDE DEF Records
  <2>2. CASE Subscribe(c)
    BY <2>1, <2>2, ClientSteps DEF Own, Subscribe
  <2>3. CASE Rpc(c, "get") \/ Rpc(c, "unsubscribe")
    <3>1. client' = [client EXCEPT ![c] = [@ EXCEPT !.waiting = TRUE]]
          /\ ~client[c].waiting
      BY <2>3, ClientSteps DEF Rpc
    <3> QED  BY <2>1, <3>1 DEF Own
  <2>4. CASE SetPanePriority(c)
    BY <2>1, <2>4 DEF SetPanePriority
  <2>5. CASE Mutate(c)
    BY <2>1, <2>5, ClientSteps DEF Own
  <2>6. CASE PollEvents(c)
    BY <2>1, <2>6, ClientSteps DEF Own, PollEvents
  <2>7. CASE Redraw(c)
    BY <2>1, <2>7, ClientSteps DEF Own
  <2> QED  BY <1>7, <2>2, <2>3, <2>4, <2>5, <2>6, <2>7
<1> QED  BY <1>1, <1>2, <1>3, <1>4, <1>5, <1>6, <1>7 DEF Next, Inner

(* What a step does to the buffer and to the daemon's entry.               *)
LEMMA BufferSteps ==
    ASSUME TypeOK, [Next]_vars
    PROVE  \/ UNCHANGED <<slot, cache, published>> /\ version' >= version
           \/ UNCHANGED <<cache, version>> /\ Publish(version)
           \/ UNCHANGED <<published, version>> /\ BuildClone
           \/ UNCHANGED <<published, version>> /\ BuildAndTake
              /\ (BarrierPassed \/ \E c \in Clients : HandleSubscribe(c))
<1> USE DEF paneVars, serverVars
<1>0. version \in Nat
  BY DEF TypeOK
<1>1. CASE IoOutput \/ Tick \/ UNCHANGED vars
  BY <1>0, <1>1 DEF IoOutput, Tick, vars
<1>2. CASE IoCommand \/ IoPublish \/ SyncTimesOut
  <2>1. CASE IoCommand
    <3>1. /\ \/ version' = version /\ Publish(version)
             \/ version' \in {version, version + 1} /\ UNCHANGED <<slot, published>>
          /\ cache' = cache
      BY <2>1, CommandSteps, Zenon
    <3> QED  BY <1>0, <3>1
  <2>2. CASE IoPublish \/ SyncTimesOut
    BY <2>2 DEF IoPublish, SyncTimesOut
  <2> QED  BY <1>2, <2>1, <2>2
<1>3. CASE Drain
  BY <1>0, <1>3 DEF Drain, TrailingEdgeFlush, PushFresh
<1>4. CASE BarrierPassed \/ BarrierTimesOut
  BY <1>0, <1>4 DEF BarrierPassed, BarrierTimesOut
<1>5. ASSUME NEW c \in Clients, Handle(c), ~HandleSubscribe(c)
      PROVE  UNCHANGED <<slot, cache, published>> /\ version' >= version
  BY <1>0, <1>5 DEF Handle, HandleUnsubscribe, HandleSetPanePriority,
       HandleGetPaneSnapshot, HandleCommand, Receive
<1>6. ASSUME NEW c \in Clients, HandleSubscribe(c)
      PROVE  UNCHANGED <<published, version>> /\ BuildAndTake
  BY <1>6 DEF HandleSubscribe, Receive
<1>7. ASSUME NEW c \in Clients,
             \/ Subscribe(c) \/ Rpc(c, "get") \/ Rpc(c, "unsubscribe") \/ SetPanePriority(c)
             \/ Mutate(c) \/ Read(c) \/ PollEvents(c) \/ Redraw(c)
      PROVE  UNCHANGED <<slot, cache, published>> /\ version' >= version
  BY <1>0, <1>7 DEF Subscribe, Rpc, SetPanePriority, Mutate, Read, PollEvents, Redraw, ClientFrame
<1> QED  BY <1>1, <1>2, <1>3, <1>4, <1>5, <1>6, <1>7 DEF Next

(* What a step does to a client's requests.                                *)
LEMMA RequestSteps ==
    ASSUME TypeOK, [Next]_vars, NEW c \in Clients
    PROVE  \/ requests'[c] = requests[c]
           \/ (requests[c] # <<>> /\ requests'[c] = Tail(requests[c]))
           \/ \E q \in Requests : /\ requests'[c] = Append(requests[c], q)
                                  /\ q.kind \in {"get", "unsubscribe"} => q.kind \in Ops
<1>1. CASE UNCHANGED requests
  BY <1>1
<1>2. CASE Inner \/ Tick \/ Drain \/ BarrierPassed \/ BarrierTimesOut \/ UNCHANGED vars
  BY <1>1, <1>2 DEF Inner, IoOutput, IoCommand, IoPublish, SyncTimesOut, Tick, Drain,
     TrailingEdgeFlush, PushFresh, BarrierPassed, BarrierTimesOut, vars
<1>3. ASSUME NEW d \in Clients, NEW kind, Receive(d, kind)
      PROVE  requests'[c] = requests[c] \/ (requests[c] # <<>> /\ requests'[c] = Tail(requests[c]))
  BY <1>3, ReceiveFacts
<1>4. ASSUME NEW d \in Clients, NEW q \in Requests, Send(d, q),
             q.kind \in {"get", "unsubscribe"} => q.kind \in Ops
      PROVE  \/ requests'[c] = requests[c]
             \/ \E p \in Requests : /\ requests'[c] = Append(requests[c], p)
                                    /\ p.kind \in {"get", "unsubscribe"} => p.kind \in Ops
  BY <1>4, SendFacts
<1>5. ASSUME NEW d \in Clients, Handle(d)
      PROVE  requests'[c] = requests[c] \/ (requests[c] # <<>> /\ requests'[c] = Tail(requests[c]))
  BY <1>3, <1>5 DEF Handle, HandleSubscribe, HandleUnsubscribe, HandleSetPanePriority,
     HandleGetPaneSnapshot, HandleCommand
<1>6. ASSUME NEW d \in Clients, Subscribe(d) \/ Rpc(d, "get") \/ Rpc(d, "unsubscribe")
                                  \/ SetPanePriority(d) \/ Mutate(d) \/ Redraw(d)
      PROVE  \/ requests' = requests
             \/ \E q \in Requests : Send(d, q) /\ (q.kind \in {"get", "unsubscribe"} => q.kind \in Ops)
  <2>1. PICK kind \in RequestKinds, arg \in Priorities \cup {None} :
          \/ requests' = requests
          \/ Send(d, Request(kind, arg)) /\ (kind \in {"get", "unsubscribe"} => kind \in Ops)
    BY <1>6 DEF Subscribe, Rpc, SetPanePriority, Mutate, Redraw, Spend, RequestKinds
  <2>2. Request(kind, arg) \in Requests /\ Request(kind, arg).kind = kind
    BY RequestIn
  <2> QED  BY <2>1, <2>2
<1>7. ASSUME NEW d \in Clients, Read(d) \/ PollEvents(d)
      PROVE  requests' = requests
  BY <1>7 DEF Read, PollEvents
<1> QED  BY <1>1, <1>2, <1>4, <1>5, <1>6, <1>7 DEF Next, Inner

(* The state and the actions have their types: a priority is one of the    *)
(* three tiers wherever it travels (SetPanePriority), and the daemon is    *)
(* blocked in a barrier exactly while some client waits for its            *)
(* GetPaneSnapshot.                                                        *)
THEOREM SnapshotTypeCorrect == Spec => []TypeOK
<1>1. Init => TypeOK /\ RequestsTyped
  BY TypedInit
<1>2. TypeOK /\ RequestsTyped /\ [Next]_vars => (TypeOK /\ RequestsTyped)'
  BY TypedNext
<1> QED  BY <1>1, <1>2, PTL DEF Spec

LEMMA DeferredNext == DeferredAreSubscribed /\ [Next]_vars => DeferredAreSubscribed'
<1> SUFFICES ASSUME DeferredAreSubscribed, [Next]_vars PROVE DeferredAreSubscribed'
  OBVIOUS
<1> USE DEF DeferredAreSubscribed, serverVars
<1>1. CASE Inner \/ Tick \/ UNCHANGED vars
  BY <1>1 DEF Inner, IoOutput, IoCommand, IoPublish, SyncTimesOut, Tick, vars
<1>2. CASE Drain
  BY <1>2 DEF Drain, TrailingEdgeFlush, PushFresh
<1>3. CASE BarrierPassed \/ BarrierTimesOut
  BY <1>3 DEF BarrierPassed, BarrierTimesOut
<1>4. ASSUME NEW c \in Clients, Handle(c) PROVE DeferredAreSubscribed'
  BY <1>4 DEF Handle, HandleSubscribe, HandleUnsubscribe, HandleSetPanePriority,
     HandleGetPaneSnapshot, HandleCommand
<1>5. ASSUME NEW c \in Clients,
             \/ Subscribe(c) \/ Rpc(c, "get") \/ Rpc(c, "unsubscribe") \/ SetPanePriority(c)
             \/ Mutate(c) \/ Read(c) \/ PollEvents(c) \/ Redraw(c)
      PROVE  DeferredAreSubscribed'
  BY <1>5 DEF Subscribe, Rpc, SetPanePriority, Mutate, Read, PollEvents, Redraw, ClientFrame
<1> QED  BY <1>1, <1>2, <1>3, <1>4, <1>5 DEF Next, Inner

(* Only subscribers are owed a push: trailing_edge_flush and               *)
(* push_or_defer_pane defer subscribers only, and Unsubscribe takes the    *)
(* client out of the deferred set, whoever else watches the pane.          *)
THEOREM DeferredSubscribed == Spec => []DeferredAreSubscribed
<1>1. Init => DeferredAreSubscribed
  BY DEF Init, DeferredAreSubscribed
<1> QED  BY <1>1, DeferredNext, PTL DEF Spec

LEMMA ConversationsInit == Init => Conversations
<1> SUFFICES ASSUME Init, NEW c \in Clients
             PROVE  Talk(client[c], wire[c], requests[c], c \in subs, asker = c)
  BY DEF Conversations
<1>1. /\ Len(wire[c]) = 0 /\ Len(requests[c]) = 0 /\ wire[c] = <<>> /\ asker # c
      /\ ~client[c].waiting /\ client[c].pushed = None /\ (client[c].shown = None <=> c \notin subs)
  BY Values0 DEF Init
<1>2. \A i \in 1..0 : FALSE
  OBVIOUS
<1> QED  BY <1>1, <1>2 DEF Talk, OneRpc, Attachment, Asking, Answered

(* Only the IO thread passes a barrier.                                    *)
LEMMA PassedSteps == ASSUME [Next]_vars, ~IoCommand PROVE passed' = passed
<1>1. CASE Inner \/ Tick \/ Drain \/ BarrierPassed \/ BarrierTimesOut \/ UNCHANGED vars
  BY <1>1 DEF Inner, IoOutput, IoPublish, SyncTimesOut, Tick, Drain, TrailingEdgeFlush, PushFresh,
     BarrierPassed, BarrierTimesOut, vars
<1>2. ASSUME NEW c \in Clients, Handle(c) PROVE passed' = passed
  BY <1>2 DEF Handle, HandleSubscribe, HandleUnsubscribe, HandleSetPanePriority,
     HandleGetPaneSnapshot, HandleCommand, Receive
<1>3. ASSUME NEW c \in Clients,
             \/ Subscribe(c) \/ Rpc(c, "get") \/ Rpc(c, "unsubscribe") \/ SetPanePriority(c)
             \/ Mutate(c) \/ Read(c) \/ PollEvents(c) \/ Redraw(c)
      PROVE  passed' = passed
  BY <1>3 DEF Subscribe, Rpc, SetPanePriority, Mutate, Read, PollEvents, Redraw, ClientFrame
<1> QED  BY <1>1, <1>2, <1>3 DEF Next, Inner

LEMMA VersionsNext == TypeOK /\ TypeOK' /\ Versions /\ [Next]_vars => Versions'
<1> SUFFICES ASSUME TypeOK, TypeOK', Versions, [Next]_vars PROVE Versions'
  OBVIOUS
<1>1. /\ version \in Nat /\ published \in Nat \cup {None} /\ slot \in Nat \cup {None}
      /\ cache \in Nat \cup {Blank} /\ None \notin Nat /\ Blank \notin Nat
      /\ version' \in Nat
  BY Values0 DEF TypeOK
<1>2. /\ published \in Nat => published' \in Nat /\ published <= published'
      /\ published' \in Nat => published' <= version'
      /\ slot' # None => slot' = published'
      /\ cache' \in Nat => published' \in Nat /\ cache' <= published'
  BY <1>1, BufferSteps DEF Versions, Publish, BuildClone, BuildAndTake, Built
<1>3. slot' = None => cache' \in {published', Blank}
  BY <1>1, BufferSteps DEF Versions, Publish, BuildClone, BuildAndTake, Built
<1>4. passed' # None => passed'.at <= version'
  <2>1. CASE IoCommand
    <3>1. \/ version' = version /\ passed' = [at |-> version, held |-> sync]
          \/ version' \in {version, version + 1} /\ passed' = passed
      <4>1. CASE Head(cmds) = "snapshotNow"
        BY <2>1, <4>1, CommandSteps, Zenon
      <4>2. CASE Head(cmds) # "snapshotNow"
        <5>1. passed' = passed
          BY <2>1, <4>2, CommandSteps, Zenon
        <5>2. version' = version \/ version' \in {version, version + 1}
          BY <2>1, CommandSteps, Zenon
        <5> QED  BY <5>1, <5>2
      <4> QED  BY <4>1, <4>2
    <3>2. [at |-> version, held |-> sync].at = version
      OBVIOUS
    <3>3. passed # None => passed.at \in Nat /\ passed.at <= version
      BY DEF Versions, TypeOK
    <3>4. CASE version' = version /\ passed' = [at |-> version, held |-> sync]
      BY <1>1, <3>2, <3>4
    <3>5. CASE version' \in {version, version + 1} /\ passed' = passed
      BY <1>1, <3>3, <3>5
    <3> QED  BY <3>1, <3>4, <3>5
  <2>2. CASE ~IoCommand
    <3>1. passed' = passed
      BY <2>2, PassedSteps
    <3>2. version' >= version
      BY <1>1, BufferSteps
    <3>3. passed # None => passed.at \in Nat /\ passed.at <= version
      BY DEF Versions, TypeOK
    <3> QED  BY <1>1, <3>1, <3>2, <3>3
  <2> QED  BY <2>1, <2>2
<1> QED  BY <1>2, <1>3, <1>4 DEF Versions

LEMMA VersionsInit == Init => Versions
  BY Values0 DEF Init, Versions

(* What the barrier leaves stays where the daemon will find it.            *)
LEMMA BarrierNext == TypeOK /\ Versions /\ Barrier /\ [Next]_vars => Barrier'
<1> SUFFICES ASSUME TypeOK, Versions, Barrier, [Next]_vars PROVE Barrier'
  OBVIOUS
<1> USE DEF paneVars, serverVars
<1>0. cmds \in Seq(Commands) /\ version \in Nat /\ None \notin Nat
  BY Values0 DEF TypeOK, Commands
<1>s. ASSUME Served, passed' = passed, slot' = slot \/ slot' = version
      PROVE  Served'
  BY <1>0, <1>s DEF Served, Versions
<1>1. CASE UNCHANGED <<phase, cmds, passed>> /\ (slot' = slot \/ slot' = version)
  BY <1>1, <1>s DEF Barrier
<1>2. CASE IoOutput \/ IoPublish \/ SyncTimesOut \/ Tick \/ UNCHANGED vars
  BY <1>1, <1>2 DEF IoOutput, IoPublish, SyncTimesOut, Publish, Tick, vars
<1>3. CASE IoCommand
  <2>1. /\ Len(cmds) \in Nat \ {0} /\ Len(Tail(cmds)) = Len(cmds) - 1 /\ Head(cmds) = cmds[1]
        /\ \A i \in 1..(Len(cmds) - 1) : Tail(cmds)[i] = cmds[i + 1]
        /\ cmds' = Tail(cmds) /\ phase' = phase
    <3> HIDE DEF Commands
    <3> QED  BY <1>0, <1>3, TailFacts, CommandSteps
  <2>2. CASE phase # "barrier"
    BY <2>1, <2>2 DEF Barrier
  <2>3. CASE Head(cmds) = "snapshotNow"
    <3>1. /\ passed' = [at |-> version, held |-> sync]
          /\ sync \/ slot' = version
      BY <1>3, <2>3, CommandSteps DEF Publish
    <3>2. passed'.at = version /\ passed'.held = sync
      BY <3>1
    <3>3. passed' # None
      <4>1. version \in Nat /\ sync \in BOOLEAN /\ None \notin [at : Nat, held : BOOLEAN]
        BY SnapshotPushAssumption DEF TypeOK
      <4>2. [at |-> version, held |-> sync] \in [at : Nat, held : BOOLEAN]
        BY <4>1
      <4> QED  BY <3>1, <4>1, <4>2
    <3>4. Served'
      BY <1>0, <3>1, <3>2, <3>3 DEF Served
    <3> QED  BY <2>1, <3>4, <2>2 DEF Barrier
  <2>4. CASE phase = "barrier" /\ Served /\ Head(cmds) # "snapshotNow"
    <3>1. passed' = passed /\ (slot' = slot \/ slot' = version)
      BY <1>3, <2>4, CommandSteps DEF Publish
    <3>2. Served'
      BY <1>s, <2>4, <3>1
    <3> QED  BY <2>1, <2>4, <3>2 DEF Barrier
  <2>5. CASE /\ phase = "barrier" /\ Head(cmds) # "snapshotNow"
             /\ \E i \in 1..Len(cmds) : cmds[i] = "snapshotNow"
    <3>1. PICK i \in 1..Len(cmds) : cmds[i] = "snapshotNow" /\ i # 1
      BY <2>1, <2>5
    <3>2. PICK j \in 1..(Len(cmds) - 1) : i = j + 1
      <4>1. i - 1 \in 1..(Len(cmds) - 1) /\ i = (i - 1) + 1
        BY <2>1, <3>1
      <4> QED  BY <4>1
    <3>3. cmds'[j] = "snapshotNow" /\ j \in 1..Len(cmds')
      BY <2>1, <3>1, <3>2
    <3> QED  BY <2>1, <2>5, <3>3 DEF Barrier
  <2> QED  BY <2>2, <2>3, <2>4, <2>5 DEF Barrier
<1>4. CASE Drain
  BY <1>4 DEF Drain, TrailingEdgeFlush, PushFresh, Barrier
<1>5. CASE BarrierPassed
  <2>1. DOMAIN cmds = 1..Len(cmds)
    BY <1>0
  <2> QED  BY <1>5, <2>1 DEF BarrierPassed, Barrier
<1>6. CASE BarrierTimesOut
  <2>1. Len(cmds) \in Nat /\ DOMAIN cmds = 1..Len(cmds)
    BY <1>0
  <2>2. cmds' = [i \in 1..Len(cmds) |-> IF cmds[i] = "snapshotNow" THEN "orphan" ELSE cmds[i]]
        /\ phase' = "events"
    BY <1>6, <2>1 DEF BarrierTimesOut
  <2>3. Len(cmds') = Len(cmds)
    BY <2>1, <2>2
  <2> QED  BY <2>2, <2>3 DEF Barrier
<1>7. ASSUME NEW c \in Clients, Handle(c) PROVE Barrier'
  <2>0. phase = "events" /\ \A i \in 1..Len(cmds) : cmds[i] # "snapshotNow"
    BY <1>7 DEF Barrier, Handle, HandleSubscribe, HandleUnsubscribe, HandleSetPanePriority,
       HandleGetPaneSnapshot, HandleCommand, Receive
  <2>1. ASSUME NEW cmd, cmds' = Append(cmds, cmd)
        PROVE  /\ Len(cmds') = Len(cmds) + 1 /\ Len(cmds) \in Nat
               /\ \A i \in 1..Len(cmds) : cmds'[i] = cmds[i]
               /\ cmds'[Len(cmds) + 1] = cmd
    <3> HIDE DEF Commands
    <3> QED  BY <1>0, <2>1, AppendFacts
  <2>2. CASE HandleSubscribe(c) \/ HandleUnsubscribe(c) \/ HandleSetPanePriority(c)
    BY <2>0, <2>2 DEF Barrier, HandleSubscribe, HandleUnsubscribe, HandleSetPanePriority
  <2>3. CASE HandleGetPaneSnapshot(c)
    <3>1. cmds' = Append(cmds, "snapshotNow") /\ phase' = "barrier"
      BY <2>3 DEF HandleGetPaneSnapshot
    <3> QED  BY <2>1, <3>1 DEF Barrier
  <2>4. ASSUME NEW cmd \in {"mutate", "markDirty"}, HandleCommand(c, cmd) PROVE Barrier'
    <3>1. cmds' = Append(cmds, cmd) /\ phase' = "events"
      BY <2>0, <2>4 DEF HandleCommand
    <3> QED  BY <2>0, <2>1, <3>1 DEF Barrier
  <2> QED  BY <1>7, <2>2, <2>3, <2>4 DEF Handle
<1>8. ASSUME NEW c \in Clients,
             \/ Subscribe(c) \/ Rpc(c, "get") \/ Rpc(c, "unsubscribe") \/ SetPanePriority(c)
             \/ Mutate(c) \/ Read(c) \/ PollEvents(c) \/ Redraw(c)
      PROVE  Barrier'
  BY <1>1, <1>8 DEF Subscribe, Rpc, SetPanePriority, Mutate, Read, PollEvents, Redraw, ClientFrame
<1> QED  BY <1>2, <1>3, <1>4, <1>5, <1>6, <1>7, <1>8 DEF Next

FreshBase == TypeOK /\ RequestsTyped /\ Versions /\ Barrier

LEMMA FreshBaseInit == Init => FreshBase
  BY TypedInit, VersionsInit DEF FreshBase, Barrier, Init

LEMMA FreshBaseNext == FreshBase /\ [Next]_vars => FreshBase'
  BY TypedNext, VersionsNext, BarrierNext DEF FreshBase

(* An answer to a GetPaneSnapshot is what the daemon has at its barrier.   *)
LEMMA AnswerIsBuilt ==
    ASSUME TypeOK, [Next]_vars, NEW c \in Clients, Answers(c)
    PROVE  BarrierPassed /\ Answer(c) = Built
<1>0. wire[c] \in Seq(Frames) /\ Len(wire[c]) \in Nat
  <2>1. wire[c] \in Seq(Frames)
    BY Typed
  <2> HIDE DEF Frames
  <2> QED  BY <2>1
<1>1. ASSUME wire[c] # <<>>, wire'[c] = Tail(wire[c]) PROVE FALSE
  <2>1. Len(wire'[c]) = Len(wire[c]) - 1
    <3> HIDE DEF Frames
    <3> QED  BY <1>0, <1>1, TailFacts
  <2> QED  BY <1>0, <2>1 DEF Answers
<1>2. wire'[c] # wire[c]
  BY <1>0 DEF Answers
<1>3. PICK f \in Frames : Sent(c, f) /\ wire'[c] = Append(wire[c], f)
  BY <1>1, <1>2, StepOf
<1>4. wire'[c][Len(wire'[c])] = f
  <2> HIDE DEF Frames
  <2> QED  BY <1>0, <1>3, AppendFacts
<1> QED  BY <1>3, <1>4 DEF Answers, Answer, Sent, Frame

(* GetPaneSnapshot answers with all that the terminal showed when the IO   *)
(* thread passed its barrier, for any clients and whatever they do: the    *)
(* daemon is blocked there, so what SnapshotNow published is still in the  *)
(* buffer, or something newer, when build_and_take looks for it.  Only an  *)
(* open synchronized update makes it answer with the last publication or   *)
(* with the entry that the last answer emptied.                            *)
THEOREM GetAnswersFresh == Spec => GetIsFreshUnlessHeld
<1>1. Init => FreshBase
  BY FreshBaseInit
<1>2. FreshBase /\ [Next]_vars => FreshBase'
  BY FreshBaseNext
<1> DEFINE AllFresh == \A c \in Clients : Answers(c) =>
                         /\ passed # None
                         /\ IF passed.held THEN Answer(c) \in {published, Blank}
                                           ELSE Answer(c) \in Nat /\ Answer(c) >= passed.at
<1>3. FreshBase /\ [Next]_vars => AllFresh
  <2> SUFFICES ASSUME FreshBase, [Next]_vars, NEW c \in Clients, Answers(c)
               PROVE  /\ passed # None
                      /\ IF passed.held THEN Answer(c) \in {published, Blank}
                                        ELSE Answer(c) \in Nat /\ Answer(c) >= passed.at
    OBVIOUS
  <2>1. BarrierPassed /\ Answer(c) = Built /\ TypeOK
    BY AnswerIsBuilt DEF FreshBase
  <2>2. DOMAIN cmds = 1..Len(cmds)
    BY <2>1, Typed
  <2>3. Served
    BY <2>1, <2>2 DEF FreshBase, Barrier, BarrierPassed
  <2>4. slot # None => Built = slot /\ slot = published /\ slot \in Nat
    BY <2>1 DEF Built, FreshBase, Versions, TypeOK
  <2>5. slot = None => Built \in {published, Blank}
    BY DEF Built, FreshBase, Versions
  <2> QED  BY <2>1, <2>3, <2>4, <2>5 DEF Served
<1>4. AllFresh => [AllFresh]_vars
  OBVIOUS
<1> QED  BY <1>1, <1>2, <1>3, <1>4, PTL DEF Spec, GetIsFreshUnlessHeld

-----------------------------------------------------------------------------
(* What the clients ask for.                                               *)

LEMMA OnlyOpsInit == Init => OnlyOps
  BY DEF Init, OnlyOps

OpRequests(r) == \A i \in 1..Len(r) : r[i].kind \in {"get", "unsubscribe"} => r[i].kind \in Ops
OpFrames(w) ==
    \A i \in 1..Len(w) :
        /\ w[i].kind \in {"resp", "error"} => "get" \in Ops
        /\ w[i].kind = "unsubscribed" => "unsubscribe" \in Ops

LEMMA OnlyOpsNext == TypeOK /\ OnlyOps /\ [Next]_vars => OnlyOps'
<1> SUFFICES ASSUME TypeOK, OnlyOps, [Next]_vars PROVE OnlyOps'
  OBVIOUS
<1>1. ASSUME NEW c \in Clients PROVE OpRequests(requests'[c])
  <2>1. OpRequests(requests[c]) /\ requests[c] \in Seq(Requests)
    BY Typed DEF OnlyOps, OpRequests
  <2> HIDE DEF Requests
  <2>2. CASE requests[c] # <<>> /\ requests'[c] = Tail(requests[c])
    <3>1. /\ Len(requests'[c]) = Len(requests[c]) - 1 /\ Len(requests[c]) \in Nat
          /\ \A i \in 1..(Len(requests[c]) - 1) :
               requests'[c][i] = requests[c][i + 1] /\ i + 1 \in 1..Len(requests[c])
      BY <2>1, <2>2, TailFacts
    <3> QED  BY <2>1, <3>1 DEF OpRequests
  <2>3. ASSUME NEW q \in Requests, requests'[c] = Append(requests[c], q),
               q.kind \in {"get", "unsubscribe"} => q.kind \in Ops
        PROVE  OpRequests(requests'[c])
    <3>1. /\ Len(requests'[c]) = Len(requests[c]) + 1 /\ Len(requests[c]) \in Nat
          /\ \A i \in 1..Len(requests[c]) : requests'[c][i] = requests[c][i]
          /\ requests'[c][Len(requests[c]) + 1] = q
      BY <2>1, <2>3, AppendFacts
    <3> QED  BY <2>1, <2>3, <3>1 DEF OpRequests
  <2> QED  BY <2>1, <2>2, <2>3, RequestSteps
<1>2. ASSUME NEW c \in Clients PROVE OpFrames(wire'[c])
  <2>1. OpFrames(wire[c]) /\ wire[c] \in Seq(Frames)
    BY Typed DEF OnlyOps, OpFrames
  <2>2. CASE wire[c] # <<>> /\ wire'[c] = Tail(wire[c])
    <3>1. /\ Len(wire'[c]) = Len(wire[c]) - 1 /\ Len(wire[c]) \in Nat
          /\ \A i \in 1..(Len(wire[c]) - 1) :
               wire'[c][i] = wire[c][i + 1] /\ i + 1 \in 1..Len(wire[c])
      <4> HIDE DEF Frames
      <4> QED  BY <2>1, <2>2, TailFacts
    <3> QED  BY <2>1, <3>1 DEF OpFrames
  <2>3. ASSUME NEW f \in Frames, Sent(c, f), wire'[c] = Append(wire[c], f)
        PROVE  OpFrames(wire'[c])
    <3>1. /\ Len(wire'[c]) = Len(wire[c]) + 1 /\ Len(wire[c]) \in Nat
          /\ \A i \in 1..Len(wire[c]) : wire'[c][i] = wire[c][i]
          /\ wire'[c][Len(wire[c]) + 1] = f
      <4> HIDE DEF Frames
      <4> QED  BY <2>1, <2>3, AppendFacts
    <3>2. f.kind \in {"resp", "error"} => "get" \in Ops
      <4>1. f.kind \in {"resp", "error"} => asker = c
        BY <2>3 DEF Sent, Frame
      <4> QED  BY <4>1, Values0 DEF OnlyOps
    <3>3. f.kind = "unsubscribed" => "unsubscribe" \in Ops
      <4>1. f.kind = "unsubscribed" => Receive(c, "unsubscribe")
        BY <2>3 DEF Sent, Frame, HandleUnsubscribe
      <4>2. Receive(c, "unsubscribe") => requests[c][1].kind = "unsubscribe" /\ 1 \in 1..Len(requests[c])
        <5>1. requests[c] \in Seq(Requests)
          BY Typed
        <5> HIDE DEF Requests
        <5> QED  BY <5>1, TailFacts DEF Receive
      <4> QED  BY <4>1, <4>2 DEF OnlyOps
    <3> QED  BY <2>1, <3>1, <3>2, <3>3 DEF OpFrames
  <2> QED  BY <2>1, <2>2, <2>3, StepOf
<1>3. asker' # None => "get" \in Ops
  <2>1. ASSUME NEW c \in Clients, HandleGetPaneSnapshot(c) PROVE "get" \in Ops
    <3>1. requests[c] \in Seq(Requests) /\ Receive(c, "get")
      BY <2>1, Typed DEF HandleGetPaneSnapshot
    <3>2. requests[c][1].kind = "get" /\ 1 \in 1..Len(requests[c])
      <4> HIDE DEF Requests
      <4> QED  BY <3>1, TailFacts DEF Receive
    <3> QED  BY <3>2 DEF OnlyOps
  <2>2. \/ asker' \in {asker, None} \/ \E c \in Clients : HandleGetPaneSnapshot(c)
    <3>1. CASE Inner \/ Tick \/ Drain \/ UNCHANGED vars
      BY <3>1 DEF Inner, IoOutput, IoCommand, IoPublish, SyncTimesOut, Tick, Drain,
         TrailingEdgeFlush, PushFresh, vars, serverVars
    <3>2. CASE BarrierPassed \/ BarrierTimesOut
      BY <3>2 DEF BarrierPassed, BarrierTimesOut
    <3>3. ASSUME NEW c \in Clients, Handle(c), ~HandleGetPaneSnapshot(c) PROVE asker' = asker
      BY <3>3 DEF Handle, HandleSubscribe, HandleUnsubscribe, HandleSetPanePriority, HandleCommand,
         serverVars
    <3>4. ASSUME NEW c \in Clients,
                 \/ Subscribe(c) \/ Rpc(c, "get") \/ Rpc(c, "unsubscribe") \/ SetPanePriority(c)
                 \/ Mutate(c) \/ Read(c) \/ PollEvents(c) \/ Redraw(c)
          PROVE  asker' = asker
      BY <3>4 DEF Subscribe, Rpc, SetPanePriority, Mutate, Read, PollEvents, Redraw, ClientFrame,
         serverVars
    <3> QED  BY <3>1, <3>2, <3>3, <3>4 DEF Next, Inner
  <2> QED  BY <2>1, <2>2 DEF OnlyOps
<1> QED  BY <1>1, <1>2, <1>3 DEF OnlyOps, OpRequests, OpFrames

-----------------------------------------------------------------------------
(* The order of what a client is shown.                                    *)

(* A record whose client forgets what was pushed, or draws it.             *)
LEMMA KeptSame ==
    ASSUME NEW k, NEW k2, NEW w, NEW p, NEW e, Kept(k, w, p, e),
           \/ k2.shown = k.shown /\ k2.pushed \in {k.pushed, None}
           \/ k2.shown = k.pushed /\ k2.pushed = None
    PROVE  Kept(k2, w, p, e)
<1>1. None \notin Nat
  BY Values0
<1>2. Values(k2, w) \subseteq Values(k, w)
  BY <1>1 DEF Values
<1>3. Ordered(k2, w)
  <2>1. CASE k2.shown = k.shown
    <3>1. k2.pushed \in {k.pushed, None}
      BY <2>1
    <3> QED  BY <1>1, <1>2, <2>1, <3>1 DEF Ordered, Kept
  <2>2. CASE k2.shown = k.pushed /\ k2.pushed = None
    <3>1. \A x \in Values(k2, w) : x = k.pushed \/ \E i \in 1..Len(w) : x = w[i].v
      BY <1>1, <2>2 DEF Values
    <3> QED  BY <1>1, <2>2, <3>1 DEF Ordered, Kept, Values
  <2> QED  BY <2>1, <2>2
<1> QED  BY <1>2, <1>3 DEF Kept

(* The pane publishes, or the entry is built or taken.                     *)
LEMMA KeptBuffer ==
    ASSUME NEW k, NEW w, NEW p, NEW e, NEW p2, NEW e2, Kept(k, w, p, e),
           p \in Nat => p2 \in Nat /\ p <= p2, e2 \in Nat => e2 \in {e, p}
    PROVE  Kept(k, w, p2, e2)
<1>1. ASSUME NEW x \in Values(k, w) PROVE p2 \in Nat /\ x <= p2 /\ (e2 \in Nat => x <= e2)
  BY DEF Kept, Values
<1> QED  BY <1>1 DEF Kept

(* The entry as it was built is sent.                                      *)
LEMMA KeptSent ==
    ASSUME NEW k, NEW w \in Seq(Frames), NEW p, NEW e, NEW e2, NEW f \in Frames,
           Kept(k, w, p, e),
           f.v \in Nat => p \in Nat /\ f.v <= p /\ f.v \in {p, e} /\ (e2 \in Nat => e2 = f.v),
           f.v \notin Nat /\ e2 \in Nat => e2 \in {e, p}
    PROVE  Kept(k, Append(w, f), p, e2)
<1> DEFINE u == Append(w, f)
<1>1. /\ Len(u) = Len(w) + 1 /\ Len(w) \in Nat
      /\ \A i \in 1..Len(w) : u[i] = w[i]
      /\ u[Len(w) + 1] = f
  <2> HIDE DEF Frames
  <2> QED  BY AppendFacts
<1> HIDE DEF u
<1>2. Kept(k, w, p, e2) \/ f.v \in Nat
  BY KeptBuffer
<1>3. \A x \in Values(k, u) : x \in Values(k, w) \/ x = f.v
  BY <1>1 DEF Values
<1>4. \A x \in Values(k, w) : x \in Nat /\ p \in Nat /\ x <= p /\ (f.v \in Nat => x <= f.v)
  BY DEF Kept, Values
<1>5. Ordered(k, u)
  <2>1. \A i \in 1..Len(w) : w[i].v \in Nat => w[i].v \in Values(k, w)
    BY DEF Values
  <2>2. k.pushed \in Nat => k.pushed \in Values(k, w)
    BY DEF Values
  <2>3. k.shown \in Nat => k.shown \in Values(k, w)
    BY DEF Values
  <2>4. ASSUME NEW i \in 1..Len(u), NEW j \in 1..Len(u), i < j, u[i].v \in Nat, u[j].v \in Nat
        PROVE  u[i].v <= u[j].v
    <3>1. i \in 1..Len(w)
      BY <1>1, <2>4
    <3>2. CASE j \in 1..Len(w)
      BY <1>1, <2>4, <3>1, <3>2 DEF Kept, Ordered
    <3>3. CASE j = Len(w) + 1
      BY <1>1, <1>4, <2>1, <2>4, <3>1, <3>3
    <3> QED  BY <1>1, <3>2, <3>3
  <2>5. ASSUME k.pushed \in Nat, NEW i \in 1..Len(u), u[i].v \in Nat
        PROVE  k.pushed <= u[i].v
    BY <1>1, <1>4, <2>2, <2>5 DEF Kept, Ordered
  <2>6. ASSUME k.shown \in Nat, NEW x \in Values(k, u) PROVE k.shown <= x
    <3>1. x \in Nat
      BY DEF Values
    <3> QED  BY <1>3, <1>4, <2>3, <2>6, <3>1 DEF Kept, Ordered
  <2> QED  BY <2>4, <2>5, <2>6 DEF Ordered
<1>6. ASSUME NEW x \in Values(k, u) PROVE p \in Nat /\ x <= p /\ (e2 \in Nat => x <= e2)
  <2>1. CASE x = f.v
    <3>1. f.v \in Nat
      BY <2>1 DEF Values
    <3> QED  BY <2>1, <3>1
  <2>2. CASE x \in Values(k, w)
    BY <1>2, <1>4, <2>2 DEF Kept
  <2> QED  BY <1>3, <2>1, <2>2
<1> QED  BY <1>5, <1>6 DEF Kept, u

(* The reader parks a push, or the main thread gets the snapshot of its    *)
(* Subscribe, which is the first it is shown.                              *)
LEMMA KeptRead ==
    ASSUME NEW k \in Records, NEW w \in Seq(Frames), NEW p, NEW e, Kept(k, w, p, e), w # <<>>,
           Head(w).kind = "subscribed" => k.shown = None /\ k.pushed = None,
           Head(w).kind # "resp"
    PROVE  Kept(Received(k, Head(w)), Tail(w), p, e)
<1> DEFINE f == Head(w)
           k2 == Received(k, f)
           u == Tail(w)
<1>1. /\ Len(w) \in Nat \ {0} /\ Len(u) = Len(w) - 1 /\ f = w[1] /\ 1 \in 1..Len(w)
      /\ \A i \in 1..Len(u) : i + 1 \in 1..Len(w) /\ u[i] = w[i + 1] /\ 1 < i + 1
  <2> HIDE DEF Frames
  <2> QED  BY TailFacts
<1>2. None \notin Nat
  BY Values0
<1>3. \/ k2.shown = k.shown /\ k2.pushed = k.pushed
      \/ k2.shown = k.shown /\ k2.pushed = f.v
      \/ k2.shown = f.v /\ k2.pushed = None /\ k.shown = None
      \/ k2.shown = None /\ k2.pushed = None
  BY DEF Received, Records
<1> HIDE DEF f, k2, u
<1>4. \A i \in 1..Len(u) : \E j \in 1..Len(w) : u[i].v = w[j].v /\ 1 < j
  BY <1>1
<1>5. Values(k2, u) \subseteq Values(k, w)
  BY <1>1, <1>2, <1>3, <1>4 DEF Values
<1>6. \A i \in 1..Len(u) : f.v \in Nat /\ u[i].v \in Nat => f.v <= u[i].v
  BY <1>1, <1>4 DEF Kept, Ordered
<1>7. \A i, j \in 1..Len(u) : i < j /\ u[i].v \in Nat /\ u[j].v \in Nat => u[i].v <= u[j].v
  <2> SUFFICES ASSUME NEW i \in 1..Len(u), NEW j \in 1..Len(u), i < j, u[i].v \in Nat, u[j].v \in Nat
               PROVE  u[i].v <= u[j].v
    OBVIOUS
  <2>1. i + 1 < j + 1
    BY <1>1
  <2> QED  BY <1>1, <2>1 DEF Kept, Ordered
<1>8. k2.pushed \in Nat => \A i \in 1..Len(u) : u[i].v \in Nat => k2.pushed <= u[i].v
  BY <1>1, <1>2, <1>3, <1>4, <1>6 DEF Kept, Ordered
<1>9. k2.shown \in Nat => \A x \in Values(k2, u) : k2.shown <= x
  <2>1. CASE k2.shown = k.shown
    BY <1>5, <2>1 DEF Kept, Ordered
  <2>2. CASE k2.shown = f.v /\ k2.pushed = None
    <3>1. \A x \in Values(k2, u) : x = f.v \/ \E i \in 1..Len(u) : x = u[i].v
      BY <1>2, <2>2 DEF Values
    <3> QED  BY <1>6, <2>2, <3>1 DEF Values
  <2> QED  BY <1>2, <1>3, <2>1, <2>2
<1>10. Ordered(k2, u)
  BY <1>7, <1>8, <1>9 DEF Ordered
<1> QED  BY <1>5, <1>10 DEF Kept, f, k2, u

LEMMA SentFacts ==
    ASSUME TypeOK, Versions, NEW c \in Clients, NEW f \in Frames, Sent(c, f)
    PROVE  /\ published' = published
           /\ f.v \in Nat => /\ published \in Nat /\ f.v <= published /\ f.v \in {published, cache}
                             /\ cache' \in Nat => cache' = f.v
           /\ f.v \notin Nat /\ cache' \in Nat => cache' = cache
<1>0. slot \in Nat \cup {None} /\ published \in Nat \cup {None} /\ None \notin Nat /\ Blank \notin Nat
  BY Values0 DEF TypeOK
<1>1. Built \in Nat => published \in Nat /\ Built <= published /\ Built \in {published, cache}
  BY <1>0 DEF Built, Versions
<1>2. CASE f = Frame("snapshot", Built) /\ BuildClone /\ Drain
  <2>1. f.v = Built /\ cache' = Built /\ published' = published
    BY <1>2 DEF Frame, BuildClone, Drain, TrailingEdgeFlush, PushFresh
  <2> QED  BY <1>1, <2>1
<1>3. CASE f = Frame("subscribed", Built) /\ HandleSubscribe(c)
  <2>1. f.v = Built /\ cache' = Blank /\ published' = published
    BY <1>3 DEF Frame, HandleSubscribe, BuildAndTake, Receive
  <2> QED  BY <1>0, <1>1, <2>1
<1>4. CASE f = Frame("unsubscribed", None) /\ HandleUnsubscribe(c)
  <2>1. f.v = None /\ cache' = cache /\ published' = published
    BY <1>4 DEF Frame, HandleUnsubscribe, Receive
  <2> QED  BY <1>0, <2>1
<1>5. CASE f = Frame("resp", Built) /\ BarrierPassed
  <2>1. f.v = Built /\ cache' = Blank /\ published' = published
    BY <1>5 DEF Frame, BarrierPassed, BuildAndTake
  <2> QED  BY <1>0, <1>1, <2>1
<1>6. CASE f = Frame("error", None) /\ BarrierTimesOut
  <2>1. f.v = None /\ cache' = cache /\ published' = published
    BY <1>6 DEF Frame, BarrierTimesOut
  <2> QED  BY <1>0, <2>1
<1> QED  BY <1>2, <1>3, <1>4, <1>5, <1>6 DEF Sent

(* The first frame of a connection, as Attachment and OnlyOps know it.     *)
LEMMA FirstFrame ==
    ASSUME TypeOK, Conversations, OnlyOps, NEW c \in Clients, wire[c] # <<>>
    PROVE  /\ Head(wire[c]) \in Frames /\ FrameTyped(Head(wire[c]))
           /\ Head(wire[c]).kind = "subscribed" => client[c].shown = None /\ client[c].pushed = None
           /\ Head(wire[c]).kind \in {"resp", "error"} => "get" \in Ops
           /\ Head(wire[c]).kind = "unsubscribed" => "unsubscribe" \in Ops
<1>1. wire[c] \in Seq(Frames)
  BY Typed
<1>2. Head(wire[c]) = wire[c][1] /\ 1 \in 1..Len(wire[c]) /\ Head(wire[c]) \in Frames
  <2> HIDE DEF Frames
  <2> QED  BY <1>1, TailFacts
<1> QED  BY <1>2 DEF Conversations, Talk, Attachment, OnlyOps

LEMMA ChainNext ==
    ASSUME TypeOK, Conversations, Versions, OnlyOps, "get" \notin Ops, [Next]_vars,
           NEW c \in Clients, Chain(c)
    PROVE  Chain(c)'
<1>0. /\ client[c] \in Records /\ wire[c] \in Seq(Frames) /\ None \notin Nat /\ Blank \notin Nat
      /\ version \in Nat /\ published \in Nat \cup {None} /\ slot \in Nat \cup {None}
  BY Typed, Values0 DEF TypeOK
<1>1. /\ published \in Nat => published' \in Nat /\ published <= published'
      /\ cache' \in Nat => cache' \in {cache, published}
  BY <1>0, BufferSteps DEF Versions, Publish, BuildClone, BuildAndTake, Built
<1>2. Kept(client[c], wire[c], published', cache')
  BY <1>1, KeptBuffer DEF Chain
<1>3. CASE wire'[c] = wire[c] /\ client'[c] = client[c]
  BY <1>2, <1>3 DEF Chain
<1>4. ASSUME NEW f \in Frames, Sent(c, f), wire'[c] = Append(wire[c], f), client'[c] = client[c]
      PROVE  Chain(c)'
  <2>1. Kept(client[c], wire[c], published, cache)
    BY DEF Chain
  <2>2. Kept(client[c], Append(wire[c], f), published, cache')
    <3>1. /\ f.v \in Nat => published \in Nat /\ f.v <= published /\ f.v \in {published, cache}
                              /\ (cache' \in Nat => cache' = f.v)
          /\ f.v \notin Nat /\ cache' \in Nat => cache' \in {cache, published}
      BY <1>4, SentFacts
    <3> HIDE DEF Frames, Records
    <3> QED  BY <1>0, <2>1, <3>1, KeptSent
  <2>3. published' = published
    BY <1>4, SentFacts
  <2> QED  BY <1>4, <2>2, <2>3 DEF Chain
<1>5. CASE wire[c] # <<>> /\ wire'[c] = Tail(wire[c]) /\ client'[c] = Received(client[c], Head(wire[c]))
  <2>1. Kept(Received(client[c], Head(wire[c])), Tail(wire[c]), published', cache')
    <3>1. /\ Head(wire[c]).kind = "subscribed" => client[c].shown = None /\ client[c].pushed = None
          /\ Head(wire[c]).kind # "resp"
      BY <1>5, FirstFrame
    <3> HIDE DEF Frames, Records
    <3> QED  BY <1>0, <1>2, <1>5, <3>1, KeptRead
  <2> QED  BY <1>5, <2>1 DEF Chain
<1>6. CASE wire'[c] = wire[c] /\ Own(c)
  <2>1. \/ client'[c].shown = client[c].shown /\ client'[c].pushed \in {client[c].pushed, None}
        \/ client'[c].shown = client[c].pushed /\ client'[c].pushed = None
    BY <1>0, <1>6 DEF Own, Records
  <2>2. Kept(client'[c], wire[c], published', cache')
    BY <1>2, <2>1, KeptSame
  <2> QED  BY <1>6, <2>2 DEF Chain
<1> QED  BY <1>3, <1>4, <1>5, <1>6, StepOf

OrderInv == /\ TypeOK /\ RequestsTyped /\ Conversations /\ Versions /\ OnlyOps
            /\ \A c \in Clients : Chain(c)

LEMMA OrderInit == Init => OrderInv
<1> SUFFICES ASSUME Init PROVE OrderInv
  OBVIOUS
<1>1. ASSUME NEW c \in Clients PROVE Chain(c)
  <2>1. Len(wire[c]) = 0 /\ client[c].pushed = None /\ None \notin Nat /\ Blank \notin Nat
    BY Values0 DEF Init
  <2>2. \A i \in 1..0 : FALSE
    OBVIOUS
  <2>3. \A x \in Values(client[c], wire[c]) : x = client[c].shown /\ x \in Nat
    BY <2>1, <2>2 DEF Values
  <2>4. client[c].shown \in Nat => Joined # {} /\ client[c].shown = 0
    BY <2>1 DEF Init
  <2>5. Joined # {} => published = 0 /\ cache = 0
    BY DEF Init
  <2>6. Ordered(client[c], wire[c])
    BY <2>1, <2>2, <2>3, <2>4 DEF Ordered
  <2> QED  BY <2>3, <2>4, <2>5, <2>6 DEF Chain, Kept
<1> QED  BY <1>1, TypedInit, ConversationsInit, VersionsInit, OnlyOpsInit DEF OrderInv

LEMMA OrderNext == "get" \notin Ops /\ OrderInv /\ [Next]_vars => OrderInv'
<1> SUFFICES ASSUME "get" \notin Ops, OrderInv, [Next]_vars PROVE OrderInv'
  OBVIOUS
<1>1. TypeOK' /\ RequestsTyped' /\ Conversations' /\ OnlyOps'
  BY TypedNext, ConversationsNext, OnlyOpsNext DEF OrderInv
<1>2. Versions'
  BY <1>1, VersionsNext DEF OrderInv
<1>3. \A c \in Clients : Chain(c)'
  BY ChainNext DEF OrderInv
<1> QED  BY <1>1, <1>2, <1>3 DEF OrderInv

(* No client goes back in time, however many there are and whatever they   *)
(* do but ask for a snapshot: pushes reach a client in the order the pane  *)
(* published them, its reader parks the newest, and refresh_pane_snapshot  *)
(* draws what it finds parked.  A client that also asks may park a push    *)
(* and then draw the answer, which is newer, before it, and that is why    *)
(* GetPaneSnapshot is left out.                                            *)
THEOREM NoClientRegresses == "get" \notin Ops => (Spec => NeverRegresses)
<1> SUFFICES ASSUME "get" \notin Ops PROVE Spec => NeverRegresses
  OBVIOUS
<1>1. Init => OrderInv
  BY OrderInit
<1>2. OrderInv /\ [Next]_vars => OrderInv'
  BY OrderNext
<1> DEFINE Forward == \A c \in Clients : LET old == client[c].shown
                                            new == client'[c].shown
                                        IN  NoAnswerYet /\ old \in Nat /\ new \in Nat => new >= old
<1>3. OrderInv /\ [Next]_vars => Forward
  <2> SUFFICES ASSUME OrderInv, [Next]_vars, NEW c \in Clients,
                      client[c].shown \in Nat, client'[c].shown \in Nat
               PROVE  client'[c].shown >= client[c].shown
    OBVIOUS
  <2>0. client[c] \in Records /\ None \notin Nat /\ TypeOK
    BY Typed, Values0 DEF OrderInv
  <2>1. CASE client'[c].shown = client[c].shown
    BY <2>1
  <2>2. CASE wire[c] # <<>> /\ client'[c] = Received(client[c], Head(wire[c]))
    <3>1. /\ Head(wire[c]).kind # "subscribed" /\ Head(wire[c]).kind # "resp"
      BY <2>0, <2>2, FirstFrame DEF OrderInv
    <3>2. client'[c].shown = client[c].shown \/ client'[c].shown = None
      BY <2>0, <2>2, <3>1 DEF Received, Records
    <3> QED  BY <2>0, <2>1, <3>2
  <2>3. CASE client'[c].shown = client[c].pushed
    <3>1. client[c].pushed \in Values(client[c], wire[c])
      BY <2>3 DEF Values
    <3>2. client[c].shown <= client[c].pushed
      BY <3>1 DEF OrderInv, Chain, Kept, Ordered
    <3> QED  BY <2>3, <3>2
  <2>4. Own(c) => client'[c].shown \in {client[c].shown, client[c].pushed}
    BY <2>0 DEF Own, Records
  <2> QED  BY <2>0, <2>1, <2>2, <2>3, <2>4, StepOf
<1>4. Forward => [Forward]_vars
  OBVIOUS
<1> QED  BY <1>1, <1>2, <1>3, <1>4, PTL DEF Spec, NeverRegresses

-----------------------------------------------------------------------------
(* One client that neither leaves nor asks.                                *)

(* What a drain sends is never the entry that a request emptied.           *)
LEMMA DrainBuilds ==
    ASSUME TypeOK, Filled, Drain
    PROVE  \/ UNCHANGED <<slot, cache, wire>> /\ (pending' # {} => pending # {} \/ slot # None)
           \/ Built \in Nat /\ BuildClone
<1>1. slot \in Nat \cup {None}
  BY DEF TypeOK
<1>2. CASE TrailingEdgeFlush
  <2>1. \/ UNCHANGED <<slot, cache, wire>> /\ pending' \subseteq pending
        \/ pending # {} /\ BuildClone
    BY <1>2 DEF TrailingEdgeFlush
  <2>2. pending # {} => Built \in Nat
    BY <1>1 DEF Filled, Built
  <2> QED  BY <2>1, <2>2
<1>3. CASE PushFresh
  <2>1. \/ UNCHANGED <<slot, cache, wire>> /\ (pending' # {} => pending # {} \/ slot # None)
        \/ slot # None /\ BuildClone
    BY <1>3 DEF PushFresh
  <2> QED  BY <1>1, <2>1 DEF Built
<1> QED  BY <1>2, <1>3 DEF Drain

(* A client that subscribes was not a subscriber.                          *)
LEMMA SubscribesOnce ==
    ASSUME TypeOK, Conversations, NEW c \in Clients, Receive(c, "subscribe")
    PROVE  c \notin subs
<1>1. requests[c] \in Seq(Requests) /\ requests[c] # <<>> /\ Head(requests[c]).kind = "subscribe"
  BY ReceiveFacts
<1>2. Head(requests[c]) = requests[c][1] /\ 1 \in 1..Len(requests[c])
  <2> HIDE DEF Requests
  <2> QED  BY <1>1, TailFacts
<1>3. Talk(client[c], wire[c], requests[c], c \in subs, asker = c)
  BY DEF Conversations
<1>4. Asking(requests[c]) /\ client[c].shown = None
  BY <1>1, <1>2, <1>3 DEF Asking, RpcKinds, Talk, Attachment
<1>5. ~Answered(wire[c])
  BY <1>3, <1>4 DEF Talk, OneRpc
<1>6. \A i \in 1..Len(wire[c]) : wire[c][i].kind # "subscribed"
  BY <1>5 DEF Answered, AnswerKinds
<1> QED  BY <1>3, <1>4, <1>6 DEF Talk, Attachment

(* What a client asks for that Ops leaves out is not handled.              *)
LEMMA NotHandled ==
    ASSUME TypeOK, OnlyOps, NEW c \in Clients, NEW op \in {"get", "unsubscribe"}, op \notin Ops
    PROVE  ~Receive(c, op)
<1> SUFFICES ASSUME Receive(c, op) PROVE FALSE
  OBVIOUS
<1>1. requests[c] \in Seq(Requests) /\ requests[c] # <<>> /\ Head(requests[c]).kind = op
  BY ReceiveFacts
<1>2. Head(requests[c]) = requests[c][1] /\ 1 \in 1..Len(requests[c])
  <2> HIDE DEF Requests
  <2> QED  BY <1>1, TailFacts
<1> QED  BY <1>1, <1>2 DEF OnlyOps

LEMMA NoBarrier ==
    ASSUME TypeOK, OnlyOps, "get" \notin Ops
    PROVE  ~BarrierPassed /\ ~BarrierTimesOut
  BY DEF OnlyOps, TypeOK, BarrierPassed, BarrierTimesOut

FilledFrames(k, w) ==
    k.pushed # Blank /\ \A i \in 1..Len(w) : w[i].kind = "snapshot" => w[i].v # Blank

LEMMA FilledNext ==
    ASSUME \E c : Clients = {c}, "get" \notin Ops, TypeOK, Conversations, OnlyOps,
           DeferredAreSubscribed, Filled, [Next]_vars
    PROVE  Filled'
<1> USE DEF serverVars
<1>0. Blank \notin Nat /\ None \notin Nat /\ Blank # None /\ version \in Nat
  BY Values0 DEF TypeOK
<1>1. pending' # {} => slot' # None \/ cache' \in Nat
  <2>1. CASE UNCHANGED <<slot, cache>> /\ pending' \subseteq pending
    BY <2>1 DEF Filled
  <2>2. CASE IoOutput \/ Tick \/ UNCHANGED vars
    BY <2>1, <2>2 DEF IoOutput, Tick, vars
  <2>3. CASE IoCommand \/ IoPublish \/ SyncTimesOut
    <3>1. pending' = pending /\ cache' = cache /\ (slot' = slot \/ slot' = version)
      BY <2>3, CommandSteps DEF IoPublish, SyncTimesOut, Publish
    <3> QED  BY <1>0, <3>1 DEF Filled
  <2>4. CASE Drain
    BY <2>1, <2>4, DrainBuilds DEF BuildClone, Filled
  <2>5. ASSUME NEW c \in Clients, HandleSubscribe(c) PROVE pending' = {}
    <3>1. c \notin subs /\ Clients = {c}
      BY <2>5, SubscribesOnce DEF HandleSubscribe
    <3>2. pending = {} /\ pending' = pending
      BY <2>5, <3>1 DEF DeferredAreSubscribed, TypeOK, HandleSubscribe
    <3> QED  BY <3>2
  <2>6. ASSUME NEW c \in Clients, Handle(c), ~HandleSubscribe(c)
        PROVE  UNCHANGED <<slot, cache>> /\ pending' \subseteq pending
    BY <2>6 DEF Handle, HandleUnsubscribe, HandleSetPanePriority, HandleGetPaneSnapshot, HandleCommand
  <2>7. ASSUME NEW c \in Clients,
               \/ Subscribe(c) \/ Rpc(c, "get") \/ Rpc(c, "unsubscribe") \/ SetPanePriority(c)
               \/ Mutate(c) \/ Read(c) \/ PollEvents(c) \/ Redraw(c)
        PROVE  UNCHANGED <<slot, cache, pending>>
    BY <2>7 DEF Subscribe, Rpc, SetPanePriority, Mutate, Read, PollEvents, Redraw, ClientFrame
  <2> QED  BY <2>1, <2>2, <2>3, <2>4, <2>5, <2>6, <2>7, NoBarrier DEF Next
<1>2. ASSUME NEW c \in Clients PROVE FilledFrames(client'[c], wire'[c])
  <2>0. FilledFrames(client[c], wire[c]) /\ client[c] \in Records /\ wire[c] \in Seq(Frames)
    BY Typed DEF Filled, FilledFrames
  <2>1. ASSUME NEW f \in Frames, Sent(c, f), wire'[c] = Append(wire[c], f), client'[c] = client[c]
        PROVE  FilledFrames(client'[c], wire'[c])
    <3>1. /\ Len(wire'[c]) = Len(wire[c]) + 1 /\ Len(wire[c]) \in Nat
          /\ \A i \in 1..Len(wire[c]) : wire'[c][i] = wire[c][i]
          /\ wire'[c][Len(wire[c]) + 1] = f
      <4> HIDE DEF Frames
      <4> QED  BY <2>0, <2>1, AppendFacts
    <3>2. f.kind = "snapshot" => f.v # Blank
      <4>1. f.kind = "snapshot" => f.v = Built /\ Drain
        BY <2>1 DEF Sent, Frame
      <4>2. wire'[c] # wire[c]
        BY <3>1
      <4>3. Drain => Built \in Nat
        BY <4>2, DrainBuilds
      <4> QED  BY <1>0, <4>1, <4>3
    <3> QED  BY <2>0, <2>1, <3>1, <3>2 DEF FilledFrames
  <2>2. CASE wire[c] # <<>> /\ wire'[c] = Tail(wire[c])
             /\ client'[c] = Received(client[c], Head(wire[c]))
    <3>1. /\ Len(wire'[c]) = Len(wire[c]) - 1 /\ Len(wire[c]) \in Nat \ {0}
          /\ \A i \in 1..(Len(wire[c]) - 1) :
               wire'[c][i] = wire[c][i + 1] /\ i + 1 \in 1..Len(wire[c])
          /\ Head(wire[c]) = wire[c][1] /\ 1 \in 1..Len(wire[c])
      <4> HIDE DEF Frames
      <4> QED  BY <2>0, <2>2, TailFacts
    <3>2. \/ client'[c].pushed \in {client[c].pushed, None}
          \/ Head(wire[c]).kind = "snapshot" /\ client'[c].pushed = Head(wire[c]).v
      BY <2>0, <2>2 DEF Received, Records
    <3>3. client'[c].pushed # Blank
      BY <1>0, <2>0, <3>1, <3>2 DEF FilledFrames
    <3> QED  BY <2>0, <3>1, <3>3 DEF FilledFrames
  <2>3. CASE wire'[c] = wire[c] /\ Own(c)
    <3>1. client'[c].pushed \in {client[c].pushed, None}
      BY <2>0, <2>3 DEF Own, Records
    <3> QED  BY <1>0, <2>0, <2>3, <3>1 DEF FilledFrames
  <2> QED  BY <2>0, <2>1, <2>2, <2>3, StepOf
<1> QED  BY <1>1, <1>2 DEF Filled, FilledFrames

LEMMA FilledInit == Init => Filled
  BY Values0 DEF Init, Filled

BlankInv == OrderInv /\ DeferredAreSubscribed /\ Filled

LEMMA BlankInit == Init => BlankInv
  BY OrderInit, FilledInit DEF BlankInv, Init, DeferredAreSubscribed

LEMMA BlankNext ==
    ASSUME \E c : Clients = {c}, "get" \notin Ops, BlankInv, [Next]_vars
    PROVE  BlankInv'
  BY OrderNext, DeferredNext, FilledNext DEF BlankInv, OrderInv

(* A client with the pane to itself, that does not ask for snapshots, is   *)
(* never given an empty one after content: build_clone leaves the entry    *)
(* for the next push, a deferred push is only owed while there is          *)
(* something to send, and nobody else's Subscribe empties the entry.       *)
THEOREM LoneClientNeverBlanked ==
    (\E c : Clients = {c}) /\ "get" \notin Ops => (Spec => NeverBlanked)
<1> SUFFICES ASSUME \E c : Clients = {c}, "get" \notin Ops PROVE Spec => NeverBlanked
  OBVIOUS
<1>1. Init => BlankInv
  BY BlankInit
<1>2. BlankInv /\ [Next]_vars => BlankInv'
  BY BlankNext
<1> DEFINE Unblanked ==
             \A c \in Clients : NoAnswerYet /\ client[c].shown \in Nat => client'[c].shown # Blank
<1>3. BlankInv /\ [Next]_vars => Unblanked
  <2> SUFFICES ASSUME BlankInv, [Next]_vars, NEW c \in Clients, client[c].shown \in Nat
               PROVE  client'[c].shown # Blank
    OBVIOUS
  <2>0. /\ TypeOK /\ Conversations /\ OnlyOps /\ client[c] \in Records
        /\ None \notin Nat /\ Blank \notin Nat /\ Blank # None
    BY Typed, Values0 DEF BlankInv, OrderInv
  <2>1. CASE client'[c].shown \in {client[c].shown, None}
    BY <2>0, <2>1
  <2>2. CASE wire[c] # <<>> /\ client'[c] = Received(client[c], Head(wire[c]))
    <3>1. Head(wire[c]).kind # "subscribed" /\ Head(wire[c]).kind # "resp"
      BY <2>0, <2>2, FirstFrame
    <3>2. client'[c].shown = client[c].shown \/ client'[c].shown = None
      BY <2>0, <2>2, <3>1 DEF Received, Records
    <3> QED  BY <2>0, <2>1, <3>2
  <2>3. CASE client'[c].shown = client[c].pushed
    BY <2>3 DEF BlankInv, Filled
  <2>4. Own(c) => client'[c].shown \in {client[c].shown, client[c].pushed}
    BY <2>0 DEF Own, Records
  <2> QED  BY <2>0, <2>1, <2>2, <2>3, <2>4, StepOf
<1>4. Unblanked => [Unblanked]_vars
  OBVIOUS
<1> QED  BY <1>1, <1>2, <1>3, <1>4, PTL DEF Spec, NeverBlanked

-----------------------------------------------------------------------------
(* No update is lost.                                                      *)

WorkOnly == (\E c : Clients = {c}) /\ "get" \notin Ops /\ "unsubscribe" \notin Ops

FlowInv == BlankInv /\ Unseen /\ AllComing

LEMMA FlowInit == Init => FlowInv
<1> SUFFICES ASSUME Init PROVE FlowInv
  OBVIOUS
<1>1. Unseen
  BY DEF Init, Unseen
<1>2. AllComing
  <2>1. \A c \in subs : published # None => client[c].shown = published
    BY Values0 DEF Init
  <2> QED  BY <2>1 DEF AllComing, Coming
<1> QED  BY <1>1, <1>2, BlankInit DEF FlowInv

LEMMA UnseenNext ==
    ASSUME WorkOnly, FlowInv, [Next]_vars PROVE Unseen'
<1> USE DEF serverVars
<1>0. /\ TypeOK /\ OnlyOps /\ Filled /\ DeferredAreSubscribed /\ Unseen
      /\ version \in Nat /\ None \notin Nat
  BY Values0 DEF FlowInv, BlankInv, OrderInv, TypeOK
<1>1. CASE UNCHANGED <<subs, slot, published>>
  BY <1>0, <1>1 DEF Unseen
<1>2. CASE Inner \/ Tick \/ UNCHANGED vars
  <2>1. UNCHANGED <<subs, slot, published>> \/ slot' = version
    BY <1>2, CommandSteps DEF Inner, IoOutput, IoPublish, SyncTimesOut, Publish, Tick, vars
  <2> QED  BY <1>0, <1>1, <2>1 DEF Unseen
<1>3. CASE Drain
  <2>1. subs' = subs /\ published' = published /\ (slot' = slot \/ subs # {})
    BY <1>3 DEF Drain, TrailingEdgeFlush, PushFresh
  <2> QED  BY <1>0, <2>1 DEF Unseen
<1>4. ASSUME NEW c \in Clients, Handle(c) PROVE Unseen'
  <2>1. ~HandleUnsubscribe(c) /\ ~HandleGetPaneSnapshot(c)
    BY <1>0, NotHandled DEF WorkOnly, HandleUnsubscribe, HandleGetPaneSnapshot
  <2>2. HandleSubscribe(c) => c \in subs'
    BY DEF HandleSubscribe
  <2>3. ~HandleSubscribe(c) => UNCHANGED <<subs, slot, published>>
    BY <1>4, <2>1 DEF Handle, HandleSetPanePriority, HandleCommand, Receive
  <2> QED  BY <1>1, <2>2, <2>3 DEF Unseen
<1>5. ASSUME NEW c \in Clients,
             \/ Subscribe(c) \/ Rpc(c, "get") \/ Rpc(c, "unsubscribe") \/ SetPanePriority(c)
             \/ Mutate(c) \/ Read(c) \/ PollEvents(c) \/ Redraw(c)
      PROVE  UNCHANGED <<subs, slot, published>>
  BY <1>5 DEF Subscribe, Rpc, SetPanePriority, Mutate, Read, PollEvents, Redraw, ClientFrame
<1> QED  BY <1>0, <1>1, <1>2, <1>3, <1>4, <1>5, NoBarrier DEF Next, Inner, WorkOnly

(* A drain sends what it takes from the buffer, or owes it.                *)
LEMMA ComingDrain ==
    ASSUME WorkOnly, FlowInv, Drain, published # None, NEW c \in subs, Coming(c)
    PROVE  Coming(c)'
<1> USE DEF serverVars, paneVars
<1>0. /\ TypeOK /\ Clients = {c} /\ c \in Clients /\ wire[c] \in Seq(Frames)
      /\ slot \in Nat \cup {None} /\ (slot # None => slot = published)
  <2>1. TypeOK /\ Versions
    BY DEF FlowInv, BlankInv, OrderInv
  <2>2. c \in Clients /\ slot \in Nat \cup {None}
    BY <2>1 DEF TypeOK
  <2> QED  BY <2>1, <2>2, Typed DEF WorkOnly, Versions
<1>1. UNCHANGED <<client, requests, cmds, ioDirty, published>>
  BY DEF Drain, TrailingEdgeFlush, PushFresh
<1>2. CASE UNCHANGED <<slot, cache, wire>> /\ (c \in pending => c \in pending')
  BY <1>1, <1>2 DEF Coming
<1>3. CASE BuildClone /\ wire' = Pushed({c})
  <2>1. wire'[c] = Append(wire[c], Frame("snapshot", Built)) /\ Frame("snapshot", Built).v = Built
    BY <1>0, <1>3 DEF Pushed, Frame
  <2>2. /\ Len(wire'[c]) = Len(wire[c]) + 1 /\ Len(wire[c]) \in Nat
        /\ \A i \in 1..Len(wire[c]) : wire'[c][i] = wire[c][i]
        /\ wire'[c][Len(wire[c]) + 1].v = Built
    <3> HIDE DEF Frames
    <3> QED  BY <1>0, <2>1, AppendFacts
  <2>3. CASE Built = published
    <3>1. Len(wire[c]) + 1 \in 1..Len(wire'[c])
      BY <2>2
    <3> QED  BY <1>1, <2>2, <2>3, <3>1 DEF Coming
  <2>4. CASE Built # published
    <3>1. slot = None /\ cache # published
      BY <1>0, <2>4 DEF Built
    <3>2. \A i \in 1..Len(wire[c]) : i \in 1..Len(wire'[c]) /\ wire'[c][i] = wire[c][i]
      BY <2>2
    <3> QED  BY <1>1, <3>1, <3>2 DEF Coming
  <2> QED  BY <2>3, <2>4
<1>4. CASE BuildClone /\ slot # None /\ c \in pending'
  <2>1. cache' = published'
    BY <1>0, <1>1, <1>4 DEF BuildClone, Built
  <2> QED  BY <1>4, <2>1 DEF Coming
<1>5. CASE TrailingEdgeFlush
  <2>1. \/ UNCHANGED <<slot, cache, wire>> /\ pending' \in {pending, pending \cap subs}
        \/ /\ BuildClone
           /\ \E to \in SUBSET subs : to # {} /\ wire' = Pushed(to)
    BY <1>5 DEF TrailingEdgeFlush
  <2>2. \A to \in SUBSET subs : to # {} => to = {c}
    BY <1>0 DEF TypeOK
  <2> QED  BY <1>2, <1>3, <2>1, <2>2
<1>6. CASE PushFresh
  <2>1. \/ UNCHANGED <<slot, cache, wire>> /\ (pending = pending' \/ pending' = pending \cup subs)
        \/ /\ BuildClone /\ slot # None
           /\ LET ready == {d \in subs : ~Congested(d)}
              IN  wire' = Pushed(ready) /\ pending' = pending \cup (subs \ ready)
    BY <1>6 DEF PushFresh
  <2>2. ASSUME NEW ready \in SUBSET subs, BuildClone, slot # None, wire' = Pushed(ready),
               pending' = pending \cup (subs \ ready)
        PROVE  Coming(c)'
    <3>1. CASE c \in ready
      <4>1. ready = {c}
        BY <1>0, <3>1 DEF TypeOK
      <4> QED  BY <1>3, <2>2, <4>1
    <3>2. CASE c \notin ready
      BY <1>4, <2>2, <3>2
    <3> QED  BY <3>1, <3>2
  <2> QED  BY <1>2, <2>1, <2>2
<1> QED  BY <1>5, <1>6 DEF Drain

(* Requests on their way: one that is not for the IO thread is handled.    *)
LEMMA AsksSurvive ==
    ASSUME NEW r \in Seq(Requests), r # <<>>, NEW K, Head(r).kind \notin K,
           \E i \in 1..Len(r) : r[i].kind \in K
    PROVE  \E i \in 1..Len(Tail(r)) : Tail(r)[i].kind \in K
<1> HIDE DEF Requests
<1>1. /\ Len(r) \in Nat \ {0} /\ Len(Tail(r)) = Len(r) - 1 /\ Head(r) = r[1]
      /\ \A i \in 1..(Len(r) - 1) : Tail(r)[i] = r[i + 1]
  BY TailFacts
<1>2. PICK i \in 1..Len(r) : r[i].kind \in K
  OBVIOUS
<1>3. i # 1
  BY <1>1, <1>2
<1>4. PICK j \in 1..(Len(r) - 1) : i = j + 1
  <2>1. i - 1 \in 1..(Len(r) - 1) /\ i = (i - 1) + 1
    BY <1>1, <1>3
  <2> QED  BY <2>1
<1> QED  BY <1>1, <1>2, <1>4

LEMMA ComingHandle ==
    ASSUME WorkOnly, FlowInv, published # None, NEW d \in Clients, Handle(d),
           NEW c \in subs', c \in subs => Coming(c)
    PROVE  Coming(c)'
<1> USE DEF serverVars
<1>0. /\ TypeOK /\ OnlyOps /\ Conversations /\ Versions /\ Unseen
      /\ slot \in Nat \cup {None}
  BY DEF FlowInv, BlankInv, OrderInv, TypeOK
<1>1. ~HandleUnsubscribe(d) /\ ~HandleGetPaneSnapshot(d)
  BY <1>0, NotHandled DEF WorkOnly, HandleUnsubscribe, HandleGetPaneSnapshot
<1>2. Clients = {d} /\ c = d /\ c \in Clients
  <2>1. c \in Clients
    BY <1>0 DEF TypeOK, Handle, HandleSubscribe, HandleUnsubscribe, HandleSetPanePriority,
       HandleGetPaneSnapshot, HandleCommand
  <2> QED  BY <2>1 DEF WorkOnly
<1>3. wire[c] \in Seq(Frames) /\ requests[c] \in Seq(Requests) /\ cmds \in Seq(Commands)
  BY <1>0, <1>2, Typed
<1>4. CASE HandleSubscribe(c)
  <2>1. subs = {} /\ published' = published
    BY <1>0, <1>2, <1>4, SubscribesOnce DEF TypeOK, HandleSubscribe, Receive
  <2>2. Built = published /\ Built \in Snapshots
    BY <1>0, <2>1, BuiltTyped DEF Unseen, Built, Versions
  <2>3. wire'[c] = Append(wire[c], Frame("subscribed", Built)) /\ Frame("subscribed", Built).v = Built
    BY <1>0, <1>2, <1>4, <2>2, ReplyFacts DEF HandleSubscribe, FrameKinds
  <2>4. /\ Len(wire'[c]) = Len(wire[c]) + 1 /\ Len(wire[c]) \in Nat
        /\ wire'[c][Len(wire[c]) + 1].v = Built
    <3> HIDE DEF Frames
    <3> QED  BY <1>3, <2>3, AppendFacts
  <2>5. Len(wire[c]) + 1 \in 1..Len(wire'[c])
    BY <2>4
  <2> QED  BY <2>1, <2>2, <2>4, <2>5 DEF Coming
<1>5. CASE HandleSetPanePriority(c)
  <2>1. /\ UNCHANGED <<slot, cache, published, client, wire, pending, cmds, ioDirty, subs>>
        /\ Receive(c, "priority")
    BY <1>5 DEF HandleSetPanePriority, Receive
  <2>2. requests[c] # <<>> /\ Head(requests[c]).kind = "priority" /\ requests'[c] = Tail(requests[c])
    BY <1>0, <1>2, <2>1, ReceiveFacts
  <2>3. (\E i \in 1..Len(requests[c]) : requests[c][i].kind \in {"mutate", "markDirty"})
          => \E i \in 1..Len(requests'[c]) : requests'[c][i].kind \in {"mutate", "markDirty"}
    <3> HIDE DEF Requests
    <3> QED  BY <1>3, <2>2, AsksSurvive
  <2> QED  BY <2>1, <2>3 DEF Coming
<1>6. ASSUME NEW cmd, HandleCommand(c, cmd) PROVE Coming(c)'
  <2>1. cmds' = Append(cmds, cmd)
    BY <1>6 DEF HandleCommand
  <2>2. cmds' # <<>>
    BY <1>3, <2>1, AppendFacts
  <2> QED  BY <2>2 DEF Coming
<1> QED  BY <1>1, <1>2, <1>4, <1>5, <1>6 DEF Handle

LEMMA ComingRead ==
    ASSUME WorkOnly, FlowInv, published # None, NEW c \in subs, c \in Clients, Read(c), Coming(c)
    PROVE  Coming(c)'
<1> DEFINE k == client[c]
           w == wire[c]
           f == Head(wire[c])
<1>0. /\ TypeOK /\ OnlyOps /\ Conversations /\ Filled /\ Chain(c)
      /\ k \in Records /\ w \in Seq(Frames) /\ client \in [Clients -> Records]
      /\ wire \in [Clients -> Seq(Frames)] /\ None \notin Nat
  BY Typed, Values0 DEF FlowInv, BlankInv, OrderInv
<1>1. /\ UNCHANGED <<slot, cache, published, pending, cmds, ioDirty, requests>>
      /\ w # <<>>
  BY DEF Read, ClientFrame, serverVars, paneVars
<1>2. wire'[c] = Tail(w) /\ client'[c] = Received(k, f)
  <2> HIDE DEF Records, Frames
  <2> QED  BY <1>0 DEF Read
<1>3. /\ Len(w) \in Nat \ {0} /\ Len(Tail(w)) = Len(w) - 1 /\ f = w[1] /\ 1 \in 1..Len(w)
      /\ \A i \in 1..(Len(w) - 1) : Tail(w)[i] = w[i + 1]
  <2> HIDE DEF Frames
  <2> QED  BY <1>0, <1>1, TailFacts
<1>4. /\ f \in Frames /\ FrameTyped(f)
      /\ f.kind = "subscribed" => k.shown = None /\ k.pushed = None
      /\ f.kind \notin {"resp", "error", "unsubscribed"}
  BY <1>0, <1>1, FirstFrame DEF WorkOnly
<1>5. ASSUME NEW i \in 1..Len(w), w[i].v = published
      PROVE  f.v = published \/ \E j \in 1..Len(wire'[c]) : wire'[c][j].v = published
  <2>1. CASE i = 1
    BY <1>3, <1>5, <2>1
  <2>2. CASE i # 1
    <3>1. PICK j \in 1..(Len(w) - 1) : i = j + 1
      <4>1. i - 1 \in 1..(Len(w) - 1) /\ i = (i - 1) + 1
        BY <1>3, <2>2
      <4> QED  BY <4>1
    <3> QED  BY <1>2, <1>3, <1>5, <3>1
  <2> QED  BY <2>1, <2>2
<1>6. CASE f.kind = "subscribed"
  <2>1. client'[c].shown = f.v
    BY <1>0, <1>2, <1>6 DEF Received, Records
  <2>2. k.shown # published /\ k.pushed # published
    BY <1>4, <1>6
  <2> QED  BY <1>1, <1>5, <2>1, <2>2 DEF Coming
<1>7. CASE f.kind = "snapshot"
  <2>1. client'[c].shown = k.shown /\ client'[c].pushed = f.v /\ client'[c].notified
    BY <1>0, <1>2, <1>7 DEF Received, Records
  <2>2. f.v \in Nat
    <3>1. f.v # Blank /\ f.v # None
      BY <1>0, <1>3, <1>4, <1>7 DEF Filled, FrameTyped
    <3> QED  BY <1>4, <3>1 DEF Frames, Snapshots
  <2>3. k.pushed = published => f.v = published
    <3> SUFFICES ASSUME k.pushed = published PROVE f.v = published
      OBVIOUS
    <3>1. published \in Nat
      BY <1>0 DEF TypeOK
    <3>2. k.pushed <= f.v
      BY <1>0, <1>3, <2>2, <3>1 DEF Chain, Kept, Ordered
    <3>3. f.v \in Values(k, w)
      BY <1>3, <2>2 DEF Values
    <3>4. f.v <= published
      BY <1>0, <3>3 DEF Chain, Kept
    <3> QED  BY <2>2, <3>1, <3>2, <3>4
  <2>4. f.v = published => Coming(c)'
    BY <1>1, <2>1 DEF Coming
  <2> QED  BY <1>1, <1>5, <2>1, <2>3, <2>4 DEF Coming
<1> QED  BY <1>4, <1>6, <1>7 DEF Frames, FrameKinds

LEMMA ComingClient ==
    ASSUME WorkOnly, FlowInv, published # None, NEW c \in subs, c \in Clients, Coming(c),
           \/ Subscribe(c) \/ SetPanePriority(c) \/ Mutate(c) \/ PollEvents(c) \/ Redraw(c)
    PROVE  Coming(c)'
<1> DEFINE k == client[c]
           r == requests[c]
<1>0. /\ TypeOK /\ Filled /\ Chain(c) /\ k \in Records /\ r \in Seq(Requests)
      /\ client \in [Clients -> Records] /\ None \notin Nat
  BY Typed, Values0 DEF FlowInv, BlankInv, OrderInv
<1>1. UNCHANGED <<slot, cache, published, pending, cmds, ioDirty, wire>>
  BY DEF Subscribe, SetPanePriority, Mutate, PollEvents, Redraw, ClientFrame, serverVars, paneVars
<1>2. ASSUME NEW q, Send(c, q)
      PROVE  /\ Len(requests'[c]) = Len(r) + 1 /\ Len(r) \in Nat
             /\ \A i \in 1..Len(r) : i \in 1..Len(requests'[c]) /\ requests'[c][i] = r[i]
             /\ requests'[c][Len(r) + 1] = q /\ Len(r) + 1 \in 1..Len(requests'[c])
  <2>1. requests'[c] = Append(r, q)
    BY <1>0, <1>2, SendFacts
  <2>2. /\ Len(requests'[c]) = Len(r) + 1 /\ Len(r) \in Nat
        /\ \A i \in 1..Len(r) : requests'[c][i] = r[i]
        /\ requests'[c][Len(r) + 1] = q
    <3> HIDE DEF Requests
    <3> QED  BY <1>0, <2>1, AppendFacts
  <2> QED  BY <2>2
<1>3. ASSUME NEW kind \in {"mutate", "markDirty"}, Send(c, Request(kind, None)) PROVE Coming(c)'
  <2>1. Request(kind, None).kind = kind
    BY DEF Request
  <2> QED  BY <1>2, <1>3, <2>1 DEF Coming
<1>4. CASE Subscribe(c) \/ SetPanePriority(c)
  <2>1. /\ client'[c].shown = k.shown /\ client'[c].pushed = k.pushed
        /\ client'[c].dirty = k.dirty /\ client'[c].notified = k.notified
    <3>1. client' = client \/ client' = [client EXCEPT ![c] = [k EXCEPT !.waiting = TRUE]]
      BY <1>0, <1>4, ClientSteps DEF SetPanePriority
    <3>2. client'[c] = k \/ client'[c] = [k EXCEPT !.waiting = TRUE]
      <4> HIDE DEF Records
      <4> QED  BY <1>0, <3>1
    <3> QED  BY <1>0, <3>2 DEF Records
  <2>2. \E q : Send(c, q)
    BY <1>4 DEF Subscribe, SetPanePriority
  <2>3. \A i \in 1..Len(r) : i \in 1..Len(requests'[c]) /\ requests'[c][i] = r[i]
    BY <1>2, <2>2
  <2> QED  BY <1>1, <2>1, <2>3 DEF Coming
<1>5. CASE Mutate(c)
  BY <1>3, <1>5 DEF Mutate
<1>6. CASE PollEvents(c)
  <2>1. client'[c] = [k EXCEPT !.notified = FALSE, !.dirty = TRUE] /\ requests' = requests
    <3> HIDE DEF Records
    <3> QED  BY <1>0, <1>6, ClientSteps DEF PollEvents
  <2>2. client'[c].shown = k.shown /\ client'[c].pushed = k.pushed /\ client'[c].dirty
    BY <1>0, <2>1 DEF Records
  <2> QED  BY <1>1, <2>1, <2>2 DEF Coming
<1>7. CASE Redraw(c)
  <2>1. CASE /\ k.pushed # None /\ requests' = requests
             /\ client' = [client EXCEPT ![c] = [k EXCEPT !.shown = k.pushed,
                             !.pushed = None, !.refresh = FALSE, !.dirty = FALSE]]
    <3>1. client'[c] = [k EXCEPT !.shown = k.pushed, !.pushed = None, !.refresh = FALSE, !.dirty = FALSE]
      <4> HIDE DEF Records
      <4> QED  BY <1>0, <2>1
    <3>2. client'[c].shown = k.pushed
      BY <1>0, <3>1 DEF Records
    <3>3. k.shown = published => k.pushed = published
      <4> SUFFICES ASSUME k.shown = published PROVE k.pushed = published
        OBVIOUS
      <4>1. published \in Nat /\ k.pushed \in Nat
        BY <1>0, <2>1 DEF TypeOK, Records, Snapshots, Filled
      <4>2. k.pushed \in Values(k, wire[c])
        BY <4>1 DEF Values
      <4>3. k.shown <= k.pushed /\ k.pushed <= published
        BY <1>0, <4>1, <4>2 DEF Chain, Kept, Ordered
      <4> QED  BY <4>1, <4>3
    <3> QED  BY <1>1, <2>1, <3>2, <3>3 DEF Coming
  <2>2. CASE Send(c, Request("markDirty", None))
    BY <1>3, <2>2
  <2> QED  BY <1>0, <1>7, <2>1, <2>2, ClientSteps
<1> QED  BY <1>4, <1>5, <1>6, <1>7

LEMMA FlowNext == ASSUME WorkOnly, FlowInv, [Next]_vars PROVE FlowInv'
<1> USE DEF serverVars, paneVars
<1>0. /\ TypeOK /\ OnlyOps /\ None \notin Nat /\ version \in Nat
  BY Values0 DEF FlowInv, BlankInv, OrderInv, TypeOK
<1>1. BlankInv' /\ Unseen'
  BY BlankNext, UnseenNext DEF FlowInv, WorkOnly
<1>2. ASSUME published' # None, NEW c \in subs' PROVE Coming(c)'
  <2>0. published # None /\ c \in subs => Coming(c)
    BY DEF FlowInv, AllComing
  <2>1. CASE IoPublish \/ SyncTimesOut \/ IoCommand
    <3>1. ioDirty' \/ slot' # None
      BY <1>0, <2>1, CommandSteps DEF IoPublish, SyncTimesOut, Publish
    <3> QED  BY <3>1 DEF Coming
  <2>2. CASE IoOutput \/ Tick \/ UNCHANGED vars
    <3>1. /\ UNCHANGED <<slot, pending, cache, published, client, wire, requests, cmds, subs>>
          /\ ioDirty => ioDirty'
      <4>1. CASE IoOutput
        BY <1>0, <4>1 DEF IoOutput, TypeOK
      <4>2. CASE Tick \/ UNCHANGED vars
        BY <4>2 DEF Tick, vars
      <4> QED  BY <2>2, <4>1, <4>2
    <3> QED  BY <1>2, <2>0, <3>1 DEF Coming
  <2>3. CASE Drain
    <3>1. UNCHANGED <<subs, published>>
      BY <2>3 DEF Drain, TrailingEdgeFlush, PushFresh
    <3> QED  BY <1>2, <2>0, <2>3, <3>1, ComingDrain
  <2>4. ASSUME NEW d \in Clients, Handle(d) PROVE Coming(c)'
    <3>1. published' = published
      BY <2>4 DEF Handle, HandleSubscribe, HandleUnsubscribe, HandleSetPanePriority,
         HandleGetPaneSnapshot, HandleCommand, Receive
    <3> QED  BY <1>2, <2>0, <2>4, <3>1, ComingHandle
  <2>5. ASSUME NEW d \in Clients,
               \/ Subscribe(d) \/ Rpc(d, "get") \/ Rpc(d, "unsubscribe") \/ SetPanePriority(d)
               \/ Mutate(d) \/ Read(d) \/ PollEvents(d) \/ Redraw(d)
        PROVE  Coming(c)'
    <3>1. UNCHANGED <<subs, published>>
      BY <2>5 DEF Subscribe, Rpc, SetPanePriority, Mutate, Read, PollEvents, Redraw, ClientFrame
    <3>2. ~Rpc(d, "get") /\ ~Rpc(d, "unsubscribe")
      BY DEF WorkOnly, Rpc, Spend
    <3>3. c = d /\ c \in Clients /\ c \in subs /\ Coming(c) /\ published # None
      BY <1>0, <1>2, <2>0, <3>1 DEF WorkOnly, TypeOK
    <3> QED  BY <2>5, <3>2, <3>3, ComingRead, ComingClient
  <2> QED  BY <1>0, <2>1, <2>2, <2>3, <2>4, <2>5, NoBarrier DEF Next, WorkOnly
<1> QED  BY <1>1, <1>2 DEF FlowInv, AllComing

(* No update is lost on its way to the client of a pane it has to itself,  *)
(* as long as it neither leaves nor asks: what was published last is drawn,*)
(* parked with a mark, on the connection, owed to the client by the        *)
(* deferred set, or in the buffer, through the throttle, the high-water    *)
(* mark, trailing_edge_flush and the refresh that asks for a push.         *)
THEOREM LoneClientUpdated == WorkOnly => (Spec => []UpdateReachesSubscriber)
<1> SUFFICES ASSUME WorkOnly PROVE Spec => []UpdateReachesSubscriber
  OBVIOUS
<1>1. Init => FlowInv
  BY FlowInit
<1>2. FlowInv /\ [Next]_vars => FlowInv'
  BY FlowNext
<1>3. FlowInv => UpdateReachesSubscriber
  <2> SUFFICES ASSUME FlowInv, published # None, NEW c \in subs PROVE OnItsWay(c)
    BY DEF UpdateReachesSubscriber
  <2>1. Coming(c) /\ TypeOK /\ c \in Clients
    BY DEF FlowInv, AllComing, BlankInv, OrderInv, TypeOK
  <2>2. DOMAIN wire[c] = 1..Len(wire[c]) /\ DOMAIN requests[c] = 1..Len(requests[c])
    BY <2>1 DEF TypeOK
  <2> QED  BY <2>1, <2>2 DEF Coming, OnItsWay
<1> QED  BY <1>1, <1>2, <1>3, PTL DEF Spec
=============================================================================
