---------------------------- MODULE SnapshotPush ----------------------------
(***************************************************************************)
(* How a pane's content reaches the clients of the daemon.  The pane's IO  *)
(* thread publishes snapshots into a double buffer; the daemon's single    *)
(* thread answers requests and, once per turn of its loop, pushes what is  *)
(* new to the subscribers: first the clients it had to put off (throttled, *)
(* or above the write high-water mark), then, if the buffer still holds    *)
(* something new, everyone.  Each client's reader thread parks a pushed    *)
(* snapshot in a map, and its main thread takes it from there to draw.     *)
(*                                                                         *)
(* One pane; its content is a version number.  Time is known by age: how   *)
(* many of the three push intervals (4, 16, 100 ms) the last push is old.  *)
(* A client is above the high-water mark when HighWater frames are on its  *)
(* way.  A synchronized update (Mode 2026) holds publications back until   *)
(* it ends.  Connections do not break here.                                *)
(***************************************************************************)
EXTENDS Naturals, Sequences

CONSTANTS
    Clients,
    Joined,     \* the clients subscribed, and up to date, at the start
    Ops,        \* what the clients do with the pane
    Blank,      \* PaneSnapshot::default()
    None,       \* no snapshot
    HighWater,  \* WRITE_HIGH_WATER, in frames
    MaxOutput,  \* bound on what the pane's child writes
    MaxOps      \* bound on the operations of the clients, and on the redraws
                \* that get ahead of a notification (each may ask for a push)

OpKinds == {"mutate", "get", "unsubscribe", "priority"}
Priorities == 0..2

ASSUME SnapshotPushAssumption ==
    /\ Joined \subseteq Clients
    /\ Ops \subseteq OpKinds
    /\ Blank \notin Nat /\ None \notin Nat /\ Blank # None
    /\ None \notin Clients \cup [at : Nat, held : BOOLEAN]
    /\ HighWater \in Nat \ {0} /\ MaxOutput \in Nat /\ MaxOps \in Nat

VARIABLES
    (* the pane *)
    version,    \* what its terminal shows
    ioDirty,    \* grid_dirty
    sync,       \* inside a synchronized update
    cmds,       \* the IO thread's command channel
    slot,       \* a published snapshot nobody has taken, or None
    (* the daemon *)
    phase,      \* "events", "flushed" or "barrier"
    asker,      \* whose GetPaneSnapshot the daemon is blocked in
    cache,      \* the pane's entry of SnapshotCache
    subs,       \* subscriptions
    pending,    \* pending_push
    prio,       \* pane_priorities
    age,        \* of last_snapshot_push; 3 also when there is none
    (* the connections and the clients *)
    wire, requests,
    client,
    (* history, and the bounds on it *)
    published,  \* the version of the last snapshot published
    passed,     \* the version at which the last barrier of a GetPaneSnapshot
                \* passed, and whether a synchronized update was open; or None
    outputs, ops

paneVars == <<version, ioDirty, sync, cmds>>
serverVars == <<phase, asker, subs, pending, prio>>
vars == <<paneVars, slot, serverVars, cache, age, wire, requests, client,
          published, passed, outputs, ops>>

-----------------------------------------------------------------------------
(* SnapshotCache.                                                          *)

(* build: what is new is folded into the entry, which is default before.   *)
Built == IF slot # None THEN slot ELSE cache

(* build_and_take leaves a default in the entry's place.                   *)
BuildAndTake == slot' = None /\ cache' = Blank

(* A push that takes the entry as a request does.                          *)
BuildCloneTakes == BuildAndTake

(* build_clone leaves the entry.                                           *)
BuildClone == slot' = None /\ cache' = Built

-----------------------------------------------------------------------------
(* Pushing.                                                                *)

(* should_push with effective_push_interval: the most urgent subscriber    *)
(* decides.                                                                *)
IntervalElapsed == \/ subs = {} /\ age > 0
                   \/ \E c \in subs : age > prio[c]

Congested(c) == Len(wire[c]) >= HighWater

Frame(kind, v) == [kind |-> kind, v |-> v]

Pushed(to) ==
    [c \in Clients |-> IF c \in to THEN Append(wire[c], Frame("snapshot", Built))
                       ELSE wire[c]]

(* A flush that waits for something new, as phase 2b does.                 *)
TrailingEdgeFlushOfNew ==
    /\ phase = "events"
    /\ phase' = "flushed"
    /\ LET deferred == pending \cap subs
           sendable == {c \in deferred : ~Congested(c)}
       IN  IF slot = None \/ sendable = {} \/ ~IntervalElapsed
           THEN UNCHANGED <<pending, slot, cache, wire, age>>
           ELSE /\ BuildClone
                /\ wire' = Pushed(sendable)
                /\ pending' = deferred \ sendable
                /\ age' = 0
    /\ UNCHANGED <<paneVars, asker, subs, prio, requests, client, published,
                   passed, outputs, ops>>

(* trailing_edge_flush, for the pane's entry of pending_push.              *)
TrailingEdgeFlush ==
    /\ phase = "events"
    /\ phase' = "flushed"
    /\ LET deferred == pending \cap subs
           sendable == {c \in deferred : ~Congested(c)}
       IN  IF pending = {} \/ ~IntervalElapsed
           THEN UNCHANGED <<pending, slot, cache, wire, age>>
           ELSE IF sendable = {}
           THEN pending' = deferred /\ UNCHANGED <<slot, cache, wire, age>>
           ELSE /\ BuildClone
                /\ wire' = Pushed(sendable)
                /\ pending' = deferred \ sendable
                /\ age' = 0
    /\ UNCHANGED <<paneVars, asker, subs, prio, requests, client, published,
                   passed, outputs, ops>>

(* A push that gives up on the clients above the high-water mark.          *)
PushFreshDropsCongested ==
    /\ phase = "flushed"
    /\ phase' = "events"
    /\ LET ready == {c \in subs : ~Congested(c)}
       IN  IF slot = None \/ subs = {}
           THEN UNCHANGED <<pending, slot, cache, wire, age>>
           ELSE IF IntervalElapsed
           THEN BuildClone /\ wire' = Pushed(ready) /\ age' = 0 /\ UNCHANGED pending
           ELSE pending' = pending \cup subs /\ UNCHANGED <<slot, cache, wire, age>>
    /\ UNCHANGED <<paneVars, asker, subs, prio, requests, client, published,
                   passed, outputs, ops>>

(* drain_mux_events, phase 2b: push_or_defer_pane for a pane with a new    *)
(* snapshot.  A client that is served is not taken out of pending_push.    *)
PushFresh ==
    /\ phase = "flushed"
    /\ phase' = "events"
    /\ LET ready == {c \in subs : ~Congested(c)}
       IN  IF slot = None \/ subs = {}
           THEN UNCHANGED <<pending, slot, cache, wire, age>>
           ELSE IF IntervalElapsed
           THEN /\ BuildClone
                /\ wire' = Pushed(ready)
                /\ pending' = pending \cup (subs \ ready)
                /\ age' = 0
           ELSE pending' = pending \cup subs /\ UNCHANGED <<slot, cache, wire, age>>
    /\ UNCHANGED <<paneVars, asker, subs, prio, requests, client, published,
                   passed, outputs, ops>>

Tick ==
    /\ age < 3
    /\ age' = age + 1
    /\ UNCHANGED <<paneVars, slot, serverVars, cache, wire, requests, client,
                   published, passed, outputs, ops>>

-----------------------------------------------------------------------------
(* Requests.                                                               *)

(* handle_decoded_frame takes the next request of client c.                *)
Receive(c, kind) ==
    /\ phase = "events"
    /\ requests[c] # <<>>
    /\ Head(requests[c]).kind = kind
    /\ requests' = [requests EXCEPT ![c] = Tail(@)]
    /\ UNCHANGED <<version, ioDirty, sync, age, client, published, passed, outputs, ops>>

Reply(c, kind, v) == wire' = [wire EXCEPT ![c] = Append(@, Frame(kind, v))]

HandleSubscribe(c) ==
    /\ Receive(c, "subscribe")
    /\ subs' = subs \cup {c}
    /\ Reply(c, "subscribed", Built)
    /\ BuildAndTake
    /\ UNCHANGED <<cmds, phase, asker, pending, prio>>

(* Unsubscribe.                                                            *)
HandleUnsubscribe(c) ==
    /\ Receive(c, "unsubscribe")
    /\ subs' = subs \ {c}
    /\ pending' = pending \ {c}
    /\ prio' = [prio EXCEPT ![c] = 0]
    /\ Reply(c, "unsubscribed", None)
    /\ UNCHANGED <<cmds, slot, phase, asker, cache>>

HandleSetPanePriority(c) ==
    /\ Receive(c, "priority")
    /\ prio' = [prio EXCEPT ![c] = Head(requests[c]).arg]
    /\ UNCHANGED <<cmds, slot, phase, asker, cache, subs, pending, wire>>

(* A request that is passed on to the IO thread and not answered.          *)
HandleCommand(c, cmd) ==
    /\ Receive(c, cmd)
    /\ cmds' = Append(cmds, cmd)
    /\ UNCHANGED <<slot, serverVars, cache, wire>>

(* The answer is built without the barrier.                                *)
HandleGetPaneSnapshotAtOnce(c) ==
    /\ Receive(c, "get")
    /\ Reply(c, "resp", Built)
    /\ BuildAndTake
    /\ UNCHANGED <<cmds, serverVars>>

(* GetPaneSnapshot: the daemon waits for the IO thread to pass a barrier,  *)
(* for half a second at most.                                              *)
HandleGetPaneSnapshot(c) ==
    /\ Receive(c, "get")
    /\ cmds' = Append(cmds, "snapshotNow")
    /\ phase' = "barrier"
    /\ asker' = c
    /\ UNCHANGED <<slot, cache, subs, pending, prio, wire>>

BarrierPassed ==
    /\ phase = "barrier"
    /\ ~\E i \in DOMAIN cmds : cmds[i] = "snapshotNow"
    /\ phase' = "events"
    /\ asker' = None
    /\ Reply(asker, "resp", Built)
    /\ BuildAndTake
    /\ UNCHANGED <<paneVars, subs, pending, prio, age, requests, client,
                   published, passed, outputs, ops>>

(* The IO thread will find the receiver of its acknowledgement gone.       *)
BarrierTimesOut ==
    /\ phase = "barrier"
    /\ \E i \in DOMAIN cmds : cmds[i] = "snapshotNow"
    /\ phase' = "events"
    /\ asker' = None
    /\ cmds' = [i \in DOMAIN cmds |->
                  IF cmds[i] = "snapshotNow" THEN "orphan" ELSE cmds[i]]
    /\ Reply(asker, "error", None)
    /\ UNCHANGED <<version, ioDirty, sync, slot, subs, pending, prio, cache, age,
                   requests, client, published, passed, outputs, ops>>

-----------------------------------------------------------------------------
(* The pane's IO thread.                                                   *)

Publish(v) == slot' = v /\ published' = v

(* handle_bytes: a chunk may end inside an update or outside, and leaves   *)
(* grid_dirty alone if it ends inside.                                     *)
IoOutput ==
    /\ outputs > 0
    /\ outputs' = outputs - 1
    /\ version' = version + 1
    /\ sync' \in BOOLEAN
    /\ ioDirty' = (ioDirty \/ ~sync')
    /\ UNCHANGED <<cmds, slot, serverVars, cache, age, wire, requests, client,
                   published, passed, ops>>

(* SnapshotNow publishes only what is marked.                              *)
IoCommandUnforced ==
    /\ cmds # <<>>
    /\ cmds' = Tail(cmds)
    /\ version' = IF Head(cmds) = "mutate" THEN version + 1 ELSE version
    /\ IF Head(cmds) \in {"snapshotNow", "orphan"} /\ ~sync /\ ioDirty
       THEN Publish(version) /\ ioDirty' = FALSE
       ELSE /\ ioDirty' = (ioDirty \/ Head(cmds) \in {"mutate", "markDirty"})
            /\ UNCHANGED <<slot, published>>
    /\ passed' = IF Head(cmds) = "snapshotNow" THEN [at |-> version, held |-> sync]
                                               ELSE passed
    /\ UNCHANGED <<sync, serverVars, cache, age, wire, requests, client, outputs, ops>>

(* Every command marks the grid.  SnapshotNow is acknowledged also when an *)
(* open update holds back the publication it asked for.                    *)
IoCommand ==
    /\ cmds # <<>>
    /\ cmds' = Tail(cmds)
    /\ version' = IF Head(cmds) = "mutate" THEN version + 1 ELSE version
    /\ IF Head(cmds) \in {"snapshotNow", "orphan"} /\ ~sync
       THEN Publish(version) /\ ioDirty' = FALSE
       ELSE ioDirty' = TRUE /\ UNCHANGED <<slot, published>>
    /\ passed' = IF Head(cmds) = "snapshotNow" THEN [at |-> version, held |-> sync]
                                               ELSE passed
    /\ UNCHANGED <<sync, serverVars, cache, age, wire, requests, client, outputs, ops>>

IoPublish ==
    /\ ioDirty /\ ~sync
    /\ ioDirty' = FALSE
    /\ Publish(version)
    /\ UNCHANGED <<version, sync, cmds, serverVars, cache, age, wire, requests,
                   client, passed, outputs, ops>>

(* handle_sync_timeout.                                                    *)
SyncTimesOut ==
    /\ sync
    /\ sync' = FALSE
    /\ ioDirty' = FALSE
    /\ Publish(version)
    /\ UNCHANGED <<version, cmds, serverVars, cache, age, wire, requests, client,
                   passed, outputs, ops>>

-----------------------------------------------------------------------------
(* The clients.                                                            *)

Request(kind, arg) == [kind |-> kind, arg |-> arg]

Send(c, r) == requests' = [requests EXCEPT ![c] = Append(@, r)]

Attached(c) == client[c].shown # None

ClientFrame ==
    UNCHANGED <<paneVars, slot, serverVars, cache, age, published, passed, outputs>>

(* Subscribe is an RPC: the main thread waits for the answer.              *)
Subscribe(c) ==
    /\ ~client[c].waiting /\ ~Attached(c)
    /\ Send(c, Request("subscribe", None))
    /\ client' = [client EXCEPT ![c].waiting = TRUE]
    /\ UNCHANGED <<wire, ops>>
    /\ ClientFrame

Spend(op) == op \in Ops /\ ops > 0 /\ ops' = ops - 1

(* unsubscribe and sync_pane_snapshot, which are RPCs as well.             *)
Rpc(c, op) ==
    /\ ~client[c].waiting /\ Attached(c)
    /\ Spend(op)
    /\ Send(c, Request(op, None))
    /\ client' = [client EXCEPT ![c].waiting = TRUE]
    /\ UNCHANGED wire
    /\ ClientFrame

SetPanePriority(c) ==
    /\ ~client[c].waiting /\ Attached(c)
    /\ Spend("priority")
    /\ \E p \in Priorities : Send(c, Request("priority", p))
    /\ UNCHANGED <<wire, client>>
    /\ ClientFrame

(* resize_pane_grid, scroll_display, set_pane_theme, ...: sent and not     *)
(* awaited; a snapshot pushed before is not to be drawn any more.          *)
Mutate(c) ==
    /\ ~client[c].waiting /\ Attached(c)
    /\ Spend("mutate")
    /\ Send(c, Request("mutate", None))
    /\ client' = [client EXCEPT ![c].pushed = None, ![c].dirty = TRUE]
    /\ UNCHANGED wire
    /\ ClientFrame

(* remove_snapshot leaves the pushed snapshot behind.                      *)
ReceivedLeavesPushed(k, f) ==
    CASE f.kind = "snapshot"     -> [k EXCEPT !.pushed = f.v, !.notified = TRUE]
      [] f.kind = "unsubscribed" -> [k EXCEPT !.shown = None, !.waiting = FALSE]
      [] OTHER                   -> [k EXCEPT !.shown = f.v, !.waiting = FALSE]

(* The reader thread, and the end of the RPC whose answer it reads.        *)
Received(k, f) ==
    CASE f.kind = "snapshot"     -> [k EXCEPT !.pushed = f.v, !.notified = TRUE]
      [] f.kind = "subscribed"   -> [k EXCEPT !.shown = f.v, !.waiting = FALSE]
      [] f.kind = "resp"         -> [k EXCEPT !.shown = f.v, !.waiting = FALSE,
                                              !.refresh = FALSE]
      [] f.kind = "unsubscribed" -> [k EXCEPT !.shown = None, !.waiting = FALSE,
                                              !.dirty = FALSE, !.refresh = FALSE,
                                              !.pushed = None]
      [] OTHER                   -> [k EXCEPT !.waiting = FALSE]

Read(c) ==
    /\ wire[c] # <<>>
    /\ wire' = [wire EXCEPT ![c] = Tail(@)]
    /\ client' = [client EXCEPT ![c] = Received(@, Head(wire[c]))]
    /\ UNCHANGED <<requests, ops>>
    /\ ClientFrame

(* poll_events.                                                            *)
PollEvents(c) ==
    /\ ~client[c].waiting /\ client[c].notified
    /\ client' = [client EXCEPT ![c].notified = FALSE, ![c].dirty = TRUE]
    /\ UNCHANGED <<wire, requests, ops>>
    /\ ClientFrame

(* A redraw of a dirty pane: refresh_pane_snapshot takes what was pushed,  *)
(* or asks for a push, once, and leaves the pane dirty until it comes.     *)
(* The redraw may take a snapshot whose notification is still to be seen,  *)
(* which then makes the pane dirty again.                                  *)
Redraw(c) ==
    /\ ~client[c].waiting /\ Attached(c) /\ client[c].dirty
    /\ \/ /\ client[c].pushed # None
          /\ client' = [client EXCEPT ![c].shown = client[c].pushed,
                          ![c].pushed = None, ![c].refresh = FALSE, ![c].dirty = FALSE]
          /\ UNCHANGED requests
       \/ /\ client[c].pushed = None /\ ~client[c].refresh
          /\ client' = [client EXCEPT ![c].refresh = TRUE]
          /\ Send(c, Request("markDirty", None))
    /\ IF client[c].notified THEN ops > 0 /\ ops' = ops - 1 ELSE UNCHANGED ops
    /\ UNCHANGED wire
    /\ ClientFrame

-----------------------------------------------------------------------------
Init ==
    /\ version = 0 /\ cmds = <<>> /\ slot = None
    /\ ioDirty = (Joined = {}) /\ sync = FALSE
    /\ published = IF Joined = {} THEN None ELSE 0
    /\ passed = None
    /\ phase = "events" /\ asker = None
    /\ cache = IF Joined = {} THEN Blank ELSE 0
    /\ subs = Joined /\ pending = {}
    /\ prio = [c \in Clients |-> 0]
    /\ age = 3
    /\ wire = [c \in Clients |-> <<>>]
    /\ requests = [c \in Clients |-> <<>>]
    /\ client = [c \in Clients |->
                   [shown |-> IF c \in Joined THEN 0 ELSE None, pushed |-> None,
                    notified |-> FALSE, dirty |-> FALSE, refresh |-> FALSE,
                    waiting |-> FALSE]]
    /\ outputs = MaxOutput /\ ops = MaxOps

Handle(c) == \/ HandleSubscribe(c) \/ HandleUnsubscribe(c)
             \/ HandleSetPanePriority(c) \/ HandleGetPaneSnapshot(c)
             \/ HandleCommand(c, "mutate") \/ HandleCommand(c, "markDirty")

Drain == TrailingEdgeFlush \/ PushFresh

Next ==
    \/ IoOutput \/ IoCommand \/ IoPublish \/ SyncTimesOut
    \/ Drain \/ Tick \/ BarrierPassed \/ BarrierTimesOut
    \/ \E c \in Clients :
         \/ Handle(c)
         \/ Subscribe(c) \/ Rpc(c, "get") \/ Rpc(c, "unsubscribe")
         \/ SetPanePriority(c) \/ Mutate(c)
         \/ Read(c) \/ PollEvents(c) \/ Redraw(c)

Spec == Init /\ [][Next]_vars

(* The daemon's poll returns after 100 ms at the latest, so every turn of  *)
(* its loop comes, and a turn handles every readable client before it      *)
(* drains (hence SF: in the middle of a drain nothing is handled); the IO  *)
(* thread and the clients' threads run; time goes on, and output that is   *)
(* bounded lets a synchronized update time out.  Nobody has to write, ask  *)
(* or subscribe.                                                           *)
Fairness ==
    /\ WF_vars(IoCommand) /\ WF_vars(IoPublish) /\ WF_vars(SyncTimesOut)
    /\ WF_vars(Drain) /\ WF_vars(Tick) /\ WF_vars(BarrierPassed)
    /\ \A c \in Clients : /\ SF_vars(Handle(c)) /\ WF_vars(Read(c))
                          /\ WF_vars(PollEvents(c)) /\ WF_vars(Redraw(c))

FairSpec == Spec /\ Fairness

-----------------------------------------------------------------------------
(* Properties.                                                             *)

Snapshots == Nat \cup {Blank}
FrameKinds == {"snapshot", "subscribed", "resp", "unsubscribed", "error"}
RequestKinds == {"subscribe", "unsubscribe", "priority", "get", "mutate", "markDirty"}

TypeOK ==
    /\ version \in Nat /\ ioDirty \in BOOLEAN /\ sync \in BOOLEAN
    /\ cmds \in Seq({"mutate", "markDirty", "snapshotNow", "orphan"})
    /\ slot \in Nat \cup {None} /\ published \in Nat \cup {None}
    /\ passed \in [at : Nat, held : BOOLEAN] \cup {None}
    /\ phase \in {"events", "flushed", "barrier"}
    /\ asker \in Clients \cup {None}
    /\ phase = "barrier" <=> asker # None
    /\ cache \in Snapshots
    /\ subs \subseteq Clients /\ pending \subseteq Clients
    /\ prio \in [Clients -> Priorities] /\ age \in 0..3
    /\ wire \in [Clients -> Seq([kind : FrameKinds, v : Snapshots \cup {None}])]
    /\ requests \in [Clients -> Seq([kind : RequestKinds, arg : Priorities \cup {None}])]
    /\ client \in [Clients -> [shown : Snapshots \cup {None},
                               pushed : Snapshots \cup {None},
                               notified : BOOLEAN, dirty : BOOLEAN, refresh : BOOLEAN,
                               waiting : BOOLEAN]]
    /\ outputs \in 0..MaxOutput /\ ops \in 0..MaxOps

(* The newest published snapshot is somewhere on the way to every          *)
(* subscriber: drawn, parked by its reader with a mark that makes the main *)
(* thread look, on its connection, in the buffer, or owed to it by the     *)
(* deferred set.  What push_or_defer_pane and trailing_edge_flush are for. *)
OnItsWay(c) ==
    \/ slot # None
    \/ c \in pending
    \/ client[c].shown = published
    \/ client[c].pushed = published /\ (client[c].dirty \/ client[c].notified)
    \/ client[c].refresh
    \/ \E i \in DOMAIN wire[c] : wire[c][i].v = published
    \/ \E i \in DOMAIN requests[c] : requests[c][i].kind \in {"mutate", "markDirty"}
    \/ cmds # <<>> \/ ioDirty

UpdateReachesSubscriber ==
    published # None => \A c \in subs : OnItsWay(c)

(* Once the pane is quiet, every subscriber draws what the terminal shows. *)
(* It takes the throttle, the high-water mark, the deferred set and the    *)
(* client's refresh to go well together.                                   *)
ScreenCatchesUp ==
    \A c \in Clients :
        <>[](c \in subs /\ Attached(c) => client[c].shown = version)

(* Nobody has got an answer to a GetPaneSnapshot yet: an answer overtakes  *)
(* what is parked, and takes the entry that the next push is cloned from.  *)
NoAnswerYet == passed = None

(* A client never goes back to older content: pushes and the answers to    *)
(* Subscribe are drawn in the order in which the pane had what they show.  *)
NeverRegresses ==
    [][\A c \in Clients :
         LET old == client[c].shown
             new == client'[c].shown
         IN  NoAnswerYet /\ old \in Nat /\ new \in Nat => new >= old]_vars

(* A client that draws content is never given an empty snapshot instead:   *)
(* the entry that the answer to a Subscribe emptied is not pushed.         *)
NeverBlanked ==
    [][\A c \in Clients :
         NoAnswerYet /\ client[c].shown \in Nat => client'[c].shown # Blank]_vars

(* A step queues an answer to a GetPaneSnapshot for client c: this one.    *)
Answers(c) == Len(wire'[c]) > Len(wire[c]) /\ wire'[c][Len(wire'[c])].kind = "resp"
Answer(c)  == wire'[c][Len(wire'[c])].v

(* GetPaneSnapshot answers with all that the terminal showed at the        *)
(* barrier, so with the effect of every command sent before it, unless a   *)
(* synchronized update was open there: then with the last publication,     *)
(* however old, or with the empty entry that the last answer left behind.  *)
GetIsFreshUnlessHeld ==
    [][\A c \in Clients : Answers(c) =>
         /\ passed # None
         /\ IF passed.held THEN Answer(c) \in {published, Blank}
                           ELSE Answer(c) \in Nat /\ Answer(c) >= passed.at]_vars

(* "guaranteed-fresh or error", the wire contract.  The code does not keep *)
(* it inside a synchronized update, and it is not checked.                 *)
GetIsFresh ==
    [][\A c \in Clients : Answers(c) =>
         passed # None /\ Answer(c) \in Nat /\ Answer(c) >= passed.at]_vars

(* Only subscribers are owed a push between two requests: the deferred set *)
(* does not survive an Unsubscribe.                                        *)
DeferredAreSubscribed == pending \subseteq subs

(* "Subscribe to a pane's output. Returns current snapshot."  The answer   *)
(* queued for a pane that has published something is not the empty one.    *)
(* The code does not keep this (a second subscriber of a quiet pane gets   *)
(* the entry the first one emptied), and it is not checked.                *)
SubscribeReturnsCurrent ==
    [][\A c \in Clients :
         LET last == wire'[c][Len(wire'[c])]
         IN  Len(wire'[c]) > Len(wire[c]) /\ last.kind = "subscribed" /\ published # None
               => last.v # Blank]_vars
=============================================================================
