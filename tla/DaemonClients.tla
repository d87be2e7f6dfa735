---------------------------- MODULE DaemonClients ----------------------------
(***************************************************************************)
(* The daemon's side of a connection: accepting a client, handling its     *)
(* requests about panes, routing what the panes' threads report, losing    *)
(* the client, and deciding to exit.  One thread does all of it, in turns: *)
(* readable connections, then the mux events, then the connections that    *)
(* became readable meanwhile, then the exit check.  Clients are processes  *)
(* of their own that block in an RPC, answer host requests (clipboard,     *)
(* colours) and may end at any moment.                                     *)
(*                                                                         *)
(* Frames travel in order and are records; what a pane shows is in         *)
(* SnapshotPush and its images in ImageDelivery.  ClientId, PaneId and     *)
(* HostRequestId come from allocators that never give out an id twice, so  *)
(* a client that comes back is another element of Clients.                 *)
(***************************************************************************)
EXTENDS Naturals, Sequences, FiniteSets

CONSTANTS
    MaxClients,   \* connections ever made
    MaxPanes,     \* panes ever spawned
    MaxRequests,  \* host requests ever made
    MaxOps,       \* what the clients ask for of their own accord
    Ops           \* the kinds of it

OpKinds == {"spawn", "close", "subscribe", "unsubscribe", "focus", "hide",
            "shutdown"}

ASSUME DaemonAssumption ==
    /\ MaxClients \in Nat /\ MaxPanes \in Nat
    /\ MaxRequests \in Nat /\ MaxOps \in Nat
    /\ Ops \subseteq OpKinds

Clients  == 1..MaxClients
Panes    == 1..MaxPanes
Frame(op, arg) == [op |-> op, arg |-> arg]
NoRpc == Frame("none", 0)

VARIABLES
    (* the clients' processes and their sockets *)
    app,            \* "new", "up" or "gone"
    rpc,            \* the request a client is blocked in
    shown,          \* the panes in a client's session
    asked,          \* pending_replies: host requests a client has to answer
    inbox, outbox,  \* frames to, and from, the daemon
    backlog,        \* connections the listener has not accepted
    (* the panes' threads *)
    children,       \* panes whose child runs
    events,         \* the MuxEvent channel
    (* the daemon *)
    phase,          \* "poll", "events", "route", "again" or "stopped"
    connections, had_client, graceOver, shutdown,
    subscribed,     \* subscribed_panes of each connection
    priorities,     \* pane_priorities of each connection; 0 when unset
    subscriptions,  \* the daemon's own map, from panes to clients
    panes, registry, nextPane,
    notifications,  \* of InProcessMux
    notification_buf, scratch_pane_closed,
    pending,        \* pending_host_replies
    nextRequest,
    (* history, and the bound on it *)
    killed,         \* the panes somebody closed with ClosePane
    kept,           \* the panes subscribed to since anybody let go of them
    requested, ops

clientVars == <<app, rpc, shown, asked, outbox>>
paneVars   == <<panes, registry, notifications>>
subVars    == <<subscribed, priorities, subscriptions, pending>>
loopVars   == <<phase, notification_buf, scratch_pane_closed>>
exitVars   == <<connections, had_client, graceOver, shutdown>>
idVars     == <<nextPane, nextRequest, killed, kept>>
worldVars  == <<children, events, requested, ops>>
vars == <<clientVars, inbox, backlog, paneVars, subVars, loopVars, exitVars,
          idVars, worldVars>>

-----------------------------------------------------------------------------
(* The panes' threads.                                                     *)

(* The child of p ends and the IO thread reports it.                       *)
ChildExits(p) ==
    /\ p \in children
    /\ children' = children \ {p}
    /\ events' = Append(events, Frame("exited", p))
    /\ UNCHANGED <<clientVars, inbox, backlog, paneVars, subVars, loopVars,
                   exitVars, idVars, requested, ops>>

(* The program in p asks for the clipboard or a colour; output may still   *)
(* be parsed after the child has ended.                                    *)
AsksHost(p) ==
    /\ p \in panes \cup children
    /\ requested < MaxRequests
    /\ requested' = requested + 1
    /\ events' = Append(events, Frame("host", p))
    /\ UNCHANGED <<clientVars, inbox, backlog, paneVars, subVars, loopVars,
                   exitVars, idVars, children, ops>>

-----------------------------------------------------------------------------
(* The clients.                                                            *)

(* connect, with the Hello of its handshake on the way.                    *)
Connect(c) ==
    /\ app[c] = "new"
    /\ \A d \in Clients : d < c => app[d] # "new"
    /\ app' = [app EXCEPT ![c] = "up"]
    /\ rpc' = [rpc EXCEPT ![c] = Frame("hello", 0)]
    /\ inbox' = [inbox EXCEPT ![c] = <<Frame("hello", 0)>>]
    /\ backlog' = Append(backlog, c)
    /\ UNCHANGED <<shown, asked, outbox, paneVars, subVars, loopVars, exitVars,
                   idVars, worldVars>>

Send(c, f) == inbox' = [inbox EXCEPT ![c] = Append(@, f)]

(* An RPC, in which the caller blocks, or a fire-and-forget request.  The  *)
(* one who asks for the shutdown is the stop command, which has no panes.  *)
Ask(c, op, p) ==
    /\ app[c] = "up" /\ rpc[c] = NoRpc
    /\ op \in Ops /\ ops < MaxOps
    /\ op \in {"close", "unsubscribe", "focus", "hide"} => p \in shown[c]
    /\ op = "subscribe" => p < nextPane /\ p \notin shown[c]
    /\ op \in {"spawn", "shutdown"} => p = 1
    /\ op = "shutdown" => shown[c] = {}
    /\ ops' = ops + 1
    /\ Send(c, Frame(op, p))
    /\ rpc' = IF op \in {"focus", "hide"} THEN rpc
              ELSE [rpc EXCEPT ![c] = Frame(op, p)]
    /\ UNCHANGED <<app, shown, asked, outbox, backlog, paneVars, subVars,
                   loopVars, exitVars, idVars, children, events, requested>>

(* What the blocked caller does with an answer: spawn_pane goes on to      *)
(* subscribe, and closes the pane again when that fails.                   *)
Answered(c, f) ==
    /\ UNCHANGED asked
    /\ \/ /\ f.op = "spawned"
          /\ rpc' = [rpc EXCEPT ![c] = Frame("join", f.arg)]
          /\ Send(c, Frame("subscribe", f.arg))
          /\ UNCHANGED shown
       \/ /\ f.op = "error" /\ rpc[c].op = "join"
          /\ rpc' = [rpc EXCEPT ![c] = Frame("close", rpc[c].arg)]
          /\ Send(c, Frame("close", rpc[c].arg))
          /\ UNCHANGED shown
       \/ /\ f.op = "error" /\ rpc[c].op # "join"
          /\ rpc' = [rpc EXCEPT ![c] = NoRpc]
          /\ UNCHANGED <<inbox, shown>>
       \/ /\ f.op = "ok"
          /\ rpc' = [rpc EXCEPT ![c] = NoRpc]
          /\ shown' = [shown EXCEPT ![c] =
                         IF rpc[c].op \in {"join", "subscribe"} THEN @ \cup {rpc[c].arg}
                         ELSE @ \ {rpc[c].arg}]
          /\ UNCHANGED inbox

(* The reader thread, and the main thread handling what it passed on.      *)
Receive(c) ==
    /\ app[c] = "up" /\ outbox[c] # <<>>
    /\ outbox' = [outbox EXCEPT ![c] = Tail(@)]
    /\ LET f == Head(outbox[c])
       IN  \/ f.op \in {"ok", "error", "spawned"} /\ Answered(c, f)
           \/ /\ f.op = "exited"
              /\ shown' = [shown EXCEPT ![c] = @ \ {f.arg}]
              /\ UNCHANGED <<rpc, inbox, asked>>
           \/ /\ f.op = "host"
              /\ asked' = [asked EXCEPT ![c] = @ \cup {f.arg}]
              /\ UNCHANGED <<rpc, inbox, shown>>
    /\ UNCHANGED <<app, backlog, paneVars, subVars, loopVars, exitVars, idVars,
                   worldVars>>

(* fulfill_host_request, fire-and-forget.                                  *)
Fulfill(c, r) ==
    /\ app[c] = "up" /\ r \in asked[c]
    /\ asked' = [asked EXCEPT ![c] = @ \ {r}]
    /\ Send(c, Frame("reply", r))
    /\ UNCHANGED <<app, rpc, shown, outbox, backlog, paneVars, subVars,
                   loopVars, exitVars, idVars, worldVars>>

(* The process ends, or is killed; its socket closes.                      *)
Leave(c) ==
    /\ app[c] = "up"
    /\ app' = [app EXCEPT ![c] = "gone"]
    /\ rpc' = [rpc EXCEPT ![c] = NoRpc]
    /\ shown' = [shown EXCEPT ![c] = {}]
    /\ asked' = [asked EXCEPT ![c] = {}]
    /\ outbox' = [outbox EXCEPT ![c] = <<>>]
    /\ UNCHANGED <<inbox, backlog, paneVars, subVars, loopVars, exitVars,
                   idVars, worldVars>>

-----------------------------------------------------------------------------
(* What the daemon's operations are made of.                               *)

Orders(S) == {s \in [1..Cardinality(S) -> S] :
                \A i, j \in 1..Cardinality(S) : s[i] = s[j] => i = j}

(* InProcessMux::close_pane for the panes of ps: the ones still registered *)
(* are announced, in the order of a hash set.                              *)
CloseInMux(ps) ==
    /\ registry' = registry \ ps
    /\ \E order \in Orders(ps \cap registry) :
         notifications' = notifications \o
                            [i \in DOMAIN order |-> Frame("closed", order[i])]

(* cleanup_pane_state for each pane of ps.                                 *)
CleanupPaneState(ps) ==
    /\ subscriptions' = [p \in Panes |-> IF p \in ps THEN {} ELSE subscriptions[p]]
    /\ subscribed' = [c \in Clients |-> subscribed[c] \ ps]
    /\ priorities' = [c \in Clients |-> [p \in Panes |->
                        IF p \in ps THEN 0 ELSE priorities[c][p]]]
    /\ pending' = {r \in pending : r.pane \notin ps}

(* sync_subscriptions after the subscriptions of c became ps.              *)
SyncSubscriptions(c, ps) ==
    subscriptions' = [p \in Panes |-> IF p \in ps THEN subscriptions[p] \cup {c}
                                      ELSE subscriptions[p] \ {c}]

Queue(c, f) == outbox' = [outbox EXCEPT ![c] =
                            IF app[c] = "gone" THEN @ ELSE Append(@, f)]

Serving == phase \in {"poll", "again"}

-----------------------------------------------------------------------------
(* Connections.                                                            *)

(* accept_connections.                                                     *)
Accept ==
    /\ Serving /\ backlog # <<>>
    /\ backlog' = Tail(backlog)
    /\ connections' = connections \cup {Head(backlog)}
    /\ had_client' = TRUE
    /\ UNCHANGED <<clientVars, inbox, paneVars, subVars, loopVars, graceOver,
                   shutdown, idVars, worldVars>>

(* A disconnection that closes whatever the client was subscribed to.      *)
DisconnectClientClosesAll(c) ==
    /\ connections' = connections \ {c}
    /\ CloseInMux(subscribed[c])
    /\ panes' = panes \ subscribed[c]
    /\ subscriptions' = [p \in Panes |-> IF p \in subscribed[c] THEN {}
                                         ELSE subscriptions[p]]
    /\ subscribed' = [d \in Clients |-> subscribed[d] \ subscribed[c]]
    /\ priorities' = [priorities EXCEPT ![c] = [p \in Panes |-> 0]]
    /\ pending' = {r \in pending : r.pane \notin subscribed[c] /\ r.responder # c}

(* A disconnection that closes nothing.                                    *)
DisconnectClientClosesNone(c) ==
    /\ connections' = connections \ {c}
    /\ subscriptions' = [p \in Panes |-> subscriptions[p] \ {c}]
    /\ subscribed' = [subscribed EXCEPT ![c] = {}]
    /\ priorities' = [priorities EXCEPT ![c] = [p \in Panes |-> 0]]
    /\ pending' = {r \in pending : r.responder # c}
    /\ UNCHANGED paneVars

(* disconnect_client: the panes nobody else is subscribed to are closed.   *)
DisconnectClient(c) ==
    LET orphans == {p \in subscribed[c] : subscriptions[p] \ {c} = {}}
    IN  /\ connections' = connections \ {c}
        /\ CloseInMux(orphans)
        /\ panes' = panes \ orphans
        /\ subscriptions' = [p \in Panes |-> IF p \in orphans THEN {}
                               ELSE IF p \in subscribed[c] THEN subscriptions[p] \ {c}
                               ELSE subscriptions[p]]
        /\ subscribed' = [d \in Clients |-> IF d = c THEN {} ELSE subscribed[d] \ orphans]
        /\ priorities' = [d \in Clients |-> [p \in Panes |->
                            IF d = c \/ p \in orphans THEN 0 ELSE priorities[d][p]]]
        /\ pending' = {r \in pending : r.pane \notin orphans /\ r.responder # c}

(* handle_client_event finds the end of the stream, or a write to it       *)
(* fails.  What was read together with the end is not looked at.           *)
ClientEnds(c) ==
    /\ Serving /\ c \in connections /\ app[c] = "gone"
    /\ inbox' = [inbox EXCEPT ![c] = <<>>]
    /\ DisconnectClient(c)
    /\ UNCHANGED <<clientVars, backlog, loopVars, had_client, graceOver,
                   shutdown, idVars, worldVars>>

-----------------------------------------------------------------------------
(* Requests.  f is the frame being dispatched for c.                       *)

(* Hello; Ping and the queries that change nothing are like it.            *)
DispatchHello(c, f) ==
    /\ f.op = "hello"
    /\ Queue(c, Frame("ok", 0))
    /\ UNCHANGED <<paneVars, subVars, shutdown, idVars, children>>

(* SpawnPane, which may fail.                                              *)
DispatchSpawnPane(c, f) ==
    /\ f.op = "spawn"
    /\ \/ /\ nextPane <= MaxPanes
          /\ nextPane' = nextPane + 1
          /\ panes' = panes \cup {nextPane}
          /\ registry' = registry \cup {nextPane}
          /\ children' = children \cup {nextPane}
          /\ Queue(c, Frame("spawned", nextPane))
       \/ /\ Queue(c, Frame("error", 0))
          /\ UNCHANGED <<panes, registry, children, nextPane>>
    /\ UNCHANGED <<notifications, subVars, shutdown, nextRequest, killed, kept>>

(* ClosePane, with purge_closed_pane_subscriptions after the dispatch.     *)
DispatchClosePane(c, f) ==
    /\ f.op = "close"
    /\ CloseInMux({f.arg})
    /\ panes' = panes \ {f.arg}
    /\ killed' = killed \cup {f.arg}
    /\ CleanupPaneState({f.arg})
    /\ Queue(c, Frame("ok", 0))
    /\ UNCHANGED <<shutdown, nextPane, nextRequest, kept, children>>

(* Subscribe: the connection is subscribed before the pane is looked up.   *)
DispatchSubscribe(c, f) ==
    /\ f.op = "subscribe"
    /\ subscribed' = [subscribed EXCEPT ![c] = @ \cup {f.arg}]
    /\ SyncSubscriptions(c, subscribed[c] \cup {f.arg})
    /\ Queue(c, Frame(IF f.arg \in panes THEN "ok" ELSE "error", 0))
    /\ kept' = kept \cup {f.arg}
    /\ UNCHANGED <<paneVars, priorities, pending, shutdown, nextPane,
                   nextRequest, killed, children>>

(* An Unsubscribe that leaves the daemon's own map alone.                  *)
DispatchUnsubscribeUnsynced(c, f) ==
    /\ f.op = "unsubscribe"
    /\ subscribed' = [subscribed EXCEPT ![c] = @ \ {f.arg}]
    /\ priorities' = [priorities EXCEPT ![c][f.arg] = 0]
    /\ pending' = {r \in pending : ~(r.pane = f.arg /\ r.responder = c)}
    /\ Queue(c, Frame("ok", 0))
    /\ kept' = kept \ {f.arg}
    /\ UNCHANGED <<paneVars, subscriptions, shutdown, nextPane, nextRequest,
                   killed, children>>

(* Unsubscribe, which drops the host requests c was to answer.             *)
DispatchUnsubscribe(c, f) ==
    /\ f.op = "unsubscribe"
    /\ subscribed' = [subscribed EXCEPT ![c] = @ \ {f.arg}]
    /\ priorities' = [priorities EXCEPT ![c][f.arg] = 0]
    /\ SyncSubscriptions(c, subscribed[c] \ {f.arg})
    /\ pending' = {r \in pending : ~(r.pane = f.arg /\ r.responder = c)}
    /\ Queue(c, Frame("ok", 0))
    /\ kept' = kept \ {f.arg}
    /\ UNCHANGED <<paneVars, shutdown, nextPane, nextRequest, killed, children>>

(* SetPanePriority: 0 is the focused pane, 2 a hidden one.                 *)
DispatchSetPanePriority(c, f) ==
    /\ f.op \in {"focus", "hide"}
    /\ priorities' = [priorities EXCEPT ![c][f.arg] = IF f.op = "focus" THEN 0 ELSE 2]
    /\ UNCHANGED <<outbox, paneVars, subscribed, subscriptions, pending,
                   shutdown, idVars, children>>

(* ReplyHostRequest: an unknown request, or one routed to another client,  *)
(* is dropped.                                                             *)
DispatchReplyHostRequest(c, f) ==
    /\ f.op = "reply"
    /\ pending' = {r \in pending : ~(r.id = f.arg /\ r.responder = c)}
    /\ UNCHANGED <<outbox, paneVars, subscribed, priorities, subscriptions,
                   shutdown, idVars, children>>

(* Shutdown.                                                               *)
DispatchShutdown(c, f) ==
    /\ f.op = "shutdown"
    /\ shutdown' = TRUE
    /\ Queue(c, Frame("ok", 0))
    /\ UNCHANGED <<paneVars, subVars, idVars, children>>

(* handle_decoded_frame.  A response that cannot be written to a client    *)
(* that is gone is followed by ClientEnds.                                 *)
HandleDecodedFrame(c) ==
    /\ Serving /\ c \in connections /\ inbox[c] # <<>>
    /\ inbox' = [inbox EXCEPT ![c] = Tail(@)]
    /\ LET f == Head(inbox[c])
       IN  \/ DispatchHello(c, f)
           \/ DispatchSpawnPane(c, f)
           \/ DispatchClosePane(c, f)
           \/ DispatchSubscribe(c, f)
           \/ DispatchUnsubscribe(c, f)
           \/ DispatchSetPanePriority(c, f)
           \/ DispatchReplyHostRequest(c, f)
           \/ DispatchShutdown(c, f)
    /\ UNCHANGED <<app, rpc, shown, asked, backlog, loopVars, connections,
                   had_client, graceOver, events, requested, ops>>

-----------------------------------------------------------------------------
(* drain_mux_events.                                                       *)

(* The poll returns, after 100 ms at the latest.                           *)
BeginDrain ==
    /\ phase = "poll"
    /\ phase' = "events"
    /\ UNCHANGED <<clientVars, inbox, backlog, paneVars, subVars,
                   notification_buf, scratch_pane_closed, exitVars, idVars,
                   worldVars>>

(* poll_events takes one event: an exit closes the pane in the mux (and    *)
(* leaves it in panes), the rest is passed on.                             *)
PollEvent ==
    /\ phase = "events" /\ events # <<>>
    /\ events' = Tail(events)
    /\ LET e == Head(events)
       IN  \/ e.op = "exited" /\ CloseInMux({e.arg})
           \/ /\ e.op = "host"
              /\ notifications' = Append(notifications, e)
              /\ UNCHANGED registry
    /\ UNCHANGED <<clientVars, inbox, backlog, panes, subVars, loopVars,
                   exitVars, idVars, children, requested, ops>>

(* A collection that cleans up before the news is sent.                    *)
DrainNotificationsCleansUp ==
    /\ phase = "events" /\ events = <<>>
    /\ phase' = "route"
    /\ notification_buf' = notifications
    /\ notifications' = <<>>
    /\ scratch_pane_closed' = {}
    /\ CleanupPaneState({p \in Panes :
         \E i \in DOMAIN notifications : notifications[i] = Frame("closed", p)})
    /\ UNCHANGED <<clientVars, inbox, backlog, panes, registry, exitVars,
                   idVars, worldVars>>

(* drain_notifications, and the collection of the closed panes.            *)
DrainNotifications ==
    /\ phase = "events" /\ events = <<>>
    /\ phase' = "route"
    /\ notification_buf' = notifications
    /\ notifications' = <<>>
    /\ scratch_pane_closed' =
         {p \in Panes : \E i \in DOMAIN notifications : notifications[i] = Frame("closed", p)}
    /\ UNCHANGED <<clientVars, inbox, backlog, panes, registry, subVars,
                   exitVars, idVars, worldVars>>

(* select_responder: the lowest priority value, then the lowest ClientId.  *)
SelectResponder(p, c) ==
    /\ c \in subscriptions[p]
    /\ \A d \in subscriptions[p] \ {c} :
         \/ priorities[c][p] < priorities[d][p]
         \/ priorities[c][p] = priorities[d][p] /\ c < d

(* A request owed by the responder and sent to any of the subscribers.     *)
DispatchHostRequestMisrouted(p) ==
    IF subscriptions[p] = {}
    THEN UNCHANGED <<outbox, pending, nextRequest>>
    ELSE \E c, d \in subscriptions[p] :
           /\ SelectResponder(p, c)
           /\ nextRequest' = nextRequest + 1
           /\ Queue(d, Frame("host", nextRequest))
           /\ pending' = pending \cup {[id |-> nextRequest, pane |-> p, responder |-> c]}

(* dispatch_host_request_notification.  queue_frame may fail for a client  *)
(* that is gone, and then nothing is registered.                           *)
DispatchHostRequest(p) ==
    IF subscriptions[p] = {}
    THEN UNCHANGED <<outbox, pending, nextRequest>>
    ELSE \E c \in subscriptions[p] :
           /\ SelectResponder(p, c)
           /\ nextRequest' = nextRequest + 1
           /\ \/ /\ Queue(c, Frame("host", nextRequest))
                 /\ pending' = pending \cup {[id |-> nextRequest, pane |-> p, responder |-> c]}
              \/ app[c] = "gone" /\ UNCHANGED <<outbox, pending>>

(* The routing of one notification: PaneClosed goes to the subscribers.    *)
RouteNotification ==
    /\ phase = "route" /\ notification_buf # <<>>
    /\ notification_buf' = Tail(notification_buf)
    /\ LET n == Head(notification_buf)
       IN  \/ n.op = "host" /\ DispatchHostRequest(n.arg)
           \/ /\ n.op = "closed"
              /\ outbox' = [c \in Clients |->
                              IF c \in subscriptions[n.arg] /\ app[c] # "gone"
                              THEN Append(outbox[c], Frame("exited", n.arg))
                              ELSE outbox[c]]
              /\ UNCHANGED <<pending, nextRequest>>
    /\ UNCHANGED <<app, rpc, shown, asked, inbox, backlog, paneVars, subscribed,
                   priorities, subscriptions, phase, scratch_pane_closed,
                   exitVars, nextPane, killed, kept, worldVars>>

(* The post-pass over the closed panes ends the drain.                     *)
CleanupClosed ==
    /\ phase = "route" /\ notification_buf = <<>>
    /\ phase' = "again"
    /\ CleanupPaneState(scratch_pane_closed)
    /\ UNCHANGED <<clientVars, inbox, backlog, paneVars, notification_buf,
                   scratch_pane_closed, exitVars, idVars, worldVars>>

-----------------------------------------------------------------------------
(* The end.                                                                *)

(* The five seconds after the start are found to be over; should_exit asks *)
(* only when it sees no client.                                            *)
GraceEnds ==
    /\ had_client /\ connections = {}
    /\ ~graceOver /\ graceOver' = TRUE
    /\ UNCHANGED <<clientVars, inbox, backlog, paneVars, subVars, loopVars,
                   connections, had_client, shutdown, idVars, worldVars>>

(* should_exit.                                                            *)
ShouldExit == graceOver /\ had_client /\ connections = {} /\ panes = {}

(* The end of a turn: should_exit, then the loop's own condition.          *)
EndTurn ==
    /\ phase = "again"
    /\ phase' = IF ShouldExit \/ shutdown THEN "stopped" ELSE "poll"
    /\ UNCHANGED <<clientVars, inbox, backlog, paneVars, subVars,
                   notification_buf, scratch_pane_closed, exitVars, idVars,
                   worldVars>>

-----------------------------------------------------------------------------
Init ==
    /\ app = [c \in Clients |-> "new"] /\ rpc = [c \in Clients |-> NoRpc]
    /\ shown = [c \in Clients |-> {}] /\ asked = [c \in Clients |-> {}]
    /\ inbox = [c \in Clients |-> <<>>] /\ outbox = [c \in Clients |-> <<>>]
    /\ backlog = <<>> /\ children = {} /\ events = <<>>
    /\ phase = "poll" /\ connections = {}
    /\ had_client = FALSE /\ graceOver = FALSE /\ shutdown = FALSE
    /\ subscribed = [c \in Clients |-> {}]
    /\ priorities = [c \in Clients |-> [p \in Panes |-> 0]]
    /\ subscriptions = [p \in Panes |-> {}]
    /\ panes = {} /\ registry = {} /\ nextPane = 1
    /\ notifications = <<>> /\ notification_buf = <<>> /\ scratch_pane_closed = {}
    /\ pending = {} /\ nextRequest = 1
    /\ killed = {} /\ kept = {} /\ requested = 0 /\ ops = 0

Drain == BeginDrain \/ PollEvent \/ DrainNotifications \/ RouteNotification
         \/ CleanupClosed \/ EndTurn

Next ==
    \/ \E c \in Clients :
         \/ Connect(c) \/ Receive(c) \/ Leave(c)
         \/ HandleDecodedFrame(c) \/ ClientEnds(c)
         \/ \E op \in Ops, p \in Panes : Ask(c, op, p)
         \/ \E r \in asked[c] : Fulfill(c, r)
    \/ \E p \in Panes : ChildExits(p) \/ AsksHost(p)
    \/ Accept \/ Drain \/ GraceEnds

(* The daemon's turns come, and a turn accepts the connections that wait   *)
(* and notices the clients that are gone; in the middle of a drain nothing *)
(* is accepted or noticed, hence strong fairness.                          *)
Fairness ==
    /\ WF_vars(Drain) /\ WF_vars(GraceEnds)
    /\ SF_vars(Accept \/ \E c \in Clients : ClientEnds(c))

Spec == Init /\ [][Next]_vars /\ Fairness

-----------------------------------------------------------------------------
(* Properties.                                                             *)

Frames == [op : OpKinds \cup {"none", "hello", "join", "reply", "ok", "error",
                              "spawned", "exited", "host", "closed"},
           arg : Nat]

(* The types; a pane is an element of Panes wherever one is stored, and    *)
(* the mux knows no pane the daemon has dropped.                           *)
TypeOK ==
    /\ app \in [Clients -> {"new", "up", "gone"}]
    /\ rpc \in [Clients -> Frames]
    /\ shown \in [Clients -> SUBSET Panes] /\ asked \in [Clients -> SUBSET Nat]
    /\ inbox \in [Clients -> Seq(Frames)] /\ outbox \in [Clients -> Seq(Frames)]
    /\ backlog \in Seq(Clients) /\ children \subseteq Panes
    /\ events \in Seq([op : {"exited", "host"}, arg : Panes])
    /\ phase \in {"poll", "events", "route", "again", "stopped"}
    /\ connections \subseteq Clients
    /\ had_client \in BOOLEAN /\ graceOver \in BOOLEAN /\ shutdown \in BOOLEAN
    /\ subscribed \in [Clients -> SUBSET Panes]
    /\ priorities \in [Clients -> [Panes -> 0..2]]
    /\ subscriptions \in [Panes -> SUBSET Clients]
    /\ panes \subseteq Panes /\ registry \subseteq panes
    /\ nextPane \in 1..(MaxPanes + 1)
    /\ notifications \in Seq([op : {"closed", "host"}, arg : Panes])
    /\ notification_buf \in Seq([op : {"closed", "host"}, arg : Panes])
    /\ scratch_pane_closed \subseteq Panes
    /\ pending \subseteq [id : Nat, pane : Panes, responder : Clients]
    /\ nextRequest \in Nat \ {0}
    /\ killed \subseteq Panes /\ kept \subseteq Panes /\ requested \in Nat /\ ops \in Nat

(* The daemon keeps every subscription twice, in the connection and in its *)
(* own map, and changes them in five places (subscribe, unsubscribe,       *)
(* close, exit, disconnect); the two always agree.                         *)
MapsAgree ==
    \A p \in Panes : subscriptions[p] = {c \in connections : p \in subscribed[c]}

(* A token in pending_host_replies is owed by a client that is connected   *)
(* and still subscribed to the pane: unsubscribing, closing, exiting and   *)
(* disconnecting each drop exactly the tokens they make unanswerable.      *)
PendingHasResponder ==
    \A r \in pending : r.responder \in connections /\ r.pane \in subscribed[r.responder]

(* And none is leaked for a request its responder never saw: while the     *)
(* responder lives, the request is on its way to it, is known to it, or    *)
(* its reply is on the way back.                                           *)
PendingIsOwed ==
    /\ PendingHasResponder
    /\ \A r \in pending : LET c == r.responder IN
         \/ app[c] = "gone"
         \/ \E i \in DOMAIN outbox[c] : outbox[c][i] = Frame("host", r.id)
         \/ r.id \in asked[c]
         \/ \E i \in DOMAIN inbox[c] : inbox[c][i] = Frame("reply", r.id)

(* A pane in a live client's session is one the daemon still serves to it, *)
(* unless the news of its end is on the way, the client itself is closing  *)
(* or leaving it, or somebody asked for it to be closed (of which the      *)
(* other subscribers are not told).                                        *)
ShownIsServed ==
    \A c \in connections : \A p \in shown[c] :
      \/ p \in subscribed[c]
      \/ \E i \in DOMAIN outbox[c] : outbox[c][i] = Frame("exited", p)
      \/ rpc[c].op \in {"close", "unsubscribe"} /\ rpc[c].arg = p
      \/ p \in killed

(* Losing a client never takes a pane from another one: what a             *)
(* disconnection drops from panes had no other subscriber.                 *)
LeavingSparesOthers ==
    [][\A c \in connections \ connections', p \in panes \ panes' :
         \A d \in connections' : p \notin subscribed[d]]_vars

(* The daemon does not outlive its clients: once all of them are gone it   *)
(* stops, unless a pane is left that no disconnection can close, because   *)
(* its child had exited by itself (which leaves it in panes, where         *)
(* should_exit counts it), because its client let go of it, or because the *)
(* client ended between the spawn and the subscription.                    *)
ExitsAfterClients ==
    (\A c \in Clients : app[c] = "gone")
      ~> (phase = "stopped" \/ panes \ (kept \cap registry) # {})
=============================================================================
