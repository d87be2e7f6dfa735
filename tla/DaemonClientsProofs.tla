------------------------ MODULE DaemonClientsProofs ------------------------
(***************************************************************************)
(* Theorems about DaemonClients, for any number of clients, panes and      *)
(* requests.  First about the daemon alone: the two maps of subscriptions  *)
(* agree, a pending host request has a responder, and the end of a client  *)
(* takes no pane from another.  Then, on top of that, about what it owes   *)
(* its clients: a host request that waits for a reply has been put to its  *)
(* responder, and a pane in a live client's session is served to it, or    *)
(* its end is being told.                                                  *)
(***************************************************************************)
EXTENDS DaemonClients, TLAPS, FiniteSetTheorems

(* What the daemon stores refers to clients and panes there are.  Frames   *)
(* from clients are not looked at: what they name is only ever taken out   *)
(* of these sets, or put into the connection's own set.                    *)
Stored ==
    /\ backlog \in Seq(Clients) /\ connections \subseteq Clients
    /\ children \subseteq Panes /\ panes \subseteq Panes /\ registry \subseteq panes
    /\ nextPane \in Nat \ {0}
    /\ events \in Seq([op : {"exited", "host"}, arg : Panes])
    /\ notifications \in Seq([op : {"closed", "host"}, arg : Panes])
    /\ notification_buf \in Seq([op : {"closed", "host"}, arg : Panes])
    /\ subscribed = [c \in Clients |-> subscribed[c]]
    /\ subscriptions = [p \in Panes |-> subscriptions[p]]

(* A client that is not connected has no subscriptions left over.          *)
NobodyElse == \A c \in Clients \ connections : subscribed[c] = {}

Inv == Stored /\ MapsAgree /\ NobodyElse /\ PendingHasResponder

-----------------------------------------------------------------------------
LEMMA PanesFinite == \A S : S \subseteq Panes => Cardinality(S) \in Nat
<1> SUFFICES ASSUME NEW S, S \subseteq Panes PROVE Cardinality(S) \in Nat
  OBVIOUS
<1>1. IsFiniteSet(Panes)
  BY FS_Interval, DaemonAssumption DEF Panes
<1> QED  BY <1>1, FS_Subset, FS_CardinalityType

LEMMA FunctionIsSequence ==
    ASSUME NEW S, NEW n \in Nat, NEW f \in [1..n -> S] PROVE f \in Seq(S)
  OBVIOUS

LEMMA HeadOfSequence ==
    ASSUME NEW S, NEW s \in Seq(S), s # <<>> PROVE Head(s) \in S
  OBVIOUS

(* Closing panes in the mux unregisters them and appends to notifications. *)
LEMMA CloseInMuxStored ==
    ASSUME Stored, NEW ps, CloseInMux(ps)
    PROVE  /\ registry' = registry \ ps
           /\ notifications' \in Seq([op : {"closed", "host"}, arg : Panes])
<1>1. PICK order \in Orders(ps \cap registry) :
         notifications' = notifications \o
                            [i \in DOMAIN order |-> Frame("closed", order[i])]
  BY DEF CloseInMux
<1> DEFINE n == Cardinality(ps \cap registry)
           tail == [i \in DOMAIN order |-> Frame("closed", order[i])]
<1>2. n \in Nat
  BY PanesFinite DEF Stored
<1>3. order \in [1..n -> ps \cap registry]
  BY <1>1 DEF Orders
<1>4. tail \in [1..n -> [op : {"closed", "host"}, arg : Panes]]
  BY <1>3 DEF Frame, Stored
<1>5. tail \in Seq([op : {"closed", "host"}, arg : Panes])
  <2> HIDE DEF n, tail
  <2> QED  BY <1>2, <1>4, FunctionIsSequence
<1>6. notifications \o tail \in Seq([op : {"closed", "host"}, arg : Panes])
  BY <1>5 DEF Stored
<1>7. registry' = registry \ ps
  BY DEF CloseInMux
<1> QED  BY <1>1, <1>6, <1>7

LEMMA StoredInit == Init => Stored
  BY DaemonAssumption DEF Init, Stored

LEMMA StoredNext == Stored /\ [Next]_vars => Stored'
<1> SUFFICES ASSUME Stored, [Next]_vars PROVE Stored'
  OBVIOUS
<1> USE DEF clientVars, paneVars, subVars, loopVars, exitVars, idVars, worldVars
<1>1. CASE UNCHANGED vars
  BY <1>1 DEF vars, Stored
<1>2. ASSUME NEW c \in Clients, Connect(c) PROVE Stored'
  BY <1>2 DEF Connect, Stored
<1>3. ASSUME NEW c \in Clients, Receive(c) \/ Leave(c) PROVE Stored'
  BY <1>3 DEF Receive, Leave, Stored
<1>4. ASSUME NEW c \in Clients, NEW op, NEW p, Ask(c, op, p) PROVE Stored'
  BY <1>4 DEF Ask, Stored
<1>5. ASSUME NEW c \in Clients, NEW r, Fulfill(c, r) PROVE Stored'
  BY <1>5 DEF Fulfill, Stored
<1>6. ASSUME NEW p \in Panes, ChildExits(p) PROVE Stored'
  BY <1>6 DEF ChildExits, Frame, Stored
<1>7. ASSUME NEW p \in Panes, AsksHost(p) PROVE Stored'
  BY <1>7 DEF AsksHost, Frame, Stored
<1>8. CASE Accept
  BY <1>8 DEF Accept, Stored
<1>9. CASE BeginDrain \/ EndTurn \/ GraceEnds
  BY <1>9 DEF BeginDrain, EndTurn, GraceEnds, Stored
<1>10. CASE DrainNotifications
  BY <1>10 DEF DrainNotifications, Stored
<1>11. CASE PollEvent
  <2>1. CASE CloseInMux({Head(events).arg})
    <3>1. /\ registry' = registry \ {Head(events).arg}
          /\ notifications' \in Seq([op : {"closed", "host"}, arg : Panes])
      BY <2>1, CloseInMuxStored
    <3>2. events # <<>> /\ events' = Tail(events)
      BY <1>11 DEF PollEvent
    <3> QED  BY <1>11, <3>1, <3>2 DEF PollEvent, Stored
  <2>2. CASE /\ Head(events).op = "host"
             /\ notifications' = Append(notifications, Head(events))
             /\ UNCHANGED registry
    <3>0. events # <<>> /\ events \in Seq([op : {"exited", "host"}, arg : Panes])
      BY <1>11 DEF PollEvent, Stored
    <3>1. Head(events) \in [op : {"exited", "host"}, arg : Panes]
      BY <3>0, HeadOfSequence
    <3>2. Head(events) \in [op : {"closed", "host"}, arg : Panes]
      BY <2>2, <3>1
    <3> QED  BY <1>11, <2>2, <3>2 DEF PollEvent, Stored
  <2> QED  BY <1>11, <2>1, <2>2 DEF PollEvent
<1>12. CASE RouteNotification
  BY <1>12 DEF RouteNotification, Stored
<1>13. CASE CleanupClosed
  BY <1>13 DEF CleanupClosed, CleanupPaneState, Stored
<1>14. ASSUME NEW c \in Clients, ClientEnds(c) PROVE Stored'
  <2> DEFINE orphans == {p \in subscribed[c] : subscriptions[p] \ {c} = {}}
  <2>1. CloseInMux(orphans)
    BY <1>14 DEF ClientEnds, DisconnectClient
  <2>2. /\ registry' = registry \ orphans
        /\ notifications' \in Seq([op : {"closed", "host"}, arg : Panes])
    BY <2>1, CloseInMuxStored
  <2> QED  BY <1>14, <2>2 DEF ClientEnds, DisconnectClient, Stored
<1>15. ASSUME NEW c \in Clients, HandleDecodedFrame(c) PROVE Stored'
  <2> DEFINE f == Head(inbox[c])
  <2>1. UNCHANGED <<backlog, connections, events, notification_buf>>
    BY <1>15 DEF HandleDecodedFrame
  <2>2. CASE DispatchHello(c, f) \/ DispatchSetPanePriority(c, f)
               \/ DispatchReplyHostRequest(c, f) \/ DispatchShutdown(c, f)
    BY <2>1, <2>2 DEF DispatchHello, DispatchSetPanePriority,
         DispatchReplyHostRequest, DispatchShutdown, Stored
  <2>3. CASE DispatchSpawnPane(c, f)
    BY <2>1, <2>3, DaemonAssumption DEF DispatchSpawnPane, Panes, Stored
  <2>4. CASE DispatchClosePane(c, f)
    <3>1. /\ registry' = registry \ {f.arg}
          /\ notifications' \in Seq([op : {"closed", "host"}, arg : Panes])
      BY <2>4, CloseInMuxStored DEF DispatchClosePane
    <3> QED  BY <2>1, <2>4, <3>1 DEF DispatchClosePane, CleanupPaneState, Stored
  <2>5. CASE DispatchSubscribe(c, f)
    BY <2>1, <2>5 DEF DispatchSubscribe, SyncSubscriptions, Stored
  <2>6. CASE DispatchUnsubscribe(c, f)
    BY <2>1, <2>6 DEF DispatchUnsubscribe, SyncSubscriptions, Stored
  <2> QED  BY <1>15, <2>2, <2>3, <2>4, <2>5, <2>6 DEF HandleDecodedFrame
<1> QED
  BY <1>1, <1>2, <1>3, <1>4, <1>5, <1>6, <1>7, <1>8, <1>9, <1>10, <1>11,
     <1>12, <1>13, <1>14, <1>15 DEF Next, Drain

-----------------------------------------------------------------------------
LEMMA InvInit == Init => Inv
<1> SUFFICES ASSUME Init PROVE MapsAgree /\ NobodyElse /\ PendingHasResponder
  BY StoredInit DEF Inv
<1> QED  BY DEF Init, MapsAgree, NobodyElse, PendingHasResponder

(* The steps that leave connections, both maps and the tokens alone.       *)
LEMMA MapsUnchanged ==
    ASSUME Inv, UNCHANGED <<connections, subscribed, subscriptions, pending>>
    PROVE  (MapsAgree /\ NobodyElse /\ PendingHasResponder)'
  BY DEF Inv, MapsAgree, NobodyElse, PendingHasResponder

(* What is cleaned up for a set of panes.                                  *)
LEMMA CleanupMaps ==
    ASSUME Inv, UNCHANGED connections, NEW ps, CleanupPaneState(ps)
    PROVE  (MapsAgree /\ NobodyElse /\ PendingHasResponder)'
  BY DEF Inv, Stored, CleanupPaneState, MapsAgree, NobodyElse, PendingHasResponder

(* The client that ends takes its subscriptions, its tokens, and the       *)
(* subscriptions and tokens of the panes that are closed with it.          *)
LEMMA DisconnectMaps ==
    ASSUME Inv, NEW c \in Clients, DisconnectClient(c)
    PROVE  (MapsAgree /\ NobodyElse /\ PendingHasResponder)'
<1> DEFINE orphans == {p \in subscribed[c] : subscriptions[p] \ {c} = {}}
<1>1. /\ connections' = connections \ {c}
      /\ subscriptions' = [p \in Panes |-> IF p \in orphans THEN {}
                             ELSE IF p \in subscribed[c] THEN subscriptions[p] \ {c}
                             ELSE subscriptions[p]]
      /\ subscribed' = [d \in Clients |-> IF d = c THEN {} ELSE subscribed[d] \ orphans]
      /\ pending' = {r \in pending : r.pane \notin orphans /\ r.responder # c}
  BY DEF DisconnectClient
<1> HIDE DEF orphans
<1>2. NobodyElse'
  BY <1>1 DEF Inv, NobodyElse
<1>3. MapsAgree'
  BY <1>1 DEF Inv, Stored, MapsAgree, NobodyElse
<1>4. PendingHasResponder'
  BY <1>1 DEF Inv, Stored, PendingHasResponder
<1> QED  BY <1>2, <1>3, <1>4

(* A subscription or its end: c has the panes of ps afterwards.            *)
Resubscribed(c, ps) ==
    subscribed' = [subscribed EXCEPT ![c] = ps] /\ SyncSubscriptions(c, ps)

LEMMA ResubscribedMaps ==
    ASSUME Inv, UNCHANGED connections, NEW c \in connections, NEW ps,
           Resubscribed(c, ps), pending' \subseteq pending,
           \A r \in pending' : r.responder = c => r.pane \in ps
    PROVE  (MapsAgree /\ NobodyElse /\ PendingHasResponder)'
<1>1. c \in Clients /\ DOMAIN subscribed = Clients
  BY DEF Inv, Stored
<1>2. subscribed'[c] = ps /\ \A d \in Clients \ {c} : subscribed'[d] = subscribed[d]
  BY <1>1 DEF Resubscribed
<1>3. \A p \in Panes : subscriptions'[p] = IF p \in ps THEN subscriptions[p] \cup {c}
                                           ELSE subscriptions[p] \ {c}
  BY DEF Resubscribed, SyncSubscriptions
<1>4. connections \subseteq Clients /\ connections' = connections
  BY DEF Inv, Stored
<1>5. NobodyElse'
  BY <1>2, <1>4 DEF Inv, NobodyElse
<1>6. MapsAgree'
  <2> SUFFICES ASSUME NEW p \in Panes
               PROVE  subscriptions'[p] = {d \in connections : p \in subscribed'[d]}
    BY <1>4 DEF MapsAgree
  <2>1. subscriptions[p] = {d \in connections : p \in subscribed[d]}
    BY DEF Inv, MapsAgree
  <2>2. \A d \in connections : p \in subscribed'[d] <=>
           IF d = c THEN p \in ps ELSE p \in subscribed[d]
    BY <1>2, <1>4
  <2>3. CASE p \in ps
    <3>1. subscriptions'[p] = subscriptions[p] \cup {c}
      BY <1>3, <2>3
    <3> QED  BY <2>1, <2>2, <2>3, <3>1
  <2>4. CASE p \notin ps
    <3>1. subscriptions'[p] = subscriptions[p] \ {c}
      BY <1>3, <2>4
    <3> QED  BY <2>1, <2>2, <2>4, <3>1
  <2> QED  BY <2>3, <2>4
<1>7. PendingHasResponder'
  BY <1>2, <1>4 DEF Inv, PendingHasResponder
<1> QED  BY <1>5, <1>6, <1>7

LEMMA InvNext == Inv /\ [Next]_vars => Inv'
<1> SUFFICES ASSUME Inv, [Next]_vars
             PROVE  (MapsAgree /\ NobodyElse /\ PendingHasResponder)'
  BY StoredNext DEF Inv
<1> USE DEF clientVars, paneVars, subVars, loopVars, exitVars, idVars, worldVars
<1>1. CASE UNCHANGED vars
  BY <1>1, MapsUnchanged DEF vars
<1>2. ASSUME NEW c \in Clients,
             Connect(c) \/ Receive(c) \/ Leave(c)
               \/ (\E op \in Ops, p \in Panes : Ask(c, op, p))
               \/ (\E r \in asked[c] : Fulfill(c, r))
      PROVE  (MapsAgree /\ NobodyElse /\ PendingHasResponder)'
  BY <1>2, MapsUnchanged DEF Connect, Receive, Leave, Ask, Fulfill
<1>3. CASE (\E p \in Panes : ChildExits(p) \/ AsksHost(p))
             \/ BeginDrain \/ PollEvent \/ DrainNotifications \/ EndTurn \/ GraceEnds
  BY <1>3, MapsUnchanged DEF ChildExits, AsksHost, BeginDrain, PollEvent,
       DrainNotifications, EndTurn, GraceEnds
<1>4. CASE Accept
  <2>1. Head(backlog) \in Clients
    BY <1>4 DEF Accept, Inv, Stored
  <2>2. \A d \in {Head(backlog)} \ connections : subscribed[d] = {}
    BY <2>1 DEF Inv, NobodyElse
  <2>3. connections' = connections \cup {Head(backlog)}
    BY <1>4 DEF Accept
  <2>4. UNCHANGED <<subscribed, subscriptions, pending>>
    BY <1>4 DEF Accept
  <2> QED  BY <2>1, <2>2, <2>3, <2>4
             DEF Inv, MapsAgree, NobodyElse, PendingHasResponder
<1>5. CASE CleanupClosed
  BY <1>5, CleanupMaps DEF CleanupClosed
<1>6. ASSUME NEW c \in Clients, ClientEnds(c)
      PROVE  (MapsAgree /\ NobodyElse /\ PendingHasResponder)'
  BY <1>6, DisconnectMaps DEF ClientEnds
<1>7. CASE RouteNotification
  <2> DEFINE n == Head(notification_buf)
  <2>1. n \in [op : {"closed", "host"}, arg : Panes]
    <3>1. /\ notification_buf # <<>>
          /\ notification_buf \in Seq([op : {"closed", "host"}, arg : Panes])
      BY <1>7 DEF RouteNotification, Inv, Stored
    <3> QED  BY <3>1, HeadOfSequence
  <2>2. UNCHANGED <<connections, subscribed, subscriptions>>
    BY <1>7 DEF RouteNotification
  <2>3. CASE UNCHANGED pending
    BY <2>2, <2>3, MapsUnchanged
  <2>4. CASE n.op = "host" /\ DispatchHostRequest(n.arg) /\ pending' # pending
    <3>1. PICK c \in subscriptions[n.arg] :
             pending' = pending \cup {[id |-> nextRequest, pane |-> n.arg, responder |-> c]}
      BY <2>4 DEF DispatchHostRequest
    <3>2. c \in connections /\ n.arg \in subscribed[c]
      BY <2>1, <3>1 DEF Inv, MapsAgree
    <3> QED  BY <2>2, <3>1, <3>2 DEF Inv, MapsAgree, NobodyElse, PendingHasResponder
  <2> QED  BY <1>7, <2>3, <2>4 DEF RouteNotification
<1>8. ASSUME NEW c \in Clients, HandleDecodedFrame(c)
      PROVE  (MapsAgree /\ NobodyElse /\ PendingHasResponder)'
  <2> DEFINE f == Head(inbox[c])
  <2>1. c \in connections /\ UNCHANGED connections
    BY <1>8 DEF HandleDecodedFrame
  <2>2. CASE DispatchHello(c, f) \/ DispatchSpawnPane(c, f) \/ DispatchShutdown(c, f)
               \/ DispatchSetPanePriority(c, f)
    BY <2>1, <2>2, MapsUnchanged DEF DispatchHello, DispatchSpawnPane,
         DispatchShutdown, DispatchSetPanePriority
  <2>3. CASE DispatchReplyHostRequest(c, f)
    BY <2>1, <2>3 DEF DispatchReplyHostRequest, Inv, MapsAgree, NobodyElse,
         PendingHasResponder
  <2>4. CASE DispatchClosePane(c, f)
    BY <2>1, <2>4, CleanupMaps DEF DispatchClosePane
  <2>5. CASE DispatchSubscribe(c, f)
    <3>1. UNCHANGED pending /\ Resubscribed(c, subscribed[c] \cup {f.arg})
      BY <2>5 DEF DispatchSubscribe, Resubscribed
    <3>2. \A r \in pending : r.responder = c => r.pane \in subscribed[c] \cup {f.arg}
      BY DEF Inv, PendingHasResponder
    <3> QED  BY <2>1, <3>1, <3>2, ResubscribedMaps
  <2>6. CASE DispatchUnsubscribe(c, f)
    <3>1. /\ pending' = {r \in pending : ~(r.pane = f.arg /\ r.responder = c)}
          /\ Resubscribed(c, subscribed[c] \ {f.arg})
      BY <2>6 DEF DispatchUnsubscribe, Resubscribed
    <3>2. \A r \in pending' : r.responder = c => r.pane \in subscribed[c] \ {f.arg}
      BY <3>1 DEF Inv, PendingHasResponder
    <3> QED  BY <2>1, <3>1, <3>2, ResubscribedMaps
  <2> QED  BY <1>8, <2>2, <2>3, <2>4, <2>5, <2>6 DEF HandleDecodedFrame
<1> QED
  BY <1>1, <1>2, <1>3, <1>4, <1>5, <1>6, <1>7, <1>8 DEF Next, Drain

-----------------------------------------------------------------------------
(* The daemon's map of subscribers and the connections' own sets never     *)
(* part (sync_subscriptions, cleanup_pane_state, disconnect_client).       *)
THEOREM SubscriptionsAgree == Spec => []MapsAgree
<1>1. Inv => MapsAgree
  BY DEF Inv
<1> QED  BY <1>1, InvInit, InvNext, PTL DEF Spec

(* Every pending host request is owed by a connected subscriber of its     *)
(* pane, whichever of its clean-ups runs.                                  *)
THEOREM PendingIsAnswerable == Spec => []PendingHasResponder
<1>1. Inv => PendingHasResponder
  BY DEF Inv
<1> QED  BY <1>1, InvInit, InvNext, PTL DEF Spec

(* No pane is taken from a client because another one ended                *)
(* (disconnect_client).                                                    *)
THEOREM EndsSpareOthers == Spec => LeavingSparesOthers
<1> DEFINE Spares == \A c \in connections \ connections', p \in panes \ panes' :
                       \A d \in connections' : p \notin subscribed[d]
<1>1. Inv /\ [Next]_vars => [Spares]_vars
  <2> SUFFICES ASSUME Inv, Next, NEW c \in connections \ connections',
                      NEW p \in panes \ panes', NEW d \in connections'
               PROVE  p \notin subscribed[d]
    OBVIOUS
  <2> USE DEF clientVars, paneVars, subVars, loopVars, exitVars, idVars, worldVars
  <2>1. PICK e \in Clients : ClientEnds(e)
    <3>1. connections' # connections
      OBVIOUS
    <3>2. ~Accept
      BY DEF Accept
    <3> QED  BY <3>1, <3>2 DEF Next, Drain, Connect, Receive, Leave, Ask, Fulfill,
               HandleDecodedFrame, ChildExits, AsksHost, BeginDrain, PollEvent,
               DrainNotifications, RouteNotification, CleanupClosed, EndTurn,
               GraceEnds
  <2> DEFINE orphans == {q \in subscribed[e] : subscriptions[q] \ {e} = {}}
  <2>2. connections' = connections \ {e} /\ panes' = panes \ orphans
    BY <2>1 DEF ClientEnds, DisconnectClient
  <2>3. p \in Panes /\ subscriptions[p] \ {e} = {}
    BY <2>2 DEF Inv, Stored
  <2> QED  BY <2>2, <2>3 DEF Inv, MapsAgree
<1> QED  BY <1>1, InvInit, InvNext, PTL DEF Spec, LeavingSparesOthers

-----------------------------------------------------------------------------
(* What the daemon owes its clients *)

InFrames  == [op : {"hello"}, arg : {0}] \cup [op : OpKinds, arg : Panes]
               \cup [op : {"reply"}, arg : Nat]
OutFrames == [op : {"ok", "error"}, arg : {0}] \cup [op : {"spawned", "exited"}, arg : Panes]
               \cup [op : {"host"}, arg : Nat]
Rpcs      == [op : {"none", "hello"}, arg : {0}] \cup [op : OpKinds \cup {"join"}, arg : Panes]

(* The frames that travel, and the requests clients block in.             *)
FramesOK ==
    /\ rpc \in [Clients -> Rpcs]
    /\ inbox \in [Clients -> Seq(InFrames)] /\ outbox \in [Clients -> Seq(OutFrames)]

Typed == TypeOK /\ FramesOK

(* Who is new to the daemon, and who has nothing any more, or nothing yet. *)
Strangers ==
    \A c \in Clients :
        /\ app[c] = "new" => c \notin connections /\ \A i \in 1..Len(backlog) : backlog[i] # c
        /\ app[c] # "up" \/ c \notin connections => shown[c] = {} /\ outbox[c] = <<>>

(* The frames of an RPC: the request the client is blocked in, or its      *)
(* answer, is on its way; there is one of the two, and it fits.            *)
IsRequest(f) == f.op \in {"hello", "spawn", "close", "subscribe", "unsubscribe", "shutdown"}
IsAnswer(f)  == f.op \in {"ok", "error", "spawned"}

Fits(k, f) == f.arg = k.arg /\ (f.op = k.op \/ (f.op = "subscribe" /\ k.op = "join"))

OneRpc(k, in, out) ==
    /\ \A i \in 1..Len(in) : IsRequest(in[i]) =>
         /\ Fits(k, in[i])
         /\ \A j \in 1..Len(in) : IsRequest(in[j]) => i = j
         /\ \A j \in 1..Len(out) : ~IsAnswer(out[j])
    /\ \A i \in 1..Len(out) : IsAnswer(out[i]) =>
         /\ k.op # "none"
         /\ out[i].op = "spawned" => k.op = "spawn"
         /\ out[i].op = "error" => k.op \in {"spawn", "subscribe", "join"}
         /\ \A j \in 1..Len(out) : IsAnswer(out[j]) => i = j

Rpc == \A c \in Clients : app[c] = "up" => OneRpc(rpc[c], inbox[c], outbox[c])

(* Owed, for one client with id i to answer.                               *)
Owes(c, id) ==
    \/ app[c] = "gone"
    \/ \E i \in 1..Len(outbox[c]) : outbox[c][i] = Frame("host", id)
    \/ id \in asked[c]
    \/ \E i \in 1..Len(inbox[c]) : inbox[c][i] = Frame("reply", id)

OwedInv == \A r \in pending : Owes(r.responder, r.id)

(* Once the first i frames of out are read the client shows p, if nothing  *)
(* else happens: it does already, or the i-th frame ends its Subscribe.    *)
Shows(k, sh, out, p, i) ==
    \/ i = 0 /\ p \in sh
    \/ i \in 1..Len(out) /\ out[i].op = "ok" /\ k.op \in {"join", "subscribe"} /\ k.arg = p

(* The news that p has ended comes after them.                             *)
Told(out, p, i) == \E j \in 1..Len(out) : i < j /\ out[j] = Frame("exited", p)

Closing(k, p) == k.op \in {"close", "unsubscribe"} /\ k.arg = p

ServedInv ==
    \A c \in Clients, p \in Panes : \A i \in 0..Len(outbox[c]) :
        Shows(rpc[c], shown[c], outbox[c], p, i) =>
            \/ p \in subscribed[c] \/ p \in killed
            \/ Told(outbox[c], p, i) \/ Closing(rpc[c], p)

(* In a drain: a subscriber of a pane whose end has been routed is told.   *)
Routed(p) == \A n \in 1..Len(notification_buf) : notification_buf[n] # Frame("closed", p)

AnnouncedInv ==
    phase = "route" =>
        \A c \in Clients, p \in scratch_pane_closed :
            p \in subscribed[c] /\ Routed(p) => \A i \in 0..Len(outbox[c]) :
                Shows(rpc[c], shown[c], outbox[c], p, i) => Told(outbox[c], p, i)

-----------------------------------------------------------------------------
(* Sequences.                                                              *)

LEMMA Appended ==
    ASSUME NEW S, NEW s \in Seq(S), NEW e
    PROVE  /\ Len(Append(s, e)) = Len(s) + 1 /\ Len(s) \in Nat
           /\ \A i \in 1..Len(s) : Append(s, e)[i] = s[i]
           /\ Append(s, e)[Len(s) + 1] = e
           /\ e \in S => Append(s, e) \in Seq(S)
  OBVIOUS

LEMMA Shifted ==
    ASSUME NEW S, NEW s \in Seq(S), s # <<>>
    PROVE  /\ Len(s) \in Nat \ {0} /\ Len(Tail(s)) = Len(s) - 1
           /\ \A i \in 1..(Len(s) - 1) : Tail(s)[i] = s[i + 1]
           /\ Head(s) = s[1] /\ Head(s) \in S /\ Tail(s) \in Seq(S)
  OBVIOUS

LEMMA WiderSeq ==
    ASSUME NEW S, NEW T, S \subseteq T, NEW s \in Seq(S) PROVE s \in Seq(T)
<1>1. Len(s) \in Nat /\ s \in [1..Len(s) -> S]
  OBVIOUS
<1>2. s \in [1..Len(s) -> T]
  BY <1>1
<1> DEFINE n == Len(s)
<1>3. n \in Nat /\ s \in [1..n -> T]
  BY <1>1, <1>2
<1> HIDE DEF n
<1> QED  BY <1>3, FunctionIsSequence

-----------------------------------------------------------------------------
(* Types.                                                                  *)

LEMMA Ids == Panes \subseteq Nat /\ Clients \subseteq Nat
  BY DaemonAssumption DEF Panes, Clients

LEMMA Narrow == InFrames \subseteq Frames /\ OutFrames \subseteq Frames /\ Rpcs \subseteq Frames
<1> SUFFICES ASSUME NEW f, f \in InFrames \cup OutFrames \cup Rpcs PROVE f \in Frames
  OBVIOUS
<1>1. \E op, arg : f = [op |-> op, arg |-> arg]
  BY DEF InFrames, OutFrames, Rpcs
<1>2. /\ f.op \in OpKinds \cup {"none", "hello", "join", "reply", "ok", "error", "spawned", "exited", "host"}
      /\ f.arg \in Nat
  <2>1. CASE f \in InFrames
    <3>1. f.op \in OpKinds \cup {"hello", "reply"} /\ f.arg \in Panes \cup Nat
      BY <2>1 DEF InFrames
    <3> QED  BY <3>1, Ids
  <2>2. CASE f \in OutFrames
    <3>1. f.op \in {"ok", "error", "spawned", "exited", "host"} /\ f.arg \in Panes \cup Nat
      BY <2>2 DEF OutFrames
    <3> QED  BY <3>1, Ids
  <2>3. CASE f \in Rpcs
    <3>1. f.op \in OpKinds \cup {"none", "hello", "join"} /\ f.arg \in Panes \cup Nat
      BY <2>3 DEF Rpcs
    <3> QED  BY <3>1, Ids
  <2> QED  BY <2>1, <2>2, <2>3
<1> HIDE DEF OpKinds
<1> QED  BY <1>1, <1>2 DEF Frames

LEMMA FramesAre == FramesOK => /\ rpc \in [Clients -> Frames] /\ inbox \in [Clients -> Seq(Frames)]
                               /\ outbox \in [Clients -> Seq(Frames)]
<1> SUFFICES ASSUME FramesOK PROVE /\ rpc \in [Clients -> Frames] /\ inbox \in [Clients -> Seq(Frames)]
                                   /\ outbox \in [Clients -> Seq(Frames)]
  OBVIOUS
<1>1. InFrames \subseteq Frames /\ OutFrames \subseteq Frames /\ Rpcs \subseteq Frames
  BY Narrow
<1>2. /\ rpc \in [Clients -> Rpcs] /\ inbox \in [Clients -> Seq(InFrames)]
      /\ outbox \in [Clients -> Seq(OutFrames)]
  BY DEF FramesOK
<1> HIDE DEF Frames, InFrames, OutFrames, Rpcs
<1>3. \A c \in Clients : inbox[c] \in Seq(Frames) /\ outbox[c] \in Seq(Frames)
  BY <1>1, <1>2, WiderSeq
<1> QED  BY <1>1, <1>2, <1>3

LEMMA SendTyped ==
    ASSUME inbox \in [Clients -> Seq(InFrames)], NEW c \in Clients, NEW f \in InFrames, Send(c, f)
    PROVE  inbox' \in [Clients -> Seq(InFrames)]
<1> HIDE DEF InFrames
<1>1. Append(inbox[c], f) \in Seq(InFrames)
  OBVIOUS
<1> QED  BY <1>1 DEF Send

LEMMA QueueTyped ==
    ASSUME outbox \in [Clients -> Seq(OutFrames)], NEW c \in Clients, NEW f \in OutFrames, Queue(c, f)
    PROVE  outbox' \in [Clients -> Seq(OutFrames)]
<1> HIDE DEF OutFrames
<1>1. Append(outbox[c], f) \in Seq(OutFrames)
  OBVIOUS
<1> QED  BY <1>1 DEF Queue

LEMMA InFrame ==
    /\ Frame("hello", 0) \in InFrames
    /\ \A op \in OpKinds, p \in Panes : Frame(op, p) \in InFrames
    /\ \A n \in Nat : Frame("reply", n) \in InFrames
  BY DEF Frame, InFrames

LEMMA OutFrame ==
    /\ Frame("ok", 0) \in OutFrames /\ Frame("error", 0) \in OutFrames
    /\ \A p \in Panes : Frame("spawned", p) \in OutFrames /\ Frame("exited", p) \in OutFrames
    /\ \A n \in Nat : Frame("host", n) \in OutFrames
  BY DEF Frame, OutFrames

LEMMA RpcFrame ==
    /\ NoRpc \in Rpcs /\ Frame("hello", 0) \in Rpcs
    /\ \A op \in OpKinds \cup {"join"}, p \in Panes : Frame(op, p) \in Rpcs
  BY DEF NoRpc, Frame, Rpcs

LEMMA FramesInit == Init => FramesOK
<1> SUFFICES ASSUME Init PROVE FramesOK
  OBVIOUS
<1>1. rpc \in [Clients -> Rpcs]
  BY RpcFrame DEF Init
<1>2. inbox \in [Clients -> Seq(InFrames)] /\ outbox \in [Clients -> Seq(OutFrames)]
  <2> HIDE DEF InFrames, OutFrames
  <2> QED  BY DEF Init
<1> QED  BY <1>1, <1>2 DEF FramesOK

LEMMA FramesNext == Typed /\ [Next]_vars => FramesOK'
<1> SUFFICES ASSUME Typed, [Next]_vars PROVE FramesOK'
  OBVIOUS
<1> USE DEF clientVars, paneVars, subVars, loopVars, exitVars, idVars, worldVars
<1>0. /\ rpc \in [Clients -> Rpcs] /\ inbox \in [Clients -> Seq(InFrames)]
      /\ outbox \in [Clients -> Seq(OutFrames)] /\ asked \in [Clients -> SUBSET Nat]
      /\ nextRequest \in Nat /\ nextPane \in 1..(MaxPanes + 1) /\ panes \subseteq Panes
  BY DEF Typed, TypeOK, FramesOK
<1>1. CASE UNCHANGED <<rpc, inbox, outbox>>
  BY <1>0, <1>1 DEF FramesOK
<1>2. ASSUME NEW c \in Clients, Connect(c) PROVE FramesOK'
  <2>1. rpc' = [rpc EXCEPT ![c] = Frame("hello", 0)]
        /\ inbox' = [inbox EXCEPT ![c] = <<Frame("hello", 0)>>] /\ outbox' = outbox
    BY <1>2 DEF Connect
  <2>2. <<Frame("hello", 0)>> \in Seq(InFrames)
    <3>1. Frame("hello", 0) \in InFrames
      BY InFrame
    <3> HIDE DEF InFrames
    <3> QED  BY <3>1
  <2>3. rpc' \in [Clients -> Rpcs]
    BY <1>0, <2>1, RpcFrame
  <2>4. inbox' \in [Clients -> Seq(InFrames)]
    <3> HIDE DEF InFrames
    <3> QED  BY <1>0, <2>1, <2>2
  <2> QED  BY <1>0, <2>1, <2>3, <2>4 DEF FramesOK
<1>3. ASSUME NEW c \in Clients, Receive(c) PROVE FramesOK'
  <2> DEFINE f == Head(outbox[c])
  <2>1. outbox' \in [Clients -> Seq(OutFrames)] /\ f \in OutFrames
    <3> HIDE DEF OutFrames
    <3>1. outbox[c] \in Seq(OutFrames) /\ outbox[c] # <<>>
          /\ outbox' = [outbox EXCEPT ![c] = Tail(@)]
      BY <1>0, <1>3 DEF Receive
    <3>2. Tail(outbox[c]) \in Seq(OutFrames) /\ Head(outbox[c]) \in OutFrames
      BY <3>1
    <3> QED  BY <1>0, <3>1, <3>2
  <2>2. CASE UNCHANGED <<rpc, inbox>>
    BY <1>0, <2>1, <2>2 DEF FramesOK
  <2>3. CASE Answered(c, f)
    <3>1. CASE /\ f.op = "spawned"
               /\ rpc' = [rpc EXCEPT ![c] = Frame("join", f.arg)]
               /\ Send(c, Frame("subscribe", f.arg))
      <4>1. f.arg \in Panes
        BY <2>1, <3>1 DEF OutFrames
      <4>2. Frame("join", f.arg) \in Rpcs /\ Frame("subscribe", f.arg) \in InFrames
        BY <4>1, InFrame, RpcFrame DEF OpKinds
      <4>3. rpc' \in [Clients -> Rpcs]
        BY <1>0, <3>1, <4>2
      <4> QED  BY <1>0, <2>1, <3>1, <4>2, <4>3, SendTyped DEF FramesOK
    <3>2. CASE /\ rpc[c].op = "join"
               /\ rpc' = [rpc EXCEPT ![c] = Frame("close", rpc[c].arg)]
               /\ Send(c, Frame("close", rpc[c].arg))
      <4>1. rpc[c].arg \in Panes
        <5>1. rpc[c] \in Rpcs
          BY <1>0
        <5> QED  BY <3>2, <5>1 DEF Rpcs, OpKinds
      <4>2. Frame("close", rpc[c].arg) \in Rpcs /\ Frame("close", rpc[c].arg) \in InFrames
        BY <4>1, InFrame, RpcFrame DEF OpKinds
      <4>3. rpc' \in [Clients -> Rpcs]
        BY <1>0, <3>2, <4>2
      <4> QED  BY <1>0, <2>1, <3>2, <4>2, <4>3, SendTyped DEF FramesOK
    <3>3. CASE rpc' = [rpc EXCEPT ![c] = NoRpc] /\ UNCHANGED inbox
      BY <1>0, <2>1, <3>3, RpcFrame DEF FramesOK
    <3> QED  BY <2>3, <3>1, <3>2, <3>3 DEF Answered
  <2> QED  BY <1>3, <2>2, <2>3 DEF Receive
<1>4. ASSUME NEW c \in Clients, Leave(c) PROVE FramesOK'
  <2>1. rpc' \in [Clients -> Rpcs]
    BY <1>0, <1>4, RpcFrame DEF Leave
  <2>2. outbox' \in [Clients -> Seq(OutFrames)] /\ inbox' = inbox
    <3> HIDE DEF OutFrames
    <3> QED  BY <1>0, <1>4 DEF Leave
  <2> QED  BY <1>0, <2>1, <2>2 DEF FramesOK
<1>5. ASSUME NEW c \in Clients, NEW op \in Ops, NEW p \in Panes, Ask(c, op, p) PROVE FramesOK'
  <2>1. op \in OpKinds
    BY DaemonAssumption
  <2>2. Frame(op, p) \in Rpcs /\ Frame(op, p) \in InFrames
    BY <2>1, InFrame, RpcFrame
  <2>3. rpc' \in [Clients -> Rpcs]
    BY <1>0, <1>5, <2>2 DEF Ask
  <2> QED  BY <1>0, <1>5, <2>2, <2>3, SendTyped DEF Ask, FramesOK
<1>6. ASSUME NEW c \in Clients, NEW r \in asked[c], Fulfill(c, r) PROVE FramesOK'
  <2>1. Frame("reply", r) \in InFrames
    BY <1>0, InFrame
  <2> QED  BY <1>0, <1>6, <2>1, SendTyped DEF Fulfill, FramesOK
<1>7. ASSUME NEW c \in Clients, ClientEnds(c) PROVE FramesOK'
  <2>1. inbox' \in [Clients -> Seq(InFrames)]
    <3> HIDE DEF InFrames
    <3> QED  BY <1>0, <1>7 DEF ClientEnds
  <2> QED  BY <1>0, <1>7, <2>1 DEF ClientEnds, FramesOK
<1>8. ASSUME NEW c \in Clients, HandleDecodedFrame(c) PROVE FramesOK'
  <2>1. inbox' \in [Clients -> Seq(InFrames)] /\ rpc' = rpc
    <3>1. inbox[c] # <<>> /\ inbox' = [inbox EXCEPT ![c] = Tail(@)] /\ rpc' = rpc
      BY <1>8 DEF HandleDecodedFrame
    <3> HIDE DEF InFrames
    <3>2. Tail(inbox[c]) \in Seq(InFrames)
      BY <1>0, <3>1
    <3> QED  BY <1>0, <3>1, <3>2
  <2>2. outbox' = outbox \/ \E f \in OutFrames : Queue(c, f)
    <3>1. nextPane <= MaxPanes => nextPane \in Panes
      BY <1>0, DaemonAssumption DEF Panes
    <3> DEFINE f == Head(inbox[c])
    <3>2. CASE DispatchSpawnPane(c, f)
      BY <3>1, <3>2, OutFrame DEF DispatchSpawnPane
    <3>3. CASE DispatchSubscribe(c, f)
      <4>1. Frame(IF f.arg \in panes THEN "ok" ELSE "error", 0) \in OutFrames
        BY OutFrame
      <4> QED  BY <3>3, <4>1 DEF DispatchSubscribe
    <3>4. CASE DispatchHello(c, f) \/ DispatchClosePane(c, f) \/ DispatchUnsubscribe(c, f)
                 \/ DispatchShutdown(c, f)
      BY <3>4, OutFrame DEF DispatchHello, DispatchClosePane, DispatchUnsubscribe, DispatchShutdown
    <3>5. CASE DispatchSetPanePriority(c, f) \/ DispatchReplyHostRequest(c, f)
      BY <3>5 DEF DispatchSetPanePriority, DispatchReplyHostRequest
    <3>6. \/ DispatchHello(c, f) \/ DispatchSpawnPane(c, f) \/ DispatchClosePane(c, f)
          \/ DispatchSubscribe(c, f) \/ DispatchUnsubscribe(c, f) \/ DispatchSetPanePriority(c, f)
          \/ DispatchReplyHostRequest(c, f) \/ DispatchShutdown(c, f)
      BY <1>8 DEF HandleDecodedFrame
    <3> QED  BY <3>2, <3>3, <3>4, <3>5, <3>6
  <2>3. outbox' \in [Clients -> Seq(OutFrames)]
    BY <1>0, <2>2, QueueTyped
  <2> QED  BY <1>0, <2>1, <2>3 DEF FramesOK
<1>9. CASE RouteNotification
  <2> DEFINE n == Head(notification_buf)
  <2>1. n \in [op : {"closed", "host"}, arg : Panes] /\ UNCHANGED <<rpc, inbox>>
    BY <1>9, HeadOfSequence DEF RouteNotification, Typed, TypeOK
  <2>2. CASE outbox' = [c \in Clients |->
                          IF c \in subscriptions[n.arg] /\ app[c] # "gone"
                          THEN Append(outbox[c], Frame("exited", n.arg))
                          ELSE outbox[c]]
    <3>1. Frame("exited", n.arg) \in OutFrames
      BY <2>1, OutFrame
    <3> HIDE DEF OutFrames, n
    <3>2. \A c \in Clients : Append(outbox[c], Frame("exited", n.arg)) \in Seq(OutFrames)
      BY <1>0, <3>1
    <3>3. outbox' \in [Clients -> Seq(OutFrames)]
      BY <1>0, <2>2, <3>2
    <3> QED  BY <1>0, <2>1, <3>3 DEF FramesOK
  <2>3. CASE DispatchHostRequest(n.arg)
    <3>1. subscriptions[n.arg] \subseteq Clients
      BY <2>1 DEF Typed, TypeOK
    <3>2. outbox' = outbox \/ \E c \in Clients : Queue(c, Frame("host", nextRequest))
      BY <2>3, <3>1 DEF DispatchHostRequest
    <3>3. outbox' \in [Clients -> Seq(OutFrames)]
      BY <1>0, <3>2, QueueTyped, OutFrame
    <3> QED  BY <1>0, <2>1, <3>3 DEF FramesOK
  <2> QED  BY <1>9, <2>2, <2>3 DEF RouteNotification
<1>10. CASE (\E p \in Panes : ChildExits(p) \/ AsksHost(p)) \/ Accept \/ BeginDrain \/ PollEvent
            \/ DrainNotifications \/ CleanupClosed \/ EndTurn \/ GraceEnds \/ UNCHANGED vars
  BY <1>1, <1>10 DEF ChildExits, AsksHost, Accept, BeginDrain, PollEvent, DrainNotifications,
     CleanupClosed, EndTurn, GraceEnds, vars
<1> QED
  BY <1>2, <1>3, <1>4, <1>5, <1>6, <1>7, <1>8, <1>9, <1>10 DEF Next, Drain

(* The rest of TypeOK, by whose state it is.                               *)
ClientsTyped ==
    /\ app \in [Clients -> {"new", "up", "gone"}]
    /\ shown \in [Clients -> SUBSET Panes] /\ asked \in [Clients -> SUBSET Nat]

DaemonTyped ==
    /\ phase \in {"poll", "events", "route", "again", "stopped"}
    /\ had_client \in BOOLEAN /\ graceOver \in BOOLEAN /\ shutdown \in BOOLEAN
    /\ nextPane \in 1..(MaxPanes + 1) /\ scratch_pane_closed \subseteq Panes
    /\ nextRequest \in Nat \ {0} /\ requested \in Nat /\ ops \in Nat
    /\ killed \subseteq Panes /\ kept \subseteq Panes

SubsTyped ==
    /\ subscribed \in [Clients -> SUBSET Panes]
    /\ priorities \in [Clients -> [Panes -> 0..2]]
    /\ subscriptions \in [Panes -> SUBSET Clients]
    /\ pending \subseteq [id : Nat, pane : Panes, responder : Clients]

LEMMA TypedParts ==
    Typed <=> Stored /\ FramesOK /\ ClientsTyped /\ DaemonTyped /\ SubsTyped
<1> HIDE DEF Frames
<1>1. ASSUME Typed PROVE Stored /\ FramesOK /\ ClientsTyped /\ DaemonTyped /\ SubsTyped
  <2>1. FramesOK /\ ClientsTyped /\ DaemonTyped /\ SubsTyped
    BY <1>1 DEF Typed, TypeOK, ClientsTyped, DaemonTyped, SubsTyped
  <2>2. Stored
    BY <1>1 DEF Typed, TypeOK, Stored
  <2> QED  BY <2>1, <2>2
<1>2. ASSUME Stored, FramesOK, ClientsTyped, DaemonTyped, SubsTyped PROVE Typed
  BY <1>2, FramesAre DEF Typed, TypeOK, Stored, ClientsTyped, DaemonTyped, SubsTyped
<1> QED  BY <1>1, <1>2

(* The frame the daemon handles, and the one a client reads.               *)
LEMMA HandledFrame ==
    ASSUME FramesOK, NEW c \in Clients, inbox[c] # <<>>
    PROVE  /\ Head(inbox[c]) \in InFrames
           /\ Head(inbox[c]).op \in OpKinds => Head(inbox[c]).arg \in Panes
<1>1. inbox[c] \in Seq(InFrames)
  BY DEF FramesOK
<1> DEFINE f == Head(inbox[c])
<1>2. f \in InFrames
  <2> HIDE DEF InFrames
  <2> QED  BY <1>1, HeadOfSequence
<1>3. f.op \in OpKinds => f.arg \in Panes
  <2> HIDE DEF f
  <2>1. "hello" \notin OpKinds /\ "reply" \notin OpKinds
    BY DEF OpKinds
  <2> QED  BY <1>2, <2>1 DEF InFrames
<1> QED  BY <1>2, <1>3

LEMMA ReadFrame ==
    ASSUME FramesOK, NEW c \in Clients, outbox[c] # <<>>
    PROVE  /\ Head(outbox[c]) \in OutFrames
           /\ Head(outbox[c]).op \in {"spawned", "exited"} => Head(outbox[c]).arg \in Panes
           /\ Head(outbox[c]).op = "host" => Head(outbox[c]).arg \in Nat
<1>1. outbox[c] \in Seq(OutFrames)
  BY DEF FramesOK
<1> DEFINE f == Head(outbox[c])
<1>2. f \in OutFrames
  <2> HIDE DEF OutFrames
  <2> QED  BY <1>1, HeadOfSequence
<1>3. /\ f.op \in {"spawned", "exited"} => f.arg \in Panes
      /\ f.op = "host" => f.arg \in Nat
  <2> HIDE DEF f
  <2> QED  BY <1>2 DEF OutFrames
<1> QED  BY <1>2, <1>3

LEMMA BlockedIn ==
    ASSUME FramesOK, NEW c \in Clients
    PROVE  rpc[c].op \in OpKinds \cup {"join"} => rpc[c].arg \in Panes
<1>1. rpc[c] \in Rpcs
  BY DEF FramesOK
<1>2. "none" \notin OpKinds \cup {"join"} /\ "hello" \notin OpKinds \cup {"join"}
  BY DEF OpKinds
<1> QED  BY <1>1, <1>2 DEF Rpcs

LEMMA ClientsNext == Typed /\ [Next]_vars => ClientsTyped'
<1> SUFFICES ASSUME Typed, [Next]_vars PROVE ClientsTyped'
  OBVIOUS
<1> USE DEF clientVars, paneVars, subVars, loopVars, exitVars, idVars, worldVars
<1>0. FramesOK /\ ClientsTyped
  BY TypedParts
<1>1. ASSUME NEW c \in Clients, Connect(c) \/ Leave(c) PROVE ClientsTyped'
  BY <1>0, <1>1 DEF Connect, Leave, ClientsTyped
<1>2. ASSUME NEW c \in Clients, Receive(c) PROVE ClientsTyped'
  <2>1. outbox[c] # <<>> /\ UNCHANGED app
    BY <1>2 DEF Receive
  <2> DEFINE f == Head(outbox[c])
  <2>2. CASE Answered(c, f)
    <3>1. rpc[c].op \in {"join", "subscribe"} => rpc[c].arg \in Panes
      BY <1>0, BlockedIn DEF OpKinds
    <3>2. UNCHANGED <<shown, asked>> \/
          /\ UNCHANGED asked
          /\ shown' = [shown EXCEPT ![c] =
                         IF rpc[c].op \in {"join", "subscribe"} THEN @ \cup {rpc[c].arg}
                         ELSE @ \ {rpc[c].arg}]
      BY <2>2 DEF Answered
    <3> QED  BY <1>0, <2>1, <3>1, <3>2 DEF ClientsTyped
  <2>3. CASE shown' = [shown EXCEPT ![c] = @ \ {f.arg}] /\ UNCHANGED asked
    BY <1>0, <2>1, <2>3 DEF ClientsTyped
  <2>4. CASE f.op = "host" /\ asked' = [asked EXCEPT ![c] = @ \cup {f.arg}] /\ UNCHANGED shown
    <3>1. f.arg \in Nat
      BY <1>0, <2>1, <2>4, ReadFrame
    <3> QED  BY <1>0, <2>1, <2>4, <3>1 DEF ClientsTyped
  <2> QED  BY <1>2, <2>2, <2>3, <2>4 DEF Receive
<1>3. ASSUME NEW c \in Clients, NEW r, Fulfill(c, r) PROVE ClientsTyped'
  BY <1>0, <1>3 DEF Fulfill, ClientsTyped
<1>4. CASE UNCHANGED <<app, shown, asked>>
  BY <1>0, <1>4 DEF ClientsTyped
<1>5. ASSUME NEW c \in Clients, HandleDecodedFrame(c) \/ ClientEnds(c)
               \/ \E op \in Ops, p \in Panes : Ask(c, op, p)
      PROVE  ClientsTyped'
  BY <1>4, <1>5 DEF HandleDecodedFrame, ClientEnds, Ask
<1>6. CASE (\E p \in Panes : ChildExits(p) \/ AsksHost(p)) \/ Accept \/ Drain \/ GraceEnds
           \/ UNCHANGED vars
  BY <1>4, <1>6 DEF ChildExits, AsksHost, Accept, Drain, BeginDrain, PollEvent, DrainNotifications,
     RouteNotification, CleanupClosed, EndTurn, GraceEnds, vars
<1> QED
  BY <1>1, <1>2, <1>3, <1>5, <1>6 DEF Next

LEMMA DaemonNext == Typed /\ [Next]_vars => DaemonTyped'
<1> SUFFICES ASSUME Typed, [Next]_vars PROVE DaemonTyped'
  OBVIOUS
<1> USE DEF clientVars, paneVars, subVars, loopVars, exitVars, idVars, worldVars
<1>0. FramesOK /\ DaemonTyped
  BY TypedParts
<1>1. CASE UNCHANGED <<phase, had_client, graceOver, shutdown, nextPane, scratch_pane_closed,
                       nextRequest, requested, ops, killed, kept>>
  BY <1>0, <1>1 DEF DaemonTyped
<1>2. ASSUME NEW c \in Clients, Connect(c) \/ Receive(c) \/ Leave(c) \/ ClientEnds(c)
               \/ \E r \in asked[c] : Fulfill(c, r)
      PROVE  DaemonTyped'
  BY <1>1, <1>2 DEF Connect, Receive, Leave, ClientEnds, Fulfill
<1>3. ASSUME NEW c \in Clients, NEW op \in Ops, NEW p \in Panes, Ask(c, op, p) PROVE DaemonTyped'
  BY <1>0, <1>3 DEF Ask, DaemonTyped
<1>4. ASSUME NEW p \in Panes, ChildExits(p) \/ AsksHost(p) PROVE DaemonTyped'
  BY <1>0, <1>4 DEF ChildExits, AsksHost, DaemonTyped
<1>5. CASE Accept \/ GraceEnds \/ PollEvent \/ UNCHANGED vars
  BY <1>0, <1>5 DEF Accept, GraceEnds, PollEvent, vars, DaemonTyped
<1>6. CASE BeginDrain \/ CleanupClosed \/ EndTurn
  BY <1>0, <1>6 DEF BeginDrain, CleanupClosed, EndTurn, DaemonTyped
<1>7. CASE DrainNotifications
  BY <1>0, <1>7 DEF DrainNotifications, DaemonTyped
<1>8. CASE RouteNotification
  <2>1. nextRequest' \in {nextRequest, nextRequest + 1}
    BY <1>8 DEF RouteNotification, DispatchHostRequest
  <2>2. UNCHANGED <<phase, had_client, graceOver, shutdown, nextPane, scratch_pane_closed,
                    requested, ops, killed, kept>>
    BY <1>8 DEF RouteNotification
  <2> QED  BY <1>0, <2>1, <2>2 DEF DaemonTyped
<1>9. ASSUME NEW c \in Clients, HandleDecodedFrame(c) PROVE DaemonTyped'
  <2> DEFINE f == Head(inbox[c])
  <2>1. inbox[c] # <<>> /\ UNCHANGED <<phase, had_client, graceOver, scratch_pane_closed, requested, ops>>
    BY <1>9 DEF HandleDecodedFrame
  <2>2. f.op \in OpKinds => f.arg \in Panes
    BY <1>0, <2>1, HandledFrame
  <2> HIDE DEF f
  <2>3. CASE DispatchHello(c, f) \/ DispatchSetPanePriority(c, f) \/ DispatchReplyHostRequest(c, f)
    BY <1>0, <2>1, <2>3 DEF DispatchHello, DispatchSetPanePriority, DispatchReplyHostRequest, DaemonTyped
  <2>4. CASE DispatchSpawnPane(c, f)
    BY <1>0, <2>1, <2>4, DaemonAssumption DEF DispatchSpawnPane, DaemonTyped
  <2>5. CASE DispatchClosePane(c, f)
    BY <1>0, <2>1, <2>2, <2>5 DEF DispatchClosePane, DaemonTyped, OpKinds
  <2>6. CASE DispatchSubscribe(c, f)
    BY <1>0, <2>1, <2>2, <2>6 DEF DispatchSubscribe, DaemonTyped, OpKinds
  <2>7. CASE DispatchUnsubscribe(c, f)
    BY <1>0, <2>1, <2>7 DEF DispatchUnsubscribe, DaemonTyped
  <2>8. CASE DispatchShutdown(c, f)
    BY <1>0, <2>1, <2>8 DEF DispatchShutdown, DaemonTyped
  <2>9. \/ DispatchHello(c, f) \/ DispatchSpawnPane(c, f) \/ DispatchClosePane(c, f)
        \/ DispatchSubscribe(c, f) \/ DispatchUnsubscribe(c, f) \/ DispatchSetPanePriority(c, f)
        \/ DispatchReplyHostRequest(c, f) \/ DispatchShutdown(c, f)
    BY <1>9 DEF HandleDecodedFrame, f
  <2> QED  BY <2>3, <2>4, <2>5, <2>6, <2>7, <2>8, <2>9
<1> QED
  BY <1>2, <1>3, <1>4, <1>5, <1>6, <1>7, <1>8, <1>9 DEF Next, Drain

LEMMA SubsNext == Typed /\ [Next]_vars => SubsTyped'
<1> SUFFICES ASSUME Typed, [Next]_vars PROVE SubsTyped'
  OBVIOUS
<1> USE DEF clientVars, paneVars, subVars, loopVars, exitVars, idVars, worldVars
<1>0. FramesOK /\ SubsTyped /\ Stored /\ nextRequest \in Nat
  BY TypedParts DEF DaemonTyped
<1>1. CASE UNCHANGED subVars
  BY <1>0, <1>1 DEF SubsTyped
<1>2. ASSUME NEW c \in Clients, Connect(c) \/ Receive(c) \/ Leave(c)
               \/ (\E op \in Ops, p \in Panes : Ask(c, op, p)) \/ \E r \in asked[c] : Fulfill(c, r)
      PROVE  SubsTyped'
  BY <1>1, <1>2 DEF Connect, Receive, Leave, Ask, Fulfill
<1>3. CASE (\E p \in Panes : ChildExits(p) \/ AsksHost(p)) \/ Accept \/ GraceEnds \/ BeginDrain
           \/ PollEvent \/ DrainNotifications \/ EndTurn \/ UNCHANGED vars
  BY <1>1, <1>3 DEF ChildExits, AsksHost, Accept, GraceEnds, BeginDrain, PollEvent,
     DrainNotifications, EndTurn, vars
<1>4. ASSUME NEW ps, CleanupPaneState(ps) PROVE SubsTyped'
  BY <1>0, <1>4 DEF CleanupPaneState, SubsTyped
<1>5. CASE CleanupClosed
  BY <1>4, <1>5 DEF CleanupClosed
<1>6. CASE RouteNotification
  <2> DEFINE n == Head(notification_buf)
  <2>1. n.arg \in Panes /\ UNCHANGED <<subscribed, priorities, subscriptions>>
    BY <1>0, <1>6, HeadOfSequence DEF RouteNotification, Stored
  <2> HIDE DEF n
  <2>2. CASE UNCHANGED pending
    BY <1>0, <2>1, <2>2 DEF SubsTyped
  <2>3. CASE \E d \in subscriptions[n.arg] :
               pending' = pending \cup {[id |-> nextRequest, pane |-> n.arg, responder |-> d]}
    BY <1>0, <2>1, <2>3 DEF SubsTyped
  <2> QED  BY <1>6, <2>2, <2>3 DEF RouteNotification, DispatchHostRequest, n
<1>7. ASSUME NEW c \in Clients, ClientEnds(c) PROVE SubsTyped'
  BY <1>0, <1>7 DEF ClientEnds, DisconnectClient, SubsTyped
<1>8. ASSUME NEW c \in Clients, HandleDecodedFrame(c) PROVE SubsTyped'
  <2> DEFINE f == Head(inbox[c])
  <2>1. inbox[c] # <<>>
    BY <1>8 DEF HandleDecodedFrame
  <2>2. f.op \in OpKinds => f.arg \in Panes
    BY <1>0, <2>1, HandledFrame
  <2> HIDE DEF f
  <2>3. CASE DispatchHello(c, f) \/ DispatchSpawnPane(c, f) \/ DispatchShutdown(c, f)
    BY <1>1, <2>3 DEF DispatchHello, DispatchSpawnPane, DispatchShutdown
  <2>4. CASE DispatchClosePane(c, f)
    BY <1>4, <2>4 DEF DispatchClosePane
  <2>5. CASE DispatchSetPanePriority(c, f)
    <3>1. f.arg \in Panes
      BY <2>2, <2>5 DEF DispatchSetPanePriority, OpKinds
    <3> QED  BY <1>0, <2>5, <3>1 DEF DispatchSetPanePriority, SubsTyped
  <2>6. CASE DispatchSubscribe(c, f)
    <3>1. f.arg \in Panes
      BY <2>2, <2>6 DEF DispatchSubscribe, OpKinds
    <3> QED  BY <1>0, <2>6, <3>1 DEF DispatchSubscribe, SyncSubscriptions, SubsTyped
  <2>7. CASE DispatchUnsubscribe(c, f)
    <3>1. f.arg \in Panes
      BY <2>2, <2>7 DEF DispatchUnsubscribe, OpKinds
    <3> QED  BY <1>0, <2>7, <3>1 DEF DispatchUnsubscribe, SyncSubscriptions, SubsTyped
  <2>8. CASE DispatchReplyHostRequest(c, f)
    BY <1>0, <2>8 DEF DispatchReplyHostRequest, SubsTyped
  <2>9. \/ DispatchHello(c, f) \/ DispatchSpawnPane(c, f) \/ DispatchClosePane(c, f)
        \/ DispatchSubscribe(c, f) \/ DispatchUnsubscribe(c, f) \/ DispatchSetPanePriority(c, f)
        \/ DispatchReplyHostRequest(c, f) \/ DispatchShutdown(c, f)
    BY <1>8 DEF HandleDecodedFrame, f
  <2> QED  BY <2>3, <2>4, <2>5, <2>6, <2>7, <2>8, <2>9
<1> QED
  BY <1>2, <1>3, <1>5, <1>6, <1>7, <1>8 DEF Next, Drain

LEMMA TypedInit == Init => Typed
<1> SUFFICES ASSUME Init PROVE Typed
  OBVIOUS
<1>1. ClientsTyped
  BY DEF Init, ClientsTyped
<1>3. DaemonTyped
  <2>1. 1 \in 1..(MaxPanes + 1)
    BY DaemonAssumption
  <2>2. had_client \in BOOLEAN /\ graceOver \in BOOLEAN /\ shutdown \in BOOLEAN
    BY DEF Init
  <2> QED  BY <2>1, <2>2 DEF Init, DaemonTyped
<1>2. SubsTyped
  BY DEF Init, SubsTyped
<1> QED  BY <1>1, <1>2, <1>3, StoredInit, FramesInit, TypedParts

LEMMA TypedNext == Typed /\ [Next]_vars => Typed'
<1> SUFFICES ASSUME Typed, [Next]_vars PROVE Typed'
  OBVIOUS
<1>1. Stored' /\ FramesOK'
  BY TypedParts, StoredNext, FramesNext
<1>2. ClientsTyped' /\ DaemonTyped' /\ SubsTyped'
  BY ClientsNext, DaemonNext, SubsNext
<1> QED  BY <1>1, <1>2, TypedParts, PTL

(* Every value has its type, and the mux knows no pane the daemon has      *)
(* dropped, however many clients connect and panes are spawned.            *)
THEOREM DaemonTypeCorrect == Spec => []TypeOK
<1>1. Typed => TypeOK
  BY DEF Typed
<1> QED  BY <1>1, TypedInit, TypedNext, PTL DEF Spec

-----------------------------------------------------------------------------
(* What a step does to one client and the frames to and from it.           *)

Untouched(c) ==
    /\ app'[c] = app[c] /\ rpc'[c] = rpc[c] /\ shown'[c] = shown[c]
    /\ asked'[c] = asked[c] /\ inbox'[c] = inbox[c] /\ outbox'[c] = outbox[c]

(* A notification is routed to it.                                         *)
Notified(c) ==
    /\ app'[c] = app[c] /\ rpc'[c] = rpc[c] /\ shown'[c] = shown[c]
    /\ asked'[c] = asked[c] /\ inbox'[c] = inbox[c]
    /\ c \in connections /\ app[c] # "gone"
    /\ \E f \in OutFrames : f.op \in {"host", "exited"} /\ outbox'[c] = Append(outbox[c], f)

LEMMA Functions ==
    ASSUME Typed
    PROVE  /\ DOMAIN app = Clients /\ DOMAIN rpc = Clients /\ DOMAIN shown = Clients
           /\ DOMAIN asked = Clients /\ DOMAIN inbox = Clients /\ DOMAIN outbox = Clients
           /\ app = [d \in Clients |-> app[d]] /\ rpc = [d \in Clients |-> rpc[d]]
           /\ shown = [d \in Clients |-> shown[d]] /\ asked = [d \in Clients |-> asked[d]]
           /\ inbox = [d \in Clients |-> inbox[d]] /\ outbox = [d \in Clients |-> outbox[d]]
  BY DEF Typed, TypeOK, FramesOK

LEMMA RoutedTo ==
    ASSUME Typed, MapsAgree, RouteNotification, NEW c \in Clients
    PROVE  Untouched(c) \/ Notified(c)
<1> DEFINE n == Head(notification_buf)
<1>1. n \in [op : {"closed", "host"}, arg : Panes] /\ UNCHANGED <<app, rpc, shown, asked, inbox>>
  BY HeadOfSequence DEF RouteNotification, Typed, TypeOK
<1>2. nextRequest \in Nat /\ n.arg \in Panes
  BY <1>1 DEF Typed, TypeOK
<1>3. subscriptions[n.arg] \subseteq connections
  BY <1>1 DEF MapsAgree
<1> HIDE DEF n
<1>4. CASE outbox' = [d \in Clients |->
                        IF d \in subscriptions[n.arg] /\ app[d] # "gone"
                        THEN Append(outbox[d], Frame("exited", n.arg))
                        ELSE outbox[d]]
  <2>1. Frame("exited", n.arg) \in OutFrames /\ Frame("exited", n.arg).op = "exited"
    BY <1>2, OutFrame DEF Frame
  <2> QED  BY <1>1, <1>3, <1>4, <2>1 DEF Untouched, Notified
<1>5. CASE DispatchHostRequest(n.arg)
  <2>1. Frame("host", nextRequest) \in OutFrames /\ Frame("host", nextRequest).op = "host"
    BY <1>2, OutFrame DEF Frame
  <2>2. outbox' = outbox \/ \E d \in subscriptions[n.arg] : Queue(d, Frame("host", nextRequest))
    BY <1>5 DEF DispatchHostRequest
  <2> QED  BY <1>1, <1>3, <2>1, <2>2, Functions DEF Queue, Untouched, Notified
<1> QED  BY <1>4, <1>5 DEF RouteNotification, n

LEMMA ClientSteps ==
    ASSUME Typed, MapsAgree, [Next]_vars, NEW c \in Clients
    PROVE  \/ Untouched(c) \/ Notified(c) \/ Connect(c) \/ Receive(c) \/ Leave(c)
           \/ (\E op \in Ops, p \in Panes : Ask(c, op, p)) \/ (\E r \in asked[c] : Fulfill(c, r))
           \/ HandleDecodedFrame(c) \/ ClientEnds(c)
<1> USE DEF clientVars, paneVars, subVars, loopVars, exitVars, idVars, worldVars
<1>1. ASSUME NEW d \in Clients, d # c, Connect(d) \/ Receive(d) \/ Leave(d) PROVE Untouched(c)
  <2>1. CASE Connect(d)
    BY <1>1, <2>1, Functions DEF Connect, Untouched
  <2>2. CASE Leave(d)
    BY <1>1, <2>2, Functions DEF Leave, Untouched
  <2>3. CASE Receive(d)
    <3>1. /\ UNCHANGED app
          /\ rpc' = rpc \/ \E x : rpc' = [rpc EXCEPT ![d] = x]
          /\ inbox' = inbox \/ \E x : inbox' = [inbox EXCEPT ![d] = x]
          /\ shown' = shown \/ \E x : shown' = [shown EXCEPT ![d] = x]
          /\ asked' = asked \/ \E x : asked' = [asked EXCEPT ![d] = x]
          /\ \E x : outbox' = [outbox EXCEPT ![d] = x]
      <4>1. outbox' = [outbox EXCEPT ![d] = Tail(outbox[d])] /\ UNCHANGED app
        BY <2>3 DEF Receive
      <4>2. CASE Answered(d, Head(outbox[d]))
        BY <4>1, <4>2 DEF Answered, Send
      <4>3. CASE ~Answered(d, Head(outbox[d]))
        BY <2>3, <4>1, <4>3 DEF Receive
      <4> QED  BY <4>2, <4>3
    <3> QED  BY <1>1, <3>1, Functions DEF Untouched
  <2> QED  BY <1>1, <2>1, <2>2, <2>3
<1>2. ASSUME NEW d \in Clients, d # c, NEW op, NEW p, Ask(d, op, p) PROVE Untouched(c)
  BY <1>2, Functions DEF Ask, Send, Untouched
<1>3. ASSUME NEW d \in Clients, d # c, NEW r, Fulfill(d, r) PROVE Untouched(c)
  BY <1>3, Functions DEF Fulfill, Send, Untouched
<1>4. ASSUME NEW d \in Clients, d # c, ClientEnds(d) PROVE Untouched(c)
  BY <1>4, Functions DEF ClientEnds, Untouched
<1>5. ASSUME NEW d \in Clients, d # c, HandleDecodedFrame(d) PROVE Untouched(c)
  <2> DEFINE f == Head(inbox[d])
  <2>1. UNCHANGED <<app, rpc, shown, asked>> /\ inbox' = [inbox EXCEPT ![d] = Tail(@)]
    BY <1>5 DEF HandleDecodedFrame
  <2>2. \/ DispatchHello(d, f) \/ DispatchSpawnPane(d, f) \/ DispatchClosePane(d, f)
        \/ DispatchSubscribe(d, f) \/ DispatchUnsubscribe(d, f) \/ DispatchSetPanePriority(d, f)
        \/ DispatchReplyHostRequest(d, f) \/ DispatchShutdown(d, f)
    BY <1>5 DEF HandleDecodedFrame
  <2> HIDE DEF f
  <2>3. outbox' = outbox \/ \E g : Queue(d, g)
    BY <2>2 DEF DispatchHello, DispatchSpawnPane, DispatchClosePane, DispatchSubscribe,
       DispatchUnsubscribe, DispatchSetPanePriority, DispatchReplyHostRequest, DispatchShutdown
  <2> QED  BY <1>5, <2>1, <2>3, Functions DEF Queue, Untouched
<1>6. CASE (\E p \in Panes : ChildExits(p) \/ AsksHost(p)) \/ Accept \/ BeginDrain \/ PollEvent
           \/ DrainNotifications \/ CleanupClosed \/ EndTurn \/ GraceEnds \/ UNCHANGED vars
  <2>1. UNCHANGED clientVars /\ UNCHANGED inbox
    BY <1>6 DEF ChildExits, AsksHost, Accept, BeginDrain, PollEvent, DrainNotifications,
       CleanupClosed, EndTurn, GraceEnds, vars
  <2> QED  BY <2>1 DEF Untouched
<1>7. CASE RouteNotification
  BY <1>7, RoutedTo
<1> QED
  BY <1>1, <1>2, <1>3, <1>4, <1>5, <1>6, <1>7 DEF Next, Drain

-----------------------------------------------------------------------------
(* Strangers.                                                              *)

LEMMA StrangersInit == Init => Strangers
  BY DEF Init, Strangers

(* backlog and connections only take a client that has connected.          *)
LEMMA Admitted ==
    ASSUME Typed, Strangers, [Next]_vars, NEW c \in Clients, app'[c] = "new"
    PROVE  c \notin connections' /\ \A i \in 1..Len(backlog') : backlog'[i] # c
<1> USE DEF clientVars, paneVars, subVars, loopVars, exitVars, idVars, worldVars
<1>0. backlog \in Seq(Clients) /\ app = [d \in Clients |-> app[d]]
  BY DEF Typed, TypeOK
<1>1. ASSUME app[c] = "new", backlog' = backlog, connections' \subseteq connections
      PROVE  c \notin connections' /\ \A i \in 1..Len(backlog') : backlog'[i] # c
  BY <1>1 DEF Strangers
<1>2. ASSUME NEW d \in Clients, Connect(d)
      PROVE  c \notin connections' /\ \A i \in 1..Len(backlog') : backlog'[i] # c
  <2>1. d # c /\ app[c] = "new" /\ backlog' = Append(backlog, d) /\ connections' = connections
    BY <1>0, <1>2 DEF Connect
  <2>2. c \notin connections /\ \A i \in 1..Len(backlog) : backlog[i] # c
    BY <2>1 DEF Strangers
  <2> QED  BY <1>0, <2>1, <2>2
<1>3. ASSUME NEW d \in Clients, Leave(d)
      PROVE  app[c] = "new" /\ backlog' = backlog /\ connections' \subseteq connections
  BY <1>0, <1>3 DEF Leave
<1>4. ASSUME NEW d \in Clients, Receive(d) \/ HandleDecodedFrame(d) \/ ClientEnds(d)
               \/ (\E op \in Ops, p \in Panes : Ask(d, op, p)) \/ \E r \in asked[d] : Fulfill(d, r)
      PROVE  app[c] = "new" /\ backlog' = backlog /\ connections' \subseteq connections
  BY <1>4 DEF Receive, HandleDecodedFrame, ClientEnds, DisconnectClient, Ask, Fulfill
<1>5. CASE Accept
  <2>1. app[c] = "new" /\ backlog # <<>> /\ backlog' = Tail(backlog)
        /\ connections' = connections \cup {Head(backlog)}
    BY <1>5 DEF Accept
  <2>2. c \notin connections /\ \A i \in 1..Len(backlog) : backlog[i] # c
    BY <2>1 DEF Strangers
  <2> QED  BY <1>0, <2>1, <2>2
<1>6. CASE (\E p \in Panes : ChildExits(p) \/ AsksHost(p)) \/ BeginDrain \/ PollEvent
           \/ DrainNotifications \/ RouteNotification \/ CleanupClosed \/ EndTurn \/ GraceEnds
           \/ UNCHANGED vars
  <2>1. app[c] = "new" /\ backlog' = backlog /\ connections' \subseteq connections
    BY <1>6 DEF ChildExits, AsksHost, BeginDrain, PollEvent, DrainNotifications, RouteNotification,
       CleanupClosed, EndTurn, GraceEnds, vars
  <2> QED  BY <1>1, <2>1
<1> QED
  BY <1>1, <1>2, <1>3, <1>4, <1>5, <1>6 DEF Next, Drain

(* A connection goes only when its client has gone.                        *)
LEMMA StaysConnected ==
    ASSUME Typed, [Next]_vars, NEW c \in connections
    PROVE  c \in connections' \/ app[c] = "gone"
<1> USE DEF clientVars, paneVars, subVars, loopVars, exitVars, idVars, worldVars
<1>1. ASSUME NEW d \in Clients, ClientEnds(d) PROVE c \in connections' \/ app[c] = "gone"
  BY <1>1 DEF ClientEnds, DisconnectClient
<1>2. CASE Accept
  BY <1>2 DEF Accept
<1>3. ASSUME NEW d \in Clients, Connect(d) \/ Leave(d) \/ Receive(d) \/ HandleDecodedFrame(d)
               \/ (\E op \in Ops, p \in Panes : Ask(d, op, p)) \/ \E r \in asked[d] : Fulfill(d, r)
      PROVE  c \in connections'
  BY <1>3 DEF Connect, Leave, Receive, HandleDecodedFrame, Ask, Fulfill
<1>4. CASE (\E p \in Panes : ChildExits(p) \/ AsksHost(p)) \/ BeginDrain \/ PollEvent
           \/ DrainNotifications \/ RouteNotification \/ CleanupClosed \/ EndTurn \/ GraceEnds
           \/ UNCHANGED vars
  BY <1>4 DEF ChildExits, AsksHost, BeginDrain, PollEvent, DrainNotifications, RouteNotification,
     CleanupClosed, EndTurn, GraceEnds, vars
<1> QED
  BY <1>1, <1>2, <1>3, <1>4 DEF Next, Drain

LEMMA StrangersNext ==
    ASSUME Typed, MapsAgree, Strangers, [Next]_vars PROVE Strangers'
<1> USE DEF clientVars, paneVars, subVars, loopVars, exitVars, idVars, worldVars
<1> SUFFICES ASSUME NEW c \in Clients
             PROVE  /\ app'[c] = "new"  =>
                         c \notin connections' /\ \A i \in 1..Len(backlog') : backlog'[i] # c
                    /\ app'[c] # "up" \/ c \notin connections' => shown'[c] = {} /\ outbox'[c] = <<>>
  BY DEF Strangers
<1>1. app'[c] = "new" => c \notin connections' /\ \A i \in 1..Len(backlog') : backlog'[i] # c
  BY Admitted
<1>2. ASSUME app'[c] # "up" \/ c \notin connections' PROVE shown'[c] = {} /\ outbox'[c] = <<>>
  <2>1. CASE Leave(c)
    BY <2>1, Functions DEF Leave
  <2>2. CASE app[c] = "up" /\ c \in connections /\ ~Leave(c)
    <3>1. app'[c] = "up"
      BY <2>2, ClientSteps DEF Untouched, Notified, Connect, Receive, Ask, Fulfill,
         HandleDecodedFrame, ClientEnds
    <3> QED  BY <1>2, <2>2, <3>1, StaysConnected
  <2>3. CASE app[c] # "up" \/ c \notin connections
    <3>1. shown[c] = {} /\ outbox[c] = <<>>
      BY <2>3 DEF Strangers
    <3>2. ~Receive(c)
      BY <3>1 DEF Receive
    <3>3. app[c] # "new" \/ c \notin connections
      BY DEF Strangers
    <3>4. ~Notified(c)
      BY <2>3, <3>3 DEF Notified, Typed, TypeOK
    <3>5. CASE HandleDecodedFrame(c)
      <4>1. c \in connections /\ app[c] = "gone" /\ UNCHANGED shown
        BY <2>3, <3>3, <3>5 DEF HandleDecodedFrame, Typed, TypeOK
      <4>2. outbox' = outbox \/ \E g : Queue(c, g)
        BY <3>5 DEF HandleDecodedFrame, DispatchHello, DispatchSpawnPane, DispatchClosePane,
           DispatchSubscribe, DispatchUnsubscribe, DispatchSetPanePriority,
           DispatchReplyHostRequest, DispatchShutdown
      <4> QED  BY <3>1, <4>1, <4>2, Functions DEF Queue
    <3> QED  BY <2>1, <3>1, <3>2, <3>4, <3>5, ClientSteps DEF Untouched, Connect, Ask, Fulfill, ClientEnds
  <2> QED  BY <2>1, <2>2, <2>3
<1> QED  BY <1>1, <1>2

-----------------------------------------------------------------------------
(* One RPC: in and out are sequences of frames, k the one that is blocked. *)

NoRequests(in)  == \A i \in 1..Len(in) : ~IsRequest(in[i])
NoAnswers(out)  == \A i \in 1..Len(out) : ~IsAnswer(out[i])
Answers(k, f)   == /\ k.op # "none" /\ (f.op = "spawned" => k.op = "spawn")
                   /\ f.op = "error" => k.op \in {"spawn", "subscribe", "join"}

LEMMA Idle ==
    ASSUME NEW k, NEW in, NEW out, NoRequests(in), NoAnswers(out) PROVE OneRpc(k, in, out)
  BY DEF NoRequests, NoAnswers, OneRpc

LEMMA NotIdle ==
    ASSUME NEW in, NEW out, OneRpc(NoRpc, in, out) PROVE NoRequests(in) /\ NoAnswers(out)
  BY DEF OneRpc, NoRequests, NoAnswers, NoRpc, Frame, Fits, IsRequest

LEMMA MoreOut ==
    ASSUME NEW k, NEW in, NEW out \in Seq(OutFrames), NEW f, OneRpc(k, in, out), ~IsAnswer(f)
    PROVE  OneRpc(k, in, Append(out, f))
<1> HIDE DEF OutFrames
<1>1. /\ Len(Append(out, f)) = Len(out) + 1 /\ Len(out) \in Nat /\ Append(out, f)[Len(out) + 1] = f
      /\ \A i \in 1..Len(out) : Append(out, f)[i] = out[i]
  BY Appended
<1> DEFINE new == Append(out, f)
<1> HIDE DEF new
<1>2. \A i \in 1..Len(new) : IsAnswer(new[i]) => i \in 1..Len(out) /\ new[i] = out[i]
  BY <1>1 DEF new
<1> QED  BY <1>2 DEF OneRpc, new

LEMMA LessOut ==
    ASSUME NEW k, NEW in, NEW out \in Seq(OutFrames), OneRpc(k, in, out), out # <<>>
    PROVE  /\ OneRpc(k, in, Tail(out))
           /\ IsAnswer(Head(out)) => /\ NoRequests(in) /\ NoAnswers(Tail(out)) /\ Answers(k, Head(out))
<1> HIDE DEF OutFrames
<1> DEFINE new == Tail(out)
           n == Len(out)
<1>1. /\ n \in Nat \ {0} /\ Len(new) = n - 1 /\ Head(out) = out[1]
      /\ \A i \in 1..(n - 1) : new[i] = out[i + 1]
  BY Shifted
<1>2. \A i \in 1..Len(new) : i + 1 \in 1..n /\ new[i] = out[i + 1]
  <2> HIDE DEF n, new
  <2> QED  BY <1>1
<1>3. 1 \in 1..n
  <2> HIDE DEF n, new
  <2> QED  BY <1>1
<1>4. OneRpc(k, in, new)
  <2>1. ASSUME NEW i \in 1..Len(in), IsRequest(in[i])
        PROVE  /\ Fits(k, in[i]) /\ (\A j \in 1..Len(in) : IsRequest(in[j]) => i = j)
               /\ \A j \in 1..Len(new) : ~IsAnswer(new[j])
    <3>1. /\ Fits(k, in[i]) /\ (\A j \in 1..Len(in) : IsRequest(in[j]) => i = j)
          /\ \A j \in 1..n : ~IsAnswer(out[j])
      BY <2>1 DEF OneRpc
    <3> HIDE DEF n, new
    <3> QED  BY <1>2, <3>1
  <2>2. ASSUME NEW i \in 1..Len(new), IsAnswer(new[i])
        PROVE  /\ k.op # "none" /\ (new[i].op = "spawned" => k.op = "spawn")
               /\ new[i].op = "error" => k.op \in {"spawn", "subscribe", "join"}
               /\ \A j \in 1..Len(new) : IsAnswer(new[j]) => i = j
    <3>1. i + 1 \in 1..n /\ IsAnswer(out[i + 1]) /\ new[i] = out[i + 1]
      BY <1>2, <2>2
    <3>2. /\ k.op # "none" /\ (out[i + 1].op = "spawned" => k.op = "spawn")
          /\ out[i + 1].op = "error" => k.op \in {"spawn", "subscribe", "join"}
          /\ \A j \in 1..n : IsAnswer(out[j]) => i + 1 = j
      BY <3>1 DEF OneRpc
    <3>3. ASSUME NEW j \in 1..Len(new), IsAnswer(new[j]) PROVE i = j
      <4>1. j + 1 \in 1..n /\ IsAnswer(out[j + 1])
        BY <1>2, <3>3
      <4>2. i + 1 = j + 1 /\ i \in Int /\ j \in Int
        BY <3>2, <4>1
      <4> QED  BY <4>2
    <3> QED  BY <3>1, <3>2, <3>3
  <2> HIDE DEF new
  <2> QED  BY <2>1, <2>2 DEF OneRpc
<1>5. ASSUME IsAnswer(Head(out)) PROVE NoRequests(in) /\ NoAnswers(new) /\ Answers(k, Head(out))
  <2>1. IsAnswer(out[1])
    BY <1>1, <1>5
  <2>2. NoRequests(in)
    BY <1>3, <2>1 DEF OneRpc, NoRequests
  <2>3. Answers(k, Head(out)) /\ \A j \in 1..n : IsAnswer(out[j]) => 1 = j
    BY <1>1, <1>3, <2>1 DEF OneRpc, Answers
  <2>4. ASSUME NEW i \in 1..Len(new), IsAnswer(new[i]) PROVE FALSE
    <3>1. 1 = i + 1 /\ i \in Nat \ {0}
      BY <1>2, <2>3, <2>4
    <3> QED  BY <3>1
  <2> QED  BY <2>2, <2>3, <2>4 DEF NoAnswers
<1> QED  BY <1>4, <1>5

LEMMA MoreIn ==
    ASSUME NEW k, NEW in \in Seq(InFrames), NEW out, NEW f, OneRpc(k, in, out), ~IsRequest(f)
    PROVE  OneRpc(k, Append(in, f), out)
<1> HIDE DEF InFrames
<1>1. /\ Len(Append(in, f)) = Len(in) + 1 /\ Len(in) \in Nat /\ Append(in, f)[Len(in) + 1] = f
      /\ \A i \in 1..Len(in) : Append(in, f)[i] = in[i]
  BY Appended
<1> DEFINE new == Append(in, f)
<1> HIDE DEF new
<1>2. \A i \in 1..Len(new) : IsRequest(new[i]) => i \in 1..Len(in) /\ new[i] = in[i]
  BY <1>1 DEF new
<1> QED  BY <1>2 DEF OneRpc, new

LEMMA LessIn ==
    ASSUME NEW k, NEW in \in Seq(InFrames), NEW out, OneRpc(k, in, out), in # <<>>
    PROVE  /\ OneRpc(k, Tail(in), out)
           /\ IsRequest(Head(in)) => /\ NoRequests(Tail(in)) /\ NoAnswers(out) /\ Fits(k, Head(in))
<1> HIDE DEF InFrames
<1> DEFINE new == Tail(in)
           n == Len(in)
<1>1. /\ n \in Nat \ {0} /\ Len(new) = n - 1 /\ Head(in) = in[1]
      /\ \A i \in 1..(n - 1) : new[i] = in[i + 1]
  BY Shifted
<1>2. \A i \in 1..Len(new) : i + 1 \in 1..n /\ new[i] = in[i + 1]
  <2> HIDE DEF n, new
  <2> QED  BY <1>1
<1>3. 1 \in 1..n
  <2> HIDE DEF n, new
  <2> QED  BY <1>1
<1>4. OneRpc(k, new, out)
  <2>1. ASSUME NEW i \in 1..Len(new), IsRequest(new[i])
        PROVE  /\ Fits(k, new[i]) /\ (\A j \in 1..Len(new) : IsRequest(new[j]) => i = j)
               /\ \A j \in 1..Len(out) : ~IsAnswer(out[j])
    <3>1. i + 1 \in 1..n /\ IsRequest(in[i + 1]) /\ new[i] = in[i + 1]
      BY <1>2, <2>1
    <3>2. /\ Fits(k, in[i + 1]) /\ (\A j \in 1..n : IsRequest(in[j]) => i + 1 = j)
          /\ \A j \in 1..Len(out) : ~IsAnswer(out[j])
      BY <3>1 DEF OneRpc
    <3>3. ASSUME NEW j \in 1..Len(new), IsRequest(new[j]) PROVE i = j
      <4>1. j + 1 \in 1..n /\ IsRequest(in[j + 1])
        BY <1>2, <3>3
      <4>2. i + 1 = j + 1 /\ i \in Int /\ j \in Int
        BY <3>2, <4>1
      <4> QED  BY <4>2
    <3> QED  BY <3>1, <3>2, <3>3
  <2>2. \A i \in 1..Len(out) : IsAnswer(out[i]) =>
           /\ k.op # "none" /\ (out[i].op = "spawned" => k.op = "spawn")
           /\ out[i].op = "error" => k.op \in {"spawn", "subscribe", "join"}
           /\ \A j \in 1..Len(out) : IsAnswer(out[j]) => i = j
    BY DEF OneRpc
  <2> HIDE DEF new
  <2> QED  BY <2>1, <2>2 DEF OneRpc
<1>5. ASSUME IsRequest(Head(in)) PROVE NoRequests(new) /\ NoAnswers(out) /\ Fits(k, Head(in))
  <2>1. IsRequest(in[1])
    BY <1>1, <1>5
  <2>2. NoAnswers(out) /\ Fits(k, Head(in)) /\ \A j \in 1..n : IsRequest(in[j]) => 1 = j
    BY <1>1, <1>3, <2>1 DEF OneRpc, NoAnswers
  <2>3. ASSUME NEW i \in 1..Len(new), IsRequest(new[i]) PROVE FALSE
    <3>1. 1 = i + 1 /\ i \in Nat \ {0}
      BY <1>2, <2>2, <2>3
    <3> QED  BY <3>1
  <2> QED  BY <2>2, <2>3 DEF NoRequests
<1> QED  BY <1>4, <1>5

(* A request is sent, and a request is answered.                           *)
LEMMA Asked ==
    ASSUME NEW k, NEW in \in Seq(InFrames), NEW out, NEW f, NoRequests(in), NoAnswers(out), Fits(k, f)
    PROVE  OneRpc(k, Append(in, f), out)
<1> HIDE DEF InFrames
<1>1. /\ Len(Append(in, f)) = Len(in) + 1 /\ Len(in) \in Nat /\ Append(in, f)[Len(in) + 1] = f
      /\ \A i \in 1..Len(in) : Append(in, f)[i] = in[i]
  BY Appended
<1> DEFINE new == Append(in, f)
<1> HIDE DEF new
<1>2. \A i \in 1..Len(new) : IsRequest(new[i]) => i = Len(in) + 1 /\ new[i] = f
  BY <1>1 DEF new, NoRequests
<1> QED  BY <1>2 DEF OneRpc, new, NoAnswers

LEMMA Replied ==
    ASSUME NEW k, NEW in, NEW out \in Seq(OutFrames), NEW f, NoRequests(in), NoAnswers(out), Answers(k, f)
    PROVE  OneRpc(k, in, Append(out, f))
<1> HIDE DEF OutFrames
<1>1. /\ Len(Append(out, f)) = Len(out) + 1 /\ Len(out) \in Nat /\ Append(out, f)[Len(out) + 1] = f
      /\ \A i \in 1..Len(out) : Append(out, f)[i] = out[i]
  BY Appended
<1> DEFINE new == Append(out, f)
<1> HIDE DEF new
<1>2. \A i \in 1..Len(new) : IsAnswer(new[i]) => i = Len(out) + 1 /\ new[i] = f
  BY <1>1 DEF new, NoAnswers
<1> QED  BY <1>2 DEF OneRpc, new, NoRequests, Answers

LEMMA RpcInit == Init => Rpc
  BY DEF Init, Rpc

LEMMA RpcNext ==
    ASSUME Typed, MapsAgree, Strangers, Rpc, [Next]_vars PROVE Rpc'
<1> SUFFICES ASSUME NEW c \in Clients, app'[c] = "up"
             PROVE  OneRpc(rpc'[c], inbox'[c], outbox'[c])
  BY DEF Rpc
<1> DEFINE k == rpc[c]
           in == inbox[c]
           out == outbox[c]
<1>0. FramesOK /\ in \in Seq(InFrames) /\ out \in Seq(OutFrames)
  BY DEF Typed, FramesOK
<1>1. CASE Connect(c)
  <2>1. app[c] = "new" /\ rpc'[c] = Frame("hello", 0) /\ inbox'[c] = <<Frame("hello", 0)>>
        /\ outbox'[c] = outbox[c]
    BY <1>1, Functions DEF Connect
  <2>2. outbox[c] = <<>>
    BY <2>1 DEF Strangers
  <2>3. Len(<<Frame("hello", 0)>>) = 1 /\ Len(<<>>) = 0
    OBVIOUS
  <2>4. \A i \in 1..0 : FALSE
    OBVIOUS
  <2> QED  BY <2>1, <2>2, <2>3, <2>4 DEF OneRpc, Fits, Frame
<1>2. ASSUME app[c] = "up" PROVE OneRpc(k, in, out)
  BY <1>2 DEF Rpc
<1>3. CASE Receive(c)
  <2> DEFINE f == Head(out)
  <2>1. out # <<>> /\ app[c] = "up" /\ outbox'[c] = Tail(out)
    BY <1>3, Functions DEF Receive
  <2> HIDE DEF in, k, out, f
  <2>2. OneRpc(k, in, Tail(out))
    BY <1>0, <1>2, <2>1, LessOut
  <2>3. IsAnswer(f) => NoRequests(in) /\ NoAnswers(Tail(out)) /\ Answers(k, f)
    BY <1>0, <1>2, <2>1, LessOut DEF f
  <2>4. CASE UNCHANGED <<rpc, inbox>>
    BY <2>1, <2>2, <2>4 DEF k, in
  <2>5. CASE f.op \in {"ok", "error", "spawned"} /\ Answered(c, f)
    <3>1. NoRequests(in) /\ NoAnswers(Tail(out))
      BY <2>3, <2>5 DEF IsAnswer
    <3>2. CASE \E op \in OpKinds : \E a :
                 /\ rpc' = [rpc EXCEPT ![c] = Frame(IF op = "subscribe" THEN "join" ELSE op, a)]
                 /\ Send(c, Frame(op, a))
      <4>1. PICK op \in OpKinds :
              \E b : /\ rpc' = [rpc EXCEPT ![c] = Frame(IF op = "subscribe" THEN "join" ELSE op, b)]
                     /\ Send(c, Frame(op, b))
        BY <3>2
      <4>5. PICK a : /\ rpc' = [rpc EXCEPT ![c] = Frame(IF op = "subscribe" THEN "join" ELSE op, a)]
                     /\ Send(c, Frame(op, a))
        BY <4>1
      <4> DEFINE r == Frame(IF op = "subscribe" THEN "join" ELSE op, a)
      <4>2. rpc'[c] = r /\ inbox'[c] = Append(in, Frame(op, a))
        BY <4>5, Functions DEF Send, in
      <4>3. Fits(r, Frame(op, a))
        BY DEF Fits, Frame
      <4> HIDE DEF r
      <4> QED  BY <1>0, <2>1, <3>1, <4>2, <4>3, Asked
    <3>3. CASE UNCHANGED inbox
      BY <2>1, <3>1, <3>3, Idle DEF in
    <3>4. CASE /\ rpc' = [rpc EXCEPT ![c] = Frame("join", f.arg)]
               /\ Send(c, Frame("subscribe", f.arg))
      BY <3>2, <3>4 DEF OpKinds
    <3>5. CASE /\ rpc' = [rpc EXCEPT ![c] = Frame("close", rpc[c].arg)]
               /\ Send(c, Frame("close", rpc[c].arg))
      BY <3>2, <3>5 DEF OpKinds
    <3> QED  BY <2>5, <3>3, <3>4, <3>5 DEF Answered
  <2> QED  BY <1>3, <2>4, <2>5 DEF Receive, f, out
<1>4. ASSUME NEW op \in Ops, NEW p \in Panes, Ask(c, op, p) PROVE OneRpc(rpc'[c], inbox'[c], outbox'[c])
  <2>1. app[c] = "up" /\ k = NoRpc /\ inbox'[c] = Append(in, Frame(op, p)) /\ outbox'[c] = out
    BY <1>4, Functions DEF Ask, Send
  <2> HIDE DEF in, out
  <2>2. NoRequests(in) /\ NoAnswers(out)
    BY <1>2, <2>1, NotIdle
  <2>3. CASE op \in {"focus", "hide"}
    <3>1. ~IsRequest(Frame(op, p)) /\ rpc'[c] = k
      BY <1>4, <2>3 DEF Ask, IsRequest, Frame
    <3> HIDE DEF k
    <3> QED  BY <1>0, <1>2, <2>1, <3>1, MoreIn
  <2>4. CASE op \notin {"focus", "hide"}
    <3>1. rpc'[c] = Frame(op, p)
      BY <1>4, <2>4, Functions DEF Ask
    <3>2. Fits(Frame(op, p), Frame(op, p))
      BY DEF Fits, Frame
    <3> QED  BY <1>0, <2>1, <2>2, <3>1, <3>2, Asked
  <2> QED  BY <2>3, <2>4
<1>5. ASSUME NEW r \in asked[c], Fulfill(c, r) PROVE OneRpc(rpc'[c], inbox'[c], outbox'[c])
  <2>1. /\ app[c] = "up" /\ rpc'[c] = k /\ inbox'[c] = Append(in, Frame("reply", r)) /\ outbox'[c] = out
        /\ ~IsRequest(Frame("reply", r))
    BY <1>5, Functions DEF Fulfill, Send, IsRequest, Frame
  <2> HIDE DEF in, out, k
  <2> QED  BY <1>0, <1>2, <2>1, MoreIn
<1>6. CASE HandleDecodedFrame(c)
  <2> DEFINE f == Head(in)
  <2>1. in # <<>> /\ app[c] = "up" /\ rpc'[c] = k /\ inbox'[c] = Tail(in)
    BY <1>6, Functions DEF HandleDecodedFrame
  <2>2. \/ DispatchHello(c, f) \/ DispatchSpawnPane(c, f) \/ DispatchClosePane(c, f)
        \/ DispatchSubscribe(c, f) \/ DispatchUnsubscribe(c, f) \/ DispatchSetPanePriority(c, f)
        \/ DispatchReplyHostRequest(c, f) \/ DispatchShutdown(c, f)
    BY <1>6 DEF HandleDecodedFrame
  <2>3. OneRpc(k, in, out)
    BY <1>2, <2>1
  <2> HIDE DEF in, k
  <2>4. OneRpc(k, Tail(in), out)
    BY <1>0, <2>1, <2>3, LessIn
  <2>5. IsRequest(f) => NoRequests(Tail(in)) /\ NoAnswers(out) /\ Fits(k, f)
    BY <1>0, <2>1, <2>3, LessIn
  <2> HIDE DEF f
  <2>6. CASE UNCHANGED outbox
    BY <2>1, <2>4, <2>6
  <2>7. ASSUME NEW g, Queue(c, g), IsRequest(f), g.op = "spawned" => f.op = "spawn",
               g.op = "error" => f.op \in {"spawn", "subscribe"}
        PROVE  OneRpc(rpc'[c], inbox'[c], outbox'[c])
    <3>1. outbox'[c] = Append(out, g)
      BY <2>1, <2>7, Functions DEF Queue
    <3>2. Answers(k, g)
      BY <2>5, <2>7 DEF Fits, Answers, IsRequest
    <3> HIDE DEF out
    <3> QED  BY <1>0, <2>1, <2>5, <2>7, <3>1, <3>2, Replied
  <2>8. CASE DispatchSpawnPane(c, f)
    <3>1. f.op = "spawn" /\ \E g : Queue(c, g)
      BY <2>8 DEF DispatchSpawnPane
    <3>2. IsRequest(f)
      BY <3>1 DEF IsRequest
    <3> QED  BY <2>7, <2>8, <3>1, <3>2 DEF DispatchSpawnPane
  <2>9. CASE DispatchSubscribe(c, f)
    <3>1. f.op = "subscribe" /\ IsRequest(f) /\ Queue(c, Frame(IF f.arg \in panes THEN "ok" ELSE "error", 0))
      BY <2>9 DEF DispatchSubscribe, IsRequest
    <3>2. Frame(IF f.arg \in panes THEN "ok" ELSE "error", 0).op \in {"ok", "error"}
      BY DEF Frame
    <3> QED  BY <2>7, <3>1, <3>2
  <2>10. CASE DispatchHello(c, f) \/ DispatchClosePane(c, f) \/ DispatchUnsubscribe(c, f)
                \/ DispatchShutdown(c, f)
    <3>1. f.op \in {"hello", "close", "unsubscribe", "shutdown"} /\ Queue(c, Frame("ok", 0))
      BY <2>10 DEF DispatchHello, DispatchClosePane, DispatchUnsubscribe, DispatchShutdown
    <3>2. IsRequest(f) /\ Frame("ok", 0).op = "ok"
      BY <3>1 DEF IsRequest, Frame
    <3> QED  BY <2>7, <3>1, <3>2
  <2>11. CASE DispatchSetPanePriority(c, f) \/ DispatchReplyHostRequest(c, f)
    BY <2>6, <2>11 DEF DispatchSetPanePriority, DispatchReplyHostRequest
  <2> QED  BY <2>2, <2>8, <2>9, <2>10, <2>11
<1>7. CASE Notified(c)
  <2>1. app[c] = "up" /\ rpc'[c] = k /\ inbox'[c] = in
        /\ \E f \in OutFrames : ~IsAnswer(f) /\ outbox'[c] = Append(out, f)
    BY <1>7 DEF Notified, IsAnswer
  <2> HIDE DEF in, out, k
  <2> QED  BY <1>0, <1>2, <2>1, MoreOut
<1>8. CASE Untouched(c)
  BY <1>2, <1>8 DEF Untouched
<1>9. CASE Leave(c) \/ ClientEnds(c)
  BY <1>9, Functions DEF Leave, ClientEnds, clientVars
<1> QED  BY <1>1, <1>3, <1>4, <1>5, <1>6, <1>7, <1>8, <1>9, ClientSteps

-----------------------------------------------------------------------------
(* Host requests.                                                          *)

LEMMA OwedInit == Init => OwedInv
  BY DEF Init, OwedInv

(* A request that stays pending stays owed.                                *)
LEMMA StaysOwed ==
    ASSUME Typed, MapsAgree, Strangers, PendingHasResponder, [Next]_vars,
           NEW r \in pending, r \in pending', Owes(r.responder, r.id)
    PROVE  Owes(r.responder, r.id)'
<1> DEFINE c == r.responder
           id == r.id
           in == inbox[c]
           out == outbox[c]
<1>0. /\ FramesOK /\ c \in Clients /\ c \in connections
      /\ in \in Seq(InFrames) /\ out \in Seq(OutFrames)
  BY DEF Typed, TypeOK, FramesOK, PendingHasResponder
<1> HIDE DEF c, id
<1> SUFFICES \/ app'[c] = "gone"
             \/ \E i \in 1..Len(outbox'[c]) : outbox'[c][i] = Frame("host", id)
             \/ id \in asked'[c]
             \/ \E i \in 1..Len(inbox'[c]) : inbox'[c][i] = Frame("reply", id)
  BY DEF Owes, c, id
<1>1. \/ app[c] = "gone" \/ id \in asked[c]
      \/ \E i \in 1..Len(out) : out[i] = Frame("host", id)
      \/ \E i \in 1..Len(in) : in[i] = Frame("reply", id)
  BY DEF Owes, c, id
<1> HIDE DEF InFrames, OutFrames
<1>2. ASSUME NEW f, NEW i \in 1..Len(in), in[i] = Frame("reply", id), inbox'[c] = Append(in, f)
      PROVE  \E j \in 1..Len(inbox'[c]) : inbox'[c][j] = Frame("reply", id)
  <2> HIDE DEF in
  <2>1. Len(Append(in, f)) = Len(in) + 1 /\ Len(in) \in Nat /\ Append(in, f)[i] = in[i]
    BY <1>0, Appended
  <2> QED  BY <1>2, <2>1
<1>3. ASSUME NEW f, NEW i \in 1..Len(out), out[i] = Frame("host", id), outbox'[c] = Append(out, f)
      PROVE  \E j \in 1..Len(outbox'[c]) : outbox'[c][j] = Frame("host", id)
  <2> HIDE DEF out
  <2>1. Len(Append(out, f)) = Len(out) + 1 /\ Len(out) \in Nat /\ Append(out, f)[i] = out[i]
    BY <1>0, Appended
  <2> QED  BY <1>3, <2>1
<1>4. CASE Connect(c)
  BY <1>0, <1>4 DEF Connect, Strangers
<1>5. CASE Receive(c)
  <2> DEFINE f == Head(out)
  <2>1. /\ out # <<>> /\ app[c] = "up" /\ outbox'[c] = Tail(out)
        /\ inbox' = inbox \/ \E g : inbox'[c] = Append(in, g)
    BY <1>0, <1>5, Functions DEF Receive, Answered, Send
  <2>2. \/ asked' = asked
        \/ f.op = "host" /\ asked' = [asked EXCEPT ![c] = @ \cup {f.arg}]
    BY <1>5 DEF Receive, Answered
  <2>3. CASE \E i \in 1..Len(in) : in[i] = Frame("reply", id)
    BY <1>2, <2>1, <2>3
  <2>4. CASE id \in asked[c]
    BY <1>0, <2>2, <2>4, Functions
  <2>5. ASSUME NEW i \in 1..Len(out), out[i] = Frame("host", id)
        PROVE  id \in asked'[c] \/ \E j \in 1..Len(outbox'[c]) : outbox'[c][j] = Frame("host", id)
    <3>1. /\ Len(out) \in Nat \ {0} /\ Len(Tail(out)) = Len(out) - 1 /\ Head(out) = out[1]
          /\ \A j \in 1..(Len(out) - 1) : Tail(out)[j] = out[j + 1]
      BY <1>0, <2>1, Shifted
    <3>2. CASE i = 1
      <4>1. f.op = "host" /\ f.arg = id
        BY <2>5, <3>1, <3>2 DEF Frame
      <4>2. asked' = [asked EXCEPT ![c] = @ \cup {f.arg}]
        BY <1>5, <4>1 DEF Receive
      <4> QED  BY <1>0, <4>1, <4>2, Functions
    <3>3. CASE i # 1
      <4> HIDE DEF out
      <4>1. i - 1 \in 1..(Len(out) - 1) /\ (i - 1) + 1 = i
        BY <2>5, <3>1, <3>3
      <4>2. Tail(out)[i - 1] = Frame("host", id)
        BY <2>5, <3>1, <4>1
      <4> QED  BY <2>1, <3>1, <4>1, <4>2
    <3> QED  BY <3>2, <3>3
  <2> QED  BY <1>1, <2>1, <2>3, <2>4, <2>5
<1>6. CASE Leave(c)
  BY <1>0, <1>6, Functions DEF Leave
<1>7. ASSUME NEW op \in Ops, NEW p \in Panes, Ask(c, op, p)
      PROVE  \/ app'[c] = "gone" \/ id \in asked'[c]
             \/ \E i \in 1..Len(outbox'[c]) : outbox'[c][i] = Frame("host", id)
             \/ \E i \in 1..Len(inbox'[c]) : inbox'[c][i] = Frame("reply", id)
  <2>1. UNCHANGED <<app, asked, outbox>> /\ inbox'[c] = Append(in, Frame(op, p))
    BY <1>0, <1>7, Functions DEF Ask, Send
  <2> QED  BY <1>1, <1>2, <2>1
<1>8. ASSUME NEW x \in asked[c], Fulfill(c, x)
      PROVE  \/ app'[c] = "gone" \/ id \in asked'[c]
             \/ \E i \in 1..Len(outbox'[c]) : outbox'[c][i] = Frame("host", id)
             \/ \E i \in 1..Len(inbox'[c]) : inbox'[c][i] = Frame("reply", id)
  <2>1. UNCHANGED <<app, outbox>> /\ inbox'[c] = Append(in, Frame("reply", x))
        /\ asked'[c] = asked[c] \ {x}
    BY <1>0, <1>8, Functions DEF Fulfill, Send
  <2>2. CASE id = x
    <3> HIDE DEF in
    <3>1. /\ Len(Append(in, Frame("reply", x))) = Len(in) + 1 /\ Len(in) \in Nat
          /\ Append(in, Frame("reply", x))[Len(in) + 1] = Frame("reply", x)
      BY <1>0, Appended
    <3>2. Len(in) + 1 \in 1..(Len(in) + 1)
      BY <3>1
    <3> QED  BY <2>1, <2>2, <3>1, <3>2
  <2>3. CASE id # x
    BY <1>1, <1>2, <2>1, <2>3
  <2> QED  BY <2>2, <2>3
<1>9. CASE HandleDecodedFrame(c)
  <2> DEFINE f == Head(in)
  <2>1. in # <<>> /\ UNCHANGED <<app, asked>> /\ inbox'[c] = Tail(in)
    BY <1>0, <1>9, Functions DEF HandleDecodedFrame
  <2>2. \/ DispatchHello(c, f) \/ DispatchSpawnPane(c, f) \/ DispatchClosePane(c, f)
        \/ DispatchSubscribe(c, f) \/ DispatchUnsubscribe(c, f) \/ DispatchSetPanePriority(c, f)
        \/ DispatchReplyHostRequest(c, f) \/ DispatchShutdown(c, f)
    BY <1>9 DEF HandleDecodedFrame
  <2> HIDE DEF f
  <2>3. outbox' = outbox \/ \E g : Queue(c, g)
    BY <2>2 DEF DispatchHello, DispatchSpawnPane, DispatchClosePane, DispatchSubscribe,
       DispatchUnsubscribe, DispatchSetPanePriority, DispatchReplyHostRequest, DispatchShutdown
  <2>4. outbox'[c] = out \/ \E g : outbox'[c] = Append(out, g)
    BY <1>0, <2>3, Functions DEF Queue
  <2>5. ASSUME NEW i \in 1..Len(in), in[i] = Frame("reply", id)
        PROVE  \E j \in 1..Len(inbox'[c]) : inbox'[c][j] = Frame("reply", id)
    <3>1. /\ Len(in) \in Nat \ {0} /\ Len(Tail(in)) = Len(in) - 1 /\ f = in[1]
          /\ \A j \in 1..(Len(in) - 1) : Tail(in)[j] = in[j + 1]
      BY <1>0, <2>1, Shifted DEF f
    <3>2. CASE i = 1
      <4>1. f.op = "reply" /\ f.arg = id
        BY <2>5, <3>1, <3>2 DEF Frame
      <4>2. DispatchReplyHostRequest(c, f)
        BY <2>2, <4>1 DEF DispatchHello, DispatchSpawnPane, DispatchClosePane, DispatchSubscribe,
           DispatchUnsubscribe, DispatchSetPanePriority, DispatchShutdown
      <4> QED  BY <4>1, <4>2 DEF DispatchReplyHostRequest, c, id
    <3>3. CASE i # 1
      <4> HIDE DEF in
      <4>1. i - 1 \in 1..(Len(in) - 1) /\ (i - 1) + 1 = i
        BY <2>5, <3>1, <3>3
      <4>2. Tail(in)[i - 1] = Frame("reply", id)
        BY <2>5, <3>1, <4>1
      <4> QED  BY <2>1, <3>1, <4>1, <4>2
    <3> QED  BY <3>2, <3>3
  <2> QED  BY <1>1, <1>3, <2>1, <2>4, <2>5
<1>10. CASE ClientEnds(c)
  BY <1>10 DEF ClientEnds, DisconnectClient, c
<1>11. CASE Notified(c)
  BY <1>1, <1>3, <1>11 DEF Notified
<1>12. CASE Untouched(c)
  BY <1>1, <1>12 DEF Untouched
<1> QED  BY <1>0, <1>4, <1>5, <1>6, <1>7, <1>8, <1>9, <1>10, <1>11, <1>12, ClientSteps

(* A token is registered with the frame that goes to its responder.        *)
LEMMA NewlyOwed ==
    ASSUME Typed, [Next]_vars, NEW r \in pending', r \notin pending
    PROVE  Owes(r.responder, r.id)'
<1> USE DEF clientVars, paneVars, subVars, loopVars, exitVars, idVars, worldVars
<1>1. RouteNotification
  <2>1. ASSUME NEW d \in Clients, HandleDecodedFrame(d) PROVE pending' \subseteq pending
    BY <2>1 DEF HandleDecodedFrame, DispatchHello, DispatchSpawnPane, DispatchClosePane,
       CleanupPaneState, DispatchSubscribe, DispatchUnsubscribe, DispatchSetPanePriority,
       DispatchReplyHostRequest, DispatchShutdown
  <2>2. ASSUME NEW d \in Clients, Connect(d) \/ Receive(d) \/ Leave(d) \/ ClientEnds(d)
                 \/ (\E op \in Ops, p \in Panes : Ask(d, op, p)) \/ \E x \in asked[d] : Fulfill(d, x)
        PROVE  pending' \subseteq pending
    BY <2>2 DEF Connect, Receive, Leave, ClientEnds, DisconnectClient, Ask, Fulfill
  <2>3. (\E p \in Panes : ChildExits(p) \/ AsksHost(p)) \/ Accept \/ BeginDrain \/ PollEvent
        \/ DrainNotifications \/ CleanupClosed \/ EndTurn \/ GraceEnds \/ UNCHANGED vars
          => pending' \subseteq pending
    BY DEF ChildExits, AsksHost, Accept, BeginDrain, PollEvent, DrainNotifications, CleanupClosed,
       CleanupPaneState, EndTurn, GraceEnds, vars
  <2> QED  BY <2>1, <2>2, <2>3 DEF Next, Drain
<1> DEFINE n == Head(notification_buf)
<1>2. n.arg \in Panes /\ UNCHANGED app
  BY <1>1, HeadOfSequence DEF RouteNotification, Typed, TypeOK
<1>3. DispatchHostRequest(n.arg) /\ subscriptions[n.arg] \subseteq Clients
  BY <1>1, <1>2 DEF RouteNotification, Typed, TypeOK
<1> HIDE DEF n
<1>4. PICK c \in Clients : r.responder = c /\ r.id = nextRequest /\ Queue(c, Frame("host", nextRequest))
  BY <1>3 DEF DispatchHostRequest
<1>5. CASE app[c] = "gone"
  BY <1>2, <1>4, <1>5 DEF Owes
<1>6. CASE app[c] # "gone"
  <2> DEFINE f == Frame("host", nextRequest)
             out == outbox[c]
  <2>1. outbox'[c] = Append(out, f) /\ out \in Seq(OutFrames)
    BY <1>4, <1>6, Functions DEF Queue, Typed, FramesOK
  <2> HIDE DEF out, OutFrames, f
  <2>2. Len(Append(out, f)) = Len(out) + 1 /\ Len(out) \in Nat /\ Append(out, f)[Len(out) + 1] = f
    BY <2>1, Appended
  <2>3. Len(out) + 1 \in 1..Len(outbox'[c])
    BY <2>1, <2>2
  <2> QED  BY <1>4, <2>1, <2>2, <2>3 DEF Owes, f
<1> QED  BY <1>5, <1>6

LEMMA OwedNext ==
    ASSUME Typed, MapsAgree, Strangers, PendingHasResponder, OwedInv, [Next]_vars PROVE OwedInv'
<1> SUFFICES ASSUME NEW r \in pending' PROVE Owes(r.responder, r.id)'
  BY DEF OwedInv
<1>1. CASE r \in pending
  BY <1>1, StaysOwed DEF OwedInv
<1>2. CASE r \notin pending
  BY <1>2, NewlyOwed
<1> QED  BY <1>1, <1>2

-----------------------------------------------------------------------------
(* What a client shows once more frames are read.                          *)

LEMMA NothingShown == ASSUME NEW k, NEW p, NEW i PROVE ~Shows(k, {}, <<>>, p, i)
<1>1. Len(<<>>) = 0 /\ \A j \in 1..0 : FALSE
  OBVIOUS
<1> QED  BY <1>1 DEF Shows

LEMMA ShowsToConnected ==
    ASSUME Typed, Strangers, NEW c \in Clients, NEW p, NEW i, Shows(rpc[c], shown[c], outbox[c], p, i)
    PROVE  app[c] = "up" /\ c \in connections
<1> SUFFICES ASSUME app[c] # "up" \/ c \notin connections PROVE FALSE
  OBVIOUS
<1>1. shown[c] = {} /\ outbox[c] = <<>>
  BY DEF Strangers
<1>2. Shows(rpc[c], {}, <<>>, p, i)
  BY <1>1
<1> QED  BY <1>2, NothingShown

(* A frame is appended: what a client will show is told as before.         *)
LEMMA MoreShown ==
    ASSUME NEW k, NEW sh, NEW out \in Seq(OutFrames), NEW f, NEW p, NEW i \in 0..(Len(out) + 1),
           Shows(k, sh, Append(out, f), p, i)
    PROVE  \/ i \in 0..Len(out) /\ Shows(k, sh, out, p, i)
           \/ i = Len(out) + 1 /\ f.op = "ok" /\ k.op \in {"join", "subscribe"} /\ k.arg = p
<1> HIDE DEF OutFrames
<1>1. /\ Len(Append(out, f)) = Len(out) + 1 /\ Len(out) \in Nat /\ Append(out, f)[Len(out) + 1] = f
      /\ \A j \in 1..Len(out) : Append(out, f)[j] = out[j]
  BY Appended
<1> DEFINE n == Len(out)
           new == Append(out, f)
<1> HIDE DEF n, new
<1>2. n \in Nat /\ i \in 0..(n + 1) /\ (i = n + 1 \/ i = 0 \/ i \in 1..n)
  BY <1>1 DEF n
<1>3. CASE i = n + 1
  <2>1. new[i] = f /\ i # 0
    BY <1>1, <1>2, <1>3 DEF n, new
  <2> QED  BY <1>3, <2>1 DEF Shows, new, n
<1>4. CASE i = 0
  BY <1>2, <1>4 DEF Shows, n
<1>5. CASE i \in 1..n
  <2>1. new[i] = out[i] /\ i # 0 /\ i \in 0..n
    BY <1>1, <1>2, <1>5 DEF n, new
  <2> QED  BY <1>5, <2>1 DEF Shows, new, n
<1> QED  BY <1>2, <1>3, <1>4, <1>5

LEMMA MoreTold ==
    ASSUME NEW out \in Seq(OutFrames), NEW f, NEW p, NEW i \in 0..Len(out)
    PROVE  /\ Told(out, p, i) => Told(Append(out, f), p, i)
           /\ f = Frame("exited", p) => Told(Append(out, f), p, i)
<1> HIDE DEF OutFrames
<1>1. /\ Len(Append(out, f)) = Len(out) + 1 /\ Len(out) \in Nat /\ Append(out, f)[Len(out) + 1] = f
      /\ \A j \in 1..Len(out) : Append(out, f)[j] = out[j]
  BY Appended
<1>2. /\ i < Len(out) + 1 /\ Len(out) + 1 \in 1..(Len(out) + 1)
      /\ \A j \in 1..Len(out) : j \in 1..(Len(out) + 1)
  BY <1>1
<1> QED  BY <1>1, <1>2 DEF Told

(* A frame is read: what the client shows it showed before, the news that  *)
(* was to come still is, and it is still closing what it was closing.      *)
LEMMA ReadTold ==
    ASSUME NEW out \in Seq(OutFrames), out # <<>>, NEW p, NEW i \in Nat,
           Told(out, p, i), i = 0 => Head(out) # Frame("exited", p)
    PROVE  Told(Tail(out), p, IF i = 0 THEN 0 ELSE i - 1)
<1> HIDE DEF OutFrames
<1>1. /\ Len(out) \in Nat \ {0} /\ Len(Tail(out)) = Len(out) - 1 /\ Head(out) = out[1]
      /\ \A j \in 1..(Len(out) - 1) : Tail(out)[j] = out[j + 1]
  BY Shifted
<1>2. PICK j \in 1..Len(out) : i < j /\ out[j] = Frame("exited", p)
  BY DEF Told
<1>3. j # 1
  BY <1>1, <1>2
<1> DEFINE h == j - 1
<1>4. h \in 1..(Len(out) - 1) /\ h + 1 = j /\ (IF i = 0 THEN 0 ELSE i - 1) < h
  BY <1>1, <1>2, <1>3
<1> HIDE DEF h
<1>5. Tail(out)[h] = Frame("exited", p)
  BY <1>1, <1>2, <1>4
<1> QED  BY <1>1, <1>4, <1>5 DEF Told

Before(c, p, i) ==
    \E j \in 0..Len(outbox[c]) :
        /\ Shows(rpc[c], shown[c], outbox[c], p, j)
        /\ Told(outbox[c], p, j) => Told(outbox'[c], p, i)
        /\ Closing(rpc[c], p) => Closing(rpc'[c], p)

LEMMA Read ==
    ASSUME Typed, Rpc, NEW c \in Clients, Receive(c), NEW p \in Panes, NEW i \in 0..Len(outbox'[c]),
           Shows(rpc'[c], shown'[c], outbox'[c], p, i)
    PROVE  Before(c, p, i)
<1> DEFINE out == outbox[c]
           k == rpc[c]
           f == Head(out)
<1>1. /\ out \in Seq(OutFrames) /\ out # <<>> /\ outbox'[c] = Tail(out)
      /\ OneRpc(k, inbox[c], out)
  BY Functions DEF Receive, Typed, FramesOK, Rpc
<1> HIDE DEF OutFrames
<1>2. /\ Len(out) \in Nat \ {0} /\ Len(Tail(out)) = Len(out) - 1 /\ f = out[1]
      /\ \A j \in 1..(Len(out) - 1) : Tail(out)[j] = out[j + 1]
  BY <1>1, Shifted
<1>3. IsAnswer(f) => NoAnswers(Tail(out)) /\ Answers(k, f)
  BY <1>1, LessOut
<1> HIDE DEF f, out, k
<1>4. i \in Nat /\ 1 \in 0..Len(out) /\ 0 \in 0..Len(out) /\ 1 \in 1..Len(out)
  BY <1>1, <1>2
<1>5. f \in OutFrames
  BY <1>1, HeadOfSequence DEF f
(* The first frame changes neither p nor the RPC. *)
<1>6. ASSUME i = 0, p \in shown[c], f # Frame("exited", p), Closing(k, p) => Closing(rpc'[c], p)
      PROVE  Before(c, p, i)
  <2>1. Shows(k, shown[c], out, p, 0)
    BY <1>6 DEF Shows
  <2>2. Told(out, p, 0) => Told(Tail(out), p, i)
    BY <1>1, <1>6, ReadTold DEF f
  <2> QED  BY <1>1, <1>4, <1>6, <2>1, <2>2 DEF Before, out, k
<1>7. ASSUME i # 0, rpc'[c] = k PROVE Before(c, p, i)
  <2>1. i \in 1..(Len(out) - 1) /\ Tail(out)[i].op = "ok" /\ k.op \in {"join", "subscribe"} /\ k.arg = p
    BY <1>1, <1>2, <1>4, <1>7 DEF Shows
  <2> DEFINE j == i + 1
  <2>2. j \in 1..Len(out) /\ j \in 0..Len(out) /\ j # 0 /\ j - 1 = i /\ j \in Nat
    BY <1>2, <2>1
  <2>3. out[j].op = "ok"
    BY <1>2, <2>1
  <2> HIDE DEF j
  <2>4. Shows(k, shown[c], out, p, j)
    BY <2>1, <2>2, <2>3 DEF Shows
  <2>5. Told(out, p, j) => Told(Tail(out), p, i)
    BY <1>1, <2>2, ReadTold
  <2> QED  BY <1>1, <1>7, <2>2, <2>4, <2>5 DEF Before, out, k
<1>8. CASE f.op \notin {"ok", "error", "spawned"}
  <2>1. rpc'[c] = k /\ (shown' = shown \/ (f.op = "exited" /\ shown' = [shown EXCEPT ![c] = @ \ {f.arg}]))
    <3>1. \/ rpc' = rpc /\ f.op = "exited" /\ shown' = [shown EXCEPT ![c] = @ \ {f.arg}]
          \/ rpc' = rpc /\ shown' = shown
      BY <1>8 DEF Receive, f, out
    <3> QED  BY <3>1 DEF k
  <2>2. CASE i = 0
    <3>1. p \in shown'[c]
      BY <2>2, <1>4 DEF Shows
    <3>2. p \in shown[c] /\ f # Frame("exited", p)
      <4>1. CASE f.op = "exited" /\ shown' = [shown EXCEPT ![c] = @ \ {f.arg}]
        BY <3>1, <4>1, Functions DEF Frame
      <4>2. CASE shown' = shown /\ f.op # "exited"
        BY <3>1, <4>2 DEF Frame
      <4>3. f.op = "exited" => shown' = [shown EXCEPT ![c] = @ \ {f.arg}]
        BY <1>8 DEF Receive, f, out
      <4> QED  BY <2>1, <4>1, <4>2, <4>3
    <3> QED  BY <1>6, <2>1, <2>2, <3>2
  <2> QED  BY <1>7, <2>1, <2>2
<1>9. CASE f.op \in {"ok", "error", "spawned"}
  <2>1. Answered(c, f)
    BY <1>9 DEF Receive, f, out
  <2>2. i = 0 /\ p \in shown'[c]
    <3>1. NoAnswers(Tail(out))
      BY <1>3, <1>9 DEF IsAnswer
    <3>2. i \in 1..Len(Tail(out)) => Tail(out)[i].op # "ok"
      BY <3>1 DEF NoAnswers, IsAnswer
    <3> QED  BY <1>1, <3>2 DEF Shows
  <2>3. f # Frame("exited", p)
    BY <1>9 DEF Frame
  <2>4. Answers(k, f)
    BY <1>3, <1>9 DEF IsAnswer
  <2>5. CASE shown' = shown
    <3>1. ~Closing(k, p)
      <4>1. f.op # "ok" \/ shown'[c] = shown[c]
        BY <2>5
      <4>2. CASE f.op \in {"error", "spawned"}
        BY <2>4, <4>2 DEF Answers, Closing
      <4>3. CASE f.op = "ok"
        <5>1. shown'[c] = IF k.op \in {"join", "subscribe"} THEN shown[c] \cup {k.arg}
                          ELSE shown[c] \ {k.arg}
          BY <2>1, <4>3, Functions DEF Answered, k
        <5> QED  BY <2>2, <5>1 DEF Closing
      <4> QED  BY <1>9, <4>2, <4>3
    <3> QED  BY <1>6, <2>2, <2>3, <2>5, <3>1
  <2>6. CASE f.op = "ok"
    <3>1. shown'[c] = IF k.op \in {"join", "subscribe"} THEN shown[c] \cup {k.arg}
                      ELSE shown[c] \ {k.arg}
      BY <2>1, <2>6, Functions DEF Answered, k
    <3>2. ~Closing(k, p)
      BY <2>2, <3>1 DEF Closing
    <3>3. CASE p \in shown[c]
      BY <1>6, <2>2, <2>3, <3>2, <3>3
    <3>4. CASE p \notin shown[c]
      <4>1. k.op \in {"join", "subscribe"} /\ k.arg = p
        BY <2>2, <3>1, <3>4
      <4>2. Shows(k, shown[c], out, p, 1)
        BY <1>2, <1>4, <2>6, <4>1 DEF Shows
      <4>3. Told(out, p, 1) => Told(Tail(out), p, 0)
        BY <1>1, ReadTold
      <4> QED  BY <1>1, <1>4, <2>2, <3>2, <4>2, <4>3 DEF Before, out, k
    <3> QED  BY <3>3, <3>4
  <2> QED  BY <2>1, <2>5, <2>6 DEF Answered
<1> QED  BY <1>8, <1>9

-----------------------------------------------------------------------------
(* ServedInv and AnnouncedInv, step by step.                               *)

(* What a client shows after a step it showed before, except what the      *)
(* daemon has just subscribed it to.                                       *)
LEMMA ShownBefore ==
    ASSUME Typed, MapsAgree, Strangers, Rpc, [Next]_vars, NEW c \in Clients, NEW p \in Panes,
           NEW i \in 0..Len(outbox'[c]), Shows(rpc'[c], shown'[c], outbox'[c], p, i)
    PROVE  \/ Before(c, p, i)
           \/ HandleDecodedFrame(c) /\ p \in subscribed'[c]
<1> DEFINE k == rpc[c]
           out == outbox[c]
<1>0. out \in Seq(OutFrames) /\ Len(out) \in Nat
  <2>1. out \in Seq(OutFrames)
    BY DEF Typed, FramesOK
  <2> HIDE DEF OutFrames, out
  <2> QED  BY <2>1
<1>1. ASSUME rpc'[c] = rpc[c], shown'[c] = shown[c], outbox'[c] = outbox[c] PROVE Before(c, p, i)
  BY <1>1 DEF Before
<1>2. ASSUME NEW f, f.op # "ok" \/ ~(k.op \in {"join", "subscribe"} /\ k.arg = p), rpc'[c] = rpc[c],
             shown'[c] = shown[c], outbox'[c] = Append(out, f)
      PROVE  Before(c, p, i)
  <2> HIDE DEF OutFrames, out
  <2>1. i \in 0..(Len(out) + 1)
    BY <1>0, <1>2, Appended
  <2>2. i \in 0..Len(out) /\ Shows(k, shown[c], out, p, i)
    BY <1>0, <1>2, <2>1, MoreShown
  <2>3. Told(out, p, i) => Told(outbox'[c], p, i)
    BY <1>0, <1>2, <2>2, MoreTold
  <2> QED  BY <1>2, <2>2, <2>3 DEF Before, out
<1>3. CASE Untouched(c)
  BY <1>1, <1>3 DEF Untouched
<1>4. CASE Notified(c)
  BY <1>2, <1>4 DEF Notified
<1>5. CASE Receive(c)
  BY <1>5, Read
<1>6. ASSUME shown'[c] = {}, outbox'[c] = <<>> PROVE FALSE
  <2>1. Shows(rpc'[c], {}, <<>>, p, i)
    BY <1>6
  <2> QED  BY <2>1, NothingShown
<1>7. CASE Leave(c)
  BY <1>6, <1>7, Functions DEF Leave
<1>8. CASE Connect(c)
  BY <1>6, <1>8 DEF Connect, Strangers
<1>9. ASSUME NEW op \in Ops, NEW q \in Panes, Ask(c, op, q) PROVE Before(c, p, i)
  <2>1. UNCHANGED <<shown, outbox>> /\ k = NoRpc /\ app[c] = "up"
    BY <1>9 DEF Ask
  <2>2. NoAnswers(out)
    BY <2>1, NotIdle DEF Rpc
  <2>3. i = 0 /\ p \in shown[c]
    BY <2>1, <2>2 DEF Shows, NoAnswers, IsAnswer
  <2>4. Shows(k, shown[c], out, p, 0) /\ 0 \in 0..Len(out)
    BY <1>0, <2>3 DEF Shows
  <2>5. ~Closing(k, p)
    BY <2>1 DEF Closing, NoRpc, Frame
  <2> QED  BY <2>1, <2>3, <2>4, <2>5 DEF Before
<1>10. ASSUME NEW r, Fulfill(c, r) PROVE Before(c, p, i)
  BY <1>1, <1>10 DEF Fulfill
<1>11. CASE ClientEnds(c)
  BY <1>1, <1>11 DEF ClientEnds, clientVars
<1>12. CASE HandleDecodedFrame(c)
  <2> DEFINE f == Head(inbox[c])
  <2>1. inbox[c] # <<>> /\ UNCHANGED <<app, rpc, shown>> /\ c \in connections
    BY <1>12 DEF HandleDecodedFrame
  <2>2. \/ DispatchHello(c, f) \/ DispatchSpawnPane(c, f) \/ DispatchClosePane(c, f)
        \/ DispatchSubscribe(c, f) \/ DispatchUnsubscribe(c, f) \/ DispatchSetPanePriority(c, f)
        \/ DispatchReplyHostRequest(c, f) \/ DispatchShutdown(c, f)
    BY <1>12 DEF HandleDecodedFrame
  <2>3. CASE UNCHANGED outbox
    BY <1>1, <2>1, <2>3
  <2>4. CASE app[c] # "up"
    <3>1. app[c] = "gone" /\ shown[c] = {} /\ outbox[c] = <<>>
      BY <2>1, <2>4 DEF Strangers, Typed, TypeOK
    <3>2. outbox' = outbox \/ \E g : Queue(c, g)
      BY <2>2 DEF DispatchHello, DispatchSpawnPane, DispatchClosePane, DispatchSubscribe,
         DispatchUnsubscribe, DispatchSetPanePriority, DispatchReplyHostRequest, DispatchShutdown
    <3> QED  BY <1>6, <2>1, <3>1, <3>2, Functions DEF Queue
  <2>5. CASE app[c] = "up"
    <3>1. IsRequest(f) => Fits(k, f)
      <4>1. OneRpc(k, inbox[c], out) /\ inbox[c] \in Seq(InFrames)
        BY <2>5 DEF Rpc, Typed, FramesOK
      <4> QED  BY <2>1, <4>1, LessIn
    <3> HIDE DEF f
    <3>2. ASSUME NEW g, Queue(c, g), g.op # "ok" \/ ~(k.op \in {"join", "subscribe"} /\ k.arg = p)
          PROVE  Before(c, p, i)
      <4>1. outbox'[c] = Append(out, g)
        BY <2>5, <3>2, Functions DEF Queue
      <4> QED  BY <1>2, <2>1, <3>2, <4>1
    <3>3. CASE DispatchSpawnPane(c, f)
      <4>1. \E g : Queue(c, g) /\ g.op # "ok"
        BY <3>3 DEF DispatchSpawnPane, Frame
      <4> QED  BY <3>2, <4>1
    <3>4. CASE DispatchHello(c, f) \/ DispatchClosePane(c, f) \/ DispatchUnsubscribe(c, f)
                 \/ DispatchShutdown(c, f)
      <4>1. f.op \in {"hello", "close", "unsubscribe", "shutdown"} /\ Queue(c, Frame("ok", 0))
        BY <3>4 DEF DispatchHello, DispatchClosePane, DispatchUnsubscribe, DispatchShutdown
      <4>2. k.op \notin {"join", "subscribe"}
        BY <3>1, <4>1 DEF Fits, IsRequest
      <4> QED  BY <3>2, <4>1, <4>2
    <3>5. CASE DispatchSubscribe(c, f)
      <4>1. f.op = "subscribe" /\ subscribed' = [subscribed EXCEPT ![c] = @ \cup {f.arg}]
            /\ Queue(c, Frame(IF f.arg \in panes THEN "ok" ELSE "error", 0))
        BY <3>5 DEF DispatchSubscribe
      <4>2. k.arg = f.arg
        BY <3>1, <4>1 DEF Fits, IsRequest
      <4>3. f.arg \in subscribed'[c]
        BY <4>1 DEF Typed, TypeOK
      <4>4. CASE k.arg = p
        BY <1>12, <4>2, <4>3, <4>4
      <4>5. CASE k.arg # p
        BY <3>2, <4>1, <4>5
      <4> QED  BY <4>4, <4>5
    <3>6. CASE DispatchSetPanePriority(c, f) \/ DispatchReplyHostRequest(c, f)
      BY <2>3, <3>6 DEF DispatchSetPanePriority, DispatchReplyHostRequest
    <3>7. \/ DispatchHello(c, f) \/ DispatchSpawnPane(c, f) \/ DispatchClosePane(c, f)
          \/ DispatchSubscribe(c, f) \/ DispatchUnsubscribe(c, f) \/ DispatchSetPanePriority(c, f)
          \/ DispatchReplyHostRequest(c, f) \/ DispatchShutdown(c, f)
      BY <2>2 DEF f
    <3> QED  BY <3>3, <3>4, <3>5, <3>6, <3>7
  <2> QED  BY <2>4, <2>5
<1> QED  BY <1>3, <1>4, <1>5, <1>7, <1>8, <1>9, <1>10, <1>11, <1>12, ClientSteps

(* killed is history.                                                      *)
LEMMA StaysKilled == ASSUME [Next]_vars PROVE killed \subseteq killed'
<1> USE DEF clientVars, paneVars, subVars, loopVars, exitVars, idVars, worldVars
<1>1. ASSUME NEW c \in Clients, HandleDecodedFrame(c) PROVE killed \subseteq killed'
  BY <1>1 DEF HandleDecodedFrame, DispatchHello, DispatchSpawnPane, DispatchClosePane,
     DispatchSubscribe, DispatchUnsubscribe, DispatchSetPanePriority, DispatchReplyHostRequest,
     DispatchShutdown
<1>2. ASSUME NEW c \in Clients, Connect(c) \/ Receive(c) \/ Leave(c) \/ ClientEnds(c)
               \/ (\E op \in Ops, p \in Panes : Ask(c, op, p)) \/ \E r \in asked[c] : Fulfill(c, r)
      PROVE  killed' = killed
  BY <1>2 DEF Connect, Receive, Leave, ClientEnds, Ask, Fulfill
<1>3. (\E p \in Panes : ChildExits(p) \/ AsksHost(p)) \/ Accept \/ Drain \/ GraceEnds \/ UNCHANGED vars
        => killed' = killed
  BY DEF ChildExits, AsksHost, Accept, Drain, BeginDrain, PollEvent, DrainNotifications,
     RouteNotification, CleanupClosed, EndTurn, GraceEnds, vars
<1> QED  BY <1>1, <1>2, <1>3 DEF Next

(* How a connected client loses a subscription.                            *)
LEMMA LosesSubscription ==
    ASSUME Typed, MapsAgree, Rpc, [Next]_vars, NEW c \in connections, app[c] = "up",
           NEW p \in subscribed[c], p \notin subscribed'[c]
    PROVE  \/ p \in killed' \/ (CleanupClosed /\ p \in scratch_pane_closed)
           \/ Closing(rpc[c], p) /\ rpc' = rpc
<1> USE DEF clientVars, paneVars, subVars, loopVars, exitVars, idVars, worldVars
<1>0. c \in Clients /\ p \in Panes /\ subscribed = [d \in Clients |-> subscribed[d]]
      /\ c \in subscriptions[p]
  BY DEF Typed, TypeOK, MapsAgree
<1>1. ASSUME subscribed' = subscribed PROVE FALSE
  BY <1>1
<1>2. ASSUME NEW d \in Clients, Connect(d) \/ Receive(d) \/ Leave(d)
               \/ (\E op \in Ops, q \in Panes : Ask(d, op, q)) \/ \E r \in asked[d] : Fulfill(d, r)
      PROVE  subscribed' = subscribed
  BY <1>2 DEF Connect, Receive, Leave, Ask, Fulfill
<1>3. (\E q \in Panes : ChildExits(q) \/ AsksHost(q)) \/ Accept \/ BeginDrain \/ PollEvent
      \/ DrainNotifications \/ RouteNotification \/ EndTurn \/ GraceEnds \/ UNCHANGED vars
        => subscribed' = subscribed
  BY DEF ChildExits, AsksHost, Accept, BeginDrain, PollEvent, DrainNotifications,
     RouteNotification, EndTurn, GraceEnds, vars
<1>4. CASE CleanupClosed
  BY <1>0, <1>4 DEF CleanupClosed, CleanupPaneState
<1>5. ASSUME NEW d \in Clients, ClientEnds(d) PROVE FALSE
  <2>1. d # c
    BY <1>5 DEF ClientEnds
  <2>2. subscribed'[c] = subscribed[c] \ {q \in subscribed[d] : subscriptions[q] \ {d} = {}}
    BY <1>0, <1>5, <2>1 DEF ClientEnds, DisconnectClient
  <2> QED  BY <1>0, <2>1, <2>2
<1>6. ASSUME NEW d \in Clients, HandleDecodedFrame(d)
      PROVE  p \in killed' \/ (Closing(rpc[c], p) /\ rpc' = rpc)
  <2> DEFINE f == Head(inbox[d])
  <2>1. inbox[d] # <<>> /\ rpc' = rpc
    BY <1>6 DEF HandleDecodedFrame
  <2>2. \/ DispatchHello(d, f) \/ DispatchSpawnPane(d, f) \/ DispatchClosePane(d, f)
        \/ DispatchSubscribe(d, f) \/ DispatchUnsubscribe(d, f) \/ DispatchSetPanePriority(d, f)
        \/ DispatchReplyHostRequest(d, f) \/ DispatchShutdown(d, f)
    BY <1>6 DEF HandleDecodedFrame
  <2> HIDE DEF f
  <2>3. DispatchClosePane(d, f) \/ DispatchUnsubscribe(d, f)
    <3>1. DispatchHello(d, f) \/ DispatchSpawnPane(d, f) \/ DispatchSetPanePriority(d, f)
          \/ DispatchReplyHostRequest(d, f) \/ DispatchShutdown(d, f) => subscribed' = subscribed
      BY DEF DispatchHello, DispatchSpawnPane, DispatchSetPanePriority, DispatchReplyHostRequest,
         DispatchShutdown
    <3>2. DispatchSubscribe(d, f) => subscribed[c] \subseteq subscribed'[c]
      BY <1>0 DEF DispatchSubscribe
    <3> QED  BY <1>1, <2>2, <3>1, <3>2
  <2>4. CASE DispatchClosePane(d, f)
    <3>1. subscribed'[c] = subscribed[c] \ {f.arg} /\ f.arg \in killed'
      BY <1>0, <2>4 DEF DispatchClosePane, CleanupPaneState
    <3> QED  BY <3>1
  <2>5. CASE DispatchUnsubscribe(d, f)
    <3>1. f.op = "unsubscribe" /\ subscribed' = [subscribed EXCEPT ![d] = @ \ {f.arg}]
      BY <2>5 DEF DispatchUnsubscribe
    <3>2. d = c /\ p = f.arg
      BY <1>0, <3>1
    <3>3. OneRpc(rpc[c], inbox[c], outbox[c]) /\ inbox[c] \in Seq(InFrames)
      BY <1>0 DEF Rpc, Typed, FramesOK
    <3>4. IsRequest(f) => Fits(rpc[c], f)
      BY <2>1, <3>2, <3>3, LessIn DEF f
    <3> QED  BY <2>1, <3>1, <3>2, <3>4 DEF Fits, Closing, IsRequest
  <2> QED  BY <2>3, <2>4, <2>5
<1> QED  BY <1>1, <1>2, <1>3, <1>4, <1>5, <1>6 DEF Next, Drain

LEMMA ServedNext ==
    ASSUME Typed, MapsAgree, Strangers, Rpc, ServedInv, AnnouncedInv, [Next]_vars PROVE ServedInv'
<1> SUFFICES ASSUME NEW c \in Clients, NEW p \in Panes, NEW i \in 0..Len(outbox'[c]),
                    Shows(rpc'[c], shown'[c], outbox'[c], p, i)
             PROVE  \/ p \in subscribed'[c] \/ p \in killed'
                    \/ Told(outbox'[c], p, i) \/ Closing(rpc'[c], p)
  BY DEF ServedInv
<1>1. CASE Before(c, p, i)
  <2>1. PICK j \in 0..Len(outbox[c]) :
           /\ Shows(rpc[c], shown[c], outbox[c], p, j)
           /\ Told(outbox[c], p, j) => Told(outbox'[c], p, i)
           /\ Closing(rpc[c], p) => Closing(rpc'[c], p)
    BY <1>1 DEF Before
  <2>2. app[c] = "up" /\ c \in connections
    BY <2>1, ShowsToConnected
  <2>3. \/ p \in subscribed[c] \/ p \in killed
        \/ Told(outbox[c], p, j) \/ Closing(rpc[c], p)
    BY <2>1 DEF ServedInv
  <2>4. CASE p \in subscribed[c] /\ p \notin subscribed'[c]
    <3>1. CASE CleanupClosed /\ p \in scratch_pane_closed
      <4>1. phase = "route" /\ notification_buf = <<>>
        BY <3>1 DEF CleanupClosed
      <4>2. Len(<<>>) = 0 /\ \A n \in 1..0 : FALSE
        OBVIOUS
      <4>3. Routed(p)
        BY <4>1, <4>2 DEF Routed
      <4>4. Told(outbox[c], p, j)
        BY <2>1, <2>4, <3>1, <4>1, <4>3 DEF AnnouncedInv
      <4> QED  BY <2>1, <4>4
    <3>2. CASE Closing(rpc[c], p) /\ rpc' = rpc
      BY <3>2
    <3> QED  BY <2>2, <2>4, <3>1, <3>2, LosesSubscription
  <2> QED  BY <2>1, <2>3, <2>4, StaysKilled
<1> QED  BY <1>1, ShownBefore

(* During the routing.                                                     *)
LEMMA Routing ==
    ASSUME [Next]_vars, phase' = "route", ~DrainNotifications
    PROVE  /\ phase = "route" /\ UNCHANGED <<scratch_pane_closed, subscribed>>
           /\ \A c : ~HandleDecodedFrame(c)
           /\ RouteNotification \/ notification_buf' = notification_buf
<1> USE DEF clientVars, paneVars, subVars, loopVars, exitVars, idVars, worldVars
<1>1. ASSUME NEW c, HandleDecodedFrame(c) PROVE FALSE
  BY <1>1 DEF HandleDecodedFrame, Serving
<1>2. ASSUME NEW c, ClientEnds(c) PROVE FALSE
  BY <1>2 DEF ClientEnds, Serving
<1>3. ASSUME NEW c \in Clients, Connect(c) \/ Receive(c) \/ Leave(c)
               \/ (\E op \in Ops, p \in Panes : Ask(c, op, p)) \/ \E r \in asked[c] : Fulfill(c, r)
      PROVE  UNCHANGED <<phase, scratch_pane_closed, subscribed, notification_buf>>
  BY <1>3 DEF Connect, Receive, Leave, Ask, Fulfill
<1>4. (\E p \in Panes : ChildExits(p) \/ AsksHost(p)) \/ Accept \/ PollEvent \/ GraceEnds \/ UNCHANGED vars
        => UNCHANGED <<phase, scratch_pane_closed, subscribed, notification_buf>>
  BY DEF ChildExits, AsksHost, Accept, PollEvent, GraceEnds, vars
<1>5. ~BeginDrain /\ ~CleanupClosed /\ ~EndTurn
  BY DEF BeginDrain, CleanupClosed, EndTurn
<1>6. RouteNotification => UNCHANGED <<phase, scratch_pane_closed, subscribed>>
  BY DEF RouteNotification
<1> QED  BY <1>1, <1>2, <1>3, <1>4, <1>5, <1>6 DEF Next, Drain

LEMMA AnnouncedNext ==
    ASSUME Typed, MapsAgree, Strangers, Rpc, AnnouncedInv, [Next]_vars PROVE AnnouncedInv'
<1> SUFFICES ASSUME phase' = "route", NEW c \in Clients, NEW p \in scratch_pane_closed',
                    p \in subscribed'[c], Routed(p)', NEW i \in 0..Len(outbox'[c]),
                    Shows(rpc'[c], shown'[c], outbox'[c], p, i)
             PROVE  Told(outbox'[c], p, i)
  BY DEF AnnouncedInv
<1>0. \A n \in 1..Len(notification_buf') : notification_buf'[n] # Frame("closed", p)
  BY DEF Routed
<1>1. ~DrainNotifications
  <2> SUFFICES ASSUME DrainNotifications PROVE FALSE
    OBVIOUS
  <2>1. \E n \in DOMAIN notifications : notifications[n] = Frame("closed", p)
    BY DEF DrainNotifications
  <2>2. notification_buf' = notifications /\ DOMAIN notifications = 1..Len(notifications)
    BY DEF DrainNotifications, Typed, TypeOK
  <2> QED  BY <1>0, <2>1, <2>2
<1>2. /\ phase = "route" /\ UNCHANGED <<scratch_pane_closed, subscribed>> /\ ~HandleDecodedFrame(c)
      /\ RouteNotification \/ notification_buf' = notification_buf
  BY <1>1, Routing
<1>3. p \in Panes /\ p \in subscribed[c] /\ p \in scratch_pane_closed
  BY <1>2 DEF Typed, TypeOK
<1>4. PICK j \in 0..Len(outbox[c]) :
         /\ Shows(rpc[c], shown[c], outbox[c], p, j)
         /\ Told(outbox[c], p, j) => Told(outbox'[c], p, i)
  BY <1>2, <1>3, ShownBefore DEF Before
<1>5. CASE Routed(p)
  BY <1>2, <1>3, <1>4, <1>5 DEF AnnouncedInv
<1>6. CASE ~Routed(p)
  <2>1. RouteNotification /\ notification_buf # <<>> /\ notification_buf' = Tail(notification_buf)
    BY <1>0, <1>2, <1>6 DEF Routed, RouteNotification
  <2> DEFINE buf == notification_buf
             N == [op : {"closed", "host"}, arg : Panes]
  <2>2. buf \in Seq(N)
    BY DEF Typed, TypeOK
  <2> HIDE DEF buf, N
  <2>3. /\ Len(buf) \in Nat \ {0} /\ Len(Tail(buf)) = Len(buf) - 1 /\ Head(buf) = buf[1]
        /\ \A n \in 1..(Len(buf) - 1) : Tail(buf)[n] = buf[n + 1]
    BY <2>1, <2>2, Shifted DEF buf
  <2>4. PICK n \in 1..Len(buf) : buf[n] = Frame("closed", p)
    BY <1>6 DEF Routed, buf
  <2>5. n = 1
    <3> SUFFICES ASSUME n # 1 PROVE FALSE
      OBVIOUS
    <3>1. n - 1 \in 1..(Len(buf) - 1) /\ (n - 1) + 1 = n
      BY <2>3, <2>4
    <3>2. Tail(buf)[n - 1] = Frame("closed", p)
      BY <2>3, <2>4, <3>1
    <3> QED  BY <1>0, <2>1, <2>3, <3>1, <3>2 DEF buf
  <2>6. Head(buf).op = "closed" /\ Head(buf).arg = p
    BY <2>3, <2>4, <2>5 DEF Frame
  <2>7. outbox' = [d \in Clients |->
                     IF d \in subscriptions[p] /\ app[d] # "gone"
                     THEN Append(outbox[d], Frame("exited", p))
                     ELSE outbox[d]]
    BY <2>1, <2>6 DEF RouteNotification, buf
  <2>8. app[c] = "up" /\ c \in subscriptions[p]
    BY <1>3, <1>4, ShowsToConnected DEF MapsAgree
  <2> DEFINE out == outbox[c]
             f == Frame("exited", p)
  <2>9. outbox'[c] = Append(out, f) /\ out \in Seq(OutFrames) /\ UNCHANGED <<rpc, shown>>
    BY <2>1, <2>7, <2>8 DEF RouteNotification, Typed, FramesOK
  <2>10. f.op # "ok"
    BY DEF Frame
  <2> HIDE DEF out, f, OutFrames
  <2>11. i \in 0..(Len(out) + 1) /\ Shows(rpc[c], shown[c], Append(out, f), p, i)
    BY <2>9, Appended
  <2>12. i \in 0..Len(out)
    BY <2>9, <2>10, <2>11, MoreShown
  <2> QED  BY <2>9, <2>12, MoreTold DEF f
<1> QED  BY <1>5, <1>6

-----------------------------------------------------------------------------
(* All of it is inductive together.                                        *)

ServiceInv == Typed /\ Inv /\ Strangers /\ Rpc /\ OwedInv /\ ServedInv /\ AnnouncedInv

LEMMA ServiceInit == Init => ServiceInv
<1> SUFFICES ASSUME Init PROVE ServedInv /\ AnnouncedInv
  BY TypedInit, InvInit, StrangersInit, RpcInit, OwedInit DEF ServiceInv
<1>1. ASSUME NEW c \in Clients PROVE shown[c] = {} /\ outbox[c] = <<>>
  BY DEF Init
<1>2. ASSUME NEW c \in Clients, NEW p, NEW i PROVE ~Shows(rpc[c], shown[c], outbox[c], p, i)
  BY <1>1, NothingShown
<1>3. phase # "route"
  BY DEF Init
<1> QED  BY <1>2, <1>3 DEF ServedInv, AnnouncedInv

LEMMA ServiceNext == ServiceInv /\ [Next]_vars => ServiceInv'
<1> SUFFICES ASSUME ServiceInv, [Next]_vars PROVE ServiceInv'
  OBVIOUS
<1>1. /\ Typed /\ Inv /\ Strangers /\ Rpc /\ OwedInv /\ ServedInv /\ AnnouncedInv
      /\ MapsAgree /\ PendingHasResponder
  BY DEF ServiceInv, Inv
<1>2. Typed' /\ Inv'
  BY <1>1, TypedNext, InvNext
<1>3. Strangers' /\ Rpc' /\ OwedInv'
  BY <1>1, StrangersNext, RpcNext, OwedNext
<1>4. ServedInv' /\ AnnouncedInv'
  BY <1>1, ServedNext, AnnouncedNext
<1> QED  BY <1>2, <1>3, <1>4 DEF ServiceInv

(* No token of pending_host_replies is leaked: while its responder lives,  *)
(* the request is on its way to it, is known to it, or its reply is on the *)
(* way back, and the responder is connected and subscribed to the pane.    *)
THEOREM PendingStaysOwed == Spec => []PendingIsOwed
<1>1. ServiceInv => PendingIsOwed
  <2> SUFFICES ASSUME ServiceInv PROVE PendingIsOwed
    OBVIOUS
  <2>1. Typed /\ PendingHasResponder /\ OwedInv
    BY DEF ServiceInv, Inv
  <2>2. ASSUME NEW r \in pending
        PROVE  \/ app[r.responder] = "gone"
               \/ \E i \in DOMAIN outbox[r.responder] : outbox[r.responder][i] = Frame("host", r.id)
               \/ r.id \in asked[r.responder]
               \/ \E i \in DOMAIN inbox[r.responder] : inbox[r.responder][i] = Frame("reply", r.id)
    <3> DEFINE c == r.responder
    <3>1. inbox[c] \in Seq(InFrames) /\ outbox[c] \in Seq(OutFrames)
      BY <2>1 DEF Typed, TypeOK, FramesOK
    <3> HIDE DEF InFrames, OutFrames
    <3>2. DOMAIN inbox[c] = 1..Len(inbox[c]) /\ DOMAIN outbox[c] = 1..Len(outbox[c])
      BY <3>1
    <3>3. Owes(c, r.id)
      BY <2>1 DEF OwedInv
    <3> QED  BY <3>2, <3>3 DEF Owes
  <2> QED  BY <2>1, <2>2 DEF PendingIsOwed
<1> QED  BY <1>1, ServiceInit, ServiceNext, PTL DEF Spec

(* A pane in a live client's session is one the daemon serves to it,       *)
(* unless the news of its end is on the way, the client is closing or      *)
(* leaving it, or somebody asked for it to be closed: no exit of a child,  *)
(* no drain and no other client's end takes it away in silence.            *)
THEOREM ShownStaysServed == Spec => []ShownIsServed
<1>1. ServiceInv => ShownIsServed
  <2> SUFFICES ASSUME ServiceInv PROVE ShownIsServed
    OBVIOUS
  <2>1. Typed /\ ServedInv
    BY DEF ServiceInv
  <2>2. ASSUME NEW c \in connections, NEW p \in shown[c]
        PROVE  \/ p \in subscribed[c]
               \/ \E i \in DOMAIN outbox[c] : outbox[c][i] = Frame("exited", p)
               \/ rpc[c].op \in {"close", "unsubscribe"} /\ rpc[c].arg = p
               \/ p \in killed
    <3>1. c \in Clients /\ p \in Panes /\ outbox[c] \in Seq(OutFrames)
      BY <2>1 DEF Typed, TypeOK, FramesOK
    <3> HIDE DEF OutFrames
    <3>2. DOMAIN outbox[c] = 1..Len(outbox[c]) /\ 0 \in 0..Len(outbox[c])
      BY <3>1
    <3>3. Shows(rpc[c], shown[c], outbox[c], p, 0)
      BY DEF Shows
    <3>4. p \in subscribed[c] \/ p \in killed \/ Told(outbox[c], p, 0) \/ Closing(rpc[c], p)
      BY <2>1, <3>1, <3>2, <3>3 DEF ServedInv
    <3> QED  BY <3>2, <3>4 DEF Told, Closing
  <2> QED  BY <2>2 DEF ShownIsServed
<1> QED  BY <1>1, ServiceInit, ServiceNext, PTL DEF Spec
=============================================================================
