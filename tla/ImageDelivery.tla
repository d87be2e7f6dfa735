---------------------------- MODULE ImageDelivery ----------------------------
(***************************************************************************)
(* How the pixels of images reach the clients of the daemon.  A snapshot   *)
(* says where images are placed; their bytes go with it only when the      *)
(* daemon believes the client does not have them (sent_images).  The       *)
(* daemon keeps bytes in a bounded store, each client in a bounded cache,  *)
(* and a pushed snapshot waits in the client's map until it is drawn.      *)
(*                                                                         *)
(* One pane, which outlives its clients (DaemonClients has when it does    *)
(* not).  An image is known by its id and counts one towards a cap; which  *)
(* unprotected entry the LRU order gives up is a free choice, and so is    *)
(* when a push is due (SnapshotPush).  A request has a sequence number, a  *)
(* push has 0.                                                             *)
(***************************************************************************)
EXTENDS Naturals, Sequences, FiniteSets

CONSTANTS
    Clients, Images,
    Ops,        \* what the clients do besides drawing
    ServerCap, ClientCap,   \* memory caps, in images
    HighWater,  \* frames on the way above which a push is deferred
    MaxSeq,     \* bound on what the clients ask
    MaxPublish, \* bound on publications
    None

OpKinds == {"get", "scroll", "unsubscribe", "timeout", "reconnect"}

Published == [images : SUBSET Images, dirty : BOOLEAN]
Snapshots == [images : SUBSET Images, data : SUBSET Images]

ASSUME ImageAssumption ==
    /\ Ops \subseteq OpKinds
    /\ IsFiniteSet(Images)
    /\ ServerCap \in Nat /\ ClientCap \in Nat
    /\ HighWater \in Nat \ {0} /\ MaxSeq \in Nat \ {0} /\ MaxPublish \in Nat
    /\ None \notin Published \cup Snapshots

VARIABLES
    (* the pane *)
    slot,       \* the published snapshot nobody has taken
    published,  \* how many there were
    (* the daemon *)
    entry,      \* the pane's entry of SnapshotCache
    store,      \* image_data_store
    subs, deferred,
    sent,       \* sent_images of each connection
    (* the connections: requests to, and frames from, the daemon *)
    up, wire,
    (* the clients *)
    waiting,    \* the sequence number of the RPC a client is blocked in, or 0
    pushed,     \* pushed_snapshots
    snap,       \* pane_snapshots
    cache,      \* image_cache
    seq,        \* the last sequence number
    forgot      \* history: bytes a client had and has dropped since

serverVars == <<slot, entry, store, subs, deferred, sent>>
clientVars == <<waiting, pushed, snap, cache, seq, forgot>>
vars == <<published, serverVars, up, wire, clientVars>>

Blank == [images |-> {}, dirty |-> FALSE]
Snap(is, data) == [images |-> is, data |-> data]
Frame(n, kind, is, data) ==
    [seq |-> n, kind |-> kind, images |-> is, data |-> data]

-----------------------------------------------------------------------------
(* ImageCache.                                                             *)

(* What may be left of S after evict_until_under_cap: what is reachable    *)
(* stays, even above the cap.                                              *)
Survivors(S, reachable, cap) ==
    IF Cardinality(S) <= cap THEN {S}
    ELSE {R \in SUBSET S :
            /\ S \cap reachable \subseteq R
            /\ \/ Cardinality(R) = cap
               \/ Cardinality(R) > cap /\ R = S \cap reachable}

(* insert, of every image of a snapshot that carries any.                  *)
Insert(S, data, reachable, cap) ==
    IF data = {} THEN {S} ELSE Survivors(S \cup data, reachable, cap)

-----------------------------------------------------------------------------
(* The pane.                                                               *)

(* A publication: the images in the viewport, whose bytes it all carries,  *)
(* and whether any was stored, placed or deleted since the last one.  The  *)
(* mark of a snapshot that is overwritten is lost with it.                 *)
Publish(is, dirty) ==
    /\ published < MaxPublish
    /\ published' = published + 1
    /\ slot' = [images |-> is, dirty |-> dirty]
    /\ UNCHANGED <<entry, store, subs, deferred, sent, up, wire, clientVars>>

-----------------------------------------------------------------------------
(* The daemon.                                                             *)

(* build: the snapshot that is current afterwards, and what fold leaves of *)
(* the store.  What the old and the new snapshot place is protected.       *)
Built == IF slot = None THEN entry ELSE slot
FoldForgetsNew ==
    IF slot = None THEN {store}
    ELSE Insert(store, slot.images, entry.images, ServerCap)
Fold ==
    IF slot = None THEN {store}
    ELSE Insert(store, slot.images, entry.images \cup slot.images, ServerCap)

(* propagate_image_evictions: what a client is known to have once the      *)
(* store has become st.                                                    *)
Known(c, st) == sent[c] \ (store \ st)

(* project_per_client_pure: the bytes to attach, and what the connection   *)
(* is marked with once the frame is queued.                                *)
Needed(c, b, st) == IF b.dirty THEN b.images ELSE b.images \ Known(c, st)
Marked(c, b, st) == b.images \cup (IF b.dirty THEN {} ELSE Known(c, st))

Queue(c, n, kind, b, st) ==
    Append(wire[c], Frame(n, kind, b.images, Needed(c, b, st) \cap st))

(* The clients a snapshot can go to now: never one above the mark, and     *)
(* always one that has nothing on the way.                                 *)
Below(cs) == {to \in SUBSET cs :
                 \A c \in cs : /\ Len(wire[c]) >= HighWater => c \notin to
                               /\ wire[c] = <<>> => c \in to}

(* Queue the snapshot for every client of `to` but those for whom          *)
(* queue_frame fails: a frame is too large, say.                           *)
ProjectMarksFailed(to, failed, b, st) ==
    /\ wire' = [c \in Clients |-> IF c \in to \ failed
                                  THEN Queue(c, 0, "push", b, st) ELSE wire[c]]
    /\ sent' = [c \in Clients |-> IF c \in to
                                  THEN Marked(c, b, st) ELSE Known(c, st)]
ProjectAndQueue(to, failed, b, st) ==
    /\ wire' = [c \in Clients |-> IF c \in to \ failed
                                  THEN Queue(c, 0, "push", b, st) ELSE wire[c]]
    /\ sent' = [c \in Clients |-> IF c \in to \ failed
                                  THEN Marked(c, b, st) ELSE Known(c, st)]

(* push_or_defer_pane when the interval has elapsed.                       *)
PushFresh(to, failed, st) ==
    /\ subs # {}
    /\ to \in Below(subs) /\ failed \subseteq to
    /\ st \in Fold
    /\ entry' = Built /\ slot' = None /\ store' = st
    /\ ProjectAndQueue(to, failed, Built, st)
    /\ deferred' = deferred \cup (subs \ to)
    /\ UNCHANGED <<published, subs, up, clientVars>>

(* push_or_defer_pane when it has not.                                     *)
DeferAll ==
    /\ subs # {}
    /\ deferred' = deferred \cup subs
    /\ UNCHANGED <<published, slot, entry, store, subs, sent, up, wire,
                   clientVars>>

(* trailing_edge_flush: stale clients are pruned, and nothing is built     *)
(* when nobody can be served.                                              *)
TrailingFlush(to, failed, st) ==
    /\ deferred # {}
    /\ to \in Below(deferred \cap subs) /\ failed \subseteq to
    /\ \/ /\ to = {} /\ st = store
          /\ deferred' = deferred \cap subs
          /\ UNCHANGED <<slot, entry, store, sent, wire>>
       \/ /\ to # {} /\ st \in Fold
          /\ entry' = Built /\ slot' = None /\ store' = st
          /\ ProjectAndQueue(to, failed, Built, st)
          /\ deferred' = (deferred \cap subs) \ (to \ failed)
    /\ UNCHANGED <<published, subs, up, clientVars>>

(* Subscribe and GetPaneSnapshot: build_and_take leaves the entry blank.   *)
Respond(c, st) ==
    /\ up[c] # <<>> /\ Head(up[c]).op \in {"subscribe", "get"}
    /\ st \in Fold
    /\ slot' = None /\ store' = st /\ entry' = Blank
    /\ wire' = [wire EXCEPT ![c] =
                  Queue(c, Head(up[c]).seq, "snapshot", Built, st)]
    /\ sent' = [d \in Clients |-> IF d = c THEN Marked(c, Built, st)
                                  ELSE Known(d, st)]
    /\ subs' = IF Head(up[c]).op = "subscribe" THEN subs \cup {c} ELSE subs
    /\ up' = [up EXCEPT ![c] = Tail(@)]
    /\ UNCHANGED <<published, deferred, clientVars>>

(* Unsubscribe leaves sent_images as it is.                                *)
DispatchUnsubscribe(c) ==
    /\ up[c] # <<>> /\ Head(up[c]).op = "unsubscribe"
    /\ subs' = subs \ {c}
    /\ wire' = [wire EXCEPT ![c] =
                  Append(@, Frame(Head(up[c]).seq, "unsubscribed", {}, {}))]
    /\ up' = [up EXCEPT ![c] = Tail(@)]
    /\ UNCHANGED <<published, slot, entry, store, deferred, sent, clientVars>>

-----------------------------------------------------------------------------
(* The clients.                                                            *)

(* The bytes of the parked snapshot.                                       *)
Parked(c) == IF pushed[c] = None THEN {} ELSE pushed[c].data

(* cache_snapshot: the bytes go to the image cache, where only what the    *)
(* new snapshot places is protected; the rest is kept.                     *)
CacheSnapshot(c, s, S) ==
    /\ S \in Insert(cache[c], s.data, s.images, ClientCap)
    /\ cache' = [cache EXCEPT ![c] = S]
    /\ forgot' = [forgot EXCEPT ![c] = (@ \cup cache[c] \cup s.data) \ S]
    /\ snap' = [snap EXCEPT ![c] = Snap(s.images, {})]

(* dispatch_notification with merge_image_data_forward.                    *)
ParkOverwrites(c, f) ==
    pushed' = [pushed EXCEPT ![c] = Snap(f.images, f.data)]
Park(c, f) ==
    pushed' = [pushed EXCEPT ![c] =
                 Snap(f.images, f.data \cup Parked(c))]

(* The reader hands on a frame: a push is parked, an answer goes to the    *)
(* caller that waits for it, or nowhere when that caller has given up.     *)
Deliver(c, S) ==
    /\ wire[c] # <<>>
    /\ wire' = [wire EXCEPT ![c] = Tail(@)]
    /\ LET f == Head(wire[c]) IN
         \/ /\ f.kind = "push"
            /\ Park(c, f)
            /\ S = {}
            /\ UNCHANGED <<waiting, snap, cache, forgot>>
         \/ /\ f.kind # "push" /\ f.seq # waiting[c]
            /\ S = {}
            /\ forgot' = [forgot EXCEPT ![c] = @ \cup f.data]
            /\ UNCHANGED <<waiting, pushed, snap, cache>>
         \/ /\ f.kind = "snapshot" /\ f.seq = waiting[c]
            /\ waiting' = [waiting EXCEPT ![c] = 0]
            /\ CacheSnapshot(c, f, S)
            /\ UNCHANGED pushed
         \/ /\ f.kind = "unsubscribed" /\ f.seq = waiting[c]
            /\ waiting' = [waiting EXCEPT ![c] = 0]
            /\ snap' = [snap EXCEPT ![c] = None]
            /\ pushed' = [pushed EXCEPT ![c] = None]
            /\ cache' = [cache EXCEPT ![c] = {}]
            /\ S = {}
            /\ forgot' = [forgot EXCEPT ![c] = @ \cup cache[c] \cup Parked(c)]
    /\ UNCHANGED <<published, serverVars, up, seq>>

(* refresh_pane_snapshot before a frame.                                   *)
Refresh(c, S) ==
    /\ waiting[c] = 0 /\ pushed[c] # None
    /\ pushed' = [pushed EXCEPT ![c] = None]
    /\ CacheSnapshot(c, pushed[c], S)
    /\ UNCHANGED <<published, serverVars, up, wire, waiting, seq>>

(* sync_pane_snapshot, unsubscribe, and subscribe when the pane is not     *)
(* shown.                                                                  *)
Ask(c, op) ==
    /\ waiting[c] = 0 /\ seq < MaxSeq
    /\ op = "subscribe" => snap[c] = None
    /\ op # "subscribe" => op \in Ops /\ snap[c] # None
    /\ seq' = seq + 1
    /\ waiting' = [waiting EXCEPT ![c] = seq']
    /\ up' = [up EXCEPT ![c] = Append(@, [seq |-> seq', op |-> op])]
    /\ UNCHANGED <<published, serverVars, wire, pushed, snap, cache, forgot>>

(* The answer did not come in time.                                        *)
Timeout(c) ==
    /\ "timeout" \in Ops /\ waiting[c] # 0
    /\ waiting' = [waiting EXCEPT ![c] = 0]
    /\ UNCHANGED <<published, serverVars, up, wire, pushed, snap, cache, seq,
                   forgot>>

(* scroll_display, resize, set_theme and others drop the parked snapshot.  *)
InvalidatePushed(c) ==
    /\ "scroll" \in Ops /\ waiting[c] = 0 /\ snap[c] # None
    /\ pushed' = [pushed EXCEPT ![c] = None]
    /\ forgot' = [forgot EXCEPT ![c] = @ \cup Parked(c)]
    /\ UNCHANGED <<published, serverVars, up, wire, waiting, snap, cache, seq>>

(* reconnect: the connection's state ends on both sides, parked snapshots  *)
(* with it; snapshots and image cache stay, and the pane is subscribed to  *)
(* anew.                                                                   *)
Reconnect(c) ==
    /\ "reconnect" \in Ops /\ waiting[c] = 0 /\ snap[c] # None
    /\ seq < MaxSeq
    /\ seq' = seq + 1
    /\ waiting' = [waiting EXCEPT ![c] = seq']
    /\ up' = [up EXCEPT ![c] = <<[seq |-> seq', op |-> "subscribe"]>>]
    /\ wire' = [wire EXCEPT ![c] = <<>>]
    /\ subs' = subs \ {c} /\ deferred' = deferred \ {c}
    /\ sent' = [sent EXCEPT ![c] = {}]
    /\ pushed' = [pushed EXCEPT ![c] = None]
    /\ forgot' = [forgot EXCEPT ![c] = @ \cup Parked(c)]
    /\ UNCHANGED <<published, slot, entry, store, snap, cache>>

-----------------------------------------------------------------------------
Init ==
    /\ slot = None /\ published = 0
    /\ entry = Blank /\ store = {} /\ subs = {} /\ deferred = {}
    /\ sent = [c \in Clients |-> {}]
    /\ up = [c \in Clients |-> <<[seq |-> 1, op |-> "subscribe"]>>]
    /\ wire = [c \in Clients |-> <<>>]
    /\ waiting = [c \in Clients |-> 1]
    /\ pushed = [c \in Clients |-> None]
    /\ snap = [c \in Clients |-> None]
    /\ cache = [c \in Clients |-> {}]
    /\ forgot = [c \in Clients |-> {}]
    /\ seq = 1

Next ==
    \/ \E is \in SUBSET Images, dirty \in BOOLEAN : Publish(is, dirty)
    \/ \E to, failed \in SUBSET Clients, st \in SUBSET Images :
          \/ PushFresh(to, failed, st)
          \/ TrailingFlush(to, failed, st)
    \/ DeferAll
    \/ \E c \in Clients :
          \/ \E S \in SUBSET Images :
                Respond(c, S) \/ Deliver(c, S) \/ Refresh(c, S)
          \/ DispatchUnsubscribe(c)
          \/ \E op \in {"get", "unsubscribe", "subscribe"} : Ask(c, op)
          \/ Timeout(c) \/ InvalidatePushed(c) \/ Reconnect(c)

Spec == Init /\ [][Next]_vars

-----------------------------------------------------------------------------
Frames == [seq : 0..MaxSeq, kind : {"push", "snapshot", "unsubscribed"},
           images : SUBSET Images, data : SUBSET Images]
Requests == [seq : 1..MaxSeq, op : {"subscribe", "get", "unsubscribe"}]

(* The variables have their types; in particular the snapshots a client    *)
(* keeps are stripped of their bytes (cache_snapshot), which would grow    *)
(* without bound.                                                          *)
TypeOK ==
    /\ slot \in Published \cup {None} /\ entry \in Published
    /\ published \in 0..MaxPublish
    /\ store \in SUBSET Images
    /\ subs \in SUBSET Clients /\ deferred \in SUBSET Clients
    /\ sent \in [Clients -> SUBSET Images]
    /\ up \in [Clients -> Seq(Requests)] /\ wire \in [Clients -> Seq(Frames)]
    /\ waiting \in [Clients -> 0..MaxSeq] /\ seq \in 1..MaxSeq
    /\ pushed \in [Clients -> Snapshots \cup {None}]
    /\ snap \in [Clients -> [images : SUBSET Images, data : {{}}] \cup {None}]
    /\ cache \in [Clients -> SUBSET Images]
    /\ forgot \in [Clients -> SUBSET Images]

InFlight(c, k) == UNION {wire[c][i].data : i \in 1..k}

(* The soft cap of the daemon's store never costs it the bytes of an image *)
(* the cached snapshot places (fold_image_data_store): a projection that   *)
(* needs bytes finds them.                                                 *)
StoreCoversEntry == entry.images \subseteq store

(* Bytes the daemon will not send again, because it believes the client    *)
(* has them, are in the client's cache, in a parked snapshot, on the way,  *)
(* or were there and the client itself gave them up (sent_images and its   *)
(* success-only marking, eviction, the merge of parked snapshots).         *)
SentIsOnItsWay ==
    \A c \in Clients :
        sent[c] \subseteq cache[c] \cup Parked(c) \cup forgot[c]
                             \cup InFlight(c, Len(wire[c]))

(* A snapshot is never ahead of its bytes: what the client draws and what  *)
(* it has parked places images whose bytes have arrived, though the client *)
(* may have given them up.                                                 *)
PlacementsResolvable ==
    \A c \in Clients :
        \A s \in {pushed[c], snap[c]} \ {None} :
            s.images \subseteq cache[c] \cup Parked(c) \cup forgot[c]

(* What the assertion of the extraction says: a placement that is drawn    *)
(* has its bytes.  The parked snapshot of the next frame may still bring   *)
(* them.                                                                   *)
DrawnHasBytes ==
    \A c \in Clients :
        snap[c] # None => snap[c].images \subseteq cache[c] \cup Parked(c)

=============================================================================
