------------------------ MODULE ImageDeliveryProofs ------------------------
(***************************************************************************)
(* Theorems about ImageDelivery: bytes the daemon does not send again have *)
(* reached the client or are about to, and no snapshot is ahead of its     *)
(* bytes, for any number of clients and images, any caps and any marks.    *)
(***************************************************************************)
EXTENDS ImageDelivery, TLAPS

(* What client c holds, or held and gave up.                               *)
Had(c) == cache[c] \cup Parked(c) \cup forgot[c]

(* A frame on the way is not ahead of its bytes either: they are in it, in *)
(* front of it, or there.  The answer to Unsubscribe carries none.         *)
FramesResolvable(c) ==
    \A i \in 1..Len(wire[c]) :
        /\ wire[c][i].images \subseteq Had(c) \cup InFlight(c, i)
        /\ wire[c][i].kind = "unsubscribed" => wire[c][i].data = {}

Delivered(c) ==
    /\ FramesResolvable(c)
    /\ sent[c] \subseteq Had(c) \cup InFlight(c, Len(wire[c]))
    /\ \A s \in {pushed[c], snap[c]} \ {None} : s.images \subseteq Had(c)

Inv == TypeOK /\ StoreCoversEntry /\ \A c \in Clients : Delivered(c)

-----------------------------------------------------------------------------
(* Eviction never gives up what is protected, or makes anything up.        *)
LEMMA SurvivorsBounds ==
    ASSUME NEW S, NEW reachable, NEW cap, NEW R \in Survivors(S, reachable, cap)
    PROVE  S \cap reachable \subseteq R /\ R \subseteq S
<1>1. CASE Cardinality(S) <= cap
  BY <1>1 DEF Survivors
<1>2. CASE ~(Cardinality(S) <= cap)
  BY <1>2 DEF Survivors
<1> QED  BY <1>1, <1>2

LEMMA InsertBounds ==
    ASSUME NEW S, NEW data, NEW reachable, NEW cap,
           NEW R \in Insert(S, data, reachable, cap)
    PROVE  /\ R \subseteq S \cup data
           /\ (S \cup data) \cap reachable \subseteq R
<1>1. CASE data = {}
  BY <1>1 DEF Insert
<1>2. CASE data # {}
  BY <1>2, SurvivorsBounds DEF Insert
<1> QED  BY <1>1, <1>2

(* Whatever is folded, the store has the bytes of the snapshot that is     *)
(* current afterwards.                                                     *)
LEMMA FoldCovers ==
    ASSUME Inv, NEW st \in Fold
    PROVE  Built.images \subseteq st /\ Built \in Published /\ st \in SUBSET Images
<1>1. CASE slot = None
  BY <1>1 DEF Inv, TypeOK, StoreCoversEntry, Fold, Built
<1>2. CASE slot # None
  <2>1. slot \in Published
    BY <1>2 DEF Inv, TypeOK
  <2>2. st \in Insert(store, slot.images, entry.images \cup slot.images, ServerCap)
    BY <1>2 DEF Fold
  <2>3. /\ st \subseteq store \cup slot.images
        /\ (store \cup slot.images) \cap (entry.images \cup slot.images) \subseteq st
    BY <2>2, InsertBounds
  <2> QED  BY <1>2, <2>1, <2>3 DEF Inv, TypeOK, Published, Built
<1> QED  BY <1>1, <1>2

(* The bytes that arrive by the time the k-th frame has.                   *)
LEMMA InFlightMember ==
    ASSUME NEW c, NEW k, NEW x
    PROVE  x \in InFlight(c, k) <=> \E i \in 1..k : x \in wire[c][i].data
  BY DEF InFlight

-----------------------------------------------------------------------------
(* Nothing is sent to c, which loses nothing without a trace.              *)
LEMMA Kept ==
    ASSUME NEW c \in Clients, Delivered(c),
           wire'[c] = wire[c], sent'[c] \subseteq sent[c], Had(c) \subseteq Had(c)',
           \A s \in {pushed'[c], snap'[c]} \ {None} : s.images \subseteq Had(c)'
    PROVE  Delivered(c)'
<1>1. \A k : InFlight(c, k)' = InFlight(c, k)
  BY DEF InFlight
<1> QED  BY <1>1 DEF Delivered, FramesResolvable

(* A frame is put on the way to c.                                         *)
LEMMA Queued ==
    ASSUME NEW c \in Clients, Delivered(c), wire[c] \in Seq(Frames),
           NEW f \in Frames, wire'[c] = Append(wire[c], f),
           Had(c)' = Had(c), pushed'[c] = pushed[c], snap'[c] = snap[c],
           f.images \subseteq sent[c] \cup f.data,
           f.kind = "unsubscribed" => f.data = {},
           sent'[c] \subseteq sent[c] \cup f.images
    PROVE  Delivered(c)'
<1>0. PICK n \in Nat : n = Len(wire[c])
  OBVIOUS
<1>1. /\ Len(wire'[c]) = n + 1
      /\ \A i \in 1..n : wire'[c][i] = wire[c][i]
      /\ wire'[c][n + 1] = f
  BY <1>0
<1>2. \A k \in 0..n : InFlight(c, k)' = InFlight(c, k)
  BY <1>1 DEF InFlight
<1>3. InFlight(c, n + 1)' = InFlight(c, n) \cup f.data
  <2> SUFFICES ASSUME NEW x
               PROVE  x \in InFlight(c, n + 1)' <=> x \in InFlight(c, n) \cup f.data
    OBVIOUS
  <2>1. x \in InFlight(c, n + 1)' <=> \E i \in 1..(n + 1) : x \in wire'[c][i].data
    BY DEF InFlight
  <2> QED  BY <1>1, <2>1, InFlightMember
<1>4. sent[c] \subseteq Had(c) \cup InFlight(c, n)
  BY <1>0 DEF Delivered
<1>5. FramesResolvable(c)'
  <2> SUFFICES ASSUME NEW i \in 1..(n + 1)
               PROVE  /\ wire'[c][i].images \subseteq Had(c)' \cup InFlight(c, i)'
                      /\ wire'[c][i].kind = "unsubscribed" => wire'[c][i].data = {}
    BY <1>1 DEF FramesResolvable
  <2>1. CASE i \in 1..n
    BY <1>0, <1>1, <1>2, <2>1 DEF Delivered, FramesResolvable
  <2>2. CASE i = n + 1
    BY <1>1, <1>3, <1>4, <2>2
  <2> QED  BY <1>1, <2>1, <2>2
<1>6. sent'[c] \subseteq Had(c)' \cup InFlight(c, n + 1)'
  BY <1>3, <1>4
<1> QED  BY <1>1, <1>5, <1>6 DEF Delivered

(* c takes the first frame, and keeps what is in it or gives it up.        *)
LEMMA Taken ==
    ASSUME NEW c \in Clients, Delivered(c), wire[c] \in Seq(Frames), wire[c] # <<>>,
           wire'[c] = Tail(wire[c]), sent'[c] = sent[c],
           Had(c) \cup Head(wire[c]).data \subseteq Had(c)',
           \A s \in {pushed'[c], snap'[c]} \ {None} :
               \/ s.images \subseteq Had(c)
               \/ s.images = Head(wire[c]).images
    PROVE  Delivered(c)'
<1> DEFINE first == Head(wire[c])
<1>0. PICK n \in Nat \ {0} : n = Len(wire[c])
  OBVIOUS
<1>1. /\ Len(wire'[c]) = n - 1
      /\ \A i \in 1..(n - 1) : wire'[c][i] = wire[c][i + 1]
      /\ wire[c][1] = first
  BY <1>0
<1>2. \A k \in 0..(n - 1) : InFlight(c, k + 1) \subseteq first.data \cup InFlight(c, k)'
  <2> SUFFICES ASSUME NEW k \in 0..(n - 1), NEW x \in InFlight(c, k + 1)
               PROVE  x \in first.data \cup InFlight(c, k)'
    OBVIOUS
  <2>1. PICK i \in 1..(k + 1) : x \in wire[c][i].data
    BY InFlightMember
  <2>2. CASE i = 1
    BY <1>1, <2>1, <2>2
  <2>3. CASE i # 1
    <3>1. i - 1 \in 1..k /\ x \in wire'[c][i - 1].data
      BY <1>1, <2>1, <2>3
    <3> QED  BY <3>1 DEF InFlight
  <2> QED  BY <2>2, <2>3
<1>3. first.images \subseteq Had(c)'
  <2>1. first.images \subseteq Had(c) \cup InFlight(c, 1)
    BY <1>0, <1>1 DEF Delivered, FramesResolvable
  <2>2. InFlight(c, 1) = first.data
    BY <1>1 DEF InFlight
  <2> QED  BY <2>1, <2>2
<1>4. FramesResolvable(c)'
  <2> SUFFICES ASSUME NEW i \in 1..(n - 1)
               PROVE  /\ wire'[c][i].images \subseteq Had(c)' \cup InFlight(c, i)'
                      /\ wire'[c][i].kind = "unsubscribed" => wire'[c][i].data = {}
    BY <1>1 DEF FramesResolvable
  <2>1. /\ wire[c][i + 1].images \subseteq Had(c) \cup InFlight(c, i + 1)
        /\ wire[c][i + 1].kind = "unsubscribed" => wire[c][i + 1].data = {}
    BY <1>0, <1>1 DEF Delivered, FramesResolvable
  <2> QED  BY <1>1, <1>2, <2>1
<1>5. sent'[c] \subseteq Had(c)' \cup InFlight(c, n - 1)'
  <2>1. sent[c] \subseteq Had(c) \cup InFlight(c, n)
    BY <1>0 DEF Delivered
  <2>2. InFlight(c, n) \subseteq first.data \cup InFlight(c, n - 1)'
    BY <1>1, <1>2
  <2> QED  BY <2>1, <2>2
<1>6. \A s \in {pushed'[c], snap'[c]} \ {None} : s.images \subseteq Had(c)'
  BY <1>3
<1> QED  BY <1>1, <1>4, <1>5, <1>6 DEF Delivered

-----------------------------------------------------------------------------
LEMMA TypedInit == Init => TypeOK
  BY ImageAssumption DEF Init, TypeOK, Blank, Published, Requests, Frames

(* A queued frame is one.                                                  *)
LEMMA QueuedTyped ==
    ASSUME TypeOK, NEW c \in Clients, NEW n \in 0..MaxSeq, NEW kind \in {"push", "snapshot"},
           NEW b \in Published, NEW st \in SUBSET Images
    PROVE  /\ Frame(n, kind, b.images, Needed(c, b, st) \cap st) \in Frames
           /\ Queue(c, n, kind, b, st) \in Seq(Frames)
<1>1. Frame(n, kind, b.images, Needed(c, b, st) \cap st) \in Frames
  BY DEF Frame, Frames, Published
<1> QED  BY <1>1 DEF Queue, TypeOK

(* What a projection sends, and to whom.                                   *)
LEMMA ProjectTyped ==
    ASSUME TypeOK, NEW b \in Published, NEW st \in SUBSET Images,
           NEW to, NEW failed, ProjectAndQueue(to, failed, b, st)
    PROVE  wire' \in [Clients -> Seq(Frames)] /\ sent' \in [Clients -> SUBSET Images]
<1>1. \A c \in Clients : Queue(c, 0, "push", b, st) \in Seq(Frames)
  <2> TAKE c \in Clients
  <2>1. 0 \in 0..MaxSeq
    BY ImageAssumption
  <2> QED  BY <2>1, QueuedTyped
<1>2. \A c \in Clients : Marked(c, b, st) \subseteq Images /\ Known(c, st) \subseteq Images
  BY DEF Marked, Known, TypeOK, Published
<1> QED  BY <1>1, <1>2 DEF ProjectAndQueue, TypeOK

(* A step of the daemon that sends the current snapshot to some clients.   *)
LEMMA PushTyped ==
    ASSUME Inv, NEW to, NEW failed, NEW st \in Fold,
           entry' = Built, slot' = None, store' = st,
           ProjectAndQueue(to, failed, Built, st), deferred' \subseteq Clients,
           UNCHANGED <<published, subs, up, clientVars>>
    PROVE  TypeOK'
<1>1. Built \in Published /\ st \in SUBSET Images
  BY FoldCovers
<1>2. TypeOK
  BY DEF Inv
<1>3. wire' \in [Clients -> Seq(Frames)] /\ sent' \in [Clients -> SUBSET Images]
  BY <1>1, <1>2, ProjectTyped
<1> QED  BY <1>1, <1>2, <1>3 DEF TypeOK, clientVars

LEMMA CacheTyped ==
    ASSUME TypeOK, NEW c \in Clients, NEW s, s.images \subseteq Images,
           s.data \subseteq Images, NEW S, CacheSnapshot(c, s, S)
    PROVE  /\ cache' \in [Clients -> SUBSET Images] /\ forgot' \in [Clients -> SUBSET Images]
           /\ snap' \in [Clients -> [images : SUBSET Images, data : {{}}] \cup {None}]
<1>1. S \subseteq cache[c] \cup s.data
  BY InsertBounds DEF CacheSnapshot
<1>2. cache[c] \subseteq Images /\ forgot[c] \subseteq Images
  BY DEF TypeOK
<1>3. Snap(s.images, {}) \in [images : SUBSET Images, data : {{}}]
  BY DEF Snap
<1> QED  BY <1>1, <1>2, <1>3 DEF CacheSnapshot, TypeOK

LEMMA TypedNext == Inv /\ [Next]_vars => TypeOK'
<1> SUFFICES ASSUME Inv, [Next]_vars PROVE TypeOK'
  OBVIOUS
<1>0. TypeOK
  BY DEF Inv
<1> USE DEF serverVars, clientVars
<1>1. CASE UNCHANGED vars
  BY <1>0, <1>1 DEF vars, TypeOK
<1>2. ASSUME NEW is \in SUBSET Images, NEW dirty \in BOOLEAN, Publish(is, dirty)
      PROVE  TypeOK'
  BY <1>0, <1>2, ImageAssumption DEF Publish, TypeOK, Published
<1>3. ASSUME NEW to, NEW failed, NEW st, PushFresh(to, failed, st) PROVE TypeOK'
  <2>1. deferred' \subseteq Clients
    BY <1>0, <1>3 DEF PushFresh, TypeOK
  <2> QED  BY <1>3, <2>1, PushTyped DEF PushFresh
<1>4. ASSUME NEW to, NEW failed, NEW st, TrailingFlush(to, failed, st) PROVE TypeOK'
  <2>1. CASE UNCHANGED <<slot, entry, store, sent, wire>>
    BY <1>0, <1>4, <2>1 DEF TrailingFlush, TypeOK
  <2>2. CASE to # {} /\ st \in Fold
    <3>1. deferred' \subseteq Clients
      BY <1>0, <1>4, <2>2 DEF TrailingFlush, TypeOK
    <3> QED  BY <1>4, <2>2, <3>1, PushTyped DEF TrailingFlush
  <2> QED  BY <1>4, <2>1, <2>2 DEF TrailingFlush
<1>5. CASE DeferAll
  BY <1>0, <1>5 DEF DeferAll, TypeOK
<1>6. ASSUME NEW c \in Clients, NEW st, Respond(c, st) PROVE TypeOK'
  <2>1. Built \in Published /\ st \in SUBSET Images
    BY <1>6, FoldCovers DEF Respond
  <2>2. up[c] \in Seq(Requests) /\ up[c] # <<>>
    BY <1>0, <1>6 DEF Respond, TypeOK
  <2>3. Head(up[c]).seq \in 0..MaxSeq /\ Tail(up[c]) \in Seq(Requests)
    <3>1. Head(up[c]) \in Requests
      BY <2>2
    <3> QED  BY <2>2, <3>1, ImageAssumption DEF Requests
  <2>4. Queue(c, Head(up[c]).seq, "snapshot", Built, st) \in Seq(Frames)
    BY <1>0, <2>1, <2>3, QueuedTyped
  <2>5. wire' \in [Clients -> Seq(Frames)]
    BY <1>0, <1>6, <2>4 DEF Respond, TypeOK
  <2>6. sent' \in [Clients -> SUBSET Images]
    BY <1>0, <1>6, <2>1 DEF Respond, TypeOK, Marked, Known, Published
  <2>7. up' \in [Clients -> Seq(Requests)]
    BY <1>0, <1>6, <2>3 DEF Respond, TypeOK
  <2>8. entry' \in Published /\ subs' \subseteq Clients
    BY <1>0, <1>6 DEF Respond, TypeOK, Blank, Published
  <2> QED  BY <1>0, <1>6, <2>1, <2>5, <2>6, <2>7, <2>8 DEF Respond, TypeOK
<1>7. ASSUME NEW c \in Clients, DispatchUnsubscribe(c) PROVE TypeOK'
  <2>1. up[c] \in Seq(Requests) /\ up[c] # <<>>
    BY <1>0, <1>7 DEF DispatchUnsubscribe, TypeOK
  <2>2. Head(up[c]).seq \in 0..MaxSeq /\ Tail(up[c]) \in Seq(Requests)
    <3>1. Head(up[c]) \in Requests
      BY <2>1
    <3> QED  BY <2>1, <3>1, ImageAssumption DEF Requests
  <2>3. Frame(Head(up[c]).seq, "unsubscribed", {}, {}) \in Frames
    BY <2>2 DEF Frame, Frames
  <2> QED  BY <1>0, <1>7, <2>2, <2>3 DEF DispatchUnsubscribe, TypeOK
<1>8. ASSUME NEW c \in Clients, NEW S, Deliver(c, S) PROVE TypeOK'
  <2> DEFINE f == Head(wire[c])
  <2>1. wire[c] \in Seq(Frames) /\ wire[c] # <<>>
    BY <1>0, <1>8 DEF Deliver, TypeOK
  <2>2. f \in Frames /\ Tail(wire[c]) \in Seq(Frames)
    BY <2>1
  <2>3. f.images \subseteq Images /\ f.data \subseteq Images
    BY <2>2 DEF Frames
  <2>4. Parked(c) \subseteq Images
    BY <1>0 DEF Parked, TypeOK, Snapshots
  <2>5. wire' \in [Clients -> Seq(Frames)]
    BY <1>0, <1>8, <2>2 DEF Deliver, TypeOK
  <2> HIDE DEF f
  <2>6. CASE Park(c, f) /\ UNCHANGED <<waiting, snap, cache, forgot>>
    <3>1. Snap(f.images, f.data \cup Parked(c)) \in Snapshots
      BY <2>3, <2>4 DEF Snap, Snapshots
    <3>2. pushed' \in [Clients -> Snapshots \cup {None}]
      BY <1>0, <2>6, <3>1 DEF Park, TypeOK
    <3> QED  BY <1>0, <1>8, <2>5, <2>6, <3>2 DEF Deliver, TypeOK
  <2>7. CASE /\ forgot' = [forgot EXCEPT ![c] = @ \cup f.data]
             /\ UNCHANGED <<waiting, pushed, snap, cache>>
    BY <1>0, <1>8, <2>3, <2>5, <2>7 DEF Deliver, TypeOK
  <2>8. CASE /\ waiting' = [waiting EXCEPT ![c] = 0]
             /\ CacheSnapshot(c, f, S) /\ UNCHANGED pushed
    <3>1. /\ cache' \in [Clients -> SUBSET Images] /\ forgot' \in [Clients -> SUBSET Images]
          /\ snap' \in [Clients -> [images : SUBSET Images, data : {{}}] \cup {None}]
      BY <1>0, <2>3, <2>8, CacheTyped
    <3>2. waiting' \in [Clients -> 0..MaxSeq]
      BY <1>0, <2>8, ImageAssumption DEF TypeOK
    <3> QED  BY <1>0, <1>8, <2>5, <2>8, <3>1, <3>2 DEF Deliver, TypeOK
  <2>9. CASE /\ waiting' = [waiting EXCEPT ![c] = 0]
             /\ snap' = [snap EXCEPT ![c] = None] /\ pushed' = [pushed EXCEPT ![c] = None]
             /\ cache' = [cache EXCEPT ![c] = {}]
             /\ forgot' = [forgot EXCEPT ![c] = @ \cup cache[c] \cup Parked(c)]
    <3>1. waiting' \in [Clients -> 0..MaxSeq]
      BY <1>0, <2>9, ImageAssumption DEF TypeOK
    <3>2. cache' \in [Clients -> SUBSET Images] /\ forgot' \in [Clients -> SUBSET Images]
      BY <1>0, <2>4, <2>9 DEF TypeOK
    <3> QED  BY <1>0, <1>8, <2>5, <2>9, <3>1, <3>2 DEF Deliver, TypeOK
  <2> QED  BY <1>8, <2>6, <2>7, <2>8, <2>9 DEF Deliver, f
<1>9. ASSUME NEW c \in Clients, NEW S, Refresh(c, S) PROVE TypeOK'
  <2>1. pushed[c] \in Snapshots
    BY <1>0, <1>9 DEF Refresh, TypeOK
  <2>2. /\ cache' \in [Clients -> SUBSET Images] /\ forgot' \in [Clients -> SUBSET Images]
        /\ snap' \in [Clients -> [images : SUBSET Images, data : {{}}] \cup {None}]
    BY <1>0, <1>9, <2>1, CacheTyped DEF Refresh, Snapshots
  <2> QED  BY <1>0, <1>9, <2>2 DEF Refresh, TypeOK
<1>10. ASSUME NEW c \in Clients, NEW op \in {"get", "unsubscribe", "subscribe"}, Ask(c, op)
       PROVE  TypeOK'
  <2>1. seq' \in 1..MaxSeq
    BY <1>0, <1>10, ImageAssumption DEF Ask, TypeOK
  <2>2. [seq |-> seq', op |-> op] \in Requests
    BY <2>1 DEF Requests
  <2>3. up' \in [Clients -> Seq(Requests)]
    BY <1>0, <1>10, <2>2 DEF Ask, TypeOK
  <2>4. waiting' \in [Clients -> 0..MaxSeq]
    BY <1>0, <1>10, <2>1 DEF Ask, TypeOK
  <2> QED  BY <1>0, <1>10, <2>1, <2>3, <2>4 DEF Ask, TypeOK
<1>11. ASSUME NEW c \in Clients, Timeout(c) PROVE TypeOK'
  BY <1>0, <1>11, ImageAssumption DEF Timeout, TypeOK
<1>12. ASSUME NEW c \in Clients, InvalidatePushed(c) PROVE TypeOK'
  BY <1>0, <1>12 DEF InvalidatePushed, TypeOK, Parked, Snapshots
<1>13. ASSUME NEW c \in Clients, Reconnect(c) PROVE TypeOK'
  <2>1. seq' \in 1..MaxSeq
    BY <1>0, <1>13, ImageAssumption DEF Reconnect, TypeOK
  <2>2. <<[seq |-> seq', op |-> "subscribe"]>> \in Seq(Requests)
    BY <2>1 DEF Requests
  <2>3. up' \in [Clients -> Seq(Requests)] /\ wire' \in [Clients -> Seq(Frames)]
    BY <1>0, <1>13, <2>2 DEF Reconnect, TypeOK
  <2>4. waiting' \in [Clients -> 0..MaxSeq]
    BY <1>0, <1>13, <2>1 DEF Reconnect, TypeOK
  <2>5. forgot' \in [Clients -> SUBSET Images] /\ sent' \in [Clients -> SUBSET Images]
    BY <1>0, <1>13 DEF Reconnect, TypeOK, Parked, Snapshots
  <2> QED  BY <1>0, <1>13, <2>1, <2>3, <2>4, <2>5 DEF Reconnect, TypeOK
<1> QED
  BY <1>1, <1>2, <1>3, <1>4, <1>5, <1>6, <1>7, <1>8, <1>9, <1>10, <1>11,
     <1>12, <1>13 DEF Next

-----------------------------------------------------------------------------
LEMMA InvInit == Init => Inv
<1> SUFFICES ASSUME Init PROVE StoreCoversEntry /\ \A c \in Clients : Delivered(c)
  BY TypedInit DEF Inv
<1>1. StoreCoversEntry
  BY DEF Init, StoreCoversEntry, Blank
<1>2. \A c \in Clients : Delivered(c)
  BY DEF Init, Delivered, FramesResolvable, InFlight
<1> QED  BY <1>1, <1>2

(* A projection: the bytes that are not in the frame are known, and what   *)
(* is known has arrived or is in front of it.                              *)
LEMMA Projected ==
    ASSUME Inv, NEW c \in Clients, NEW st \in Fold, NEW n \in 0..MaxSeq,
           NEW kind \in {"push", "snapshot"}, UNCHANGED clientVars,
           \/ /\ wire'[c] = Queue(c, n, kind, Built, st)
              /\ sent'[c] = Marked(c, Built, st)
           \/ wire'[c] = wire[c] /\ sent'[c] \subseteq sent[c]
    PROVE  Delivered(c)'
<1>1. /\ Built.images \subseteq st /\ Built \in Published /\ st \in SUBSET Images
      /\ TypeOK /\ Delivered(c)
  BY FoldCovers DEF Inv
<1>2. Had(c)' = Had(c) /\ pushed'[c] = pushed[c] /\ snap'[c] = snap[c]
  BY DEF clientVars, Had, Parked
<1>3. CASE wire'[c] = wire[c] /\ sent'[c] \subseteq sent[c]
  <2>1. \A s \in {pushed[c], snap[c]} \ {None} : s.images \subseteq Had(c)
    BY <1>1 DEF Delivered
  <2> QED  BY <1>1, <1>2, <1>3, <2>1, Kept
<1>4. CASE /\ wire'[c] = Queue(c, n, kind, Built, st)
           /\ sent'[c] = Marked(c, Built, st)
  <2> DEFINE f == Frame(n, kind, Built.images, Needed(c, Built, st) \cap st)
  <2>1. f \in Frames /\ wire[c] \in Seq(Frames)
    BY <1>1, QueuedTyped DEF TypeOK
  <2>2. wire'[c] = Append(wire[c], f)
    BY <1>4 DEF Queue
  <2>3. /\ f.images = Built.images /\ f.data = Needed(c, Built, st) \cap st
        /\ f.kind # "unsubscribed"
    BY DEF Frame
  <2>4. f.images \subseteq sent[c] \cup f.data
    BY <1>1, <2>3 DEF Needed, Known
  <2>5. sent'[c] \subseteq sent[c] \cup f.images
    BY <1>4, <2>3 DEF Marked, Known
  <2> HIDE DEF f
  <2> QED  BY <1>1, <1>2, <2>1, <2>2, <2>3, <2>4, <2>5, Queued
<1> QED  BY <1>3, <1>4

(* cache_snapshot loses nothing without a trace.                           *)
LEMMA CachedHad ==
    ASSUME TypeOK, NEW c \in Clients, NEW s, NEW S, CacheSnapshot(c, s, S)
    PROVE  /\ cache[c] \cup s.data \cup forgot[c] \subseteq cache'[c] \cup forgot'[c]
           /\ snap'[c].images = s.images
           /\ \A d \in Clients \ {c} : /\ cache'[d] = cache[d] /\ forgot'[d] = forgot[d]
                                       /\ snap'[d] = snap[d]
  BY DEF CacheSnapshot, TypeOK, Snap

(* A step that concerns client d leaves the others as they are.            *)
LEMMA Untouched ==
    ASSUME NEW c \in Clients, Delivered(c),
           wire'[c] = wire[c], sent'[c] = sent[c], pushed'[c] = pushed[c],
           snap'[c] = snap[c], cache'[c] = cache[c], forgot'[c] = forgot[c]
    PROVE  Delivered(c)'
<1>1. Had(c)' = Had(c)
  BY DEF Had, Parked
<1>2. \A s \in {pushed[c], snap[c]} \ {None} : s.images \subseteq Had(c)
  BY DEF Delivered
<1> QED  BY <1>1, <1>2, Kept

LEMMA DeliveredNext == Inv /\ [Next]_vars => \A c \in Clients : Delivered(c)'
<1> SUFFICES ASSUME Inv, [Next]_vars, NEW c \in Clients PROVE Delivered(c)'
  OBVIOUS
<1>0. TypeOK /\ Delivered(c)
  BY DEF Inv
<1>A. \A s \in {pushed[c], snap[c]} \ {None} : s.images \subseteq Had(c)
  BY <1>0 DEF Delivered
<1> USE DEF serverVars
<1>1. CASE UNCHANGED <<wire, sent, pushed, snap, cache, forgot>>
  BY <1>0, <1>1, Untouched
<1>2. ASSUME NEW to, NEW failed, NEW st, PushFresh(to, failed, st) \/ TrailingFlush(to, failed, st)
      PROVE  Delivered(c)'
  <2>1. CASE UNCHANGED <<slot, entry, store, sent, wire>>
    BY <1>1, <1>2, <2>1 DEF PushFresh, TrailingFlush, clientVars
  <2>2. CASE st \in Fold /\ ProjectAndQueue(to, failed, Built, st)
    <3>1. UNCHANGED clientVars
      BY <1>2 DEF PushFresh, TrailingFlush
    <3>2. \/ /\ wire'[c] = Queue(c, 0, "push", Built, st)
             /\ sent'[c] = Marked(c, Built, st)
          \/ wire'[c] = wire[c] /\ sent'[c] \subseteq sent[c]
      BY <2>2 DEF ProjectAndQueue, Known
    <3>3. 0 \in 0..MaxSeq
      BY ImageAssumption
    <3> QED  BY <2>2, <3>1, <3>2, <3>3, Projected
  <2> QED  BY <1>2, <2>1, <2>2 DEF PushFresh, TrailingFlush
<1>3. ASSUME NEW d \in Clients, NEW st, Respond(d, st) PROVE Delivered(c)'
  <2>1. Head(up[d]).seq \in 0..MaxSeq
    <3>1. up[d] \in Seq(Requests) /\ up[d] # <<>>
      BY <1>0, <1>3 DEF Respond, TypeOK
    <3>2. Head(up[d]) \in Requests
      BY <3>1
    <3> QED  BY <3>2, ImageAssumption DEF Requests
  <2>2. \/ /\ wire'[c] = Queue(c, Head(up[d]).seq, "snapshot", Built, st)
           /\ sent'[c] = Marked(c, Built, st)
        \/ wire'[c] = wire[c] /\ sent'[c] \subseteq sent[c]
    BY <1>0, <1>3 DEF Respond, TypeOK, Known
  <2>3. st \in Fold /\ UNCHANGED clientVars
    BY <1>3 DEF Respond
  <2> QED  BY <2>1, <2>2, <2>3, Projected
<1>4. ASSUME NEW d \in Clients, DispatchUnsubscribe(d) PROVE Delivered(c)'
  <2>1. CASE c # d
    BY <1>0, <1>4, <2>1, Untouched DEF DispatchUnsubscribe, clientVars
  <2>2. CASE c = d
    <3> DEFINE f == Frame(Head(up[d]).seq, "unsubscribed", {}, {})
    <3>1. wire'[c] = Append(wire[c], f) /\ wire[c] \in Seq(Frames) /\ sent'[c] = sent[c]
      BY <1>0, <1>4, <2>2 DEF DispatchUnsubscribe, TypeOK
    <3>2. f \in Frames
      <4>1. up[d] \in Seq(Requests) /\ up[d] # <<>>
        BY <1>0, <1>4 DEF DispatchUnsubscribe, TypeOK
      <4>2. Head(up[d]) \in Requests
        BY <4>1
      <4> QED  BY <4>2, ImageAssumption DEF Requests, Frame, Frames
    <3>3. f.images = {} /\ f.data = {}
      BY DEF Frame
    <3>4. Had(c)' = Had(c) /\ pushed'[c] = pushed[c] /\ snap'[c] = snap[c]
      BY <1>4 DEF DispatchUnsubscribe, clientVars, Had, Parked
    <3> HIDE DEF f
    <3> QED  BY <1>0, <3>1, <3>2, <3>3, <3>4, Queued
  <2> QED  BY <2>1, <2>2
<1>5. ASSUME NEW d \in Clients, NEW S, Deliver(d, S) PROVE Delivered(c)'
  <2> DEFINE f == Head(wire[d])
  <2>1. wire[d] \in Seq(Frames) /\ wire[d] # <<>> /\ sent' = sent
    BY <1>0, <1>5 DEF Deliver, TypeOK
  <2>2. CASE c # d
    BY <1>0, <1>5, <2>1, <2>2, Untouched, CachedHad DEF Deliver, Park, TypeOK
  <2>3. CASE c = d
    <3>1. wire'[c] = Tail(wire[c])
      BY <1>0, <1>5, <2>3 DEF Deliver, TypeOK
    <3>2. CASE Park(d, f) /\ UNCHANGED <<waiting, snap, cache, forgot>>
      <4>1. pushed'[c] = Snap(f.images, f.data \cup Parked(c))
        BY <1>0, <2>3, <3>2 DEF Park, TypeOK
      <4>2. pushed'[c] # None /\ Parked(c)' = f.data \cup Parked(c)
        <5>1. f \in Frames /\ Parked(c) \subseteq Images
          BY <1>0, <2>1 DEF Parked, TypeOK, Snapshots
        <5>2. Snap(f.images, f.data \cup Parked(c)) \in Snapshots
          BY <5>1 DEF Frames, Snap, Snapshots
        <5> QED  BY <4>1, <5>2, ImageAssumption DEF Parked, Snap
      <4>3. Had(c) \cup f.data \subseteq Had(c)'
        BY <3>2, <4>2 DEF Had
      <4>4. pushed'[c].images = f.images /\ snap'[c] = snap[c]
        BY <3>2, <4>1 DEF Snap
      <4> QED  BY <1>0, <1>A, <2>1, <2>3, <3>1, <4>3, <4>4, Taken
    <3>3. CASE /\ forgot' = [forgot EXCEPT ![d] = @ \cup f.data]
               /\ UNCHANGED <<waiting, pushed, snap, cache>>
      <4>1. Had(c) \cup f.data \subseteq Had(c)'
        BY <1>0, <2>3, <3>3 DEF Had, Parked, TypeOK
      <4> QED  BY <1>0, <1>A, <2>1, <2>3, <3>1, <3>3, <4>1, Taken
    <3>4. CASE CacheSnapshot(d, f, S) /\ UNCHANGED pushed
      <4>1. cache[c] \cup f.data \cup forgot[c] \subseteq cache'[c] \cup forgot'[c]
        BY <1>0, <2>3, <3>4, CachedHad
      <4>2. Had(c) \cup f.data \subseteq Had(c)'
        BY <3>4, <4>1 DEF Had, Parked
      <4>3. snap'[c].images = f.images
        BY <1>0, <2>3, <3>4, CachedHad
      <4> QED  BY <1>0, <1>A, <2>1, <2>3, <3>1, <3>4, <4>2, <4>3, Taken
    <3>5. CASE /\ f.kind = "unsubscribed"
               /\ snap' = [snap EXCEPT ![d] = None] /\ pushed' = [pushed EXCEPT ![d] = None]
               /\ forgot' = [forgot EXCEPT ![d] = @ \cup cache[d] \cup Parked(d)]
      <4>0. f.data = {}
        <5>1. f = wire[c][1] /\ 1 \in 1..Len(wire[c])
          BY <2>1, <2>3
        <5> QED  BY <1>0, <3>5, <5>1 DEF Delivered, FramesResolvable
      <4>1. Had(c) \cup f.data \subseteq Had(c)'
        BY <1>0, <2>3, <3>5, <4>0 DEF Had, TypeOK
      <4>2. pushed'[c] = None /\ snap'[c] = None
        BY <1>0, <2>3, <3>5 DEF TypeOK
      <4> QED  BY <1>0, <2>1, <2>3, <3>1, <4>1, <4>2, Taken
    <3> QED  BY <1>5, <3>2, <3>3, <3>4, <3>5 DEF Deliver
  <2> QED  BY <2>2, <2>3
<1>6. ASSUME NEW d \in Clients, NEW S, Refresh(d, S) PROVE Delivered(c)'
  <2>1. CASE c # d
    BY <1>0, <1>6, <2>1, Untouched, CachedHad DEF Refresh, TypeOK
  <2>2. CASE c = d
    <3>1. cache[c] \cup pushed[c].data \cup forgot[c] \subseteq cache'[c] \cup forgot'[c]
      BY <1>0, <1>6, <2>2, CachedHad DEF Refresh
    <3>2. snap'[c].images = pushed[c].images /\ pushed[c] # None /\ pushed'[c] = None
      BY <1>0, <1>6, <2>2, CachedHad DEF Refresh, TypeOK
    <3>3. Had(c) \subseteq Had(c)'
      BY <3>1, <3>2 DEF Had, Parked
    <3>4. wire' = wire /\ sent' = sent
      BY <1>6 DEF Refresh
    <3> QED  BY <1>0, <1>A, <3>2, <3>3, <3>4, Kept
  <2> QED  BY <2>1, <2>2
<1>7. ASSUME NEW d \in Clients, InvalidatePushed(d) PROVE Delivered(c)'
  <2>1. wire' = wire /\ sent' = sent /\ snap' = snap /\ cache' = cache
    BY <1>7 DEF InvalidatePushed
  <2>2. Had(c) \subseteq Had(c)' /\ (pushed'[c] = None \/ pushed'[c] = pushed[c])
    BY <1>0, <1>7, <2>1 DEF InvalidatePushed, Had, Parked, TypeOK
  <2> QED  BY <1>0, <1>A, <2>1, <2>2, Kept
<1>8. ASSUME NEW d \in Clients, Reconnect(d) PROVE Delivered(c)'
  <2>1. CASE c # d
    BY <1>0, <1>8, <2>1, Untouched DEF Reconnect, TypeOK
  <2>2. CASE c = d
    <3>1. wire'[c] = <<>> /\ sent'[c] = {} /\ pushed'[c] = None
      BY <1>0, <1>8, <2>2 DEF Reconnect, TypeOK
    <3>2. snap' = snap /\ Had(c) \subseteq Had(c)'
      BY <1>0, <1>8, <2>2 DEF Reconnect, Had, TypeOK
    <3> QED  BY <1>A, <3>1, <3>2 DEF Delivered, FramesResolvable
  <2> QED  BY <2>1, <2>2
<1>9. ASSUME \/ \E is \in SUBSET Images, dirty \in BOOLEAN : Publish(is, dirty)
             \/ DeferAll
             \/ \E d \in Clients : \/ Timeout(d)
                                   \/ \E op \in {"get", "unsubscribe", "subscribe"} : Ask(d, op)
      PROVE  Delivered(c)'
  BY <1>1, <1>9 DEF Publish, DeferAll, Timeout, Ask, clientVars
<1> QED
  BY <1>1, <1>2, <1>3, <1>4, <1>5, <1>6, <1>7, <1>8, <1>9 DEF Next, vars, clientVars

LEMMA CoversNext == Inv /\ [Next]_vars => StoreCoversEntry'
<1> SUFFICES ASSUME Inv, [Next]_vars PROVE StoreCoversEntry'
  OBVIOUS
<1> USE DEF serverVars, clientVars
<1>1. CASE UNCHANGED <<entry, store>>
  BY <1>1 DEF Inv, StoreCoversEntry
<1>2. ASSUME NEW st \in Fold, store' = st, entry' = Built \/ entry' = Blank
      PROVE  StoreCoversEntry'
  BY <1>2, FoldCovers DEF StoreCoversEntry, Blank
<1> QED
  BY <1>1, <1>2 DEF Next, vars, Publish, PushFresh, TrailingFlush, DeferAll, Respond,
     Deliver, Refresh, DispatchUnsubscribe, Ask, Timeout, InvalidatePushed, Reconnect

LEMMA Invariance == Spec => []Inv
<1>1. Inv /\ [Next]_vars => Inv'
  BY TypedNext, CoversNext, DeliveredNext DEF Inv
<1> QED  BY <1>1, InvInit, PTL DEF Spec

-----------------------------------------------------------------------------
(* Snapshots, requests, marks and caches hold images and clients there     *)
(* are, and what a client draws from carries no bytes of its own           *)
(* (cache_snapshot takes them into the image cache).                       *)
THEOREM ImagesTypeCorrect == Spec => []TypeOK
<1>1. Inv => TypeOK
  BY DEF Inv
<1> QED  BY <1>1, Invariance, PTL

(* The daemon's store has the bytes of every image its cached snapshot     *)
(* places, whatever its cap (fold_image_data_store).                       *)
THEOREM StoreCovers == Spec => []StoreCoversEntry
<1>1. Inv => StoreCoversEntry
  BY DEF Inv
<1> QED  BY <1>1, Invariance, PTL

(* Bytes the daemon will not send again have arrived, are on the way, or   *)
(* were given up by the client (project_per_client_pure, sent_images).     *)
THEOREM SentArrives == Spec => []SentIsOnItsWay
<1>1. Inv => SentIsOnItsWay
  BY DEF Inv, Delivered, Had, SentIsOnItsWay
<1> QED  BY <1>1, Invariance, PTL

(* No snapshot a client draws or has parked is ahead of its bytes          *)
(* (merge_image_data_forward, cache_snapshot).                             *)
THEOREM PlacementsArrive == Spec => []PlacementsResolvable
<1>1. Inv => PlacementsResolvable
  BY DEF Inv, Delivered, Had, PlacementsResolvable
<1> QED  BY <1>1, Invariance, PTL
=============================================================================
