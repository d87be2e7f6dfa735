# ori_term: models of its panes, its daemon and its session

ori_term is a GPU terminal emulator with a built-in multiplexer. A pane's
terminal lives on a thread of its own; what it shows travels as snapshots, either
to the main thread of the same process (the embedded backend) or through a daemon
to the windows of other processes (the client backend). Around that path there are
a daemon with many clients, a connection with threads of its own at each end,
caches of images that both ends keep, and a session of windows, tabs and panes that
follows what the multiplexer reports. This project models those parts: the ones
where threads and processes have to agree, or where long sequences of legal
operations have to leave a structure whole.

    child -> PTY reader -> IO thread -> double buffer -+-> embedded backend -> redraw
                              ^                        |          ^
               handle: commands, resize slot,          |       session
               wake, shutdown flag, tokens             |          v
                                                       +-> daemon <-> transport <-> client
                                                           (throttle, defer, cache, images)

## Inventory

| Component | State | Operations | Hard because | Correct when |
|---|---|---|---|---|
| `SnapshotDoubleBuffer` (`pane/io_thread/snapshot`) | front buffer, produced and consumed sequence numbers | `flip_swap`, `swap_front`, `has_new` | snapshots are skipped; buffers are recycled | damage of the waiting snapshot covers everything since the consumed one |
| Pane IO thread (`pane/io_thread`) | terminal, parser's sync timer, `grid_dirty`, pending exit status and responses | run loop: drain commands, process bytes, publish, `select!` | five channels, rate limit, Mode 2026, shutdown from three sides | everything parsed is out before it blocks; no wake is lost; it ends |
| PTY reader, writer, child watcher (`pty`) | bounded byte channel, write queue, exit channel | forward, stop, report | blocking sends against a join | dropping a pane always returns |
| Dirty tracking (`oriterm_core` grid, renderable) | `DirtyTracker` | mark, collect, reset | a missed row is invisible to tests that redraw everything | the tracker covers what the grid gained over the newest snapshot |
| Embedded backend (`backend/embedded`) | wakeup flag, `snapshot_dirty`, two caches | `poll_events`, `refresh_pane_snapshot`, `swap_renderable_content`, commands | flag cleared while producers set it; swaps leave old frames behind | no publication goes unnoticed; the frame is the newest snapshot |
| Redraw and Prepare (`oriterm/app/redraw`, `gpu/prepare`) | frame, last pane, saved rows | `handle_redraw`, incremental fill | clean rows are replayed from the previous frame | the replay is invisible: the redraw of whole snapshots |
| Daemon push (`server/push`, `server/snapshot`) | snapshot cache, `pending_push`, priorities, last push times | push, defer, trailing flush | one buffer, many clients, throttling and backpressure | every subscriber gets to see the last update |
| Daemon requests about snapshots (`server/dispatch`) | subscriptions | subscribe, unsubscribe, `GetPaneSnapshot` with its barrier, fire-and-forget commands | the barrier may time out | answers are as fresh as the barrier, or errors |
| Client backend (`backend/client`) | pushed snapshots, dirty set, pending refreshes | reader thread, poll, refresh, RPC | map, notification and RPC answer arrive independently | never stuck dirty, never drawn clean too early |
| Connection life cycle (`server/mod`, `server/clients`, `in_process`) | connections, subscriptions twice, panes, registry, notifications | accept, spawn, close, disconnect, drain events, exit | a pane may exit, be closed, be left and lose its client between any two steps of a turn | the two maps agree; what a client shows is served; losing one client spares the others; the daemon ends |
| Host requests in the daemon (`server/host_request`) | `pending_host_replies`, pane priorities | choose a responder, reply, four clean-ups | each way a responder can go must settle its tokens | every pending token is owed by somebody who was asked |
| Client transport (`backend/client/transport`) | pending RPCs, sequence numbers, outstanding ping, liveness flag | rpc, fire-and-forget, write, ping, dispatch, drop | late answers, reused numbers, a blocked write at shutdown | a caller gets its own answer or is freed; drop returns |
| Image caches (`server/push/projection`, `image_cache`) | `sent_images` per connection, image stores on both sides | fold, project, park, merge, evict | both sides evict, and the daemon only guesses what a client holds | what is not sent again has arrived or is about to |
| Session (`oriterm/session`, `app/pane_ops`, `app/tab_*`, `app/window_*`) | windows, tabs, floating panes, undo stacks, names of tabs held by events and drags | about thirty operations, deferred moves, and the mux's notifications | many ways to move one thing, on names captured earlier | tabs are partitioned, panes are not shared, the mux and the session know the same panes |
| Split tree (`oriterm/session/split_tree`) | a binary tree | split, remove, resize, equalize | rebuilt along a path | edits keep the order and move the right border |
| Terminal emulation, VTE, GPU, fonts, UI, settings, wire codec | | | sequential data | not modelled |

`PROJECT.json` maps every definition to its lines and lists every hazard with the
properties that would catch it.

## Modules

- **SnapshotDoubleBuffer** is the slot: every method holds its mutex throughout, so
  each is a function from slot to slot.
- **FramePipeline** (extends it): the IO threads of several panes, the coalesced
  wakeup, and the main thread with pump, caches and redraw. Main-thread handlers are
  atomic to each other; IO threads run in between, also between the clearing of the
  wakeup flag (`PumpClear`) and the look at each pane (`PumpScan`). `ProduceSnapshot`
  and `FireWakeup` are the two halves of `produce_snapshot`. A row is an opaque value;
  parsing may rewrite any rows and marks those. `Redraw` chooses freely whether text is
  being composed, whether the frame parameters (the dispatch fingerprint) changed and
  which rows the cursor, hover and selection dirtied. `MainOps` selects what the
  application does besides: commands marked dirty in advance, refreshes outside the
  redraw, tab switches, resizes, font changes, preedit.
- **FullRedraw** is what FramePipeline promises: panes offer whole snapshots, a window
  draws a whole snapshot, the newest it has or the newest on offer. It knows no damage,
  buffer, cache or flag. `Abstract` in FramePipeline is the refinement mapping: a
  pane's content is its grid, its offer the newest published snapshot, waiting or
  consumed (`NewestCells`), what was taken the newest consumed one, and the picture the
  rows that the last redraw left on the screen, drawn or replayed. The theorem `Refinement` and
  run FramePush show that every step of the pipeline is a step of it, or a stutter.
- **PaneIo**: one pane's threads. The IO thread is cut where it reads shared state
  (`pc`): resize slot, command channel, response tokens, flag, bytes, quiescence
  point, the arms of `select!`. Chunks are known by what they do to Mode 2026.
  `term.stale` says that the terminal shows something no snapshot has shown. The rate
  limit is a free choice (`MaybeProduced`). Stores and the wakes that announce them
  are separate steps of the other side (`SendResize`/`TrySendWake`,
  `Fulfill`/`TrySendWake`, `RaiseFlag`/`SendShutdown`, `WriterStops`/`WriterWakes`).
  `handle_pty_eof` is not modelled, since nothing can reach it (run PaneExit).
- **SnapshotPush**: one pane, the daemon's single thread and its clients. Content is
  a version number; time is the age of the last push in push intervals; a connection
  is a FIFO of frames, congested at `HighWater` frames. One turn of the daemon is
  requests, then `TrailingEdgeFlush`, then `PushFresh` (phase 2b of
  `drain_mux_events`). In production nothing sends `MuxEvent::PaneOutput` to the
  daemon and every client announces the push capability, so the phases for those two
  cases are left out. The IO thread appears only as far as it publishes, or does not
  because a synchronized update is open (`sync`): `SnapshotNow` is acknowledged either way.
  `passed` is a history variable, the last barrier that was passed.
- **DaemonClients**: the rest of the daemon's thread, with the clients that drive it.
  `phase` is the place in a turn of `MuxServer::run`: readable connections are served
  (`Accept`, `HandleDecodedFrame`, `ClientEnds`), the events of the panes are polled
  (`PollEvent`, one at a time), the notifications are routed (`RouteNotification`), the
  closed panes are cleaned up (`CleanupClosed`), connections are served once more, and
  `EndTurn` looks at `should_exit` and the shutdown flag. A pane is in `panes` while the daemon has a
  `Pane` for it and in `registry` while its registry does; a pane whose child exited by
  itself leaves only the second. A client blocks in an RPC (`rpc`), goes on to subscribe after a
  spawn and may end anywhere (`Leave`), also with frames unread. Identifiers are never
  reused by the code, so a client that comes back is another element of `Clients`.
- **ClientTransport**: main thread, writer and reader of one connection, cut where they
  touch shared state: the liveness flag, the channel, the pending map, the outstanding
  ping and the socket. `HasSender` is the reply sender of a call: it lives in the
  channel or in the pending map, and its disappearance is what frees a blocked caller.
  Numbers wrap at `SeqMax`, so that a small instance reuses them; a late answer meets
  an RPC of another time.
- **ImageDelivery**: one pane's snapshots as sets of placed images, the daemon's store
  and `sent_images`, the frames on the way, and each client's parked snapshot, cached
  snapshot and image cache. `Survivors` is eviction: any choice of unprotected entries
  that gets under the cap. `forgot` is a history variable: bytes the client once had
  and has given up.
- **PaneTree** is the split tree as a function from places to nodes; a place is the path
  from the root, a sequence of sides. The code descends from the root and rebuilds the path;
  here an edit is made at the place where that descent ends (`Way` is the places it visits,
  `Grow` and `Collapse` what happens there). Without recursion the prover can reason about it.
- **SplitTree** holds the same functions recursively, as the code has them, with reference
  definitions of what they should do (`SplitThenRemove`, `RemoveKeepsOrder`, `ResizeMovesNearest`,
  `DividerMovesParting`). Only TLC uses it.
- **SessionTrees** extends Session with the comparison: on every tree of up to three leaves
  (`SmallTrees`), and on every larger one that a tab comes to have, each edit of PaneTree gives,
  node for node, what the recursion of SplitTree gives (`SameEdits`, `SameResizes`), also where
  undo has put a pane into a tree twice.
- **Windows** declares what the next two share and holds the methods of `Window` (add,
  insert, remove, reorder and their arithmetic on the position of the shown tab) and of the
  registry on all the windows.
- **TabWindows** is what the application promises about its windows, without what is in
  the tabs: which tabs there are, in which window, in which order, and which one is shown.
  A tab is named before it is moved, and the handlers do not look at the name again: `moves`
  holds the events that ask for a window of its own (`MoveTabToNewWindowDeferred` sends one,
  `MoveTabToNewWindow` handles it, anything in between), `grabs` the drag that each window's
  tab bar has in progress since a button was pressed on a tab, `drag` the window that is
  dragged. Keys arrive during all of these. `astray` and `hollow` are history: closed tabs
  that a handler put into a window and tabs that were lost with the window a merge removes;
  windows that a move left empty.
- **Session** (extends PaneTree and Windows): one step per operation on the event loop
  (`UserStep`), per event it handles later (`LoopStep`) and per thing the multiplexer does by
  itself (`MuxStep`: a shell exits, the pump handles what waits). Operations are functions from session to session, as the registry's
  methods are, with the early returns of the code as disjuncts. `lost`, `stuck` and
  `leaked` are history: panes a known defect has dropped from every tab, has left in a
  tab, or has kept from being released (see below). They are added to only where the
  code does one of those, so the properties speak about everything else. `Registry` maps it to
  TabWindows (the tabs are the domain of the session's map of tabs): an operation on
  tabs or windows is the step of that name there, and whatever happens to panes (splits,
  floats, undo, exits, pumps) changes no window.
- **MC modules** name the sets the configurations use.
- **FramePipelineProofs, PaneIoProofs, SnapshotPushProofs, DaemonClientsProofs,
  ClientTransportProofs, ImageDeliveryProofs, TabWindowsProofs, SessionProofs** hold the
  theorems.

Where components meet they are modelled together (buffer, pipeline and redraw; the
daemon's thread and its clients' threads; session and mux). Where one abstracts the
other, it takes its freedom from it: ImageDelivery pushes and defers whenever
SnapshotPush could. The event `PaneExited`, from which DaemonClients (`ChildExits`) and
Session (`ChildExits`) start when a shell ends by itself, is taken from the code that
handles it (`event_pump.rs:33`): as long as run PaneExit fails, the IO thread does not send it.

Definitions that stand before a definition of nearly the same name
(`FlipSwapForgetsSkipped` before `FlipSwap`) are the plausible mistakes each property
is tested against; nothing else refers to them.

## Runs

| Run | Shows |
|---|---|
| FramePush | one pane, two rows, output, resizes, font changes, preedit: rows on screen are the rows of the frame although most are replayed, the frame is the newest snapshot consumed, the pipeline implements the redraw of whole snapshots, and when inputs stop the screen becomes and stays the grid |
| FrameCaches | two panes, commands, tab switches, refreshes outside the redraw: damage stays cumulative, the tracker covers the grid, no snapshot goes unnoticed |
| PaneHandle | commands, resizes, replies, dropped tokens, child exit, typing at a dead child and dropping the pane, with both channels of capacity one: no wake is lost, replies are sent under a flood of output, and the drop returns with all threads ended, also when the reader holds a chunk for a full channel |
| PaneSync | Mode 2026 windows in every cut, SnapshotNow, commands, resizes, exit: nothing outside a window is held back at `select!`, the last of two sizes is applied whatever the output does, a window ends once the channels are quiet |
| PaneExit (violated) | a child writes, exits and is reaped, and nobody touches the pane: the IO thread does not end and nothing reports the exit. The byte channel would have to lose its last sender, and `new_with_handle` leaves one in the `PaneIoHandle` (`handle.rs:377`), which joins the thread before it is dropped. The tests of `handle_pty_eof` build the thread without a handle |
| PushOne | one client with commands and priorities: the newest snapshot is always somewhere on its way to the subscriber, and a quiet pane ends up drawn |
| PushLeave | a client that leaves, returns and asks for snapshots: until an answer to `GetPaneSnapshot` comes between, it draws nothing older or emptier than before; and through barrier, time-out and abandoned acknowledgements an answer has all that the terminal showed at the barrier, or, if a synchronized update was open there, what was published last or nothing |
| Daemon | two clients share a pane, spawn, close, leave, hide, answer host requests, stop the daemon and die at any moment, while the pane exits and asks for the clipboard: the daemon's two maps of subscribers agree, every pending request was asked of a subscriber that still owes it, what a client shows is served or its end announced, a death takes no pane from the other client, and the daemon outlives neither |
| Transport | calls, fire-and-forget requests, pings, time-outs and late answers over reused sequence numbers, with a daemon that answers, hangs or ends, and the transport dropped at any moment: a caller gets its own answer, no call or ping in progress is forgotten, a caller of a dead daemon returns without waiting for its time-out, and the drop returns even when the writer is stuck in a write |
| Images | one client, two images, room for one at each end; pushes that are deferred, fail, or are merged, answers that come late, unsubscribing, scrolling, reconnecting: the store keeps what the cached snapshot places, what the daemon will not send again has arrived, is on the way or was given up by the client, and no placement is ahead of its bytes |
| Session | three panes, tabs and windows, five operations in any order, shells that exit, the pump: names of tabs held by events and drags while the tabs are closed and moved: every operation changes the windows as TabWindows says or not at all, no name is listed twice, the registered tabs are the listed ones and no window is empty but for those that a name used too late has led `astray` or left `hollow`, the shown tab stays shown, no pane can appear in two tabs (not even through undo), session and mux know the same panes; and on every tree of up to three leaves, and every larger one reached, PaneTree edits as the recursion of SplitTree does, edits keep the order of the panes and move the right border |
| SessionDeadTab (violated) | when the pane that is the only leaf of a tab's split tree is closed or exits, with or without floating panes beside it, `remove_pane_from_session` finds no tree left to set (`helpers.rs:34-42`). The dead pane stays as the tab's tree, so the tab is not found empty, and tab and window stay too; only the mux has let go of the pane |

In the same configurations the type invariants of FramePipeline, SnapshotPush, DaemonClients,
ClientTransport, ImageDelivery and Session hold too, as does
`DeferredAreSubscribed` in PushLeave; the listed runs keep to the properties that could
fail for reasons of the code.

### Disagreements not kept as runs

Each can be reproduced by giving the constants named. The text in quotes is the code's
own.

In the snapshot path:

- FramePipeline, one pane, `MainOps = {"refresh"}`: `ScreenSettles` fails. A mouse press
  (`app/mouse_input.rs:220`), a drag that scrolls (309) or a key in mark mode takes the
  snapshot out of the double buffer and clears the dirty mark; the redraw that follows
  finds nothing changed and keeps its frame until the next output.
- FramePipeline, `MainOps = {"command"}`: `FrameNotStale` fails. `scroll_display` marks
  the pane dirty before the IO thread has answered; the redraw refreshes, finds nothing
  and still swaps, surfacing the buffer of the frame before.
- FramePipeline, `MainOps = {"switch"}`, two panes: `FrameNotStale` fails. The swap
  leaves one tab's frame in another pane's cache entry, and coming back to an idle pane
  surfaces it. The snapshot that the same-size resize of the switch causes repairs it.
- PaneIo, `Ops = {"remoteReply"}`, output `"query"`: `ReplyDelivered` fails.
  `ReplyHostRequest` in the daemon (`server/dispatch/mod.rs:364`) fulfills the token and
  does not send the wake; `run_loop.rs:28-29` says "Any real event (PTY byte, command,
  child exit, response fulfillment) wakes the thread earlier."
- PaneIo, `Outputs = {"text", "bsu"}`: `SyncEnds` fails. The timeout lives in the default
  arm of `select!`, which a channel that is always ready keeps from being taken.
- PaneIo, `Outputs = {"bsu", "esu", "save", "restore"}`: `SyncEndsWhenQuiet` fails.
  XTRESTORE sets Mode 2026 without arming the timer.
- SnapshotPush, run PushLeave: `GetIsFresh` fails. Inside a synchronized update
  `SnapshotNow` is acknowledged although the publication was deferred
  (`pane/io_thread/handler.rs:240-251`; in PaneIo, `SnapshotNowIsFresh` fails). The answer
  is then the last publication, however old, or the empty entry that the last answer left
  behind. "the wire contract is "guaranteed-fresh or error"" (`server/dispatch/mod.rs:399-403`);
  "a single round-trip RPC is enough to get a guaranteed-fresh snapshot"
  (`backend/client/rpc_methods.rs:433-436`). `GetIsFreshUnlessHeld` is what holds.
- SnapshotPush, run PushLeave, `NeverBlanked` without `NoAnswerYet`: fails. A request takes
  the cache entry (`server/snapshot/mod.rs:123`) from which a deferred push is then
  cloned, and the client is pushed an empty screen. `NeverRegresses` fails likewise: a pushed
  snapshot that was parked before the answer is drawn over it.
- SnapshotPush, two clients: `ScreenCatchesUp` and `UpdateReachesSubscriber` fail. The
  trailing flush consumes the buffer for the deferred client, and phase 2b
  (`server/push/mod.rs:354`) finds nothing for the other.
  `SubscribeReturnsCurrent` fails: the second subscriber of a quiet pane gets the entry
  the first one emptied. So does a single client that leaves and returns, and
  `UpdateReachesSubscriber` is therefore checked without leaving.

In the daemon:

- `ClosePane` by one client cleans up the subscriptions at once, so another client that
  shows the pane is never told. `ShownIsServed` exempts panes somebody asked to be
  closed (`killed`); without the exemption it fails with two clients.
- A pane whose child has exited stays in the map that `should_exit` counts
  (`server/mod.rs:504`), so a daemon whose clients left after such an exit runs on;
  the comment at 501 says "Exits when all panes have exited AND no clients are
  connected". The same holds of a pane whose client ended between `SpawnPane` and
  `Subscribe`, or unsubscribed first. `ExitsAfterClients` says that nothing else does it.
- A subscription to a pane that does not exist is recorded before the error is sent.
- A client that reconnects may find the panes it alone was subscribed to closed by the
  end of its old connection, if the daemon handles that first.
- The application's `pump_close_notifications` drops host requests it comes across
  without an answer, which is why nothing assumes that `Fulfill` happens.

In the image path:

- `DrawnHasBytes` (the assertion in `gpu/extract/from_snapshot/mod.rs:145`) fails with
  `Ops = {"scroll"}`: a scroll drops the parked snapshot with bytes the daemon will not send
  again. It fails also after unsubscribing and subscribing again (the daemon keeps
  `sent_images`), after the client's own eviction, and after an answer that came too late.
  `SentIsOnItsWay` and `PlacementsResolvable` account for these as `forgot`; what they
  claim is that nothing else loses bytes.
- The mark that images changed is lost with the snapshot that carries it when that one is
  overwritten before it is consumed.
- A frame too large to queue is neither served nor deferred.

In the transport:

- A wedged daemon with a full socket is never taken for dead: the writer that would
  notice the missing answer to its ping is blocked in a write.
- `drain_pending` is not needed for `GoneFreesCaller`: the map goes with the last of the two
  threads.

In the session:

- Undoing a split takes the newer pane out of the tree while its shell runs (`lost`).
- Undo after a pane has been floated puts it into the tree and leaves it floating.
- Splitting while a floating pane has the focus spawns a pane that no tab gets
  (`pane_ops/mod.rs:126-131`).
- A failed `create_window` discards all notifications that wait
  (`window_management/create.rs:97`), a `PaneClosed` among them, and the pane's object is
  never released (`leaked`).
- Session, `TabsPartition` without `astray` or without `hollow`: fails, in four ways.
  The move to a new window captures the tab when the key is pressed
  (`move_ops.rs:16-25`), and the handler looks at nothing again (167-260). If the tab was
  closed in between, its name is put into a new window that shows a tab there is not. "Closes
  the source window if it ended up empty" (161-162) is true of the window that has the focus only
  (172, 248-260): after two moves, or a change of focus, the window that the tab left stays,
  empty. The press on a tab captures it likewise (`tab_drag/mod.rs:155`), keys arrive while the
  button is down, and `tear_off_tab` (`tear_off.rs:43-79`) moves the name of a tab that was
  closed. And a merge (`merge_core.rs:36-75`) moves the dragged tab and removes the dragged window
  with whatever else it lists: a tab opened in a torn-off window while it is dragged is lost.
- Every pointer movement of a divider drag pushes an entry on the undo stack.

### Bounds

Two rows are the least that can be damaged apart, two panes the least that can
confuse their caches, two clients the least that can take from each other. Channel
capacities of one make "full" and "empty" neighbours; the proofs cover any capacity.
`MaxInputs`, `MaxOps`, `MaxOutput` bound what comes from outside; the properties speak
of a conflict between at most three such events (publish, skip, publish; resize, resize,
command; push, defer, push). `MaxOps` in SnapshotPush also bounds the redraws that overtake
a pending notification, each of which may ask for a push. Output in PaneIo is not
bounded: the child may flood for ever.

Daemon: one pane and one host request suffice for a conflict, since every clean-up is
per pane and per token; three operations of two clients (spawn, subscribe, and one more)
with the exits, deaths and replies in between give 0.7 million states. Four operations, or two
panes with two clients, were too many for liveness to be checked in minutes; the theorems
cover any number. Transport: with `SeqMax = 3` the fourth request reuses the number of the
first, and pings count down through the same numbers. `Enqueue` and its bound leave out that
a number comes around while it is still unanswered, which takes 2^32 requests. Images: two
images and one place are the least with eviction, three requests and three publications allow
subscribing, leaving and returning with a push in between. Instances with two clients were
too large; the theorems cover any number of clients.
Session: three panes give every shape in which a border is not the innermost, three tabs
every shift of a position (the theorems cover windows of any length); five operations reach a
split, a float, a move and two more, or two new tabs, a press, a close and a tear-off of the closed
tab; handling a move that waits is not counted. The user splits in one direction, which changes
the shape of no tree; the trees of `SmallTrees` have both. The ratio counts steps of a resize, and an instance has two.

Symmetry (values of a row, images) is used in FrameCaches and Images only, which have no
liveness property. Deadlock is allowed where the system may stop or rest: an idle or closed
pane, a stopped daemon, a dropped transport, a session without inputs.

### Fairness

- FramePipeline: each IO thread runs its loop; a raised wakeup flag is pumped (the
  event it posts wakes the event loop) and a dirty window is drawn once its frame
  budget has elapsed. No input is fair, and neither is `Invalidate`.
- PaneIo: weak fairness of the IO thread as a whole (not of one arm of `select!`), of
  the writer, the reader's send and EOF, the watcher, and of what main has begun. Output, exit,
  commands, replies and the close may never come.
- SnapshotPush: the daemon's poll returns after 100 ms at the latest, so its turns come
  (weak fairness of `Drain`); a turn handles every readable connection before it drains,
  which is strong fairness of `Handle(c)` because in the middle of a drain nothing is
  handled. IO thread, clock and the clients' threads are weakly fair. A synchronized update
  that is left open times out (`SyncTimesOut`), which the bounded output lets it do.
- DaemonClients: turns come for the same reason (`Drain`), the grace period of five
  seconds ends, and a turn accepts or notices the end of a connection when there is one.
  That is strong fairness, because neither is possible in the middle of a drain. Clients
  are not fair at all: they may block, never answer a host request, never leave.
- ClientTransport: both threads run, a destructor goes on, a caller that has its answer
  (or lost its sender) returns. Neither the daemon nor any time-out is fair.
- ImageDelivery and Session have safety properties only.

## Proofs

From `PipelineAssumption` (nonempty sets of panes and rows, distinct null values,
natural bounds) and for any number of panes, rows, values and inputs:

- `TypeCorrect`: `TypeOK`, with the consumer never ahead of the producer.
- `DamageIsCumulative`: `CumulativeDamage`. Not inductive alone: a snapshot published
  over an unconsumed one must cover the older one's damage too. The invariant adds
  `TrackerCoversGrid`, which says what the next snapshot's damage will cover, measured
  from the newest snapshot, be it waiting or consumed; `TrackerCovers` states it by itself.
- `WakeupIsNeverLost`: `NoLostWakeup`, with the fact that a thread between flip and
  wakeup still has `grid_dirty` set.
- `IncrementalDrawingFaithful`: with one pane and `MainOps` limited to resizes, fonts and
  preedit (`PushOnly`, the condition of run FramePush), `ScreenFaithful` and
  `FrameNotStale` always hold. The invariant relates the cached rows to the
  consumed snapshot and says that a dirty mark means something new is waiting, so that
  the buffer the swap surfaces is the one just consumed.
- `Refinement`: under the same condition, `ImplementsFullRedraw`. Initial states map to
  initial states; each action is one step of FullRedraw or a stutter (a publication is an
  `Offer`, a redraw a `Draw`, which needs the invariant to know that its rows make up one
  snapshot, and everything about flags and caches is invisible).

From `PaneIoAssumption`, for any capacities and any number of operations:

- `PaneTypeCorrect`: `TypeOK`; neither channel outgrows its bound.
- `PublishedBeforeBlocking`: `NothingHeldBack`. Inductive once every place of the loop is
  covered: what is stale outside a window is marked in `grid_dirty` (`Marked`).
- `WakesAreNotLost`: with replies given through the handle (`LocalReplies`), `NoWakeLost`.
  The invariant says for each of resize, reply and shutdown until which place of the
  loop a taken wake still counts.

From `DaemonAssumption`, for any number of clients, panes, requests and operations:

- `SubscriptionsAgree`: `MapsAgree`. The invariant adds that a client that is not
  connected has no subscriptions left (`NobodyElse`, without which accepting could bring some
  in) and that what the daemon stores is about panes there can be (`Stored`). The five
  places that change a map come down to three lemmas: cleaning up a set of panes,
  changing one client's set, and disconnecting.
- `PendingIsAnswerable`: the part of `PendingIsOwed` about the daemon's own state, by the
  same invariant.
- `EndsSpareOthers`: `LeavingSparesOthers`, from `MapsAgree`: "nobody else in the
  daemon's map" means nobody else.
- `DaemonTypeCorrect`, `PendingStaysOwed`, `ShownStaysServed`: `TypeOK`, `PendingIsOwed` and
  `ShownIsServed`, from one invariant on top of the one above (`ServiceInv`). A live client's
  conversation is a state of its own: at most one request or answer is in flight, and it is the
  one the client is blocked on (`OneRpc`); without it an answer could be taken for another
  request's, and a client would show a pane it never got. What a request's responder owes is
  followed through the queues (`Owes`): frame, memory, reply. For `ShownIsServed` the
  invariant has to cover the middle of a turn, where a pane's end has been polled and its
  clean-up is still to come (`AnnouncedInv`: whoever is subscribed to a pane whose end was
  routed has the news in its queue), and it has to look ahead in the client's queue: what is
  shown once its next frames are read, the answer to a `Subscribe` among them, must be
  served still, or its end announced behind those frames (`ServedInv`).

From `SnapshotPushAssumption`, for any bounds, intervals and high-water mark:

- `SnapshotTypeCorrect` and `DeferredSubscribed`: `TypeOK`, and `DeferredAreSubscribed`, for
  any number of clients and any operations.
- `GetAnswersFresh`: `GetIsFreshUnlessHeld`, likewise. The invariant has two parts: the order of
  the versions in buffer, entry and barrier, with an entry that is the last publication or empty
  once the buffer is (`Versions`); and that while a request waits at its barrier the `SnapshotNow`
  is still queued, or an open update held its publication back, or a snapshot at least as new as
  the barrier is in the buffer (`Barrier`), which nobody but the daemon's blocked thread could take.
- `NoClientRegresses`: `NeverRegresses` for any number of clients, if nobody uses
  `GetPaneSnapshot` (with it the property fails, see above). What a client shows, what is
  parked, and what is on its connection are in ascending order, and none of it is newer than
  the daemon's entry (`Chain`). That rests on what each client, its queue and its connection can
  be in together (`Conversations`).
- `LoneClientNeverBlanked`: `NeverBlanked` under the same condition and with one client,
  because a second one can empty the entry the first is pushed from. A deferred push has a
  snapshot in the buffer or the entry behind it and nothing blank is on the way (`Filled`), and
  pushes are deferred for subscribers only.
- `LoneClientUpdated`: `UpdateReachesSubscriber`, with one client that neither leaves nor uses
  `GetPaneSnapshot` (`WorkOnly`; for two clients or one that leaves it fails, see above). Not inductive alone: a version that is
  published before anybody subscribes must still be in the buffer (`Unseen`), and "on its
  way" has to be refined by stage (`Coming`: a deferred push counts only if the entry is the
  newest snapshot, a parked one only with a dirty mark or a notification).

From `ImageAssumption`, for any number of clients, images and marks and any caps:

- `ImagesTypeCorrect`: `TypeOK`.
- `StoreCovers`, `SentArrives`, `PlacementsArrive`: `StoreCoversEntry`, `SentIsOnItsWay`
  and `PlacementsResolvable`. One invariant serves all three. It adds that no *frame* is
  ahead of its bytes (`FramesResolvable`: what a frame places is in it, in a frame in
  front of it, or was with the client already), which carries a placement from the daemon's projection
  to the client's parked and cached snapshots, and that the answer to an unsubscription
  carries no bytes, so that dropping it loses none. Eviction enters through one lemma
  only: it keeps what is protected and invents nothing.

From `TransportAssumption`, for any range of sequence numbers and any number of requests:

- `AnswersReachTheirCaller`: `AnswersCorrelate`. The invariant is arithmetic: an unanswered request
  whose number is n requests old stands n places before the next number, modulo
  `SeqMax` (`Windowed`), so that two unanswered requests with one number are one
  (`SameNumber`), and what the pending map knows of the call it knows under the call's own number.
  The premise, that fewer than `SeqMax` requests follow one while it is unanswered, is
  the guard of `Enqueue`.
- `CallsAreTracked`: `CallIsTracked`. A frame that overwrites or removes an entry of
  the map has the entry's number, hence is the same request; an acknowledged ping is kept
  away from the map because it is the outstanding one.
- `PingsAreTracked`: `PingIsTracked`, with the fact that there is one ping or acknowledgement
  in the whole connection at a time and it is the outstanding one (`OnePing`).
- `UnansweredNumbersDiffer`: two requests that are unanswered never share a number, wherever in the
  connection they are (from `Windowed`, under the same premise); `TransportTypeCorrect`: `TypeOK`.

From `WindowsAssumption`, for any number of tabs and windows:

- `RegistryTypeCorrect` and `TabsArePartitioned`: `TypeOK` and `TabsPartition`. The invariant is
  about names, registered or not: the windows partition the names they list (`Layout`), and
  whatever an event or a drag holds is a name that has been given out (`Held`), so that no
  handler can bring in the name of a tab that is still to come. What the histories except is
  then exactly what the handlers do to a name that is not registered, to a window that is not
  the focused one, and to a dragged window that lists more than its tab.
- `ShownIsKept`: `ShownTabKept`. All three rest on lemmas in three layers: where `RemoveAt` and
  `InsertAt` put each element of a sequence; what `add_tab`, `remove_tab`, `reorder_tab` and the
  merge do to one window (no tab twice, position in range, same tab shown); and what replacing,
  adding or dropping one window does to a partition.

From `SessionAssumption` and `WindowsAssumption`, for any number of panes,
tabs, windows and operations and any limit of the undo stack:

- `SplitTreesStayWhole`: every layout a tab shows or can go back to is a binary tree (`IsTree`: with
  every node its parent, with every split both children, below a leaf nothing). The lemmas about
  `Grow` and `Collapse` say where each node of the new tree was in the old one. A removal shifts the
  kept subtree up by a step, and `Up` and `Down` are shown to be inverse and to keep prefixes. The
  panes of the new tree are the old ones and at most the new pane, or all but at most the removed one.
- `PanesAreNotShared`: `NoSharedPane`. An edit lets a tab know of no pane it did not know of, undo
  and redo stacks included (`IsEdit`); only a spawn brings a pane in, and its number is fresh
  (`Known`: nothing anywhere has a number that is still to be given out, not even an exit in the queue).
- `SessionAgreesWithMux`: `SessionMatchesMux`. Two facts keep it: a pane whose `PaneClosed` waits is
  registered no more, and a registered pane has its `Pane` object (`Agrees`). The mux closes and the pump
  removes pane by pane, so these steps are proved by going along the list of panes up to each
  position (`CloseEach`, `RemoveEach`); what `lost`, `stuck` and `leaked` are given in a step is
  exactly what the invariant then has to except.
- `SessionImplementsTabWindows`: `ImplementsTabWindows`. Each operation, with its early returns and what the
  pump does along the way, is the step of its name in TabWindows or leaves tabs, windows and the
  names that are held alone. Hence
  `SessionTabsPartitioned` (`TabsPartition`) and `SessionShownKept` (`ShownTabKept`), from the
  invariant of TabWindowsProofs under the refinement mapping.
- `SessionTypeCorrect`: `TypeOK`.

The loops over a list of panes are recursive functions on positions; what is needed of them is
proved position by position, by the least position where it would fail (`UpTo`, from the
well-foundedness of the natural numbers), without an induction theorem that takes an operator.

Only model-checked: liveness (it needs fairness, beyond the prover), and of Session
`TreeEditsKeepOrder` and `ResizeMovesBorder`: they compare PaneTree with the recursive operators of
SplitTree and speak of the order in which a recursion meets the panes, which needs induction
over trees. So the theorems are about PaneTree, and that PaneTree is the code's recursion
is checked on small trees in run Session. The hypotheses of the theorems (`PushOnly`,
`LocalReplies`, one client) are there because without them the property fails.

## Not modelled

- Terminal emulation, the escape-sequence parser (but for Mode 2026), reflow,
  selection and search: sequential transformations of a grid of cells. Column ranges of
  damage, scrollback and animations are abstracted away with them.
- GPU rendering (the repository contains a copy of `wgpu-hal`, by far the largest part of
  its source, which is third-party code), fonts and shaping, UI toolkit, settings and configuration: output and
  data, without the interleavings and histories this project is about.
- The wire codec and IPC sockets: frames arrive whole and in order here. The
  handshake and decoding errors, each of which ends a connection as `Leave` or
  `DaemonEnds` does.
- The multi-pane redraw with its per-pane render cache, and the text that composition
  writes over the frame's own cells (the model has the re-extraction it forces).
- Of the daemon: the `NewTab` broadcast, adopting a standalone pane, requests that only ask,
  clients without the push capability. Of the client: `set_pane_priority`, modelled on the
  daemon's side, is not called by the application at present.
- Of images: sizes in bytes, several panes sharing a client's cache, clearing of `sent_images` by
  `MarkAllDirty`.
- Of the session: zoom (closing a zoomed pane leaves its mark), rectangles, and daemon mode,
  in which moving a tab to another process leaves its entry behind in the first.

## Plan

1. Proofs: which border a resize moves, as a lemma about `Way` in PaneTree.
2. A latest-value channel that SnapshotPush implements for one client, as FramePipeline
   implements FullRedraw.
3. The multi-pane redraw, and the composition text over the frame: what of it may survive
   in a swapped buffer.
4. Zoom and daemon mode in Session; the client's end of a moved tab.
