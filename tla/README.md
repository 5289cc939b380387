# AppTraverse: a verification project

This directory holds TLA+ models of AppTraverse, the TLC configurations that
check them on small instances and TLAPS proofs of what holds for every
instance.  Paths below are relative to the repository.

## 1. The system

AppTraverse is a C++20 library for applications whose whole state is a graph
of event-sourced objects.  An application changes a `Node` by committing an
`Event`; the event goes into the node's journal and is applied.  The same
journal serves replay after a load, replication to other processes and
publication to a GUI that runs on its own thread.  The object system itself
(`ae::Obj`, `ae::Domain`, `ae::ObjPtr`, the storage interface) is the external
library *aether-objects*.

| component | where | state | operations | hard behaviour |
|---|---|---|---|---|
| Node journal | `include/apptraverse/node.h`, `node_for.h`, `event*.h` | `base`, `journal`, `applied_journal_size_`, `generation_`, retention policy | `Commit`, `CommitShared`, `TryInsertShared`, `TryReplayFromBase`, `CompactJournal`, `CaptureBaseState` | insertion in the past (rebuild and replay), compaction, an event that cannot be applied |
| SharedNode, LinkSyncState | `shared_node.h/.cpp` | `shares`, `link_sync_states` and per share the phase, the frozen packets, what was delivered | `AddShare`, `RemoveShare`, `SetShareAccess`, the `Apply` functions of the sync events | a share removed and added again over the same link; local state that must survive a rebuild |
| SharedSyncRuntime | `shared_sync_runtime.h/.cpp` | registered nodes, expectations | `SyncInitialState`, `SyncNextEvent`, `OnNodeState`, `OnAck`, `OnEvent`, `RegisterNode`, `Expect...`, `Forget...` | lost, duplicated and late frames, restarts of either side, a binding callback that fails |
| Frames and network graph | `sync_frame.cpp`, `shared_network_graph.cpp`, `operation_storage.h` | none | encode, decode, freeze, validate, import | validation before anything is stored, fresh ids |
| MemoryNetwork | `memory_transport.h/.cpp` | queue per direction, outages, attached endpoints | `Send`, `DeliverNext`, `DropNext`, `DuplicateNext`, `Disconnect`, `Reconnect` | reordering by duplication, an endpoint that is down |
| PublicationChannel, UiMirror | `publication_channel.h`, `ui_mirror.cpp`, `graph_mirror.cpp` | `published_`, `in_ui_`, three buffers | `AcquireProducer`, `PublishProducer`, `TakePublished`, `ReleaseConsumer`, `Publish`, `ApplyPublished` | lock-free hand-over between two threads |
| ModelRuntime | `model_runtime.h/.cpp` | work queue, `accept_work_`, `stop_`, `pending_by_root_` | `Post`, `RequestStop`, `Join`, `ThreadMain`, `AttachNode`, `DetachNode`, `PublishChanged` | a post racing the stop, a publication that is refused |
| Directory storage | `directory_domain_storage.cpp` | one file per object and class, temporary files, `save_session_had_failure_` | layer writers, `BeginSaveSession`, load | compare, write, rename; each may fail or be the last thing a process does |
| Object serialization, checkpoints | `object_serialization.cpp`, `model_persistence.cpp`, `graph_walk.h`, `distill.h` | snapshots, the side file, publications | bootstrap, save, snapshot, load, hydrate | a snapshot without bases, layers new and old side by side, ids that collide |
| Runtime lifecycle, peer chat | `runtime_lifecycle.h/.cpp`, `examples/chat_ui_runtime_demo` | run ids, network availability, registration, presence | `BeginRuntimeSession`, the `Commit...` helpers, client selection | what an earlier run stored, kills in the middle of a save |
| Surfaces | `src/surfaces`, `examples/surfaces_demo` | list of surfaces, current page, z-order, sizes, bounds; presenters | add, remove, focus, resize, stop | two threads, coalesced sizes, a stop that overtakes reports; four hosts |
| Chat demo, join | `examples/chat_demo/runtime`, `common` | workspace, rooms, join state | join requests, acceptance, rejection, deadline, binding | answers of earlier attempts, restarts |
| Chat demo, windows | `chat_session.cpp`, `linux_chat_app.cpp`, `win_chat_app.cpp` | drafts, revisions, selection, pending sends | edit, send, select, close | two threads with drafts of their own |
| Chat demo, endpoint | `aether/chat_aether_runtime.cpp` | per peer: queue, active write, channel, presence | send, ping, bind, close, retry | a status for a channel that is gone, reports of an earlier endpoint |

How they interact: a node's `NoteMaterializedChange` calls the notifier
`ModelRuntime` (or the surfaces' session) has bound, which marks the node
pending; the model thread publishes pending nodes into a `PublicationChannel`;
the GUI thread takes them from there and answers with posts to the model thread.
`SharedSyncRuntime` reads a `SharedNode`'s journal, freezes frames into its
`LinkSyncState`s, saves them, hands them to an `IByteTransport`, and on receipt
inserts events into the journal of the local copy.  The chat's `ChatSession`
owns a model thread, a `SharedSyncRuntime`, an endpoint with a thread of its own
and a publication channel to the window; it drives the retries once a second and
decides, in the import callback, whether an imported node belongs to its model.
Everything durable goes through a `DirectoryDomainStorage`.

What makes the components correct:

* *journal*: the materialized state is always `base` plus the journal in
  timestamp order, whatever order events arrive in; compaction changes neither;
* *synchronization*: an event marked delivered to a peer is on that peer's disk;
  nobody knows an event its author can still forget; a snapshot acknowledged as
  synchronized is bound in the receiver's model; all copies converge;
* *publication*: no torn read, nothing unread overwritten, nothing pending lost;
* *runtime*: accepted work runs, also when a stop overtakes it;
* *storage*: whatever a stopped process leaves can be loaded, a save that reports
  success is whole, an id means one object for ever;
* *chat*: a join ends, in the room the host offered for that attempt; text typed
  into one chat stays there and is saved; no queued frame is lost, no write blocks
  the ones behind it, a failed endpoint is noticed;
* *surfaces*: the presenters are those of the mirror, the mirror follows the
  model, sizes and final window bounds reach it;
* *lifecycle*: the user never sees an earlier run's state as this run's, and never
  comes back as somebody else.

## 2. The modules and the code

| module | models | state ↔ code |
|---|---|---|
| `Mailbox` | what a `PublicationChannel` promises | `box`, `held`: the unread message and the ones being looked at |
| `PublicationChannel` | `publication_channel.h`, the producer side of `ui_mirror.cpp` | `published`, `in_ui`, `buffers`, `producer` are the class's members; `ppc`, `seen`, `cpc`, `idx` are program counters and locals |
| `ModelRuntime` | `model_runtime.cpp`, `UiMirror::Publish`/`ApplyPublished` at the grain of a message | `work`, `accept`, `stop`, `pending`, `mapped` (`object_to_roots_`); `version` stands for a node's fields; `box`/`held` are the mailbox of each root; `shown` is what reached the GUI; `known` and `posted` are bookkeeping of the model |
| `SharedSync` | `shared_sync_runtime.cpp`, `shared_node.cpp`, `memory_transport.cpp`, the frames, and what `chat_session.cpp`/`chat_commands.cpp` do with them | per process: `node` (in memory), `disk` (what a restart finds), `bound` (the saved workspace refers to the node), `expect`, `sequence` (`next_message_sequence`); `net` and `outage` are `MemoryNetwork`'s |
| `NodeJournal` | `node.h`, `shared_node.cpp`'s stash across rebuilds | `base`, `journal`, `applied`, `gen`, `sync` (`link_sync_states`), `live`: the events applied, which stand for the fields they produce; `saved`: the last `Save` |
| `LayerStore` | `directory_domain_storage.cpp` | `file`, `tmpfile`, `classdir`: the directory tree; `writer`: the writer being closed and the step it is at; `hadFailure` |
| `ObjectGraph` | the graph walks of `object_serialization.cpp`, `graph_walk.h` | operators only |
| `ModelCheckpoint` | `model_persistence.cpp`, the snapshots of `object_serialization.cpp`, `distill.h`, the imports of `shared_network_graph.cpp`, on top of both modules | `heap` and `gen`: objects and generations in memory; `todo`: layers a save has still to store; `snap`, `sidecar`: snapshot and side file |
| `ChatJoin` | the join protocol of `chat_session.cpp`, `chat_demo_runtime_state.cpp`, `chat_bootstrap.cpp` | `join`: `ChatDemoRuntimeState`; `sched`, `overdue`, `waiting`, `expect`, `registered`: locals of the session; `entry`, `hostRoom`, `saved`: the workspaces |
| `ChatUi` | the window side of `chat_session.cpp`, `linux_chat_app.cpp`, `win_chat_app.cpp`, `chat_commands.cpp` | the window's members, `queue`/`batch` of the model loop, `model` and `disk`: the workspace, `dirty`, `processed` and the publication slot |
| `ChatEndpoint` | `chat_aether_runtime.cpp`, the stream frames, `on_uid`/`on_ready`/`on_failed`/presence/retry of `chat_session.cpp` | `peer`: `PeerState`; `native`: a write the library has accepted; `reports`: work queued for the model thread; `owed`: a ghost, the frames queued and not yet begun |
| `Surfaces` | `surfaces_model.cpp`, `surfaces_presentation_size_queue.cpp`, `surfaces_lifecycle.cpp`, publications and presenters of `object_serialization.cpp`, the hosts under `examples/surfaces_demo` | `model`, `mirror`, `saved`: the list, sizes, bounds, z-order; `loaded`: presenters in load order; program counters of the two threads; `native`: the size a window really has; `atStop`: a ghost |
| `RuntimeLifecycle` | `runtime_lifecycle.h/.cpp` and the application that uses them, `examples/chat_ui_runtime_demo` | `disk`, `mem`: the application object; `account`: the uid in the Aether state directory; `queue`, `model`: the model thread; `aether`: the Aether thread; `env`: what the library would tell it; `asserts`: assertions that failed |
| `MC*` | constants for TLC | |
| `*Proofs` | theorems | |

Composition: `ModelCheckpoint` extends `LayerStore` and `ObjectGraph`, so a save
is a sequence of file operations and a crash may come between any two.
`ModelRuntime` composes with `PublicationChannel` through `Mailbox`: the first
uses a mailbox per root, the second is proved to be one; `Surfaces` and `ChatUi`
use the same one-message slot.  `SharedSync` and `NodeJournal` look at the same
`SharedNode` from two sides: the first takes a journal as a set with an admission
predicate `CanInsert`, the second shows what an insertion does to order, fields
and local state.  `ChatJoin` shows where `SharedSync`'s expectations come from,
`ChatEndpoint` what the transport below it does.

Decisions a reader should know:

* A handler of `SharedSyncRuntime` runs to its end on the model thread and saves
  before it sends, so a handler is one step.  A crash in its middle is covered:
  before the save it equals the loss of the frame and a crash, after the save the
  loss of the answer and a crash.  An import that is stored and then not bound is
  the step in which the binding callback fails.  What happens inside a save is
  the subject of `ModelCheckpoint` and, for the peer chat, of `RuntimeLifecycle`.
* `PublicationChannel` treats the atomics as sequentially consistent.
* `NodeJournal` has `base` survive a stop as it was last captured, because
  `CaptureBaseStateInto` writes it into the domain's storage at once; everything
  else survives as of the last `Save`.  With `UnsavedFolds` a stop may come at any
  time; without it, only while the base is the one the last `Save` found.  What was
  committed since that `Save` is lost in both.
* A node of `NodeJournal` that compacts takes no event before its last record:
  the chat holds compaction back on every node that gets events from elsewhere.
* Packets are named by sender, share and event.  The code names them by the
  `ObjId` of the `Begin...Event`, of which there is one per such triple that is
  ever sent.
* `ChatJoin` keeps every frame ever sent in `net`: a step receives one and leaves
  it there, which covers loss, repetition and reordering at once.
* In `ChatUi` a text is named after the chat it was typed into; in `ChatEndpoint`
  the clock is reduced to which of two instants lies beyond a timeout.
* The four hosts of `Surfaces` share the model thread; `host` is chosen in the
  initial state.  A publication serializes what the dirty node reaches; the
  surface reaches the list, so it holds the whole list.
* `ImportClosedEventGraph` is library API that only tests call; its caller in
  `ModelCheckpoint` is what `OnEvent` does after an import.
* An operator whose name ends in `_Something` and whose comment begins with
  "Variant" is a plausible slip in the code; replacing the definition that follows
  by it breaks the property the project file names with it.

## 3. The runs

All bounds are constants of the cfg files.

| run | cfg | instance | checks |
|---|---|---|---|
| channel | `MCPublicationChannel` | 3 buffers (the code's), 2 messages, 2 consumers | the two asserts of the class, `WriterAlone`, refinement of `Mailbox` |
| sync_safety | `SyncSafety` | host, client, 1 event each, queues of 2; either every fault of transport, binding and process, or a host that edits shares (one relationship re-opened), a join by node id and joins given up | `AuthorRemembers`, `DeliveredIsDurable`, `CompleteIsBound`, `CompleteIsShared` |
| sync_progress | `SyncProgress` | two events of the host, the second needs the first; loss, failing bindings, host crashes | `EventuallyBound`, `EveryEventArrives` |
| journal | `Journal` | three shared events, two with one timestamp, one needing another; two local ones; a share opened and closed; keep 1 by count, 1 by age, or compaction held back; imports; a stop at any point but between a compaction and its save | `LiveIsReplay`, `ProgressSurvives`, `CompactionIsHousekeeping`, `GenerationTells` |
| journal_lost_save | `JournalLostSave` | the same, with a stop at any point | `CompactionIsHousekeeping`, violated |
| runtime | `Runtime` | two nodes, two roots (one node in both), 2 posts, 2 versions | `NoWorkLeftBehind`, `NothingForgotten`, `GuiCatchesUp` |
| checkpoint | `Checkpoint` | application, node, base and two generated ids (symmetric); one fault of any file operation, 2 edits, 1 save, 2 stops; a program that saves layers and one that saves snapshots | `NothingDangles`, `CleanSaveIsComplete`, `SnapshotLoadsWhole`, `IdentityIsStable` |
| chat_join | `ChatJoin` | 2 hosts, 3 attempts, 2 rooms, one restart, one retry, one host whose directory is replaced | `JoinedIsBound`, `OneRoomPerClient`, `JoinIsDecided` |
| chat_ui | `ChatUi` | 2 chats, both desktop windows, 3 inputs (edits, clicks, joins, faults) | `RevisionMatchesDraft`, `DraftIsOwn`, `ClosedIsSaved`, `MirrorCatchesUp`, `ClosingEnds` |
| chat_endpoint | `ChatEndpoint` | 2 payloads, one too long, 2 sends, 2 channels, 1 frame received, nothing new from peer or library while a report waits, 1 retry, failures in the loop and on the way out | `NothingOwedIsLost`, `SessionFollowsEndpoint`, `FailureFollowsEndpoint`, `WriteEnds` |
| surfaces | `Surfaces` | the four hosts, 3 surfaces, 2 inputs, 2 sizes | `PresentedIsLive`, `StopKeepsWindows`, `TopologyShown`, `SizeReachesModel` |
| lifecycle | `Lifecycle` | 2 runs, one of: kill, network change, diagnosis change, failed selection, message | `ShownIsThisRun`, `IdentityIsDurable`, `RegistrationIsAdmitted`, `RegistersEventually` |

Why the bounds are enough: a queue of two frames holds a frame with its duplicate
or with its successor, which is what reordering needs; two share ids with one Link
are a relationship and its successor; one event per author suffices for durability,
two for order; with two versions a change meets an unread publication.  One fault
in a save leaves a mixture of new and old layers, and a second process then loads
and saves it.  Three join attempts are an attempt, its successor and one to the
other host.  Three inputs are an edit, a switch and an edit of the other chat, or
an edit, a send and a close.  Two channels are a channel and its replacement, and
one retry an endpoint and its successor with a report of the old one on its way:
an endpoint that cannot select its client reports it, leaves its loop, throws in the
save and reports again; the second report waits while the user retries.
Three surfaces are a profile of one or two and at least one that is added.  In the
lifecycle the interesting cases need an earlier run and one thing going wrong.
Runs take between two seconds and two and a half minutes, up to two million
distinct states.  Deadlock is checked for the channel and the lifecycle; the other
systems may rest (all is delivered, the thread is joined), and their cfgs say so.

### The run that ends in a counterexample

**journal_lost_save**: `CompactionIsHousekeeping` fails when a process stops
between `CompactJournal` and `Save`: the base in storage already holds the
prefix that the saved journal still lists (`node.h:323`), and the next compaction
that retains records applies it twice.  A policy that retains nothing takes the
other path and is not affected.  `UnsavedFolds` is what tells this run from
`journal`: there a node, whether it compacts or not, may stop after a save, or after
a save and commits that are lost, but not between the capture of a base and the
save that follows.

### Observations that no run states

These came up while modelling.  The runs leave them out of the scenarios, or the
property says where it stops.

* `CompleteIsBound` needs either failing bindings or joins that are given up, not
  both: import, failed binding, deadline (`chat_session.cpp:846`), repeated
  snapshot, and `OnNodeState` (`shared_sync_runtime.cpp:687`) finds no open
  expectation and acknowledges a node no model refers to.  The comment at :684-686
  and `plan.md:647` say otherwise.  A scenario with the faults `bindFails` and
  `forget` in `SyncSafety.cfg` shows it in nine states.
* `EventuallyBound` needs a receiver that does not restart between a stored import
  and its binding: only bound rooms are registered again, and the retried snapshot
  collides with its own objects (`shared_sync_runtime.cpp:585`).
* A peer chat killed between binding the local client and its clean exit has, in
  the next run, a client the room does not list until it registers again; a message
  sent meanwhile meets `assert(room.CanApply(*event))`
  (`chat_ui_runtime_demo/common/chat_commands.h:81`).
* `LocalConnectivityMonitor` keeps `last_reported_` over an outage
  (`aether_runtime.cpp:79`); when the diagnosis comes back unchanged, the presence
  stays Connecting.
* `Enumerate` counts the class directories of an object, also empty ones
  (`directory_domain_storage.cpp:559`): a process stopped between making the
  application's directory and renaming its file leaves a profile that is not
  bootstrapped again and that `LoadApplication` aborts on.  The side file is
  emptied before it is written (`object_serialization.cpp:1583`), and one that
  ends early fails an assertion of the next load.  `ModelCheckpoint` has both as
  the phase `aborted`.
* The Android chat (not modelled) keeps the text of the old chat in its Java box
  after `SelectChat`, so a flush at that moment commits it to the new chat
  (`chat_native_runtime.cpp:274`).
* On Windows an open IME composition keeps the old text in the control across a
  switch of chats (`win_chat_app.cpp:770`); `DraftIsOwn` is stated for Linux.
* A model whose base pointer is already broken when a snapshot is taken loses the
  pointer at the next load; `SnapshotLoadsWhole` is about closed graphs.
* A process stopped between the two objects of an import leaves an event's part that
  nothing names, or an event whose part was never stored.  Nothing the application
  leads to mentions them, and their ids are not free as long as the class directories
  stand; but a part that has no directory yet may have its id given to another object.
  `NothingDangles` therefore speaks of what the application leads to, not of every
  layer file.
* `IdentityIsStable` excepts snapshots on a file system that may refuse to create a
  directory, once a commit has failed.  There the side file holds an object of which
  the storage has no trace; a compaction takes it out of memory, the id looks free to
  `AllocateUniqueReceiverObjId` and is given to an imported event, and after a stop
  the injection of the side file (`object_serialization.cpp:1520`) puts the old object
  over the event.
* An object that nothing leads to leaves the domain when its last pointer goes (a
  compaction, a load, the end of an import).  In an earlier form of the model such
  objects stayed in memory, and `SnapshotLoadsWhole` was false for them.

### Fairness

* `SharedSync`: the session's loop drives every share of every bound room again
  (`chat_session.cpp:1806`, once a second), so the sending steps are strongly fair;
  a transport that is sent the same frame for ever delivers it in the end, so the
  receiving steps are strongly fair; a join is retried, and a binding retried for
  ever succeeds; a crashed process is restarted and crashes cease.  Without the last
  two nothing could be promised.  In the chat, events are sent only to a peer whose
  presence is Online; the fairness of `SyncNextEvent` takes it that a peer which is
  up is seen Online again and again.
* `ModelRuntime`: the operating system schedules the model thread, and the GUI
  thread answers the notifications it gets.
* `ChatJoin`: the deadline passes and the loop of the session looks at it; nothing
  is assumed of network or host.
* `ChatUi`: the window's message loop and the model thread go on; nothing is
  assumed of the user, the network or crashes.
* `ChatEndpoint`: the library reports the status of a write it accepted and the
  endpoint's loop handles its notices.
* `Surfaces`: both threads go on.
* `RuntimeLifecycle`: both threads go on, the retry delay passes, and the library
  answers a selection.

`PublicationChannel`, `NodeJournal`, `LayerStore` and `ModelCheckpoint` are checked
for safety only.

## 4. The proofs

Eight modules hold the proofs, one per component; two of them cover a second
component that the first builds on or hands over to.  That is why the actions and
the specification of `PublicationChannel` and `ChatJoin` carry a prefix
(`ChannelInit`, `JoinNext`, ...): a module that extends two specifications needs
them apart.  Every safety property and every action property that a run
checks is a theorem, for all values of the constants.

`ModelRuntimeProofs`, for all nodes, roots, initial mappings and bounds:
`RuntimeTypeOK`, `RuntimeNoWorkLeftBehind`, `RuntimeNothingForgotten`.  The
strengthening says that a stop closes the acceptance window and is seen only
afterwards (`StopCloses`), and that pending, unread and held entries concern nodes
the root knows (`OnlyKnown`), so that a node attached meets no old publication of
itself.

The second half of the module is about the channel, for every number of buffers
from three, every set of messages and every set of consumers: types, both asserts,
`WriterAlone`, and that the channel implements `Mailbox`.  The invariant is
`ChannelTypeOK` with three parts that none of the properties states: while the
producer is at work nothing is published (`ProducerExclusive`: only the producer
publishes, and it has looked); the mark `in_ui` belongs to one consumer
(`OneOwner`); what is published or read is whole, and a reader's slot is in the
producer's loads when it selects (`ReaderSafe`).  The last is the heart of it: a
consumer that comes to read while the producer is between its two loads must have
marked `in_ui` before it cleared `published`, and `published` was empty all the
time.  The refinement maps each step to a step of the mailbox or to a stutter.

`SharedSyncProofs`, for any endpoints, shares, events, queue bounds and scenarios:
types, `AuthorRemembers`, `DeliveredIsDurable`, `CompleteIsShared`,
`CompleteIsBound`, and `StorageGrows` (no step, a crash included, takes an event out
of an endpoint's storage).  Two invariants, the second on top of the first.
`IndInv` says of every copy, every frozen packet and every frame on the way that the
events in it are in their authors' storage, and of every acknowledgement that its
sender has stored what it answers.  The hard part is an acknowledgement that comes
late: it counts for the packet that is outstanding now, so the invariant has
`FrozenOnce` (the snapshot of a sender and share is frozen at most once, because a
share id is given out once) and `SameBytes` (two snapshots of one packet hold one
journal).  `RelInv` carries the promises about the other end: who sends a snapshot or
acknowledges one has bound the node and stored the shares it names; and a node that
is not bound yet has its expectation still open (`UnboundWaits`).  That is where
`CompleteIsBound` needs its hypothesis `BindingsWaited`, that no scenario has both
failing bindings and expectations given up: with both the property is false (see
*Observations*).  Every scenario of the run satisfies it.

`RuntimeLifecycleProofs`, for any number of runs, kills, failures and changes:
`IdentityIsDurable`, `RegistrationIsAdmitted`, `ShownIsThisRun`.  A kill may fall
between two stored objects of one save, so the invariant relates the objects on disk
to each other (`IdentityOK`, `RoomOK`, `RunOK`); what will be shown depends on posts
not yet run, so it also says what each queued post finds when its turn comes
(`QueueOK`).

The second half of the module is about the other thing a restart must survive, the
join protocol of `ChatJoin`, for any hosts, attempts, rooms and bounds:
`JoinedIsBound`, `OneRoomPerClient`.  Strengthening: the workspaces in memory and on
disk agree (`WorkspaceSaved`), an accepted join names an offer that was sent
(`JoinOK`), and every offer of a host whose directory was not replaced names the room
that host has on disk (`OffersOK`).

`NodeJournalProofs`, for any events, shares, retention and clock: `LiveIsReplay`,
`CompactionIsHousekeeping`, `ProgressSurvives`, `GenerationTells`.  A rebuild replays `base` and journal
from nothing and puts the sync states back; that this restores them needs that an
`AddShareEvent` is applied once and before its `RemoveShareEvent` (`ShareOrder`) and
that the states are those of the open relationships (`StatesOf`).  What was saved has
both properties as well, together with the base the save found (`SavedWell`), and a
stop is harmless exactly when that base is the one in the storage.  The hypothesis
`SavedBeforeStop` says so: no process stops between a compaction and its save, at any
other point it may.  Without it the results are false, as `journal_lost_save` shows.
A node whose compaction is held back has an empty base, so it may stop anywhere, and
has counted no more generations than a rebuild would (`HeldBack`): that is why a
rebuild, which counts the whole journal from one, never comes back to an old number.

`ChatUiProofs`, for any chats, inputs, failures and crashes: `RevisionMatchesDraft`,
`DraftIsOwn`, `ClosedIsSaved`.  The argument follows an edit through the commands
that are not run yet (the batch being run and the queue behind it): the last one for a
chat is the text the user left (`Settled`), their revisions rise above what was
processed (`Ordered`), and what is published is older still (`PublishedOK`).
`OwnWindow` and `OwnSession` say the same of whose text it is.

`ChatEndpointProofs`, for any payloads, channels, retries and bounds:
`NothingOwedIsLost`, `SessionFollowsEndpoint`, `FailureFollowsEndpoint`.  For the
first, every frame owed stands in the queue or in the active write, through every
filtering of the queue (`Owed`).  For the second the reports of the running endpoint that are on their way are taken
together with what the session has seen: the last of them is the endpoint's presence,
and those that hand over a frame make up the difference between frames handed over
and applied (`Following`); reports of earlier endpoints count for nothing, and none
is of a later one.  For the third, an endpoint that runs has reported no failure, one
out of its loop has, or is shown as failed, and readiness is always reported before a
failure, so that it cannot hide one (`Failing`).

`SurfacesProofs`, for every host and any numbers of surfaces, inputs and sizes:
`PresentedIsLive`, `StopKeepsWindows`.  A presenter is loaded once, a window before
its button, and the presenters are those of the mirror but for what the running
update has still to load or unload (`Presenting`).  Until the windows' state is posted
no bounds are under way; from then on the bounds of every window shown are posted or
in the model, whatever is removed meanwhile, and on Windows so is the z-order
(`Stopping`).  What a removal from a list, a filtering of the queue and a reduction to
the live surfaces leave behind are lemmas of the module.

`ModelCheckpointProofs`, for any set of ids, any kinds and number of faults and any
bounds: `CleanSaveIsComplete`, `NothingDangles`, `IdentityIsStable`,
`SnapshotLoadsWhole`.  `Basic` holds of every program and every file system: what
objects, layers and snapshots look like (`Shape`), what each phase has on the disk
(`Started`), that what has a file or is half written has a class directory
(`Directories`), and that every layer a save is to leave behind is still to be stored,
being stored, stored or has failed (`Saving`, which gives `CleanSaveIsComplete`).
On top of it:

* `OneObject`: whatever is known of an id, in memory, on the disk, in the side file or
  on its way between them, is of one object.  A new id is one of which nothing is
  known; for this the class directories count, not the files.
* `Sound`: with layers and no failed commit, what the disk mentions is on the disk
  (`Loadable`), what is being stored comes after what it mentions (`InTurn`), and an
  event that is being imported is stored with its parts before the journal names it
  (`Importing`, `Whole`).
* `Lean` and `Copies`: the application leads to everything in memory and every node
  has its generation; so a snapshot that is being written, read or kept in the side
  file holds a whole model (`Holds`).  Loading it undoes, step by step, what the
  serializing did: the layers give everything but the bases, the bindings the bases,
  the sanitizing takes nothing from a closed graph, and nothing is dropped as
  unreachable.

A graph walk is stated as the least set closed under the edges (`Closure`), which is
what the code's walk with a visited set computes.  That is all the proofs need: it is
closed (`ClosureIsClosed`) and contained in every other closed set
(`ClosureIsLeast`).

Assumptions are those of the modules: at least three buffers, contents distinct
from messages, a mapping of nodes to sets of roots, bounds that are naturals, a
`None` that is no other value, events of relationships that are distinct, a chat to
show, and the two hypotheses above, which stand in the theorems that need them.

Two definitions had guards of a `CASE` that overlap, so that TLC took the first and the
meaning left the choice open: `Commit` of `ChatJoin` and `EffectiveCurrentId` of
`Surfaces`.  The proof attempt stopped there; both now decide in the order of the code.

What the proof attempts on `ModelCheckpoint` found is under *Observations*.

Only model-checked is liveness (`EventuallyBound`, `EveryEventArrives`,
`GuiCatchesUp`, `JoinIsDecided`, `MirrorCatchesUp`, `ClosingEnds`,
`WriteEnds`, `TopologyShown`, `SizeReachesModel`,
`RegistersEventually`): fairness and ENABLED are outside the prover.

## 5. Not modelled, and why

* Overlay and partitioned storage (`overlay_domain_storage.cpp`,
  `partitioned_model_domain_storage.cpp`): wrappers around a storage, planned.
* Byte layouts, the encoding of members and the rejection of malformed graphs carry
  no protocol state.
* Generic widgets (`src/ui`) and platform presenters copy attributes to controls of
  the operating system; layout, scrolling, geometry, localization and tray icons of
  the modelled windows are left out for the same reason.
* The Android chat and the macOS and iOS hosts; the presence monitor, the dynamic
  objects, main window and model/UI demos; test runners and scripts.
* The object system and the Aether client are external; the definitions that stand
  for their calls are marked so.
* The endpoint's loop also ends when the library says it has exited
  (`chat_aether_runtime.cpp:617`); nothing in the program asks it to before the loop
  is over.  It would end without a report.
* `PeerStreamHub` of the peer chat is never given a peer by the application.
* `ModelRuntime::PumpOnce` (a loop body without a thread) and
  `SetInitialSyncPhase` (called by tests only) are left out; a node is not attached
  again to a root it was detached from.

## 6. Plan

1. The one-step `Save` of `SharedSync` as an abstract specification that
   `ModelCheckpoint` implements when no file operation fails.
2. Overlay and partitioned storage on top of `LayerStore`.
3. The Android chat as a third platform of `ChatUi`.
4. Three endpoints in `SharedSync`, with events relayed by the host.
