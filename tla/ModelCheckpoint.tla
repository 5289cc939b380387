--------------------------- MODULE ModelCheckpoint ---------------------------
(* A model kept in a layer store: how it is bootstrapped, saved, captured   *)
(* in a snapshot beside the layers, extended by events that arrive from the *)
(* network, and loaded by the next process.  The model is an application    *)
(* object with one node, the node's base and the events of its journal.  A  *)
(* process may stop before any file operation.                              *)
EXTENDS ObjectGraph, LayerStore, Functions

CONSTANTS App, TheNode, Base, \* the distilled ids; the others are generated
          MaxEdits,           \* bound: commits, imports and compactions
          MaxSaves,           \* bound: saves that are asked for
          MaxStops            \* bound: processes that are stopped

ASSUME DistilledIds ==
  /\ {App, TheNode, Base} \subseteq Obj /\ NoObj \notin Obj
  /\ App # TheNode /\ App # Base /\ TheNode # Base

VARIABLES
  app,     \* how this program keeps its model: "layers" or "snapshots"
  phase,   \* what the process is doing
  heap, gen, \* the objects of the domain, the generations of the nodes
  todo,    \* layers a save has still to store
  snap,    \* the bytes of the snapshot being saved or loaded
  sidecar, \* persistent_model_checkpoint.bin
  count    \* what the bounds count

Layer == {<<o, c>> : o \in Obj, c \in {"Node", "Own"}}

memory == <<heap, gen, snap>>
vars == <<app, phase, memory, todo, sidecar, count, storeVars>>

-----------------------------------------------------------------------------
(* Objects and their layers.  `tag` tells an object from every other one    *)
(* that ever had its id.                                                    *)

Kinds == {"app", "node", "event"} \* of a root; "part" is what an event refers to

Object(kind, tag, n) ==
  [refs |-> {}, base |-> NoObj, journal |-> {},
   val |-> [kind |-> kind, tag |-> tag, n |-> n]]

\* One layer for each class of the object that has members of its own.
LayersOf(o, f) ==
  {<<o, "Own">>} \cup (IF f.val.kind = "node" THEN {<<o, "Node">>} ELSE {})

\* The members of one class.
Bytes(f, class) ==
  IF class = "Own" THEN [refs |-> f.refs, val |-> f.val]
  ELSE [tag |-> f.val.tag, base |-> f.base, journal |-> f.journal]

TagOf(bytes) == IF "val" \in DOMAIN bytes THEN bytes.val.tag ELSE bytes.tag

Mentions(bytes) ==
  IF "val" \in DOMAIN bytes THEN bytes.refs
  ELSE bytes.journal \cup ({bytes.base} \ {NoObj})

\* The layers of a set of objects.
Layers(objects) ==
  [l \in UNION {LayersOf(o, objects[o]) : o \in DOMAIN objects} |->
     Bytes(objects[l[1]], l[2])]

\* An object whose layers are all there, and what it looks like.
Complete(o) ==
  /\ IsLoaded(<<o, "Own">>)
  /\ file[<<o, "Own">>].val.kind = "node" => IsLoaded(<<o, "Node">>)

ObjectOnDisk(o) ==
  LET own == file[<<o, "Own">>]
      history == IF own.val.kind = "node" THEN file[<<o, "Node">>]
                 ELSE [base |-> NoObj, journal |-> {}]
  IN  [refs |-> own.refs, base |-> history.base,
       journal |-> history.journal, val |-> own.val]

OnDisk == [o \in {p \in Obj : Complete(p)} |-> ObjectOnDisk(o)]

\* An object lives as long as the application leads to it: the domain holds
\* no reference of its own.
Kept(objects) == SaveObjectGraphToScratch(objects, App)

Nodes(objects) == {o \in DOMAIN objects : objects[o].val.kind = "node"}

-----------------------------------------------------------------------------
(* Bootstrap and load                                                       *)

NoLayers == [l \in {} |-> NoObj]
NoHeap == [o \in {} |-> NoObj]
NoSnap == [state |-> "absent"]

\* BuildSurfacesGraph and FinalizeDistilledGraph: ids are fixed and every
\* node gets a base.
DistilledGraph ==
  [o \in {App, TheNode, Base} |->
     IF o = App THEN [Object("app", 0, 0) EXCEPT !.refs = {TheNode}]
     ELSE IF o = TheNode THEN [Object("node", 1, 0) EXCEPT !.base = Base]
     ELSE Object("node", 2, 0)]

Init ==
  /\ app \in {"layers", "snapshots"}
  /\ phase = "down"
  /\ heap = NoHeap /\ gen = NoHeap /\ todo = NoLayers /\ snap = NoSnap
  /\ sidecar = NoSnap
  /\ count = [edits |-> 0, saves |-> 0, stops |-> 0, born |-> 3]
  /\ InitStore

\* A process starts on a directory without the application object.
Bootstrap ==
  /\ phase = "down" /\ Enumerate(App) = {}
  /\ phase' = "bootstrap"
  /\ heap' = DistilledGraph
  /\ gen' = [o \in Nodes(DistilledGraph) |-> 1]
  /\ todo' = Layers(DistilledGraph)
  /\ UNCHANGED <<app, snap, sidecar, count, storeVars>>

\* LoadApplication: what can be reached and is there; generations restart.
LoadApplication ==
  /\ todo = NoLayers /\ Idle
  /\ \/ phase = "down" /\ Enumerate(App) # {}
                       /\ (app = "layers" \/ sidecar.state = "absent")
     \/ phase = "bootstrap"
  /\ IF Complete(App)
     THEN /\ heap' = Kept(OnDisk)
          /\ gen' = [o \in Nodes(heap') |-> 1]
          /\ phase' = "run"
     ELSE phase' = "aborted" /\ UNCHANGED <<heap, gen>>
  /\ UNCHANGED <<app, snap, todo, sidecar, count, storeVars>>

\* TryLoadPersistedModelFromStorageSidecar and the first loop of
\* LoadPersistentModelSnapshot: a file that ends early fails an assertion.
ReadSidecar ==
  /\ phase = "down" /\ app = "snapshots" /\ Enumerate(App) # {}
  /\ sidecar.state # "absent"
  /\ IF sidecar.state = "whole"
     THEN /\ phase' = "hydrate"
          /\ todo' = sidecar.layers
          /\ snap' = sidecar
     ELSE phase' = "aborted" /\ UNCHANGED <<todo, snap>>
  /\ UNCHANGED <<app, heap, gen, sidecar, count, storeVars>>

\* Variant: the snapshot's list of bases is not read.
RestorePersistedNodeBaseBindings_Unread(objects) == objects

\* RestorePersistedNodeBaseBindings: a node that has none gets its base back.
\* (One that is not there is taken out again by the sanitizing.)
RestorePersistedNodeBaseBindings(objects) ==
  [o \in DOMAIN objects |->
     IF o \in DOMAIN snap.bindings /\ objects[o].base = NoObj
     THEN [objects[o] EXCEPT !.base = snap.bindings[o]]
     ELSE objects[o]]

\* ObjPtrReferenceIsStale: a pointer to what the snapshot did not bring.
ObjPtrReferenceIsStale(objects, ref) == ref # NoObj /\ ref \notin DOMAIN objects

\* SanitizePersistentObjPtrFields: the stale pointers of one object go.
SanitizePersistentObjPtrFields(objects, f) ==
  [f EXCEPT !.refs = {r \in @ : ~ObjPtrReferenceIsStale(objects, r)},
            !.base = IF ObjPtrReferenceIsStale(objects, @) THEN NoObj ELSE @]

SanitizeLoadedPersistentObjPtrs(objects) ==
  [o \in DOMAIN objects |->
     SanitizePersistentObjPtrFields(objects, objects[o])]

\* The rest of LoadPersistentModelSnapshot: every object is read from the
\* storage; one that is missing ends the process.  Then the generations, the
\* bases and the stale pointers; what nothing leads to goes with the loader.
Hydrate ==
  /\ phase = "hydrate" /\ todo = NoLayers /\ Idle
  /\ LET ids == {l[1] : l \in DOMAIN snap.layers}
     IN  IF \A o \in ids : Complete(o)
         THEN /\ heap' = Kept(SanitizeLoadedPersistentObjPtrs(
                                RestorePersistedNodeBaseBindings(
                                  [o \in ids |-> OnDisk[o]])))
              /\ gen' = [o \in Nodes(heap') |-> snap.gens[o]]
              /\ phase' = "run"
         ELSE phase' = "aborted" /\ UNCHANGED <<heap, gen>>
  /\ UNCHANGED <<app, snap, todo, sidecar, count, storeVars>>

-----------------------------------------------------------------------------
(* The running process                                                      *)

Ready == phase = "run" /\ TheNode \in DOMAIN heap

\* TryInsertEvent and CaptureBaseStateInto need a base that is loaded.
HasBase == heap[TheNode].base \in DOMAIN heap \ {TheNode}

Edit == /\ Ready /\ HasBase /\ count.edits < MaxEdits
        /\ count' = [count EXCEPT !.edits = @ + 1, !.born = @ + 1]

\* GenerateUnique of a locally created object: an id nobody has used.
NewId == Obj \ (DOMAIN heap \cup {l[1] : l \in classdir})

Join(objects, o, f) == [p \in DOMAIN objects \cup {o} |->
                          IF p = o THEN f ELSE objects[p]]

\* Node::Commit: the event changes the node and enters its journal.
Appended(objects, e) ==
  [objects EXCEPT ![TheNode].journal = @ \cup {e},
                  ![TheNode].val.n = IF @ < MaxEdits THEN @ + 1 ELSE @]

Commit(e) ==
  /\ Edit /\ e \in NewId
  /\ heap' = Appended(Join(heap, e, Object("event", count.born, 0)), e)
  /\ gen' = [gen EXCEPT ![TheNode] = @ + 1]
  /\ UNCHANGED <<app, phase, snap, todo, sidecar, storeVars>>

\* CompactJournal: the base takes the state and is saved, the events go.
CompactJournal ==
  /\ Edit /\ heap[TheNode].journal # {}
  /\ LET base == heap[TheNode].base
     IN  /\ heap' = Kept([heap EXCEPT ![TheNode].journal = {},
                                     ![base].val.n = heap[TheNode].val.n])
         /\ todo' = Layers([o \in {base} |-> heap'[o]])
  /\ phase' = "capture"
  /\ UNCHANGED <<app, gen, snap, sidecar, storeVars>>

\* Variant: only the domain is asked whether an id is free.
AllocateUniqueReceiverObjId_Ram == Obj \ (DOMAIN heap \cup {App, TheNode, Base})

\* AllocateUniqueReceiverObjId: not in the domain and nothing in the storage.
AllocateUniqueReceiverObjId ==
  {o \in Obj \ DOMAIN heap : Enumerate(o) = {}}

\* A received payload: how many objects it holds besides the one it names as
\* its root, whether their classes form chains the registry knows, what kind
\* of object the most derived class of the root is, and the object link of
\* the root, if it is set: a shared one means the other object, and has its
\* type or not.
Payload == [extra: 0..1, chains: BOOLEAN, kind: Kinds,
            link: {"none", "shared", "mistyped", "local"}]

\* ValidateStoredClassChains
ValidateStoredClassChains(p) == p.chains

\* The classes the application allows to come alone are those without links.
IsStandaloneEventClassAllowed(p) == p.link = "none"

\* ValidateStandaloneEventGraph: one object, an event.
ValidateStandaloneEventGraph(p) ==
  /\ ValidateStoredClassChains(p) /\ p.extra = 0 /\ p.kind = "event"
  /\ IsStandaloneEventClassAllowed(p)

\* OperationStorage, validating: every pointer is written to a storage that
\* refuses a local link that is set, and a shared one to what is not there
\* or not of the type.
ValidatesPointer(p) == p.link = "none" \/ (p.link = "shared" /\ p.extra = 1)

\* ValidateClosedEventGraphStorage: an event and what it refers to.
ValidateClosedEventGraphStorage(p) ==
  ValidateStoredClassChains(p) /\ p.kind = "event" /\ ValidatesPointer(p)

\* CopyStoredObjectAs: the layers of the root under another id.
CopyStoredObjectAs(x, p) ==
  Layers([o \in {x} |-> Object(p.kind, count.born, 0)])

\* ImportStandaloneEventGraph: a valid event is stored under a new id.
ImportStandaloneEventGraph(x, p) ==
  /\ Edit /\ ValidateStandaloneEventGraph(p)
  /\ x \in AllocateUniqueReceiverObjId
  /\ todo' = CopyStoredObjectAs(x, p)
  /\ snap' = [state |-> "absent", event |-> x]
  /\ phase' = "import"
  /\ UNCHANGED <<app, heap, gen, sidecar, storeVars>>

\* OperationStorage, remapping: a pointer is written with the id its target
\* gets here, and the target is not saved with it.
RemapsPointer(p, newId) == IF p.link = "shared" THEN {newId} ELSE {}

\* ImportClosedEventGraph: the objects of a valid graph get new ids, enter the
\* domain and are stored, each for itself.  One that the event does not lead
\* to is gone from the domain when the import returns.
ImportClosedEventGraph(x, y, p) ==
  /\ Edit /\ ValidateClosedEventGraphStorage(p)
  /\ x \in AllocateUniqueReceiverObjId
  /\ y \in AllocateUniqueReceiverObjId \ {x}
  /\ LET root == [Object(p.kind, count.born, 0) EXCEPT !.refs = RemapsPointer(p, y)]
         new  == [o \in {x} \cup (IF p.extra = 0 THEN {} ELSE {y}) |->
                    IF o = x THEN root ELSE Object("part", count.born, 0)]
         held == SaveObjectGraphToScratch(new, x)
     IN  /\ heap' = [o \in DOMAIN heap \cup DOMAIN held |->
                       IF o \in DOMAIN heap THEN heap[o] ELSE held[o]]
         /\ todo' = Layers(new)
  /\ snap' = [state |-> "absent", event |-> x]
  /\ phase' = "import"
  /\ UNCHANGED <<app, gen, sidecar, storeVars>>

\* The event is loaded from the storage, if it is not in the domain, inserted,
\* and the node is saved.  It is dropped, for the sender to repeat, when its
\* layer could not be written.
InsertImported ==
  /\ phase = "import" /\ todo = NoLayers /\ Idle
  /\ IF snap.event \in DOMAIN heap \/ Complete(snap.event)
     THEN /\ heap' = Appended(IF snap.event \in DOMAIN heap THEN heap
                             ELSE Join(heap, snap.event, OnDisk[snap.event]),
                             snap.event)
          /\ gen' = [gen EXCEPT ![TheNode] = @ + 1]
          /\ todo' = Layers(SaveObjectGraphToScratch(heap', TheNode))
          /\ phase' = "capture"
     ELSE phase' = "run" /\ UNCHANGED <<heap, gen, todo>>
  /\ snap' = NoSnap
  /\ UNCHANGED <<app, sidecar, count, storeVars>>

-----------------------------------------------------------------------------
(* Saves                                                                    *)

AskSave(how) == /\ Ready /\ app = how /\ count.saves < MaxSaves
                /\ count' = [count EXCEPT !.saves = @ + 1]

\* The save of a whole application: a session tells whether it succeeded.
Save ==
  /\ AskSave("layers")
  /\ BeginSaveSession
  /\ todo' = Layers(SaveObjectGraphToScratch(heap, App))
  /\ phase' = "save"
  /\ UNCHANGED <<app, memory, sidecar>>

CollectReachableNodes ==
  {o \in CollectReachableObjects(heap, App) : heap[o].val.kind = "node"}

\* ClearReachableNodeBaseForCheckpointSave: while the snapshot is taken the
\* nodes stand without their bases.
ClearReachableNodeBase(objects, nodes) ==
  [o \in DOMAIN objects |-> IF o \in nodes THEN [objects[o] EXCEPT !.base = NoObj]
                           ELSE objects[o]]

\* WritePersistentCheckpointNodeBaseBindings
NodeBaseBindings(nodes) ==
  [o \in {p \in nodes : heap[p].base # NoObj} |-> heap[o].base]

\* EnsurePersistentCheckpointBaseObjectsInScratch: what the root no longer
\* leads to is saved from each base.
EnsureBasesInScratch(objects, bases) ==
  [o \in Closure(objects, {App}) \cup Closure(objects, bases) |-> objects[o]]

\* WritePersistentCheckpointScratchLayers: the layers and the generations.
WriteScratchLayers(scratch) ==
  [layers |-> Layers(scratch), gens |-> [o \in Nodes(scratch) |-> gen[o]]]

\* SerializePersistentModelSnapshot: nodes are written without their bases;
\* the bases, their bindings and the generations follow.  (`model` is there
\* for SnapshotLoadsWhole only.)
SerializePersistentModelSnapshot ==
  LET bindings == NodeBaseBindings(CollectReachableNodes)
      cleared  == ClearReachableNodeBase(heap, CollectReachableNodes)
      written  == WriteScratchLayers(
                    EnsureBasesInScratch(cleared, Range(bindings)))
  IN  [state |-> "whole", bindings |-> bindings,
       layers |-> written.layers, gens |-> written.gens,
       model |-> [heap |-> heap, gen |-> gen]]

\* SavePersistentModelSnapshotToStorage up to the opening of the side file,
\* which empties it.
SaveSnapshot ==
  /\ AskSave("snapshots")
  /\ snap' = SerializePersistentModelSnapshot
  /\ phase' = "trunc" /\ sidecar' = [state |-> "torn"]
  /\ UNCHANGED <<app, heap, gen, todo, storeVars>>

\* The same layers follow into the storage.
InjectPersistentModelSnapshotToStorage ==
  todo' = snap.layers /\ phase' = "inject"

\* WritePersistentModelCheckpointSidecar: a failed write ends the save.
WriteSidecar ==
  /\ phase = "trunc"
  /\ \/ /\ MayFail("write")
        /\ phase' = "run" /\ snap' = NoSnap
        /\ UNCHANGED <<sidecar, todo>>
     \/ /\ sidecar' = snap
        /\ InjectPersistentModelSnapshotToStorage
        /\ UNCHANGED snap
  /\ UNCHANGED <<app, heap, gen, count, storeVars>>

InOrder == {"bootstrap", "save", "capture"} \* saves that walk the graph

\* Variant: the layers of a save are written in any order.
StoreNext_AnyOrder(l) ==
  /\ Idle /\ l \in DOMAIN todo
  /\ Store(l, todo[l])
  /\ todo' = [m \in DOMAIN todo \ {l} |-> todo[m]]
  /\ UNCHANGED <<app, phase, memory, sidecar, count>>

\* The next layer of a save.  Serializing a pointer saves what it points to,
\* so the writers are closed from the leaves up; a snapshot's layers come in
\* any order.
StoreNext(l) ==
  /\ Idle /\ l \in DOMAIN todo
  /\ phase \in InOrder =>
       \A m \in DOMAIN todo : m[1] \in Mentions(todo[l]) => m[1] = l[1]
  /\ Store(l, todo[l])
  /\ todo' = [m \in DOMAIN todo \ {l} |-> todo[m]]
  /\ UNCHANGED <<app, phase, memory, sidecar, count>>

StoreStep ==
  /\ CommitStep
  /\ UNCHANGED <<app, phase, memory, todo, sidecar, count>>

\* A save or an injection has stored its last layer.
EndSave ==
  /\ phase \in {"save", "capture", "inject"} /\ todo = NoLayers /\ Idle
  /\ phase' = "run" /\ snap' = NoSnap
  /\ UNCHANGED <<app, heap, gen, todo, sidecar, count, storeVars>>

\* The process stops, or is stopped; the files stay.
Stop ==
  /\ phase \notin {"down", "aborted"} /\ count.stops < MaxStops
  /\ count' = [count EXCEPT !.stops = @ + 1]
  /\ phase' = "down"
  /\ heap' = NoHeap /\ gen' = NoHeap /\ todo' = NoLayers /\ snap' = NoSnap
  /\ Reopen
  /\ UNCHANGED <<app, sidecar>>

Next ==
  \/ Bootstrap \/ LoadApplication \/ ReadSidecar \/ Hydrate
  \/ \E o \in Obj : Commit(o)
  \/ /\ Ready
     /\ \E p \in Payload, o \in Obj :
          \/ ImportStandaloneEventGraph(o, p)
          \/ \E q \in Obj : ImportClosedEventGraph(o, q, p)
  \/ CompactJournal \/ InsertImported
  \/ Save \/ SaveSnapshot \/ WriteSidecar \/ EndSave
  \/ \E l \in Layer : StoreNext(l)
  \/ StoreStep
  \/ Stop

Spec == Init /\ [][Next]_vars

-----------------------------------------------------------------------------
(* Properties                                                               *)

\* Saves of an application write leaves first, and an import is complete
\* before a journal names it: whatever is on the disk when the process stops
\* between two file operations, what the application leads to is there with
\* all it mentions, as long as no commit failed.
NothingDangles ==
  app = "layers" /\ faults = 0 =>
    \A o \in DOMAIN Kept(OnDisk) : Edges(OnDisk[o]) \subseteq DOMAIN OnDisk

\* surfaces_lifecycle.cpp:205: a save that reports no failure has left every
\* layer of the model on the disk as the memory has it, whatever the file
\* system refused in earlier saves, and whichever layers were skipped.
CleanSaveIsComplete ==
  phase = "save" /\ todo = NoLayers /\ Idle /\ ~SaveSessionHadFailure =>
    \A o \in Closure(heap, {App}) : Complete(o) /\ OnDisk[o] = heap[o]

Closed(objects) == \A o \in DOMAIN objects : Edges(objects[o]) \subseteq DOMAIN objects

\* A model loaded through the side file, with no commit failing meanwhile, is
\* the model the snapshot was taken of: bases and generations too, which the
\* layers in the snapshot do not hold.  (A model with a pointer that was
\* already broken when the snapshot was taken loses the pointer.)
SnapshotLoadsWhole ==
  [][ phase = "hydrate" /\ phase' = "run" /\ ~hadFailure
      /\ Closed(snap.model.heap) =>
        [heap |-> heap', gen |-> gen'] = snap.model ]_vars

\* An id on the disk stands for one object for ever: an imported event never
\* takes the place of an object that is stored but no longer, or not yet
\* again, in memory.
IdentityIsStable ==
  [][ (app = "snapshots" /\ "create" \in IoFaults => faults = 0) =>
        \A l \in DOMAIN file \cap DOMAIN file' :
          TagOf(file[l]) = TagOf(file'[l]) ]_vars
=============================================================================
