------------------------ MODULE ModelCheckpointProofs ------------------------
(* Proofs about ModelCheckpoint, for any set of ids and any bounds.          *)
EXTENDS ModelCheckpoint, TLAPS

Distilled == {App, TheNode, Base}

\* The phases in which a model is in memory, and those in which the snapshot
\* of one is.
Up == {"run", "import", "capture", "save", "trunc", "inject"}
Loading == {"trunc", "inject", "hydrate"}

-----------------------------------------------------------------------------
(* What an object and what a layer look like.                                *)

FixedTag(o) == IF o = App THEN 0 ELSE IF o = TheNode THEN 1 ELSE 2

IsVal(o, v) ==
  /\ v = [kind |-> v.kind, tag |-> v.tag, n |-> v.n]
  /\ v.kind = "node" <=> o \in {TheNode, Base}
  /\ o \in Distilled => v.tag = FixedTag(o)

\* The application refers to its node, events to what came with them.
FitRefs(o, refs) ==
  /\ o = App => refs \subseteq {TheNode}
  /\ o \in {TheNode, Base} => refs = {}
  /\ o \notin Distilled => refs \cap Distilled = {}

\* Only the node of the model has a base and a journal.
FitHistory(o, base, journal) ==
  /\ base = NoObj \/ (o = TheNode /\ base = Base)
  /\ journal \cap Distilled = {} /\ (o # TheNode => journal = {})

IsObject(o, f) ==
  /\ f = [refs |-> f.refs, base |-> f.base, journal |-> f.journal, val |-> f.val]
  /\ IsVal(o, f.val)
  /\ FitRefs(o, f.refs)
  /\ FitHistory(o, f.base, f.journal)

AreObjects(objects) ==
  /\ objects = [o \in DOMAIN objects |-> objects[o]]
  /\ DOMAIN objects \subseteq Obj
  /\ \A o \in DOMAIN objects : IsObject(o, objects[o])

IsOwn(o, b) ==
  /\ b = [refs |-> b.refs, val |-> b.val]
  /\ IsVal(o, b.val) /\ FitRefs(o, b.refs)

IsHistory(o, b) ==
  /\ o \in {TheNode, Base}
  /\ b = [tag |-> FixedTag(o), base |-> b.base, journal |-> b.journal]
  /\ FitHistory(o, b.base, b.journal)

IsBytes(l, b) ==
  /\ l = <<l[1], l[2]>> /\ l[1] \in Obj
  /\ \/ l[2] = "Own" /\ IsOwn(l[1], b)
     \/ l[2] = "Node" /\ IsHistory(l[1], b)

AreLayers(layers) ==
  /\ layers = [l \in DOMAIN layers |-> layers[l]]
  /\ \A l \in DOMAIN layers : IsBytes(l, layers[l])

\* A writer that is not closed.
IsWriter(w) ==
  /\ w = [layer |-> w.layer, bytes |-> w.bytes, at |-> w.at]
  /\ w.at \in {"compare", "create", "write", "rename"}
  /\ IsBytes(w.layer, w.bytes)

IsSnapshot(s) ==
  /\ AreLayers(s.layers)
  /\ DOMAIN s.bindings \subseteq {TheNode}
  /\ \A o \in DOMAIN s.bindings : s.bindings[o] = Base

\* The node is in memory because the application refers to it.
HasNode(objects) ==
  TheNode \in DOMAIN objects =>
    App \in DOMAIN objects /\ objects[App].refs = {TheNode}

\* The memory, the files and all that is on its way between them.
Shape ==
  /\ AreObjects(heap)
  /\ HasNode(heap)
  /\ AreLayers(file) /\ AreLayers(todo)
  /\ Idle \/ IsWriter(writer)
  /\ faults \in Nat
  /\ phase \in Loading => IsSnapshot(snap)
  /\ sidecar.state = "whole" => IsSnapshot(sidecar)
  /\ phase = "import" => TheNode \in DOMAIN heap /\ snap.event \in Obj \ Distilled

-----------------------------------------------------------------------------
(* A save is on its way to a set of layers.                                  *)

\* The layers a save or an injection leaves behind.
Target == IF phase = "save" THEN Layers(Kept(heap)) ELSE snap.layers

\* Every layer is still to be stored, being stored, stored or has failed.
Saving ==
  phase \in {"save", "inject", "hydrate"} =>
    /\ \A l \in DOMAIN todo : l \in DOMAIN Target /\ todo[l] = Target[l]
    /\ Idle \/ (writer.layer \in DOMAIN Target
                /\ writer.bytes = Target[writer.layer])
    /\ \A l \in DOMAIN Target :
         \/ hadFailure
         \/ l \in DOMAIN todo
         \/ ~Idle /\ writer.layer = l
         \/ l \in DOMAIN file /\ file[l] = Target[l]

\* The application kept in layers has no side file; one that is there belongs
\* to a model that is on the disk.
Started ==
  /\ app \in {"layers", "snapshots"}
  /\ phase \in Up \cup {"down", "bootstrap", "hydrate", "aborted"}
  /\ app = "layers" =>
       sidecar.state = "absent" /\ phase \notin Loading
  /\ app = "snapshots" => phase # "save"
  /\ phase = "bootstrap" => sidecar.state = "absent"
  /\ sidecar.state # "absent" => Enumerate(App) # {}
  /\ phase \in Up \cup {"hydrate"} => Enumerate(App) # {}
  /\ phase \in {"down", "aborted", "run", "trunc"} => todo = NoLayers /\ Idle
  /\ phase \in {"inject", "hydrate"} => snap = sidecar /\ sidecar.state = "whole"
  /\ phase = "trunc" => sidecar.state = "torn" /\ snap.state = "whole"
  /\ phase \in {"down", "hydrate"} => DOMAIN heap = {}

-----------------------------------------------------------------------------
(* One object for each id.                                                   *)

\* The file systems and the programs for which an id stands for one object.
Durable == app = "snapshots" /\ "create" \in IoFaults => faults = 0

\* The layer of an object's own members, if it is among some layers.
OwnLayer(layers, o) == {layers[l] : l \in DOMAIN layers \cap {<<o, "Own">>}}

\* Whatever is on the disk, may get there, or is in memory, of one object.
Known(o) ==
  OwnLayer(file, o) \cup OwnLayer(todo, o)
  \cup {[refs |-> heap[p].refs, val |-> heap[p].val] : p \in DOMAIN heap \cap {o}}
  \cup (IF ~Idle /\ writer.layer = <<o, "Own">> THEN {writer.bytes} ELSE {})
  \cup (IF phase \in Loading THEN OwnLayer(snap.layers, o) ELSE {})
  \cup (IF sidecar.state = "whole" THEN OwnLayer(sidecar.layers, o) ELSE {})

\* The bytes of one object; a loader of snapshots may have cut off what the
\* object refers to.
SameObject(b, c) ==
  /\ Durable => b.val = c.val
  /\ app = "layers" => b = c

OneObject ==
  \A o \in Obj \ Distilled : \A b, c \in Known(o) : SameObject(b, c)

\* What has a file, or is half written, has a class directory; so does what a
\* process that is up could read from the side file.
Directories ==
  /\ DOMAIN file \subseteq classdir
  /\ ~Idle /\ writer.at \in {"write", "rename"} => writer.layer \in classdir
  /\ Durable /\ sidecar.state = "whole" /\ phase \notin {"down", "aborted"} =>
       \A l \in DOMAIN sidecar.layers :
         \/ l \in classdir
         \/ phase \in {"inject", "hydrate"}
            /\ (l \in DOMAIN todo \/ (~Idle /\ writer.layer = l))

-----------------------------------------------------------------------------
(* What is on the disk can be loaded, as long as no commit failed.           *)

PartStored(p) ==
  /\ p \in Obj \ Distilled
  /\ <<p, "Own">> \in DOMAIN file /\ file[<<p, "Own">>].refs = {}

EventStored(e) ==
  /\ e \in Obj \ Distilled
  /\ <<e, "Own">> \in DOMAIN file
  /\ \A p \in file[<<e, "Own">>].refs : PartStored(p)

BothLayers(o) == {<<o, "Own">>, <<o, "Node">>}

\* The application leads to its node, the node to its base and to events.
Loadable ==
  /\ <<App, "Own">> \in DOMAIN file =>
       /\ file[<<App, "Own">>].refs = {TheNode}
       /\ BothLayers(TheNode) \subseteq DOMAIN file
  /\ <<TheNode, "Node">> \in DOMAIN file =>
       /\ file[<<TheNode, "Node">>].base = Base
       /\ BothLayers(Base) \subseteq DOMAIN file
       /\ \A e \in file[<<TheNode, "Node">>].journal : EventStored(e)

\* The same in memory.
Model(objects) ==
  /\ Distilled \subseteq DOMAIN objects
  /\ objects[App].refs = {TheNode}
  /\ objects[TheNode].base = Base
  /\ objects[TheNode].journal \subseteq DOMAIN objects
  /\ \A o \in DOMAIN objects \ Distilled : \A r \in objects[o].refs :
       r \in DOMAIN objects /\ objects[r].refs = {}

LayerIds(o) == IF o \in {TheNode, Base} THEN BothLayers(o) ELSE {<<o, "Own">>}

\* On the disk or on its way to it.
Coming(l) == l \in DOMAIN file \cup DOMAIN todo \/ (~Idle /\ writer.layer = l)

\* Layers that are stored are stored after what they mention.
InTurn ==
  phase \in InOrder =>
    /\ \A l \in DOMAIN todo :
         /\ l \in DOMAIN Layers(heap) /\ todo[l] = Layers(heap)[l]
         /\ \A o \in Mentions(todo[l]) : \A k \in LayerIds(o) : Coming(k)
    /\ ~Idle =>
         /\ writer.layer \in DOMAIN Layers(heap)
         /\ writer.bytes = Layers(heap)[writer.layer]
         /\ \A o \in Mentions(writer.bytes) : LayerIds(o) \subseteq DOMAIN file

\* An object in memory that is stored is stored with what it refers to.
StoredWhole(o) ==
  <<o, "Own">> \in DOMAIN file =>
    \A r \in heap[o].refs : <<r, "Own">> \in DOMAIN file

\* An event that is being imported, and what came with it.
IsPart(l, bytes) == l[1] \notin Distilled /\ (l[1] = snap.event \/ bytes.refs = {})

Importing ==
  /\ \A l \in DOMAIN todo : IsPart(l, todo[l])
  /\ Idle \/ IsPart(writer.layer, writer.bytes)
  /\ Coming(<<snap.event, "Own">>)
  /\ IF snap.event \in DOMAIN heap
     THEN \A r \in heap[snap.event].refs : Coming(<<r, "Own">>)
     ELSE \A b \in Known(snap.event) : b.refs = {}

\* An import may be under way; everything else in memory is stored whole.
Whole ==
  \A o \in DOMAIN heap \ Distilled :
    (phase = "import" /\ o = snap.event) \/ StoredWhole(o)

HasModel == Up \cup {"bootstrap"}

Well ==
  /\ Loadable
  /\ phase \in HasModel => Model(heap) /\ Whole
  /\ InTurn
  /\ phase = "import" => Importing

Sound == app = "layers" /\ faults = 0 => Well

-----------------------------------------------------------------------------

(* Walks of the graph.                                                       *)

\* CollectReachableObjectsFromLiveFields: the walk stays in the heap, starts
\* at the roots and follows every edge that can be resolved.
LEMMA ClosureIsClosed ==
  ASSUME NEW h, NEW roots
  PROVE  /\ Closure(h, roots) \subseteq DOMAIN h
         /\ roots \cap DOMAIN h \subseteq Closure(h, roots)
         /\ \A o \in Closure(h, roots) :
              Edges(h[o]) \cap DOMAIN h \subseteq Closure(h, roots)
BY DEF Closure, ClosedSets

\* The walk reaches nothing outside a set that holds the roots and is closed.
LEMMA ClosureIsLeast ==
  ASSUME NEW h, NEW roots, NEW S,
         S \subseteq DOMAIN h, roots \cap DOMAIN h \subseteq S,
         \A o \in S : Edges(h[o]) \cap DOMAIN h \subseteq S
  PROVE  Closure(h, roots) \subseteq S
BY DEF Closure, ClosedSets

\* What the application leads to is a part of the heap, and nothing without
\* the application.
LEMMA KeptIs ==
  ASSUME NEW h
  PROVE  /\ Kept(h) = [o \in DOMAIN Kept(h) |-> Kept(h)[o]]
         /\ DOMAIN Kept(h) \subseteq DOMAIN h
         /\ \A o \in DOMAIN Kept(h) : Kept(h)[o] = h[o]
         /\ \A o \in DOMAIN Kept(h) :
              Edges(h[o]) \cap DOMAIN h \subseteq DOMAIN Kept(h)
         /\ App \in DOMAIN h => App \in DOMAIN Kept(h)
         /\ DOMAIN Kept(h) # {} => App \in DOMAIN h
<1>1. App \notin DOMAIN h => Closure(h, {App}) \subseteq {}
  <2> SUFFICES ASSUME App \notin DOMAIN h
               PROVE  Closure(h, {App}) \subseteq {}
    OBVIOUS
  <2>1. {} \subseteq DOMAIN h /\ {App} \cap DOMAIN h \subseteq {}
    OBVIOUS
  <2> QED BY <2>1, ClosureIsLeast
<1>2. DOMAIN Kept(h) = Closure(h, {App})
  BY DEF Kept, SaveObjectGraphToScratch
<1> QED
  BY <1>1, <1>2, ClosureIsClosed DEF Kept, SaveObjectGraphToScratch

\* Being an object of its id is a matter of each object; only the
\* application leads to the node.
LEMMA KeptAreObjects ==
  ASSUME NEW h, AreObjects(h)
  PROVE  /\ AreObjects(Kept(h))
         /\ TheNode \in DOMAIN Kept(h) =>
              App \in DOMAIN Kept(h) /\ Kept(h)[App].refs = {TheNode}
<1>1. AreObjects(Kept(h))
  BY KeptIs DEF AreObjects
<1>2. ASSUME TheNode \in DOMAIN Kept(h) PROVE TheNode \in h[App].refs
  <2> SUFFICES ASSUME TheNode \notin h[App].refs PROVE FALSE
    OBVIOUS
  <2>1. PICK S : S = DOMAIN h \ {TheNode}
    OBVIOUS
  <2>2. \A o \in S : TheNode \notin Edges(h[o])
    BY <2>1, DistilledIds
       DEF AreObjects, IsObject, FitRefs, FitHistory, Edges, BaseOf, Distilled
  <2>3. Closure(h, {App}) \subseteq S
    <3>1. S \subseteq DOMAIN h /\ {App} \cap DOMAIN h \subseteq S
      BY <2>1, DistilledIds
    <3>2. \A o \in S : Edges(h[o]) \cap DOMAIN h \subseteq S
      BY <2>1, <2>2
    <3> QED BY <3>1, <3>2, ClosureIsLeast
  <2> QED BY <1>2, <2>1, <2>3 DEF Kept, SaveObjectGraphToScratch
<1>3. ASSUME TheNode \in DOMAIN Kept(h)
      PROVE  App \in DOMAIN Kept(h) /\ Kept(h)[App].refs = {TheNode}
  <2>1. App \in DOMAIN Kept(h) /\ Kept(h)[App] = h[App] /\ App \in DOMAIN h
    BY <1>3, KeptIs
  <2>2. h[App].refs \subseteq {TheNode}
    BY <2>1 DEF AreObjects, IsObject, FitRefs
  <2> QED BY <1>2, <1>3, <2>1, <2>2
<1> QED BY <1>1, <1>3

-----------------------------------------------------------------------------
(* Objects and their layers.                                                 *)

\* AppendSavedObjectLayers: which layers there are, and what is in them.
LEMMA LayersIs ==
  ASSUME NEW h, AreObjects(h)
  PROVE  /\ \A o : <<o, "Own">> \in DOMAIN Layers(h) <=> o \in DOMAIN h
         /\ \A o : <<o, "Node">> \in DOMAIN Layers(h)
                     <=> o \in DOMAIN h \cap {TheNode, Base}
         /\ \A l \in DOMAIN Layers(h) :
              /\ l = <<l[1], l[2]>> /\ l[1] \in DOMAIN h
              /\ l[2] = "Own" \/ (l[2] = "Node" /\ l[1] \in {TheNode, Base})
         /\ \A o \in DOMAIN h :
              Layers(h)[<<o, "Own">>] = [refs |-> h[o].refs, val |-> h[o].val]
         /\ \A o \in DOMAIN h \cap {TheNode, Base} :
              Layers(h)[<<o, "Node">>] =
                [tag |-> h[o].val.tag, base |-> h[o].base,
                 journal |-> h[o].journal]
<1>1. \A o \in DOMAIN h : h[o].val.kind = "node" <=> o \in {TheNode, Base}
  BY DEF AreObjects, IsObject, IsVal
<1>2. \A l \in DOMAIN Layers(h) : \E o \in DOMAIN h : l \in LayersOf(o, h[o])
  BY DEF Layers
<1>3. \A o \in DOMAIN h : LayersOf(o, h[o]) \subseteq DOMAIN Layers(h)
  BY DEF Layers
<1>4. \A o \in DOMAIN h : LayersOf(o, h[o]) =
        {<<o, "Own">>} \cup (IF o \in {TheNode, Base} THEN {<<o, "Node">>} ELSE {})
  BY <1>1 DEF LayersOf
<1>5. \A l \in DOMAIN Layers(h) : Layers(h)[l] = Bytes(h[l[1]], l[2])
  BY DEF Layers
<1>6. \A l \in DOMAIN Layers(h) :
        /\ l = <<l[1], l[2]>> /\ l[1] \in DOMAIN h
        /\ l[2] = "Own" \/ (l[2] = "Node" /\ l[1] \in {TheNode, Base})
  BY <1>2, <1>4
<1>7. \A o : <<o, "Own">> \in DOMAIN Layers(h) <=> o \in DOMAIN h
  BY <1>3, <1>4, <1>6
<1>8. \A o : <<o, "Node">> \in DOMAIN Layers(h)
               <=> o \in DOMAIN h \cap {TheNode, Base}
  BY <1>3, <1>4, <1>6
<1>9. \A o \in DOMAIN h :
        Layers(h)[<<o, "Own">>] = [refs |-> h[o].refs, val |-> h[o].val]
  BY <1>5, <1>7 DEF Bytes
<1>10. \A o \in DOMAIN h \cap {TheNode, Base} :
         Layers(h)[<<o, "Node">>] =
           [tag |-> h[o].val.tag, base |-> h[o].base, journal |-> h[o].journal]
  BY <1>5, <1>8 DEF Bytes
<1> QED BY <1>6, <1>7, <1>8, <1>9, <1>10

\* The layers of objects are layers.
LEMMA LayersAreLayers ==
  ASSUME NEW h, AreObjects(h)
  PROVE  AreLayers(Layers(h))
<1>1. Layers(h) = [l \in DOMAIN Layers(h) |-> Layers(h)[l]]
  BY DEF Layers
<1>2. ASSUME NEW l \in DOMAIN Layers(h)
      PROVE  IsBytes(l, Layers(h)[l])
  <2>1. PICK o, c : o = l[1] /\ c = l[2]
    OBVIOUS
  <2>2. /\ l = <<o, c>> /\ o \in DOMAIN h
        /\ c = "Own" \/ (c = "Node" /\ o \in {TheNode, Base})
    BY <2>1, LayersIs
  <2>3. IsObject(o, h[o]) /\ o \in Obj
    BY <2>2 DEF AreObjects
  <2>4. CASE c = "Own"
    <3>1. Layers(h)[l] = [refs |-> h[o].refs, val |-> h[o].val]
      BY <2>2, <2>4, LayersIs
    <3> QED BY <2>1, <2>2, <2>3, <2>4, <3>1 DEF IsBytes, IsOwn, IsObject
  <2>5. CASE c = "Node"
    <3>1. /\ o \in {TheNode, Base}
          /\ Layers(h)[l] = [tag |-> h[o].val.tag, base |-> h[o].base,
                             journal |-> h[o].journal]
      BY <2>2, <2>5, LayersIs
    <3>2. h[o].val.tag = FixedTag(o)
      BY <2>3, <3>1 DEF IsObject, IsVal, Distilled
    <3> QED
      BY <2>1, <2>2, <2>3, <2>5, <3>1, <3>2 DEF IsBytes, IsHistory, IsObject
  <2> QED BY <2>2, <2>4, <2>5
<1> QED BY <1>1, <1>2 DEF AreLayers

\* LoadExistingObject: the objects that can be loaded, and what they look like.
LEMMA OnDiskIs ==
  ASSUME AreLayers(file)
  PROVE  /\ AreObjects(OnDisk)
         /\ DOMAIN OnDisk =
              {o \in Obj : /\ <<o, "Own">> \in DOMAIN file
                           /\ o \in {TheNode, Base} => <<o, "Node">> \in DOMAIN file}
         /\ \A o \in DOMAIN OnDisk :
              /\ OnDisk[o].refs = file[<<o, "Own">>].refs
              /\ OnDisk[o].val = file[<<o, "Own">>].val
              /\ o \in {TheNode, Base} =>
                   /\ OnDisk[o].base = file[<<o, "Node">>].base
                   /\ OnDisk[o].journal = file[<<o, "Node">>].journal
              /\ o \notin {TheNode, Base} =>
                   OnDisk[o].base = NoObj /\ OnDisk[o].journal = {}
<1>1. \A o : <<o, "Own">> \in DOMAIN file => IsOwn(o, file[<<o, "Own">>])
  BY DEF AreLayers, IsBytes
<1>2. \A o : <<o, "Node">> \in DOMAIN file => IsHistory(o, file[<<o, "Node">>])
  BY DEF AreLayers, IsBytes
<1>3. \A o : Complete(o) <=> /\ <<o, "Own">> \in DOMAIN file
                             /\ o \in {TheNode, Base} => <<o, "Node">> \in DOMAIN file
  BY <1>1 DEF Complete, IsLoaded, IsOwn, IsVal
<1>4. DOMAIN OnDisk = {o \in Obj : Complete(o)}
  BY DEF OnDisk
<1>5. ASSUME NEW o \in DOMAIN OnDisk
      PROVE  /\ IsObject(o, OnDisk[o])
             /\ OnDisk[o].refs = file[<<o, "Own">>].refs
             /\ OnDisk[o].val = file[<<o, "Own">>].val
             /\ o \in {TheNode, Base} =>
                  /\ OnDisk[o].base = file[<<o, "Node">>].base
                  /\ OnDisk[o].journal = file[<<o, "Node">>].journal
             /\ o \notin {TheNode, Base} =>
                  OnDisk[o].base = NoObj /\ OnDisk[o].journal = {}
  <2>1. OnDisk[o] = ObjectOnDisk(o)
    BY DEF OnDisk
  <2>2. Complete(o) /\ o \in Obj
    BY <1>4
  <2>3. PICK w : w = file[<<o, "Own">>]
    OBVIOUS
  <2>4. IsOwn(o, w)
    BY <1>1, <1>3, <2>2, <2>3
  <2>5. CASE o \in {TheNode, Base}
    <3>1. PICK b : b = file[<<o, "Node">>]
      OBVIOUS
    <3>2. IsHistory(o, b)
      BY <1>2, <1>3, <2>2, <2>5, <3>1
    <3>3. OnDisk[o] = [refs |-> w.refs, base |-> b.base, journal |-> b.journal,
                       val |-> w.val]
      BY <2>1, <2>3, <2>4, <2>5, <3>1 DEF ObjectOnDisk, IsOwn, IsVal
    <3> QED
      BY <2>3, <2>4, <2>5, <3>1, <3>2, <3>3
         DEF IsObject, IsOwn, IsHistory
  <2>6. CASE o \notin {TheNode, Base}
    <3>1. OnDisk[o] = [refs |-> w.refs, base |-> NoObj, journal |-> {},
                       val |-> w.val]
      BY <2>1, <2>3, <2>4, <2>6 DEF ObjectOnDisk, IsOwn, IsVal
    <3> QED
      BY <2>3, <2>4, <2>6, <3>1 DEF IsObject, IsOwn, FitHistory
  <2> QED BY <2>5, <2>6
<1>6. AreObjects(OnDisk)
  BY <1>4, <1>5 DEF AreObjects, OnDisk
<1> QED BY <1>3, <1>4, <1>5, <1>6

\* A new object has no pointers and no history.
LEMMA NewObject ==
  ASSUME NEW o, NEW kind, NEW tag, o \notin Distilled, kind # "node"
  PROVE  /\ IsObject(o, Object(kind, tag, 0))
         /\ Object(kind, tag, 0).refs = {}
         /\ Object(kind, tag, 0).val = [kind |-> kind, tag |-> tag, n |-> 0]
BY DEF IsObject, IsVal, FitRefs, FitHistory, Object, Distilled

LEMMA JoinIs ==
  ASSUME NEW h, NEW o, NEW f, o \in Obj, AreObjects(h), IsObject(o, f),
         NEW j, j = Join(h, o, f)
  PROVE  AreObjects(j)
BY DEF Join, AreObjects

\* CommitInto: only the node changes, in its journal and its state.
LEMMA AppendIs ==
  ASSUME NEW h, NEW e, AreObjects(h), TheNode \in DOMAIN h, e \notin Distilled
  PROVE  /\ AreObjects(Appended(h, e))
         /\ DOMAIN Appended(h, e) = DOMAIN h
         /\ Appended(h, e)[TheNode].refs = h[TheNode].refs
         /\ Appended(h, e)[TheNode].base = h[TheNode].base
         /\ Appended(h, e)[TheNode].journal = h[TheNode].journal \cup {e}
         /\ \A p \in DOMAIN h \ {TheNode} : Appended(h, e)[p] = h[p]
<1>1. PICK f, v, m :
        /\ f = h[TheNode] /\ v = f.val
        /\ m = IF v.n < MaxEdits THEN v.n + 1 ELSE v.n
  OBVIOUS
<1>2. IsObject(TheNode, f) /\ IsVal(TheNode, v)
  BY <1>1 DEF AreObjects, IsObject
<1>3. PICK g : g = [refs |-> f.refs, base |-> f.base,
                    journal |-> f.journal \cup {e},
                    val |-> [kind |-> v.kind, tag |-> v.tag, n |-> m]]
  OBVIOUS
<1>4. PICK j : j = [f EXCEPT !.journal = @ \cup {e}]
  OBVIOUS
<1>5. j = [refs |-> f.refs, base |-> f.base, journal |-> f.journal \cup {e},
           val |-> v]
  BY <1>1, <1>2, <1>4 DEF IsObject
<1>6. [v EXCEPT !.n = m] = [kind |-> v.kind, tag |-> v.tag, n |-> m]
  BY <1>2 DEF IsVal
<1>7. [j EXCEPT !.val = [v EXCEPT !.n = m]] = g
  BY <1>3, <1>5, <1>6
<1>8. Appended(h, e) = [[h EXCEPT ![TheNode] = j] EXCEPT ![TheNode] = g]
  <2>1. h = [o \in DOMAIN h |-> h[o]]
    BY DEF AreObjects
  <2>2. PICK k : k = [h EXCEPT ![TheNode] = j]
    OBVIOUS
  <2>3. k[TheNode] = j /\ k[TheNode].val = v /\ k[TheNode].val.n = v.n
    BY <2>2, <1>5
  <2>4. Appended(h, e) = [k EXCEPT ![TheNode].val.n =
                          IF @ < MaxEdits THEN @ + 1 ELSE @]
    BY <1>1, <1>4, <2>2 DEF Appended
  <2>5. Appended(h, e) =
          [k EXCEPT ![TheNode] = [j EXCEPT !.val = [v EXCEPT !.n = m]]]
    BY <1>1, <2>3, <2>4
  <2> QED BY <1>7, <2>2, <2>5
<1>9. Appended(h, e) = [p \in DOMAIN h |-> IF p = TheNode THEN g ELSE h[p]]
  BY <1>8 DEF AreObjects
<1>10. IsObject(TheNode, g)
  BY <1>2, <1>3 DEF IsObject, IsVal, FitHistory
<1>11. /\ DOMAIN Appended(h, e) = DOMAIN h
       /\ Appended(h, e)[TheNode] = g
       /\ \A p \in DOMAIN h \ {TheNode} : Appended(h, e)[p] = h[p]
  BY <1>9
<1> QED BY <1>1, <1>3, <1>9, <1>10, <1>11 DEF AreObjects

\* BuildSurfacesGraph and FinalizeDistilledGraph make a model.
LEMMA DistilledIs ==
  /\ AreObjects(DistilledGraph)
  /\ DOMAIN DistilledGraph = Distilled
  /\ Model(DistilledGraph)
<1>1. /\ DistilledGraph[App] =
           [refs |-> {TheNode}, base |-> NoObj, journal |-> {},
            val |-> [kind |-> "app", tag |-> 0, n |-> 0]]
      /\ DistilledGraph[TheNode] =
           [refs |-> {}, base |-> Base, journal |-> {},
            val |-> [kind |-> "node", tag |-> 1, n |-> 0]]
      /\ DistilledGraph[Base] =
           [refs |-> {}, base |-> NoObj, journal |-> {},
            val |-> [kind |-> "node", tag |-> 2, n |-> 0]]
  BY DistilledIds DEF DistilledGraph, Object
<1>2. DOMAIN DistilledGraph = Distilled
  BY DEF DistilledGraph, Distilled
<1>3. DistilledGraph = [o \in DOMAIN DistilledGraph |-> DistilledGraph[o]]
  BY DEF DistilledGraph
<1>4. \A o \in Distilled : IsObject(o, DistilledGraph[o])
  BY <1>1, DistilledIds
     DEF IsObject, IsVal, FitRefs, FitHistory, Distilled, FixedTag
<1>5. AreObjects(DistilledGraph)
  BY <1>2, <1>3, <1>4, DistilledIds DEF AreObjects, Distilled
<1>6. Model(DistilledGraph)
  BY <1>1, <1>2 DEF Model
<1> QED BY <1>2, <1>5, <1>6

CompactedTo(h, n) == [h EXCEPT ![TheNode].journal = {}, ![Base].val.n = n]

\* CompactJournalInto on the objects: the journal goes, the base takes the
\* state of the node.
LEMMA CompactedIs ==
  ASSUME NEW h, NEW n, AreObjects(h), {TheNode, Base} \subseteq DOMAIN h,
         NEW c, c = CompactedTo(h, n)
  PROVE  /\ AreObjects(c)
         /\ DOMAIN c = DOMAIN h
         /\ \A o \in DOMAIN h : c[o].refs = h[o].refs /\ c[o].base = h[o].base
         /\ c[TheNode].journal = {} /\ c[Base].journal = h[Base].journal
         /\ \A o \in DOMAIN h \ {TheNode, Base} : c[o] = h[o]
<1>1. PICK f, g, v : f = h[TheNode] /\ g = h[Base] /\ v = g.val
  OBVIOUS
<1>2. IsObject(TheNode, f) /\ IsObject(Base, g) /\ IsVal(Base, v)
  BY <1>1 DEF AreObjects, IsObject
<1>3. PICK j : j = [f EXCEPT !.journal = {}]
  OBVIOUS
<1>4. j = [refs |-> f.refs, base |-> f.base, journal |-> {}, val |-> f.val]
  BY <1>2, <1>3 DEF IsObject
<1>5. PICK w : w = [v EXCEPT !.n = n]
  OBVIOUS
<1>6. w = [kind |-> v.kind, tag |-> v.tag, n |-> n]
  BY <1>2, <1>5 DEF IsVal
<1>7. PICK k : k = [g EXCEPT !.val = w]
  OBVIOUS
<1>8. k = [refs |-> g.refs, base |-> g.base, journal |-> g.journal, val |-> w]
  BY <1>2, <1>7 DEF IsObject
<1>9. PICK d : d = [h EXCEPT ![TheNode].journal = {}]
  OBVIOUS
<1>10. d = [h EXCEPT ![TheNode] = j]
  BY <1>1, <1>3, <1>9
<1>11. d[Base] = g
  BY <1>1, <1>10, DistilledIds
<1>12. c = [d EXCEPT ![Base].val.n = n]
  BY <1>9 DEF CompactedTo
<1>13. c = [d EXCEPT ![Base] = k]
  BY <1>1, <1>5, <1>7, <1>11, <1>12
<1>14. c = [o \in DOMAIN h |-> IF o = Base THEN k ELSE IF o = TheNode THEN j ELSE h[o]]
  BY <1>10, <1>13 DEF AreObjects
<1>15. IsObject(TheNode, j)
  BY <1>2, <1>4 DEF IsObject, FitHistory
<1>16. IsObject(Base, k)
  BY <1>2, <1>6, <1>8 DEF IsObject, IsVal
<1>17. c[TheNode] = j /\ c[Base] = k
  BY <1>14, DistilledIds
<1>18. AreObjects(c)
  BY <1>14, <1>15, <1>16 DEF AreObjects
<1>19. DOMAIN c = DOMAIN h /\ \A o \in DOMAIN h \ {TheNode, Base} : c[o] = h[o]
  BY <1>14
<1>20. \A o \in DOMAIN h : c[o].refs = h[o].refs /\ c[o].base = h[o].base
  BY <1>1, <1>4, <1>8, <1>17, <1>19
<1>21. c[TheNode].journal = {} /\ c[Base].journal = h[Base].journal
  BY <1>1, <1>4, <1>8, <1>17
<1> QED BY <1>18, <1>19, <1>20, <1>21

\* RestorePersistedNodeBaseBindings gives the node its base and leaves the
\* rest as it is.
LEMMA RestoredIs ==
  ASSUME NEW h, AreObjects(h), IsSnapshot(snap),
         NEW r, r = RestorePersistedNodeBaseBindings(h)
  PROVE  /\ AreObjects(r)
         /\ DOMAIN r = DOMAIN h
         /\ \A o \in DOMAIN h :
              /\ r[o].refs = h[o].refs /\ r[o].journal = h[o].journal
              /\ r[o].val = h[o].val
              /\ r[o].base = IF o \in DOMAIN snap.bindings /\ h[o].base = NoObj
                             THEN snap.bindings[o] ELSE h[o].base
<1>1. r = [o \in DOMAIN r |-> r[o]] /\ DOMAIN r = DOMAIN h
  BY DEF RestorePersistedNodeBaseBindings
<1>2. ASSUME NEW o \in DOMAIN h
      PROVE  /\ IsObject(o, r[o])
             /\ r[o].refs = h[o].refs /\ r[o].journal = h[o].journal
             /\ r[o].val = h[o].val
             /\ r[o].base = IF o \in DOMAIN snap.bindings /\ h[o].base = NoObj
                            THEN snap.bindings[o] ELSE h[o].base
  <2>1. PICK f, b : f = h[o] /\ b = snap.bindings[o]
    OBVIOUS
  <2>2. IsObject(o, f)
    BY <2>1 DEF AreObjects
  <2>3. CASE o \in DOMAIN snap.bindings /\ f.base = NoObj
    <3>1. r[o] = [f EXCEPT !.base = b]
      BY <2>1, <2>3 DEF RestorePersistedNodeBaseBindings
    <3>2. r[o] = [refs |-> f.refs, base |-> b, journal |-> f.journal,
                  val |-> f.val]
      BY <2>2, <3>1 DEF IsObject
    <3>3. o = TheNode /\ b = Base
      BY <2>1, <2>3 DEF IsSnapshot
    <3> QED BY <2>1, <2>2, <2>3, <3>2, <3>3 DEF IsObject, FitHistory
  <2>4. CASE ~(o \in DOMAIN snap.bindings /\ f.base = NoObj)
    <3>1. r[o] = f
      BY <2>1, <2>4 DEF RestorePersistedNodeBaseBindings
    <3> QED BY <2>1, <2>2, <2>4, <3>1
  <2> QED BY <2>3, <2>4
<1>3. AreObjects(r)
  BY <1>1, <1>2 DEF AreObjects, RestorePersistedNodeBaseBindings
<1> QED BY <1>1, <1>2, <1>3

\* SanitizeLoadedPersistentObjPtrs takes away pointers only.
LEMMA SanitizedIs ==
  ASSUME NEW h, AreObjects(h),
         NEW s, s = SanitizeLoadedPersistentObjPtrs(h)
  PROVE  /\ AreObjects(s)
         /\ DOMAIN s = DOMAIN h
         /\ \A o \in DOMAIN h :
              /\ s[o].refs = {r \in h[o].refs : r = NoObj \/ r \in DOMAIN h}
              /\ s[o].base = IF h[o].base \in DOMAIN h \cup {NoObj}
                             THEN h[o].base ELSE NoObj
              /\ s[o].journal = h[o].journal /\ s[o].val = h[o].val
<1>1. DOMAIN s = DOMAIN h /\ s = [o \in DOMAIN s |-> s[o]]
  BY DEF SanitizeLoadedPersistentObjPtrs
<1>2. ASSUME NEW o \in DOMAIN h
      PROVE  /\ IsObject(o, s[o])
             /\ s[o].refs = {r \in h[o].refs : r = NoObj \/ r \in DOMAIN h}
             /\ s[o].base = IF h[o].base \in DOMAIN h \cup {NoObj}
                            THEN h[o].base ELSE NoObj
             /\ s[o].journal = h[o].journal /\ s[o].val = h[o].val
  <2>1. PICK f, a, b :
          /\ f = h[o]
          /\ a = {r \in f.refs : ~ObjPtrReferenceIsStale(h, r)}
          /\ b = IF ObjPtrReferenceIsStale(h, f.base) THEN NoObj ELSE f.base
    OBVIOUS
  <2>2. IsObject(o, f)
    BY <2>1 DEF AreObjects
  <2>3. s[o] = SanitizePersistentObjPtrFields(h, f)
    BY <2>1 DEF SanitizeLoadedPersistentObjPtrs
  <2>4. PICK g : g = [f EXCEPT !.refs = a]
    OBVIOUS
  <2>5. g = [refs |-> a, base |-> f.base, journal |-> f.journal, val |-> f.val]
    BY <2>2, <2>4 DEF IsObject
  <2>6. s[o] = [g EXCEPT !.base = b]
    <3>1. s[o] = [g EXCEPT !.base = IF ObjPtrReferenceIsStale(h, @) THEN NoObj ELSE @]
      BY <2>1, <2>3, <2>4 DEF SanitizePersistentObjPtrFields
    <3>2. g.base = f.base
      BY <2>5
    <3> QED BY <2>1, <3>1, <3>2
  <2>7. s[o] = [refs |-> a, base |-> b, journal |-> f.journal, val |-> f.val]
    BY <2>5, <2>6
  <2>8. a = {r \in f.refs : r = NoObj \/ r \in DOMAIN h}
    BY <2>1 DEF ObjPtrReferenceIsStale
  <2>9. b = IF f.base \in DOMAIN h \cup {NoObj} THEN f.base ELSE NoObj
    BY <2>1 DEF ObjPtrReferenceIsStale
  <2>10. IsObject(o, s[o])
    BY <2>1, <2>2, <2>7, <2>9 DEF IsObject, FitRefs, FitHistory
  <2> QED BY <2>1, <2>7, <2>8, <2>9, <2>10
<1>3. AreObjects(s)
  BY <1>1, <1>2 DEF AreObjects
<1> QED BY <1>1, <1>2, <1>3

\* ImportClosedEventGraph: an event and what it refers to, under new ids, all
\* of them stored and those the event leads to held in memory.
Imported(x, y, tag, new, held) ==
  /\ AreObjects(new) /\ AreObjects(held)
  /\ DOMAIN new \subseteq {x, y} /\ DOMAIN held \subseteq DOMAIN new
  /\ x \in DOMAIN held /\ held = SaveObjectGraphToScratch(new, x)
  /\ \A o \in DOMAIN held : held[o] = new[o]
  /\ \A o \in DOMAIN new : \A r \in new[o].refs :
       o = x /\ r = y /\ y \in DOMAIN held /\ new[y].refs = {}

LEMMA ImportedIs ==
  ASSUME NEW x, NEW y, {x, y} \subseteq Obj \ Distilled, x # y,
         NEW p, ValidateClosedEventGraphStorage(p), NEW tag,
         NEW root, root = [Object(p.kind, tag, 0) EXCEPT !.refs = RemapsPointer(p, y)],
         NEW new, new = [o \in {x} \cup (IF p.extra = 0 THEN {} ELSE {y}) |->
                           IF o = x THEN root ELSE Object("part", tag, 0)],
         NEW held, held = SaveObjectGraphToScratch(new, x)
  PROVE  Imported(x, y, tag, new, held)
<1>1. p.kind = "event" /\ (p.link # "shared" \/ p.extra = 1)
  BY DEF ValidateClosedEventGraphStorage, ValidatesPointer
<1>2. PICK refs : refs = RemapsPointer(p, y)
  OBVIOUS
<1>3. refs \subseteq {y} /\ (refs # {} => p.extra = 1)
  BY <1>1, <1>2 DEF RemapsPointer
<1>4. root = [refs |-> refs, base |-> NoObj, journal |-> {},
              val |-> [kind |-> "event", tag |-> tag, n |-> 0]]
  BY <1>1, <1>2 DEF Object
<1>5. IsObject(x, root)
  BY <1>3, <1>4 DEF IsObject, IsVal, FitRefs, FitHistory, Distilled
<1>6. PICK part : part = Object("part", tag, 0)
  OBVIOUS
<1>7. /\ part = [refs |-> {}, base |-> NoObj, journal |-> {},
                 val |-> [kind |-> "part", tag |-> tag, n |-> 0]]
      /\ IsObject(y, part)
  BY <1>6 DEF Object, IsObject, IsVal, FitRefs, FitHistory, Distilled
<1>8. /\ new = [o \in DOMAIN new |-> new[o]]
      /\ DOMAIN new = {x} \cup (IF p.extra = 0 THEN {} ELSE {y})
      /\ new[x] = root /\ (y \in DOMAIN new => new[y] = part)
  BY <1>6
<1>9. AreObjects(new)
  BY <1>5, <1>7, <1>8 DEF AreObjects
<1>10. /\ DOMAIN held = Closure(new, {x}) /\ held = [o \in DOMAIN held |-> new[o]]
  BY DEF SaveObjectGraphToScratch
<1>11. DOMAIN held \subseteq DOMAIN new /\ x \in DOMAIN held
  BY <1>8, <1>10, ClosureIsClosed
<1>12. AreObjects(held)
  BY <1>9, <1>10, <1>11 DEF AreObjects
<1>13. \A r \in refs : y \in DOMAIN held /\ r = y
  <2> SUFFICES ASSUME NEW r \in refs PROVE y \in DOMAIN held /\ r = y
    OBVIOUS
  <2>1. r = y /\ y \in DOMAIN new
    BY <1>3, <1>8
  <2>2. y \in Edges(new[x]) \cap DOMAIN new
    BY <2>1, <1>4, <1>8 DEF Edges
  <2> QED BY <2>1, <2>2, <1>10, <1>11, ClosureIsClosed
<1>14. \A o \in DOMAIN new : \A r \in new[o].refs :
         o = x /\ r = y /\ y \in DOMAIN held /\ new[y].refs = {}
  BY <1>4, <1>7, <1>8, <1>11, <1>13
<1> QED BY <1>8, <1>9, <1>10, <1>11, <1>12, <1>14 DEF Imported

-----------------------------------------------------------------------------
(* Everything has its shape.                                                 *)

\* An edit finds the application, the node and its base in memory.
LEMMA EditHas ==
  ASSUME Shape, Edit
  PROVE  /\ Distilled \subseteq DOMAIN heap
         /\ heap[TheNode].base = Base
         /\ phase = "run"
<1>1. phase = "run" /\ TheNode \in DOMAIN heap /\ heap[TheNode].base \in DOMAIN heap
  BY DEF Edit, Ready, HasBase
<1>2. heap[TheNode].base = NoObj \/ heap[TheNode].base = Base
  BY <1>1 DEF Shape, AreObjects, IsObject, FitHistory
<1>3. heap[TheNode].base # NoObj
  BY <1>1, DistilledIds DEF Shape, AreObjects
<1> QED BY <1>1, <1>2, <1>3 DEF Shape, HasNode, Distilled

LEMMA NoLayersIs == AreLayers(NoLayers) /\ DOMAIN NoLayers = {}
BY DEF AreLayers, NoLayers

LEMMA NoHeapIs == AreObjects(NoHeap) /\ DOMAIN NoHeap = {}
BY DEF AreObjects, NoHeap

LEMMA ShapeInit == Init => Shape
BY NoLayersIs, NoHeapIs
   DEF Init, InitStore, Shape, HasNode, Idle, Loading, AreLayers, NoSnap

LEMMA ShapeBootstrap == Shape /\ Bootstrap => Shape'
<1> SUFFICES ASSUME Shape, Bootstrap PROVE Shape'
  OBVIOUS
<1>1. PICK h, t : h = DistilledGraph /\ t = Layers(h)
  OBVIOUS
<1>2. heap' = h /\ todo' = t /\ phase' = "bootstrap"
      /\ UNCHANGED <<app, snap, sidecar, count, storeVars>>
  BY <1>1 DEF Bootstrap
<1>3. AreObjects(h) /\ App \in DOMAIN h /\ h[App].refs = {TheNode}
  BY <1>1, DistilledIs DEF Distilled, Model
<1>4. AreLayers(t)
  BY <1>1, <1>3, LayersAreLayers
<1> QED BY <1>2, <1>3, <1>4 DEF Shape, storeVars, Loading, Idle, HasNode

LEMMA ShapeLoadApplication == Shape /\ LoadApplication => Shape'
<1> SUFFICES ASSUME Shape, LoadApplication PROVE Shape'
  OBVIOUS
<1>1. phase' \in {"run", "aborted"}
      /\ UNCHANGED <<app, snap, todo, sidecar, count, storeVars>>
  BY DEF LoadApplication
<1>2. AreObjects(heap') /\ HasNode(heap')
  <2>1. CASE UNCHANGED heap
    BY <2>1 DEF Shape, HasNode
  <2>2. CASE heap' = Kept(OnDisk)
    <3>1. PICK h, k : h = OnDisk /\ k = Kept(h)
      OBVIOUS
    <3>2. AreObjects(h)
      BY <3>1, OnDiskIs DEF Shape
    <3>3. AreObjects(k) /\ HasNode(k)
      BY <3>1, <3>2, KeptAreObjects DEF HasNode
    <3> QED BY <2>2, <3>1, <3>3
  <2> QED BY <2>1, <2>2 DEF LoadApplication
<1> QED BY <1>1, <1>2 DEF Shape, storeVars, Loading, Idle

LEMMA ShapeReadSidecar == Shape /\ ReadSidecar => Shape'
<1> SUFFICES ASSUME Shape, ReadSidecar PROVE Shape'
  OBVIOUS
<1>1. CASE sidecar.state = "whole"
  BY <1>1 DEF ReadSidecar, Shape, storeVars, Loading, Idle, IsSnapshot
<1>2. CASE sidecar.state # "whole"
  BY <1>2 DEF ReadSidecar, Shape, storeVars, Loading, Idle
<1> QED BY <1>1, <1>2

\* What the loader of a snapshot makes of the files.
LEMMA HydratedIs ==
  ASSUME Shape, phase = "hydrate", NEW ids,
         ids = {l[1] : l \in DOMAIN snap.layers}, \A o \in ids : Complete(o),
         NEW h, h = [o \in ids |-> OnDisk[o]],
         NEW r, r = RestorePersistedNodeBaseBindings(h),
         NEW s, s = SanitizeLoadedPersistentObjPtrs(r),
         NEW k, k = Kept(s)
  PROVE  /\ ids \subseteq DOMAIN OnDisk
         /\ AreObjects(h) /\ AreObjects(r) /\ AreObjects(s) /\ AreObjects(k)
         /\ HasNode(k)
<1>1. IsSnapshot(snap) /\ AreLayers(file)
  BY DEF Shape, Loading
<1>2. ids \subseteq Obj
  BY <1>1 DEF IsSnapshot, AreLayers, IsBytes
<1>3. ids \subseteq DOMAIN OnDisk
  BY <1>2 DEF OnDisk
<1>4. AreObjects(OnDisk)
  BY <1>1, OnDiskIs
<1>5. AreObjects(h)
  BY <1>2, <1>3, <1>4 DEF AreObjects
<1>6. AreObjects(r)
  BY <1>1, <1>5, RestoredIs
<1>7. AreObjects(s)
  BY <1>6, SanitizedIs
<1>8. AreObjects(k) /\ HasNode(k)
  BY <1>7, KeptAreObjects DEF HasNode
<1> QED BY <1>3, <1>5, <1>6, <1>7, <1>8

LEMMA ShapeHydrate == Shape /\ Hydrate => Shape'
<1> SUFFICES ASSUME Shape, Hydrate PROVE Shape'
  OBVIOUS
<1>1. phase' \in {"run", "aborted"} /\ phase = "hydrate"
      /\ UNCHANGED <<app, snap, todo, sidecar, count, storeVars>>
  BY DEF Hydrate
<1>2. AreObjects(heap') /\ HasNode(heap')
  <2>1. PICK ids : ids = {l[1] : l \in DOMAIN snap.layers}
    OBVIOUS
  <2>2. CASE UNCHANGED heap
    BY <2>2 DEF Shape
  <2>3. CASE /\ \A o \in ids : Complete(o)
             /\ heap' = Kept(SanitizeLoadedPersistentObjPtrs(
                          RestorePersistedNodeBaseBindings(
                            [o \in ids |-> OnDisk[o]])))
    <3>1. PICK h : h = [o \in ids |-> OnDisk[o]]
      OBVIOUS
    <3>2. PICK r : r = RestorePersistedNodeBaseBindings(h)
      OBVIOUS
    <3>3. PICK s, k : s = SanitizeLoadedPersistentObjPtrs(r) /\ k = Kept(s)
      OBVIOUS
    <3>4. heap' = k
      BY <2>3, <3>1, <3>2, <3>3
    <3>5. AreObjects(k) /\ HasNode(k)
      BY <1>1, <2>1, <2>3, <3>1, <3>2, <3>3, HydratedIs
    <3> QED BY <3>4, <3>5
  <2> QED BY <2>1, <2>2, <2>3 DEF Hydrate
<1> QED BY <1>1, <1>2 DEF Shape, storeVars, Loading, Idle

\* The heap after a commit: f is new under e, and in the node's journal.
Committed(h, e, f, a) ==
  /\ AreObjects(a)
  /\ DOMAIN a = DOMAIN h \cup {e}
  /\ a[e] = f
  /\ a[TheNode].refs = h[TheNode].refs /\ a[TheNode].base = h[TheNode].base
  /\ a[TheNode].journal = h[TheNode].journal \cup {e}
  /\ \A p \in DOMAIN h \ {TheNode, e} : a[p] = h[p]

LEMMA CommittedIs ==
  ASSUME NEW h, NEW e, NEW f, AreObjects(h), TheNode \in DOMAIN h,
         e \in Obj, e \notin Distilled, IsObject(e, f),
         NEW a, a = Appended(Join(h, e, f), e)
  PROVE  Committed(h, e, f, a)
<1>1. PICK j : j = Join(h, e, f)
  OBVIOUS
<1>2. /\ AreObjects(j) /\ DOMAIN j = DOMAIN h \cup {e}
      /\ j[e] = f
      /\ \A p \in DOMAIN h \ {e} : j[p] = h[p]
  BY <1>1, JoinIs DEF Join
<1>3. e # TheNode
  BY DEF Distilled
<1>4. j[TheNode] = h[TheNode] /\ TheNode \in DOMAIN j
  BY <1>2, <1>3
<1>5. /\ AreObjects(a) /\ DOMAIN a = DOMAIN j
      /\ a[TheNode].refs = j[TheNode].refs
      /\ a[TheNode].base = j[TheNode].base
      /\ a[TheNode].journal = j[TheNode].journal \cup {e}
      /\ \A p \in DOMAIN j \ {TheNode} : a[p] = j[p]
  BY <1>1, <1>2, <1>4, AppendIs
<1>6. a[e] = f /\ \A p \in DOMAIN h \ {TheNode, e} : a[p] = h[p]
  BY <1>2, <1>3, <1>5
<1> QED BY <1>2, <1>4, <1>5, <1>6 DEF Committed

LEMMA ShapeCommit == ASSUME Shape, NEW e, Commit(e) PROVE Shape'
<1>1. Distilled \subseteq DOMAIN heap /\ phase = "run" /\ AreObjects(heap)
  BY EditHas DEF Commit, Shape
<1>2. e \in Obj \ DOMAIN heap
  BY DEF Commit, NewId
<1>3. PICK h, f, a : h = heap /\ f = Object("event", count.born, 0)
                     /\ a = Appended(Join(h, e, f), e)
  OBVIOUS
<1>4. IsObject(e, f) /\ e \in Obj /\ e \notin Distilled
  BY <1>1, <1>2, <1>3, NewObject
<1>5. TheNode \in DOMAIN h /\ AreObjects(h)
  BY <1>1, <1>3 DEF Distilled
<1>8. Committed(h, e, f, a)
  BY <1>3, <1>4, <1>5, CommittedIs
<1>6. heap' = a /\ UNCHANGED <<app, phase, snap, todo, sidecar, storeVars>>
  BY <1>3 DEF Commit
<1>7. HasNode(a)
  <2>1. App \in DOMAIN h \ {TheNode, e} /\ h[App].refs = {TheNode}
    BY <1>1, <1>3, <1>4, DistilledIds DEF Shape, HasNode, Distilled
  <2> QED BY <1>8, <2>1 DEF HasNode, Committed
<1> QED BY <1>1, <1>3, <1>6, <1>7, <1>8 DEF Committed, Shape, storeVars, Loading, Idle, Distilled

\* The heap and the layer that CompactJournal leaves.
LEMMA CompactJournalIs ==
  ASSUME Shape, CompactJournal
  PROVE  \E h, c, k, b :
           /\ h = heap /\ AreObjects(h) /\ Distilled \subseteq DOMAIN h
           /\ h[TheNode].base = Base
           /\ c = CompactedTo(h, h[TheNode].val.n)
           /\ k = Kept(c) /\ AreObjects(k) /\ Distilled \subseteq DOMAIN k
           /\ b = [o \in {Base} |-> k[o]] /\ AreObjects(b)
           /\ heap' = k /\ todo' = Layers(b) /\ phase' = "capture" /\ phase = "run"
           /\ UNCHANGED <<app, snap, sidecar, storeVars>>
<1>1. Distilled \subseteq DOMAIN heap /\ phase = "run" /\ AreObjects(heap)
      /\ heap[TheNode].base = Base
  BY EditHas DEF CompactJournal, Shape
<1>2. PICK h : h = heap
  OBVIOUS
<1>3. PICK c : c = CompactedTo(h, h[TheNode].val.n)
  OBVIOUS
<1>4. PICK k : k = Kept(c)
  OBVIOUS
<1>5. PICK b : b = [o \in {Base} |-> k[o]]
  OBVIOUS
<1>6. /\ AreObjects(c) /\ DOMAIN c = DOMAIN h
      /\ c[TheNode].base = Base /\ c[App] = h[App]
  BY <1>1, <1>2, <1>3, CompactedIs, DistilledIds DEF Distilled
<1>7. AreObjects(k)
  BY <1>4, <1>6, KeptAreObjects
<1>8. Distilled \subseteq DOMAIN k
  <2>1. h[App].refs = {TheNode}
    BY <1>1, <1>2 DEF Shape, HasNode, Distilled
  <2>2. TheNode \in Edges(c[App]) /\ Base \in Edges(c[TheNode])
    BY <1>6, <2>1, DistilledIds DEF Edges, BaseOf
  <2> QED BY <1>1, <1>2, <1>4, <1>6, <2>2, KeptIs DEF Distilled
<1>9. AreObjects(b)
  BY <1>5, <1>7, <1>8 DEF AreObjects, Distilled
<1>10. heap' = k /\ phase' = "capture"
       /\ UNCHANGED <<app, snap, sidecar, storeVars>>
  BY <1>1, <1>2, <1>3, <1>4 DEF CompactJournal, CompactedTo
<1>11. todo' = Layers(b)
  BY <1>1, <1>5, <1>10 DEF CompactJournal
<1> QED
  BY <1>1, <1>2, <1>3, <1>4, <1>5, <1>7, <1>8, <1>9, <1>10, <1>11

LEMMA ShapeCompactJournal == Shape /\ CompactJournal => Shape'
<1> SUFFICES ASSUME Shape, CompactJournal PROVE Shape'
  OBVIOUS
<1>1. PICK h, c, k, b :
           /\ h = heap /\ AreObjects(h) /\ Distilled \subseteq DOMAIN h
           /\ h[TheNode].base = Base
           /\ c = CompactedTo(h, h[TheNode].val.n)
           /\ k = Kept(c) /\ AreObjects(k) /\ Distilled \subseteq DOMAIN k
           /\ b = [o \in {Base} |-> k[o]] /\ AreObjects(b)
           /\ heap' = k /\ todo' = Layers(b) /\ phase' = "capture" /\ phase = "run"
           /\ UNCHANGED <<app, snap, sidecar, storeVars>>
  BY CompactJournalIs
<1>2. PICK t : t = Layers(b)
  OBVIOUS
<1>3. AreLayers(t)
  BY <1>1, <1>2, LayersAreLayers
<1>4. HasNode(k)
  BY <1>1, CompactedIs, KeptAreObjects DEF HasNode, Distilled
<1> QED BY <1>1, <1>2, <1>3, <1>4 DEF Shape, storeVars, Loading, Idle

Merged(h, held) ==
  [o \in DOMAIN h \cup DOMAIN held |-> IF o \in DOMAIN h THEN h[o] ELSE held[o]]

\* A new id is not in memory, and nothing is stored under it.
IsFree(o) == o \in Obj /\ o \notin Distilled /\ o \notin DOMAIN heap /\ Enumerate(o) = {}

LEMMA ImportClosedIs ==
  ASSUME Shape, NEW x, NEW y, NEW p, ImportClosedEventGraph(x, y, p)
  PROVE  \E h, new, held :
           /\ h = heap /\ IsFree(x) /\ IsFree(y) /\ Imported(x, y, count.born, new, held)
           /\ heap' = Merged(h, held) /\ todo' = Layers(new)
           /\ snap' = [state |-> "absent", event |-> x]
           /\ phase = "run" /\ phase' = "import"
           /\ UNCHANGED <<app, sidecar, storeVars>>
<1>1. /\ Edit /\ ValidateClosedEventGraphStorage(p)
      /\ x \in AllocateUniqueReceiverObjId
      /\ y \in AllocateUniqueReceiverObjId \ {x}
  BY DEF ImportClosedEventGraph
<1>2. Distilled \subseteq DOMAIN heap /\ phase = "run"
  BY <1>1, EditHas
<1>3. IsFree(x) /\ IsFree(y) /\ x # y /\ {x, y} \subseteq Obj \ Distilled
  BY <1>1, <1>2 DEF AllocateUniqueReceiverObjId, IsFree
<1>4. PICK h, tag : h = heap /\ tag = count.born
  OBVIOUS
<1>5. PICK root : root = [Object(p.kind, tag, 0) EXCEPT !.refs = RemapsPointer(p, y)]
  OBVIOUS
<1>6. PICK new : new = [o \in {x} \cup (IF p.extra = 0 THEN {} ELSE {y}) |->
                           IF o = x THEN root ELSE Object("part", tag, 0)]
  OBVIOUS
<1>7. PICK held : held = SaveObjectGraphToScratch(new, x)
  OBVIOUS
<1>8. Imported(x, y, tag, new, held)
  BY <1>1, <1>3, <1>5, <1>6, <1>7, ImportedIs
<1>9. heap' = Merged(h, held) /\ todo' = Layers(new)
  BY <1>4, <1>5, <1>6, <1>7, Zenon DEF ImportClosedEventGraph, Merged
<1>10. /\ snap' = [state |-> "absent", event |-> x] /\ phase' = "import"
       /\ UNCHANGED <<app, sidecar, storeVars>>
  BY DEF ImportClosedEventGraph
<1> QED BY <1>2, <1>3, <1>4, <1>8, <1>9, <1>10

LEMMA ShapeImportClosed ==
  ASSUME Shape, NEW x, NEW y, NEW p, ImportClosedEventGraph(x, y, p)
  PROVE  Shape'
<1>1. PICK h, new, held :
           /\ h = heap /\ IsFree(x) /\ IsFree(y) /\ Imported(x, y, count.born, new, held)
           /\ heap' = Merged(h, held) /\ todo' = Layers(new)
           /\ snap' = [state |-> "absent", event |-> x]
           /\ phase = "run" /\ phase' = "import"
           /\ UNCHANGED <<app, sidecar, storeVars>>
  BY ImportClosedIs
<1>2. PICK m, t : m = Merged(h, held) /\ t = Layers(new)
  OBVIOUS
<1>3. /\ AreObjects(h) /\ AreObjects(held) /\ AreObjects(new) /\ HasNode(h)
      /\ Distilled \subseteq DOMAIN h
  BY <1>1, EditHas DEF Shape, Imported, ImportClosedEventGraph
<1>4. /\ DOMAIN m = DOMAIN h \cup DOMAIN held
      /\ m = [o \in DOMAIN m |-> m[o]]
      /\ \A o \in DOMAIN m : m[o] = IF o \in DOMAIN h THEN h[o] ELSE held[o]
  BY <1>2 DEF Merged
<1>5. AreObjects(m) /\ HasNode(m) /\ TheNode \in DOMAIN m
  BY <1>3, <1>4, DistilledIds DEF AreObjects, HasNode, Distilled
<1>6. AreLayers(t)
  BY <1>2, <1>3, LayersAreLayers
<1>7. heap' = m /\ todo' = t /\ snap'.event = x /\ x \in Obj \ Distilled
  BY <1>1, <1>2 DEF IsFree
<1> QED BY <1>1, <1>5, <1>6, <1>7 DEF Shape, storeVars, Loading, Idle

\* The same for the one object of a standalone event.
LEMMA ImportStandaloneIs ==
  ASSUME Shape, NEW x, NEW p, ImportStandaloneEventGraph(x, p)
  PROVE  \E new, f :
           /\ IsFree(x) /\ new = [o \in {x} |-> f] /\ IsObject(x, f) /\ f.refs = {}
           /\ AreObjects(new) /\ todo' = Layers(new)
           /\ snap' = [state |-> "absent", event |-> x]
           /\ phase = "run" /\ phase' = "import" /\ TheNode \in DOMAIN heap
           /\ UNCHANGED <<app, heap, sidecar, storeVars>>
<1>1. /\ Edit /\ ValidateStandaloneEventGraph(p)
      /\ x \in AllocateUniqueReceiverObjId
  BY DEF ImportStandaloneEventGraph
<1>2. Distilled \subseteq DOMAIN heap /\ phase = "run"
  BY <1>1, EditHas
<1>3. IsFree(x) /\ x \in Obj /\ x \notin Distilled
  BY <1>1, <1>2 DEF AllocateUniqueReceiverObjId, IsFree
<1>4. PICK tag, kind : tag = count.born /\ kind = p.kind
  OBVIOUS
<1>5. kind # "node"
  BY <1>1, <1>4 DEF ValidateStandaloneEventGraph
<1>6. PICK f : f = Object(kind, tag, 0)
  OBVIOUS
<1>7. IsObject(x, f) /\ f.refs = {}
  BY <1>3, <1>5, <1>6, NewObject
<1>8. PICK new : new = [o \in {x} |-> f]
  OBVIOUS
<1>9. AreObjects(new)
  BY <1>3, <1>7, <1>8 DEF AreObjects
<1>10. todo' = Layers(new)
  BY <1>4, <1>6, <1>8 DEF ImportStandaloneEventGraph, CopyStoredObjectAs
<1>11. /\ snap' = [state |-> "absent", event |-> x] /\ phase' = "import"
       /\ UNCHANGED <<app, heap, sidecar, storeVars>>
  BY DEF ImportStandaloneEventGraph
<1> QED BY <1>2, <1>3, <1>7, <1>8, <1>9, <1>10, <1>11 DEF Distilled

LEMMA ShapeImportStandalone ==
  ASSUME Shape, NEW x, NEW p, ImportStandaloneEventGraph(x, p)
  PROVE  Shape'
<1>1. PICK new, f :
           /\ IsFree(x) /\ new = [o \in {x} |-> f] /\ IsObject(x, f) /\ f.refs = {}
           /\ AreObjects(new) /\ todo' = Layers(new)
           /\ snap' = [state |-> "absent", event |-> x]
           /\ phase = "run" /\ phase' = "import" /\ TheNode \in DOMAIN heap
           /\ UNCHANGED <<app, heap, sidecar, storeVars>>
  BY ImportStandaloneIs
<1>2. PICK t : t = Layers(new)
  OBVIOUS
<1>3. AreLayers(t)
  BY <1>1, <1>2, LayersAreLayers
<1>4. todo' = t /\ snap'.event = x /\ x \in Obj \ Distilled
  BY <1>1, <1>2 DEF IsFree
<1> QED BY <1>1, <1>3, <1>4 DEF Shape, storeVars, Loading, Idle, HasNode

\* The part of a heap that an object leads to.
LEMMA SavedAreObjects ==
  ASSUME NEW h, NEW o, AreObjects(h), NEW s, s = SaveObjectGraphToScratch(h, o)
  PROVE  AreObjects(s)
<1>1. DOMAIN s = Closure(h, {o}) /\ s = [p \in DOMAIN s |-> h[p]]
  BY DEF SaveObjectGraphToScratch
<1>2. DOMAIN s \subseteq DOMAIN h
  BY <1>1, ClosureIsClosed
<1> QED BY <1>1, <1>2 DEF AreObjects

\* The end of an import, when the event is not dropped.
Inserted(e, h, f, a, s) ==
  /\ h = heap /\ e = snap.event
  /\ IF e \in DOMAIN h THEN f = h[e]
     ELSE /\ Complete(e) /\ IsObject(e, f)
          /\ <<e, "Own">> \in DOMAIN file
          /\ f.refs = file[<<e, "Own">>].refs /\ f.val = file[<<e, "Own">>].val
  /\ Committed(h, e, f, a)
  /\ s = SaveObjectGraphToScratch(a, TheNode) /\ AreObjects(s)

LEMMA InsertImportedIs ==
  ASSUME Shape, InsertImported
  PROVE  /\ phase = "import" /\ todo = NoLayers /\ Idle /\ snap' = NoSnap
         /\ UNCHANGED <<app, sidecar, storeVars>>
         /\ \/ phase' = "run" /\ UNCHANGED <<heap, todo>> /\ ~Complete(snap.event)
               /\ snap.event \notin DOMAIN heap
            \/ \E e, h, f, a, s :
                 /\ Inserted(e, h, f, a, s)
                 /\ heap' = a /\ todo' = Layers(s) /\ phase' = "capture"
<1>1. /\ phase = "import" /\ todo = NoLayers /\ Idle /\ snap' = NoSnap
      /\ UNCHANGED <<app, sidecar, storeVars>>
  BY DEF InsertImported
<1>2. CASE ~(snap.event \in DOMAIN heap \/ Complete(snap.event))
  BY <1>1, <1>2 DEF InsertImported
<1>3. CASE snap.event \in DOMAIN heap \/ Complete(snap.event)
  <2>1. PICK e, h : e = snap.event /\ h = heap
    OBVIOUS
  <2>2. /\ AreObjects(h) /\ TheNode \in DOMAIN h
        /\ e \in Obj /\ e \notin Distilled /\ e # TheNode
    BY <1>1, <2>1 DEF Shape, Distilled
  <2>3. \E f, a : /\ heap' = a /\ Committed(h, e, f, a)
                  /\ IF e \in DOMAIN h THEN f = h[e]
                     ELSE /\ Complete(e) /\ IsObject(e, f)
                          /\ <<e, "Own">> \in DOMAIN file
                          /\ f.refs = file[<<e, "Own">>].refs
                          /\ f.val = file[<<e, "Own">>].val
    <3>1. CASE e \in DOMAIN h
      <4>1. PICK a : a = Appended(h, e)
        OBVIOUS
      <4>2. heap' = a
        BY <1>3, <2>1, <3>1, <4>1 DEF InsertImported
      <4>3. Committed(h, e, h[e], a)
        <5>1. /\ AreObjects(a) /\ DOMAIN a = DOMAIN h
              /\ a[TheNode].refs = h[TheNode].refs
              /\ a[TheNode].base = h[TheNode].base
              /\ a[TheNode].journal = h[TheNode].journal \cup {e}
              /\ \A q \in DOMAIN h \ {TheNode} : a[q] = h[q]
          BY <2>2, <4>1, AppendIs
        <5> QED BY <2>2, <3>1, <5>1 DEF Committed
      <4> QED BY <3>1, <4>2, <4>3
    <3>2. CASE e \notin DOMAIN h
      <4>1. Complete(e)
        BY <1>3, <2>1, <3>2
      <4>2. e \in DOMAIN OnDisk
        BY <2>2, <4>1 DEF OnDisk
      <4>3. PICK f : f = OnDisk[e]
        OBVIOUS
      <4>4. /\ IsObject(e, f) /\ <<e, "Own">> \in DOMAIN file
            /\ f.refs = file[<<e, "Own">>].refs /\ f.val = file[<<e, "Own">>].val
        <5>1. AreObjects(OnDisk) /\ <<e, "Own">> \in DOMAIN file
              /\ OnDisk[e].refs = file[<<e, "Own">>].refs
              /\ OnDisk[e].val = file[<<e, "Own">>].val
          BY <4>2, OnDiskIs DEF Shape
        <5> QED BY <4>2, <4>3, <5>1 DEF AreObjects
      <4>5. PICK a : a = Appended(Join(h, e, f), e)
        OBVIOUS
      <4>6. heap' = a
        BY <1>3, <2>1, <3>2, <4>3, <4>5 DEF InsertImported
      <4>7. Committed(h, e, f, a)
        BY <2>2, <4>4, <4>5, CommittedIs
      <4> QED BY <3>2, <4>1, <4>4, <4>6, <4>7
    <3> QED BY <3>1, <3>2
  <2>4. PICK f, a : /\ heap' = a /\ Committed(h, e, f, a)
                    /\ IF e \in DOMAIN h THEN f = h[e]
                       ELSE /\ Complete(e) /\ IsObject(e, f)
                            /\ <<e, "Own">> \in DOMAIN file
                            /\ f.refs = file[<<e, "Own">>].refs
                            /\ f.val = file[<<e, "Own">>].val
    BY <2>3
  <2>5. PICK s : s = SaveObjectGraphToScratch(a, TheNode)
    OBVIOUS
  <2>6. AreObjects(s)
    BY <2>4, <2>5, SavedAreObjects DEF Committed
  <2>7. Inserted(e, h, f, a, s)
    BY <2>1, <2>4, <2>5, <2>6 DEF Inserted
  <2>8. todo' = Layers(s) /\ phase' = "capture"
    BY <1>3, <2>4, <2>5 DEF InsertImported
  <2> QED BY <1>1, <2>4, <2>7, <2>8
<1> QED BY <1>2, <1>3

LEMMA ShapeInsertImported == Shape /\ InsertImported => Shape'
<1> SUFFICES ASSUME Shape, InsertImported PROVE Shape'
  OBVIOUS
<1>1. /\ phase = "import" /\ todo = NoLayers /\ Idle /\ snap' = NoSnap
      /\ UNCHANGED <<app, sidecar, storeVars>>
  BY InsertImportedIs
<1>2. CASE phase' = "run" /\ UNCHANGED <<heap, todo>>
  BY <1>1, <1>2 DEF Shape, storeVars, Loading, Idle, HasNode
<1>3. CASE \E e, h, f, a, s :
             /\ Inserted(e, h, f, a, s)
             /\ heap' = a /\ todo' = Layers(s) /\ phase' = "capture"
  <2>1. PICK e, h, f, a, s :
             /\ Inserted(e, h, f, a, s)
             /\ heap' = a /\ todo' = Layers(s) /\ phase' = "capture"
    BY <1>3
  <2>2. PICK t : t = Layers(s)
    OBVIOUS
  <2>3. AreLayers(t)
    BY <2>1, <2>2, LayersAreLayers DEF Inserted
  <2>4. /\ AreObjects(a) /\ DOMAIN a = DOMAIN h \cup {e}
        /\ \A p \in DOMAIN h \ {TheNode, e} : a[p] = h[p]
    BY <2>1 DEF Inserted, Committed
  <2>5. /\ App \in DOMAIN h \ {TheNode, e} /\ h[App].refs = {TheNode}
    BY <1>1, <2>1, DistilledIds DEF Inserted, Shape, HasNode, Distilled
  <2>6. HasNode(a)
    BY <2>4, <2>5 DEF HasNode
  <2> QED BY <1>1, <2>1, <2>2, <2>3, <2>4, <2>6 DEF Shape, storeVars, Loading, Idle
<1> QED BY <1>2, <1>3, InsertImportedIs

LEMMA ShapeSave == Shape /\ Save => Shape'
<1> SUFFICES ASSUME Shape, Save PROVE Shape'
  OBVIOUS
<1>1. /\ phase' = "save" /\ todo' = Layers(SaveObjectGraphToScratch(heap, App))
      /\ UNCHANGED <<app, memory, sidecar, file, tmpfile, classdir, writer, faults>>
  BY DEF Save, BeginSaveSession
<1>2. PICK h, s, t : h = heap /\ s = SaveObjectGraphToScratch(h, App) /\ t = Layers(s)
  OBVIOUS
<1>3. AreObjects(s)
  BY <1>2, SavedAreObjects DEF Shape
<1>4. AreLayers(t)
  BY <1>2, <1>3, LayersAreLayers
<1> QED BY <1>1, <1>2, <1>4 DEF Shape, memory, Loading, Idle, HasNode

\* ClearReachableNodeBaseForCheckpointSave takes the bases only.
LEMMA ClearedIs ==
  ASSUME NEW h, NEW nodes, AreObjects(h), NEW c, c = ClearReachableNodeBase(h, nodes)
  PROVE  /\ AreObjects(c)
         /\ DOMAIN c = DOMAIN h
         /\ \A o \in DOMAIN h :
              /\ c[o].refs = h[o].refs /\ c[o].journal = h[o].journal
              /\ c[o].val = h[o].val
              /\ c[o].base = IF o \in nodes THEN NoObj ELSE h[o].base
<1>1. c = [o \in DOMAIN c |-> c[o]] /\ DOMAIN c = DOMAIN h
  BY DEF ClearReachableNodeBase
<1>2. ASSUME NEW o \in DOMAIN h
      PROVE  /\ IsObject(o, c[o])
             /\ c[o].refs = h[o].refs /\ c[o].journal = h[o].journal
             /\ c[o].val = h[o].val
             /\ c[o].base = IF o \in nodes THEN NoObj ELSE h[o].base
  <2>1. PICK f : f = h[o]
    OBVIOUS
  <2>2. IsObject(o, f)
    BY <2>1 DEF AreObjects
  <2>3. CASE o \in nodes
    <3>1. c[o] = [f EXCEPT !.base = NoObj]
      BY <2>1, <2>3 DEF ClearReachableNodeBase
    <3>2. c[o] = [refs |-> f.refs, base |-> NoObj, journal |-> f.journal,
                  val |-> f.val]
      BY <2>2, <3>1 DEF IsObject
    <3> QED BY <2>1, <2>2, <2>3, <3>2 DEF IsObject, FitHistory
  <2>4. CASE o \notin nodes
    <3>1. c[o] = f
      BY <2>1, <2>4 DEF ClearReachableNodeBase
    <3> QED BY <2>1, <2>2, <2>4, <3>1
  <2> QED BY <2>3, <2>4
<1> QED BY <1>1, <1>2 DEF AreObjects

\* The objects of a snapshot: the nodes without their bases, the bases, and
\* what they lead to.
Snapped(h, nodes, cleared, scratch, s) ==
  /\ h = heap /\ AreObjects(h)
  /\ nodes = CollectReachableNodes /\ nodes \subseteq {TheNode, Base} \cap DOMAIN h
  /\ cleared = ClearReachableNodeBase(h, nodes) /\ AreObjects(cleared)
  /\ DOMAIN cleared = DOMAIN h
  /\ s.state = "whole"
  /\ s.bindings = NodeBaseBindings(nodes)
  /\ scratch = EnsureBasesInScratch(cleared, Range(s.bindings))
  /\ AreObjects(scratch)
  /\ DOMAIN scratch \subseteq DOMAIN h
  /\ \A o \in DOMAIN scratch : scratch[o] = cleared[o]
  /\ s.layers = Layers(scratch)
  /\ s.gens = [o \in Nodes(scratch) |-> gen[o]]
  /\ s.model = [heap |-> h, gen |-> gen]

LEMMA NodesIs ==
  ASSUME AreObjects(heap)
  PROVE  CollectReachableNodes \subseteq {TheNode, Base} \cap DOMAIN heap
<1>1. PICK h, k, c : h = heap /\ k = SaveObjectGraphToScratch(h, App)
                     /\ c = CollectReachableObjects(h, App)
  OBVIOUS
<1>2. DOMAIN k \subseteq DOMAIN h
  BY <1>1, ClosureIsClosed DEF SaveObjectGraphToScratch
<1>3. c \subseteq DOMAIN h
  BY <1>1, <1>2 DEF CollectReachableObjects, RemoveDistilledBaseObjects
<1>4. CollectReachableNodes = {o \in c : h[o].val.kind = "node"}
  BY <1>1 DEF CollectReachableNodes
<1>5. \A o \in DOMAIN h : h[o].val.kind = "node" => o \in {TheNode, Base}
  BY <1>1 DEF AreObjects, IsObject, IsVal
<1> QED BY <1>1, <1>3, <1>4, <1>5

LEMMA SnapshotIs ==
  ASSUME AreObjects(heap), NEW s, s = SerializePersistentModelSnapshot
  PROVE  /\ \E h, nodes, cleared, scratch : Snapped(h, nodes, cleared, scratch, s)
         /\ IsSnapshot(s) /\ s.state = "whole"
<1>1. PICK h, nodes : h = heap /\ nodes = CollectReachableNodes
  OBVIOUS
<1>2. PICK bindings, cleared : /\ bindings = NodeBaseBindings(nodes)
                               /\ cleared = ClearReachableNodeBase(h, nodes)
  OBVIOUS
<1>3. PICK bases : bases = Range(bindings)
  OBVIOUS
<1>4. PICK scratch : scratch = EnsureBasesInScratch(cleared, bases)
  OBVIOUS
<1>5. nodes \subseteq {TheNode, Base} \cap DOMAIN h
  BY <1>1, NodesIs
<1>6. AreObjects(cleared) /\ DOMAIN cleared = DOMAIN h
  BY <1>1, <1>2, ClearedIs
<1>7. /\ DOMAIN scratch \subseteq DOMAIN cleared
      /\ scratch = [o \in DOMAIN scratch |-> scratch[o]]
      /\ \A o \in DOMAIN scratch : scratch[o] = cleared[o]
  BY <1>4, ClosureIsClosed DEF EnsureBasesInScratch
<1>8. AreObjects(scratch)
  BY <1>6, <1>7 DEF AreObjects
<1>9. s = [state |-> "whole", bindings |-> bindings,
           layers |-> Layers(scratch),
           gens |-> [o \in Nodes(scratch) |-> gen[o]],
           model |-> [heap |-> heap, gen |-> gen]]
  BY <1>1, <1>2, <1>3, <1>4
     DEF SerializePersistentModelSnapshot, WriteScratchLayers
<1>10. Snapped(h, nodes, cleared, scratch, s)
  BY <1>1, <1>2, <1>3, <1>4, <1>5, <1>6, <1>7, <1>8, <1>9 DEF Snapped
<1>11. PICK t : t = Layers(scratch)
  OBVIOUS
<1>12. AreLayers(t)
  BY <1>8, <1>11, LayersAreLayers
<1>13. DOMAIN bindings \subseteq {TheNode} /\ \A o \in DOMAIN bindings : bindings[o] = Base
  <2>1. /\ DOMAIN bindings = {p \in nodes : h[p].base # NoObj}
        /\ \A o \in DOMAIN bindings : bindings[o] = h[o].base
    BY <1>1, <1>2 DEF NodeBaseBindings
  <2>2. \A o \in DOMAIN h : h[o].base = NoObj \/ (o = TheNode /\ h[o].base = Base)
    BY <1>1 DEF AreObjects, IsObject, FitHistory
  <2> QED BY <1>5, <2>1, <2>2
<1>14. IsSnapshot(s) /\ s.state = "whole"
  BY <1>9, <1>11, <1>12, <1>13 DEF IsSnapshot
<1> QED BY <1>10, <1>14

LEMMA ShapeSaveSnapshot == Shape /\ SaveSnapshot => Shape'
<1> SUFFICES ASSUME Shape, SaveSnapshot PROVE Shape'
  OBVIOUS
<1>1. /\ phase' = "trunc" /\ sidecar' = [state |-> "torn"]
      /\ snap' = SerializePersistentModelSnapshot
      /\ UNCHANGED <<app, heap, gen, todo, storeVars>>
  BY DEF SaveSnapshot
<1>2. PICK s : s = SerializePersistentModelSnapshot
  OBVIOUS
<1>3. IsSnapshot(s)
  BY <1>2, SnapshotIs DEF Shape
<1> QED BY <1>1, <1>2, <1>3 DEF Shape, storeVars, Loading, Idle, HasNode

LEMMA ShapeWriteSidecar == Shape /\ WriteSidecar => Shape'
<1> SUFFICES ASSUME Shape, WriteSidecar PROVE Shape'
  OBVIOUS
<1>1. phase = "trunc" /\ UNCHANGED <<app, heap, gen, count, storeVars>>
  BY DEF WriteSidecar
<1>2. IsSnapshot(snap)
  BY <1>1 DEF Shape, Loading
<1>3. CASE phase' = "run" /\ snap' = NoSnap /\ UNCHANGED <<sidecar, todo>>
  BY <1>1, <1>3 DEF Shape, storeVars, Loading, Idle, HasNode
<1>4. CASE sidecar' = snap /\ todo' = snap.layers /\ phase' = "inject" /\ UNCHANGED snap
  BY <1>1, <1>2, <1>4 DEF Shape, storeVars, Loading, Idle, HasNode, IsSnapshot
<1> QED BY <1>3, <1>4 DEF WriteSidecar, InjectPersistentModelSnapshotToStorage

LEMMA ShapeEndSave == Shape /\ EndSave => Shape'
BY DEF EndSave, Shape, storeVars, Loading, Idle, HasNode

LEMMA ShapeStop == Shape /\ Stop => Shape'
BY NoHeapIs, NoLayersIs DEF Stop, Reopen, Shape, Loading, Idle, HasNode

-----------------------------------------------------------------------------
(* The steps of a commit.                                                    *)

\* The next layer of a save: it leaves the list and is in the writer.
Stores(l, b) ==
  /\ Idle /\ l \in DOMAIN todo /\ b = todo[l]
  /\ writer' = [layer |-> l, bytes |-> b, at |-> "compare"]
  /\ todo' = [m \in DOMAIN todo \ {l} |-> todo[m]]
  /\ UNCHANGED <<app, phase, heap, gen, snap, sidecar, count,
                 file, tmpfile, classdir, hadFailure, faults>>

LEMMA StoreNextIs ==
  ASSUME NEW l, StoreNext(l)
  PROVE  \E b : Stores(l, b)
BY DEF StoreNext, Store, Stores, memory

LEMMA ShapeStoreNext == ASSUME Shape, NEW l, StoreNext(l) PROVE Shape'
<1>1. PICK b : Stores(l, b)
  BY StoreNextIs
<1>2. IsBytes(l, b)
  BY <1>1 DEF Stores, Shape, AreLayers
<1>3. PICK w, t : w = [layer |-> l, bytes |-> b, at |-> "compare"]
                  /\ t = [m \in DOMAIN todo \ {l} |-> todo[m]]
  OBVIOUS
<1>4. IsWriter(w) /\ AreLayers(t)
  BY <1>2, <1>3 DEF IsWriter, AreLayers, Shape
<1>5. writer' = w /\ todo' = t
  BY <1>1, <1>3 DEF Stores
<1> QED BY <1>1, <1>4, <1>5 DEF Stores, Shape, Loading, Idle, HasNode

\* What one step of a commit does, w being the writer: it fails, it finds the
\* file as it should be, it goes on, or it renames.
Fails(w) ==
  /\ writer' = NoWriter /\ hadFailure' /\ faults' = faults + 1
  /\ UNCHANGED file
  /\ \/ "create" \in IoFaults /\ UNCHANGED classdir
     \/ classdir' = classdir \cup {w.layer}
     \/ w.layer \in DOMAIN file \cup classdir /\ UNCHANGED classdir

Skips(w) ==
  /\ writer' = NoWriter /\ w.layer \in DOMAIN file /\ file[w.layer] = w.bytes
  /\ UNCHANGED <<file, classdir>>

Moves(w) ==
  /\ \E at \in {"create", "write", "rename"} :
       /\ writer' = [layer |-> w.layer, bytes |-> w.bytes, at |-> at]
       /\ at = "create" \/ w.layer \in classdir'
  /\ classdir' \in {classdir, classdir \cup {w.layer}}
  /\ UNCHANGED file

Renames(w) ==
  /\ writer' = NoWriter /\ w.layer \in classdir
  /\ file' = [l \in DOMAIN file \cup {w.layer} |->
                IF l = w.layer THEN w.bytes ELSE file[l]]
  /\ UNCHANGED classdir

Calm == faults' = faults /\ (hadFailure => hadFailure')

LEMMA StoreStepIs ==
  ASSUME Shape, Directories, StoreStep
  PROVE  /\ UNCHANGED <<app, phase, memory, todo, sidecar, count>>
         /\ IsWriter(writer) /\ ~Idle
         /\ \/ Fails(writer)
            \/ Calm /\ (Skips(writer) \/ Moves(writer) \/ Renames(writer))
<1>1. UNCHANGED <<app, phase, memory, todo, sidecar, count>> /\ CommitStep
  BY DEF StoreStep
<1>2. writer.at \in {"compare", "create", "write", "rename"}
  BY <1>1 DEF CommitStep, ReadExistingLayerFile, CreateTmp, WriteTmp, Rename, At
<1>3. ~Idle
  BY <1>2 DEF Idle, NoWriter
<1>4. IsWriter(writer)
  BY <1>3 DEF Shape
<1>5. PICK w : w = writer
  OBVIOUS
<1>6. w = [layer |-> w.layer, bytes |-> w.bytes, at |-> w.at]
  BY <1>4, <1>5 DEF IsWriter
<1>7. faults \in Nat
  BY DEF Shape
<1> SUFFICES Fails(w) \/ (Calm /\ (Skips(w) \/ Moves(w) \/ Renames(w)))
  BY <1>1, <1>3, <1>4, <1>5
<1>8. CASE ReadExistingLayerFile
  <2>1. UNCHANGED <<file, classdir>>
    BY <1>8 DEF ReadExistingLayerFile
  <2>2. CASE w.layer \in DOMAIN file /\ Close("failed")
    BY <1>5, <2>1, <2>2 DEF Fails, Close, RecordLayerCommit
  <2>3. CASE /\ w.layer \in DOMAIN file /\ file[w.layer] = w.bytes
             /\ Close("skipped")
    <3>1. Skips(w)
      BY <2>1, <2>3 DEF Skips, Close
    <3>2. hadFailure => hadFailure'
      BY <2>3, Zenon DEF Close, RecordLayerCommit
    <3>3. faults' = faults
      BY <1>7, <2>3 DEF Close, RecordLayerCommit
    <3> QED BY <3>1, <3>2, <3>3 DEF Calm
  <2>4. CASE Goto("create")
    <3>1. writer' = [layer |-> w.layer, bytes |-> w.bytes, at |-> "create"]
      BY <1>5, <1>6, <2>4 DEF Goto
    <3>2. Moves(w)
      BY <2>1, <3>1 DEF Moves
    <3> QED BY <1>5, <2>4, <3>2 DEF Goto, Calm
  <2> QED BY <1>5, <1>8, <2>2, <2>3, <2>4 DEF ReadExistingLayerFile
<1>9. CASE CreateTmp
  <2>1. UNCHANGED file
    BY <1>9 DEF CreateTmp
  <2>2. CASE MayFail("create") /\ Close("failed") /\ UNCHANGED classdir
    BY <1>5, <2>1, <2>2 DEF Fails, MayFail, Close, RecordLayerCommit
  <2>3. CASE classdir' = classdir \cup {w.layer} /\ Close("failed")
    BY <1>5, <2>1, <2>3 DEF Fails, Close, RecordLayerCommit
  <2>4. CASE classdir' = classdir \cup {w.layer} /\ Goto("write")
    <3>1. writer' = [layer |-> w.layer, bytes |-> w.bytes, at |-> "write"]
      BY <1>5, <1>6, <2>4 DEF Goto
    <3>2. Moves(w)
      BY <2>1, <2>4, <3>1 DEF Moves
    <3> QED BY <1>5, <2>4, <3>2 DEF Goto, Calm
  <2> QED BY <1>5, <1>9, <2>2, <2>3, <2>4 DEF CreateTmp
<1>10. CASE WriteTmp
  <2>1. UNCHANGED <<file, classdir>> /\ w.at = "write"
    BY <1>5, <1>10 DEF WriteTmp, At
  <2>2. w.layer \in classdir
    BY <1>3, <1>5, <2>1 DEF Directories
  <2>3. CASE Close("failed")
    BY <1>5, <2>1, <2>2, <2>3 DEF Fails, Close, RecordLayerCommit
  <2>4. CASE Goto("rename")
    <3>1. writer' = [layer |-> w.layer, bytes |-> w.bytes, at |-> "rename"]
      BY <1>5, <1>6, <2>4 DEF Goto
    <3>2. Moves(w)
      BY <2>1, <2>2, <3>1 DEF Moves
    <3> QED BY <1>5, <2>4, <3>2 DEF Goto, Calm
  <2> QED BY <1>10, <2>3, <2>4 DEF WriteTmp
<1>11. CASE Rename
  <2>1. UNCHANGED classdir /\ w.at = "rename"
    BY <1>5, <1>11 DEF Rename, At
  <2>2. w.layer \in classdir
    BY <1>3, <1>5, <2>1 DEF Directories
  <2>3. CASE Close("failed") /\ UNCHANGED file
    BY <1>5, <2>1, <2>2, <2>3 DEF Fails, Close, RecordLayerCommit
  <2>4. CASE /\ file' = [l \in DOMAIN file \cup {w.layer} |->
                           IF l = w.layer THEN w.bytes ELSE file[l]]
             /\ Close("written")
    <3>1. Renames(w)
      BY <2>1, <2>2, <2>4 DEF Renames, Close
    <3>2. hadFailure => hadFailure'
      BY <2>4, Zenon DEF Close, RecordLayerCommit
    <3>3. faults' = faults
      BY <1>7, <2>4 DEF Close, RecordLayerCommit
    <3> QED BY <3>1, <3>2, <3>3 DEF Calm
  <2> QED BY <1>5, <1>11, <2>3, <2>4 DEF Rename
<1> QED BY <1>1, <1>8, <1>9, <1>10, <1>11 DEF CommitStep

\* A renamed layer, seen from the files.
LEMMA RenamedIs ==
  ASSUME NEW w, Renames(w)
  PROVE  /\ DOMAIN file' = DOMAIN file \cup {w.layer}
         /\ file'[w.layer] = w.bytes
         /\ \A l \in DOMAIN file \ {w.layer} : file'[l] = file[l]
BY DEF Renames

LEMMA ShapeStoreStep == Shape /\ Directories /\ StoreStep => Shape'
<1> SUFFICES ASSUME Shape, Directories, StoreStep PROVE Shape'
  OBVIOUS
<1>1. PICK w : w = writer
  OBVIOUS
<1>2. /\ UNCHANGED <<app, phase, heap, gen, snap, todo, sidecar, count>>
      /\ IsWriter(w)
      /\ Fails(w) \/ (Calm /\ (Skips(w) \/ Moves(w) \/ Renames(w)))
  BY <1>1, StoreStepIs DEF memory
<1>3. faults' \in Nat
  BY <1>2 DEF Shape, Fails, Calm
<1>4. AreLayers(file')
  <2>1. CASE UNCHANGED file
    BY <2>1 DEF Shape
  <2>2. CASE Renames(w)
    <3>1. PICK g : g = [l \in DOMAIN file \cup {w.layer} |->
                          IF l = w.layer THEN w.bytes ELSE file[l]]
      OBVIOUS
    <3>2. AreLayers(g)
      BY <1>2, <3>1 DEF Shape, AreLayers, IsWriter
    <3> QED BY <2>2, <3>1, <3>2 DEF Renames
  <2> QED BY <1>2, <2>1, <2>2 DEF Fails, Skips, Moves
<1>5. writer' = NoWriter \/ IsWriter(writer')
  <2>1. CASE Moves(w)
    <3>1. PICK at \in {"create", "write", "rename"} :
            writer' = [layer |-> w.layer, bytes |-> w.bytes, at |-> at]
      BY <2>1 DEF Moves
    <3>2. PICK v : v = [layer |-> w.layer, bytes |-> w.bytes, at |-> at]
      OBVIOUS
    <3>3. IsWriter(v)
      BY <1>2, <3>2 DEF IsWriter
    <3> QED BY <3>1, <3>2, <3>3
  <2> QED BY <1>2, <2>1 DEF Fails, Skips, Renames
<1> QED BY <1>2, <1>3, <1>4, <1>5 DEF Shape, Loading, Idle, HasNode


-----------------------------------------------------------------------------
(* What a program keeps, and where.                                          *)

LEMMA StartedInit == Init => Started
BY DEF Init, Started, Loading, Up, NoSnap, NoHeap, InitStore, Idle

\* Class directories are never removed.
LEMMA DirectoriesStay ==
  ASSUME classdir \subseteq classdir'
  PROVE  Enumerate(App) # {} => Enumerate(App)' # {}
BY DEF Enumerate

LEMMA EnumerateStays == UNCHANGED classdir => Enumerate(App)' = Enumerate(App)
BY DEF Enumerate

LEMMA StartedLoad ==
  Shape /\ Started /\ Directories /\ (Bootstrap \/ LoadApplication \/ ReadSidecar \/ Hydrate)
    => Started'
<1> SUFFICES ASSUME Shape, Started, Directories,
                    Bootstrap \/ LoadApplication \/ ReadSidecar \/ Hydrate
             PROVE  Started'
  OBVIOUS
<1>1. CASE Bootstrap
  <2>1. Enumerate(App)' = Enumerate(App) /\ sidecar.state = "absent"
    BY <1>1, EnumerateStays DEF Bootstrap, Started, storeVars
  <2> QED BY <1>1, <2>1 DEF Bootstrap, Started, storeVars, Loading, Up
<1>2. CASE LoadApplication
  <2>1. Enumerate(App)' = Enumerate(App)
    BY <1>2, EnumerateStays DEF LoadApplication, storeVars
  <2>2. phase' = "run" => Enumerate(App) # {}
    BY <1>2 DEF LoadApplication, Complete, IsLoaded, Directories, Enumerate
  <2>3. phase' \in {"run", "aborted"} /\ phase \in {"down", "bootstrap"}
        /\ todo = NoLayers /\ Idle
    BY <1>2 DEF LoadApplication
  <2>4. UNCHANGED <<app, snap, todo, sidecar, writer>>
    BY <1>2 DEF LoadApplication, storeVars
  <2> QED BY <2>1, <2>2, <2>3, <2>4 DEF Started, Loading, Up, Idle
<1>3. CASE ReadSidecar
  <2>1. Enumerate(App)' = Enumerate(App)
    BY <1>3, EnumerateStays DEF ReadSidecar, storeVars
  <2>2. /\ phase = "down" /\ app = "snapshots" /\ Enumerate(App) # {}
        /\ UNCHANGED <<app, heap, sidecar, writer>>
        /\ \/ phase' = "aborted" /\ UNCHANGED todo
           \/ phase' = "hydrate" /\ snap' = sidecar /\ sidecar.state = "whole"
    BY <1>3 DEF ReadSidecar, storeVars
  <2> QED BY <2>1, <2>2 DEF Started, Loading, Up, Idle
<1>4. CASE Hydrate
  <2>1. Enumerate(App)' = Enumerate(App)
    BY <1>4, EnumerateStays DEF Hydrate, storeVars
  <2>2. phase' \in {"run", "aborted"} /\ phase = "hydrate" /\ todo = NoLayers /\ Idle
    BY <1>4 DEF Hydrate
  <2>3. UNCHANGED <<app, snap, todo, sidecar, writer>>
    BY <1>4 DEF Hydrate, storeVars
  <2> QED BY <2>1, <2>2, <2>3 DEF Started, Loading, Up, Idle
<1> QED BY <1>1, <1>2, <1>3, <1>4

LEMMA StartedRun ==
  ASSUME Started,
         \/ \E e : Commit(e)
         \/ \E o, q, p : ImportStandaloneEventGraph(o, p) \/ ImportClosedEventGraph(o, q, p)
         \/ CompactJournal \/ InsertImported \/ Save \/ SaveSnapshot
         \/ WriteSidecar \/ EndSave
  PROVE  Started'
<1>1. UNCHANGED <<app, classdir, writer>>
  BY DEF Commit, ImportStandaloneEventGraph, ImportClosedEventGraph,
         CompactJournal, InsertImported, Save, SaveSnapshot, WriteSidecar, EndSave,
         storeVars, BeginSaveSession
<1>2. Enumerate(App)' = Enumerate(App)
  BY <1>1, EnumerateStays
<1>3. CASE \E e : Commit(e)
  BY <1>1, <1>2, <1>3 DEF Commit, Edit, Ready, Started, Loading, Up, Idle
<1>4. CASE \E o, q, p : ImportStandaloneEventGraph(o, p) \/ ImportClosedEventGraph(o, q, p)
  <2>1. phase = "run" /\ phase' = "import" /\ UNCHANGED sidecar
    BY <1>4 DEF ImportStandaloneEventGraph, ImportClosedEventGraph, Edit, Ready
  <2> QED BY <1>1, <1>2, <2>1 DEF Started, Loading, Up
<1>5. CASE CompactJournal
  <2>1. phase = "run" /\ phase' = "capture" /\ UNCHANGED sidecar
    BY <1>5 DEF CompactJournal, Edit, Ready
  <2> QED BY <1>1, <1>2, <2>1 DEF Started, Loading, Up
<1>6. CASE InsertImported
  <2>1. phase = "import" /\ UNCHANGED sidecar
        /\ (phase' = "capture" \/ (phase' = "run" /\ todo' = NoLayers /\ Idle))
    BY <1>6 DEF InsertImported
  <2> QED BY <1>1, <1>2, <2>1 DEF Started, Loading, Up, Idle
<1>7. CASE Save
  <2>1. phase = "run" /\ phase' = "save" /\ UNCHANGED sidecar /\ app = "layers"
    BY <1>7 DEF Save, AskSave, Ready
  <2> QED BY <1>1, <1>2, <2>1 DEF Started, Loading, Up
<1>8. CASE SaveSnapshot
  <2>1. phase = "run" /\ phase' = "trunc" /\ app = "snapshots"
        /\ sidecar'.state = "torn" /\ snap'.state = "whole" /\ UNCHANGED todo
    BY <1>8 DEF SaveSnapshot, AskSave, Ready, SerializePersistentModelSnapshot
  <2> QED BY <1>1, <1>2, <2>1 DEF Started, Loading, Up, Idle
<1>9. CASE WriteSidecar
  <2>1. phase = "trunc"
    BY <1>9 DEF WriteSidecar
  <2>2. \/ phase' = "run" /\ UNCHANGED <<sidecar, todo>>
        \/ phase' = "inject" /\ sidecar' = snap /\ UNCHANGED snap
    BY <1>9 DEF WriteSidecar, InjectPersistentModelSnapshotToStorage
  <2> QED BY <1>1, <1>2, <2>1, <2>2 DEF Started, Loading, Up, Idle
<1>10. CASE EndSave
  BY <1>1, <1>2, <1>10 DEF EndSave, Started, Loading, Up, Idle
<1> QED BY <1>3, <1>4, <1>5, <1>6, <1>7, <1>8, <1>9, <1>10


LEMMA StartedStore ==
  ASSUME Shape, Started, Directories, StoreStep \/ \E l \in Layer : StoreNext(l)
  PROVE  Started'
<1>1. CASE StoreStep
  <2>1. PICK w : w = writer
    OBVIOUS
  <2>2. /\ UNCHANGED <<app, phase, heap, snap, todo, sidecar>> /\ ~Idle
        /\ Fails(w) \/ (Calm /\ (Skips(w) \/ Moves(w) \/ Renames(w)))
    BY <1>1, <2>1, StoreStepIs DEF memory
  <2>3. classdir \subseteq classdir'
    BY <2>2 DEF Fails, Skips, Moves, Renames
  <2>4. Enumerate(App) # {} => Enumerate(App)' # {}
    BY <2>3, DirectoriesStay
  <2> QED BY <2>2, <2>4 DEF Started, Loading, Up
<1>2. CASE \E l \in Layer : StoreNext(l)
  <2>1. PICK l \in Layer : StoreNext(l)
    BY <1>2
  <2>2. PICK b : Stores(l, b)
    BY <2>1, StoreNextIs
  <2>3. Enumerate(App)' = Enumerate(App)
    BY <2>2, EnumerateStays DEF Stores
  <2>4. phase \notin {"down", "aborted", "run", "trunc"}
    BY <2>2, NoLayersIs DEF Stores, Started
  <2> QED BY <2>2, <2>3, <2>4 DEF Stores, Started, Loading, Up
<1> QED BY <1>1, <1>2

LEMMA StartedStop == Started /\ Stop => Started'
<1> SUFFICES ASSUME Started, Stop PROVE Started'
  OBVIOUS
<1>1. /\ phase' = "down" /\ heap' = NoHeap /\ todo' = NoLayers /\ Idle'
      /\ UNCHANGED <<app, sidecar, classdir>>
  BY DEF Stop, Reopen, Idle
<1>2. Enumerate(App)' = Enumerate(App)
  BY <1>1, EnumerateStays
<1> QED BY <1>1, <1>2, NoHeapIs DEF Started, Loading, Up

LEMMA StartedNext == Shape /\ Started /\ Directories /\ [Next]_vars => Started'
<1> SUFFICES ASSUME Shape, Started, Directories, [Next]_vars PROVE Started'
  OBVIOUS
<1>1. CASE UNCHANGED vars
  BY <1>1, EnumerateStays DEF vars, memory, storeVars, Started, Loading, Up, Idle
<1> QED BY <1>1, StartedLoad, StartedRun, StartedStore, StartedStop DEF Next

-----------------------------------------------------------------------------
(* Directories: the hard part is a side file read by a later process.        *)

LEMMA DirectoriesInit == Init => Directories
BY DEF Init, InitStore, Directories, NoSnap, Idle


LEMMA DurableStays ==
  ASSUME faults \in Nat, faults' = faults \/ faults' = faults + 1, app' = app,
         Durable'
  PROVE  Durable
BY DEF Durable

\* Steps that touch neither the files nor the side file.
LEMMA DirectoriesQuiet ==
  ASSUME Directories, UNCHANGED <<app, sidecar, file, classdir, writer, faults>>,
         \/ phase' = phase /\ todo' = todo
         \/ phase \notin {"inject", "hydrate", "down", "aborted"}
         \/ sidecar.state = "absent"
         \/ phase' \in {"down", "aborted"}
         \/ phase \in {"inject", "hydrate"} /\ Idle /\ todo = NoLayers
  PROVE  Directories'
BY NoLayersIs DEF Directories, Durable, Idle

LEMMA DirectoriesLoad ==
  ASSUME Started, Directories, Bootstrap \/ LoadApplication \/ ReadSidecar \/ Hydrate
  PROVE  Directories'
<1>1. UNCHANGED <<app, sidecar, file, classdir, writer, faults>>
  BY DEF Bootstrap, LoadApplication, ReadSidecar, Hydrate, storeVars
<1>2. CASE Bootstrap
  BY <1>1, <1>2, DirectoriesQuiet DEF Bootstrap, Started
<1>3. CASE LoadApplication
  <2>1. phase \in {"down", "bootstrap"} /\ (app = "layers" \/ sidecar.state = "absent"
                                           \/ phase = "bootstrap")
    BY <1>3 DEF LoadApplication
  <2> QED BY <1>1, <2>1, DirectoriesQuiet DEF Started
<1>4. CASE ReadSidecar
  <2>1. \/ phase' = "aborted"
        \/ phase' = "hydrate" /\ todo' = sidecar.layers
    BY <1>4 DEF ReadSidecar
  <2> QED BY <1>1, <2>1 DEF Directories, Idle
<1>5. CASE Hydrate
  BY <1>1, <1>5, DirectoriesQuiet DEF Hydrate
<1> QED BY <1>2, <1>3, <1>4, <1>5

LEMMA DirectoriesRun ==
  ASSUME Started, Directories,
         \/ \E e : Commit(e)
         \/ \E o, q, p : ImportStandaloneEventGraph(o, p) \/ ImportClosedEventGraph(o, q, p)
         \/ CompactJournal \/ InsertImported \/ Save \/ SaveSnapshot
         \/ WriteSidecar \/ EndSave
  PROVE  Directories'
<1>1. UNCHANGED <<app, file, classdir, writer, faults>>
  BY DEF Commit, ImportStandaloneEventGraph, ImportClosedEventGraph,
         CompactJournal, InsertImported, Save, SaveSnapshot, WriteSidecar, EndSave,
         storeVars, BeginSaveSession
<1>2. CASE \/ \E e : Commit(e)
           \/ \E o, q, p : ImportStandaloneEventGraph(o, p) \/ ImportClosedEventGraph(o, q, p)
           \/ CompactJournal \/ InsertImported \/ Save
  <2>1. phase \in {"run", "import"} /\ UNCHANGED sidecar
    BY <1>2 DEF Commit, ImportStandaloneEventGraph, ImportClosedEventGraph,
         CompactJournal, InsertImported, Save, AskSave, Edit, Ready
  <2> QED BY <1>1, <2>1, DirectoriesQuiet
<1>3. CASE SaveSnapshot
  BY <1>1, <1>3 DEF SaveSnapshot, Directories, Idle
<1>4. CASE WriteSidecar
  <2>1. phase = "trunc" /\ sidecar.state = "torn"
    BY <1>4 DEF WriteSidecar, Started
  <2>2. \/ phase' = "run" /\ UNCHANGED <<sidecar, todo>>
        \/ phase' = "inject" /\ sidecar' = snap /\ todo' = snap.layers
    BY <1>4 DEF WriteSidecar, InjectPersistentModelSnapshotToStorage
  <2> QED BY <1>1, <2>1, <2>2 DEF Directories, Idle
<1>5. CASE EndSave
  <2>1. phase \in {"save", "capture", "inject"} /\ UNCHANGED sidecar /\ Idle /\ todo = NoLayers
    BY <1>5 DEF EndSave
  <2> QED BY <1>1, <2>1, DirectoriesQuiet
<1> QED BY <1>2, <1>3, <1>4, <1>5

LEMMA DirectoriesStore ==
  ASSUME Shape, Started, Directories, StoreStep \/ \E l \in Layer : StoreNext(l)
  PROVE  Directories'
<1>1. CASE StoreStep
  <2>1. PICK w : w = writer
    OBVIOUS
  <2>2. /\ UNCHANGED <<app, phase, todo, sidecar>> /\ ~Idle /\ IsWriter(w)
        /\ Fails(w) \/ (Calm /\ (Skips(w) \/ Moves(w) \/ Renames(w)))
    BY <1>1, <2>1, StoreStepIs DEF memory
  <2>3. classdir \subseteq classdir' /\ DOMAIN file' \subseteq classdir'
    BY <2>2, RenamedIs DEF Fails, Skips, Moves, Renames, Directories
  <2>4. writer' = NoWriter \/ (writer'.layer = w.layer /\ ~Idle' /\ Moves(w))
    BY <2>2 DEF Fails, Skips, Moves, Renames, Idle, NoWriter
  <2>5. ~Idle' /\ writer'.at \in {"write", "rename"} => writer'.layer \in classdir'
    BY <2>4 DEF Moves, Idle
  <2>6. Durable' => Durable
    BY <2>2, DurableStays DEF Shape, Fails, Calm
  <2>7. Durable' /\ sidecar.state = "whole" /\ writer' = NoWriter => w.layer \in classdir'
    <3>1. CASE Fails(w)
      BY <2>2, <3>1 DEF Fails, Durable, Started, Directories, Shape
    <3>2. CASE Skips(w) \/ Renames(w)
      BY <3>2 DEF Skips, Renames, Directories
    <3>3. CASE Moves(w)
      BY <3>3 DEF Moves, NoWriter
    <3> QED BY <2>2, <3>1, <3>2, <3>3
  <2> QED BY <2>1, <2>2, <2>3, <2>4, <2>5, <2>6, <2>7 DEF Directories
<1>2. CASE \E l \in Layer : StoreNext(l)
  <2>1. PICK l \in Layer : StoreNext(l)
    BY <1>2
  <2>2. PICK b : Stores(l, b)
    BY <2>1, StoreNextIs
  <2>3. writer'.layer = l /\ writer'.at = "compare" /\ ~Idle' /\ Idle
        /\ DOMAIN todo' = DOMAIN todo \ {l}
        /\ UNCHANGED <<app, phase, sidecar, file, classdir, faults>>
    BY <2>2 DEF Stores, Idle, NoWriter
  <2> QED BY <2>3 DEF Directories, Durable
<1> QED BY <1>1, <1>2

LEMMA DirectoriesNext == Shape /\ Started /\ Directories /\ [Next]_vars => Directories'
<1> SUFFICES ASSUME Shape, Started, Directories, [Next]_vars PROVE Directories'
  OBVIOUS
<1>1. CASE UNCHANGED vars
  BY <1>1 DEF vars, memory, storeVars, Directories, Durable, Idle
<1>2. CASE Stop
  BY <1>2 DEF Stop, Reopen, Directories, Idle
<1> QED BY <1>1, <1>2, DirectoriesLoad, DirectoriesRun, DirectoriesStore DEF Next


-----------------------------------------------------------------------------
(* What a save leaves on the disk.                                           *)

LEMMA SavingInit == Init => Saving
BY DEF Init, Saving

\* A save begins, with everything still to be stored; or another step is taken
\* that no save is concerned with.
LEMMA SavingQuiet ==
  ASSUME phase' \notin {"save", "inject", "hydrate"} \/ (todo' = Target' /\ Idle')
  PROVE  Saving'
BY DEF Saving

LEMMA SavingRest ==
  ASSUME Started,
         \/ Bootstrap \/ LoadApplication \/ ReadSidecar \/ Hydrate
         \/ \E e : Commit(e)
         \/ \E o, q, p : ImportStandaloneEventGraph(o, p) \/ ImportClosedEventGraph(o, q, p)
         \/ CompactJournal \/ InsertImported \/ Save \/ SaveSnapshot
         \/ WriteSidecar \/ EndSave \/ Stop
  PROVE  Saving'
<1>1. CASE ReadSidecar
  <2>1. phase = "down" /\ UNCHANGED writer
        /\ (phase' = "aborted" \/ (phase' = "hydrate" /\ todo' = snap'.layers))
    BY <1>1 DEF ReadSidecar, storeVars
  <2> QED BY <2>1, SavingQuiet DEF Target, Started, Idle
<1>2. CASE Save
  <2>1. phase = "run" /\ phase' = "save" /\ UNCHANGED <<heap, writer>>
        /\ todo' = Layers(Kept(heap))
    BY <1>2 DEF Save, AskSave, Ready, Kept, memory, BeginSaveSession
  <2> QED BY <2>1, SavingQuiet DEF Target, Started, Idle
<1>3. CASE WriteSidecar
  <2>1. phase = "trunc" /\ UNCHANGED writer
        /\ (phase' = "run" \/ (phase' = "inject" /\ todo' = snap'.layers))
    BY <1>3 DEF WriteSidecar, InjectPersistentModelSnapshotToStorage, storeVars
  <2> QED BY <2>1, SavingQuiet DEF Target, Started, Idle
<1>4. CASE \/ Bootstrap \/ LoadApplication \/ Hydrate \/ \E e : Commit(e)
           \/ CompactJournal \/ InsertImported \/ SaveSnapshot \/ EndSave \/ Stop
  <2>1. phase' \notin {"save", "inject", "hydrate"}
    BY <1>4 DEF Bootstrap, LoadApplication, Hydrate, Commit, Edit, Ready,
                CompactJournal, InsertImported, SaveSnapshot, EndSave, Stop
  <2> QED BY <2>1, SavingQuiet
<1>5. CASE \E o, q, p : ImportStandaloneEventGraph(o, p) \/ ImportClosedEventGraph(o, q, p)
  <2>1. phase' = "import"
    BY <1>5 DEF ImportStandaloneEventGraph, ImportClosedEventGraph
  <2> QED BY <2>1, SavingQuiet
<1> QED BY <1>1, <1>2, <1>3, <1>4, <1>5

LEMMA TargetStays == UNCHANGED <<phase, heap, snap>> => Target' = Target
BY DEF Target

LEMMA SavingStore ==
  ASSUME Shape, Directories, Saving, StoreStep \/ \E l \in Layer : StoreNext(l)
  PROVE  Saving'
<1> SUFFICES ASSUME phase' \in {"save", "inject", "hydrate"} PROVE Saving'
  BY DEF Saving
<1>1. PICK T : T = Target
  OBVIOUS
<1>2. CASE StoreStep
  <2>1. PICK w : w = writer
    OBVIOUS
  <2>2. /\ UNCHANGED <<phase, heap, snap, todo>> /\ ~Idle
        /\ Fails(w) \/ (Calm /\ (Skips(w) \/ Moves(w) \/ Renames(w)))
    BY <1>2, <2>1, StoreStepIs DEF memory
  <2>3. Target' = T
    BY <1>1, <2>2, TargetStays
  <2>4. /\ \A l \in DOMAIN todo : l \in DOMAIN T /\ todo[l] = T[l]
        /\ w.layer \in DOMAIN T /\ w.bytes = T[w.layer]
        /\ \A l \in DOMAIN T :
             hadFailure \/ l \in DOMAIN todo \/ w.layer = l
             \/ (l \in DOMAIN file /\ file[l] = T[l])
    BY <1>1, <2>1, <2>2 DEF Saving
  <2>5. CASE Fails(w)
    BY <2>2, <2>3, <2>4, <2>5 DEF Fails, Saving, Idle
  <2>6. CASE Calm /\ Skips(w)
    BY <2>2, <2>3, <2>4, <2>6 DEF Skips, Calm, Saving, Idle
  <2>7. CASE Calm /\ Moves(w)
    <3>1. writer'.layer = w.layer /\ writer'.bytes = w.bytes /\ ~Idle'
      BY <2>7 DEF Moves, Idle, NoWriter
    <3> QED BY <2>2, <2>3, <2>4, <2>7, <3>1 DEF Moves, Calm, Saving
  <2>8. CASE Calm /\ Renames(w)
    <3>1. \A l \in DOMAIN T :
            hadFailure \/ l \in DOMAIN todo \/ (l \in DOMAIN file' /\ file'[l] = T[l])
      BY <2>4, <2>8, RenamedIs
    <3> QED BY <2>2, <2>3, <2>4, <2>8, <3>1 DEF Renames, Calm, Saving, Idle
  <2> QED BY <2>2, <2>5, <2>6, <2>7, <2>8
<1>3. CASE \E l \in Layer : StoreNext(l)
  <2>1. PICK l \in Layer : StoreNext(l)
    BY <1>3
  <2>2. PICK b : Stores(l, b)
    BY <2>1, StoreNextIs
  <2>3. Target' = T
    BY <1>1, <2>2, TargetStays DEF Stores
  <2>4. writer'.layer = l /\ writer'.bytes = b /\ b = todo[l] /\ ~Idle' /\ Idle
        /\ DOMAIN todo' = DOMAIN todo \ {l}
        /\ (\A m \in DOMAIN todo' : todo'[m] = todo[m])
        /\ l \in DOMAIN todo /\ UNCHANGED <<phase, file, hadFailure>>
    BY <2>2 DEF Stores, Idle, NoWriter
  <2> QED BY <1>1, <2>3, <2>4 DEF Saving
<1> QED BY <1>2, <1>3

LEMMA SavingNext == Shape /\ Started /\ Directories /\ Saving /\ [Next]_vars => Saving'
<1> SUFFICES ASSUME Shape, Started, Directories, Saving, [Next]_vars PROVE Saving'
  OBVIOUS
<1>1. CASE UNCHANGED vars
  <2>1. Target' = Target
    BY <1>1, TargetStays DEF vars, memory
  <2> QED BY <1>1, <2>1 DEF vars, storeVars, Saving, Idle
<1> QED BY <1>1, SavingRest, SavingStore DEF Next

LEMMA CleanSave == Shape /\ Saving => CleanSaveIsComplete
<1> SUFFICES ASSUME Shape, Saving, phase = "save", todo = NoLayers, Idle, ~hadFailure,
                    NEW o \in Closure(heap, {App})
             PROVE  Complete(o) /\ OnDisk[o] = heap[o]
  BY DEF CleanSaveIsComplete, SaveSessionHadFailure
<1>1. PICK h, k, T : h = heap /\ k = Kept(h) /\ T = Layers(k)
  OBVIOUS
<1>2. \A l \in DOMAIN T : l \in DOMAIN file /\ file[l] = T[l]
  BY <1>1, NoLayersIs DEF Saving, Target
<1>3. AreObjects(h) /\ AreObjects(k)
  BY <1>1, KeptAreObjects DEF Shape
<1>4. o \in DOMAIN k /\ o \in DOMAIN h /\ k[o] = h[o]
  BY <1>1, KeptIs DEF Kept, SaveObjectGraphToScratch
<1>5. <<o, "Own">> \in DOMAIN T /\ T[<<o, "Own">>] = [refs |-> h[o].refs, val |-> h[o].val]
  BY <1>1, <1>3, <1>4, LayersIs
<1>6. o \in {TheNode, Base} =>
        /\ <<o, "Node">> \in DOMAIN T
        /\ T[<<o, "Node">>] = [tag |-> h[o].val.tag, base |-> h[o].base,
                               journal |-> h[o].journal]
  BY <1>1, <1>3, <1>4, LayersIs
<1>7. IsObject(o, h[o]) /\ o \in Obj
  BY <1>3, <1>4 DEF AreObjects
<1>8. <<o, "Own">> \in DOMAIN file /\ file[<<o, "Own">>].refs = h[o].refs
      /\ file[<<o, "Own">>].val = h[o].val
  BY <1>2, <1>5
<1>9. o \in {TheNode, Base} =>
        /\ <<o, "Node">> \in DOMAIN file
        /\ file[<<o, "Node">>].base = h[o].base
        /\ file[<<o, "Node">>].journal = h[o].journal
  BY <1>2, <1>6
<1>10. o \notin {TheNode, Base} => h[o].base = NoObj /\ h[o].journal = {}
  BY <1>7 DEF IsObject, FitHistory
<1>11. o \in DOMAIN OnDisk
  BY <1>7, <1>8, <1>9, OnDiskIs DEF Shape
<1>12. PICK d : d = OnDisk[o]
  OBVIOUS
<1>13. IsObject(o, d) /\ d.refs = h[o].refs /\ d.val = h[o].val
       /\ d.base = h[o].base /\ d.journal = h[o].journal
  BY <1>8, <1>9, <1>10, <1>11, <1>12, OnDiskIs DEF Shape, AreObjects
<1>14. d = h[o]
  BY <1>7, <1>13 DEF IsObject
<1>15. Complete(o)
  BY <1>11 DEF OnDisk
<1> QED BY <1>1, <1>12, <1>14, <1>15


-----------------------------------------------------------------------------

LEMMA ShapeNext == Shape /\ Directories /\ [Next]_vars => Shape'
<1> SUFFICES ASSUME Shape, Directories, [Next]_vars PROVE Shape'
  OBVIOUS
<1>1. CASE UNCHANGED vars
  BY <1>1 DEF vars, memory, storeVars, Shape, Loading, Idle
<1>2. CASE \E o \in Obj : Commit(o)
  BY <1>2, ShapeCommit
<1>3. CASE \E p \in Payload, o \in Obj : ImportStandaloneEventGraph(o, p)
  BY <1>3, ShapeImportStandalone
<1>4. CASE \E p \in Payload, o \in Obj, q \in Obj : ImportClosedEventGraph(o, q, p)
  BY <1>4, ShapeImportClosed
<1>5. CASE \E l \in Layer : StoreNext(l)
  BY <1>5, ShapeStoreNext
<1> QED BY <1>1, <1>2, <1>3, <1>4, <1>5, ShapeBootstrap, ShapeLoadApplication,
          ShapeReadSidecar, ShapeHydrate, ShapeCompactJournal, ShapeInsertImported,
          ShapeSave, ShapeSaveSnapshot, ShapeWriteSidecar, ShapeEndSave,
          ShapeStoreStep, ShapeStop DEF Next

\* What holds of every program and of every file system.
Basic == Shape /\ Started /\ Directories /\ Saving

LEMMA BasicNext == Basic /\ [Next]_vars => Basic'
BY ShapeNext, StartedNext, DirectoriesNext, SavingNext DEF Basic

LEMMA BasicAlways == Spec => []Basic
<1>1. Init => Basic
  BY ShapeInit, StartedInit, DirectoriesInit, SavingInit DEF Basic
<1> QED BY <1>1, BasicNext, PTL DEF Spec

\* A save that reports no failure has left every layer of the model on the
\* disk as the memory has it (surfaces_lifecycle.cpp, SaveApplication): a
\* layer that failed is remembered until the next session begins, and one that
\* was skipped is there already.
THEOREM CheckpointCleanSaveIsComplete == Spec => []CleanSaveIsComplete
<1>1. Basic => CleanSaveIsComplete
  BY CleanSave DEF Basic
<1> QED BY <1>1, BasicAlways, PTL


-----------------------------------------------------------------------------
(* One object for each id.                                                   *)

LEMMA OneObjectInit == Init => OneObject
<1> SUFFICES ASSUME Init, NEW o \in Obj \ Distilled PROVE Known(o) = {}
  BY DEF OneObject
<1>1. DOMAIN file = {} /\ DOMAIN todo = {} /\ DOMAIN heap = {} /\ Idle
      /\ phase \notin Loading /\ sidecar.state # "whole"
  BY DEF Init, InitStore, NoLayers, NoHeap, NoSnap, Idle, Loading
<1> QED BY <1>1 DEF Known, OwnLayer

\* A step that brings no bytes that were not there.
LEMMA StaysOne ==
  ASSUME OneObject, app' = app, Durable' => Durable,
         \A o \in Obj \ Distilled : Known(o)' \subseteq Known(o)
  PROVE  OneObject'
BY DEF OneObject, SameObject

LEMMA OneObjectLoad ==
  ASSUME Shape, Started, OneObject, Bootstrap \/ LoadApplication \/ ReadSidecar
  PROVE  OneObject'
<1>1. UNCHANGED <<app, file, sidecar, writer, faults>>
  BY DEF Bootstrap, LoadApplication, ReadSidecar, storeVars
<1> SUFFICES ASSUME NEW o \in Obj \ Distilled PROVE Known(o)' \subseteq Known(o)
  BY <1>1, StaysOne DEF Durable
<1>2. CASE Bootstrap
  <2>1. PICK g : g = DistilledGraph
    OBVIOUS
  <2>2. AreObjects(g) /\ DOMAIN g = Distilled
    BY <2>1, DistilledIs
  <2>3. heap' = g /\ todo' = Layers(g) /\ phase' = "bootstrap" /\ phase = "down"
    BY <1>2, <2>1 DEF Bootstrap
  <2>4. <<o, "Own">> \notin DOMAIN todo' /\ o \notin DOMAIN heap'
    BY <2>2, <2>3, LayersIs
  <2> QED BY <1>1, <2>3, <2>4 DEF Known, OwnLayer, Loading, Idle
<1>3. CASE LoadApplication
  <2>1. phase \in {"down", "bootstrap"} /\ phase' \in {"run", "aborted"} /\ UNCHANGED todo
        /\ (heap' = Kept(OnDisk) \/ UNCHANGED heap)
    BY <1>3 DEF LoadApplication
  <2>2. CASE heap' = Kept(OnDisk)
    <3>1. PICK d, k : d = OnDisk /\ k = Kept(d)
      OBVIOUS
    <3>2. o \in DOMAIN k =>
            /\ <<o, "Own">> \in DOMAIN file
            /\ k[o].refs = file[<<o, "Own">>].refs /\ k[o].val = file[<<o, "Own">>].val
      <4>1. o \in DOMAIN k => o \in DOMAIN d /\ k[o] = d[o]
        BY <3>1, KeptIs
      <4>2. o \in DOMAIN d =>
              /\ <<o, "Own">> \in DOMAIN file
              /\ d[o].refs = file[<<o, "Own">>].refs /\ d[o].val = file[<<o, "Own">>].val
        BY <3>1, OnDiskIs DEF Shape
      <4> QED BY <4>1, <4>2
    <3>3. <<o, "Own">> \in DOMAIN file =>
            file[<<o, "Own">>] = [refs |-> file[<<o, "Own">>].refs,
                                  val |-> file[<<o, "Own">>].val]
      BY DEF Shape, AreLayers, IsBytes, IsOwn
    <3>4. heap' = k
      BY <2>2, <3>1
    <3> QED BY <1>1, <2>1, <3>2, <3>3, <3>4 DEF Known, OwnLayer, Loading, Idle
  <2>3. CASE UNCHANGED heap
    BY <1>1, <2>1, <2>3 DEF Known, OwnLayer, Loading, Idle
  <2> QED BY <2>1, <2>2, <2>3
<1>4. CASE ReadSidecar
  <2>1. phase = "down" /\ UNCHANGED heap
        /\ \/ phase' = "aborted" /\ UNCHANGED <<todo, snap>>
           \/ phase' = "hydrate" /\ todo' = sidecar.layers /\ snap' = sidecar
              /\ sidecar.state = "whole"
    BY <1>4 DEF ReadSidecar
  <2> QED BY <1>1, <2>1 DEF Known, OwnLayer, Loading, Idle
<1> QED BY <1>2, <1>3, <1>4


\* A loader of snapshots may drop what an object refers to, and nothing else.
LEMMA OneObjectHydrate ==
  Shape /\ Started /\ OneObject /\ Hydrate => OneObject'
<1> SUFFICES ASSUME Shape, Started, OneObject, Hydrate PROVE OneObject'
  OBVIOUS
<1>1. /\ UNCHANGED <<app, file, todo, snap, sidecar, writer, faults>>
      /\ phase = "hydrate" /\ phase' \notin Loading
  BY DEF Hydrate, storeVars, Loading
<1>2. app # "layers"
  BY <1>1 DEF Started, Loading
<1>3. CASE UNCHANGED heap
  <2> SUFFICES ASSUME NEW o \in Obj \ Distilled PROVE Known(o)' \subseteq Known(o)
    BY <1>1, StaysOne DEF Durable
  <2> QED BY <1>1, <1>3 DEF Known, OwnLayer, Loading, Idle
<1>4. CASE heap' # heap
  <2>1. PICK ids, h, r, s, k :
          /\ ids = {l[1] : l \in DOMAIN snap.layers} /\ h = [o \in ids |-> OnDisk[o]]
          /\ r = RestorePersistedNodeBaseBindings(h)
          /\ s = SanitizeLoadedPersistentObjPtrs(r) /\ k = Kept(s)
    OBVIOUS
  <2>2. (\A o \in ids : Complete(o)) /\ heap' = k
    BY <1>4, <2>1 DEF Hydrate
  <2>3. /\ ids \subseteq DOMAIN OnDisk
        /\ AreObjects(h) /\ AreObjects(r) /\ AreObjects(s) /\ AreObjects(k)
    BY <1>1, <2>1, <2>2, HydratedIs
  <2>4. IsSnapshot(snap)
    BY <1>1 DEF Shape, Loading
  <2> SUFFICES ASSUME NEW o \in Obj \ Distilled, NEW b \in Known(o)'
               PROVE  \E c \in Known(o) : b.val = c.val
    BY <1>1, <1>2 DEF OneObject, SameObject, Durable
  <2>5. CASE b \in Known(o)
    BY <2>5
  <2>6. CASE b \notin Known(o)
    <3>1. o \in DOMAIN k /\ b = [refs |-> k[o].refs, val |-> k[o].val]
      BY <1>1, <2>2, <2>6 DEF Known, OwnLayer, Loading, Idle
    <3>2. o \in DOMAIN s /\ k[o] = s[o]
      BY <2>1, <3>1, KeptIs
    <3>3. o \in DOMAIN r /\ s[o].val = r[o].val
      BY <2>1, <2>3, <3>2, SanitizedIs
    <3>4. o \in DOMAIN h /\ r[o].val = h[o].val
      BY <2>1, <2>3, <2>4, <3>3, RestoredIs
    <3>5. o \in DOMAIN OnDisk /\ h[o] = OnDisk[o]
      BY <2>1, <2>3, <3>4
    <3>6. <<o, "Own">> \in DOMAIN file /\ OnDisk[o].val = file[<<o, "Own">>].val
      BY <3>5, OnDiskIs DEF Shape
    <3>7. file[<<o, "Own">>] \in Known(o)
      BY <3>6 DEF Known, OwnLayer
    <3>8. b.val = file[<<o, "Own">>].val
      BY <3>1, <3>2, <3>3, <3>4, <3>5, <3>6
    <3> QED BY <3>7, <3>8
  <2> QED BY <2>5, <2>6
<1> QED BY <1>3, <1>4

\* Nothing is known of a new id.
LEMMA NewIsUnknown ==
  ASSUME Started, Directories, Durable, phase = "run", NEW o, o \notin DOMAIN heap,
         Enumerate(o) = {}
  PROVE  Known(o) = {}
<1>1. \A l \in classdir : l[1] # o
  BY DEF Enumerate
<1>2. todo = NoLayers /\ Idle /\ phase \notin Loading
  BY DEF Started, Loading
<1>3. <<o, "Own">> \notin classdir
  BY <1>1
<1>4. <<o, "Own">> \notin DOMAIN file
  BY <1>3 DEF Directories
<1>5. sidecar.state = "whole" => <<o, "Own">> \notin DOMAIN sidecar.layers
  BY <1>3 DEF Directories
<1> QED BY <1>2, <1>4, <1>5, NoLayersIs DEF Known, OwnLayer


\* A step that brings new objects.
LEMMA NewObjectsAreOne ==
  ASSUME OneObject, UNCHANGED <<app, faults>>, NEW new,
         \A o \in Obj \ (Distilled \cup new) : Known(o)' \subseteq Known(o),
         \A o \in Obj \ Distilled : o \in new /\ Durable =>
           \A b, c \in Known(o)' : b = c
  PROVE  OneObject'
<1>1. Durable' <=> Durable
  BY DEF Durable
<1>2. app = "layers" => Durable
  BY DEF Durable
<1> QED BY <1>1, <1>2 DEF OneObject, SameObject

LEMMA OneObjectCommit ==
  ASSUME Shape, Started, Directories, OneObject, NEW e, Commit(e)
  PROVE  OneObject'
<1>1. PICK h, f, a : /\ h = heap /\ f = Object("event", count.born, 0)
                     /\ a = Appended(Join(h, e, f), e)
  OBVIOUS
<1>2. /\ heap' = a /\ e \in NewId /\ phase = "run" /\ TheNode \in DOMAIN h
      /\ UNCHANGED <<app, phase, todo, snap, sidecar, file, writer, faults>>
  BY <1>1 DEF Commit, Edit, Ready, storeVars
<1>3. /\ e \in Obj /\ e \notin DOMAIN heap /\ Enumerate(e) = {}
  BY <1>2 DEF NewId, Enumerate
<1>4. e \notin Distilled
  BY <1>2, <1>3, EditHas DEF Commit
<1>5. IsObject(e, f)
  BY <1>1, <1>4, NewObject
<1>6. AreObjects(h)
  BY <1>1 DEF Shape
<1>7. Committed(h, e, f, a)
  BY <1>1, <1>2, <1>3, <1>4, <1>5, <1>6, CommittedIs
<1>8. ASSUME NEW o \in Obj \ (Distilled \cup {e}) PROVE Known(o)' \subseteq Known(o)
  <2>1. o \in DOMAIN a => o \in DOMAIN h /\ a[o] = h[o]
    BY <1>7, <1>8 DEF Committed, Distilled
  <2> QED BY <1>1, <1>2, <2>1 DEF Known, OwnLayer, Idle
<1>9. ASSUME Durable PROVE \A b, c \in Known(e)' : b = c
  <2>1. Known(e) = {}
    BY <1>2, <1>3, <1>9, NewIsUnknown
  <2>2. ASSUME NEW b \in Known(e)'
        PROVE  b = [refs |-> a[e].refs, val |-> a[e].val]
    <3>1. b \in Known(e) \/ b = [refs |-> a[e].refs, val |-> a[e].val]
      BY <1>2, <2>2 DEF Known, OwnLayer, Idle
    <3> QED BY <2>1, <3>1
  <2> QED BY <2>2
<1>10. \A o \in Obj \ Distilled : o \in {e} /\ Durable =>
         \A b, c \in Known(o)' : b = c
  BY <1>9
<1> QED BY <1>2, <1>8, <1>10, NewObjectsAreOne

LEMMA OneObjectImportStandalone ==
  ASSUME Shape, Started, Directories, OneObject, NEW x, NEW p,
         ImportStandaloneEventGraph(x, p)
  PROVE  OneObject'
<1>1. PICK new, f :
        /\ IsFree(x) /\ new = [o \in {x} |-> f] /\ IsObject(x, f) /\ f.refs = {}
        /\ AreObjects(new) /\ todo' = Layers(new)
        /\ snap' = [state |-> "absent", event |-> x]
        /\ phase = "run" /\ phase' = "import" /\ TheNode \in DOMAIN heap
        /\ UNCHANGED <<app, heap, sidecar, storeVars>>
  BY ImportStandaloneIs
<1>2. UNCHANGED <<app, heap, sidecar, file, writer, faults>>
  BY <1>1 DEF storeVars
<1>3. phase \notin Loading /\ phase' \notin Loading
  BY <1>1 DEF Loading
<1>4. ASSUME NEW o \in Obj \ (Distilled \cup {x}) PROVE Known(o)' \subseteq Known(o)
  <2>1. <<o, "Own">> \notin DOMAIN todo'
    BY <1>1, <1>4, LayersIs
  <2> QED BY <1>2, <1>3, <2>1 DEF Known, OwnLayer, Idle
<1>5. ASSUME Durable PROVE \A b, c \in Known(x)' : b = c
  <2>1. Known(x) = {}
    BY <1>1, <1>5, NewIsUnknown DEF IsFree
  <2> QED BY <1>2, <1>3, <2>1 DEF Known, OwnLayer, Idle
<1>6. \A o \in Obj \ Distilled : o \in {x} /\ Durable =>
        \A b, c \in Known(o)' : b = c
  BY <1>5
<1> QED BY <1>2, <1>4, <1>6, NewObjectsAreOne

LEMMA OneObjectImportClosed ==
  ASSUME Shape, Started, Directories, OneObject, NEW x, NEW y, NEW p,
         ImportClosedEventGraph(x, y, p)
  PROVE  OneObject'
<1>1. PICK h, new, held :
        /\ h = heap /\ IsFree(x) /\ IsFree(y) /\ Imported(x, y, count.born, new, held)
        /\ heap' = Merged(h, held) /\ todo' = Layers(new)
        /\ snap' = [state |-> "absent", event |-> x]
        /\ phase = "run" /\ phase' = "import"
        /\ UNCHANGED <<app, sidecar, storeVars>>
  BY ImportClosedIs
<1>2. UNCHANGED <<app, sidecar, file, writer, faults>>
  BY <1>1 DEF storeVars
<1>3. phase \notin Loading /\ phase' \notin Loading
  BY <1>1 DEF Loading
<1>4. PICK m : m = Merged(h, held)
  OBVIOUS
<1>5. /\ DOMAIN m = DOMAIN h \cup DOMAIN held
      /\ \A o \in DOMAIN m : m[o] = IF o \in DOMAIN h THEN h[o] ELSE held[o]
  BY <1>4 DEF Merged
<1>6. /\ AreObjects(new) /\ DOMAIN new \subseteq {x, y} /\ DOMAIN held \subseteq DOMAIN new
      /\ \A o \in DOMAIN held : held[o] = new[o]
  BY <1>1 DEF Imported
<1>7. heap' = m
  BY <1>1, <1>4
<1>8. ASSUME NEW o \in Obj \ (Distilled \cup {x, y}) PROVE Known(o)' \subseteq Known(o)
  <2>1. <<o, "Own">> \notin DOMAIN todo'
    BY <1>1, <1>6, <1>8, LayersIs
  <2>2. o \in DOMAIN m => o \in DOMAIN h /\ m[o] = h[o]
    BY <1>5, <1>6, <1>8
  <2> QED BY <1>1, <1>2, <1>3, <1>7, <2>1, <2>2 DEF Known, OwnLayer, Idle
<1>9. ASSUME Durable, NEW o \in {x, y} PROVE \A b, c \in Known(o)' : b = c
  <2>1. Known(o) = {} /\ o \notin DOMAIN h
    BY <1>1, <1>9, NewIsUnknown DEF IsFree
  <2>2. <<o, "Own">> \in DOMAIN todo' =>
          o \in DOMAIN new /\ todo'[<<o, "Own">>] = [refs |-> new[o].refs, val |-> new[o].val]
    BY <1>1, <1>6, LayersIs
  <2>3. o \in DOMAIN m => m[o] = new[o]
    BY <1>5, <1>6, <2>1
  <2> QED BY <1>2, <1>3, <1>7, <2>1, <2>2, <2>3 DEF Known, OwnLayer, Idle
<1>10. \A o \in Obj \ Distilled : o \in {x, y} /\ Durable =>
         \A b, c \in Known(o)' : b = c
  BY <1>9
<1> QED BY <1>2, <1>8, <1>10, NewObjectsAreOne


LEMMA OneObjectCompactJournal ==
  Shape /\ Started /\ OneObject /\ CompactJournal => OneObject'
<1> SUFFICES ASSUME Shape, Started, OneObject, CompactJournal PROVE OneObject'
  OBVIOUS
<1>1. PICK h, c, k, b :
        /\ h = heap /\ AreObjects(h) /\ Distilled \subseteq DOMAIN h
        /\ h[TheNode].base = Base
        /\ c = CompactedTo(h, h[TheNode].val.n)
        /\ k = Kept(c) /\ AreObjects(k) /\ Distilled \subseteq DOMAIN k
        /\ b = [o \in {Base} |-> k[o]] /\ AreObjects(b)
        /\ heap' = k /\ todo' = Layers(b) /\ phase' = "capture" /\ phase = "run"
        /\ UNCHANGED <<app, snap, sidecar, storeVars>>
  BY CompactJournalIs
<1> SUFFICES ASSUME NEW o \in Obj \ Distilled PROVE Known(o)' \subseteq Known(o)
  BY <1>1, StaysOne DEF Durable, storeVars
<1>2. <<o, "Own">> \notin DOMAIN todo'
  BY <1>1, LayersIs DEF Distilled
<1>3. o \in DOMAIN k => o \in DOMAIN c /\ k[o] = c[o]
  BY <1>1, KeptIs
<1>4. o \in DOMAIN c => o \in DOMAIN h /\ c[o] = h[o]
  BY <1>1, CompactedIs DEF Distilled
<1> QED BY <1>1, <1>2, <1>3, <1>4 DEF Known, OwnLayer, Loading, Idle, storeVars

LEMMA OneObjectInsertImported ==
  Shape /\ Started /\ OneObject /\ InsertImported => OneObject'
<1> SUFFICES ASSUME Shape, Started, OneObject, InsertImported PROVE OneObject'
  OBVIOUS
<1>1. /\ phase = "import" /\ todo = NoLayers /\ Idle
      /\ UNCHANGED <<app, sidecar, file, writer, faults>>
      /\ phase' \in {"run", "capture"}
      /\ \/ UNCHANGED <<heap, todo>>
         \/ \E e, h, f, a, s :
              /\ Inserted(e, h, f, a, s)
              /\ heap' = a /\ todo' = Layers(s) /\ phase' = "capture"
  BY InsertImportedIs DEF storeVars
<1> SUFFICES ASSUME NEW o \in Obj \ Distilled PROVE Known(o)' \subseteq Known(o)
  BY <1>1, StaysOne DEF Durable
<1>2. CASE UNCHANGED <<heap, todo>>
  BY <1>1, <1>2 DEF Known, OwnLayer, Loading, Idle
<1>3. CASE \E e, h, f, a, s :
             /\ Inserted(e, h, f, a, s)
             /\ heap' = a /\ todo' = Layers(s) /\ phase' = "capture"
  <2>1. PICK e, h, f, a, s :
          /\ Inserted(e, h, f, a, s)
          /\ heap' = a /\ todo' = Layers(s) /\ phase' = "capture"
    BY <1>3
  <2>2. h = heap /\ Committed(h, e, f, a) /\ AreObjects(s)
        /\ s = SaveObjectGraphToScratch(a, TheNode)
    BY <2>1 DEF Inserted
  <2>3. DOMAIN a = DOMAIN h \cup {e} /\ a[e] = f
        /\ (o \in DOMAIN h /\ o # e => a[o] = h[o])
    BY <2>2 DEF Committed, Distilled
  <2>4. o \in DOMAIN s => o \in DOMAIN a /\ s[o] = a[o]
    BY <2>2, ClosureIsClosed DEF SaveObjectGraphToScratch
  <2>5. <<o, "Own">> \in DOMAIN todo' =>
          o \in DOMAIN s /\ todo'[<<o, "Own">>] = [refs |-> s[o].refs, val |-> s[o].val]
    BY <2>1, <2>2, LayersIs
  <2>6. o \in DOMAIN a => [refs |-> a[o].refs, val |-> a[o].val] \in Known(o)
    <3>1. CASE o \in DOMAIN h /\ o # e
      BY <2>2, <2>3, <3>1 DEF Known
    <3>2. CASE o = e /\ e \in DOMAIN h
      BY <2>1, <2>2, <2>3, <3>2 DEF Known, Inserted
    <3>3. CASE o = e /\ e \notin DOMAIN h
      <4>1. <<e, "Own">> \in DOMAIN file /\ f.refs = file[<<e, "Own">>].refs
            /\ f.val = file[<<e, "Own">>].val
        BY <2>1, <3>3 DEF Inserted
      <4>2. file[<<e, "Own">>] = [refs |-> f.refs, val |-> f.val]
        BY <4>1 DEF Shape, AreLayers, IsBytes, IsOwn
      <4> QED BY <2>3, <3>3, <4>1, <4>2 DEF Known, OwnLayer
    <3> QED BY <2>3, <3>1, <3>2, <3>3
  <2>7. <<o, "Own">> \in DOMAIN todo' => todo'[<<o, "Own">>] \in Known(o)
    BY <2>4, <2>5, <2>6
  <2> SUFFICES ASSUME NEW b \in Known(o)', b \notin Known(o) PROVE FALSE
    OBVIOUS
  <2>8. \/ <<o, "Own">> \in DOMAIN todo' /\ b = todo'[<<o, "Own">>]
        \/ o \in DOMAIN a /\ b = [refs |-> a[o].refs, val |-> a[o].val]
    BY <1>1, <2>1 DEF Known, OwnLayer, Loading, Idle
  <2> QED BY <2>6, <2>7, <2>8
<1> QED BY <1>1, <1>2, <1>3

LEMMA OneObjectSave ==
  ASSUME Shape, Started, OneObject, Save \/ SaveSnapshot \/ WriteSidecar \/ EndSave
  PROVE  OneObject'
<1>1. UNCHANGED <<app, heap, file, writer, faults>>
  BY DEF Save, SaveSnapshot, WriteSidecar, EndSave, storeVars, memory, BeginSaveSession
<1> SUFFICES ASSUME NEW o \in Obj \ Distilled PROVE Known(o)' \subseteq Known(o)
  BY <1>1, StaysOne DEF Durable
<1>2. CASE Save
  <2>1. PICK k : k = Kept(heap)
    OBVIOUS
  <2>2. phase \notin Loading /\ phase' \notin Loading /\ todo' = Layers(k) /\ UNCHANGED sidecar
    BY <1>2, <2>1 DEF Save, AskSave, Ready, Kept, Loading
  <2>3. AreObjects(k)
    BY <2>1, KeptAreObjects DEF Shape
  <2>4. o \in DOMAIN k => o \in DOMAIN heap /\ k[o] = heap[o]
    BY <2>1, KeptIs
  <2>5. <<o, "Own">> \in DOMAIN Layers(k) =>
          /\ o \in DOMAIN k
          /\ Layers(k)[<<o, "Own">>] = [refs |-> k[o].refs, val |-> k[o].val]
    BY <2>3, LayersIs
  <2> QED BY <1>1, <2>2, <2>4, <2>5 DEF Known, OwnLayer, Idle
<1>3. CASE SaveSnapshot
  <2>1. PICK s : s = SerializePersistentModelSnapshot
    OBVIOUS
  <2>2. PICK h, nodes, cleared, scratch : Snapped(h, nodes, cleared, scratch, s)
    BY <2>1, SnapshotIs DEF Shape
  <2>3. phase = "run" /\ phase' = "trunc" /\ snap' = s /\ sidecar'.state = "torn"
        /\ UNCHANGED todo
    BY <1>3, <2>1 DEF SaveSnapshot, AskSave, Ready
  <2>4. h = heap /\ AreObjects(h) /\ AreObjects(scratch) /\ s.layers = Layers(scratch)
        /\ cleared = ClearReachableNodeBase(h, nodes)
        /\ (o \in DOMAIN scratch => o \in DOMAIN h /\ scratch[o] = cleared[o])
    BY <2>2 DEF Snapped
  <2>5. o \in DOMAIN h => cleared[o].refs = h[o].refs /\ cleared[o].val = h[o].val
    BY <2>4, ClearedIs
  <2>6. <<o, "Own">> \in DOMAIN s.layers =>
          /\ o \in DOMAIN scratch
          /\ s.layers[<<o, "Own">>] = [refs |-> scratch[o].refs, val |-> scratch[o].val]
    BY <2>4, LayersIs
  <2>7. <<o, "Own">> \in DOMAIN s.layers => s.layers[<<o, "Own">>] \in Known(o)
    BY <2>4, <2>5, <2>6 DEF Known
  <2> SUFFICES ASSUME NEW b \in Known(o)', b \notin Known(o) PROVE FALSE
    OBVIOUS
  <2>8. <<o, "Own">> \in DOMAIN s.layers /\ b = s.layers[<<o, "Own">>]
    BY <1>1, <2>3 DEF Known, OwnLayer, Loading, Idle
  <2> QED BY <2>7, <2>8
<1>4. CASE WriteSidecar
  <2>1. phase = "trunc" /\ snap.state = "whole"
    BY <1>4 DEF WriteSidecar, Started
  <2>2. \/ phase' = "run" /\ UNCHANGED <<sidecar, todo>>
        \/ phase' = "inject" /\ sidecar' = snap /\ todo' = snap.layers /\ UNCHANGED snap
    BY <1>4 DEF WriteSidecar, InjectPersistentModelSnapshotToStorage
  <2> QED BY <1>1, <2>1, <2>2 DEF Known, OwnLayer, Idle, Loading
<1>5. CASE EndSave
  BY <1>1, <1>5 DEF EndSave, Known, OwnLayer, Idle, Loading
<1> QED BY <1>2, <1>3, <1>4, <1>5


LEMMA OneObjectStop == Shape /\ OneObject /\ Stop => OneObject'
<1> SUFFICES ASSUME Shape, OneObject, Stop PROVE OneObject'
  OBVIOUS
<1>1. /\ phase' = "down" /\ DOMAIN heap' = {} /\ DOMAIN todo' = {} /\ Idle'
      /\ UNCHANGED <<app, sidecar, file, faults>>
  BY NoHeapIs, NoLayersIs DEF Stop, Reopen, Idle
<1> SUFFICES ASSUME NEW o \in Obj \ Distilled PROVE Known(o)' \subseteq Known(o)
  BY <1>1, StaysOne DEF Durable
<1> QED BY <1>1 DEF Known, OwnLayer, Loading

\* Storing a layer moves bytes about, and brings none.
LEMMA KnownStore ==
  ASSUME Shape, Directories, StoreStep \/ \E l \in Layer : StoreNext(l), NEW o
  PROVE  Known(o)' \subseteq Known(o)
<1>1. CASE StoreStep
  <2>1. PICK w : w = writer
    OBVIOUS
  <2>2. /\ UNCHANGED <<app, phase, heap, snap, todo, sidecar>> /\ ~Idle
        /\ Fails(w) \/ (Calm /\ (Skips(w) \/ Moves(w) \/ Renames(w)))
    BY <1>1, <2>1, StoreStepIs DEF memory
  <2>3. CASE Fails(w) \/ Skips(w)
    BY <2>2, <2>3 DEF Fails, Skips, Known, OwnLayer, Idle
  <2>4. CASE Moves(w)
    <3>1. writer'.layer = w.layer /\ writer'.bytes = w.bytes /\ UNCHANGED file
      BY <2>4 DEF Moves
    <3> QED BY <2>1, <2>2, <3>1 DEF Known, OwnLayer
  <2>5. CASE Renames(w)
    <3>1. <<o, "Own">> \in DOMAIN file' =>
            \/ <<o, "Own">> = w.layer /\ file'[<<o, "Own">>] = w.bytes
            \/ <<o, "Own">> \in DOMAIN file /\ file'[<<o, "Own">>] = file[<<o, "Own">>]
      BY <2>5, RenamedIs
    <3>2. Idle'
      BY <2>5 DEF Renames, Idle
    <3> QED BY <2>1, <2>2, <3>1, <3>2 DEF Known, OwnLayer
  <2> QED BY <2>2, <2>3, <2>4, <2>5
<1>2. CASE \E l \in Layer : StoreNext(l)
  <2>1. PICK l \in Layer : StoreNext(l)
    BY <1>2
  <2>2. PICK b : Stores(l, b)
    BY <2>1, StoreNextIs
  <2>3. /\ writer'.layer = l /\ writer'.bytes = todo[l] /\ l \in DOMAIN todo
        /\ DOMAIN todo' = DOMAIN todo \ {l} /\ Idle
        /\ \A m \in DOMAIN todo' : todo'[m] = todo[m]
        /\ UNCHANGED <<app, phase, heap, snap, sidecar, file, faults>>
    BY <2>2 DEF Stores
  <2> QED BY <2>3 DEF Known, OwnLayer
<1> QED BY <1>1, <1>2

LEMMA OneObjectStore ==
  ASSUME Shape, Directories, OneObject, StoreStep \/ \E l \in Layer : StoreNext(l)
  PROVE  OneObject'
<1>1. app' = app /\ (faults' = faults \/ faults' = faults + 1)
  <2>1. CASE StoreStep
    <3>1. PICK w : w = writer
      OBVIOUS
    <3> QED BY <2>1, <3>1, StoreStepIs DEF Fails, Calm
  <2>2. CASE \E l \in Layer : StoreNext(l)
    BY <2>2 DEF StoreNext, Store
  <2> QED BY <2>1, <2>2
<1>2. Durable' => Durable
  BY <1>1, DurableStays DEF Shape
<1>3. \A o \in Obj \ Distilled : Known(o)' \subseteq Known(o)
  BY KnownStore
<1> QED BY <1>1, <1>2, <1>3, StaysOne

LEMMA OneObjectNext ==
  Shape /\ Started /\ Directories /\ OneObject /\ [Next]_vars => OneObject'
<1> SUFFICES ASSUME Shape, Started, Directories, OneObject, [Next]_vars PROVE OneObject'
  OBVIOUS
<1>1. CASE UNCHANGED vars
  <2>1. UNCHANGED <<app, phase, heap, todo, snap, sidecar, file, writer, faults>>
    BY <1>1 DEF vars, memory, storeVars
  <2> SUFFICES ASSUME NEW o \in Obj \ Distilled PROVE Known(o)' \subseteq Known(o)
    BY <2>1, StaysOne DEF Durable
  <2> QED BY <2>1 DEF Known, OwnLayer, Idle
<1>2. CASE \E o \in Obj : Commit(o)
  BY <1>2, OneObjectCommit
<1>3. CASE \E p \in Payload, o \in Obj : ImportStandaloneEventGraph(o, p)
  BY <1>3, OneObjectImportStandalone
<1>4. CASE \E p \in Payload, o \in Obj, q \in Obj : ImportClosedEventGraph(o, q, p)
  BY <1>4, OneObjectImportClosed
<1> QED BY <1>1, <1>2, <1>3, <1>4, OneObjectLoad, OneObjectHydrate,
          OneObjectCompactJournal, OneObjectInsertImported, OneObjectSave,
          OneObjectStore, OneObjectStop DEF Next

\* Only a rename changes a file.
LEMMA FilesChange ==
  ASSUME Shape, Directories, [Next]_vars
  PROVE  \/ UNCHANGED file
         \/ ~Idle /\ \E w : w = writer /\ IsWriter(w) /\ Renames(w)
<1>1. CASE StoreStep
  <2>1. PICK w : w = writer
    OBVIOUS
  <2>2. IsWriter(w) /\ ~Idle /\ (Fails(w) \/ Skips(w) \/ Moves(w) \/ Renames(w))
    BY <1>1, <2>1, StoreStepIs
  <2> QED BY <2>1, <2>2 DEF Fails, Skips, Moves
<1>2. CASE ~StoreStep
  BY <1>2 DEF Next, vars, storeVars, Bootstrap, LoadApplication, ReadSidecar, Hydrate,
     Commit, ImportStandaloneEventGraph, ImportClosedEventGraph, CompactJournal,
     InsertImported, Save, SaveSnapshot, WriteSidecar, EndSave, StoreNext, Store,
     Stop, Reopen, BeginSaveSession
<1> QED BY <1>1, <1>2

\* What replaces a file is of the same object.
LEMMA RenameKeepsTag ==
  ASSUME Shape, Durable, OneObject, ~Idle, NEW l, l \in DOMAIN file, l = writer.layer,
         NEW b, b = writer.bytes
  PROVE  TagOf(file[l]) = TagOf(b)
<1>1. PICK c : c = file[l]
  OBVIOUS
<1>2. IsBytes(l, b) /\ IsBytes(l, c)
  BY <1>1 DEF Shape, AreLayers, IsWriter
<1>3. CASE l[2] = "Own"
  <2>1. IsOwn(l[1], b) /\ IsOwn(l[1], c)
    BY <1>2, <1>3 DEF IsBytes
  <2>2. TagOf(b) = b.val.tag /\ TagOf(c) = c.val.tag
    BY <2>1 DEF IsOwn, TagOf
  <2>3. CASE l[1] \in Distilled
    BY <1>1, <2>1, <2>2, <2>3 DEF IsOwn, IsVal
  <2>4. CASE l[1] \notin Distilled
    <3>1. PICK o : o = l[1]
      OBVIOUS
    <3>2. l = <<o, "Own">> /\ o \in Obj \ Distilled
      BY <1>2, <1>3, <2>4, <3>1 DEF IsBytes
    <3>3. b \in Known(o) /\ c \in Known(o)
      BY <1>1, <3>2 DEF Known, OwnLayer
    <3> QED BY <1>1, <2>2, <3>2, <3>3 DEF OneObject, SameObject
  <2> QED BY <2>3, <2>4
<1>4. CASE l[2] # "Own"
  <2>1. IsHistory(l[1], b) /\ IsHistory(l[1], c)
    BY <1>2, <1>4 DEF IsBytes
  <2>2. b.tag = c.tag
    BY <2>1 DEF IsHistory
  <2>3. "val" \notin DOMAIN b /\ "val" \notin DOMAIN c
    BY <2>1 DEF IsHistory
  <2> QED BY <1>1, <2>2, <2>3 DEF TagOf
<1> QED BY <1>3, <1>4

LEMMA IdentityStep ==
  ASSUME Shape, Directories, OneObject, [Next]_vars, Durable, NEW l \in DOMAIN file \cap DOMAIN file'
  PROVE  TagOf(file[l]) = TagOf(file'[l])
<1>1. CASE UNCHANGED file
  BY <1>1
<1>2. CASE ~Idle /\ \E w : w = writer /\ IsWriter(w) /\ Renames(w)
  <2>1. PICK w : w = writer /\ Renames(w)
    BY <1>2
  <2>2. CASE l = w.layer
    <3>1. PICK b : b = w.bytes
      OBVIOUS
    <3>2. file'[l] = b
      BY <2>1, <2>2, <3>1, RenamedIs
    <3>3. TagOf(file[l]) = TagOf(b)
      BY <1>2, <2>1, <2>2, <3>1, RenameKeepsTag
    <3> QED BY <3>2, <3>3
  <2>3. CASE l # w.layer
    <3>1. file'[l] = file[l]
      BY <2>1, <2>3, RenamedIs
    <3> QED BY <3>1
  <2> QED BY <2>2, <2>3
<1> QED BY <1>1, <1>2, FilesChange

\* An id on the disk stands for one object for ever.  New ids are looked up in
\* the domain and in the directories (AllocateUniqueReceiverObjId,
\* object_serialization.cpp; GenerateUnique of node.h), and what has neither is
\* nowhere: an object in the side file has its directories by the time a
\* process runs.
THEOREM CheckpointIdentityIsStable == Spec => IdentityIsStable
<1>1. Init => OneObject
  BY OneObjectInit
<1>2. Basic /\ OneObject /\ [Next]_vars => OneObject'
  BY OneObjectNext DEF Basic
<1>3. Basic /\ OneObject /\ [Next]_vars =>
        (Durable => \A l \in DOMAIN file \cap DOMAIN file' :
                      TagOf(file[l]) = TagOf(file'[l]))
  BY IdentityStep DEF Basic
<1>4. Basic /\ OneObject /\ [Next]_vars =>
        [ (app = "snapshots" /\ "create" \in IoFaults => faults = 0) =>
            \A l \in DOMAIN file \cap DOMAIN file' :
              TagOf(file[l]) = TagOf(file'[l]) ]_vars
  BY <1>3 DEF Durable
<1> QED BY <1>1, <1>2, <1>4, BasicAlways, PTL DEF Spec, IdentityIsStable


-----------------------------------------------------------------------------
(* What is on the disk can be loaded.                                        *)

\* The objects on the disk that the application may lead to.
Wanted(d) == {o \in DOMAIN d : o \in Distilled \/ EventStored(o)}

LEMMA WantedIsClosed ==
  ASSUME AreLayers(file), Loadable, NEW d, d = OnDisk, NEW o \in Wanted(d)
  PROVE  /\ Edges(d[o]) \subseteq Wanted(d)
         /\ o = App => d[o].refs = {TheNode}
         /\ o = TheNode => d[o].base = Base
         /\ o \notin Distilled => \A r \in d[o].refs :
              r \in DOMAIN d /\ d[r].refs = {} /\ <<r, "Own">> \in DOMAIN file
<1>1. /\ AreObjects(d)
      /\ DOMAIN d =
           {p \in Obj : /\ <<p, "Own">> \in DOMAIN file
                        /\ p \in {TheNode, Base} => <<p, "Node">> \in DOMAIN file}
      /\ \A p \in DOMAIN d :
           /\ d[p].refs = file[<<p, "Own">>].refs
           /\ p \in {TheNode, Base} =>
                /\ d[p].base = file[<<p, "Node">>].base
                /\ d[p].journal = file[<<p, "Node">>].journal
           /\ p \notin {TheNode, Base} => d[p].base = NoObj /\ d[p].journal = {}
  BY OnDiskIs
<1>2. o \in DOMAIN d /\ IsObject(o, d[o]) /\ (o \in Distilled \/ EventStored(o))
  BY <1>1 DEF Wanted, AreObjects
<1>3. \A p : PartStored(p) => EventStored(p)
  BY DEF PartStored, EventStored
<1>4. \A p : EventStored(p) => p \in DOMAIN d /\ p \in Wanted(d)
  BY <1>1 DEF EventStored, Wanted, Distilled
<1>5. CASE o = App
  <2>1. d[o].refs = {TheNode} /\ BothLayers(TheNode) \subseteq DOMAIN file
    BY <1>1, <1>2, <1>5 DEF Loadable
  <2>2. d[o].base = NoObj /\ d[o].journal = {}
    BY <1>1, <1>2, <1>5, DistilledIds
  <2>3. TheNode \in Wanted(d)
    BY <1>1, <2>1, DistilledIds DEF BothLayers, Wanted, Distilled
  <2> QED BY <1>5, <2>1, <2>2, <2>3, DistilledIds DEF Edges, BaseOf, Distilled
<1>6. CASE o = TheNode
  <2>1. <<TheNode, "Node">> \in DOMAIN file
    BY <1>1, <1>2, <1>6
  <2>2. d[o].refs = {}
    BY <1>2, <1>6 DEF IsObject, FitRefs
  <2>3. d[o].base = Base /\ BothLayers(Base) \subseteq DOMAIN file
        /\ \A e \in d[o].journal : EventStored(e)
    BY <1>1, <1>2, <1>6, <2>1 DEF Loadable
  <2>4. Base \in Wanted(d)
    BY <1>1, <2>3, DistilledIds DEF BothLayers, Wanted, Distilled
  <2> QED BY <1>4, <1>6, <2>2, <2>3, <2>4, DistilledIds DEF Edges, BaseOf, Distilled
<1>7. CASE o = Base
  <2>1. d[o].refs = {} /\ d[o].base = NoObj /\ d[o].journal = {}
    BY <1>2, <1>7, DistilledIds DEF IsObject, FitRefs, FitHistory
  <2> QED BY <1>7, <2>1, DistilledIds DEF Edges, BaseOf, Distilled
<1>8. CASE o \notin Distilled
  <2>1. \A r \in d[o].refs : PartStored(r)
    BY <1>1, <1>2, <1>8 DEF EventStored
  <2>2. \A r \in d[o].refs : r \in Wanted(d) /\ r \in DOMAIN d /\ d[r].refs = {}
                             /\ <<r, "Own">> \in DOMAIN file
    BY <1>1, <1>3, <1>4, <2>1 DEF PartStored
  <2>3. d[o].base = NoObj /\ d[o].journal = {}
    BY <1>1, <1>2, <1>8 DEF Distilled
  <2> QED BY <1>8, <2>2, <2>3 DEF Edges, BaseOf, Distilled
<1> QED BY <1>5, <1>6, <1>7, <1>8 DEF Distilled

LEMMA LoadedIs ==
  ASSUME AreLayers(file), Loadable, NEW d, d = OnDisk, NEW k, k = Kept(d)
  PROVE  /\ \A o \in DOMAIN k : Edges(d[o]) \subseteq DOMAIN d
         /\ App \in DOMAIN d =>
              /\ Model(k)
              /\ \A o \in DOMAIN k \ Distilled : \A r \in k[o].refs :
                   <<r, "Own">> \in DOMAIN file
<1>1. PICK S : S = Wanted(d)
  OBVIOUS
<1>2. S \subseteq DOMAIN d /\ {App} \cap DOMAIN d \subseteq S
  BY <1>1 DEF Wanted, Distilled
<1>3. \A o \in S : Edges(d[o]) \subseteq S
  BY <1>1, WantedIsClosed
<1>4. Closure(d, {App}) \subseteq S
  <2>1. \A o \in S : Edges(d[o]) \cap DOMAIN d \subseteq S
    BY <1>3
  <2> QED BY <1>2, <2>1, ClosureIsLeast
<1>5. DOMAIN k \subseteq S
  BY <1>4 DEF Kept, SaveObjectGraphToScratch
<1>6. \A o \in DOMAIN k : Edges(d[o]) \subseteq DOMAIN d
  BY <1>2, <1>3, <1>5
<1>7. /\ \A o \in DOMAIN k : k[o] = d[o] /\ Edges(d[o]) \cap DOMAIN d \subseteq DOMAIN k
      /\ App \in DOMAIN d => App \in DOMAIN k
  BY KeptIs
<1>8. \A o \in DOMAIN k : k[o] = d[o] /\ Edges(k[o]) \subseteq DOMAIN k
  BY <1>6, <1>7
<1>9. ASSUME App \in DOMAIN d
      PROVE  /\ Model(k)
             /\ \A o \in DOMAIN k \ Distilled : \A r \in k[o].refs :
                  <<r, "Own">> \in DOMAIN file
  <2>1. App \in DOMAIN k /\ k[App].refs = {TheNode}
    BY <1>1, <1>5, <1>7, <1>9, WantedIsClosed
  <2>2. TheNode \in DOMAIN k
    BY <1>8, <2>1 DEF Edges
  <2>3. k[TheNode].base = Base
    BY <1>1, <1>5, <1>8, <2>2, WantedIsClosed
  <2>4. Base \in DOMAIN k /\ k[TheNode].journal \subseteq DOMAIN k
    BY <1>8, <2>2, <2>3, DistilledIds DEF Edges, BaseOf
  <2>5. \A o \in DOMAIN k \ Distilled : \A r \in k[o].refs :
          /\ r \in DOMAIN k /\ k[r].refs = {}
          /\ <<r, "Own">> \in DOMAIN file
    <3> SUFFICES ASSUME NEW o \in DOMAIN k, o \notin Distilled, NEW r \in k[o].refs
                 PROVE  r \in DOMAIN k /\ k[r].refs = {} /\ <<r, "Own">> \in DOMAIN file
      OBVIOUS
    <3>1. o \in Wanted(d) /\ r \in d[o].refs
      BY <1>1, <1>5, <1>8
    <3>2. d[r].refs = {} /\ <<r, "Own">> \in DOMAIN file
      BY <3>1, WantedIsClosed
    <3>3. r \in DOMAIN k
      BY <1>8 DEF Edges
    <3> QED BY <1>8, <3>2, <3>3
  <2>6. Distilled \subseteq DOMAIN k
    BY <2>1, <2>2, <2>4 DEF Distilled
  <2>7. Model(k)
    BY <2>1, <2>3, <2>4, <2>5, <2>6 DEF Model
  <2> QED BY <2>5, <2>7
<1> QED BY <1>6, <1>9

LEMMA SoundDangles == Shape /\ Sound => NothingDangles
BY LoadedIs DEF Shape, Sound, Well, NothingDangles


\* What layers mention is what their objects lead to.
LEMMA MentionsIs ==
  ASSUME NEW h, AreObjects(h), NEW l, l \in DOMAIN Layers(h), NEW b, b = Layers(h)[l]
  PROVE  /\ l = <<l[1], l[2]>> /\ l[1] \in DOMAIN h
         /\ Mentions(b) \subseteq Edges(h[l[1]])
         /\ l[2] = "Own" => b.refs = h[l[1]].refs /\ Mentions(b) = b.refs
         /\ l[2] # "Own" =>
              /\ l[2] = "Node" /\ l[1] \in {TheNode, Base}
              /\ b.base = h[l[1]].base /\ b.journal = h[l[1]].journal
              /\ Mentions(b) = b.journal \cup ({b.base} \ {NoObj})
<1>1. l = <<l[1], l[2]>> /\ l[1] \in DOMAIN h
      /\ (l[2] = "Own" \/ (l[2] = "Node" /\ l[1] \in {TheNode, Base}))
  BY LayersIs
<1>2. PICK o : o = l[1]
  OBVIOUS
<1>3. CASE l[2] = "Own"
  <2>1. b = [refs |-> h[o].refs, val |-> h[o].val]
    <3>1. l = <<o, "Own">> /\ o \in DOMAIN h
      BY <1>1, <1>2, <1>3
    <3> QED BY <3>1, LayersIs
  <2>2. Mentions(b) = b.refs /\ b.refs = h[o].refs
    BY <2>1 DEF Mentions
  <2>3. Mentions(b) \subseteq Edges(h[o])
    BY <2>2 DEF Edges
  <2> QED BY <1>1, <1>2, <1>3, <2>2, <2>3
<1>4. CASE l[2] = "Node" /\ l[1] \in {TheNode, Base}
  <2>1. b = [tag |-> h[o].val.tag, base |-> h[o].base, journal |-> h[o].journal]
    <3>1. l = <<o, "Node">> /\ o \in DOMAIN h \cap {TheNode, Base}
      BY <1>1, <1>2, <1>4
    <3> QED BY <3>1, LayersIs
  <2>2. b.base = h[o].base /\ b.journal = h[o].journal
        /\ Mentions(b) = b.journal \cup ({b.base} \ {NoObj})
    BY <2>1 DEF Mentions
  <2>3. Mentions(b) \subseteq Edges(h[o])
    BY <2>2 DEF Edges, BaseOf
  <2> QED BY <1>1, <1>2, <1>4, <2>2, <2>3
<1> QED BY <1>1, <1>3, <1>4

LEMMA LayersAgree ==
  ASSUME NEW h, NEW s, AreObjects(h), AreObjects(s),
         \A o \in DOMAIN s : o \in DOMAIN h /\ s[o] = h[o],
         NEW l \in DOMAIN Layers(s)
  PROVE  l \in DOMAIN Layers(h) /\ Layers(s)[l] = Layers(h)[l]
<1>1. PICK o : o = l[1]
  OBVIOUS
<1>2. o \in DOMAIN s /\ o \in DOMAIN h /\ s[o] = h[o]
      /\ (l = <<o, "Own">> \/ (l = <<o, "Node">> /\ o \in {TheNode, Base}))
  BY <1>1, LayersIs
<1>3. CASE l = <<o, "Own">>
  <2>1. l \in DOMAIN Layers(h) /\ Layers(h)[l] = [refs |-> h[o].refs, val |-> h[o].val]
    BY <1>2, <1>3, LayersIs
  <2>2. Layers(s)[l] = [refs |-> s[o].refs, val |-> s[o].val]
    BY <1>2, <1>3, LayersIs
  <2> QED BY <1>2, <2>1, <2>2
<1>4. CASE l = <<o, "Node">> /\ o \in {TheNode, Base}
  <2>1. l \in DOMAIN Layers(h)
        /\ Layers(h)[l] = [tag |-> h[o].val.tag, base |-> h[o].base,
                           journal |-> h[o].journal]
    BY <1>2, <1>4, LayersIs
  <2>2. Layers(s)[l] = [tag |-> s[o].val.tag, base |-> s[o].base,
                        journal |-> s[o].journal]
    BY <1>2, <1>4, LayersIs
  <2> QED BY <1>2, <2>1, <2>2
<1> QED BY <1>2, <1>3, <1>4

LEMMA LayerIdsIs ==
  ASSUME NEW s, AreObjects(s), NEW o \in DOMAIN s
  PROVE  LayerIds(o) \subseteq DOMAIN Layers(s)
BY LayersIs DEF LayerIds, BothLayers

\* In a model no pointer dangles, and no object refers to itself.
LEMMA ModelEdges ==
  ASSUME NEW h, AreObjects(h), Model(h), NEW o \in DOMAIN h
  PROVE  Edges(h[o]) \subseteq DOMAIN h \ {o}
<1>1. IsObject(o, h[o])
  BY DEF AreObjects
<1>2. CASE o = App
  <2>1. h[o].refs = {TheNode} /\ h[o].base = NoObj /\ h[o].journal = {}
    BY <1>1, <1>2, DistilledIds DEF Model, IsObject, FitHistory
  <2> QED BY <1>2, <2>1, DistilledIds DEF Edges, BaseOf, Model, Distilled
<1>3. CASE o = TheNode
  <2>1. h[o].refs = {} /\ h[o].base = Base /\ h[o].journal \cap Distilled = {}
        /\ h[o].journal \subseteq DOMAIN h
    BY <1>1, <1>3, DistilledIds DEF Model, IsObject, FitHistory, FitRefs
  <2> QED BY <1>3, <2>1, DistilledIds DEF Edges, BaseOf, Model, Distilled
<1>4. CASE o = Base
  <2>1. h[o].refs = {} /\ h[o].base = NoObj /\ h[o].journal = {}
    BY <1>1, <1>4, DistilledIds DEF IsObject, FitHistory, FitRefs
  <2> QED BY <2>1 DEF Edges, BaseOf
<1>5. CASE o \notin Distilled
  <2>1. h[o].base = NoObj /\ h[o].journal = {}
    BY <1>1, <1>5 DEF IsObject, FitHistory, Distilled
  <2>2. \A r \in h[o].refs : r \in DOMAIN h /\ h[r].refs = {}
    BY <1>5 DEF Model
  <2> QED BY <2>1, <2>2 DEF Edges, BaseOf
<1> QED BY <1>2, <1>3, <1>4, <1>5 DEF Distilled

\* A save begins: all that the layers mention is on its way.
LEMMA InTurnStarts ==
  ASSUME NEW h, AreObjects(h), NEW s, AreObjects(s),
         \A o \in DOMAIN s : /\ o \in DOMAIN h /\ s[o] = h[o]
                             /\ Edges(s[o]) \subseteq DOMAIN s,
         heap' = h, todo' = Layers(s), Idle'
  PROVE  InTurn'
<1> SUFFICES ASSUME NEW l \in DOMAIN todo'
             PROVE  /\ l \in DOMAIN Layers(heap') /\ todo'[l] = Layers(heap')[l]
                    /\ \A o \in Mentions(todo'[l]) : \A k \in LayerIds(o) : Coming(k)'
  BY DEF InTurn
<1>1. PICK b : b = Layers(s)[l]
  OBVIOUS
<1>2. l \in DOMAIN Layers(h) /\ b = Layers(h)[l]
  BY <1>1, LayersAgree
<1>3. ASSUME NEW o \in Mentions(b), NEW k \in LayerIds(o) PROVE Coming(k)'
  <2>1. o \in DOMAIN s
    BY <1>1, MentionsIs
  <2>2. k \in DOMAIN todo'
    BY <2>1, LayerIdsIs
  <2> QED BY <2>2 DEF Coming
<1> QED BY <1>1, <1>2, <1>3


LEMMA LoadableStays == UNCHANGED file /\ Loadable => Loadable'
BY DEF Loadable, EventStored, PartStored

\* A phase in which nothing is stored in order, and nothing is imported.
LEMMA WellAtRest ==
  ASSUME UNCHANGED file, Loadable, phase' \notin InOrder \cup {"import"},
         phase' \in HasModel => Model(heap') /\ Whole'
  PROVE  Well'
BY LoadableStays DEF Well, InTurn

\* The beginning of a save that walks the graph.
LEMMA WellInOrder ==
  ASSUME UNCHANGED file, Loadable, phase' \in InOrder, Model(heap'), Whole', InTurn'
  PROVE  Well'
BY LoadableStays DEF Well, InOrder

\* The model with another object in it, whether or not it was there before.
LEMMA ModelAppend ==
  ASSUME NEW h, NEW e, NEW f, NEW a, AreObjects(h), Model(h), Committed(h, e, f, a),
         e \notin Distilled, IF e \in DOMAIN h THEN f = h[e] ELSE f.refs = {}
  PROVE  Model(a)
<1>1. /\ DOMAIN a = DOMAIN h \cup {e} /\ a[e] = f
      /\ a[TheNode].base = h[TheNode].base
      /\ a[TheNode].journal = h[TheNode].journal \cup {e}
      /\ \A p \in DOMAIN h \ {TheNode, e} : a[p] = h[p]
  BY DEF Committed
<1>2. Distilled \subseteq DOMAIN h /\ h[App].refs = {TheNode} /\ h[TheNode].base = Base
      /\ h[TheNode].journal \subseteq DOMAIN h
  BY DEF Model
<1>3. Distilled \subseteq DOMAIN a /\ a[TheNode].base = Base
      /\ a[TheNode].journal \subseteq DOMAIN a
  BY <1>1, <1>2
<1>4. a[App].refs = {TheNode}
  <2>1. App \in DOMAIN h \ {TheNode, e}
    BY <1>2, DistilledIds DEF Distilled
  <2> QED BY <1>1, <1>2, <2>1
<1>5. ASSUME NEW o \in DOMAIN a, o \notin Distilled, NEW r \in a[o].refs
      PROVE  r \in DOMAIN a /\ a[r].refs = {}
  <2>1. o \in DOMAIN h /\ a[o] = h[o]
    <3>1. CASE o = e
      BY <1>1, <1>5, <3>1
    <3>2. CASE o # e
      BY <1>1, <1>5, <3>2 DEF Distilled
    <3> QED BY <3>1, <3>2
  <2>2. r \in DOMAIN h /\ h[r].refs = {}
    BY <1>5, <2>1 DEF Model
  <2>3. a[r].refs = h[r].refs
    <3>1. CASE r = e
      BY <1>1, <2>2, <3>1
    <3>2. CASE r = TheNode
      BY <3>2 DEF Committed
    <3>3. CASE r \notin {e, TheNode}
      BY <1>1, <2>2, <3>3
    <3> QED BY <3>1, <3>2, <3>3
  <2> QED BY <1>1, <2>2, <2>3
<1> QED BY <1>3, <1>4, <1>5 DEF Model

LEMMA WellBootstrap ==
  ASSUME Shape, Started, Well, Bootstrap
  PROVE  Well'
<1>1. PICK g : g = DistilledGraph
  OBVIOUS
<1>2. AreObjects(g) /\ DOMAIN g = Distilled /\ Model(g)
  BY <1>1, DistilledIs
<1>3. heap' = g /\ todo' = Layers(g) /\ phase' = "bootstrap" /\ UNCHANGED <<file, writer>>
      /\ phase = "down"
  BY <1>1 DEF Bootstrap, storeVars
<1>4. Idle'
  BY <1>3 DEF Started, Idle
<1>5. \A o \in DOMAIN g : Edges(g[o]) \subseteq DOMAIN g
  BY <1>2, ModelEdges
<1>6. InTurn'
  BY <1>2, <1>3, <1>4, <1>5, InTurnStarts
<1>7. Whole'
  BY <1>2, <1>3 DEF Whole
<1> QED BY <1>2, <1>3, <1>6, <1>7, WellInOrder DEF Well, InOrder

LEMMA WellLoadApplication ==
  ASSUME Shape, Started, Well, LoadApplication
  PROVE  Well'
<1>1. UNCHANGED file /\ Loadable
  BY DEF LoadApplication, storeVars, Well
<1>2. CASE phase' = "aborted"
  BY <1>1, <1>2, WellAtRest DEF InOrder, HasModel, Up
<1>3. CASE Complete(App) /\ heap' = Kept(OnDisk) /\ phase' = "run"
  <2>1. PICK d, k : d = OnDisk /\ k = Kept(d)
    OBVIOUS
  <2>2. App \in DOMAIN d
    BY <1>3, <2>1, DistilledIds DEF OnDisk
  <2>3. /\ Model(k)
        /\ \A o \in DOMAIN k \ Distilled : \A r \in k[o].refs :
             <<r, "Own">> \in DOMAIN file
    BY <1>1, <2>1, <2>2, LoadedIs DEF Shape
  <2>4. heap' = k
    BY <1>3, <2>1
  <2>5. Whole'
    BY <1>1, <2>3, <2>4 DEF Whole, StoredWhole
  <2> QED BY <1>1, <1>3, <2>3, <2>4, <2>5, WellAtRest DEF InOrder
<1> QED BY <1>2, <1>3 DEF LoadApplication

LEMMA WellCommit ==
  ASSUME Shape, Started, Well, NEW e, Commit(e)
  PROVE  Well'
<1>1. PICK h, f, a : /\ h = heap /\ f = Object("event", count.born, 0)
                     /\ a = Appended(Join(h, e, f), e)
  OBVIOUS
<1>2. /\ heap' = a /\ e \in NewId /\ phase = "run" /\ TheNode \in DOMAIN h
      /\ UNCHANGED <<phase, file>>
  BY <1>1 DEF Commit, Edit, Ready, storeVars
<1>3. e \in Obj /\ e \notin DOMAIN heap
  BY <1>2 DEF NewId
<1>4. e \notin Distilled
  BY <1>2, <1>3, EditHas DEF Commit
<1>5. IsObject(e, f) /\ f.refs = {}
  BY <1>1, <1>4, NewObject
<1>6. AreObjects(h) /\ Model(h) /\ Whole
  BY <1>1, <1>2 DEF Shape, Well, HasModel, Up
<1>7. Committed(h, e, f, a)
  BY <1>1, <1>2, <1>3, <1>4, <1>5, <1>6, CommittedIs
<1>8. Model(a)
  BY <1>1, <1>3, <1>4, <1>5, <1>6, <1>7, ModelAppend
<1>9. ASSUME NEW o \in DOMAIN a, o \notin Distilled, <<o, "Own">> \in DOMAIN file,
             NEW r \in a[o].refs
      PROVE  <<r, "Own">> \in DOMAIN file
  <2>1. o \in DOMAIN h /\ a[o] = h[o]
    BY <1>5, <1>7, <1>9 DEF Committed, Distilled
  <2> QED BY <1>1, <1>2, <1>6, <1>9, <2>1 DEF Whole, StoredWhole
<1>10. Whole'
  BY <1>2, <1>9 DEF Whole, StoredWhole
<1> QED BY <1>2, <1>8, <1>10, WellAtRest DEF Well, InOrder


LEMMA WellCompactJournal ==
  ASSUME Shape, Started, Well, CompactJournal
  PROVE  Well'
<1>1. PICK h, c, k, b :
        /\ h = heap /\ AreObjects(h) /\ Distilled \subseteq DOMAIN h
        /\ h[TheNode].base = Base
        /\ c = CompactedTo(h, h[TheNode].val.n)
        /\ k = Kept(c) /\ AreObjects(k) /\ Distilled \subseteq DOMAIN k
        /\ b = [o \in {Base} |-> k[o]] /\ AreObjects(b)
        /\ heap' = k /\ todo' = Layers(b) /\ phase' = "capture" /\ phase = "run"
        /\ UNCHANGED <<app, snap, sidecar, storeVars>>
  BY CompactJournalIs
<1>2. Model(h) /\ Whole
  BY <1>1 DEF Well, HasModel, Up
<1>3. /\ AreObjects(c) /\ DOMAIN c = DOMAIN h
      /\ \A o \in DOMAIN h : c[o].refs = h[o].refs /\ c[o].base = h[o].base
      /\ c[TheNode].journal = {}
  BY <1>1, CompactedIs DEF Distilled
<1>4. /\ DOMAIN k \subseteq DOMAIN h
      /\ \A o \in DOMAIN k : /\ k[o] = c[o]
                             /\ Edges(c[o]) \cap DOMAIN h \subseteq DOMAIN k
  BY <1>1, <1>3, KeptIs
<1>5. \A o \in DOMAIN k : k[o].refs = h[o].refs /\ k[o].base = h[o].base
  BY <1>3, <1>4
<1>6. \A o \in DOMAIN k \ Distilled : \A r \in k[o].refs :
        r \in DOMAIN k /\ k[r].refs = {} /\ r \in h[o].refs
  <2> SUFFICES ASSUME NEW o \in DOMAIN k, o \notin Distilled, NEW r \in k[o].refs
               PROVE  r \in DOMAIN k /\ k[r].refs = {} /\ r \in h[o].refs
    OBVIOUS
  <2>1. r \in h[o].refs /\ r \in c[o].refs
    BY <1>3, <1>4, <1>5
  <2>2. r \in DOMAIN h /\ h[r].refs = {}
    BY <1>2, <1>4, <2>1 DEF Model
  <2>3. r \in DOMAIN k
    BY <1>4, <2>1, <2>2 DEF Edges
  <2> QED BY <1>5, <2>1, <2>2, <2>3
<1>7. Model(k)
  <2>1. App \in DOMAIN k /\ TheNode \in DOMAIN k
    BY <1>1 DEF Distilled
  <2>2. k[App].refs = {TheNode} /\ k[TheNode].base = Base
    BY <1>2, <1>5, <2>1 DEF Model
  <2>3. k[TheNode].journal = {}
    BY <1>3, <1>4, <2>1
  <2> QED BY <1>1, <1>6, <2>2, <2>3 DEF Model
<1>8. ASSUME NEW o \in DOMAIN k, o \notin Distilled, <<o, "Own">> \in DOMAIN file,
             NEW r \in k[o].refs
      PROVE  <<r, "Own">> \in DOMAIN file
  <2>1. o \in DOMAIN h /\ r \in h[o].refs
    BY <1>4, <1>6, <1>8
  <2> QED BY <1>1, <1>2, <1>8, <2>1 DEF Whole, StoredWhole
<1>9. Whole'
  BY <1>1, <1>8 DEF Whole, StoredWhole, storeVars
<1>10. InTurn'
  <2>1. Idle'
    BY <1>1 DEF Started, Idle, storeVars
  <2>2. \A o \in DOMAIN b : o \in DOMAIN k /\ b[o] = k[o]
    BY <1>1 DEF Distilled
  <2>3. Edges(k[Base]) = {}
    <3>1. IsObject(Base, k[Base])
      BY <1>1 DEF AreObjects, Distilled
    <3> QED BY <3>1, DistilledIds DEF IsObject, FitRefs, FitHistory, Edges, BaseOf
  <2>4. \A o \in DOMAIN b : Edges(b[o]) \subseteq DOMAIN b
    BY <1>1, <2>2, <2>3
  <2>5. \A o \in DOMAIN b : /\ o \in DOMAIN k /\ b[o] = k[o]
                            /\ Edges(b[o]) \subseteq DOMAIN b
    BY <2>2, <2>4
  <2> QED BY <1>1, <2>1, <2>5, InTurnStarts
<1> QED BY <1>1, <1>7, <1>9, <1>10, WellInOrder DEF Well, InOrder, storeVars

LEMMA WellSave ==
  ASSUME Shape, Started, Well, Save
  PROVE  Well'
<1>1. PICK h, k : h = heap /\ k = Kept(h)
  OBVIOUS
<1>2. phase = "run" /\ phase' = "save" /\ heap' = h /\ UNCHANGED <<file, writer>>
      /\ todo' = Layers(k)
  BY <1>1 DEF Save, AskSave, Ready, Kept, memory, BeginSaveSession
<1>3. AreObjects(h) /\ AreObjects(k) /\ Model(h) /\ Whole
  BY <1>1, <1>2, KeptAreObjects DEF Shape, Well, HasModel, Up
<1>4. \A o \in DOMAIN k : /\ o \in DOMAIN h /\ k[o] = h[o]
                          /\ Edges(h[o]) \cap DOMAIN h \subseteq DOMAIN k
  BY <1>1, KeptIs
<1>5. \A o \in DOMAIN k : /\ o \in DOMAIN h /\ k[o] = h[o]
                          /\ Edges(k[o]) \subseteq DOMAIN k
  BY <1>3, <1>4, ModelEdges
<1>6. Idle'
  BY <1>2 DEF Started, Idle
<1>7. InTurn'
  BY <1>2, <1>3, <1>5, <1>6, InTurnStarts
<1>8. Whole'
  BY <1>1, <1>2, <1>3 DEF Whole, StoredWhole
<1> QED BY <1>2, <1>3, <1>7, <1>8, WellInOrder DEF Well, InOrder

LEMMA WellEndSave ==
  ASSUME Well, EndSave
  PROVE  Well'
<1>1. phase \in {"save", "capture", "inject"} /\ phase' = "run" /\ UNCHANGED <<heap, file>>
  BY DEF EndSave, storeVars
<1>2. PICK h : h = heap
  OBVIOUS
<1>3. Model(h) /\ heap' = h
  BY <1>1, <1>2 DEF Well, HasModel, Up
<1>4. Whole'
  BY <1>1 DEF Well, HasModel, Up, Whole, StoredWhole
<1> QED BY <1>1, <1>3, <1>4, WellAtRest DEF Well, InOrder

LEMMA WellStop ==
  ASSUME Well, Stop
  PROVE  Well'
BY WellAtRest DEF Stop, Reopen, Well, InOrder, HasModel, Up

LEMMA WellImportStandalone ==
  ASSUME Shape, Started, Directories, Well, app = "layers", NEW x, NEW p,
         ImportStandaloneEventGraph(x, p)
  PROVE  Well'
<1>1. PICK new, f :
        /\ IsFree(x) /\ new = [o \in {x} |-> f] /\ IsObject(x, f) /\ f.refs = {}
        /\ AreObjects(new) /\ todo' = Layers(new)
        /\ snap' = [state |-> "absent", event |-> x]
        /\ phase = "run" /\ phase' = "import" /\ TheNode \in DOMAIN heap
        /\ UNCHANGED <<app, heap, sidecar, storeVars>>
  BY ImportStandaloneIs
<1>2. UNCHANGED <<heap, file, writer>> /\ snap'.event = x
  BY <1>1 DEF storeVars
<1>3. Idle' /\ x \notin DOMAIN heap /\ x \notin Distilled
  BY <1>1, <1>2 DEF Started, Idle, IsFree
<1>4. PICK h : h = heap
  OBVIOUS
<1>5. Model(h) /\ heap' = h /\ Whole'
  BY <1>1, <1>2, <1>4 DEF Well, HasModel, Up, Whole, StoredWhole
<1>6. Coming(<<x, "Own">>)'
  BY <1>1, LayersIs DEF Coming
<1>7. \A l \in DOMAIN todo' : l = <<x, "Own">> /\ todo'[l].refs = {}
  <2> SUFFICES ASSUME NEW l \in DOMAIN todo' PROVE l = <<x, "Own">> /\ todo'[l].refs = {}
    OBVIOUS
  <2>1. PICK b : b = Layers(new)[l]
    OBVIOUS
  <2>2. l = <<l[1], l[2]>> /\ l[1] = x /\ l[2] = "Own"
    BY <1>1, <1>3, LayersIs DEF Distilled
  <2>3. b.refs = new[x].refs
    BY <1>1, <2>1, <2>2, MentionsIs
  <2> QED BY <1>1, <2>1, <2>2, <2>3
<1>8. \A b \in Known(x)' : b.refs = {}
  <2>1. Known(x) = {}
    BY <1>1, NewIsUnknown DEF IsFree, Durable
  <2> SUFFICES ASSUME NEW b \in Known(x)' PROVE b.refs = {}
    OBVIOUS
  <2>2. b \notin Known(x)
    BY <2>1
  <2>3. <<x, "Own">> \in DOMAIN todo' /\ b = todo'[<<x, "Own">>]
    BY <1>1, <1>2, <1>3, <2>2 DEF Known, OwnLayer, Loading, Idle, storeVars
  <2> QED BY <1>7, <2>3
<1>9. Importing'
  BY <1>2, <1>3, <1>6, <1>7, <1>8 DEF Importing, IsPart
<1> QED BY <1>1, <1>2, <1>5, <1>9, LoadableStays DEF Well, InTurn, InOrder


LEMMA WellImportClosed ==
  ASSUME Shape, Started, Well, NEW x, NEW y, NEW p, ImportClosedEventGraph(x, y, p)
  PROVE  Well'
<1>1. PICK h, new, held :
        /\ h = heap /\ IsFree(x) /\ IsFree(y) /\ Imported(x, y, count.born, new, held)
        /\ heap' = Merged(h, held) /\ todo' = Layers(new)
        /\ snap' = [state |-> "absent", event |-> x]
        /\ phase = "run" /\ phase' = "import"
        /\ UNCHANGED <<app, sidecar, storeVars>>
  BY ImportClosedIs
<1>2. UNCHANGED <<file, writer>> /\ snap'.event = x /\ Idle'
  BY <1>1 DEF storeVars, Started, Idle
<1>3. PICK m : m = Merged(h, held)
  OBVIOUS
<1>4. /\ DOMAIN m = DOMAIN h \cup DOMAIN held
      /\ \A o \in DOMAIN m : m[o] = IF o \in DOMAIN h THEN h[o] ELSE held[o]
  BY <1>3 DEF Merged
<1>5. heap' = m
  BY <1>1, <1>3
<1>6. /\ AreObjects(new) /\ DOMAIN new \subseteq {x, y} /\ DOMAIN held \subseteq DOMAIN new
      /\ x \in DOMAIN held /\ \A o \in DOMAIN held : held[o] = new[o]
      /\ \A o \in DOMAIN new : \A r \in new[o].refs :
           o = x /\ r = y /\ y \in DOMAIN held /\ new[y].refs = {}
  BY <1>1 DEF Imported
<1>7. x \notin DOMAIN h /\ y \notin DOMAIN h /\ x \notin Distilled /\ y \notin Distilled
  BY <1>1 DEF IsFree
<1>8. Model(h) /\ Whole
  BY <1>1 DEF Well, HasModel, Up
<1>9. \A o \in DOMAIN h : o \in DOMAIN m /\ m[o] = h[o]
  BY <1>4
<1>10. \A o \in DOMAIN held : o \in DOMAIN m /\ m[o] = new[o]
  BY <1>4, <1>6, <1>7
<1>11. \A o \in DOMAIN m \ Distilled : \A r \in m[o].refs :
         r \in DOMAIN m /\ m[r].refs = {}
  <2> SUFFICES ASSUME NEW o \in DOMAIN m, o \notin Distilled, NEW r \in m[o].refs
               PROVE  r \in DOMAIN m /\ m[r].refs = {}
    OBVIOUS
  <2>1. CASE o \in DOMAIN h
    <3>1. r \in DOMAIN h /\ h[r].refs = {}
      BY <1>8, <1>9, <2>1 DEF Model
    <3> QED BY <1>9, <3>1
  <2>2. CASE o \in DOMAIN held
    <3>1. o \in DOMAIN new /\ r \in new[o].refs
      BY <1>6, <1>10, <2>2
    <3>2. r = y /\ y \in DOMAIN held /\ new[y].refs = {}
      BY <1>6, <3>1
    <3> QED BY <1>10, <3>2
  <2> QED BY <1>4, <2>1, <2>2
<1>12. Model(m)
  <2>1. Distilled \subseteq DOMAIN m /\ App \in DOMAIN h /\ TheNode \in DOMAIN h
    BY <1>8, <1>9 DEF Model, Distilled
  <2>2. m[App].refs = {TheNode} /\ m[TheNode].base = Base
        /\ m[TheNode].journal \subseteq DOMAIN m
    BY <1>8, <1>9, <2>1 DEF Model
  <2> QED BY <1>11, <2>1, <2>2 DEF Model
<1>13. ASSUME NEW o \in DOMAIN m, o \notin Distilled, o # x, <<o, "Own">> \in DOMAIN file,
              NEW r \in m[o].refs
       PROVE  <<r, "Own">> \in DOMAIN file
  <2>1. CASE o \in DOMAIN h
    BY <1>1, <1>8, <1>9, <1>13, <2>1 DEF Whole, StoredWhole
  <2>2. CASE o \in DOMAIN held
    BY <1>6, <1>10, <1>13, <2>2
  <2> QED BY <1>4, <2>1, <2>2
<1>14. Whole'
  BY <1>1, <1>2, <1>5, <1>13 DEF Whole, StoredWhole
<1>15. \A l \in DOMAIN todo' :
         l[1] \notin Distilled /\ (l[1] = x \/ todo'[l].refs = {})
  <2> SUFFICES ASSUME NEW l \in DOMAIN todo'
               PROVE  l[1] \notin Distilled /\ (l[1] = x \/ todo'[l].refs = {})
    OBVIOUS
  <2>1. PICK b, o : b = Layers(new)[l] /\ o = l[1]
    OBVIOUS
  <2>2. o \in DOMAIN new /\ o \in {x, y}
    BY <1>1, <1>6, <2>1, MentionsIs
  <2>3. o \notin Distilled
    BY <1>7, <2>2
  <2>4. l[2] = "Own"
    BY <1>1, <1>6, <2>1, <2>3, MentionsIs DEF Distilled
  <2>5. b.refs = new[o].refs
    BY <1>1, <1>6, <2>1, <2>4, MentionsIs
  <2>6. o = x \/ new[o].refs = {}
    BY <1>6, <2>2
  <2> QED BY <1>1, <2>1, <2>3, <2>5, <2>6
<1>16. \A o \in DOMAIN new : Coming(<<o, "Own">>)'
  BY <1>1, <1>6, LayersIs DEF Coming
<1>17. Importing'
  <2>1. x \in DOMAIN heap' /\ Coming(<<x, "Own">>)'
    BY <1>5, <1>6, <1>10, <1>16
  <2>2. \A r \in heap'[x].refs : Coming(<<r, "Own">>)'
    <3> SUFFICES ASSUME NEW r \in m[x].refs PROVE Coming(<<r, "Own">>)'
      BY <1>5
    <3>1. r \in DOMAIN new
      BY <1>6, <1>10
    <3> QED BY <1>16, <3>1
  <2> QED BY <1>2, <1>15, <2>1, <2>2 DEF Importing, IsPart
<1> QED BY <1>1, <1>2, <1>5, <1>12, <1>14, <1>17, LoadableStays
        DEF Well, InTurn, InOrder

LEMMA WellInsertImported ==
  ASSUME Shape, Started, Well, app = "layers", InsertImported
  PROVE  Well'
<1>1. phase = "import" /\ DOMAIN todo = {} /\ Idle /\ UNCHANGED <<file, writer>>
      /\ \/ phase' = "run" /\ UNCHANGED heap /\ snap.event \notin DOMAIN heap
         \/ \E e, h, f, a, s :
              /\ Inserted(e, h, f, a, s)
              /\ heap' = a /\ todo' = Layers(s) /\ phase' = "capture"
  BY InsertImportedIs, NoLayersIs DEF storeVars
<1>2. Model(heap) /\ Whole /\ Importing
  BY <1>1 DEF Well, HasModel, Up
<1>3. CASE phase' = "run" /\ UNCHANGED heap /\ snap.event \notin DOMAIN heap
  <2>1. PICK h : h = heap
    OBVIOUS
  <2>2. Model(h) /\ heap' = h
    BY <1>2, <1>3, <2>1
  <2>3. Whole'
    BY <1>1, <1>2, <1>3 DEF Whole, StoredWhole
  <2> QED BY <1>1, <1>3, <2>2, <2>3, WellAtRest DEF Well, InOrder
<1>4. CASE \E e, h, f, a, s :
             /\ Inserted(e, h, f, a, s)
             /\ heap' = a /\ todo' = Layers(s) /\ phase' = "capture"
  <2>1. PICK e, h, f, a, s :
          /\ Inserted(e, h, f, a, s)
          /\ heap' = a /\ todo' = Layers(s) /\ phase' = "capture"
    BY <1>4
  <2>2. h = heap /\ e = snap.event /\ Committed(h, e, f, a) /\ AreObjects(s)
        /\ s = SaveObjectGraphToScratch(a, TheNode) /\ e \notin Distilled
    BY <1>1, <2>1 DEF Inserted, Shape
  <2>3. AreObjects(h) /\ AreObjects(a) /\ Model(h) /\ DOMAIN a = DOMAIN h \cup {e}
        /\ a[e] = f /\ \A o \in DOMAIN h \ {TheNode, e} : a[o] = h[o]
    BY <1>2, <2>2 DEF Shape, Committed
  <2>4. IF e \in DOMAIN h THEN f = h[e] ELSE f.refs = {}
    <3>1. CASE e \in DOMAIN h
      BY <2>1, <3>1 DEF Inserted
    <3>2. CASE e \notin DOMAIN h
      <4>1. <<e, "Own">> \in DOMAIN file /\ f.refs = file[<<e, "Own">>].refs
        BY <2>1, <3>2 DEF Inserted
      <4>2. file[<<e, "Own">>] \in Known(e)
        BY <4>1 DEF Known, OwnLayer
      <4> QED BY <1>2, <2>2, <3>2, <4>1, <4>2 DEF Importing
    <3> QED BY <3>1, <3>2
  <2>5. Model(a)
    BY <2>2, <2>3, <2>4, ModelAppend
  <2>6. ASSUME NEW o \in DOMAIN a, o \notin Distilled, <<o, "Own">> \in DOMAIN file,
               NEW r \in a[o].refs
        PROVE  <<r, "Own">> \in DOMAIN file
    <3>1. CASE o = e
      <4>1. e \in DOMAIN h /\ r \in h[e].refs
        BY <2>3, <2>4, <2>6, <3>1
      <4>2. Coming(<<r, "Own">>)
        BY <1>2, <2>2, <4>1 DEF Importing
      <4> QED BY <1>1, <4>2 DEF Coming
    <3>2. CASE o # e
      <4>1. o \in DOMAIN h /\ a[o] = h[o]
        BY <2>3, <2>6, <3>2 DEF Distilled
      <4> QED BY <1>2, <2>2, <2>6, <3>2, <4>1 DEF Whole, StoredWhole
    <3> QED BY <3>1, <3>2
  <2>7. Whole'
    BY <1>1, <2>1, <2>6 DEF Whole, StoredWhole
  <2>8. \A o \in DOMAIN s : /\ o \in DOMAIN a /\ s[o] = a[o]
                            /\ Edges(s[o]) \subseteq DOMAIN s
    <3>1. \A o \in DOMAIN s : /\ o \in DOMAIN a /\ s[o] = a[o]
                              /\ Edges(a[o]) \cap DOMAIN a \subseteq DOMAIN s
      BY <2>2, ClosureIsClosed DEF SaveObjectGraphToScratch
    <3> QED BY <2>3, <2>5, <3>1, ModelEdges
  <2>9. Idle'
    BY <1>1 DEF Idle
  <2>10. InTurn'
    BY <2>1, <2>2, <2>3, <2>8, <2>9, InTurnStarts
  <2> QED BY <1>1, <2>1, <2>5, <2>7, <2>10, WellInOrder DEF Well, InOrder
<1> QED BY <1>1, <1>3, <1>4


\* The next layer is stored only when all it mentions is on the disk.
LEMMA WellStoreNext ==
  ASSUME Shape, Directories, Started, Well, NEW l \in Layer, StoreNext(l)
  PROVE  Well'
<1>1. PICK b : Stores(l, b)
  BY StoreNextIs
<1>2. /\ Idle /\ l \in DOMAIN todo /\ b = todo[l]
      /\ writer'.layer = l /\ writer'.bytes = b /\ ~Idle'
      /\ DOMAIN todo' = DOMAIN todo \ {l}
      /\ \A m \in DOMAIN todo' : todo'[m] = todo[m]
      /\ UNCHANGED <<app, phase, heap, snap, file>>
  BY <1>1 DEF Stores, Idle, NoWriter
<1>3. \A k : Coming(k) => Coming(k)'
  BY <1>2 DEF Coming
<1>4. phase \in HasModel => Model(heap)' /\ Whole'
  <2> SUFFICES ASSUME phase \in HasModel PROVE Model(heap)' /\ Whole'
    OBVIOUS
  <2>1. PICK h : h = heap
    OBVIOUS
  <2>2. Model(h) /\ heap' = h
    BY <1>2, <2>1 DEF Well
  <2>3. Whole'
    BY <1>2 DEF Well, Whole, StoredWhole
  <2> QED BY <2>2, <2>3
<1>5. InTurn'
  <2> SUFFICES ASSUME phase \in InOrder PROVE InTurn'
    BY <1>2 DEF InTurn
  <2>1. PICK h, L : h = heap /\ L = Layers(h)
    OBVIOUS
  <2>2. AreObjects(h) /\ Model(h) /\ heap' = h /\ phase' \in InOrder
    BY <1>2, <2>1 DEF Shape, Well, InOrder, HasModel, Up
  <2>3. \A m \in DOMAIN todo : m \in DOMAIN L /\ todo[m] = L[m]
          /\ \A o \in Mentions(todo[m]) : \A k \in LayerIds(o) : Coming(k)
    BY <2>1 DEF Well, InTurn
  <2>4. ASSUME NEW o \in Mentions(b), NEW k \in LayerIds(o) PROVE k \in DOMAIN file
    <3>1. k \in DOMAIN file \cup DOMAIN todo
      BY <1>2, <2>3, <2>4 DEF Coming
    <3>2. k[1] = o
      BY <2>4 DEF LayerIds, BothLayers
    <3>3. k \in DOMAIN todo => o = l[1]
      BY <1>2, <2>4, <3>2 DEF StoreNext
    <3>4. o \in Edges(h[l[1]]) /\ l[1] \in DOMAIN h
      BY <1>2, <2>1, <2>2, <2>3, <2>4, MentionsIs
    <3>5. o # l[1]
      BY <2>2, <3>4, ModelEdges
    <3> QED BY <3>1, <3>3, <3>5
  <2>5. l \in DOMAIN L /\ b = L[l] /\ \A o \in Mentions(b) : LayerIds(o) \subseteq DOMAIN file
    BY <1>2, <2>3, <2>4
  <2> QED BY <1>2, <1>3, <2>1, <2>2, <2>3, <2>5 DEF InTurn
<1>6. phase = "import" => Importing'
  <2> SUFFICES ASSUME phase = "import" PROVE Importing'
    OBVIOUS
  <2>1. Importing
    BY DEF Well
  <2>2. (\A m \in DOMAIN todo' : IsPart(m, todo[m])') /\ IsPart(writer.layer, writer.bytes)'
    BY <1>2, <2>1 DEF Importing, IsPart
  <2>3. Known(snap.event)' \subseteq Known(snap.event)
    <3>1. PICK e : e = snap.event
      OBVIOUS
    <3>2. Known(e)' \subseteq Known(e)
      BY KnownStore
    <3> QED BY <1>2, <3>1, <3>2 DEF Known
  <2> QED BY <1>2, <1>3, <2>1, <2>2, <2>3 DEF Importing
<1> QED BY <1>2, <1>4, <1>5, <1>6, LoadableStays DEF Well


\* An object has the same members wherever they are.
LEMMA SameEverywhere ==
  ASSUME OneObject, app = "layers", NEW o \in Obj, o \notin Distilled, NEW b \in Known(o),
         NEW c \in Known(o)
  PROVE  b = c
BY DEF OneObject, SameObject

\* A rename leaves the members of every stored object as they are.
LEMMA RenameKeepsObjects ==
  ASSUME Shape, OneObject, app = "layers", ~Idle, NEW w, w = writer, Renames(w),
         NEW o \in Obj, o \notin Distilled, <<o, "Own">> \in DOMAIN file
  PROVE  <<o, "Own">> \in DOMAIN file' /\ file'[<<o, "Own">>] = file[<<o, "Own">>]
<1>1. file[<<o, "Own">>] \in Known(o)
  BY DEF Known, OwnLayer
<1>2. CASE w.layer = <<o, "Own">>
  <2>1. w.bytes \in Known(o)
    BY <1>2 DEF Known
  <2>2. w.bytes = file[<<o, "Own">>]
    BY <1>1, <2>1, SameEverywhere
  <2> QED BY <1>2, <2>2, RenamedIs
<1>3. CASE w.layer # <<o, "Own">>
  BY <1>3, RenamedIs
<1> QED BY <1>2, <1>3

LEMMA EventStaysStored ==
  ASSUME Shape, OneObject, app = "layers", ~Idle, NEW w, w = writer, Renames(w),
         NEW e, EventStored(e)
  PROVE  EventStored(e)'
<1>1. e \in Obj /\ e \notin Distilled /\ <<e, "Own">> \in DOMAIN file
      /\ \A p \in file[<<e, "Own">>].refs : PartStored(p)
  BY DEF EventStored
<1>2. <<e, "Own">> \in DOMAIN file' /\ file'[<<e, "Own">>] = file[<<e, "Own">>]
  BY <1>1, RenameKeepsObjects
<1>3. ASSUME NEW p, PartStored(p) PROVE PartStored(p)'
  <2>1. p \in Obj /\ p \notin Distilled /\ <<p, "Own">> \in DOMAIN file
        /\ file[<<p, "Own">>].refs = {}
    BY <1>3 DEF PartStored
  <2>2. <<p, "Own">> \in DOMAIN file' /\ file'[<<p, "Own">>] = file[<<p, "Own">>]
    BY <2>1, RenameKeepsObjects
  <2> QED BY <2>1, <2>2 DEF PartStored
<1> QED BY <1>1, <1>2, <1>3 DEF EventStored

\* An event in memory that has a file is stored with its parts.
LEMMA StoredInMemory ==
  ASSUME OneObject, app = "layers", NEW h, h = heap, AreObjects(h), Model(h),
         NEW e \in DOMAIN h, e \notin Distilled, StoredWhole(e), <<e, "Own">> \in DOMAIN file
  PROVE  EventStored(e)
<1>1. \A o \in DOMAIN h \ Distilled :
        <<o, "Own">> \in DOMAIN file => file[<<o, "Own">>].refs = h[o].refs
  <2> SUFFICES ASSUME NEW o \in DOMAIN h, o \notin Distilled, <<o, "Own">> \in DOMAIN file
               PROVE  file[<<o, "Own">>].refs = h[o].refs
    OBVIOUS
  <2>1. PICK b, c : b = file[<<o, "Own">>] /\ c = [refs |-> h[o].refs, val |-> h[o].val]
    OBVIOUS
  <2>2. b \in Known(o) /\ c \in Known(o) /\ o \in Obj
    BY <2>1 DEF Known, OwnLayer, AreObjects
  <2>3. b = c
    BY <2>2, SameEverywhere
  <2> QED BY <2>1, <2>3
<1>2. IsObject(e, h[e]) /\ e \in Obj
  BY DEF AreObjects
<1>3. ASSUME NEW r \in h[e].refs PROVE PartStored(r)
  <2>1. r \in DOMAIN h /\ h[r].refs = {}
    BY <1>3 DEF Model
  <2>2. r \in Obj /\ r \notin Distilled
    BY <1>2, <1>3, <2>1 DEF AreObjects, IsObject, FitRefs
  <2>3. <<r, "Own">> \in DOMAIN file
    BY <1>3 DEF StoredWhole
  <2> QED BY <1>1, <2>1, <2>2, <2>3 DEF PartStored
<1> QED BY <1>1, <1>2, <1>3 DEF EventStored

\* What a rename puts on the disk can be loaded.
LEMMA LoadableRename ==
  ASSUME Shape, OneObject, Well, app = "layers", phase \in InOrder \cup {"import"}, ~Idle,
         NEW w, w = writer, IsWriter(w), Renames(w)
  PROVE  Loadable'
<1>1. /\ DOMAIN file' = DOMAIN file \cup {w.layer}
      /\ file'[w.layer] = w.bytes
      /\ \A l \in DOMAIN file \ {w.layer} : file'[l] = file[l]
  BY RenamedIs
<1>2. Loadable
  BY DEF Well
<1>3. \A e : EventStored(e) => EventStored(e)'
  BY EventStaysStored
<1>4. PICK h, L : h = heap /\ L = Layers(h)
  OBVIOUS
<1>5. AreObjects(h) /\ Model(h) /\ Whole
  BY <1>4 DEF Shape, Well, InOrder, HasModel, Up
<1>6. w.layer[1] \in Distilled =>
        /\ phase # "import"
        /\ w.layer \in DOMAIN L /\ w.bytes = L[w.layer]
        /\ \A o \in Mentions(w.bytes) : LayerIds(o) \subseteq DOMAIN file
  BY <1>4 DEF Well, Importing, IsPart, InTurn
<1>7. <<App, "Own">> \in DOMAIN file' =>
        /\ file'[<<App, "Own">>].refs = {TheNode}
        /\ BothLayers(TheNode) \subseteq DOMAIN file'
  <2>1. CASE w.layer = <<App, "Own">>
    <3>1. w.layer[1] = App /\ w.layer[2] = "Own" /\ App \in Distilled
      BY <2>1 DEF Distilled
    <3>2. w.bytes.refs = h[App].refs /\ Mentions(w.bytes) = w.bytes.refs
      BY <1>4, <1>5, <1>6, <3>1, MentionsIs
    <3>3. w.bytes.refs = {TheNode}
      BY <1>5, <3>2 DEF Model
    <3>4. LayerIds(TheNode) \subseteq DOMAIN file
      BY <1>6, <3>1, <3>2, <3>3
    <3> QED BY <1>1, <2>1, <3>3, <3>4 DEF LayerIds
  <2>2. CASE w.layer # <<App, "Own">>
    BY <1>1, <1>2, <2>2 DEF Loadable
  <2> QED BY <2>1, <2>2
<1>8. <<TheNode, "Node">> \in DOMAIN file' =>
        /\ file'[<<TheNode, "Node">>].base = Base
        /\ BothLayers(Base) \subseteq DOMAIN file'
        /\ \A e \in file'[<<TheNode, "Node">>].journal : EventStored(e)'
  <2>1. CASE w.layer = <<TheNode, "Node">>
    <3>1. w.layer[1] = TheNode /\ w.layer[2] # "Own" /\ TheNode \in Distilled
      BY <2>1 DEF Distilled
    <3>2. w.bytes.base = h[TheNode].base /\ w.bytes.journal = h[TheNode].journal
          /\ Mentions(w.bytes) = w.bytes.journal \cup ({w.bytes.base} \ {NoObj})
      BY <1>4, <1>5, <1>6, <3>1, MentionsIs
    <3>3. w.bytes.base = Base /\ h[TheNode].journal \subseteq DOMAIN h
      BY <1>5, <3>2 DEF Model
    <3>4. Base # NoObj /\ Base \in Mentions(w.bytes)
      BY <3>2, <3>3, DistilledIds
    <3>5. BothLayers(Base) \subseteq DOMAIN file
      BY <1>6, <3>1, <3>4 DEF LayerIds
    <3>6. ASSUME NEW e \in w.bytes.journal PROVE EventStored(e)'
      <4>1. IsObject(TheNode, h[TheNode])
        BY <1>5 DEF Model, AreObjects, Distilled
      <4>2. e \in DOMAIN h /\ e \notin Distilled
        BY <3>2, <3>3, <3>6, <4>1 DEF IsObject, FitHistory
      <4>3. <<e, "Own">> \in LayerIds(e)
        BY DEF LayerIds, BothLayers
      <4>4. <<e, "Own">> \in DOMAIN file
        BY <1>6, <3>1, <3>2, <3>6, <4>3
      <4>5. StoredWhole(e)
        BY <1>4, <1>5, <1>6, <3>1, <4>2 DEF Whole
      <4>6. EventStored(e)
        BY <1>4, <1>5, <4>2, <4>4, <4>5, StoredInMemory
      <4> QED BY <1>3, <4>6
    <3> QED BY <1>1, <2>1, <3>3, <3>5, <3>6
  <2>2. CASE w.layer # <<TheNode, "Node">>
    <3> SUFFICES ASSUME <<TheNode, "Node">> \in DOMAIN file'
                 PROVE  /\ file'[<<TheNode, "Node">>].base = Base
                        /\ BothLayers(Base) \subseteq DOMAIN file'
                        /\ \A e \in file'[<<TheNode, "Node">>].journal : EventStored(e)'
      OBVIOUS
    <3>1. <<TheNode, "Node">> \in DOMAIN file
          /\ file'[<<TheNode, "Node">>] = file[<<TheNode, "Node">>]
      BY <1>1, <2>2
    <3>2. \A e \in file[<<TheNode, "Node">>].journal : EventStored(e)
      BY <1>2, <3>1 DEF Loadable
    <3>3. file[<<TheNode, "Node">>].base = Base /\ BothLayers(Base) \subseteq DOMAIN file
      BY <1>2, <3>1 DEF Loadable
    <3>4. \A e \in file'[<<TheNode, "Node">>].journal : EventStored(e)'
      BY <1>3, <3>1, <3>2
    <3> QED BY <1>1, <3>1, <3>3, <3>4
  <2> QED BY <2>1, <2>2
<1> QED BY <1>7, <1>8 DEF Loadable, EventStored, PartStored


LEMMA WholeRename ==
  ASSUME Shape, OneObject, Well, app = "layers", phase \in InOrder \cup {"import"}, ~Idle,
         NEW w, w = writer, IsWriter(w), Renames(w), UNCHANGED <<phase, heap, snap>>
  PROVE  Whole'
<1>1. DOMAIN file' = DOMAIN file \cup {w.layer}
  BY RenamedIs
<1>2. PICK h, L : h = heap /\ L = Layers(h)
  OBVIOUS
<1>3. AreObjects(h) /\ Model(h) /\ Whole
  BY <1>2 DEF Shape, Well, InOrder, HasModel, Up
<1> SUFFICES ASSUME NEW o \in DOMAIN h, o \notin Distilled, <<o, "Own">> \in DOMAIN file',
                    ~(phase = "import" /\ o = snap.event), NEW r \in h[o].refs
             PROVE  <<r, "Own">> \in DOMAIN file'
  BY <1>2 DEF Whole, StoredWhole
<1>4. CASE <<o, "Own">> \in DOMAIN file
  BY <1>1, <1>2, <1>3, <1>4 DEF Whole, StoredWhole
<1>5. CASE w.layer = <<o, "Own">> /\ phase \in InOrder
  <2>1. w.layer[1] = o /\ w.layer[2] = "Own"
    BY <1>5
  <2>2. w.layer \in DOMAIN L /\ w.bytes = L[w.layer]
        /\ \A m \in Mentions(w.bytes) : LayerIds(m) \subseteq DOMAIN file
    BY <1>2, <1>5 DEF Well, InTurn
  <2>3. Mentions(w.bytes) = h[o].refs
    BY <1>2, <1>3, <2>1, <2>2, MentionsIs
  <2>4. <<r, "Own">> \in LayerIds(r)
    BY DEF LayerIds, BothLayers
  <2> QED BY <1>1, <2>2, <2>3, <2>4
<1>6. CASE w.layer = <<o, "Own">> /\ phase = "import"
  <2>1. w.layer[1] = o /\ o # snap.event
    BY <1>6
  <2>2. w.bytes.refs = {}
    BY <1>6, <2>1 DEF Well, Importing, IsPart
  <2>3. PICK b, c : b = w.bytes /\ c = [refs |-> h[o].refs, val |-> h[o].val]
    OBVIOUS
  <2>4. b \in Known(o) /\ c \in Known(o) /\ o \in Obj
    BY <1>2, <1>3, <1>6, <2>3 DEF Known, AreObjects
  <2>5. b = c
    BY <2>4, SameEverywhere
  <2> QED BY <2>2, <2>3, <2>5
<1> QED BY <1>1, <1>4, <1>5, <1>6

LEMMA WellStoreStep ==
  ASSUME Shape, Directories, Started, OneObject, Well, app = "layers",
         faults = 0, faults' = 0, StoreStep
  PROVE  Well'
<1>1. PICK w : w = writer
  OBVIOUS
<1>2. /\ UNCHANGED <<app, phase, heap, snap, todo, sidecar>> /\ ~Idle /\ IsWriter(w)
      /\ Fails(w) \/ (Calm /\ (Skips(w) \/ Moves(w) \/ Renames(w)))
  BY <1>1, StoreStepIs DEF memory
<1>3. Skips(w) \/ Moves(w) \/ Renames(w)
  BY <1>2 DEF Fails
<1>4. phase \in InOrder \cup {"import"}
  BY <1>2 DEF Started, InOrder, Loading, Up
<1>5. PICK h : h = heap
  OBVIOUS
<1>6. Model(h) /\ heap' = h /\ Whole
  BY <1>2, <1>4, <1>5 DEF Well, InOrder, HasModel, Up
<1>7. Idle' \/ (writer'.layer = w.layer /\ writer'.bytes = w.bytes)
  BY <1>3 DEF Skips, Moves, Renames, Idle
<1>8. DOMAIN file \subseteq DOMAIN file' /\ (Idle' => w.layer \in DOMAIN file')
  BY <1>3, RenamedIs DEF Skips, Moves, Renames, Idle, NoWriter
<1>9. \A k : Coming(k) => Coming(k)'
  <2>1. ~Moves(w) => Idle'
    BY <1>3 DEF Skips, Renames, Idle
  <2>2. Moves(w) => ~Idle'
    BY DEF Moves, Idle, NoWriter
  <2> QED BY <1>1, <1>2, <1>7, <1>8, <2>1, <2>2 DEF Coming
<1>10. Loadable' /\ Whole'
  <2>1. CASE UNCHANGED file
    <3>1. Whole'
      BY <1>2, <1>6, <2>1 DEF Whole, StoredWhole
    <3> QED BY <2>1, <3>1, LoadableStays DEF Well
  <2>2. CASE Renames(w)
    BY <1>1, <1>2, <1>4, <2>2, LoadableRename, WholeRename
  <2> QED BY <1>3, <2>1, <2>2 DEF Skips, Moves
<1>11. InTurn'
  <2> SUFFICES ASSUME phase \in InOrder PROVE InTurn'
    BY <1>2 DEF InTurn
  <2>1. PICK L : L = Layers(h)
    OBVIOUS
  <2>2. /\ \A m \in DOMAIN todo : m \in DOMAIN L /\ todo[m] = L[m]
             /\ \A o \in Mentions(todo[m]) : \A k \in LayerIds(o) : Coming(k)
        /\ w.layer \in DOMAIN L /\ w.bytes = L[w.layer]
        /\ \A o \in Mentions(w.bytes) : LayerIds(o) \subseteq DOMAIN file
    BY <1>1, <1>2, <1>5, <2>1 DEF Well, InTurn
  <2> QED BY <1>2, <1>6, <1>7, <1>8, <1>9, <2>1, <2>2 DEF InTurn
<1>12. phase = "import" => Importing'
  <2> SUFFICES ASSUME phase = "import" PROVE Importing'
    OBVIOUS
  <2>1. Importing
    BY DEF Well
  <2>2. (\A m \in DOMAIN todo' : IsPart(m, todo[m])')
        /\ (Idle' \/ IsPart(writer.layer, writer.bytes)')
    BY <1>1, <1>2, <1>7, <2>1 DEF Importing, IsPart
  <2>3. Known(snap.event)' \subseteq Known(snap.event)
    <3>1. PICK e : e = snap.event
      OBVIOUS
    <3>2. Known(e)' \subseteq Known(e)
      BY KnownStore
    <3> QED BY <1>2, <3>1, <3>2 DEF Known
  <2> QED BY <1>2, <1>9, <2>1, <2>2, <2>3 DEF Importing
<1> QED BY <1>2, <1>6, <1>10, <1>11, <1>12 DEF Well

LEMMA SoundInit == Init => Sound
<1> SUFFICES ASSUME Init PROVE Well
  BY DEF Sound
<1>1. DOMAIN file = {} /\ phase = "down"
  BY DEF Init, InitStore
<1> QED BY <1>1 DEF Well, Loadable, HasModel, Up, InTurn, InOrder

\* Failed commits are counted for ever.
LEMMA FaultsGrow ==
  ASSUME Shape, Directories, [Next]_vars
  PROVE  app' = app /\ (faults' = 0 => faults = 0)
<1>1. CASE StoreStep
  <2>1. PICK w : w = writer
    OBVIOUS
  <2>2. app' = app /\ (Fails(w) \/ Calm)
    BY <1>1, <2>1, StoreStepIs
  <2> QED BY <2>2 DEF Fails, Calm, Shape
<1>2. CASE ~StoreStep
  BY <1>2 DEF Next, vars, storeVars, Bootstrap, LoadApplication, ReadSidecar, Hydrate,
     Commit, ImportStandaloneEventGraph, ImportClosedEventGraph, CompactJournal,
     InsertImported, Save, SaveSnapshot, WriteSidecar, EndSave, StoreNext, Store,
     Stop, Reopen, BeginSaveSession
<1> QED BY <1>1, <1>2

LEMMA SoundNext == Basic /\ OneObject /\ Sound /\ [Next]_vars => Sound'
<1> SUFFICES ASSUME Basic, OneObject, Sound, [Next]_vars, app' = "layers", faults' = 0
             PROVE  Well'
  BY DEF Sound
<1>1. Shape /\ Started /\ Directories
  BY DEF Basic
<1>2. app = "layers" /\ faults = 0 /\ Well
  BY <1>1, FaultsGrow DEF Sound
<1>3. phase \notin Loading /\ sidecar.state = "absent"
  BY <1>1, <1>2 DEF Started
<1>4. CASE UNCHANGED vars
  <2>1. UNCHANGED <<phase, heap, todo, snap, sidecar, file, writer>>
    BY <1>4 DEF vars, memory, storeVars
  <2>2. Loadable'
    BY <1>2, <2>1, LoadableStays DEF Well
  <2>3. phase \in HasModel => Model(heap)' /\ Whole'
    <3>1. PICK h : h = heap
      OBVIOUS
    <3>2. phase \in HasModel => Model(h)
      BY <1>2, <3>1 DEF Well
    <3>3. heap' = h
      BY <2>1, <3>1
    <3>4. phase \in HasModel => Whole'
      BY <1>2, <2>1 DEF Well, Whole, StoredWhole
    <3> QED BY <3>2, <3>3, <3>4
  <2>4. \A k : Coming(k) => Coming(k)'
    BY <2>1 DEF Coming, Idle
  <2>5. InTurn'
    BY <1>2, <2>1, <2>4 DEF Well, InTurn, Idle
  <2>6. phase = "import" => Importing'
    <3>1. Known(snap.event)' = Known(snap.event)
      BY <2>1 DEF Known, OwnLayer, Idle
    <3> QED BY <1>2, <2>1, <2>4, <3>1 DEF Well, Importing, IsPart, Idle
  <2> QED BY <2>1, <2>2, <2>3, <2>5, <2>6 DEF Well
<1>5. CASE \E o \in Obj : Commit(o)
  BY <1>1, <1>2, <1>5, WellCommit
<1>6. CASE \E p \in Payload, o \in Obj : ImportStandaloneEventGraph(o, p)
  BY <1>1, <1>2, <1>6, WellImportStandalone
<1>7. CASE \E p \in Payload, o \in Obj, q \in Obj : ImportClosedEventGraph(o, q, p)
  BY <1>1, <1>2, <1>7, WellImportClosed
<1>8. CASE ReadSidecar \/ Hydrate \/ SaveSnapshot \/ WriteSidecar
  BY <1>2, <1>3, <1>8 DEF ReadSidecar, Hydrate, SaveSnapshot, AskSave, WriteSidecar, Loading
<1>9. CASE \E l \in Layer : StoreNext(l)
  BY <1>1, <1>2, <1>9, WellStoreNext
<1>10. CASE StoreStep
  BY <1>1, <1>2, <1>10, WellStoreStep
<1> QED BY <1>1, <1>2, <1>4, <1>5, <1>6, <1>7, <1>8, <1>9, <1>10, WellBootstrap,
          WellLoadApplication, WellCompactJournal, WellInsertImported, WellSave,
          WellEndSave, WellStop DEF Next

\* Whatever is on the disk when a process stops can be loaded, as long as no
\* commit failed: the layers of a save are written leaves first
\* (object_serialization.cpp, the walk of a save), and an import is stored
\* before a journal names it.
THEOREM CheckpointNothingDangles == Spec => []NothingDangles
<1>1. Init => OneObject /\ Sound
  BY OneObjectInit, SoundInit
<1>2. Basic /\ OneObject /\ Sound /\ [Next]_vars => (OneObject /\ Sound)'
  BY OneObjectNext, SoundNext DEF Basic
<1>3. Basic /\ Sound => NothingDangles
  BY SoundDangles DEF Basic
<1> QED BY <1>1, <1>2, <1>3, BasicAlways, PTL DEF Spec

-----------------------------------------------------------------------------
(* A snapshot is a copy of the model.                                        *)

\* Edges and objects may be added: what was reached is reached.
LEMMA ReachMore ==
  ASSUME NEW h, NEW a, NEW R, NEW Q, DOMAIN h \subseteq DOMAIN a,
         \A o \in DOMAIN h : Edges(h[o]) \subseteq Edges(a[o]),
         R \cap DOMAIN h \subseteq Closure(a, Q)
  PROVE  Closure(h, R) \subseteq Closure(a, Q)
<1>1. PICK S : S = Closure(a, Q) \cap DOMAIN h
  OBVIOUS
<1>2. S \subseteq DOMAIN h /\ R \cap DOMAIN h \subseteq S
  BY <1>1
<1>3. \A o \in S : Edges(h[o]) \cap DOMAIN h \subseteq S
  BY <1>1, ClosureIsClosed
<1>4. Closure(h, R) \subseteq S
  BY <1>2, <1>3, ClosureIsLeast
<1> QED BY <1>1, <1>4

\* A root leads to everything in the part of the heap that it leads to.
LEMMA SavedIsReached ==
  ASSUME NEW h, NEW o, NEW s, s = SaveObjectGraphToScratch(h, o)
  PROVE  /\ DOMAIN s \subseteq Closure(s, {o})
         /\ DOMAIN s \subseteq DOMAIN h
         /\ \A p \in DOMAIN s : s[p] = h[p]
<1>1. DOMAIN s = Closure(h, {o}) /\ \A p \in DOMAIN s : s[p] = h[p]
  BY DEF SaveObjectGraphToScratch
<1>2. DOMAIN s \subseteq DOMAIN h
  BY <1>1, ClosureIsClosed
<1>3. PICK S : S = Closure(s, {o})
  OBVIOUS
<1>4. S \subseteq DOMAIN h /\ S \subseteq DOMAIN s
  BY <1>2, <1>3, ClosureIsClosed
<1>5. {o} \cap DOMAIN h \subseteq S
  <2>1. {o} \cap DOMAIN h \subseteq DOMAIN s
    BY <1>1, ClosureIsClosed
  <2> QED BY <2>1, <1>3, ClosureIsClosed
<1>6. ASSUME NEW p \in S PROVE Edges(h[p]) \cap DOMAIN h \subseteq S
  <2>1. p \in DOMAIN s /\ s[p] = h[p]
    BY <1>1, <1>4
  <2>2. Edges(h[p]) \cap DOMAIN h \subseteq DOMAIN s
    BY <1>1, <2>1, ClosureIsClosed
  <2>3. Edges(s[p]) \cap DOMAIN s \subseteq S
    BY <1>3, ClosureIsClosed
  <2> QED BY <2>1, <2>2, <2>3
<1>7. Closure(h, {o}) \subseteq S
  BY <1>4, <1>5, <1>6, ClosureIsLeast
<1> QED BY <1>1, <1>2, <1>3, <1>7

\* The application, and an event that is being imported, lead to everything.
Roots == {App} \cup (IF phase = "import" THEN {snap.event} ELSE {})

\* A node has its generation for as long as it is in memory.
HasGenerations(objects, gens) ==
  gens = [o \in DOMAIN objects \cap {TheNode, Base} |-> gens[o]]

Lean ==
  phase \in Up => DOMAIN heap \subseteq Closure(heap, Roots) /\ HasGenerations(heap, gen)

\* A commit appends an event to the journal of a node the application leads to.
LEMMA CommittedReached ==
  ASSUME NEW h, NEW e, NEW f, NEW a, NEW R, Committed(h, e, f, a),
         {App, TheNode} \subseteq DOMAIN h, h[App].refs = {TheNode}, e \notin Distilled,
         e \in DOMAIN h => f = h[e],
         R \subseteq {App, e}, DOMAIN h \subseteq Closure(h, R)
  PROVE  DOMAIN a \subseteq Closure(a, {App})
<1>1. /\ DOMAIN a = DOMAIN h \cup {e} /\ a[e] = f
      /\ a[TheNode].refs = h[TheNode].refs /\ a[TheNode].base = h[TheNode].base
      /\ a[TheNode].journal = h[TheNode].journal \cup {e}
      /\ \A p \in DOMAIN h \ {TheNode, e} : a[p] = h[p]
  BY DEF Committed
<1>2. App \in DOMAIN a /\ TheNode \in DOMAIN a /\ a[App].refs = {TheNode}
  BY <1>1, DistilledIds DEF Distilled
<1>3. PICK S : S = Closure(a, {App})
  OBVIOUS
<1>4. App \in S
  BY <1>2, <1>3, ClosureIsClosed
<1>5. TheNode \in S
  BY <1>2, <1>3, <1>4, ClosureIsClosed DEF Edges
<1>6. e \in S
  <2>1. e \in Edges(a[TheNode]) \cap DOMAIN a
    BY <1>1 DEF Edges
  <2> QED BY <1>3, <1>5, <2>1, ClosureIsClosed
<1>7. ASSUME NEW o \in DOMAIN h PROVE Edges(h[o]) \subseteq Edges(a[o])
  <2>1. CASE o = TheNode
    BY <1>1, <2>1 DEF Edges, BaseOf
  <2>2. CASE o # TheNode
    BY <1>1, <2>2
  <2> QED BY <2>1, <2>2
<1>8. Closure(h, R) \subseteq S
  BY <1>1, <1>3, <1>4, <1>6, <1>7, ReachMore
<1> QED BY <1>1, <1>3, <1>6, <1>8

LEMMA NodesAre ==
  ASSUME NEW h, AreObjects(h)
  PROVE  Nodes(h) = DOMAIN h \cap {TheNode, Base}
BY DEF Nodes, AreObjects, IsObject, IsVal

LEMMA LeanLoads ==
  ASSUME Shape, LoadApplication \/ Hydrate
  PROVE  Lean'
<1> SUFFICES ASSUME phase' \in Up PROVE Lean'
  BY DEF Lean
<1>1. phase' = "run" /\ Roots' = {App}
  BY DEF LoadApplication, Hydrate, Up, Roots
<1>2. PICK h, k : heap' = k /\ k = Kept(h) /\ AreObjects(h)
                  /\ \E g : gen' = [o \in Nodes(k) |-> g[o]]
  <2>1. CASE LoadApplication
    <3>1. PICK h, k : h = OnDisk /\ k = Kept(h)
      OBVIOUS
    <3>2. heap' = k
      BY <1>1, <2>1, <3>1 DEF LoadApplication
    <3>3. gen' = [o \in Nodes(k) |-> 1]
      BY <1>1, <2>1, <3>2 DEF LoadApplication
    <3>4. PICK g : g = [o \in Nodes(k) |-> 1]
      OBVIOUS
    <3>5. gen' = [o \in Nodes(k) |-> g[o]]
      BY <3>3, <3>4
    <3>6. AreObjects(h)
      BY <3>1, OnDiskIs DEF Shape
    <3> QED BY <3>1, <3>2, <3>5, <3>6
  <2>2. CASE Hydrate
    <3>1. PICK ids : ids = {l[1] : l \in DOMAIN snap.layers}
      OBVIOUS
    <3>2. PICK h : h = [o \in ids |-> OnDisk[o]]
      OBVIOUS
    <3>3. PICK r : r = RestorePersistedNodeBaseBindings(h)
      OBVIOUS
    <3>4. PICK s, k, g : /\ s = SanitizeLoadedPersistentObjPtrs(r) /\ k = Kept(s)
                         /\ g = snap.gens
      OBVIOUS
    <3>5. \A o \in ids : Complete(o)
      BY <1>1, <2>2, <3>1 DEF Hydrate
    <3>6. heap' = k
      BY <1>1, <2>2, <3>1, <3>2, <3>3, <3>4 DEF Hydrate
    <3>7. gen' = [o \in Nodes(k) |-> g[o]]
      BY <1>1, <2>2, <3>4, <3>6 DEF Hydrate
    <3>8. AreObjects(s)
      BY <2>2, <3>1, <3>2, <3>3, <3>4, <3>5, HydratedIs DEF Hydrate
    <3> QED BY <3>4, <3>6, <3>7, <3>8
  <2> QED BY <2>1, <2>2
<1>3. PICK g : gen' = [o \in Nodes(k) |-> g[o]]
  BY <1>2
<1>4. AreObjects(k)
  BY <1>2, KeptAreObjects
<1>5. Nodes(k) = DOMAIN k \cap {TheNode, Base}
  BY <1>4, NodesAre
<1>6. DOMAIN k \subseteq Closure(k, {App})
  BY <1>2, SavedIsReached DEF Kept
<1>7. HasGenerations(k, gen')
  BY <1>3, <1>5 DEF HasGenerations
<1> QED BY <1>1, <1>2, <1>6, <1>7 DEF Lean

LEMMA LeanCommit == ASSUME Shape, Lean, NEW e, Commit(e) PROVE Lean'
<1>1. Distilled \subseteq DOMAIN heap /\ phase = "run" /\ AreObjects(heap)
  BY EditHas DEF Commit, Shape
<1>2. e \in Obj \ DOMAIN heap
  BY DEF Commit, NewId
<1>3. PICK h, f, a : h = heap /\ f = Object("event", count.born, 0)
                     /\ a = Appended(Join(h, e, f), e)
  OBVIOUS
<1>4. IsObject(e, f) /\ e \in Obj /\ e \notin Distilled /\ e \notin DOMAIN h
  BY <1>1, <1>2, <1>3, NewObject
<1>5. TheNode \in DOMAIN h /\ AreObjects(h) /\ {App, TheNode} \subseteq DOMAIN h
  BY <1>1, <1>3 DEF Distilled
<1>6. Committed(h, e, f, a)
  BY <1>3, <1>4, <1>5, CommittedIs
<1>7. heap' = a /\ gen' = [gen EXCEPT ![TheNode] = @ + 1] /\ phase' = "run"
  BY <1>1, <1>3 DEF Commit
<1>8. h[App].refs = {TheNode}
  BY <1>3, <1>5 DEF Shape, HasNode
<1>9. DOMAIN h \subseteq Closure(h, {App}) /\ HasGenerations(h, gen)
  BY <1>1, <1>3 DEF Lean, Up, Roots
<1>10. PICK R : R = {App} /\ R \subseteq {App, e} /\ DOMAIN h \subseteq Closure(h, R)
  BY <1>9
<1>11. DOMAIN a \subseteq Closure(a, {App})
  BY <1>4, <1>5, <1>6, <1>8, <1>9, <1>10, CommittedReached
<1>12. DOMAIN a \cap {TheNode, Base} = DOMAIN h \cap {TheNode, Base}
  BY <1>4, <1>6 DEF Committed, Distilled
<1>13. HasGenerations(a, gen')
  BY <1>7, <1>9, <1>12 DEF HasGenerations
<1>14. Roots' = {App}
  BY <1>7 DEF Roots
<1> QED BY <1>7, <1>11, <1>13, <1>14 DEF Lean

LEMMA LeanCompactJournal == Shape /\ Lean /\ CompactJournal => Lean'
<1> SUFFICES ASSUME Shape, Lean, CompactJournal PROVE Lean'
  OBVIOUS
<1>1. PICK h, c, k, b :
           /\ h = heap /\ AreObjects(h) /\ Distilled \subseteq DOMAIN h
           /\ h[TheNode].base = Base
           /\ c = CompactedTo(h, h[TheNode].val.n)
           /\ k = Kept(c) /\ AreObjects(k) /\ Distilled \subseteq DOMAIN k
           /\ b = [o \in {Base} |-> k[o]] /\ AreObjects(b)
           /\ heap' = k /\ todo' = Layers(b) /\ phase' = "capture" /\ phase = "run"
           /\ UNCHANGED <<app, snap, sidecar, storeVars>>
  BY CompactJournalIs
<1>2. UNCHANGED gen /\ HasGenerations(h, gen)
  BY <1>1 DEF CompactJournal, Lean, Up
<1>3. DOMAIN k \subseteq Closure(k, {App})
  BY <1>1, SavedIsReached DEF Kept
<1>4. HasGenerations(k, gen)
  BY <1>1, <1>2 DEF HasGenerations, Distilled
<1>5. Roots' = {App}
  BY <1>1 DEF Roots
<1> QED BY <1>1, <1>2, <1>3, <1>4, <1>5 DEF Lean

LEMMA LeanImportStandalone ==
  ASSUME Shape, Lean, NEW x, NEW p, ImportStandaloneEventGraph(x, p)
  PROVE  Lean'
<1>1. /\ phase = "run" /\ phase' = "import" /\ UNCHANGED <<heap, gen>>
  BY DEF ImportStandaloneEventGraph, Edit, Ready
<1>2. PICK h : h = heap
  OBVIOUS
<1>3. DOMAIN h \subseteq Closure(h, {App}) /\ HasGenerations(h, gen)
  BY <1>1, <1>2 DEF Lean, Up, Roots
<1>4. PICK R : R = Roots'
  OBVIOUS
<1>5. {App} \cap DOMAIN h \subseteq Closure(h, R)
  <2>1. {App} \subseteq R
    BY <1>4 DEF Roots
  <2> QED BY <2>1, ClosureIsClosed
<1>6. Closure(h, {App}) \subseteq Closure(h, R)
  BY <1>5, ReachMore
<1> QED BY <1>1, <1>2, <1>3, <1>4, <1>6 DEF Lean

LEMMA LeanImportClosed ==
  ASSUME Shape, Lean, NEW x, NEW y, NEW p, ImportClosedEventGraph(x, y, p)
  PROVE  Lean'
<1>1. PICK h, new, held :
           /\ h = heap /\ IsFree(x) /\ IsFree(y) /\ Imported(x, y, count.born, new, held)
           /\ heap' = Merged(h, held) /\ todo' = Layers(new)
           /\ snap' = [state |-> "absent", event |-> x]
           /\ phase = "run" /\ phase' = "import"
           /\ UNCHANGED <<app, sidecar, storeVars>>
  BY ImportClosedIs
<1>2. PICK m, R : m = Merged(h, held) /\ R = {App, x}
  OBVIOUS
<1>3. DOMAIN h \subseteq Closure(h, {App}) /\ HasGenerations(h, gen)
  BY <1>1 DEF Lean, Up, Roots
<1>4. /\ DOMAIN m = DOMAIN h \cup DOMAIN held
      /\ \A o \in DOMAIN h : m[o] = h[o]
      /\ \A o \in DOMAIN held \ DOMAIN h : m[o] = held[o]
  BY <1>2 DEF Merged
<1>5. /\ DOMAIN held \subseteq {x, y} /\ held = SaveObjectGraphToScratch(new, x)
      /\ x \notin DOMAIN h /\ y \notin DOMAIN h
      /\ x \notin Distilled /\ y \notin Distilled
  BY <1>1 DEF Imported, IsFree
<1>6. DOMAIN held \subseteq Closure(held, {x})
  BY <1>5, SavedIsReached
<1>7. R \cap DOMAIN m \subseteq Closure(m, R)
  BY ClosureIsClosed
<1>8. Closure(h, {App}) \subseteq Closure(m, R)
  <2>1. {App} \cap DOMAIN h \subseteq Closure(m, R)
    BY <1>2, <1>4, <1>7
  <2> QED BY <1>4, <2>1, ReachMore
<1>9. Closure(held, {x}) \subseteq Closure(m, R)
  <2>1. {x} \cap DOMAIN held \subseteq Closure(m, R)
    BY <1>2, <1>4, <1>7
  <2>2. \A o \in DOMAIN held : m[o] = held[o]
    BY <1>4, <1>5
  <2> QED BY <1>4, <2>1, <2>2, ReachMore
<1>10. DOMAIN m \subseteq Closure(m, R)
  BY <1>3, <1>4, <1>6, <1>8, <1>9
<1>11. DOMAIN m \cap {TheNode, Base} = DOMAIN h \cap {TheNode, Base}
  BY <1>4, <1>5 DEF Distilled
<1>12. UNCHANGED gen /\ HasGenerations(m, gen)
  BY <1>3, <1>11 DEF HasGenerations, ImportClosedEventGraph
<1>13. Roots' = R /\ heap' = m
  BY <1>1, <1>2 DEF Roots
<1> QED BY <1>10, <1>12, <1>13 DEF Lean

LEMMA LeanInsertImported == Shape /\ Lean /\ InsertImported => Lean'
<1> SUFFICES ASSUME Shape, Lean, InsertImported PROVE Lean'
  OBVIOUS
<1>1. phase = "import" /\ AreObjects(heap) /\ HasNode(heap) /\ TheNode \in DOMAIN heap
      /\ snap.event \in Obj \ Distilled
  BY DEF InsertImported, Shape
<1>2. PICK h, e, R : h = heap /\ e = snap.event /\ R = {App, e}
  OBVIOUS
<1>3. DOMAIN h \subseteq Closure(h, R) /\ HasGenerations(h, gen)
  <2>1. Roots = R
    BY <1>1, <1>2 DEF Roots
  <2> QED BY <1>1, <1>2, <2>1 DEF Lean, Up
<1>4. CASE phase' = "run" /\ UNCHANGED <<heap, todo>> /\ snap.event \notin DOMAIN heap
  <2>1. R \cap DOMAIN h \subseteq Closure(h, {App})
    BY <1>2, <1>4, ClosureIsClosed
  <2>2. DOMAIN h \subseteq Closure(h, {App})
    BY <1>3, <2>1, ReachMore
  <2>3. UNCHANGED gen
    BY <1>4 DEF InsertImported
  <2>4. Roots' = {App}
    BY <1>4 DEF Roots
  <2> QED BY <1>2, <1>3, <1>4, <2>2, <2>3, <2>4 DEF Lean
<1>5. CASE \E i, d, f, a, s :
             /\ Inserted(i, d, f, a, s)
             /\ heap' = a /\ todo' = Layers(s) /\ phase' = "capture"
  <2>1. PICK f, a, s : /\ Inserted(e, h, f, a, s)
                       /\ heap' = a /\ phase' = "capture"
    BY <1>2, <1>5 DEF Inserted
  <2>2. Committed(h, e, f, a) /\ (e \in DOMAIN h => f = h[e])
    BY <2>1 DEF Inserted
  <2>3. h[App].refs = {TheNode} /\ App \in DOMAIN h
    BY <1>1, <1>2 DEF HasNode
  <2>4. DOMAIN a \subseteq Closure(a, {App})
    BY <1>1, <1>2, <1>3, <2>2, <2>3, CommittedReached
  <2>5. DOMAIN a \cap {TheNode, Base} = DOMAIN h \cap {TheNode, Base}
    BY <1>1, <1>2, <2>2 DEF Committed, Distilled
  <2>6. gen' = [gen EXCEPT ![TheNode] = @ + 1] \/ UNCHANGED gen
    BY DEF InsertImported
  <2>7. HasGenerations(a, gen')
    BY <1>3, <2>5, <2>6 DEF HasGenerations
  <2>8. Roots' = {App}
    BY <2>1 DEF Roots
  <2> QED BY <2>1, <2>4, <2>7, <2>8 DEF Lean
<1> QED BY <1>4, <1>5, InsertImportedIs

LEMMA LeanInit == Init => Lean
BY DEF Init, Lean, Up

LEMMA LeanNext == Basic /\ Lean /\ [Next]_vars => Lean'
<1> SUFFICES ASSUME Basic, Lean, [Next]_vars PROVE Lean'
  OBVIOUS
<1>1. Shape
  BY DEF Basic
\* A step that leaves the objects alone and ends no import.
<1>2. ASSUME phase' \in Up => /\ phase \in Up /\ UNCHANGED <<heap, gen>>
                              /\ UNCHANGED <<phase, snap>> \/ "import" \notin {phase, phase'}
      PROVE  Lean'
  <2> SUFFICES ASSUME phase' \in Up PROVE Lean'
    BY DEF Lean
  <2>1. Roots' = Roots
    BY <1>2 DEF Roots
  <2>2. PICK h, g, R : h = heap /\ g = gen /\ R = Roots
    OBVIOUS
  <2>3. DOMAIN h \subseteq Closure(h, R) /\ HasGenerations(h, g)
    BY <1>2, <2>2 DEF Lean
  <2>4. heap' = h /\ gen' = g /\ Roots' = R
    BY <1>2, <2>1, <2>2
  <2> QED BY <2>3, <2>4 DEF Lean
<1>3. CASE UNCHANGED vars \/ StoreStep \/ \E l \in Layer : StoreNext(l)
  <2>1. UNCHANGED <<phase, heap, gen, snap>>
    BY <1>3 DEF vars, memory, StoreStep, StoreNext
  <2> QED BY <1>2, <2>1
<1>4. CASE Bootstrap \/ ReadSidecar \/ Stop
  <2>1. phase' \notin Up
    BY <1>4 DEF Bootstrap, ReadSidecar, Stop, Up
  <2> QED BY <1>2, <2>1
<1>5. CASE Save \/ SaveSnapshot \/ WriteSidecar \/ EndSave
  <2>1. UNCHANGED <<heap, gen>> /\ phase \in Up /\ "import" \notin {phase, phase'}
    BY <1>5 DEF Save, SaveSnapshot, AskSave, Ready, WriteSidecar,
                InjectPersistentModelSnapshotToStorage, EndSave, memory, Up
  <2> QED BY <1>2, <2>1
<1>6. CASE \E o \in Obj : Commit(o)
  BY <1>1, <1>6, LeanCommit
<1>7. CASE \E p \in Payload, o \in Obj : ImportStandaloneEventGraph(o, p)
  BY <1>1, <1>7, LeanImportStandalone
<1>8. CASE \E p \in Payload, o \in Obj, q \in Obj : ImportClosedEventGraph(o, q, p)
  BY <1>1, <1>8, LeanImportClosed
<1> QED BY <1>1, <1>3, <1>4, <1>5, <1>6, <1>7, <1>8, LeanLoads, LeanCompactJournal,
          LeanInsertImported DEF Next

\* A snapshot holds a model: all of it is there, with the bases that were
\* taken off while it was written.
Holds(s, m, g) ==
  /\ AreObjects(m) /\ DOMAIN m \subseteq Closure(m, {App})
  /\ \A l \in DOMAIN s.layers : l[1] \in DOMAIN m
  /\ \A o \in DOMAIN m :
       /\ <<o, "Own">> \in DOMAIN s.layers
       /\ s.layers[<<o, "Own">>] = [refs |-> m[o].refs, val |-> m[o].val]
  /\ \A o \in DOMAIN m \cap {TheNode, Base} :
       /\ <<o, "Node">> \in DOMAIN s.layers
       /\ s.layers[<<o, "Node">>] =
            [tag |-> m[o].val.tag, base |-> NoObj, journal |-> m[o].journal]
  /\ DOMAIN s.bindings = {o \in DOMAIN m : m[o].base # NoObj}
  /\ \A o \in DOMAIN s.bindings : s.bindings[o] = m[o].base
  /\ g = [o \in DOMAIN m \cap {TheNode, Base} |-> s.gens[o]]

\* It holds the model it was taken of.
IsCopy(s) == \E m, g : s.model = [heap |-> m, gen |-> g] /\ Holds(s, m, g)

Copies ==
  /\ phase \in Loading => IsCopy(snap)
  /\ sidecar.state = "whole" => IsCopy(sidecar)

\* SerializePersistentModelSnapshot leaves nothing out.
LEMMA SnapshotIsCopy ==
  ASSUME Shape, Lean, phase = "run", NEW s, s = SerializePersistentModelSnapshot
  PROVE  IsCopy(s)
<1>1. PICK h, nodes, c, scratch : Snapped(h, nodes, c, scratch, s)
  BY SnapshotIs DEF Shape
<1>2. PICK bases : bases = Range(s.bindings)
  OBVIOUS
<1>3. /\ h = heap /\ AreObjects(h)
      /\ nodes = CollectReachableNodes
      /\ c = ClearReachableNodeBase(h, nodes) /\ AreObjects(c)
      /\ DOMAIN c = DOMAIN h
      /\ s.bindings = NodeBaseBindings(nodes)
      /\ scratch = EnsureBasesInScratch(c, bases)
      /\ AreObjects(scratch)
      /\ DOMAIN scratch \subseteq DOMAIN h
      /\ \A o \in DOMAIN scratch : scratch[o] = c[o]
      /\ s.layers = Layers(scratch)
      /\ s.gens = [o \in Nodes(scratch) |-> gen[o]]
      /\ s.model = [heap |-> h, gen |-> gen]
  BY <1>1, <1>2 DEF Snapped
<1>4. DOMAIN h \subseteq Closure(h, {App}) /\ HasGenerations(h, gen)
  BY <1>3 DEF Lean, Up, Roots
<1>5. \A o \in DOMAIN h : h[o].base = NoObj \/ (o = TheNode /\ h[o].base = Base)
  BY <1>3 DEF AreObjects, IsObject, FitHistory
<1>6. TheNode \in DOMAIN h => TheNode \in nodes
  <2> SUFFICES ASSUME TheNode \in DOMAIN h PROVE TheNode \in nodes
    OBVIOUS
  <2>1. PICK k, r : k = SaveObjectGraphToScratch(h, App)
                    /\ r = CollectReachableObjects(h, App)
    OBVIOUS
  <2>2. TheNode \in DOMAIN k /\ DOMAIN k \subseteq DOMAIN h
    BY <2>1, <1>4, ClosureIsClosed DEF SaveObjectGraphToScratch
  <2>3. \A o \in DOMAIN h : TheNode \notin BaseOf(h[o])
    BY <1>5, DistilledIds DEF BaseOf
  <2>4. TheNode \in r
    BY <2>1, <2>2, <2>3 DEF CollectReachableObjects, RemoveDistilledBaseObjects
  <2>5. h[TheNode].val.kind = "node"
    BY <1>3 DEF AreObjects, IsObject, IsVal
  <2> QED BY <1>3, <2>1, <2>4, <2>5 DEF CollectReachableNodes
<1>7. \A o \in DOMAIN h :
        /\ c[o].refs = h[o].refs /\ c[o].journal = h[o].journal
        /\ c[o].val = h[o].val /\ c[o].base = NoObj
  BY <1>3, <1>5, <1>6, ClearedIs
<1>8. /\ DOMAIN s.bindings = {o \in DOMAIN h : h[o].base # NoObj}
      /\ \A o \in DOMAIN s.bindings : s.bindings[o] = h[o].base
  <2>1. /\ DOMAIN s.bindings = {p \in nodes : h[p].base # NoObj}
        /\ \A o \in DOMAIN s.bindings : s.bindings[o] = h[o].base
    BY <1>3 DEF NodeBaseBindings
  <2>2. nodes \subseteq DOMAIN h
    BY <1>1 DEF Snapped
  <2> QED BY <1>5, <1>6, <2>1, <2>2
<1>9. DOMAIN scratch = DOMAIN h
  <2>1. PICK S : S = Closure(c, {App}) \cup Closure(c, bases)
    OBVIOUS
  <2>2. DOMAIN scratch = S
    BY <1>3, <2>1 DEF EnsureBasesInScratch
  <2>3. S \subseteq DOMAIN h /\ {App} \cap DOMAIN h \subseteq S
    BY <1>3, <2>1, ClosureIsClosed
  <2>4. ASSUME NEW o \in S PROVE Edges(h[o]) \cap DOMAIN h \subseteq S
    <3>1. o \in DOMAIN h
      BY <2>3
    <3>2. Edges(c[o]) \cap DOMAIN h \subseteq S
      BY <1>3, <2>1, ClosureIsClosed
    <3>3. Edges(h[o]) \subseteq Edges(c[o]) \cup BaseOf(h[o])
      BY <1>7, <3>1 DEF Edges
    <3>4. BaseOf(h[o]) \cap DOMAIN h \subseteq S
      <4>1. CASE h[o].base = NoObj
        BY <4>1 DEF BaseOf
      <4>2. CASE h[o].base # NoObj
        <5>1. h[o].base \in bases
          BY <1>2, <1>8, <3>1, <4>2 DEF Range
        <5>2. bases \cap DOMAIN h \subseteq S
          BY <1>3, <2>1, ClosureIsClosed
        <5> QED BY <5>1, <5>2 DEF BaseOf
      <4> QED BY <4>1, <4>2
    <3> QED BY <3>2, <3>3, <3>4
  <2>5. Closure(h, {App}) \subseteq S
    BY <2>3, <2>4, ClosureIsLeast
  <2> QED BY <1>4, <2>2, <2>3, <2>5
<1>10. \A o \in DOMAIN h :
         /\ scratch[o].refs = h[o].refs /\ scratch[o].journal = h[o].journal
         /\ scratch[o].val = h[o].val /\ scratch[o].base = NoObj
  BY <1>3, <1>7, <1>9
<1>11. PICK t, d : t = s.layers /\ d = DOMAIN scratch
  OBVIOUS
<1>12. /\ \A o \in d : <<o, "Own">> \in DOMAIN t
       /\ \A o \in d \cap {TheNode, Base} : <<o, "Node">> \in DOMAIN t
       /\ \A l \in DOMAIN t : l[1] \in d
       /\ \A o \in d : t[<<o, "Own">>] = [refs |-> scratch[o].refs, val |-> scratch[o].val]
       /\ \A o \in d \cap {TheNode, Base} :
            t[<<o, "Node">>] = [tag |-> scratch[o].val.tag, base |-> scratch[o].base,
                                journal |-> scratch[o].journal]
  <2>1. AreObjects(scratch) /\ t = Layers(scratch)
    BY <1>3, <1>11
  <2>2. /\ \A o : <<o, "Own">> \in DOMAIN Layers(scratch) <=> o \in DOMAIN scratch
        /\ \A o : <<o, "Node">> \in DOMAIN Layers(scratch)
                     <=> o \in DOMAIN scratch \cap {TheNode, Base}
        /\ \A l \in DOMAIN Layers(scratch) : l[1] \in DOMAIN scratch
        /\ \A o \in DOMAIN scratch :
              Layers(scratch)[<<o, "Own">>] =
                [refs |-> scratch[o].refs, val |-> scratch[o].val]
        /\ \A o \in DOMAIN scratch \cap {TheNode, Base} :
              Layers(scratch)[<<o, "Node">>] =
                [tag |-> scratch[o].val.tag, base |-> scratch[o].base,
                 journal |-> scratch[o].journal]
    BY <2>1, LayersIs
  <2> QED BY <1>11, <2>1, <2>2
<1>13. /\ \A l \in DOMAIN s.layers : l[1] \in DOMAIN h
       /\ \A o \in DOMAIN h :
            /\ <<o, "Own">> \in DOMAIN s.layers
            /\ s.layers[<<o, "Own">>] = [refs |-> h[o].refs, val |-> h[o].val]
       /\ \A o \in DOMAIN h \cap {TheNode, Base} :
            /\ <<o, "Node">> \in DOMAIN s.layers
            /\ s.layers[<<o, "Node">>] =
                 [tag |-> h[o].val.tag, base |-> NoObj, journal |-> h[o].journal]
  BY <1>9, <1>10, <1>11, <1>12
<1>14. gen = [o \in DOMAIN h \cap {TheNode, Base} |-> s.gens[o]]
  <2>1. Nodes(scratch) = DOMAIN h \cap {TheNode, Base}
    BY <1>3, <1>9, NodesAre
  <2> QED BY <1>3, <1>4, <2>1 DEF HasGenerations
<1>15. Holds(s, h, gen)
  BY <1>3, <1>4, <1>8, <1>13, <1>14 DEF Holds
<1> QED BY <1>3, <1>15 DEF IsCopy

LEMMA CopiesInit == Init => Copies
BY DEF Init, Copies, Loading, NoSnap

LEMMA CopiesNext == Basic /\ Lean /\ Copies /\ [Next]_vars => Copies'
<1> SUFFICES ASSUME Basic, Lean, Copies, [Next]_vars PROVE Copies'
  OBVIOUS
\* A step that takes no snapshot.
<1>1. ASSUME phase' \in Loading => phase \in Loading /\ UNCHANGED snap,
             sidecar'.state = "whole" => UNCHANGED sidecar
      PROVE  Copies'
  <2>1. PICK s, c : s = snap /\ c = sidecar
    OBVIOUS
  <2>2. phase \in Loading => IsCopy(s)
    BY <2>1 DEF Copies
  <2>3. c.state = "whole" => IsCopy(c)
    BY <2>1 DEF Copies
  <2>4. phase' \in Loading => IsCopy(snap')
    BY <1>1, <2>1, <2>2
  <2>5. sidecar'.state = "whole" => IsCopy(sidecar')
    BY <1>1, <2>1, <2>3
  <2> QED BY <2>4, <2>5 DEF Copies
<1>2. CASE UNCHANGED vars \/ StoreStep \/ \E l \in Layer : StoreNext(l)
  <2>1. UNCHANGED <<phase, snap, sidecar>>
    BY <1>2 DEF vars, memory, StoreStep, StoreNext
  <2> QED BY <1>1, <2>1
<1>3. CASE ReadSidecar
  <2>1. UNCHANGED sidecar /\ (phase' \in Loading => sidecar.state = "whole" /\ snap' = sidecar)
    BY <1>3 DEF ReadSidecar, Loading
  <2>2. PICK c : c = sidecar
    OBVIOUS
  <2>3. c.state = "whole" => IsCopy(c)
    BY <2>2 DEF Copies
  <2> QED BY <2>1, <2>2, <2>3 DEF Copies
<1>4. CASE SaveSnapshot
  <2>1. PICK s : s = SerializePersistentModelSnapshot
    OBVIOUS
  <2>2. phase = "run"
    BY <1>4 DEF SaveSnapshot, AskSave, Ready
  <2>3. IsCopy(s)
    BY <2>1, <2>2, SnapshotIsCopy DEF Basic
  <2>4. snap' = s /\ sidecar' = [state |-> "torn"]
    BY <1>4, <2>1 DEF SaveSnapshot
  <2> QED BY <2>3, <2>4 DEF Copies
<1>5. CASE WriteSidecar
  <2>1. phase = "trunc"
    BY <1>5 DEF WriteSidecar
  <2>2. phase \in Loading /\ Started
    BY <2>1 DEF Loading, Basic
  <2>3. sidecar.state = "torn"
    BY <2>1, <2>2 DEF Started
  <2>4. PICK s : s = snap /\ IsCopy(s)
    BY <2>2 DEF Copies
  <2>5. CASE phase' = "run" /\ UNCHANGED sidecar
    BY <1>1, <2>5 DEF Loading
  <2>6. CASE sidecar' = snap /\ UNCHANGED snap
    BY <2>4, <2>6 DEF Copies
  <2> QED BY <1>5, <2>5, <2>6 DEF WriteSidecar
<1>6. CASE \/ Bootstrap \/ LoadApplication \/ Hydrate \/ CompactJournal \/ InsertImported
           \/ Save \/ EndSave \/ Stop
  <2>1. phase' \notin Loading /\ UNCHANGED sidecar
    BY <1>6 DEF Bootstrap, LoadApplication, Hydrate, CompactJournal, InsertImported,
                Save, EndSave, Stop, Loading
  <2> QED BY <1>1, <2>1
<1>7. CASE \E o \in Obj : Commit(o)
  <2>1. phase' \notin Loading /\ UNCHANGED sidecar
    BY <1>7 DEF Commit, Edit, Ready, Loading
  <2> QED BY <1>1, <2>1
<1>8. CASE \E p \in Payload, o \in Obj : ImportStandaloneEventGraph(o, p)
  <2>1. phase' \notin Loading /\ UNCHANGED sidecar
    BY <1>8 DEF ImportStandaloneEventGraph, Loading
  <2> QED BY <1>1, <2>1
<1>9. CASE \E p \in Payload, o \in Obj, q \in Obj : ImportClosedEventGraph(o, q, p)
  <2>1. phase' \notin Loading /\ UNCHANGED sidecar
    BY <1>9 DEF ImportClosedEventGraph, Loading
  <2> QED BY <1>1, <2>1
<1> QED BY <1>2, <1>3, <1>4, <1>5, <1>6, <1>7, <1>8, <1>9 DEF Next

\* The files hold the layers of a snapshot: the loader makes the model of them.
LEMMA HydratedIsTheModel ==
  ASSUME Shape, phase = "hydrate", NEW m, NEW g, Holds(snap, m, g), Closed(m),
         \A l \in DOMAIN snap.layers : l \in DOMAIN file /\ file[l] = snap.layers[l],
         NEW ids, ids = {l[1] : l \in DOMAIN snap.layers}, \A o \in ids : Complete(o),
         NEW h, h = [o \in ids |-> OnDisk[o]],
         NEW r, r = RestorePersistedNodeBaseBindings(h),
         NEW s, s = SanitizeLoadedPersistentObjPtrs(r),
         NEW k, k = Kept(s)
  PROVE  k = m
<1>1. IsSnapshot(snap) /\ AreLayers(file)
  BY DEF Shape, Loading
<1>2. /\ AreObjects(m) /\ DOMAIN m \subseteq Closure(m, {App})
      /\ \A l \in DOMAIN snap.layers : l[1] \in DOMAIN m
      /\ \A o \in DOMAIN m :
           /\ <<o, "Own">> \in DOMAIN snap.layers
           /\ snap.layers[<<o, "Own">>] = [refs |-> m[o].refs, val |-> m[o].val]
      /\ \A o \in DOMAIN m \cap {TheNode, Base} :
           /\ <<o, "Node">> \in DOMAIN snap.layers
           /\ snap.layers[<<o, "Node">>] =
                [tag |-> m[o].val.tag, base |-> NoObj, journal |-> m[o].journal]
      /\ DOMAIN snap.bindings = {o \in DOMAIN m : m[o].base # NoObj}
      /\ \A o \in DOMAIN snap.bindings : snap.bindings[o] = m[o].base
  BY DEF Holds
<1>3. AreObjects(h) /\ AreObjects(r) /\ AreObjects(s) /\ ids \subseteq DOMAIN OnDisk
  BY HydratedIs
<1>4. ids = DOMAIN m
  <2>1. ids \subseteq DOMAIN m
    BY <1>2
  <2>2. ASSUME NEW o \in DOMAIN m PROVE o \in ids
    <3>1. PICK l : l = <<o, "Own">>
      OBVIOUS
    <3>2. l \in DOMAIN snap.layers /\ l[1] = o
      BY <1>2, <3>1
    <3> QED BY <3>2
  <2> QED BY <2>1, <2>2
<1>5. ASSUME NEW o \in DOMAIN m
      PROVE  /\ h[o].refs = m[o].refs /\ h[o].val = m[o].val
             /\ h[o].journal = m[o].journal /\ h[o].base = NoObj
  <2>1. o \in DOMAIN OnDisk /\ h[o] = OnDisk[o]
    BY <1>3, <1>4
  <2>2. file[<<o, "Own">>] = [refs |-> m[o].refs, val |-> m[o].val]
    BY <1>2
  <2>3. h[o].refs = m[o].refs /\ h[o].val = m[o].val
    <3>1. OnDisk[o].refs = file[<<o, "Own">>].refs /\ OnDisk[o].val = file[<<o, "Own">>].val
      BY <1>1, <2>1, OnDiskIs
    <3> QED BY <2>1, <2>2, <3>1
  <2>4. CASE o \in {TheNode, Base}
    <3>1. file[<<o, "Node">>] =
            [tag |-> m[o].val.tag, base |-> NoObj, journal |-> m[o].journal]
      BY <1>2, <2>4
    <3>2. /\ OnDisk[o].base = file[<<o, "Node">>].base
          /\ OnDisk[o].journal = file[<<o, "Node">>].journal
      BY <1>1, <2>1, <2>4, OnDiskIs
    <3> QED BY <2>1, <2>3, <3>1, <3>2
  <2>5. CASE o \notin {TheNode, Base}
    <3>1. OnDisk[o].base = NoObj /\ OnDisk[o].journal = {}
      BY <1>1, <2>1, <2>5, OnDiskIs
    <3>2. m[o].journal = {}
      BY <1>2, <2>5 DEF AreObjects, IsObject, FitHistory
    <3> QED BY <2>1, <2>3, <3>1, <3>2
  <2> QED BY <2>4, <2>5
<1>6. DOMAIN h = DOMAIN m /\ DOMAIN r = DOMAIN m /\ DOMAIN s = DOMAIN m
  BY <1>3, <1>4, RestoredIs, SanitizedIs DEF RestorePersistedNodeBaseBindings,
                                             SanitizeLoadedPersistentObjPtrs
<1>7. ASSUME NEW o \in DOMAIN m
      PROVE  /\ r[o].refs = m[o].refs /\ r[o].val = m[o].val
             /\ r[o].journal = m[o].journal /\ r[o].base = m[o].base
  <2>1. /\ r[o].refs = h[o].refs /\ r[o].journal = h[o].journal
        /\ r[o].val = h[o].val
        /\ r[o].base = IF o \in DOMAIN snap.bindings /\ h[o].base = NoObj
                       THEN snap.bindings[o] ELSE h[o].base
    BY <1>1, <1>3, <1>6, RestoredIs
  <2> QED BY <1>2, <1>5, <2>1
<1>8. ASSUME NEW o \in DOMAIN m
      PROVE  /\ s[o].refs = m[o].refs /\ s[o].val = m[o].val
             /\ s[o].journal = m[o].journal /\ s[o].base = m[o].base
  <2>1. /\ s[o].refs = {p \in r[o].refs : p = NoObj \/ p \in DOMAIN r}
        /\ s[o].base = IF r[o].base \in DOMAIN r \cup {NoObj} THEN r[o].base ELSE NoObj
        /\ s[o].journal = r[o].journal /\ s[o].val = r[o].val
    BY <1>3, <1>6, SanitizedIs
  <2>2. m[o].refs \subseteq DOMAIN m /\ m[o].base \in DOMAIN m \cup {NoObj}
    BY DEF Closed, Edges, BaseOf
  <2>3. r[o].refs = m[o].refs /\ r[o].base = m[o].base /\ r[o].val = m[o].val
        /\ r[o].journal = m[o].journal
    BY <1>7
  <2> QED BY <1>6, <2>1, <2>2, <2>3
<1>9. s = m
  <2>1. ASSUME NEW o \in DOMAIN m PROVE s[o] = m[o]
    <3>1. PICK f, e : f = s[o] /\ e = m[o]
      OBVIOUS
    <3>2. /\ f = [refs |-> f.refs, base |-> f.base, journal |-> f.journal, val |-> f.val]
          /\ e = [refs |-> e.refs, base |-> e.base, journal |-> e.journal, val |-> e.val]
      BY <1>2, <1>3, <1>6, <3>1 DEF AreObjects, IsObject
    <3>3. f.refs = e.refs /\ f.base = e.base /\ f.journal = e.journal /\ f.val = e.val
      BY <1>8, <3>1
    <3> QED BY <3>1, <3>2, <3>3
  <2>2. s = [o \in DOMAIN s |-> s[o]] /\ m = [o \in DOMAIN m |-> m[o]]
    BY <1>2, <1>3 DEF AreObjects
  <2> QED BY <1>6, <2>1, <2>2
<1>10. k = [o \in Closure(m, {App}) |-> m[o]] /\ Closure(m, {App}) = DOMAIN m
  BY <1>2, <1>9, ClosureIsClosed DEF Kept, SaveObjectGraphToScratch
<1> QED BY <1>2, <1>10 DEF AreObjects

LEMMA LoadsWhole ==
  ASSUME Basic, Copies, [Next]_vars, phase = "hydrate", phase' = "run", ~hadFailure,
         Closed(snap.model.heap)
  PROVE  [heap |-> heap', gen |-> gen'] = snap.model
<1>1. Hydrate
  <2>1. ~UNCHANGED vars /\ ~StoreStep /\ ~\E l \in Layer : StoreNext(l)
    BY DEF vars, StoreStep, StoreNext
  <2>2. ~\E o \in Obj : Commit(o)
    BY DEF Commit, Edit, Ready
  <2>3. ~\E p \in Payload, o \in Obj : ImportStandaloneEventGraph(o, p)
    BY DEF ImportStandaloneEventGraph, Edit, Ready
  <2>4. ~\E p \in Payload, o, q \in Obj : ImportClosedEventGraph(o, q, p)
    BY DEF ImportClosedEventGraph, Edit, Ready
  <2>5. /\ ~Bootstrap /\ ~LoadApplication /\ ~ReadSidecar /\ ~CompactJournal
        /\ ~InsertImported /\ ~Save /\ ~SaveSnapshot /\ ~WriteSidecar /\ ~EndSave /\ ~Stop
    BY DEF Bootstrap, LoadApplication, ReadSidecar, CompactJournal, Edit, Ready,
           InsertImported, Save, SaveSnapshot, AskSave, WriteSidecar, EndSave, Stop
  <2> QED BY <2>1, <2>2, <2>3, <2>4, <2>5 DEF Next
<1>2. Shape /\ Saving
  BY DEF Basic
<1>3. \A l \in DOMAIN snap.layers : l \in DOMAIN file /\ file[l] = snap.layers[l]
  BY <1>1, <1>2 DEF Hydrate, Saving, Target, NoLayers
<1>4. PICK m, g : snap.model = [heap |-> m, gen |-> g] /\ Holds(snap, m, g)
  BY DEF Copies, Loading, IsCopy
<1>5. Closed(m)
  BY <1>4
<1>6. PICK ids : ids = {l[1] : l \in DOMAIN snap.layers}
  OBVIOUS
<1>7. PICK h : h = [o \in ids |-> OnDisk[o]]
  OBVIOUS
<1>8. PICK r : r = RestorePersistedNodeBaseBindings(h)
  OBVIOUS
<1>9. PICK s, k, b : s = SanitizeLoadedPersistentObjPtrs(r) /\ k = Kept(s) /\ b = snap.gens
  OBVIOUS
<1>10. \A o \in ids : Complete(o)
  BY <1>1, <1>6 DEF Hydrate
<1>11. heap' = k
  BY <1>1, <1>6, <1>7, <1>8, <1>9 DEF Hydrate
<1>12. gen' = [o \in Nodes(k) |-> b[o]]
  BY <1>1, <1>9, <1>11 DEF Hydrate
<1>13. k = m
  BY <1>2, <1>3, <1>4, <1>5, <1>6, <1>7, <1>8, <1>9, <1>10, HydratedIsTheModel
<1>14. AreObjects(m) /\ g = [o \in DOMAIN m \cap {TheNode, Base} |-> b[o]]
  BY <1>4, <1>9 DEF Holds
<1>15. Nodes(m) = DOMAIN m \cap {TheNode, Base}
  BY <1>14, NodesAre
<1> QED BY <1>4, <1>11, <1>12, <1>13, <1>14, <1>15

\* A model that is loaded from its snapshot is the model the snapshot was
\* taken of, with the bases and the generations that the layers in it do not
\* have (object_serialization.cpp, SerializePersistentModelSnapshot and
\* LoadPersistentModelSnapshot).
THEOREM CheckpointSnapshotLoadsWhole == Spec => SnapshotLoadsWhole
<1>1. Init => Lean /\ Copies
  BY LeanInit, CopiesInit
<1>2. Basic /\ Lean /\ Copies /\ [Next]_vars => (Lean /\ Copies)'
  BY LeanNext, CopiesNext
<1>3. Basic /\ Copies /\ [Next]_vars =>
        (phase = "hydrate" /\ phase' = "run" /\ ~hadFailure
         /\ Closed(snap.model.heap) =>
           [heap |-> heap', gen |-> gen'] = snap.model)
  BY LoadsWhole
<1> QED BY <1>1, <1>2, <1>3, BasicAlways, PTL DEF Spec, SnapshotLoadsWhole
==============================================================================
