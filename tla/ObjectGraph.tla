---------------------------- MODULE ObjectGraph ----------------------------
(* Objects, the edges between them and the graph walks of AppTraverse.      *)
(* A heap is a function from the ids present in an ae::Domain to the fields *)
(* of the objects; an edge to an id outside it is an ObjPtr that cannot be  *)
(* resolved.  `refs` stands for the pointer members of an object, `base`    *)
(* and `journal` are the members of Node, `val` is everything that is not   *)
(* a pointer.                                                               *)
CONSTANTS Obj, NoObj

BaseOf(f) == {f.base} \ {NoObj}

Edges(f) == f.refs \cup BaseOf(f) \cup f.journal

\* The sets of objects that hold the roots and what their members lead to.
ClosedSets(heap, roots) ==
  {S \in SUBSET DOMAIN heap :
     /\ roots \cap DOMAIN heap \subseteq S
     /\ \A o \in S : Edges(heap[o]) \cap DOMAIN heap \subseteq S}

\* The objects of the heap that edges lead to from a set of roots.
Closure(heap, roots) ==
  {o \in DOMAIN heap : \A S \in ClosedSets(heap, roots) : o \in S}

\* SaveObjectGraphToScratch: the objects a save from root visits.
SaveObjectGraphToScratch(heap, root) ==
  [o \in Closure(heap, {root}) |-> heap[o]]

\* RemoveDistilledBaseObjects: what is the base of a collected object goes.
RemoveDistilledBaseObjects(heap, objects) ==
  objects \ UNION {BaseOf(heap[o]) : o \in objects}

\* CollectReachableObjects: a persistent save's objects without the bases.
CollectReachableObjects(heap, root) ==
  RemoveDistilledBaseObjects(heap, DOMAIN SaveObjectGraphToScratch(heap, root))
=============================================================================
