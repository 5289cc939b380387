---------------------------- MODULE ModelRuntime ----------------------------
(***************************************************************************)
(* ModelRuntime and UiMirror: a model thread that runs posted work, updates*)
(* its nodes and publishes what changed, and a GUI thread that posts,      *)
(* applies publications and stops the model thread.                        *)
(*                                                                         *)
(* A node's fields are a version number, a publication of a presentation   *)
(* root gives versions for the nodes in it (0 for the others).  The        *)
(* channel of a root is the one-message box of module Mailbox, which       *)
(* PublicationChannel implements.                                          *)
(***************************************************************************)
EXTENDS Integers

CONSTANTS
  Node,        \* the nodes of the model
  Root,        \* presentation roots
  Mapped0,     \* [Node -> SUBSET Root]: the mapping AddPresentationRoot makes
  MaxPosts,    \* bound on the calls of Post that are accepted
  MaxVersion   \* bound on the changes of a node

ASSUME NodeAssumption == Mapped0 \in [Node -> SUBSET Root]
ASSUME BoundAssumption == MaxPosts \in Nat /\ MaxVersion \in Nat \ {0}

VARIABLES
  pc,        \* where the model thread is in ThreadMain
  work,      \* the number of works waiting in work_
  accept,    \* accept_work_
  stop,      \* stop_
  posted,    \* works accepted so far
  version,   \* the fields of each node
  mapped,    \* object_to_roots_: the roots of a node
  known,     \* the roots a node was ever mapped to
  pending,   \* pending_by_root_
  box,       \* the unread publication of each root
  held,      \* the publication the GUI thread is applying
  shown      \* per root: the version its publications have brought to the GUI

vars == <<pc, work, accept, stop, posted, version, mapped, known, pending,
          box, held, shown>>

queue == <<work, accept, stop, posted>>
model == <<version, mapped, known, pending>>
mirror == <<box, held, shown>>

Publication == [Node -> Nat]
Nothing == [n \in Node |-> 0]

-----------------------------------------------------------------------------
(* Calls of other threads.                                                 *)

Start ==
  /\ pc = "NotRunning"
  /\ pc' = "Top"
  /\ stop' = FALSE
  /\ accept' = TRUE
  /\ UNCHANGED <<work, posted, model, mirror>>

\* Variant: the acceptance window is not looked at.
Post_Unchecked ==
  /\ posted < MaxPosts
  /\ work' = work + 1
  /\ posted' = posted + 1
  /\ UNCHANGED <<pc, accept, stop, model, mirror>>

\* The decision and the push are one critical section.
Post ==
  /\ accept /\ posted < MaxPosts
  /\ work' = work + 1
  /\ posted' = posted + 1
  /\ UNCHANGED <<pc, accept, stop, model, mirror>>

RequestStop ==
  /\ accept' = FALSE
  /\ stop' = TRUE
  /\ UNCHANGED <<pc, work, posted, model, mirror>>

Join ==
  /\ pc = "Done"
  /\ pc' = "NotRunning"
  /\ UNCHANGED <<queue, model, mirror>>

\* ApplyPublished takes the publication, later it is in the GUI's domain.
TakePublished(root) ==
  /\ box[root] # Nothing /\ held[root] = Nothing
  /\ held' = [held EXCEPT ![root] = box[root]]
  /\ box' = [box EXCEPT ![root] = Nothing]
  /\ UNCHANGED <<pc, queue, model, shown>>

ApplyPublished(root) ==
  /\ held[root] # Nothing
  /\ shown' = [shown EXCEPT ![root] =
       [n \in Node |-> IF held[root][n] = 0 THEN shown[root][n]
                                            ELSE held[root][n]]]
  /\ held' = [held EXCEPT ![root] = Nothing]
  /\ UNCHANGED <<pc, queue, model, box>>

-----------------------------------------------------------------------------
(* What a work does to the model.                                          *)

\* Variant: only the first root of a node is told.
OnMaterializedChange_OneRoot(changed) ==
  pending' = [root \in Root |-> pending[root] \cup
    {n \in changed : mapped[n] # {} /\ root = CHOOSE r \in mapped[n] : TRUE}]

\* The changed nodes become pending for every root they are mapped to.
OnMaterializedChange(changed) ==
  pending' = [root \in Root |->
                pending[root] \cup {n \in changed : root \in mapped[n]}]

Change(changed) ==
  /\ \A n \in changed : version[n] < MaxVersion
  /\ version' = [n \in Node |-> IF n \in changed THEN version[n] + 1
                                                 ELSE version[n]]
  /\ OnMaterializedChange(changed)
  /\ UNCHANGED <<mapped, known, mirror>>

\* A node is new to the root: what it was before is not published, the
\* publication of its parent brings it.  A node that was detached does not
\* come back.
AttachNode(n, root) ==
  /\ root \notin known[n]
  /\ mapped' = [mapped EXCEPT ![n] = @ \cup {root}]
  /\ known' = [known EXCEPT ![n] = @ \cup {root}]
  /\ shown' = [shown EXCEPT ![root][n] = version[n]]
  /\ UNCHANGED <<version, pending, box, held>>

\* Only this root's pending entry is dropped.
DetachNode(n, root) ==
  /\ root \in mapped[n]
  /\ mapped' = [mapped EXCEPT ![n] = @ \ {root}]
  /\ pending' = [pending EXCEPT ![root] = @ \ {n}]
  /\ UNCHANGED <<version, known, mirror>>

Effect ==
  \/ UNCHANGED <<model, mirror>>
  \/ \E n \in Node : Change({n})
  \/ \E n \in Node, root \in Root : AttachNode(n, root) \/ DetachNode(n, root)

-----------------------------------------------------------------------------
(* The model thread.                                                       *)

Top ==
  /\ pc = "Top"
  /\ pc' = IF stop THEN "FinalDrain" ELSE "Drain"
  /\ UNCHANGED <<queue, model, mirror>>

DrainWork ==
  /\ pc \in {"Drain", "FinalDrain"}
  /\ \/ /\ work > 0
        /\ work' = work - 1
        /\ Effect
        /\ UNCHANGED <<pc, accept, stop, posted>>
     \/ /\ work = 0
        /\ pc' = IF pc = "Drain" THEN "Update" ELSE "Done"
        /\ UNCHANGED <<queue, model, mirror>>

\* Node::Update of the attached nodes; not every turn of the loop is due.
UpdateAll ==
  /\ pc = "Update"
  /\ pc' = "Publish"
  /\ \/ UNCHANGED <<model, mirror>>
     \/ \E changed \in SUBSET {n \in Node : mapped[n] # {}} : Change(changed)
  /\ UNCHANGED queue

\* UiMirror::Publish refuses while the root has an unread publication.
Refused(root) == box[root] # Nothing

\* Variant: what was refused is dropped as well.
PublishChanged_DropsRefused ==
  /\ pc = "Publish"
  /\ pc' = "Wait"
  /\ box' = [root \in Root |->
       IF pending[root] = {} \/ Refused(root) THEN box[root]
       ELSE [n \in Node |-> IF n \in pending[root] THEN version[n] ELSE 0]]
  /\ pending' = [root \in Root |-> {}]
  /\ UNCHANGED <<queue, version, mapped, known, held, shown>>

PublishChanged ==
  /\ pc = "Publish"
  /\ pc' = "Wait"
  /\ box' = [root \in Root |->
       IF pending[root] = {} \/ Refused(root) THEN box[root]
       ELSE [n \in Node |-> IF n \in pending[root] THEN version[n] ELSE 0]]
  /\ pending' = [root \in Root |-> IF Refused(root) THEN pending[root] ELSE {}]
  /\ UNCHANGED <<queue, version, mapped, known, held, shown>>

\* The wait ends with work, with a stop or with the update period: a lost
\* notification costs a period and no more.
Wait ==
  /\ pc = "Wait"
  /\ pc' = "Top"
  /\ UNCHANGED <<queue, model, mirror>>

ThreadMain == Top \/ DrainWork \/ UpdateAll \/ PublishChanged \/ Wait

-----------------------------------------------------------------------------
Init ==
  /\ pc = "NotRunning"
  /\ work = 0 /\ posted = 0
  /\ accept = TRUE /\ stop = FALSE
  /\ version = [n \in Node |-> 1]
  /\ mapped = Mapped0 /\ known = Mapped0
  /\ pending = [root \in Root |-> {}]
  /\ box = [root \in Root |-> Nothing]
  /\ held = [root \in Root |-> Nothing]
  /\ shown = [root \in Root |-> [n \in Node |-> 1]]

Next ==
  \/ Start \/ Post \/ RequestStop \/ Join
  \/ \E root \in Root : TakePublished(root) \/ ApplyPublished(root)
  \/ ThreadMain

Spec == Init /\ [][Next]_vars

\* The model thread runs, and the GUI thread answers every notification.
Fairness ==
  /\ WF_vars(ThreadMain)
  /\ \A root \in Root : /\ WF_vars(TakePublished(root))
                        /\ WF_vars(ApplyPublished(root))

FairSpec == Spec /\ Fairness

-----------------------------------------------------------------------------
TypeOK ==
  /\ pc \in {"NotRunning", "Top", "Drain", "Update", "Publish", "Wait",
             "FinalDrain", "Done"}
  /\ work \in Nat /\ posted \in Nat
  /\ accept \in BOOLEAN /\ stop \in BOOLEAN
  /\ version \in [Node -> Nat \ {0}]
  /\ mapped \in [Node -> SUBSET Root]
  /\ known \in [Node -> SUBSET Root]
  /\ pending \in [Root -> SUBSET Node]
  /\ box \in [Root -> Publication]
  /\ held \in [Root -> Publication]
  /\ shown \in [Root -> Publication]

\* "a Post either lands before the boundary (and is drained after the loop
\* exits) or is rejected" (RequestStop): a thread that has ended leaves no
\* work behind.
NoWorkLeftBehind == pc = "Done" => work = 0

\* What the GUI will show of a node for a root once it has taken in all that
\* was published.
Coming(root, n) ==
  IF box[root][n] # 0 THEN box[root][n]
  ELSE IF held[root][n] # 0 THEN held[root][n] ELSE shown[root][n]

\* A change of a node is never lost on its way to a root the node is mapped
\* to, though the channel refuses while the GUI is behind and other roots
\* come and go: the root's pending set still has the node, or its newest
\* version is on the way or there.
NothingForgotten ==
  \A n \in Node : \A root \in mapped[n] :
    n \in pending[root] \/ Coming(root, n) = version[n]

\* While the model thread is not stopped, the GUI catches up with every node.
GuiCatchesUp ==
  \A n \in Node, root \in Root :
    (pc = "Publish" /\ root \in mapped[n])
      ~> (root \notin mapped[n] \/ shown[root][n] = version[n] \/ stop)
=============================================================================
