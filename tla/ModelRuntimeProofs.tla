------------------------- MODULE ModelRuntimeProofs -------------------------
(***************************************************************************)
(* Proofs about ModelRuntime, for any nodes, roots and bounds: work is     *)
(* never left behind and no change is forgotten.  And about the            *)
(* PublicationChannel it publishes through, for any buffers, consumers and *)
(* messages: the asserts hold, the producer never touches a slot somebody  *)
(* reads, and the channel implements Mailbox.                              *)
(*                                                                         *)
(* No property of the runtime is inductive.  The first needs that a stop   *)
(* closes the acceptance window before the thread can see it; the second   *)
(* that what is pending, unread or held for a root concerns nodes the root *)
(* knows, so that an attached node meets no old publication of itself.     *)
(***************************************************************************)
EXTENDS ModelRuntime, PublicationChannel, TLAPS

\* The window is closed when the thread leaves its loop.
StopCloses ==
  /\ stop => ~accept
  /\ pc \in {"FinalDrain", "Done"} => stop

\* Publications concern nodes their root knows.
OnlyKnown ==
  \A n \in Node : \A root \in Root :
    /\ root \in mapped[n] => root \in known[n]
    /\ n \in pending[root] => root \in known[n]
    /\ box[root][n] # 0 => root \in known[n]
    /\ held[root][n] # 0 => root \in known[n]

IndInv ==
  /\ TypeOK
  /\ StopCloses
  /\ NoWorkLeftBehind
  /\ OnlyKnown
  /\ NothingForgotten

\* The initial state: nothing pending, everything shown.
LEMMA InitIndInv == Init => IndInv
<1> SUFFICES ASSUME Init PROVE IndInv
  OBVIOUS
<1>1. TypeOK
  <2>1. accept \in BOOLEAN /\ stop \in BOOLEAN
    BY Zenon DEF Init
  <2>2. /\ mapped \in [Node -> SUBSET Root] /\ known \in [Node -> SUBSET Root]
        /\ pending \in [Root -> SUBSET Node]
        /\ version \in [Node -> Nat \ {0}]
    BY NodeAssumption DEF Init
  <2>3. /\ box \in [Root -> Publication] /\ held \in [Root -> Publication]
        /\ shown \in [Root -> Publication]
    BY DEF Init, Nothing, Publication
  <2>4. work \in Nat /\ posted \in Nat /\ pc = "NotRunning"
    BY DEF Init
  <2> QED BY <2>1, <2>2, <2>3, <2>4 DEF TypeOK
<1>2. StopCloses /\ NoWorkLeftBehind
  BY DEF Init, StopCloses, NoWorkLeftBehind
<1>3. OnlyKnown
  BY DEF Init, OnlyKnown, Nothing
<1>4. NothingForgotten
  <2> SUFFICES ASSUME NEW n \in Node, NEW root \in mapped[n]
               PROVE  Coming(root, n) = version[n]
    BY DEF NothingForgotten
  <2>1. root \in Root
    BY <1>1 DEF TypeOK
  <2> QED BY <2>1 DEF Init, Coming, Nothing
<1> QED BY <1>1, <1>2, <1>3, <1>4 DEF IndInv

\* What a work, or an update, does to the model (Effect and Change) keeps the
\* publication part of the invariant: OnMaterializedChange reaches every root
\* of a changed node, and attaching or detaching disturbs no other pair.
LEMMA ModelStep ==
  ASSUME IndInv,
         \/ UNCHANGED <<model, mirror>>
         \/ \E changed \in SUBSET Node : Change(changed)
         \/ \E n \in Node, root \in Root :
              AttachNode(n, root) \/ DetachNode(n, root)
  PROVE  /\ version' \in [Node -> Nat \ {0}]
         /\ mapped' \in [Node -> SUBSET Root]
         /\ known' \in [Node -> SUBSET Root]
         /\ pending' \in [Root -> SUBSET Node]
         /\ box' \in [Root -> Publication]
         /\ held' \in [Root -> Publication]
         /\ shown' \in [Root -> Publication]
         /\ OnlyKnown'
         /\ NothingForgotten'
<1> USE DEF IndInv, TypeOK, Publication
<1>1. CASE UNCHANGED <<model, mirror>>
  BY <1>1 DEF model, mirror, OnlyKnown, NothingForgotten, Coming
<1>2. ASSUME NEW changed \in SUBSET Node, Change(changed)
      PROVE  /\ version' \in [Node -> Nat \ {0}]
             /\ mapped' \in [Node -> SUBSET Root]
             /\ known' \in [Node -> SUBSET Root]
             /\ pending' \in [Root -> SUBSET Node]
             /\ box' \in [Root -> Publication]
             /\ held' \in [Root -> Publication]
             /\ shown' \in [Root -> Publication]
             /\ OnlyKnown'
             /\ NothingForgotten'
  <2>1. /\ version' \in [Node -> Nat \ {0}]
        /\ pending' \in [Root -> SUBSET Node]
        /\ UNCHANGED <<mapped, known, box, held, shown>>
    BY <1>2 DEF Change, OnMaterializedChange, mirror
  <2>2. OnlyKnown'
    BY <1>2, <2>1 DEF Change, OnMaterializedChange, OnlyKnown
  <2>3. NothingForgotten'
    <3> SUFFICES ASSUME NEW n \in Node, NEW root \in mapped'[n]
                 PROVE  n \in pending'[root] \/ Coming(root, n)' = version'[n]
      BY DEF NothingForgotten
    <3>1. root \in Root /\ root \in mapped[n]
      BY <2>1
    <3>2. CASE n \in changed
      BY <1>2, <3>1, <3>2 DEF Change, OnMaterializedChange
    <3>3. CASE n \notin changed
      BY <1>2, <2>1, <3>1, <3>3
      DEF Change, OnMaterializedChange, NothingForgotten, Coming
    <3> QED BY <3>2, <3>3
  <2> QED BY <2>1, <2>2, <2>3
<1>3. ASSUME NEW n \in Node, NEW root \in Root, AttachNode(n, root)
      PROVE  /\ version' \in [Node -> Nat \ {0}]
             /\ mapped' \in [Node -> SUBSET Root]
             /\ known' \in [Node -> SUBSET Root]
             /\ pending' \in [Root -> SUBSET Node]
             /\ box' \in [Root -> Publication]
             /\ held' \in [Root -> Publication]
             /\ shown' \in [Root -> Publication]
             /\ OnlyKnown'
             /\ NothingForgotten'
  <2>1. /\ mapped' \in [Node -> SUBSET Root]
        /\ known' \in [Node -> SUBSET Root]
        /\ shown' \in [Root -> Publication]
        /\ UNCHANGED <<version, pending, box, held>>
    BY <1>3 DEF AttachNode
  <2>2. OnlyKnown'
    BY <1>3, <2>1 DEF AttachNode, OnlyKnown
  <2>3. NothingForgotten'
    <3> SUFFICES ASSUME NEW m \in Node, NEW r \in mapped'[m]
                 PROVE  m \in pending'[r] \/ Coming(r, m)' = version'[m]
      BY DEF NothingForgotten
    <3>1. CASE m = n /\ r = root
      <4>1. box[root][n] = 0 /\ held[root][n] = 0
        BY <1>3 DEF AttachNode, OnlyKnown
      <4>2. shown'[root][n] = version[n]
        BY <1>3 DEF AttachNode
      <4> QED BY <2>1, <3>1, <4>1, <4>2 DEF Coming
    <3>2. CASE ~(m = n /\ r = root)
      <4>1. r \in Root /\ r \in mapped[m] /\ shown'[r][m] = shown[r][m]
        BY <1>3, <2>1, <3>2 DEF AttachNode
      <4> QED BY <2>1, <4>1 DEF NothingForgotten, Coming
    <3> QED BY <3>1, <3>2
  <2> QED BY <2>1, <2>2, <2>3
<1>4. ASSUME NEW n \in Node, NEW root \in Root, DetachNode(n, root)
      PROVE  /\ version' \in [Node -> Nat \ {0}]
             /\ mapped' \in [Node -> SUBSET Root]
             /\ known' \in [Node -> SUBSET Root]
             /\ pending' \in [Root -> SUBSET Node]
             /\ box' \in [Root -> Publication]
             /\ held' \in [Root -> Publication]
             /\ shown' \in [Root -> Publication]
             /\ OnlyKnown'
             /\ NothingForgotten'
  <2>1. /\ mapped' \in [Node -> SUBSET Root]
        /\ pending' \in [Root -> SUBSET Node]
        /\ UNCHANGED <<version, known, box, held, shown>>
    BY <1>4 DEF DetachNode, mirror
  <2>2. OnlyKnown'
    BY <1>4, <2>1 DEF DetachNode, OnlyKnown
  <2>3. NothingForgotten'
    <3> SUFFICES ASSUME NEW m \in Node, NEW r \in mapped'[m]
                 PROVE  m \in pending'[r] \/ Coming(r, m)' = version'[m]
      BY DEF NothingForgotten
    <3>1. /\ r \in Root /\ r \in mapped[m]
          /\ ~(m = n /\ r = root)
      BY <1>4, <2>1 DEF DetachNode
    <3>2. m \in pending[r] => m \in pending'[r]
      BY <1>4, <3>1 DEF DetachNode
    <3> QED BY <2>1, <3>1, <3>2 DEF NothingForgotten, Coming
  <2> QED BY <2>1, <2>2, <2>3
<1> QED BY <1>1, <1>2, <1>3, <1>4

\* Every step keeps the invariant.
LEMMA NextIndInv == IndInv /\ [Next]_vars => IndInv'
<1> SUFFICES ASSUME IndInv, [Next]_vars PROVE IndInv'
  OBVIOUS
<1> USE DEF IndInv, TypeOK, Publication
<1>1. CASE Start
  BY <1>1 DEF Start, model, mirror, StopCloses, NoWorkLeftBehind, OnlyKnown,
              NothingForgotten, Coming
<1>2. CASE Post
  BY <1>2 DEF Post, model, mirror, StopCloses, NoWorkLeftBehind, OnlyKnown,
              NothingForgotten, Coming
<1>3. CASE RequestStop
  BY <1>3 DEF RequestStop, model, mirror, StopCloses, NoWorkLeftBehind,
              OnlyKnown, NothingForgotten, Coming
<1>4. CASE Join
  BY <1>4 DEF Join, queue, model, mirror, StopCloses, NoWorkLeftBehind,
              OnlyKnown, NothingForgotten, Coming
<1>5. ASSUME NEW root \in Root, TakePublished(root) PROVE IndInv'
  <2>1. TypeOK' /\ StopCloses' /\ NoWorkLeftBehind' /\ OnlyKnown'
    BY <1>5 DEF TakePublished, queue, model, Nothing, StopCloses,
                NoWorkLeftBehind, OnlyKnown
  <2>2. \A n \in Node, r \in Root : Coming(r, n)' = Coming(r, n)
    BY <1>5 DEF TakePublished, Nothing, Coming
  <2>3. NothingForgotten'
    BY <1>5, <2>2 DEF TakePublished, queue, model, NothingForgotten
  <2> QED BY <2>1, <2>3
<1>6. ASSUME NEW root \in Root, ApplyPublished(root) PROVE IndInv'
  <2>1. TypeOK' /\ StopCloses' /\ NoWorkLeftBehind' /\ OnlyKnown'
    BY <1>6 DEF ApplyPublished, queue, model, Nothing, StopCloses,
                NoWorkLeftBehind, OnlyKnown
  <2>2. \A n \in Node, r \in Root : Coming(r, n)' = Coming(r, n)
    BY <1>6 DEF ApplyPublished, Nothing, Coming
  <2>3. NothingForgotten'
    BY <1>6, <2>2 DEF ApplyPublished, queue, model, NothingForgotten
  <2> QED BY <2>1, <2>3
<1>7. CASE Top
  BY <1>7 DEF Top, queue, model, mirror, StopCloses, NoWorkLeftBehind,
              OnlyKnown, NothingForgotten, Coming
<1>8. CASE DrainWork
  <2>1. CASE /\ work > 0 /\ work' = work - 1
             /\ Effect
             /\ UNCHANGED <<pc, accept, stop, posted>>
    <3>1. StopCloses' /\ NoWorkLeftBehind' /\ work' \in Nat
      BY <1>8, <2>1 DEF DrainWork, StopCloses, NoWorkLeftBehind
    <3>2. \/ UNCHANGED <<model, mirror>>
          \/ \E changed \in SUBSET Node : Change(changed)
          \/ \E n \in Node, root \in Root :
               AttachNode(n, root) \/ DetachNode(n, root)
      BY <2>1 DEF Effect
    <3> QED BY <2>1, <3>1, <3>2, ModelStep
  <2>2. CASE /\ work = 0
             /\ pc' = IF pc = "Drain" THEN "Update" ELSE "Done"
             /\ UNCHANGED <<queue, model, mirror>>
    BY <1>8, <2>2 DEF DrainWork, queue, model, mirror, StopCloses,
                      NoWorkLeftBehind, OnlyKnown, NothingForgotten, Coming
  <2> QED BY <1>8, <2>1, <2>2 DEF DrainWork
<1>9. CASE UpdateAll
  <2>1. StopCloses' /\ NoWorkLeftBehind' /\ pc' = "Publish"
        /\ UNCHANGED <<work, accept, stop, posted>>
    BY <1>9 DEF UpdateAll, queue, StopCloses, NoWorkLeftBehind
  <2>2. \/ UNCHANGED <<model, mirror>>
        \/ \E changed \in SUBSET Node : Change(changed)
        \/ \E n \in Node, root \in Root :
             AttachNode(n, root) \/ DetachNode(n, root)
    BY <1>9 DEF UpdateAll
  <2> QED BY <2>1, <2>2, ModelStep
<1>10. CASE PublishChanged
  <2>1. TypeOK' /\ StopCloses' /\ NoWorkLeftBehind'
    BY <1>10 DEF PublishChanged, queue, StopCloses, NoWorkLeftBehind
  <2>2. OnlyKnown'
    BY <1>10 DEF PublishChanged, OnlyKnown
  <2>3. NothingForgotten'
    <3> SUFFICES ASSUME NEW n \in Node, NEW root \in mapped'[n]
                 PROVE  n \in pending'[root] \/ Coming(root, n)' = version'[n]
      BY DEF NothingForgotten
    <3>1. root \in Root /\ root \in mapped[n]
      BY <1>10 DEF PublishChanged
    <3>2. n \in pending[root] \/ Coming(root, n) = version[n]
      BY <3>1 DEF NothingForgotten
    <3>3. CASE Refused(root)
      BY <1>10, <3>1, <3>2, <3>3 DEF PublishChanged, Coming
    <3>4. CASE ~Refused(root) /\ n \in pending[root]
      BY <1>10, <3>1, <3>4 DEF PublishChanged, Coming
    <3>5. CASE ~Refused(root) /\ n \notin pending[root]
      <4>1. box[root][n] = 0
        BY <3>5 DEF Refused, Nothing
      <4>2. box'[root][n] = 0
        BY <1>10, <3>1, <3>5, <4>1 DEF PublishChanged
      <4> QED BY <1>10, <3>2, <3>5, <4>1, <4>2 DEF PublishChanged, Coming
    <3> QED BY <3>3, <3>4, <3>5
  <2> QED BY <2>1, <2>2, <2>3
<1>11. CASE Wait
  BY <1>11 DEF Wait, queue, model, mirror, StopCloses, NoWorkLeftBehind,
               OnlyKnown, NothingForgotten, Coming
<1>12. CASE UNCHANGED vars
  BY <1>12 DEF vars, StopCloses, NoWorkLeftBehind, OnlyKnown,
               NothingForgotten, Coming
<1> QED
  BY <1>1, <1>2, <1>3, <1>4, <1>5, <1>6, <1>7, <1>8, <1>9, <1>10, <1>11,
     <1>12 DEF Next, ThreadMain

\* IndInv holds in every reachable state of ModelRuntime.
THEOREM RuntimeIndInv == Spec => []IndInv
  BY InitIndInv, NextIndInv, PTL DEF Spec

\* The variables of ModelRuntime keep their types.
THEOREM RuntimeTypeOK == Spec => []TypeOK
  BY RuntimeIndInv, PTL DEF IndInv

\* Whatever the order of Post, RequestStop and the thread's loop, a thread
\* that has ended leaves no accepted work behind.
THEOREM RuntimeNoWorkLeftBehind == Spec => []NoWorkLeftBehind
  BY RuntimeIndInv, PTL DEF IndInv

\* However often the channels refuse and whatever is attached or detached, no
\* change of a node is lost on its way to a root the node is mapped to.
THEOREM RuntimeNothingForgotten == Spec => []NothingForgotten
  BY RuntimeIndInv, PTL DEF IndInv

-----------------------------------------------------------------------------
(***************************************************************************)
(* The channel.  Its state is not part of ModelRuntime, which models it as *)
(* the mailbox it implements (`box`).                                      *)
(***************************************************************************)
\* A consumer that owns the in_ui_ mark.
Owns(c) == cpc[c] \in {"clearPublished", "reading"}

Filling == ppc \in {"fill", "finish", "publish"}

\* While the producer is at work nothing is published: only it publishes.
ProducerExclusive ==
  /\ ppc # "idle" => published = NoSlot /\ msg \in Message
  /\ ppc \in {"loadInUi", "select"} => seen.published = NoSlot
  /\ ppc = "publish" => buffers[producer] = msg

\* in_ui_ is the slot of its only owner.
OneOwner ==
  /\ \A c \in Consumer : Owns(c) => in_ui = idx[c] /\ idx[c] \in Slot
  /\ \A c, d \in Consumer : Owns(c) /\ Owns(d) => c = d
  /\ \A c \in Consumer : cpc[c] = "markInUi" => idx[c] \in Slot

\* What is published or read is whole, and the reader's slot is known to a
\* producer that selects and avoided by one that fills.
ReaderSafe ==
  /\ published # NoSlot => buffers[published] \in Message
  /\ \A c \in Consumer : cpc[c] = "reading" =>
       /\ published # idx[c]
       /\ buffers[idx[c]] \in Message
       /\ ppc = "select" => seen.in_ui = idx[c]
       /\ Filling => producer # idx[c]

ChannelIndInv == ChannelTypeOK /\ ProducerExclusive /\ OneOwner /\ ReaderSafe

-----------------------------------------------------------------------------
LEMMA ChannelInitIndInv == ChannelInit => ChannelIndInv
  BY NAssumption
  DEF ChannelInit, ChannelIndInv, ChannelTypeOK, ProducerExclusive, OneOwner,
      ReaderSafe, Owns, Filling, Slot, NoSlot

LEMMA StepIndInv == ChannelIndInv /\ [ChannelNext]_channelVars => ChannelIndInv'
<1> SUFFICES ASSUME ChannelIndInv, [ChannelNext]_channelVars PROVE ChannelIndInv'
  OBVIOUS
<1> USE NAssumption, ContentAssumption
    DEF ChannelIndInv, Slot, NoSlot
<1>1. ASSUME NEW m \in Message, BeginPublish(m) PROVE ChannelIndInv'
  BY <1>1
  DEF BeginPublish, cvars, ChannelTypeOK, ProducerExclusive, OneOwner,
      ReaderSafe, Owns, Filling
<1>2. CASE AcquireLoadPublished
  BY <1>2
  DEF AcquireLoadPublished, cvars, ChannelTypeOK, ProducerExclusive, OneOwner,
      ReaderSafe, Owns, Filling
<1>3. CASE AcquireLoadInUi
  BY <1>3
  DEF AcquireLoadInUi, cvars, ChannelTypeOK, ProducerExclusive, OneOwner,
      ReaderSafe, Owns, Filling
<1>4. CASE AcquireSelect
  BY <1>4
  DEF AcquireSelect, FreeSlots, cvars, ChannelTypeOK, ProducerExclusive,
      OneOwner, ReaderSafe, Owns, Filling
<1>5. CASE FillPart
  BY <1>5
  DEF FillPart, cvars, ChannelTypeOK, ProducerExclusive, OneOwner, ReaderSafe,
      Owns, Filling
<1>6. CASE FillRest
  BY <1>6
  DEF FillRest, cvars, ChannelTypeOK, ProducerExclusive, OneOwner, ReaderSafe,
      Owns, Filling
<1>7. CASE PublishProducer
  BY <1>7
  DEF PublishProducer, cvars, ChannelTypeOK, ProducerExclusive, OneOwner,
      ReaderSafe, Owns, Filling
<1>8. ASSUME NEW c \in Consumer, Consume(c) PROVE ChannelIndInv'
  <2>1. CASE TakeLoad(c)
    BY <2>1
    DEF TakeLoad, pvars, ChannelTypeOK, ProducerExclusive, OneOwner,
        ReaderSafe, Owns, Filling
  <2>2. CASE TakeMarkInUi(c)
    BY <2>2
    DEF TakeMarkInUi, pvars, ChannelTypeOK, ProducerExclusive, OneOwner,
        ReaderSafe, Owns, Filling
  <2>3. CASE TakeFindsUiBusy(c)
    BY <2>3
    DEF TakeFindsUiBusy, pvars, ChannelTypeOK, ProducerExclusive, OneOwner,
        ReaderSafe, Owns, Filling
  <2>4. CASE TakeClearPublished(c)
    BY <2>4
    DEF TakeClearPublished, pvars, ChannelTypeOK, ProducerExclusive, OneOwner,
        ReaderSafe, Owns, Filling
  <2>5. CASE TakeLosesPublished(c)
    BY <2>5
    DEF TakeLosesPublished, pvars, ChannelTypeOK, ProducerExclusive, OneOwner,
        ReaderSafe, Owns, Filling
  <2>6. CASE ReleaseConsumer(c)
    BY <2>6
    DEF ReleaseConsumer, pvars, ChannelTypeOK, ProducerExclusive, OneOwner,
        ReaderSafe, Owns, Filling
  <2> QED
    BY <1>8, <2>1, <2>2, <2>3, <2>4, <2>5, <2>6 DEF Consume
<1>9. CASE UNCHANGED channelVars
  BY <1>9
  DEF channelVars, ChannelTypeOK, ProducerExclusive, OneOwner, ReaderSafe,
      Owns, Filling
<1> QED
  BY <1>1, <1>2, <1>3, <1>4, <1>5, <1>6, <1>7, <1>8, <1>9
  DEF ChannelNext, Produce

\* The inductive invariant of the channel holds in every reachable state.
THEOREM SpecIndInv == ChannelSpec => []ChannelIndInv
  BY ChannelInitIndInv, StepIndInv, PTL DEF ChannelSpec

\* The atomics, buffers and program counters stay in their ranges.
THEOREM ChannelWellTyped == ChannelSpec => []ChannelTypeOK
  BY SpecIndInv, PTL DEF ChannelIndInv

\* The asserts of AcquireProducer and PublishProducer never fail.
THEOREM ChannelAssertsHold == ChannelSpec => []AssertsHold
<1>1. ASSUME ChannelIndInv, ppc = "select" PROVE FreeSlots # {}
  <2>1. 0 \in Slot /\ 1 \in Slot /\ seen.published = NoSlot
    BY <1>1, NAssumption DEF ChannelIndInv, ProducerExclusive, Slot
  <2>2. 0 \in FreeSlots \/ 1 \in FreeSlots
    BY <2>1 DEF FreeSlots, NoSlot
  <2> QED
    BY <2>2
<1>2. ChannelIndInv => AssertsHold
  BY <1>1 DEF ChannelIndInv, ProducerExclusive, AssertsHold
<1> QED
  BY <1>2, SpecIndInv, PTL

\* AcquireProducer never hands out the slot that is published or being read.
THEOREM ChannelWriterAlone == ChannelSpec => []WriterAlone
<1>1. ChannelIndInv => WriterAlone
  BY DEF ChannelIndInv, ChannelTypeOK, ProducerExclusive, ReaderSafe,
         WriterAlone, Filling, Slot, NoSlot
<1> QED
  BY <1>1, SpecIndInv, PTL

-----------------------------------------------------------------------------
LEMMA InitRefines == ChannelInit => Box!Init
  BY NAssumption DEF ChannelInit, Box!Init, NoSlot

LEMMA StepRefines == ChannelIndInv /\ [ChannelNext]_channelVars => [Box!Next]_(Box!vars)
<1> SUFFICES ASSUME ChannelIndInv, [ChannelNext]_channelVars PROVE [Box!Next]_(Box!vars)
  OBVIOUS
<1> USE NAssumption, ContentAssumption
    DEF ChannelIndInv, ChannelTypeOK, Slot, NoSlot
<1>1. ASSUME NEW m \in Message, BeginPublish(m) PROVE UNCHANGED Box!vars
  BY <1>1 DEF BeginPublish, cvars, Box!vars
<1>2. CASE AcquireLoadPublished
  BY <1>2 DEF AcquireLoadPublished, cvars, Box!vars
<1>3. CASE AcquireLoadInUi
  BY <1>3 DEF AcquireLoadInUi, cvars, Box!vars
<1>4. CASE AcquireSelect
  BY <1>4
  DEF AcquireSelect, FreeSlots, ProducerExclusive, ReaderSafe, OneOwner, Owns,
      cvars, Box!vars
<1>5. CASE FillPart
  BY <1>5
  DEF FillPart, ProducerExclusive, ReaderSafe, OneOwner, Owns, Filling, cvars,
      Box!vars
<1>6. CASE FillRest
  BY <1>6
  DEF FillRest, ProducerExclusive, ReaderSafe, OneOwner, Owns, Filling, cvars,
      Box!vars
<1>7. CASE PublishProducer
  <2>1. Box!Put(msg)
    BY <1>7 DEF PublishProducer, ProducerExclusive, cvars, Box!Put
  <2> QED
    BY <1>7, <2>1 DEF PublishProducer, ProducerExclusive, Box!Next
<1>8. ASSUME NEW c \in Consumer, Consume(c) PROVE [Box!Next]_(Box!vars)
  <2>1. CASE TakeLoad(c)
    BY <2>1 DEF TakeLoad, pvars, Box!vars
  <2>2. CASE TakeMarkInUi(c)
    BY <2>2 DEF TakeMarkInUi, pvars, Box!vars
  <2>3. CASE TakeFindsUiBusy(c)
    BY <2>3 DEF TakeFindsUiBusy, pvars, Box!vars
  <2>4. CASE TakeClearPublished(c)
    <3>1. /\ published # NoSlot /\ published = idx[c] /\ published' = NoSlot
          /\ buffers[idx[c]] # None
          /\ cpc' = [cpc EXCEPT ![c] = "reading"]
          /\ UNCHANGED <<buffers, idx>>
      BY <2>4 DEF TakeClearPublished, OneOwner, Owns, ReaderSafe
    <3>2. \A d \in Consumer : cpc[d] # "reading"
      BY <2>4 DEF TakeClearPublished, OneOwner, Owns
    <3>3. \A d \in Consumer : cpc'[d] = "reading" <=> d = c
      BY <3>1, <3>2
    <3>4. Box!Take(c)
      BY <3>1, <3>2, <3>3, Zenon DEF Box!Take
    <3> QED
      BY <3>4 DEF Box!Next
  <2>5. CASE TakeLosesPublished(c)
    BY <2>5 DEF TakeLosesPublished, pvars, Box!vars
  <2>6. CASE ReleaseConsumer(c)
    <3>1. Box!Release(c)
      BY <2>6 DEF ReleaseConsumer, ReaderSafe, pvars, Box!Release
    <3> QED
      BY <3>1 DEF Box!Next
  <2> QED
    BY <1>8, <2>1, <2>2, <2>3, <2>4, <2>5, <2>6 DEF Consume
<1>9. CASE UNCHANGED channelVars
  BY <1>9 DEF channelVars, Box!vars
<1> QED
  BY <1>1, <1>2, <1>3, <1>4, <1>5, <1>6, <1>7, <1>8, <1>9
  DEF ChannelNext, Produce

\* Seen through the refinement mapping, every behaviour of the lock-free
\* channel is a behaviour of the one-message mailbox.
THEOREM ChannelImplementsMailbox == ChannelSpec => ImplementsMailbox
  BY InitRefines, StepRefines, SpecIndInv, PTL
  DEF ChannelSpec, Box!Spec, ImplementsMailbox
=============================================================================
