-------------------------- MODULE PublicationChannel --------------------------
(***************************************************************************)
(* PublicationChannel<N>: the lock-free hand-over of serialized model      *)
(* state from the model thread (the producer, UiMirror::Publish) to the    *)
(* presentation side (ApplyPublished, TakePublishedCopy).  Every access to *)
(* the atomics published_ and in_ui_ and every write into a buffer is a    *)
(* step of its own, so that all interleavings of the producer with the     *)
(* consumers are explored.  The atomics are sequentially consistent here;  *)
(* the code orders them by acquire and release.                            *)
(***************************************************************************)
EXTENDS Integers

CONSTANTS
  N,           \* number of buffers of the channel
  Message,     \* complete publications
  Consumer,    \* threads that call TakePublished
  None,        \* content of a cleared buffer
  Partial      \* content of a buffer while its bytes are being written

ASSUME NAssumption == N \in Nat /\ N >= 3

ASSUME ContentAssumption ==
  None \notin Message /\ Partial \notin Message /\ None # Partial

Slot == 0 .. N - 1

\* The value -1 of published_ and in_ui_: no slot.
NoSlot == -1

VARIABLES
  published,   \* published_: slot of the unread publication, or NoSlot
  in_ui,       \* in_ui_: slot marked by a consumer, or NoSlot
  buffers,     \* buffers_[i].sink
  producer,    \* producer_: the slot the producer fills
  ppc,         \* where the producer is
  seen,        \* the producer's loads of the two atomics in AcquireProducer
  msg,         \* the publication it is writing
  cpc,         \* where each consumer is
  idx          \* the local idx of each consumer's TakePublished

pvars == <<producer, ppc, seen, msg>>
cvars == <<cpc, idx>>
channelVars ==
  <<published, in_ui, buffers, producer, ppc, seen, msg, cpc, idx>>

ChannelInit ==
  /\ published = NoSlot
  /\ in_ui = NoSlot
  /\ buffers = [i \in Slot |-> None]
  /\ producer = 0
  /\ ppc = "idle"
  /\ seen = [published |-> NoSlot, in_ui |-> NoSlot]
  /\ msg = None
  /\ cpc = [c \in Consumer |-> "idle"]
  /\ idx = [c \in Consumer |-> NoSlot]

-----------------------------------------------------------------------------
(* The producer: UiMirror::Publish.                                        *)

\* Variant: Publish does not ask has_unread_published.
BeginPublish_Unchecked(m) ==
  /\ ppc = "idle"
  /\ msg' = m
  /\ ppc' = "loadPublished"
  /\ UNCHANGED <<published, in_ui, buffers, producer, seen, cvars>>

\* Publish goes on only when no unread publication waits.
BeginPublish(m) ==
  /\ ppc = "idle"
  /\ published = NoSlot
  /\ msg' = m
  /\ ppc' = "loadPublished"
  /\ UNCHANGED <<published, in_ui, buffers, producer, seen, cvars>>

AcquireLoadPublished ==
  /\ ppc = "loadPublished"
  /\ seen' = [seen EXCEPT !.published = published]
  /\ ppc' = "loadInUi"
  /\ UNCHANGED <<published, in_ui, buffers, producer, msg, cvars>>

AcquireLoadInUi ==
  /\ ppc = "loadInUi"
  /\ seen' = [seen EXCEPT !.in_ui = in_ui]
  /\ ppc' = "select"
  /\ UNCHANGED <<published, in_ui, buffers, producer, msg, cvars>>

\* Variant: AcquireProducer looks at published_ only.
FreeSlots_IgnoresUi == {i \in Slot : i # seen.published}

FreeSlots == {i \in Slot : i # seen.published /\ i # seen.in_ui}

\* The first slot that is neither published nor in the UI, as loaded.
AcquireSelect ==
  /\ ppc = "select"
  /\ \E i \in FreeSlots :
       /\ \A j \in FreeSlots : i <= j
       /\ producer' = i
       /\ buffers' = [buffers EXCEPT ![i] = None]
  /\ ppc' = "fill"
  /\ UNCHANGED <<published, in_ui, seen, msg, cvars>>

\* The bytes of the publication reach the buffer piece by piece.
FillPart ==
  /\ ppc = "fill"
  /\ buffers' = [buffers EXCEPT ![producer] = Partial]
  /\ ppc' = "finish"
  /\ UNCHANGED <<published, in_ui, producer, seen, msg, cvars>>

FillRest ==
  /\ ppc = "finish"
  /\ buffers' = [buffers EXCEPT ![producer] = msg]
  /\ ppc' = "publish"
  /\ UNCHANGED <<published, in_ui, producer, seen, msg, cvars>>

\* The compare-exchange -1 -> producer_; a failed one is the failed assert
\* (PublishFindsEmpty) and leaves published_ alone.
PublishProducer ==
  /\ ppc = "publish"
  /\ published' = IF published = NoSlot THEN producer ELSE published
  /\ ppc' = "idle"
  /\ msg' = None
  /\ UNCHANGED <<in_ui, buffers, producer, seen, cvars>>

Produce ==
  \/ \E m \in Message : BeginPublish(m)
  \/ AcquireLoadPublished \/ AcquireLoadInUi \/ AcquireSelect
  \/ FillPart \/ FillRest \/ PublishProducer

-----------------------------------------------------------------------------
(* A consumer: TakePublished, reading the buffer, ReleaseConsumer.         *)

TakeLoad(c) ==
  /\ cpc[c] = "idle"
  /\ published # NoSlot
  /\ idx' = [idx EXCEPT ![c] = published]
  /\ cpc' = [cpc EXCEPT ![c] = "markInUi"]
  /\ UNCHANGED <<published, in_ui, buffers, pvars>>

\* Variant: published_ is cleared before (and here without) marking in_ui_.
TakeMarkInUi_ClearsFirst(c) ==
  /\ cpc[c] = "markInUi"
  /\ published = idx[c]
  /\ published' = NoSlot
  /\ cpc' = [cpc EXCEPT ![c] = "reading"]
  /\ UNCHANGED <<in_ui, buffers, idx, pvars>>

TakeMarkInUi(c) ==
  /\ cpc[c] = "markInUi"
  /\ in_ui = NoSlot
  /\ in_ui' = idx[c]
  /\ cpc' = [cpc EXCEPT ![c] = "clearPublished"]
  /\ UNCHANGED <<published, buffers, idx, pvars>>

TakeFindsUiBusy(c) ==
  /\ cpc[c] = "markInUi"
  /\ in_ui # NoSlot
  /\ cpc' = [cpc EXCEPT ![c] = "idle"]
  /\ idx' = [idx EXCEPT ![c] = NoSlot]
  /\ UNCHANGED <<published, in_ui, buffers, pvars>>

TakeClearPublished(c) ==
  /\ cpc[c] = "clearPublished"
  /\ published = idx[c]
  /\ published' = NoSlot
  /\ cpc' = [cpc EXCEPT ![c] = "reading"]
  /\ UNCHANGED <<in_ui, buffers, idx, pvars>>

TakeLosesPublished(c) ==
  /\ cpc[c] = "clearPublished"
  /\ published # idx[c]
  /\ in_ui' = NoSlot
  /\ cpc' = [cpc EXCEPT ![c] = "idle"]
  /\ idx' = [idx EXCEPT ![c] = NoSlot]
  /\ UNCHANGED <<published, buffers, pvars>>

ReleaseConsumer(c) ==
  /\ cpc[c] = "reading"
  /\ in_ui' = NoSlot
  /\ cpc' = [cpc EXCEPT ![c] = "idle"]
  /\ idx' = [idx EXCEPT ![c] = NoSlot]
  /\ UNCHANGED <<published, buffers, pvars>>

Consume(c) ==
  \/ TakeLoad(c) \/ TakeMarkInUi(c) \/ TakeFindsUiBusy(c)
  \/ TakeClearPublished(c) \/ TakeLosesPublished(c) \/ ReleaseConsumer(c)

ChannelNext == Produce \/ \E c \in Consumer : Consume(c)

ChannelSpec == ChannelInit /\ [][ChannelNext]_channelVars

-----------------------------------------------------------------------------
ChannelTypeOK ==
  /\ published \in Slot \cup {NoSlot}
  /\ in_ui \in Slot \cup {NoSlot}
  /\ buffers \in [Slot -> Message \cup {None, Partial}]
  /\ producer \in Slot
  /\ ppc \in {"idle", "loadPublished", "loadInUi", "select", "fill",
              "finish", "publish"}
  /\ seen \in [published : Slot \cup {NoSlot}, in_ui : Slot \cup {NoSlot}]
  /\ msg \in Message \cup {None}
  /\ cpc \in [Consumer -> {"idle", "markInUi", "clearPublished", "reading"}]
  /\ idx \in [Consumer -> Slot \cup {NoSlot}]

\* The two asserts of the class: a producer that has checked
\* has_unread_published always finds a slot in AcquireProducer ("publication
\* channel exhausted") and an empty published_ in PublishProducer ("unread
\* publication must not be overwritten").
AssertsHold ==
  /\ ppc = "select" => FreeSlots # {}
  /\ ppc = "publish" => published = NoSlot

\* The reason TakePublished marks in_ui_ before it clears published_: the
\* slot the producer clears and fills is never the one a consumer is reading
\* nor the one waiting to be read.
WriterAlone ==
  ppc \in {"fill", "finish", "publish"} =>
    /\ producer # published
    /\ \A c \in Consumer : cpc[c] = "reading" => idx[c] # producer

\* The channel is a mailbox for one complete message (Mailbox): nothing
\* unread is overwritten, at most one consumer holds a publication, and what
\* it holds is whole and does not change under its hands.
Box == INSTANCE Mailbox WITH
         box  <- IF published = NoSlot THEN None ELSE buffers[published],
         held <- [c \in Consumer |->
                    IF cpc[c] = "reading" THEN buffers[idx[c]] ELSE None]

ImplementsMailbox == Box!Spec
=============================================================================
