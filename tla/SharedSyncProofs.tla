-------------------------- MODULE SharedSyncProofs --------------------------
(***************************************************************************)
(* Proofs about SharedSync, for any endpoints, shares, events and faults:  *)
(* an author never loses an event that somebody else has, what a share     *)
(* lists as delivered is on the disk of the endpoint it leads to, and a    *)
(* complete share leads to an endpoint that has it and the node.           *)
(*                                                                         *)
(* None of these is inductive.  The first is about two replicas and needs  *)
(* the same of every frame on the way and of every packet that may be sent *)
(* again.  The second needs that a snapshot is frozen once per sender and  *)
(* share, so that an acknowledgement, an old one included, speaks of the   *)
(* very journal its receiver stored.  The last two need the same promises  *)
(* of snapshots and acknowledgements on the way, and that a node which is  *)
(* not bound is still waited for.                                          *)
(***************************************************************************)
EXTENDS SharedSync, TLAPS

-----------------------------------------------------------------------------
(* The types.                                                              *)

TypeOK ==
  /\ node \in [Endpoint -> SharedNode \cup {None}]
  /\ disk \in [Endpoint -> SharedNode \cup {None}]
  /\ bound \in [Endpoint -> BOOLEAN]
  /\ expect \in [Endpoint -> SUBSET Endpoint]
  /\ sequence \in [Endpoint -> Nat]
  /\ used \subseteq ShareId
  /\ up \subseteq Endpoint
  /\ net \in [Direction -> Seq(Frame)]
  /\ outage \subseteq Direction
  /\ scenario \in Scenario

\* A frame f is on the way in direction d.
Carries(queues, d, f) == \E i \in 1 .. Len(queues[d]) : queues[d][i] = f

\* The copies of the node that endpoint r has, in memory or in storage.
Copies(r) == {node[r], disk[r]} \ {None}

\* A share's snapshot has been frozen by r and its packet id is about.
Begun(r, s) ==
  LET p == [from |-> r, share |-> s, event |-> None] IN
  \/ \E d \in Direction : \E f \in Frame : Carries(net, d, f) /\ f.packet = p
  \/ \E q \in Endpoint : \E n \in Copies(q) : \E t \in ShareId :
       \/ n.sync[t].received_packet = p
       \/ /\ n.sync[t].initial_packet # None
          /\ n.sync[t].initial_packet.packet = p

\* The snapshots that are on the way or may be sent again.
IsSnapshot(f) ==
  /\ f \in NodeStateFrame
  /\ \/ \E d \in Direction : Carries(net, d, f)
     \/ \E q \in Endpoint : \E n \in Copies(q) : \E t \in ShareId :
          n.sync[t].initial_packet = f

-----------------------------------------------------------------------------
(* The inductive invariant.                                                *)

\* The storage of q has all of the journal.
Holds(q, journal) == disk[q] # None /\ journal \subseteq disk[q].journal

\* The author of e will not forget it.
Safe(e) == Holds(e[1], {e})

\* q has what an acknowledgement of the packet says it has.
Answered(q, packet) ==
  /\ packet.event # None => Holds(q, {packet.event})
  /\ \A f \in NodeStateFrame :
       IsSnapshot(f) /\ f.packet = packet => Holds(q, f.journal)

\* A snapshot f that r froze.
SnapshotOK(r, f) ==
  /\ f.packet.from = r
  /\ f.shares \subseteq used
  /\ \A e \in f.journal : Safe(e)
  /\ Holds(r, f.journal)

SyncOK(r, s, state) ==
  /\ state.phase = "Pending" =>
       /\ state.initial_packet # None
       /\ state.covered = state.initial_packet.journal
  /\ state.initial_packet # None => SnapshotOK(r, state.initial_packet)
  /\ state.received_packet # None => Answered(r, state.received_packet)
  /\ state.event_packet # None => Safe(state.event_packet.event)
  /\ state.delivered # {} => Holds(LinkEndpoint[s], state.delivered)

CopyOK(r, n) ==
  /\ n.shares \subseteq used
  /\ \A e \in n.journal : e[1] = r \/ Safe(e)
  /\ \A s \in ShareId : SyncOK(r, s, n.sync[s])

FrameOK(d, f) ==
  /\ f.type = "NodeState" => SnapshotOK(d[1], f)
  /\ f.type = "Event" => Safe(f.packet.event)
  /\ f.type = "Ack" => Answered(d[1], f.packet)

\* What is in storage is in memory, and what memory has beyond it is the
\* endpoint's own.
StorageFirst ==
  \A r \in Endpoint :
    node[r] # None =>
      /\ disk[r] # None
      /\ disk[r].journal \subseteq node[r].journal
      /\ \A e \in node[r].journal : e[1] = r \/ e \in disk[r].journal

CopiesOK == \A r \in Endpoint : \A n \in Copies(r) : CopyOK(r, n)

FramesOK ==
  \A d \in Direction : \A f \in Frame : Carries(net, d, f) => FrameOK(d, f)

\* What is frozen once is not frozen again.
FrozenOnce ==
  /\ \A r \in Endpoint, s \in ShareId : Begun(r, s) => s \in used /\ disk[r] # None
  /\ \A r \in Endpoint : \A n \in Copies(r) : \A s \in n.shares :
       n.sync[s].phase = "NotStarted" => ~Begun(r, s)

\* Two snapshots of one packet are the same bytes.
SameBytes ==
  \A f, g \in NodeStateFrame :
    IsSnapshot(f) /\ IsSnapshot(g) /\ f.packet = g.packet =>
      f.journal = g.journal

IndInv ==
  /\ TypeOK
  /\ StorageFirst
  /\ CopiesOK
  /\ FramesOK
  /\ FrozenOnce
  /\ SameBytes

-----------------------------------------------------------------------------
(* Lemmas about the model's operators.                                     *)

\* The author of an event is an endpoint.
LEMMA EventAuthor == \A e \in EventId : e[1] \in Endpoint
BY DEF EventId

\* The next event of an author that has not reached its bound.
LEMMA NextEventId ==
  ASSUME NEW r \in Endpoint, NEW k \in Nat, k < MaxSequence[r]
  PROVE  <<r, k + 1>> \in EventId
BY BoundAssumption DEF EventId

\* The three kinds of frames are told apart by their type.
LEMMA FrameTypes ==
  \A f \in Frame :
    /\ f.packet \in PacketId
    /\ f.type = "NodeState" => f \in NodeStateFrame
    /\ f.type = "Event" => f \in EventFrame
    /\ f.type = "Ack" => f \in AckFrame
BY DEF Frame, NodeStateFrame, EventFrame, AckFrame, PacketId, SnapshotId,
       EventPacketId

\* Appending a frame, or losing it, adds nothing else to a queue.
LEMMA EnqueueCarries ==
  ASSUME NEW queues \in [Direction -> Seq(Frame)],
         NEW from \in Endpoint, NEW to \in Endpoint, from # to,
         NEW frame \in Frame
  PROVE  /\ Enqueue(queues, from, to, frame) \in [Direction -> Seq(Frame)]
         /\ \A d \in Direction, f \in Frame :
              Carries(Enqueue(queues, from, to, frame), d, f) =>
                \/ Carries(queues, d, f)
                \/ d = <<from, to>> /\ f = frame
<1>1. <<from, to>> \in Direction
  BY DEF Direction
<1>2. CASE <<from, to>> \in outage \/ Len(queues[<<from, to>>]) >= MaxQueue
  BY <1>2 DEF Enqueue
<1>3. CASE ~(<<from, to>> \in outage \/ Len(queues[<<from, to>>]) >= MaxQueue)
  <2>1. Enqueue(queues, from, to, frame) =
          [queues EXCEPT ![<<from, to>>] = Append(@, frame)]
    BY <1>3 DEF Enqueue
  <2>2. ASSUME NEW d \in Direction, NEW f \in Frame,
               Carries(Enqueue(queues, from, to, frame), d, f)
        PROVE  Carries(queues, d, f) \/ (d = <<from, to>> /\ f = frame)
    <3>1. CASE d = <<from, to>>
      <4> DEFINE q == queues[<<from, to>>]
      <4>1. q \in Seq(Frame)
        BY <1>1
      <4>2. PICK i \in 1 .. Len(Append(q, frame)) : Append(q, frame)[i] = f
        BY <1>1, <2>1, <2>2, <3>1 DEF Carries
      <4>3. i \in 1 .. Len(q) => q[i] = f
        BY <4>1, <4>2
      <4>4. i \notin 1 .. Len(q) => f = frame
        BY <4>1, <4>2
      <4> QED BY <3>1, <4>3, <4>4 DEF Carries
    <3>2. CASE d # <<from, to>>
      BY <2>1, <2>2, <3>2 DEF Carries
    <3> QED BY <3>1, <3>2
  <2>3. [queues EXCEPT ![<<from, to>>] = Append(@, frame)]
          \in [Direction -> Seq(Frame)]
    BY <1>1
  <2> QED BY <2>1, <2>2, <2>3
<1> QED BY <1>2, <1>3

\* Taking the first frame adds nothing.
LEMMA PoppedCarries ==
  ASSUME net \in [Direction -> Seq(Frame)],
         NEW from \in Endpoint, NEW to \in Endpoint, from # to,
         net[<<from, to>>] # << >>
  PROVE  /\ Popped(from, to) \in [Direction -> Seq(Frame)]
         /\ \A d \in Direction, f \in Frame :
              Carries(Popped(from, to), d, f) => Carries(net, d, f)
         /\ Head(net[<<from, to>>]) \in Frame
         /\ Carries(net, <<from, to>>, Head(net[<<from, to>>]))
<1>1. <<from, to>> \in Direction
  BY DEF Direction
<1>2. ASSUME NEW d \in Direction, NEW f \in Frame, Carries(Popped(from, to), d, f)
      PROVE  Carries(net, d, f)
  <2> DEFINE q == net[<<from, to>>]
  <2>1. CASE d = <<from, to>>
    <3>1. q \in Seq(Frame) /\ q # << >>
      BY <1>1
    <3>2. PICK i \in 1 .. Len(Tail(q)) : Tail(q)[i] = f
      BY <1>1, <1>2, <2>1 DEF Carries, Popped
    <3>3. i + 1 \in 1 .. Len(q) /\ q[i + 1] = f
      BY <3>1, <3>2
    <3> QED BY <2>1, <3>3 DEF Carries
  <2>2. CASE d # <<from, to>>
    BY <1>2, <2>2 DEF Carries, Popped
  <2> QED BY <2>1, <2>2
<1>3. Carries(net, <<from, to>>, Head(net[<<from, to>>]))
  <2> DEFINE q == net[<<from, to>>]
  <2>1. q \in Seq(Frame) /\ q # << >>
    BY <1>1
  <2>2. 1 \in 1 .. Len(q) /\ q[1] = Head(q)
    BY <2>1
  <2> QED BY <2>2 DEF Carries
<1>4. Popped(from, to) \in [Direction -> Seq(Frame)]
  BY <1>1 DEF Popped
<1> QED BY <1>1, <1>2, <1>3, <1>4

\* The sync states that the begin, complete and note operations lead to.
LEMMA SyncStates ==
  ASSUME NEW state \in LinkSyncState
  PROVE  /\ NewLinkSyncState \in LinkSyncState
         /\ \A f \in NodeStateFrame : BeginInitialSync(state, f) \in LinkSyncState
         /\ CompleteInitialSync(state) \in LinkSyncState
         /\ \A p \in SnapshotId :
              NoteInitialSyncReceived(state, p) \in LinkSyncState
         /\ \A journal \in SUBSET EventId :
              CompleteFromReceivedSnapshot(state, journal) \in LinkSyncState
         /\ \A p \in EventPacketId :
              BeginIncrementalEvent(state, p) \in LinkSyncState
         /\ state.event_packet # None =>
              CompleteIncrementalEvent(state) \in LinkSyncState
<1> USE DEF LinkSyncState, Phase
<1>1. NewLinkSyncState \in LinkSyncState
  BY DEF NewLinkSyncState
<1>2. \A f \in NodeStateFrame : BeginInitialSync(state, f) \in LinkSyncState
  BY DEF BeginInitialSync, NodeStateFrame
<1>3. CompleteInitialSync(state) \in LinkSyncState
  BY DEF CompleteInitialSync
<1>4. \A p \in SnapshotId : NoteInitialSyncReceived(state, p) \in LinkSyncState
  BY DEF NoteInitialSyncReceived
<1>5. \A journal \in SUBSET EventId :
        CompleteFromReceivedSnapshot(state, journal) \in LinkSyncState
  BY DEF CompleteFromReceivedSnapshot
<1>6. \A p \in EventPacketId : BeginIncrementalEvent(state, p) \in LinkSyncState
  BY DEF BeginIncrementalEvent
<1>7. state.event_packet # None => CompleteIncrementalEvent(state) \in LinkSyncState
  BY DEF CompleteIncrementalEvent, EventPacketId
<1> QED BY <1>1, <1>2, <1>3, <1>4, <1>5, <1>6, <1>7

\* A node whose sync state for one share is replaced.
LEMMA WithSync ==
  ASSUME NEW n \in SharedNode, NEW s \in ShareId, NEW state \in LinkSyncState
  PROVE  LET m == [n EXCEPT !.sync[s] = state]
         IN /\ m \in SharedNode
            /\ m.shares = n.shares /\ m.readOnly = n.readOnly
            /\ m.journal = n.journal
            /\ m.sync[s] = state
            /\ \A t \in ShareId : t # s => m.sync[t] = n.sync[t]
BY DEF SharedNode

\* A node whose journal grows.
LEMMA WithEvent ==
  ASSUME NEW n \in SharedNode, NEW e \in EventId
  PROVE  LET m == [n EXCEPT !.journal = @ \cup {e}]
         IN /\ m \in SharedNode
            /\ m.shares = n.shares /\ m.sync = n.sync
            /\ m.journal = n.journal \cup {e}
BY DEF SharedNode

-----------------------------------------------------------------------------
(* What a step keeps.                                                      *)

\* No step takes an event out of an endpoint's storage.
StorageGrows ==
  \A q \in Endpoint :
    disk[q] # None => /\ disk'[q] # None
                      /\ disk[q].journal \subseteq disk'[q].journal

\* A sync state that a step stores: every promise it makes held before the
\* step or holds after it.
AddedSync(r, s, state) ==
  /\ state.phase = "Pending" =>
       /\ state.initial_packet # None
       /\ state.covered = state.initial_packet.journal
  /\ state.initial_packet # None =>
       \/ SnapshotOK(r, state.initial_packet)
       \/ SnapshotOK(r, state.initial_packet)'
  /\ state.received_packet # None =>
       \/ Answered(r, state.received_packet)'
       \/ /\ Answered(r, state.received_packet)
          /\ Begun(state.received_packet.from, state.received_packet.share)
  /\ state.event_packet # None =>
       \/ Safe(state.event_packet.event)
       \/ Safe(state.event_packet.event)'
  /\ state.delivered # {} =>
       \/ Holds(LinkEndpoint[s], state.delivered)
       \/ Holds(LinkEndpoint[s], state.delivered)'

\* The packet of a snapshot that exists has been begun.
LEMMA SnapshotIsBegun ==
  ASSUME TypeOK, NEW f \in NodeStateFrame, IsSnapshot(f)
  PROVE  Begun(f.packet.from, f.packet.share)
<1>1. f \in Frame /\ f # None
  BY NoneAssumption DEF Frame
<1>2. f.packet = [from |-> f.packet.from, share |-> f.packet.share,
                  event |-> None]
  BY DEF NodeStateFrame, SnapshotId
<1> QED BY <1>1, <1>2, Zenon DEF IsSnapshot, Begun

\* What is said about storage stays true when storage and the given-out
\* shares only grow, and what is said about a begun packet stays true when
\* every new snapshot has a new packet.
LEMMA Stable ==
  ASSUME IndInv, TypeOK', StorageGrows, used \subseteq used',
         \A f \in NodeStateFrame :
           IsSnapshot(f)' =>
             IsSnapshot(f) \/ ~Begun(f.packet.from, f.packet.share)
  PROVE  /\ \A q \in Endpoint : \A journal : Holds(q, journal) => Holds(q, journal)'
         /\ \A e \in EventId : Safe(e) => Safe(e)'
         /\ \A r \in Endpoint, f \in NodeStateFrame :
              SnapshotOK(r, f) => SnapshotOK(r, f)'
         /\ \A q \in Endpoint, p \in PacketId :
              /\ Answered(q, p)
              /\ p.event = None => Begun(p.from, p.share)
              => Answered(q, p)'
         /\ \A r \in Endpoint, s \in ShareId, state \in LinkSyncState :
              AddedSync(r, s, state) => SyncOK(r, s, state)'
         /\ \A d \in Direction, f \in Frame :
              /\ FrameOK(d, f)
              /\ f.packet.event = None => Begun(f.packet.from, f.packet.share)
              => FrameOK(d, f)'
<1>1. ASSUME NEW q \in Endpoint, NEW journal, Holds(q, journal)
      PROVE  Holds(q, journal)'
  BY <1>1 DEF Holds, StorageGrows
<1>2. ASSUME NEW e \in EventId, Safe(e)
      PROVE  Safe(e)'
  BY <1>1, <1>2, EventAuthor DEF Safe
<1>3. ASSUME NEW r \in Endpoint, NEW f \in NodeStateFrame, SnapshotOK(r, f)
      PROVE  SnapshotOK(r, f)'
  <2>1. \A e \in f.journal : e \in EventId
    BY DEF NodeStateFrame
  <2> QED BY <1>1, <1>2, <1>3, <2>1 DEF SnapshotOK
<1>4. ASSUME NEW q \in Endpoint, NEW p \in PacketId, Answered(q, p),
             p.event = None => Begun(p.from, p.share)
      PROVE  Answered(q, p)'
  <2>1. p.event # None => Holds(q, {p.event})'
    BY <1>1, <1>4 DEF Answered
  <2>2. ASSUME NEW f \in NodeStateFrame, IsSnapshot(f)', f.packet = p
        PROVE  Holds(q, f.journal)'
    <3>1. p.event = None
      BY <2>2 DEF NodeStateFrame, SnapshotId
    <3>2. IsSnapshot(f)
      BY <1>4, <2>2, <3>1
    <3> QED BY <1>1, <1>4, <2>2, <3>2 DEF Answered
  <2> QED BY <2>1, <2>2 DEF Answered
<1>5. ASSUME NEW r \in Endpoint, NEW s \in ShareId, NEW state \in LinkSyncState,
             AddedSync(r, s, state)
      PROVE  SyncOK(r, s, state)'
  <2>1. state.initial_packet # None => SnapshotOK(r, state.initial_packet)'
    BY <1>3, <1>5 DEF AddedSync, LinkSyncState
  <2>2. state.received_packet # None => Answered(r, state.received_packet)'
    BY <1>4, <1>5 DEF AddedSync, LinkSyncState, PacketId
  <2>3. state.event_packet # None => Safe(state.event_packet.event)'
    BY <1>2, <1>5 DEF AddedSync, LinkSyncState, EventPacketId
  <2>4. state.delivered # {} => Holds(LinkEndpoint[s], state.delivered)'
    BY <1>1, <1>5, ShareAssumption DEF AddedSync
  <2> QED BY <1>5, <2>1, <2>2, <2>3, <2>4 DEF AddedSync, SyncOK
<1>6. ASSUME NEW d \in Direction, NEW f \in Frame, FrameOK(d, f),
             f.packet.event = None => Begun(f.packet.from, f.packet.share)
      PROVE  FrameOK(d, f)'
  <2>1. d[1] \in Endpoint
    BY DEF Direction
  <2>2. f.type = "NodeState" => SnapshotOK(d[1], f)'
    BY <1>3, <1>6, <2>1, FrameTypes DEF FrameOK
  <2>3. f.type = "Event" => Safe(f.packet.event)'
    BY <1>2, <1>6, FrameTypes DEF FrameOK, EventFrame, EventPacketId
  <2>4. f.type = "Ack" => Answered(d[1], f.packet)'
    BY <1>4, <1>6, <2>1, FrameTypes DEF FrameOK
  <2> QED BY <2>2, <2>3, <2>4 DEF FrameOK
<1> QED BY <1>1, <1>2, <1>3, <1>4, <1>5, <1>6

\* A step adds copies M at endpoint r, frames G in direction d and snapshots
\* Z of r, and nothing else.
Adds(r, M, d, G, Z) ==
  /\ \A q \in Endpoint : \A n \in Copies(q)' :
       n \in Copies(q) \/ (q = r /\ n \in M)
  /\ \A c \in Direction, f \in Frame :
       Carries(net', c, f) => Carries(net, c, f) \/ (c = d /\ f \in G)
  /\ \A f \in Z : \A g \in Z : f = g
  /\ Z # {} => disk'[r] # None /\ Copies(r)' \subseteq M

\* What the invariant asks of an added copy, frame and snapshot.
AddedCopy(r, m, Z) ==
  /\ m \in SharedNode
  /\ m.shares \subseteq used'
  /\ \A e \in m.journal : e[1] = r \/ Safe(e)
  /\ \A s \in ShareId :
       /\ m.sync[s].initial_packet # None =>
            IsSnapshot(m.sync[s].initial_packet) \/ m.sync[s].initial_packet \in Z
       /\ m.sync[s].received_packet # None =>
            Begun(m.sync[s].received_packet.from, m.sync[s].received_packet.share)
       /\ AddedSync(r, s, m.sync[s])
       /\ s \in m.shares /\ m.sync[s].phase = "NotStarted" =>
            ~Begun(r, s) /\ \A f \in Z : f.packet.share # s

AddedFrame(d, g, Z) ==
  /\ g \in Frame
  /\ g.type = "NodeState" => IsSnapshot(g) \/ g \in Z
  /\ g.packet.event = None =>
       \/ Begun(g.packet.from, g.packet.share)
       \/ g \in Z
  /\ \/ FrameOK(d, g)'
     \/ /\ FrameOK(d, g)
        /\ g.packet.event = None => Begun(g.packet.from, g.packet.share)

AddedSnapshot(r, f) ==
  /\ f \in NodeStateFrame
  /\ f.packet.from = r
  /\ f.packet.share \in used'
  /\ ~Begun(r, f.packet.share)

\* A packet that is the id of a snapshot.
LEMMA SnapshotPacket ==
  \A p \in PacketId :
    p.event = None =>
      p = [from |-> p.from, share |-> p.share, event |-> None]
BY NoneAssumption DEF PacketId, SnapshotId, EventPacketId

\* What copies and frames hold names packets that have been begun.
LEMMA HeldIsBegun ==
  ASSUME TypeOK
  PROVE  /\ \A q \in Endpoint : \A n \in Copies(q) : \A s \in ShareId :
              n.sync[s].received_packet # None =>
                Begun(n.sync[s].received_packet.from,
                      n.sync[s].received_packet.share)
         /\ \A d \in Direction, f \in Frame :
              Carries(net, d, f) /\ f.packet.event = None =>
                Begun(f.packet.from, f.packet.share)
<1>1. ASSUME NEW q \in Endpoint, NEW n \in Copies(q), NEW s \in ShareId,
             n.sync[s].received_packet # None
      PROVE  Begun(n.sync[s].received_packet.from,
                   n.sync[s].received_packet.share)
  <2> DEFINE p == n.sync[s].received_packet
  <2>1. p \in SnapshotId
    BY <1>1 DEF TypeOK, Copies, SharedNode, LinkSyncState
  <2>2. p = [from |-> p.from, share |-> p.share, event |-> None]
    BY <2>1 DEF SnapshotId
  <2> HIDE DEF p
  <2> QED BY <2>2, Zenon DEF p, Begun
<1>2. ASSUME NEW d \in Direction, NEW f \in Frame, Carries(net, d, f),
             f.packet.event = None
      PROVE  Begun(f.packet.from, f.packet.share)
  <2>1. f.packet = [from |-> f.packet.from, share |-> f.packet.share,
                    event |-> None]
    BY <1>2, FrameTypes, SnapshotPacket
  <2> QED BY <1>2, <2>1, Zenon DEF Begun
<1> QED BY <1>1, <1>2

\* A step that adds only what fits the invariant preserves it.
LEMMA Addition ==
  ASSUME IndInv, TypeOK', StorageFirst', StorageGrows, used \subseteq used',
         NEW r \in Endpoint, NEW M, NEW d, NEW G, NEW Z,
         Adds(r, M, d, G, Z),
         \A m \in M : AddedCopy(r, m, Z),
         \A g \in G : AddedFrame(d, g, Z),
         \A f \in Z : AddedSnapshot(r, f)
  PROVE  IndInv'
<1>1. ASSUME NEW f \in NodeStateFrame, IsSnapshot(f)'
      PROVE  IsSnapshot(f) \/ f \in Z
  <2>1. CASE \E c \in Direction : Carries(net', c, f)
    <3>1. f \in Frame /\ f.type = "NodeState"
      BY DEF Frame, NodeStateFrame
    <3>2. PICK c \in Direction : Carries(net', c, f)
      BY <2>1
    <3>3. CASE Carries(net, c, f)
      BY <3>3 DEF IsSnapshot
    <3>4. CASE f \in G
      BY <3>1, <3>4 DEF AddedFrame
    <3> QED BY <3>1, <3>2, <3>3, <3>4 DEF Adds
  <2>2. ASSUME NEW q \in Endpoint, NEW n \in Copies(q)', NEW t \in ShareId,
               n.sync[t].initial_packet = f
        PROVE  IsSnapshot(f) \/ f \in Z
    <3>1. CASE n \in Copies(q)
      BY <2>2, <3>1 DEF IsSnapshot
    <3>2. CASE q = r /\ n \in M
      BY <2>2, <3>2, NoneAssumption DEF AddedCopy
    <3> QED BY <3>1, <3>2 DEF Adds
  <2> QED BY <1>1, <2>1, <2>2 DEF IsSnapshot
<1>2. ASSUME NEW q \in Endpoint, NEW s \in ShareId, Begun(q, s)'
      PROVE  \/ Begun(q, s)
             \/ q = r /\ \E f \in Z : f.packet.share = s
  <2> DEFINE p == [from |-> q, share |-> s, event |-> None]
  <2>1. p.from = q /\ p.share = s /\ p.event = None
    OBVIOUS
  <2> HIDE DEF p
  <2>2. \A f \in Z : f.packet = p => q = r /\ f.packet.share = s
    BY <2>1 DEF AddedSnapshot
  <2>3. ASSUME NEW c \in Direction, NEW f \in Frame, Carries(net', c, f),
               f.packet = p
        PROVE  Begun(q, s) \/ f \in Z
    <3>1. CASE Carries(net, c, f)
      BY <2>3, <3>1 DEF Begun, p
    <3>2. CASE f \in G
      BY <2>1, <2>3, <3>2 DEF AddedFrame
    <3> QED BY <2>3, <3>1, <3>2 DEF Adds
  <2>4. ASSUME NEW c \in Endpoint, NEW n \in Copies(c)', NEW t \in ShareId,
               n.sync[t].received_packet = p
        PROVE  Begun(q, s)
    <3>1. CASE n \in Copies(c)
      BY <2>4, <3>1 DEF Begun, p
    <3>2. CASE n \in M
      <4>1. p # None
        BY NoneAssumption DEF p, PacketId, SnapshotId
      <4> QED BY <2>1, <2>4, <3>2, <4>1 DEF AddedCopy
    <3> QED BY <3>1, <3>2 DEF Adds
  <2>5. ASSUME NEW c \in Endpoint, NEW n \in Copies(c)', NEW t \in ShareId,
               n.sync[t].initial_packet # None,
               n.sync[t].initial_packet.packet = p
        PROVE  Begun(q, s) \/ n.sync[t].initial_packet \in Z
    <3>1. CASE n \in Copies(c)
      BY <2>5, <3>1 DEF Begun, p
    <3>2. CASE n \in M
      <4>1. \/ n.sync[t].initial_packet \in Z
            \/ IsSnapshot(n.sync[t].initial_packet)
        BY <2>5, <3>2 DEF AddedCopy
      <4>2. CASE IsSnapshot(n.sync[t].initial_packet)
        BY <2>1, <2>5, <4>2, SnapshotIsBegun DEF IndInv, IsSnapshot
      <4> QED BY <4>1, <4>2
    <3> QED BY <3>1, <3>2 DEF Adds
  <2>6. \/ \E c \in Direction : \E f \in Frame :
             Carries(net', c, f) /\ f.packet = p
        \/ \E c \in Endpoint : \E n \in Copies(c)' : \E t \in ShareId :
             \/ n.sync[t].received_packet = p
             \/ /\ n.sync[t].initial_packet # None
                /\ n.sync[t].initial_packet.packet = p
    BY <1>2 DEF Begun, p
  <2> QED BY <2>2, <2>3, <2>4, <2>5, <2>6
<1>3. \A f \in NodeStateFrame :
        IsSnapshot(f)' =>
          IsSnapshot(f) \/ ~Begun(f.packet.from, f.packet.share)
  BY <1>1 DEF AddedSnapshot
<1>4. CopiesOK'
  <2> SUFFICES ASSUME NEW q \in Endpoint, NEW n \in Copies(q)'
               PROVE  CopyOK(q, n)'
    BY DEF CopiesOK
  <2>1. n \in SharedNode
    BY DEF Copies, TypeOK
  <2>2. \A s \in ShareId : n.sync[s] \in LinkSyncState
    BY <2>1 DEF SharedNode
  <2>3. \A e \in n.journal : e \in EventId
    BY <2>1 DEF SharedNode
  <2>4. CASE n \in Copies(q)
    <3>1. CopyOK(q, n)
      BY <2>4 DEF IndInv, CopiesOK
    <3>2. \A s \in ShareId : AddedSync(q, s, n.sync[s])
      BY <2>4, <3>1, HeldIsBegun DEF CopyOK, SyncOK, AddedSync, IndInv
    <3>3. \A s \in ShareId : SyncOK(q, s, n.sync[s])'
      BY <1>3, <2>2, <3>2, Stable
    <3>4. \A e \in n.journal : e[1] = q \/ Safe(e)'
      BY <1>3, <2>3, <3>1, Stable DEF CopyOK
    <3> QED BY <3>1, <3>3, <3>4 DEF CopyOK
  <2>5. CASE q = r /\ n \in M
    <3>1. \A s \in ShareId : SyncOK(q, s, n.sync[s])'
      BY <1>3, <2>2, <2>5, Stable DEF AddedCopy
    <3>2. \A e \in n.journal : e[1] = q \/ Safe(e)'
      BY <1>3, <2>3, <2>5, Stable DEF AddedCopy
    <3> QED BY <2>5, <3>1, <3>2 DEF CopyOK, AddedCopy
  <2> QED BY <2>4, <2>5 DEF Adds
<1>5. FramesOK'
  <2> SUFFICES ASSUME NEW c \in Direction, NEW f \in Frame, Carries(net', c, f)
               PROVE  FrameOK(c, f)'
    BY DEF FramesOK
  <2>1. CASE Carries(net, c, f)
    BY <1>3, <2>1, HeldIsBegun, Stable DEF IndInv, FramesOK
  <2>2. CASE c = d /\ f \in G
    BY <1>3, <2>2, Stable DEF AddedFrame
  <2> QED BY <2>1, <2>2 DEF Adds
<1>6. FrozenOnce'
  <2>1. ASSUME NEW q \in Endpoint, NEW s \in ShareId, Begun(q, s)'
        PROVE  s \in used' /\ disk'[q] # None
    <3>1. CASE Begun(q, s)
      BY <3>1 DEF IndInv, FrozenOnce, StorageGrows
    <3>2. CASE q = r /\ \E f \in Z : f.packet.share = s
      BY <3>2 DEF Adds, AddedSnapshot
    <3> QED BY <1>2, <2>1, <3>1, <3>2
  <2>2. ASSUME NEW q \in Endpoint, NEW n \in Copies(q)', NEW s \in n.shares,
               n.sync[s].phase = "NotStarted"
        PROVE  ~Begun(q, s)'
    <3>1. s \in ShareId
      BY DEF TypeOK, Copies, SharedNode
    <3>2. CASE q = r /\ n \in M
      BY <1>2, <2>2, <3>1, <3>2 DEF AddedCopy
    <3>3. CASE n \in Copies(q) /\ ~(q = r /\ n \in M)
      <4>1. ~Begun(q, s)
        BY <2>2, <3>3 DEF IndInv, FrozenOnce
      <4>2. q = r => Z = {}
        BY <3>3 DEF Adds
      <4> QED BY <1>2, <3>1, <4>1, <4>2
    <3> QED BY <3>2, <3>3 DEF Adds
  <2> QED BY <2>1, <2>2 DEF FrozenOnce
<1>7. SameBytes'
  <2> SUFFICES ASSUME NEW f \in NodeStateFrame, NEW g \in NodeStateFrame,
                      IsSnapshot(f)', IsSnapshot(g)', f.packet = g.packet
               PROVE  f.journal = g.journal
    BY DEF SameBytes
  <2>1. CASE IsSnapshot(f) /\ IsSnapshot(g)
    BY <2>1 DEF IndInv, SameBytes
  <2>2. CASE f \in Z /\ g \in Z
    BY <2>2 DEF Adds
  <2>3. CASE f \in Z /\ IsSnapshot(g)
    BY <2>3, SnapshotIsBegun DEF AddedSnapshot, IndInv
  <2>4. CASE IsSnapshot(f) /\ g \in Z
    BY <2>4, SnapshotIsBegun DEF AddedSnapshot, IndInv
  <2> QED BY <1>1, <2>1, <2>2, <2>3, <2>4
<1> QED BY <1>4, <1>5, <1>6, <1>7 DEF IndInv

-----------------------------------------------------------------------------
(* The steps of one endpoint.                                              *)

\* What the invariant says of a copy that exists.
LEMMA CopyFacts ==
  ASSUME IndInv, NEW r \in Endpoint, NEW n \in Copies(r)
  PROVE  /\ n \in SharedNode
         /\ n.shares \subseteq used
         /\ \A e \in n.journal : e \in EventId /\ (e[1] = r \/ Safe(e))
         /\ \A s \in ShareId :
              /\ n.sync[s] \in LinkSyncState
              /\ n.sync[s].initial_packet # None =>
                   IsSnapshot(n.sync[s].initial_packet)
              /\ n.sync[s].received_packet # None =>
                   Begun(n.sync[s].received_packet.from,
                         n.sync[s].received_packet.share)
              /\ SyncOK(r, s, n.sync[s]) /\ AddedSync(r, s, n.sync[s])
              /\ s \in n.shares /\ n.sync[s].phase = "NotStarted" =>
                   ~Begun(r, s)
<1>1. n \in SharedNode
  BY DEF IndInv, TypeOK, Copies
<1>2. CopyOK(r, n)
  BY DEF IndInv, CopiesOK
<1>3. \A e \in n.journal : e \in EventId
  BY <1>1 DEF SharedNode
<1>4. ASSUME NEW s \in ShareId
      PROVE  /\ n.sync[s] \in LinkSyncState
             /\ n.sync[s].initial_packet # None =>
                  IsSnapshot(n.sync[s].initial_packet)
             /\ s \in n.shares /\ n.sync[s].phase = "NotStarted" =>
                  ~Begun(r, s)
  <2>1. n.sync[s] \in LinkSyncState
    BY <1>1 DEF SharedNode
  <2>2. n.sync[s].initial_packet \in NodeStateFrame \cup {None}
    BY <2>1 DEF LinkSyncState
  <2> QED BY <2>1, <2>2 DEF IsSnapshot, IndInv, FrozenOnce
<1>5. \A s \in ShareId :
        n.sync[s].received_packet # None =>
          Begun(n.sync[s].received_packet.from, n.sync[s].received_packet.share)
  BY HeldIsBegun DEF IndInv
<1>6. \A s \in ShareId : AddedSync(r, s, n.sync[s])
  BY <1>2, <1>5 DEF CopyOK, SyncOK, AddedSync
<1> QED BY <1>1, <1>2, <1>3, <1>4, <1>5, <1>6 DEF CopyOK

\* A new sync state promises nothing.
LEMMA NewSyncState ==
  \A r \in Endpoint, s \in ShareId :
    /\ NewLinkSyncState.initial_packet = None
    /\ NewLinkSyncState.received_packet = None
    /\ AddedSync(r, s, NewLinkSyncState)
BY DEF NewLinkSyncState, AddedSync

\* The node of r becomes m, in memory and perhaps in storage.
LEMMA CopyStep ==
  ASSUME IndInv, NEW r \in Endpoint, NEW m \in SharedNode,
         node' = [node EXCEPT ![r] = m],
         \/ /\ disk' = disk /\ disk[r] # None
            /\ \A e \in m.journal : e[1] = r \/ e \in disk[r].journal
         \/ disk' = [disk EXCEPT ![r] = m],
         disk[r] # None => disk[r].journal \subseteq m.journal
  PROVE  /\ node' \in [Endpoint -> SharedNode \cup {None}]
         /\ disk' \in [Endpoint -> SharedNode \cup {None}]
         /\ StorageFirst' /\ StorageGrows
         /\ \A q \in Endpoint : \A n \in Copies(q)' :
              n \in Copies(q) \/ (q = r /\ n \in {m})
         /\ disk' = [disk EXCEPT ![r] = m] =>
              disk'[r] # None /\ Copies(r)' \subseteq {m}
<1>1. m # None
  BY NoneAssumption
<1>2. /\ node' \in [Endpoint -> SharedNode \cup {None}]
      /\ disk' \in [Endpoint -> SharedNode \cup {None}]
  <2>1. disk' = disk \/ disk' = [disk EXCEPT ![r] = m]
    OBVIOUS
  <2>2. /\ node \in [Endpoint -> SharedNode \cup {None}]
        /\ disk \in [Endpoint -> SharedNode \cup {None}]
    BY DEF IndInv, TypeOK
  <2> QED BY <2>1, <2>2
<1>3. StorageFirst'
  BY <1>1, <1>2 DEF IndInv, TypeOK, StorageFirst
<1>4. StorageGrows
  BY <1>1, <1>2 DEF IndInv, TypeOK, StorageGrows
<1>5. \A q \in Endpoint : \A n \in Copies(q)' :
        n \in Copies(q) \/ (q = r /\ n \in {m})
  BY DEF IndInv, TypeOK, Copies
<1>6. disk' = [disk EXCEPT ![r] = m] => disk'[r] # None /\ Copies(r)' \subseteq {m}
  BY <1>1 DEF IndInv, TypeOK, Copies
<1> QED BY <1>2, <1>3, <1>4, <1>5, <1>6

\* The node of an endpoint that has one.
LEMMA NodeOf ==
  ASSUME IndInv, NEW r \in Endpoint, node[r] # None
  PROVE  /\ node[r] \in SharedNode /\ node[r] \in Copies(r)
         /\ disk[r] # None /\ disk[r] \in SharedNode
         /\ disk[r].journal \subseteq node[r].journal
         /\ \A e \in node[r].journal : e[1] = r \/ e \in disk[r].journal
BY DEF IndInv, TypeOK, Copies, StorageFirst

\* Steps that change no node and no queue.
LEMMA IdleStep ==
  ASSUME IndInv, UNCHANGED <<node, disk, net, used>>, TypeOK'
  PROVE  IndInv' /\ StorageGrows
<1>1. StorageGrows /\ StorageFirst'
  BY DEF IndInv, StorageFirst, StorageGrows
<1>2. Adds(Host, {}, <<Host, Host>>, {}, {})
  BY DEF Adds, Copies
<1> QED BY <1>1, <1>2, EndpointAssumption, Addition

\* CommitShared and SubmitDraft add one event of the endpoint's own.
LEMMA AuthorStep ==
  ASSUME IndInv, NEW r \in Endpoint, CommitShared(r) \/ SubmitDraft(r),
         UNCHANGED scenario
  PROVE  IndInv' /\ StorageGrows
<1>n. PICK n : n = node[r]
  OBVIOUS
<1>k. PICK k : k = sequence[r]
  OBVIOUS
<1> DEFINE e == <<r, k + 1>>
           m == [n EXCEPT !.journal = @ \cup {e}]
<1>1. /\ node[r] # None /\ sequence[r] < MaxSequence[r]
      /\ sequence' = [sequence EXCEPT ![r] = @ + 1]
      /\ node' = [node EXCEPT ![r] = m]
      /\ disk' = disk \/ disk' = [disk EXCEPT ![r] = m]
      /\ UNCHANGED <<bound, expect, used, up, net, outage>>
  BY <1>n, <1>k DEF CommitShared, SubmitDraft, CanAuthor, Authored
<1>2. e \in EventId
  BY <1>1, <1>k, NextEventId DEF IndInv, TypeOK
<1>3. /\ n \in SharedNode /\ n \in Copies(r) /\ disk[r] # None
      /\ disk[r].journal \subseteq n.journal
      /\ \A f \in n.journal : f[1] = r \/ f \in disk[r].journal
  BY <1>n, <1>1, NodeOf
<1>4. /\ m \in SharedNode
      /\ m.shares = n.shares /\ m.sync = n.sync
      /\ m.journal = n.journal \cup {e}
  BY <1>2, <1>3, WithEvent
<1> HIDE DEF m
<1>5. /\ node' \in [Endpoint -> SharedNode \cup {None}]
      /\ disk' \in [Endpoint -> SharedNode \cup {None}]
      /\ StorageFirst' /\ StorageGrows
      /\ \A q \in Endpoint : \A c \in Copies(q)' :
           c \in Copies(q) \/ (q = r /\ c \in {m})
  <2>1. \A f \in m.journal : f[1] = r \/ f \in disk[r].journal
    BY <1>3, <1>4
  <2>2. disk[r].journal \subseteq m.journal
    BY <1>3, <1>4
  <2> QED BY <1>1, <1>3, <1>4, <2>1, <2>2, CopyStep
<1>6. TypeOK'
  BY <1>1, <1>5 DEF IndInv, TypeOK
<1>7. AddedCopy(r, m, {})
  <2>1. \A f \in m.journal : f[1] = r \/ Safe(f)
    BY <1>3, <1>4, CopyFacts
  <2> QED BY <1>1, <1>3, <1>4, <2>1, CopyFacts DEF AddedCopy
<1>8. Adds(r, {m}, <<r, r>>, {}, {})
  BY <1>1, <1>5 DEF Adds
<1> QED BY <1>1, <1>5, <1>6, <1>7, <1>8, Addition

\* SaveModel, Crash and Restart copy memory to storage or back, or forget
\* memory; storage is behind memory, so nothing is lost from it.
LEMMA SaveStep ==
  ASSUME IndInv, NEW r \in Endpoint, SaveModel(r) \/ Crash(r) \/ Restart(r),
         UNCHANGED scenario
  PROVE  IndInv' /\ StorageGrows
<1>1. UNCHANGED <<bound, sequence, used, net, outage>>
  BY DEF SaveModel, Crash, Restart
<1>2. /\ node' \in [Endpoint -> SharedNode \cup {None}]
      /\ disk' \in [Endpoint -> SharedNode \cup {None}]
      /\ StorageFirst' /\ StorageGrows
      /\ \A q \in Endpoint : Copies(q)' \subseteq Copies(q)
  <2>1. CASE SaveModel(r)
    <3>1. node[r] # None /\ node' = node /\ disk' = [disk EXCEPT ![r] = node[r]]
      BY <2>1 DEF SaveModel
    <3> QED BY <3>1, NodeOf DEF IndInv, TypeOK, StorageFirst, StorageGrows, Copies
  <2>2. CASE Crash(r)
    <3>1. disk' = disk /\ node' = [node EXCEPT ![r] = None]
      BY <2>2 DEF Crash
    <3> QED BY <3>1 DEF IndInv, TypeOK, StorageFirst, StorageGrows, Copies
  <2>3. CASE Restart(r)
    <3>1. /\ disk' = disk
          /\ node' = [node EXCEPT ![r] = IF bound[r] THEN disk[r] ELSE None]
      BY <2>3 DEF Restart, RegisterNode
    <3> QED BY <3>1 DEF IndInv, TypeOK, StorageFirst, StorageGrows, Copies
  <2> QED BY <2>1, <2>2, <2>3
<1>3. up' \subseteq Endpoint /\ expect' \in [Endpoint -> SUBSET Endpoint]
  BY DEF SaveModel, Crash, Restart, IndInv, TypeOK
<1>4. TypeOK'
  BY <1>1, <1>2, <1>3 DEF IndInv, TypeOK
<1>5. Adds(r, {}, <<r, r>>, {}, {})
  BY <1>1, <1>2 DEF Adds
<1> QED BY <1>1, <1>2, <1>4, <1>5, Addition

\* AddShare opens a relationship that nothing has named before.
LEMMA AddShareStep ==
  ASSUME IndInv, NEW r \in Endpoint, NEW share \in ShareId, NEW access,
         AddShare(r, share, access), UNCHANGED scenario
  PROVE  IndInv' /\ StorageGrows
<1>n. PICK n : n = node[r]
  OBVIOUS
<1> DEFINE closed == IF access = "ReadOnly" THEN n.readOnly \cup {share}
                                            ELSE n.readOnly
           m == [n EXCEPT !.shares = @ \cup {share}, !.readOnly = closed,
                          !.sync[share] = NewLinkSyncState]
<1>1. /\ node[r] # None /\ share \notin used
      /\ used' = used \cup {share}
      /\ UNCHANGED <<disk, bound, expect, sequence, up, net, outage>>
  BY DEF AddShare
<1>2. node' = [node EXCEPT ![r] = m]
  <2>1. node' = [node EXCEPT ![r] = [n EXCEPT
                   !.shares = @ \cup {share},
                   !.readOnly = IF access = "ReadOnly" THEN @ \cup {share} ELSE @,
                   !.sync[share] = NewLinkSyncState]]
    BY <1>n DEF AddShare
  <2>2. n \in SharedNode
    BY <1>n, <1>1 DEF IndInv, TypeOK
  <2> QED BY <2>1, <2>2 DEF SharedNode
<1>3. /\ n \in SharedNode /\ n \in Copies(r) /\ disk[r] # None
      /\ disk[r].journal \subseteq n.journal
      /\ \A f \in n.journal : f[1] = r \/ f \in disk[r].journal
  BY <1>n, <1>1, NodeOf
<1>4. /\ m \in SharedNode /\ m.journal = n.journal
      /\ m.shares = n.shares \cup {share}
      /\ m.sync[share] = NewLinkSyncState
      /\ \A t \in ShareId : t # share => m.sync[t] = n.sync[t]
  <2>1. NewLinkSyncState \in LinkSyncState
    BY DEF NewLinkSyncState, LinkSyncState, Phase
  <2> QED BY <1>3, <2>1 DEF SharedNode
<1> HIDE DEF m
<1>5. /\ node' \in [Endpoint -> SharedNode \cup {None}]
      /\ disk' \in [Endpoint -> SharedNode \cup {None}]
      /\ StorageFirst' /\ StorageGrows
      /\ \A q \in Endpoint : \A c \in Copies(q)' :
           c \in Copies(q) \/ (q = r /\ c \in {m})
  BY <1>1, <1>2, <1>3, <1>4, CopyStep
<1>6. TypeOK'
  BY <1>1, <1>5 DEF IndInv, TypeOK
<1>7. AddedCopy(r, m, {})
  <2>1. ~Begun(r, share)
    BY <1>1 DEF IndInv, FrozenOnce
  <2>2. m.shares \subseteq used'
    BY <1>1, <1>3, <1>4, CopyFacts
  <2>3. ASSUME NEW s \in ShareId
        PROVE  /\ m.sync[s].initial_packet # None =>
                    IsSnapshot(m.sync[s].initial_packet)
               /\ m.sync[s].received_packet # None =>
                    Begun(m.sync[s].received_packet.from,
                          m.sync[s].received_packet.share)
               /\ AddedSync(r, s, m.sync[s])
               /\ s \in m.shares /\ m.sync[s].phase = "NotStarted" =>
                    ~Begun(r, s)
    <3>1. CASE s = share
      BY <1>4, <2>1, <3>1, NewSyncState
    <3>2. CASE s # share
      BY <1>3, <1>4, <3>2, CopyFacts
    <3> QED BY <3>1, <3>2
  <2>4. \A e \in m.journal : e[1] = r \/ Safe(e)
    BY <1>3, <1>4, CopyFacts
  <2> QED BY <1>4, <2>2, <2>3, <2>4 DEF AddedCopy
<1>8. Adds(r, {m}, <<r, r>>, {}, {})
  BY <1>1, <1>5 DEF Adds
<1> QED BY <1>1, <1>5, <1>6, <1>7, <1>8, Addition

\* RemoveShare forgets a relationship, SetShareAccess changes its access.
LEMMA EditStep ==
  ASSUME IndInv, NEW r \in Endpoint, NEW share \in ShareId, NEW access,
         RemoveShare(r, share) \/ SetShareAccess(r, share, access),
         UNCHANGED scenario
  PROVE  IndInv' /\ StorageGrows
<1>n. PICK n : n = node[r]
  OBVIOUS
<1>1. /\ node[r] # None
      /\ UNCHANGED <<disk, bound, expect, sequence, used, up, net, outage>>
  BY DEF RemoveShare, SetShareAccess
<1>2. /\ n \in SharedNode /\ n \in Copies(r) /\ disk[r] # None
      /\ disk[r].journal \subseteq n.journal
      /\ \A f \in n.journal : f[1] = r \/ f \in disk[r].journal
  BY <1>n, <1>1, NodeOf
<1>3. PICK m \in SharedNode :
        /\ node' = [node EXCEPT ![r] = m]
        /\ m.journal = n.journal
        /\ m.shares \subseteq n.shares
        /\ \A t \in ShareId :
             \/ m.sync[t] = n.sync[t]
             \/ t \notin m.shares /\ m.sync[t] = NewLinkSyncState
  <2>1. CASE RemoveShare(r, share)
    <3> DEFINE m == [n EXCEPT !.shares = @ \ {share},
                              !.readOnly = @ \ {share},
                              !.sync[share] = NewLinkSyncState]
    <3>1. node' = [node EXCEPT ![r] = m]
      BY <1>n, <2>1 DEF RemoveShare
    <3>2. NewLinkSyncState \in LinkSyncState
      BY DEF NewLinkSyncState, LinkSyncState, Phase
    <3>3. /\ m \in SharedNode /\ m.journal = n.journal
          /\ m.shares = n.shares \ {share}
          /\ m.sync[share] = NewLinkSyncState
          /\ \A t \in ShareId : t # share => m.sync[t] = n.sync[t]
      BY <1>2, <3>2 DEF SharedNode
    <3> HIDE DEF m
    <3> QED BY <3>1, <3>3
  <2>2. CASE SetShareAccess(r, share, access)
    <3> DEFINE m == [n EXCEPT !.readOnly = IF access = "ReadOnly"
                                           THEN @ \cup {share}
                                           ELSE @ \ {share}]
    <3>1. node' = [node EXCEPT ![r] = m]
      BY <1>n, <2>2 DEF SetShareAccess, IndInv, TypeOK
    <3>2. /\ m \in SharedNode /\ m.journal = n.journal
          /\ m.shares = n.shares /\ m.sync = n.sync
      BY <1>2 DEF SharedNode
    <3> HIDE DEF m
    <3> QED BY <3>1, <3>2
  <2> QED BY <2>1, <2>2
<1>5. /\ node' \in [Endpoint -> SharedNode \cup {None}]
      /\ disk' \in [Endpoint -> SharedNode \cup {None}]
      /\ StorageFirst' /\ StorageGrows
      /\ \A q \in Endpoint : \A c \in Copies(q)' :
           c \in Copies(q) \/ (q = r /\ c \in {m})
  BY <1>1, <1>2, <1>3, CopyStep
<1>6. TypeOK'
  BY <1>1, <1>5 DEF IndInv, TypeOK
<1>7. AddedCopy(r, m, {})
  <2>1. m.shares \subseteq used' /\ \A e \in m.journal : e[1] = r \/ Safe(e)
    BY <1>1, <1>2, <1>3, CopyFacts
  <2>2. ASSUME NEW s \in ShareId
        PROVE  /\ m.sync[s].initial_packet # None =>
                    IsSnapshot(m.sync[s].initial_packet)
               /\ m.sync[s].received_packet # None =>
                    Begun(m.sync[s].received_packet.from,
                          m.sync[s].received_packet.share)
               /\ AddedSync(r, s, m.sync[s])
               /\ s \in m.shares /\ m.sync[s].phase = "NotStarted" =>
                    ~Begun(r, s)
    BY <1>2, <1>3, CopyFacts, NewSyncState
  <2> QED BY <1>3, <2>1, <2>2 DEF AddedCopy
<1>8. Adds(r, {m}, <<r, r>>, {}, {})
  BY <1>1, <1>5 DEF Adds
<1> QED BY <1>1, <1>5, <1>6, <1>7, <1>8, Addition

-----------------------------------------------------------------------------
(* The sender.                                                             *)

\* What storage has before a step it has after it.
LEMMA StorageKeeps ==
  ASSUME StorageGrows
  PROVE  /\ \A q \in Endpoint : \A journal :
              Holds(q, journal) => Holds(q, journal)'
         /\ \A e \in EventId : Safe(e) => Safe(e)'
BY EventAuthor DEF StorageGrows, Holds, Safe

\* SyncInitialState freezes a snapshot once, saves it and sends it; after
\* that it sends what it froze.
LEMMA SyncInitialStateStep ==
  ASSUME IndInv, NEW r \in Endpoint, NEW share \in ShareId,
         SyncInitialState(r, share), UNCHANGED scenario
  PROVE  IndInv' /\ StorageGrows
<1>n. PICK n : n = node[r]
  OBVIOUS
<1> DEFINE state == n.sync[share]
           to == LinkEndpoint[share]
           frame == Frozen(n, r, share)
           after == BeginInitialSync(state, frame)
           m == [n EXCEPT !.sync[share] = after]
<1>1. /\ node[r] # None /\ share \in n.shares /\ r # to
      /\ to \in Endpoint
      /\ UNCHANGED <<bound, expect, sequence, used, up, outage>>
  BY <1>n, ShareAssumption DEF SyncInitialState, Drives
<1>2. /\ n \in SharedNode /\ n \in Copies(r) /\ disk[r] # None
      /\ disk[r].journal \subseteq n.journal
      /\ \A f \in n.journal : f[1] = r \/ f \in disk[r].journal
      /\ state \in LinkSyncState
  BY <1>n, <1>1, NodeOf, CopyFacts
<1>3. net \in [Direction -> Seq(Frame)]
  BY DEF IndInv, TypeOK
<1>4. CASE /\ state.phase = "Pending"
           /\ net' = Enqueue(net, r, to, state.initial_packet)
           /\ UNCHANGED <<node, disk>>
  <2> DEFINE g == state.initial_packet
  <2>1. g # None /\ SnapshotOK(r, g) /\ IsSnapshot(g)
    BY <1>2, <1>4, CopyFacts DEF SyncOK
  <2>2. g \in NodeStateFrame
    BY <1>2, <2>1 DEF LinkSyncState
  <2> HIDE DEF g
  <2>3. g \in Frame /\ g.type = "NodeState"
    BY <2>2 DEF Frame, NodeStateFrame
  <2>4. /\ net' \in [Direction -> Seq(Frame)]
        /\ \A d \in Direction, f \in Frame :
             Carries(net', d, f) =>
               Carries(net, d, f) \/ (d = <<r, to>> /\ f \in {g})
    BY <1>1, <1>3, <1>4, <2>3, EnqueueCarries DEF g
  <2>5. Begun(g.packet.from, g.packet.share)
    BY <2>1, <2>2, SnapshotIsBegun DEF IndInv
  <2>6. AddedFrame(<<r, to>>, g, {})
    BY <2>1, <2>3, <2>5 DEF AddedFrame, FrameOK
  <2>7. TypeOK' /\ StorageFirst' /\ StorageGrows
    BY <1>1, <1>4, <2>4 DEF IndInv, TypeOK, StorageFirst, StorageGrows
  <2>8. Adds(r, {}, <<r, to>>, {g}, {})
    BY <1>4, <2>4 DEF Adds, Copies
  <2> QED BY <1>1, <2>6, <2>7, <2>8, Addition
<1>5. CASE /\ state.phase = "NotStarted"
           /\ node' = [node EXCEPT ![r] = m]
           /\ disk' = [disk EXCEPT ![r] = m]
           /\ net' = Enqueue(net, r, to, frame)
  <2>1. /\ frame \in NodeStateFrame
        /\ frame.type = "NodeState" /\ frame.journal = n.journal
        /\ frame.shares = n.shares /\ frame.packet.from = r
        /\ frame.packet.share = share /\ frame.packet.event = None
    BY <1>2 DEF Frozen, NodeStateFrame, SnapshotId, SharedNode
  <2> HIDE DEF frame
  <2>2. frame \in Frame /\ frame # None
    BY <2>1, NoneAssumption DEF Frame
  <2>3. /\ after \in LinkSyncState
        /\ after.phase = "Pending" /\ after.initial_packet = frame
        /\ after.covered = frame.journal
        /\ after.received_packet = state.received_packet
        /\ after.event_packet = state.event_packet
        /\ after.delivered = state.delivered
    <3>1. after \in LinkSyncState
      BY <1>2, <2>1, SyncStates
    <3> QED BY <1>2, <3>1 DEF BeginInitialSync, LinkSyncState
  <2> HIDE DEF after
  <2>4. /\ m \in SharedNode
        /\ m.shares = n.shares /\ m.journal = n.journal
        /\ m.sync[share] = after
        /\ \A t \in ShareId : t # share => m.sync[t] = n.sync[t]
    BY <1>2, <2>3, WithSync
  <2> HIDE DEF m
  <2>5. /\ node' \in [Endpoint -> SharedNode \cup {None}]
        /\ disk' \in [Endpoint -> SharedNode \cup {None}]
        /\ StorageFirst' /\ StorageGrows
        /\ \A q \in Endpoint : \A c \in Copies(q)' :
             c \in Copies(q) \/ (q = r /\ c \in {m})
        /\ disk'[r] # None /\ Copies(r)' \subseteq {m}
    BY <1>2, <1>5, <2>4, CopyStep
  <2>6. /\ net' \in [Direction -> Seq(Frame)]
        /\ \A d \in Direction, f \in Frame :
             Carries(net', d, f) =>
               Carries(net, d, f) \/ (d = <<r, to>> /\ f \in {frame})
    BY <1>1, <1>3, <1>5, <2>2, EnqueueCarries
  <2>7. TypeOK'
    BY <1>1, <2>5, <2>6 DEF IndInv, TypeOK
  <2>8. SnapshotOK(r, frame)'
    <3>1. disk'[r] = m
      BY <1>5 DEF IndInv, TypeOK
    <3>2. Holds(r, frame.journal)'
      BY <2>1, <2>4, <2>5, <3>1 DEF Holds
    <3>3. \A e \in frame.journal : Safe(e)'
      BY <1>2, <2>1, <2>5, <3>2, CopyFacts, StorageKeeps DEF Safe, Holds
    <3>4. frame.shares \subseteq used'
      BY <1>1, <1>2, <2>1, CopyFacts
    <3> QED BY <2>1, <3>2, <3>3, <3>4 DEF SnapshotOK
  <2>9. AddedCopy(r, m, {frame})
    <3>1. m.shares \subseteq used' /\ \A e \in m.journal : e[1] = r \/ Safe(e)
      BY <1>1, <1>2, <2>4, CopyFacts
    <3>2. ASSUME NEW s \in ShareId
          PROVE  /\ m.sync[s].initial_packet # None =>
                      \/ IsSnapshot(m.sync[s].initial_packet)
                      \/ m.sync[s].initial_packet \in {frame}
                 /\ m.sync[s].received_packet # None =>
                      Begun(m.sync[s].received_packet.from,
                            m.sync[s].received_packet.share)
                 /\ AddedSync(r, s, m.sync[s])
                 /\ s \in m.shares /\ m.sync[s].phase = "NotStarted" =>
                      ~Begun(r, s) /\ \A f \in {frame} : f.packet.share # s
      <4>1. CASE s = share
        <5>1. AddedSync(r, share, after)
          BY <1>2, <2>2, <2>3, <2>8, CopyFacts DEF AddedSync
        <5> QED BY <1>2, <2>3, <2>4, <4>1, <5>1, CopyFacts
      <4>2. CASE s # share
        BY <1>2, <2>1, <2>4, <4>2, CopyFacts
      <4> QED BY <4>1, <4>2
    <3> QED BY <2>4, <3>1, <3>2 DEF AddedCopy
  <2>10. AddedFrame(<<r, to>>, frame, {frame})
    BY <2>1, <2>2, <2>8 DEF AddedFrame, FrameOK
  <2>11. AddedSnapshot(r, frame)
    BY <1>1, <1>2, <1>5, <2>1, CopyFacts DEF AddedSnapshot
  <2>12. Adds(r, {m}, <<r, to>>, {frame}, {frame})
    BY <2>5, <2>6 DEF Adds
  <2> QED BY <1>1, <2>5, <2>7, <2>9, <2>10, <2>11, <2>12, Addition
<1> QED BY <1>n, <1>4, <1>5 DEF SyncInitialState

\* SyncNextEvent saves the node, and with it the event, before the packet
\* goes out for the first time.
LEMMA SyncNextEventStep ==
  ASSUME IndInv, NEW r \in Endpoint, NEW share \in ShareId,
         SyncNextEvent(r, share), UNCHANGED scenario
  PROVE  IndInv' /\ StorageGrows
<1>n. PICK n : n = node[r]
  OBVIOUS
<1> DEFINE state == n.sync[share]
           to == LinkEndpoint[share]
           Packet(e) == [from |-> r, share |-> share, event |-> e]
           After(e) == BeginIncrementalEvent(state, Packet(e))
           Begin(e) == [n EXCEPT !.sync[share] = After(e)]
<1>1. /\ node[r] # None /\ share \in n.shares /\ r # to
      /\ to \in Endpoint /\ state.phase = "Complete"
      /\ UNCHANGED <<bound, expect, sequence, used, up, outage>>
  BY <1>n, ShareAssumption DEF SyncNextEvent, Drives
<1>2. /\ n \in SharedNode /\ n \in Copies(r) /\ disk[r] # None
      /\ disk[r].journal \subseteq n.journal
      /\ \A f \in n.journal : f[1] = r \/ f \in disk[r].journal
      /\ state \in LinkSyncState
  BY <1>n, <1>1, NodeOf, CopyFacts
<1>3. net \in [Direction -> Seq(Frame)]
  BY DEF IndInv, TypeOK
<1>4. CASE /\ state.event_packet # None
           /\ net' = Enqueue(net, r, to, FreezeEventPayload(state.event_packet))
           /\ UNCHANGED <<node, disk>>
  <2> DEFINE g == FreezeEventPayload(state.event_packet)
  <2>1. state.event_packet \in EventPacketId /\ Safe(state.event_packet.event)
    BY <1>2, <1>4, CopyFacts DEF SyncOK, LinkSyncState
  <2>2. g \in Frame /\ g.type = "Event" /\ g.packet = state.event_packet
    BY <2>1 DEF FreezeEventPayload, Frame, EventFrame
  <2> HIDE DEF g
  <2>3. g.packet.event # None
    BY <2>1, <2>2, NoneAssumption DEF EventPacketId
  <2>4. /\ net' \in [Direction -> Seq(Frame)]
        /\ \A d \in Direction, f \in Frame :
             Carries(net', d, f) =>
               Carries(net, d, f) \/ (d = <<r, to>> /\ f \in {g})
    BY <1>1, <1>3, <1>4, <2>2, EnqueueCarries DEF g
  <2>5. AddedFrame(<<r, to>>, g, {})
    BY <2>1, <2>2, <2>3 DEF AddedFrame, FrameOK
  <2>6. TypeOK' /\ StorageFirst' /\ StorageGrows
    BY <1>1, <1>4, <2>4 DEF IndInv, TypeOK, StorageFirst, StorageGrows
  <2>7. Adds(r, {}, <<r, to>>, {g}, {})
    BY <1>4, <2>4 DEF Adds, Copies
  <2> QED BY <1>1, <2>5, <2>6, <2>7, Addition
<1>5. ASSUME NEW e \in n.journal,
             node' = [node EXCEPT ![r] = Begin(e)],
             disk' = [disk EXCEPT ![r] = Begin(e)],
             net' = Enqueue(net, r, to, FreezeEventPayload(Packet(e)))
      PROVE  IndInv' /\ StorageGrows
  <2> DEFINE packet == Packet(e)
             g == FreezeEventPayload(packet)
             after == After(e)
             m == Begin(e)
  <2>1. e \in EventId /\ (e[1] = r \/ Safe(e))
    BY <1>2, CopyFacts
  <2>2. packet \in EventPacketId /\ packet.event = e
    BY <2>1 DEF EventPacketId
  <2> HIDE DEF packet, Packet
  <2>3. g \in Frame /\ g.type = "Event" /\ g.packet = packet
    BY <2>2 DEF FreezeEventPayload, Frame, EventFrame
  <2>4. /\ after \in LinkSyncState
        /\ after.phase = state.phase
        /\ after.initial_packet = state.initial_packet
        /\ after.covered = state.covered
        /\ after.received_packet = state.received_packet
        /\ after.event_packet = packet
        /\ after.delivered = state.delivered
    BY <1>2, <2>2, SyncStates DEF packet, BeginIncrementalEvent, LinkSyncState
  <2> HIDE DEF g, after, After
  <2>5. /\ m \in SharedNode
        /\ m.shares = n.shares /\ m.journal = n.journal
        /\ m.sync[share] = after
        /\ \A t \in ShareId : t # share => m.sync[t] = n.sync[t]
    BY <1>2, <2>4, WithSync DEF after
  <2> HIDE DEF m, Begin
  <2>6. /\ node' \in [Endpoint -> SharedNode \cup {None}]
        /\ disk' \in [Endpoint -> SharedNode \cup {None}]
        /\ StorageFirst' /\ StorageGrows
        /\ \A q \in Endpoint : \A c \in Copies(q)' :
             c \in Copies(q) \/ (q = r /\ c \in {m})
        /\ disk'[r] # None
    BY <1>2, <1>5, <2>5, CopyStep DEF m
  <2>7. /\ net' \in [Direction -> Seq(Frame)]
        /\ \A d \in Direction, f \in Frame :
             Carries(net', d, f) =>
               Carries(net, d, f) \/ (d = <<r, to>> /\ f \in {g})
    BY <1>1, <1>3, <1>5, <2>3, EnqueueCarries DEF g, packet
  <2>8. TypeOK'
    BY <1>1, <2>6, <2>7 DEF IndInv, TypeOK
  <2>9. Safe(e)'
    <3>1. disk'[r] = m
      BY <1>5 DEF IndInv, TypeOK, m
    <3> QED BY <2>1, <2>5, <2>6, <3>1, StorageKeeps DEF Safe, Holds
  <2>10. AddedCopy(r, m, {})
    <3>1. m.shares \subseteq used' /\ \A f \in m.journal : f[1] = r \/ Safe(f)
      BY <1>1, <1>2, <2>5, CopyFacts
    <3>2. ASSUME NEW s \in ShareId
          PROVE  /\ m.sync[s].initial_packet # None =>
                      IsSnapshot(m.sync[s].initial_packet)
                 /\ m.sync[s].received_packet # None =>
                      Begun(m.sync[s].received_packet.from,
                            m.sync[s].received_packet.share)
                 /\ AddedSync(r, s, m.sync[s])
                 /\ s \in m.shares /\ m.sync[s].phase = "NotStarted" =>
                      ~Begun(r, s)
      <4>1. CASE s = share
        <5>1. AddedSync(r, share, after)
          BY <1>2, <2>2, <2>4, <2>9, CopyFacts DEF AddedSync
        <5> QED BY <1>1, <1>2, <2>4, <2>5, <4>1, <5>1, CopyFacts
      <4>2. CASE s # share
        BY <1>2, <2>5, <4>2, CopyFacts
      <4> QED BY <4>1, <4>2
    <3> QED BY <2>5, <3>1, <3>2 DEF AddedCopy
  <2>11. AddedFrame(<<r, to>>, g, {})
    BY <2>1, <2>2, <2>3, <2>9, NoneAssumption DEF AddedFrame, FrameOK
  <2>12. Adds(r, {m}, <<r, to>>, {g}, {})
    BY <2>6, <2>7 DEF Adds
  <2> QED BY <1>1, <2>6, <2>8, <2>10, <2>11, <2>12, Addition
<1> QED
  BY <1>n, <1>4, <1>5 DEF SyncNextEvent, NextUndeliveredSharedEvents,
     UndeliveredSharedEvents

-----------------------------------------------------------------------------
(* The transport and the receiver.                                         *)

\* Losing a frame adds nothing, and neither does a second copy of a frame.
LEMMA TransportCarries ==
  ASSUME net \in [Direction -> Seq(Frame)],
         NEW from \in Endpoint, NEW to \in Endpoint, from # to,
         DropNext(from, to) \/ DuplicateNext(from, to)
  PROVE  /\ net' \in [Direction -> Seq(Frame)]
         /\ \A d \in Direction, f \in Frame :
              Carries(net', d, f) => Carries(net, d, f)
<1>1. net[<<from, to>>] # << >> /\ <<from, to>> \in Direction
  BY DEF DropNext, DuplicateNext, Direction
<1>2. PICK g : g = Head(net[<<from, to>>])
  OBVIOUS
<1>3. g \in Frame /\ Carries(net, <<from, to>>, g)
  BY <1>1, <1>2, PoppedCarries
<1>4. CASE DropNext(from, to)
  BY <1>1, <1>4, PoppedCarries DEF DropNext
<1>5. CASE DuplicateNext(from, to)
  <2> DEFINE q == net[<<from, to>>]
  <2>1. net' = [net EXCEPT ![<<from, to>>] = Append(q, g)]
    BY <1>2, <1>5 DEF DuplicateNext
  <2>2. q \in Seq(Frame)
    BY <1>1
  <2>3. Append(q, g) \in Seq(Frame)
    BY <1>3, <2>2
  <2>4. ASSUME NEW d \in Direction, NEW f \in Frame, Carries(net', d, f)
        PROVE  Carries(net, d, f)
    <3>1. CASE d = <<from, to>>
      <4>1. PICK i \in 1 .. Len(Append(q, g)) : Append(q, g)[i] = f
        BY <1>1, <2>1, <2>4, <3>1 DEF Carries
      <4>2. i \in 1 .. Len(q) => q[i] = f
        BY <2>2, <4>1
      <4>3. i \notin 1 .. Len(q) => f = g
        BY <2>2, <4>1
      <4> QED BY <1>3, <3>1, <4>2, <4>3 DEF Carries
    <3>2. CASE d # <<from, to>>
      BY <2>1, <2>4, <3>2 DEF Carries
    <3> QED BY <3>1, <3>2
  <2> QED BY <1>1, <2>1, <2>3, <2>4
<1> QED BY <1>4, <1>5

\* A second copy of a frame promises what the first one promised.
LEMMA TransportStep ==
  ASSUME IndInv, NEW from \in Endpoint, NEW to \in Endpoint, from # to,
         DropNext(from, to) \/ DuplicateNext(from, to), UNCHANGED scenario
  PROVE  IndInv' /\ StorageGrows
<1>1. UNCHANGED <<node, disk, bound, expect, sequence, used, up, outage>>
  BY DEF DropNext, DuplicateNext
<1>2. /\ net' \in [Direction -> Seq(Frame)]
      /\ \A d \in Direction, f \in Frame :
           Carries(net', d, f) => Carries(net, d, f)
  BY TransportCarries DEF IndInv, TypeOK
<1>3. TypeOK' /\ StorageFirst' /\ StorageGrows
  BY <1>1, <1>2 DEF IndInv, TypeOK, StorageFirst, StorageGrows
<1>4. Adds(from, {}, <<from, to>>, {}, {})
  BY <1>1, <1>2 DEF Adds, Copies
<1> QED BY <1>1, <1>3, <1>4, Addition

\* Outages and expectations touch neither nodes nor queues.
LEMMA SettingStep ==
  ASSUME IndInv, NEW from \in Endpoint, NEW to \in Endpoint, from # to,
         \/ Disconnect(from, to) \/ Reconnect(from, to)
         \/ ExpectInitialNodeFromEndpoint(to, from)
         \/ ForgetInitialNodeFromEndpoint(to, from),
         UNCHANGED scenario
  PROVE  IndInv' /\ StorageGrows
<1>1. UNCHANGED <<node, disk, bound, sequence, used, up, net>>
  BY DEF Disconnect, Reconnect, ExpectInitialNodeFromEndpoint,
         ForgetInitialNodeFromEndpoint
<1>2. outage' \subseteq Direction /\ expect' \in [Endpoint -> SUBSET Endpoint]
  <2>1. /\ outage \subseteq Direction /\ <<from, to>> \in Direction
        /\ expect \in [Endpoint -> SUBSET Endpoint]
    BY DEF IndInv, TypeOK, Direction
  <2>2. CASE Disconnect(from, to)
    BY <2>1, <2>2 DEF Disconnect
  <2>3. CASE Reconnect(from, to)
    BY <2>1, <2>3 DEF Reconnect
  <2>4. CASE ExpectInitialNodeFromEndpoint(to, from)
    BY <2>1, <2>4 DEF ExpectInitialNodeFromEndpoint
  <2>5. CASE ForgetInitialNodeFromEndpoint(to, from)
    BY <2>1, <2>5 DEF ForgetInitialNodeFromEndpoint
  <2> QED BY <2>2, <2>3, <2>4, <2>5
<1>3. TypeOK'
  BY <1>1, <1>2 DEF IndInv, TypeOK
<1> QED BY <1>1, <1>3, IdleStep

\* A step takes the first frame of a queue, and answers it or not.
Takes(from, to, frame) ==
  /\ net[<<from, to>>] # << >>
  /\ frame = Head(net[<<from, to>>])
  /\ \/ net' = Popped(from, to)
     \/ net' = Enqueue(Popped(from, to), to, from, Ack(frame))

\* A frame that is taken and answered, or taken and not answered.
LEMMA Answer ==
  ASSUME IndInv, NEW from \in Endpoint, NEW to \in Endpoint, from # to,
         NEW frame, Takes(from, to, frame)
  PROVE  /\ frame \in Frame /\ Carries(net, <<from, to>>, frame)
         /\ FrameOK(<<from, to>>, frame)
         /\ Ack(frame) \in Frame /\ Ack(frame).type = "Ack"
         /\ Ack(frame).packet = frame.packet
         /\ frame.packet.event = None =>
              Begun(frame.packet.from, frame.packet.share)
         /\ net' \in [Direction -> Seq(Frame)]
         /\ net' = Popped(from, to) =>
              \A d \in Direction, f \in Frame :
                Carries(net', d, f) => Carries(net, d, f)
         /\ \A d \in Direction, f \in Frame :
              Carries(net', d, f) =>
                Carries(net, d, f) \/ (d = <<to, from>> /\ f \in {Ack(frame)})
<1>1. net \in [Direction -> Seq(Frame)] /\ <<from, to>> \in Direction
  BY DEF IndInv, TypeOK, Direction
<1>2. /\ frame \in Frame /\ Carries(net, <<from, to>>, frame)
      /\ Popped(from, to) \in [Direction -> Seq(Frame)]
      /\ \A d \in Direction, f \in Frame :
           Carries(Popped(from, to), d, f) => Carries(net, d, f)
  BY <1>1, PoppedCarries DEF Takes
<1>3. frame.packet \in PacketId
  BY <1>2, FrameTypes
<1>4. /\ Ack(frame) \in Frame /\ Ack(frame).type = "Ack"
      /\ Ack(frame).packet = frame.packet
  BY <1>3 DEF Ack, Frame, AckFrame
<1>5. FrameOK(<<from, to>>, frame)
  BY <1>1, <1>2 DEF IndInv, FramesOK
<1>6. frame.packet.event = None => Begun(frame.packet.from, frame.packet.share)
  BY <1>1, <1>2, HeldIsBegun DEF IndInv
<1>7. /\ net' \in [Direction -> Seq(Frame)]
      /\ \A d \in Direction, f \in Frame :
           Carries(net', d, f) =>
             Carries(net, d, f) \/ (d = <<to, from>> /\ f \in {Ack(frame)})
  BY <1>2, <1>4, EnqueueCarries DEF Takes
<1> QED BY <1>2, <1>4, <1>5, <1>6, <1>7

\* OnAck takes an acknowledgement only for what is outstanding, and what the
\* frame answers its sender has stored.
LEMMA OnAckStep ==
  ASSUME IndInv, NEW source \in Endpoint, NEW r \in Endpoint, source # r,
         OnAck(source, r), UNCHANGED scenario
  PROVE  IndInv' /\ StorageGrows
<1>n. PICK n : n = node[r]
  OBVIOUS
<1>f. PICK frame : frame = Head(net[<<source, r>>])
  OBVIOUS
<1> DEFINE share == frame.packet.share
           state == n.sync[share]
           after == Acknowledged(state)
           m == [n EXCEPT !.sync[share] = after]
           open == /\ n # None
                   /\ share \in SharesOfEndpoint(n.shares, source)
                   /\ Acknowledges(state, frame)
<1>1. /\ net[<<source, r>>] # << >> /\ frame.type = "Ack"
      /\ net' = Popped(source, r)
      /\ node' = IF open THEN [node EXCEPT ![r] = m] ELSE node
      /\ disk' = IF open THEN [disk EXCEPT ![r] = m] ELSE disk
      /\ UNCHANGED <<bound, expect, sequence, used, up, outage>>
  BY <1>n, <1>f DEF OnAck, Delivers
<1>t. Takes(source, r, frame)
  BY <1>f, <1>1 DEF Takes
<1>2. /\ frame \in Frame /\ Answered(source, frame.packet)
      /\ net' \in [Direction -> Seq(Frame)]
      /\ \A d \in Direction, f \in Frame :
           Carries(net', d, f) => Carries(net, d, f)
  <2>1. frame.type = "Ack" /\ net' = Popped(source, r)
    BY <1>1
  <2>2. /\ frame \in Frame /\ FrameOK(<<source, r>>, frame)
        /\ net' \in [Direction -> Seq(Frame)]
        /\ \A d \in Direction, f \in Frame :
             Carries(net', d, f) => Carries(net, d, f)
    BY <1>t, <2>1, Answer
  <2> QED BY <2>1, <2>2 DEF FrameOK
<1>3. CASE ~open
  <2>1. TypeOK' /\ StorageFirst' /\ StorageGrows
    BY <1>1, <1>2, <1>3 DEF IndInv, TypeOK, StorageFirst, StorageGrows
  <2>2. Adds(r, {}, <<r, r>>, {}, {})
    BY <1>1, <1>2, <1>3 DEF Adds, Copies
  <2> QED BY <1>1, <2>1, <2>2, Addition
<1>4. CASE open
  <2>1. /\ n \in SharedNode /\ n \in Copies(r) /\ disk[r] # None
        /\ disk[r].journal \subseteq n.journal
    BY <1>n, <1>4, NodeOf
  <2>2. share \in n.shares /\ share \in ShareId /\ LinkEndpoint[share] = source
    BY <1>4, <2>1 DEF SharesOfEndpoint, SharedNode
  <2>3. state \in LinkSyncState /\ SyncOK(r, share, state)
    BY <2>1, <2>2, CopyFacts
  <2>4. /\ after \in LinkSyncState
        /\ after.phase = "Complete"
        /\ after.initial_packet # None =>
             after.initial_packet = state.initial_packet
        /\ after.received_packet = state.received_packet
        /\ after.event_packet # None => after.event_packet = state.event_packet
        /\ after.delivered # {} => Holds(source, after.delivered)
    <3>1. state.delivered # {} => Holds(source, state.delivered)
      BY <2>2, <2>3 DEF SyncOK
    <3>2. CASE state.phase = "Pending"
      <4>1. /\ state.initial_packet # None
            /\ state.initial_packet.packet = frame.packet
            /\ state.covered = state.initial_packet.journal
        BY <1>4, <2>3, <3>2 DEF Acknowledges, SyncOK
      <4>2. Holds(source, state.covered)
        <5>1. /\ state.initial_packet \in NodeStateFrame
              /\ IsSnapshot(state.initial_packet)
          BY <2>1, <2>2, <2>3, <4>1, CopyFacts DEF LinkSyncState
        <5> QED BY <1>2, <4>1, <5>1 DEF Answered
      <4>3. after = CompleteInitialSync(state)
        BY <3>2 DEF Acknowledged
      <4>4. after \in LinkSyncState
        BY <2>3, <4>3, SyncStates
      <4>5. /\ after.phase = "Complete" /\ after.initial_packet = None
            /\ after.received_packet = state.received_packet
            /\ after.event_packet = state.event_packet
            /\ after.delivered = state.delivered \cup state.covered
        BY <2>3, <4>3 DEF CompleteInitialSync, LinkSyncState
      <4> QED BY <3>1, <4>2, <4>4, <4>5 DEF Holds
    <3>3. CASE state.phase # "Pending"
      <4>1. state.phase = "Complete" /\ state.event_packet = frame.packet
        BY <1>4, <3>3 DEF Acknowledges
      <4>2. state.event_packet \in EventPacketId /\ state.event_packet # None
        <5>1. frame.packet # None
          BY <1>2, FrameTypes, NoneAssumption
        <5> QED BY <2>3, <4>1, <5>1 DEF LinkSyncState
      <4>3. state.event_packet.event \in EventId
        BY <4>2 DEF EventPacketId
      <4>4. Holds(source, {state.event_packet.event})
        BY <1>2, <4>1, <4>3, NoneAssumption DEF Answered
      <4>5. after = CompleteIncrementalEvent(state)
        BY <3>3 DEF Acknowledged
      <4>6. after \in LinkSyncState
        BY <2>3, <4>2, <4>5, SyncStates
      <4>7. /\ after.phase = "Complete"
            /\ after.initial_packet = state.initial_packet
            /\ after.received_packet = state.received_packet
            /\ after.event_packet = None
            /\ after.delivered = state.delivered \cup {state.event_packet.event}
        BY <2>3, <4>1, <4>5 DEF CompleteIncrementalEvent, LinkSyncState
      <4> QED BY <3>1, <4>4, <4>6, <4>7 DEF Holds
    <3> QED BY <3>2, <3>3
  <2> HIDE DEF after
  <2>6. /\ m \in SharedNode
        /\ m.shares = n.shares /\ m.journal = n.journal
        /\ m.sync[share] = after
        /\ \A t \in ShareId : t # share => m.sync[t] = n.sync[t]
    BY <2>1, <2>2, <2>4, WithSync
  <2> HIDE DEF m
  <2>7. /\ node' \in [Endpoint -> SharedNode \cup {None}]
        /\ disk' \in [Endpoint -> SharedNode \cup {None}]
        /\ StorageFirst' /\ StorageGrows
        /\ \A q \in Endpoint : \A c \in Copies(q)' :
             c \in Copies(q) \/ (q = r /\ c \in {m})
    BY <1>1, <1>4, <2>1, <2>6, CopyStep
  <2>8. TypeOK'
    BY <1>1, <1>2, <2>7 DEF IndInv, TypeOK
  <2>9. AddedCopy(r, m, {})
    <3>1. m.shares \subseteq used' /\ \A e \in m.journal : e[1] = r \/ Safe(e)
      BY <1>1, <2>1, <2>6, CopyFacts
    <3>2. ASSUME NEW s \in ShareId
          PROVE  /\ m.sync[s].initial_packet # None =>
                      IsSnapshot(m.sync[s].initial_packet)
                 /\ m.sync[s].received_packet # None =>
                      Begun(m.sync[s].received_packet.from,
                            m.sync[s].received_packet.share)
                 /\ AddedSync(r, s, m.sync[s])
                 /\ s \in m.shares /\ m.sync[s].phase = "NotStarted" =>
                      ~Begun(r, s)
      <4>1. CASE s = share
        <5>1. AddedSync(r, share, after)
          BY <2>1, <2>2, <2>4, CopyFacts DEF AddedSync
        <5> QED BY <2>1, <2>2, <2>4, <2>6, <4>1, <5>1, CopyFacts
      <4>2. CASE s # share
        BY <2>1, <2>6, <4>2, CopyFacts
      <4> QED BY <4>1, <4>2
    <3> QED BY <2>6, <3>1, <3>2 DEF AddedCopy
  <2>10. Adds(r, {m}, <<r, r>>, {}, {})
    BY <1>2, <2>7 DEF Adds
  <2> QED BY <1>1, <2>7, <2>8, <2>9, <2>10, Addition
<1> QED BY <1>3, <1>4

\* An event packet is answered by having the event.
LEMMA EventAnswered ==
  ASSUME NEW q, NEW p \in EventPacketId
  PROVE  /\ Holds(q, {p.event}) => Answered(q, p)
         /\ Holds(q, {p.event})' => Answered(q, p)'
<1>1. \A f \in NodeStateFrame : f.packet # p
  BY NoneAssumption DEF NodeStateFrame, SnapshotId, EventPacketId
<1> QED BY <1>1 DEF Answered

\* OnEvent acknowledges an event that is in storage, or that it has just put
\* there.
LEMMA OnEventStep ==
  ASSUME IndInv, NEW source \in Endpoint, NEW r \in Endpoint, source # r,
         OnEvent(source, r), UNCHANGED scenario
  PROVE  IndInv' /\ StorageGrows
<1>n. PICK n : n = node[r]
  OBVIOUS
<1>f. PICK frame : frame = Head(net[<<source, r>>])
  OBVIOUS
<1> DEFINE e == frame.packet.event
           m == [n EXCEPT !.journal = @ \cup {e}]
<1>1. /\ net[<<source, r>>] # << >> /\ frame.type = "Event"
      /\ \/ net' = Popped(source, r)
         \/ net' = Enqueue(Popped(source, r), r, source, Ack(frame))
      /\ UNCHANGED <<bound, expect, sequence, used, up, outage>>
  BY <1>f DEF OnEvent, Delivers
<1>t. Takes(source, r, frame)
  BY <1>f, <1>1 DEF Takes
<1>2. /\ frame \in Frame /\ FrameOK(<<source, r>>, frame)
      /\ Ack(frame) \in Frame /\ Ack(frame).type = "Ack"
      /\ Ack(frame).packet = frame.packet
      /\ net' \in [Direction -> Seq(Frame)]
      /\ net' = Popped(source, r) =>
           \A d \in Direction, f \in Frame :
             Carries(net', d, f) => Carries(net, d, f)
      /\ \A d \in Direction, f \in Frame :
           Carries(net', d, f) =>
             Carries(net, d, f) \/ (d = <<r, source>> /\ f \in {Ack(frame)})
  BY <1>t, Answer
<1>3. frame.packet \in EventPacketId /\ e \in EventId /\ Safe(e)
  BY <1>1, <1>2, FrameTypes DEF FrameOK, EventFrame, EventPacketId
<1>4. CASE UNCHANGED <<node, disk>> /\ net' = Popped(source, r)
  <2>1. TypeOK' /\ StorageFirst' /\ StorageGrows
    BY <1>1, <1>2, <1>4 DEF IndInv, TypeOK, StorageFirst, StorageGrows
  <2>2. Adds(r, {}, <<r, source>>, {}, {})
    BY <1>2, <1>4 DEF Adds, Copies
  <2> QED BY <1>1, <2>1, <2>2, Addition
<1>5. CASE UNCHANGED <<node, disk>> /\ n # None /\ e \in n.journal
  <2>1. Holds(r, {e})
    BY <1>n, <1>3, <1>5, NodeOf DEF Safe, Holds
  <2>2. AddedFrame(<<r, source>>, Ack(frame), {})
    BY <1>2, <1>3, <2>1, EventAnswered, NoneAssumption
    DEF AddedFrame, FrameOK
  <2>3. TypeOK' /\ StorageFirst' /\ StorageGrows
    BY <1>1, <1>2, <1>5 DEF IndInv, TypeOK, StorageFirst, StorageGrows
  <2>4. Adds(r, {}, <<r, source>>, {Ack(frame)}, {})
    BY <1>2, <1>5 DEF Adds, Copies
  <2> QED BY <1>1, <2>2, <2>3, <2>4, Addition
<1>6. CASE /\ n # None
           /\ node' = [node EXCEPT ![r] = m]
           /\ disk' = [disk EXCEPT ![r] = m]
  <2>1. /\ n \in SharedNode /\ n \in Copies(r)
        /\ disk[r].journal \subseteq n.journal
    BY <1>n, <1>6, NodeOf
  <2>2. /\ m \in SharedNode
        /\ m.shares = n.shares /\ m.sync = n.sync
        /\ m.journal = n.journal \cup {e}
    BY <1>3, <2>1, WithEvent
  <2> HIDE DEF m
  <2>3. /\ node' \in [Endpoint -> SharedNode \cup {None}]
        /\ disk' \in [Endpoint -> SharedNode \cup {None}]
        /\ StorageFirst' /\ StorageGrows
        /\ \A q \in Endpoint : \A c \in Copies(q)' :
             c \in Copies(q) \/ (q = r /\ c \in {m})
        /\ disk'[r] # None
    <3>1. disk[r].journal \subseteq m.journal
      BY <2>1, <2>2
    <3> QED BY <1>6, <2>2, <3>1, CopyStep
  <2>4. TypeOK'
    BY <1>1, <1>2, <2>3 DEF IndInv, TypeOK
  <2>5. AddedCopy(r, m, {})
    <3>1. \A f \in m.journal : f[1] = r \/ Safe(f)
      BY <1>3, <2>1, <2>2, CopyFacts
    <3> QED BY <1>1, <2>1, <2>2, <3>1, CopyFacts DEF AddedCopy
  <2>6. Holds(r, {e})'
    <3>1. disk'[r] = m
      BY <1>6 DEF IndInv, TypeOK
    <3> QED BY <2>2, <2>3, <3>1 DEF Holds
  <2>7. AddedFrame(<<r, source>>, Ack(frame), {})
    BY <1>2, <1>3, <2>6, EventAnswered, NoneAssumption
    DEF AddedFrame, FrameOK
  <2>8. Adds(r, {m}, <<r, source>>, {Ack(frame)}, {})
    BY <1>2, <2>3 DEF Adds
  <2> QED BY <1>1, <2>3, <2>4, <2>5, <2>7, <2>8, Addition
<1> QED BY <1>n, <1>f, <1>4, <1>5, <1>6 DEF OnEvent

\* An imported node: the journal is the snapshot's, nothing is frozen, the
\* share of the source is complete, and its own share names the packet.
LEMMA ImportedNode ==
  ASSUME NEW frame \in NodeStateFrame, NEW r, NEW source
  PROVE  LET m == Imported(r, source, frame)
         IN /\ m \in SharedNode
            /\ m.shares = frame.shares /\ m.journal = frame.journal
            /\ \A s \in ShareId :
                 /\ m.sync[s].initial_packet = None
                 /\ m.sync[s].event_packet = None
                 /\ m.sync[s].phase # "Pending"
                 /\ m.sync[s].phase = "Complete" =>
                      \/ s \in SharesOfEndpoint(frame.shares, source)
                      \/ s = frame.packet.share
                 /\ m.sync[s].received_packet # None =>
                      m.sync[s].received_packet = frame.packet
                 /\ m.sync[s].delivered # {} =>
                      /\ s \in SharesOfEndpoint(frame.shares, source)
                      /\ m.sync[s].delivered = frame.journal
<1> DEFINE m == Imported(r, source, frame)
           done == CompleteFromReceivedSnapshot(NewLinkSyncState, frame.journal)
           noted == NoteInitialSyncReceived(NewLinkSyncState, frame.packet)
           Sync(s) == CASE s \in SharesOfEndpoint(frame.shares, source) -> done
                        [] s = frame.packet.share -> noted
                        [] OTHER -> NewLinkSyncState
<1>1. NewLinkSyncState \in LinkSyncState
  BY DEF NewLinkSyncState, LinkSyncState, Phase
<1>2. frame.journal \in SUBSET EventId /\ frame.packet \in SnapshotId
  BY DEF NodeStateFrame
<1>3. done \in LinkSyncState /\ noted \in LinkSyncState
  BY <1>1, <1>2, SyncStates
<1>4. /\ done.initial_packet = None /\ done.event_packet = None
      /\ done.phase = "Complete" /\ done.received_packet = None
      /\ done.delivered = frame.journal
  BY DEF CompleteFromReceivedSnapshot, NewLinkSyncState
<1>5. /\ noted.initial_packet = None /\ noted.event_packet = None
      /\ noted.phase = "Complete" /\ noted.received_packet = frame.packet
      /\ noted.delivered = {}
  BY DEF NoteInitialSyncReceived, NewLinkSyncState
<1>6. /\ NewLinkSyncState.initial_packet = None
      /\ NewLinkSyncState.event_packet = None
      /\ NewLinkSyncState.phase = "NotStarted"
      /\ NewLinkSyncState.received_packet = None
      /\ NewLinkSyncState.delivered = {}
  BY DEF NewLinkSyncState
<1>7. m = [shares |-> frame.shares, readOnly |-> frame.readOnly,
           journal |-> frame.journal, sync |-> [s \in ShareId |-> Sync(s)]]
  BY DEF Imported
<1> HIDE DEF done, noted, m
<1>8. \A s \in ShareId :
        \/ Sync(s) = done /\ s \in SharesOfEndpoint(frame.shares, source)
        \/ Sync(s) = noted /\ s = frame.packet.share
        \/ Sync(s) = NewLinkSyncState
  OBVIOUS
<1> HIDE DEF Sync
<1>9. /\ m.shares = frame.shares /\ m.journal = frame.journal
      /\ m.readOnly = frame.readOnly
      /\ m.sync = [s \in ShareId |-> Sync(s)]
  BY <1>7
<1>10. [s \in ShareId |-> Sync(s)] \in [ShareId -> LinkSyncState]
  BY <1>1, <1>3, <1>8
<1>11. m \in SharedNode
  BY <1>7, <1>10 DEF SharedNode, NodeStateFrame
<1>12. ASSUME NEW s \in ShareId
       PROVE  /\ m.sync[s].initial_packet = None
              /\ m.sync[s].event_packet = None
              /\ m.sync[s].phase # "Pending"
              /\ m.sync[s].phase = "Complete" =>
                   \/ s \in SharesOfEndpoint(frame.shares, source)
                   \/ s = frame.packet.share
              /\ m.sync[s].received_packet # None =>
                   m.sync[s].received_packet = frame.packet
              /\ m.sync[s].delivered # {} =>
                   /\ s \in SharesOfEndpoint(frame.shares, source)
                   /\ m.sync[s].delivered = frame.journal
  <2>1. m.sync[s] = Sync(s)
    BY <1>9
  <2> QED BY <1>4, <1>5, <1>6, <1>8, <2>1
<1> QED BY <1>9, <1>11, <1>12 DEF m

\* OnNodeState stores a snapshot it imports and acknowledges it; one that it
\* has imported it acknowledges again; another one it does not answer.
LEMMA OnNodeStateStep ==
  ASSUME IndInv, NEW source \in Endpoint, NEW r \in Endpoint, source # r,
         NEW binds \in BOOLEAN, OnNodeState(source, r, binds),
         UNCHANGED scenario
  PROVE  IndInv' /\ StorageGrows
<1>f. PICK frame : frame = Head(net[<<source, r>>])
  OBVIOUS
<1> DEFINE m == Imported(r, source, frame)
<1>1. /\ net[<<source, r>>] # << >> /\ frame.type = "NodeState"
      /\ \/ net' = Popped(source, r)
         \/ net' = Enqueue(Popped(source, r), r, source, Ack(frame))
      /\ UNCHANGED <<sequence, used, up, outage>>
  BY <1>f DEF OnNodeState, Delivers, BindAndAck
<1>t. Takes(source, r, frame)
  BY <1>f, <1>1 DEF Takes
<1>2. /\ frame \in Frame /\ Carries(net, <<source, r>>, frame)
      /\ FrameOK(<<source, r>>, frame)
      /\ Ack(frame) \in Frame /\ Ack(frame).type = "Ack"
      /\ Ack(frame).packet = frame.packet
      /\ frame.packet.event = None =>
           Begun(frame.packet.from, frame.packet.share)
      /\ net' \in [Direction -> Seq(Frame)]
      /\ net' = Popped(source, r) =>
           \A d \in Direction, f \in Frame :
             Carries(net', d, f) => Carries(net, d, f)
      /\ \A d \in Direction, f \in Frame :
           Carries(net', d, f) =>
             Carries(net, d, f) \/ (d = <<r, source>> /\ f \in {Ack(frame)})
  BY <1>t, Answer
<1>3. frame \in NodeStateFrame /\ SnapshotOK(source, frame)
  BY <1>1, <1>2, FrameTypes DEF FrameOK
<1>4. /\ frame.packet \in SnapshotId /\ frame.packet.event = None
      /\ frame.packet.share \in ShareId /\ frame.packet.from \in Endpoint
      /\ Begun(frame.packet.from, frame.packet.share)
  BY <1>2, <1>3 DEF NodeStateFrame, SnapshotId
<1>5. bound' \in [Endpoint -> BOOLEAN] /\ expect' \in [Endpoint -> SUBSET Endpoint]
  <2>1. bound \in [Endpoint -> BOOLEAN] /\ expect \in [Endpoint -> SUBSET Endpoint]
    BY DEF IndInv, TypeOK
  <2>2. \/ bound' = bound
        \/ bound' = [bound EXCEPT ![r] = TRUE]
        \/ bound' = [bound EXCEPT ![r] = @ \/ r \in scenario.exact]
    BY DEF OnNodeState, BindAndAck
  <2>3. expect' = expect \/ expect' = [expect EXCEPT ![r] = @ \ {source}]
    BY DEF OnNodeState, BindAndAck
  <2>4. bound' \in [Endpoint -> BOOLEAN]
    BY <2>1, <2>2, Zenon
  <2> QED BY <2>1, <2>3, <2>4
<1>6. CASE UNCHANGED <<node, disk>> /\ net' = Popped(source, r)
  <2>1. TypeOK' /\ StorageFirst' /\ StorageGrows
    BY <1>1, <1>2, <1>5, <1>6 DEF IndInv, TypeOK, StorageFirst, StorageGrows
  <2>2. Adds(r, {}, <<r, source>>, {}, {})
    BY <1>2, <1>6 DEF Adds, Copies
  <2> QED BY <1>1, <2>1, <2>2, Addition
<1>7. CASE /\ UNCHANGED <<node, disk>> /\ node[r] # None
           /\ node[r].sync[frame.packet.share].received_packet = frame.packet
  <2>1. Answered(r, frame.packet)
    <3>1. frame.packet # None
      BY <1>4, NoneAssumption DEF PacketId
    <3> QED BY <1>4, <1>7, <3>1, NodeOf, CopyFacts DEF SyncOK
  <2>2. AddedFrame(<<r, source>>, Ack(frame), {})
    BY <1>2, <1>4, <2>1 DEF AddedFrame, FrameOK
  <2>3. TypeOK' /\ StorageFirst' /\ StorageGrows
    BY <1>1, <1>2, <1>5, <1>7 DEF IndInv, TypeOK, StorageFirst, StorageGrows
  <2>4. Adds(r, {}, <<r, source>>, {Ack(frame)}, {})
    BY <1>2, <1>7 DEF Adds, Copies
  <2> QED BY <1>1, <2>2, <2>3, <2>4, Addition
<1>8. CASE /\ node[r] = None /\ disk[r] = None
           /\ node' = [node EXCEPT ![r] = m]
           /\ disk' = [disk EXCEPT ![r] = m]
  <2>1. /\ m \in SharedNode
        /\ m.shares = frame.shares /\ m.journal = frame.journal
        /\ \A s \in ShareId :
             /\ m.sync[s].initial_packet = None
             /\ m.sync[s].event_packet = None
             /\ m.sync[s].phase # "Pending"
             /\ m.sync[s].received_packet # None =>
                  m.sync[s].received_packet = frame.packet
             /\ m.sync[s].delivered # {} =>
                  /\ s \in SharesOfEndpoint(frame.shares, source)
                  /\ m.sync[s].delivered = frame.journal
    BY <1>3, ImportedNode
  <2> HIDE DEF m
  <2>2. /\ node' \in [Endpoint -> SharedNode \cup {None}]
        /\ disk' \in [Endpoint -> SharedNode \cup {None}]
        /\ StorageFirst' /\ StorageGrows
        /\ \A q \in Endpoint : \A c \in Copies(q)' :
             c \in Copies(q) \/ (q = r /\ c \in {m})
        /\ disk'[r] # None
    BY <1>8, <2>1, CopyStep
  <2>3. TypeOK'
    BY <1>1, <1>2, <1>5, <2>2 DEF IndInv, TypeOK
  <2>4. ASSUME NEW f \in NodeStateFrame, IsSnapshot(f)'
        PROVE  IsSnapshot(f)
    <3>1. f # None /\ f \in Frame /\ f.type = "NodeState" /\ f # Ack(frame)
      BY <1>2, NoneAssumption DEF Frame, NodeStateFrame
    <3>2. ASSUME NEW d \in Direction, Carries(net', d, f)
          PROVE  Carries(net, d, f)
      BY <1>2, <3>1, <3>2
    <3>3. ASSUME NEW q \in Endpoint, NEW c \in Copies(q)', NEW t \in ShareId,
                 c.sync[t].initial_packet = f
          PROVE  c \in Copies(q)
      BY <2>1, <2>2, <3>1, <3>3
    <3> QED BY <2>4, <3>2, <3>3 DEF IsSnapshot
  <2>5. Answered(r, frame.packet)'
    <3>1. disk'[r] = m
      BY <1>8 DEF IndInv, TypeOK
    <3>2. IsSnapshot(frame)
      BY <1>2, <1>3 DEF IsSnapshot, Carries, Direction
    <3>3. ASSUME NEW f \in NodeStateFrame, IsSnapshot(f)',
                 f.packet = frame.packet
          PROVE  f.journal = frame.journal
      BY <1>3, <2>4, <3>2, <3>3 DEF IndInv, SameBytes
    <3> QED BY <1>4, <2>1, <2>2, <3>1, <3>3 DEF Answered, Holds
  <2>6. AddedCopy(r, m, {})
    <3>1. m.shares \subseteq used' /\ \A e \in m.journal : e[1] = r \/ Safe(e)
      BY <1>1, <1>3, <2>1 DEF SnapshotOK
    <3>2. ASSUME NEW s \in ShareId
          PROVE  AddedSync(r, s, m.sync[s])
      <4>1. m.sync[s].delivered # {} => Holds(LinkEndpoint[s], m.sync[s].delivered)
        BY <1>3, <2>1 DEF SharesOfEndpoint, SnapshotOK
      <4> QED BY <2>1, <2>5, <4>1 DEF AddedSync
    <3>3. ASSUME NEW s \in ShareId
          PROVE  ~Begun(r, s)
      BY <1>8 DEF IndInv, FrozenOnce
    <3> QED BY <1>4, <2>1, <3>1, <3>2, <3>3 DEF AddedCopy
  <2>7. AddedFrame(<<r, source>>, Ack(frame), {})
    BY <1>2, <1>4, <2>5 DEF AddedFrame, FrameOK
  <2>8. Adds(r, {m}, <<r, source>>, {Ack(frame)}, {})
    BY <1>2, <2>2 DEF Adds
  <2> QED BY <1>1, <2>2, <2>3, <2>6, <2>7, <2>8, Addition
<1> QED
  BY <1>f, <1>6, <1>7, <1>8
  DEF OnNodeState, AcceptsNodeState, ImportAdmissible, RegisterNode,
      CommitObjectGraph

-----------------------------------------------------------------------------
(* Complete relationships: the second invariant, on top of the first.      *)

\* Bindings do not fail where joins are given up.
Guarded == ~({"bindFails", "forget"} \subseteq scenario.faults)

\* The application of q has the node in its saved model.
Committed(q) == Guarded => bound[q]

\* The storage of q lists the shares, unless its user edits them.
Lists(q, shares) ==
  \/ q \in scenario.editors
  \/ disk[q] # None /\ shares \subseteq disk[q].shares

\* A complete share leads to an endpoint that has the node and the share; a
\* snapshot lists what its sender has.
SyncRelates(r, s, state) ==
  /\ state.phase = "Complete" /\ LinkEndpoint[s] # r =>
       Committed(LinkEndpoint[s]) /\ Lists(LinkEndpoint[s], {s})
  /\ state.initial_packet # None => Lists(r, state.initial_packet.shares)

\* The sender of a snapshot has the node, and so has the one that answers it.
FrameRelates(d, f) ==
  /\ f.type = "NodeState" => Committed(d[1]) /\ Lists(d[1], f.shares)
  /\ f.type = "Ack" /\ f.packet.event = None =>
       Committed(d[1]) /\ Lists(d[1], {f.packet.share})

CopiesRelate ==
  \A r \in Endpoint : \A n \in Copies(r) : \A s \in ShareId :
    SyncRelates(r, s, n.sync[s])

FramesRelate ==
  \A d \in Direction, f \in Frame : Carries(net, d, f) => FrameRelates(d, f)

\* Where nobody edits, memory and storage list the same shares.
SameShares ==
  \A r \in Endpoint : node[r] # None /\ r \notin scenario.editors =>
    node[r].shares = disk[r].shares

\* A node that no model refers to was imported and its binding failed; the
\* expectation that brought it is still open.
UnboundWaits(r) ==
  node[r] # None /\ ~bound[r] =>
    /\ "bindFails" \in scenario.faults
    /\ Guarded =>
         \A s \in ShareId : node[r].sync[s].received_packet # None =>
           \/ node[r].sync[s].received_packet.from \in expect[r]
           \/ r \in scenario.exact

RelInv ==
  /\ CopiesRelate
  /\ FramesRelate
  /\ SameShares
  /\ \A r \in Endpoint : UnboundWaits(r)

\* What a step keeps of bindings and, where nobody edits, of stored shares.
Retains ==
  /\ scenario' = scenario
  /\ \A q \in Endpoint : bound[q] => bound'[q]
  /\ \A q \in Endpoint \ scenario.editors :
       disk[q] # None => /\ disk'[q] # None
                         /\ disk[q].shares \subseteq disk'[q].shares

\* What is promised about the other end stays true.
LEMMA RelationsStable ==
  ASSUME Retains
  PROVE  /\ \A q \in Endpoint : Committed(q) => Committed(q)'
         /\ \A q \in Endpoint : \A shares : Lists(q, shares) => Lists(q, shares)'
         /\ \A r \in Endpoint, s \in ShareId : \A state :
              SyncRelates(r, s, state) => SyncRelates(r, s, state)'
         /\ \A d \in Direction : \A f :
              FrameRelates(d, f) => FrameRelates(d, f)'
<1>1. ASSUME NEW q \in Endpoint, Committed(q)
      PROVE  Committed(q)'
  BY <1>1 DEF Retains, Committed, Guarded
<1>2. ASSUME NEW q \in Endpoint, NEW shares, Lists(q, shares)
      PROVE  Lists(q, shares)'
  BY <1>2 DEF Retains, Lists
<1>3. ASSUME NEW r \in Endpoint, NEW s \in ShareId, NEW state,
             SyncRelates(r, s, state)
      PROVE  SyncRelates(r, s, state)'
  <2>1. LinkEndpoint[s] \in Endpoint
    BY ShareAssumption
  <2> QED BY <1>1, <1>2, <1>3, <2>1 DEF SyncRelates
<1>4. ASSUME NEW d \in Direction, NEW f, FrameRelates(d, f)
      PROVE  FrameRelates(d, f)'
  <2>1. d[1] \in Endpoint
    BY DEF Direction
  <2> QED BY <1>1, <1>2, <1>4, <2>1 DEF FrameRelates
<1> QED BY <1>1, <1>2, <1>3, <1>4

\* A step that adds copies and frames whose promises hold.
LEMMA RelationsAdded ==
  ASSUME RelInv, Retains, NEW r \in Endpoint, NEW M, NEW d, NEW G,
         Adds(r, M, d, G, {}),
         \A m \in M : \A s \in ShareId :
           SyncRelates(r, s, m.sync[s]) \/ SyncRelates(r, s, m.sync[s])',
         \A g \in G : FrameRelates(d, g) \/ FrameRelates(d, g)'
  PROVE  CopiesRelate' /\ FramesRelate'
<1>1. ASSUME NEW q \in Endpoint, NEW n \in Copies(q)', NEW s \in ShareId
      PROVE  SyncRelates(q, s, n.sync[s])'
  <2>1. n \in Copies(q) \/ (q = r /\ n \in M)
    BY DEF Adds
  <2>2. SyncRelates(q, s, n.sync[s]) \/ SyncRelates(q, s, n.sync[s])'
    BY <2>1 DEF RelInv, CopiesRelate
  <2> QED BY <2>2, RelationsStable
<1>2. ASSUME NEW c \in Direction, NEW f \in Frame, Carries(net', c, f)
      PROVE  FrameRelates(c, f)'
  <2>1. FrameRelates(c, f) \/ FrameRelates(c, f)'
    BY <1>2 DEF Adds, RelInv, FramesRelate
  <2> QED BY <2>1, RelationsStable
<1> QED BY <1>1, <1>2 DEF CopiesRelate, FramesRelate

\* The node of r becomes m, with the shares and the receipts it had.
LEMMA NodeStep ==
  ASSUME IndInv, RelInv, NEW r \in Endpoint, node[r] # None, NEW m \in SharedNode,
         m.shares = node[r].shares,
         \A s \in ShareId :
           m.sync[s].received_packet = node[r].sync[s].received_packet,
         node' = [node EXCEPT ![r] = m],
         disk' = disk \/ disk' = [disk EXCEPT ![r] = m],
         UNCHANGED <<bound, expect, scenario>>
  PROVE  /\ Retains
         /\ SameShares'
         /\ \A q \in Endpoint : UnboundWaits(q)'
         /\ \A q \in Endpoint : \A n \in Copies(q)' :
              n \in Copies(q) \/ (q = r /\ n \in {m})
         /\ disk' = [disk EXCEPT ![r] = m] => Lists(r, m.shares)'
<1>1. /\ node \in [Endpoint -> SharedNode \cup {None}]
      /\ disk \in [Endpoint -> SharedNode \cup {None}]
      /\ m # None
  BY NoneAssumption DEF IndInv, TypeOK
<1>2. disk[r] # None /\ (r \notin scenario.editors => m.shares = disk[r].shares)
  BY NodeOf DEF RelInv, SameShares
<1>3. Retains
  BY <1>1, <1>2 DEF Retains
<1>4. SameShares'
  BY <1>1, <1>2 DEF RelInv, SameShares
<1>5. ASSUME NEW q \in Endpoint
      PROVE  UnboundWaits(q)'
  <2>1. UnboundWaits(q)
    BY DEF RelInv
  <2>2. CASE q = r
    <3>1. node'[q] = m
      BY <1>1, <2>2
    <3> QED BY <2>1, <2>2, <3>1 DEF UnboundWaits, Guarded
  <2>3. CASE q # r
    <3>1. node'[q] = node[q]
      BY <1>1, <2>3
    <3> QED BY <2>1, <3>1 DEF UnboundWaits, Guarded
  <2> QED BY <2>2, <2>3
<1>6. \A q \in Endpoint : \A n \in Copies(q)' :
        n \in Copies(q) \/ (q = r /\ n \in {m})
  BY <1>1 DEF Copies
<1>7. disk' = [disk EXCEPT ![r] = m] => Lists(r, m.shares)'
  BY <1>1 DEF Lists
<1> QED BY <1>3, <1>4, <1>5, <1>6, <1>7

\* A step sends at most the frames G in direction d, and their promises hold.
Sends(d, G) ==
  /\ \A c \in Direction, f \in Frame :
       Carries(net', c, f) => Carries(net, c, f) \/ (c = d /\ f \in G)
  /\ \A g \in G : FrameRelates(d, g) \/ FrameRelates(d, g)'

\* A step of an endpoint that has the node changes it and sends.
LEMMA RelationsKept ==
  ASSUME IndInv, RelInv, NEW r \in Endpoint, node[r] # None, NEW m \in SharedNode,
         m.shares = node[r].shares,
         \A s \in ShareId :
           m.sync[s].received_packet = node[r].sync[s].received_packet,
         node' = [node EXCEPT ![r] = m],
         disk' = disk \/ disk' = [disk EXCEPT ![r] = m],
         UNCHANGED <<bound, expect, scenario>>,
         \A s \in ShareId :
           SyncRelates(r, s, m.sync[s]) \/ SyncRelates(r, s, m.sync[s])',
         NEW d, NEW G, Sends(d, G)
  PROVE  RelInv'
<1>1. /\ Retains /\ SameShares'
      /\ \A q \in Endpoint : UnboundWaits(q)'
      /\ \A q \in Endpoint : \A n \in Copies(q)' :
           n \in Copies(q) \/ (q = r /\ n \in {m})
  BY NodeStep
<1>2. Adds(r, {m}, d, G, {})
  BY <1>1 DEF Adds, Sends
<1>3. CopiesRelate' /\ FramesRelate'
  BY <1>1, <1>2, RelationsAdded DEF Sends
<1> QED BY <1>1, <1>3 DEF RelInv

\* Steps that keep every node and only send, lose or repeat frames.
LEMMA RelationsIdle ==
  ASSUME RelInv, NEW d, NEW G, Sends(d, G),
         UNCHANGED <<node, disk, bound, scenario>>,
         \A q \in Endpoint :
           expect[q] \subseteq expect'[q] \/ "forget" \in scenario.faults
  PROVE  RelInv'
<1>1. Retains
  BY DEF Retains
<1>2. Adds(Host, {}, d, G, {})
  BY DEF Adds, Copies, Sends
<1>3. CopiesRelate' /\ FramesRelate'
  BY <1>1, <1>2, EndpointAssumption, RelationsAdded DEF Sends
<1>4. SameShares'
  BY DEF RelInv, SameShares
<1>5. ASSUME NEW q \in Endpoint
      PROVE  UnboundWaits(q)'
  <2>1. UnboundWaits(q)
    BY DEF RelInv
  <2>2. CASE expect[q] \subseteq expect'[q]
    BY <2>1, <2>2 DEF UnboundWaits, Guarded
  <2>3. CASE "forget" \in scenario.faults
    BY <2>1, <2>3 DEF UnboundWaits, Guarded
  <2> QED BY <2>2, <2>3
<1> QED BY <1>3, <1>4, <1>5 DEF RelInv

\* What the second invariant says of the node of r.
LEMMA RelationsOf ==
  ASSUME IndInv, RelInv, NEW r \in Endpoint, node[r] # None
  PROVE  /\ \A s \in ShareId : SyncRelates(r, s, node[r].sync[s])
         /\ Lists(r, node[r].shares)
         /\ r \notin scenario.editors => node[r].shares = disk[r].shares
<1>1. node[r] \in Copies(r) /\ disk[r] # None
  BY NodeOf
<1> QED BY <1>1 DEF RelInv, CopiesRelate, SameShares, Lists

\* A new sync state is not complete and has no packet.
LEMMA NewSyncRelates ==
  \A r \in Endpoint, s \in ShareId : SyncRelates(r, s, NewLinkSyncState)
BY DEF SyncRelates, NewLinkSyncState

\* CommitShared and SubmitDraft change the journal only.
LEMMA AuthorRelates ==
  ASSUME IndInv, RelInv, NEW r \in Endpoint, CommitShared(r) \/ SubmitDraft(r),
         UNCHANGED scenario
  PROVE  RelInv'
<1>n. PICK n : n = node[r]
  OBVIOUS
<1>k. PICK k : k = sequence[r]
  OBVIOUS
<1> DEFINE e == <<r, k + 1>>
<1>m. PICK m : m = [n EXCEPT !.journal = @ \cup {e}]
  OBVIOUS
<1>1. /\ node[r] # None /\ sequence[r] < MaxSequence[r]
      /\ node' = [node EXCEPT ![r] = m]
      /\ disk' = disk \/ disk' = [disk EXCEPT ![r] = m]
      /\ UNCHANGED <<bound, expect, net>>
  BY <1>n, <1>k, <1>m DEF CommitShared, SubmitDraft, CanAuthor, Authored
<1>2. e \in EventId
  BY <1>1, <1>k, NextEventId DEF IndInv, TypeOK
<1>3. n \in SharedNode
  BY <1>n, <1>1, NodeOf
<1>4. m \in SharedNode /\ m.shares = n.shares /\ m.sync = n.sync
  BY <1>m, <1>2, <1>3, WithEvent
<1>5. \A s \in ShareId : SyncRelates(r, s, m.sync[s])
  BY <1>n, <1>1, <1>4, RelationsOf
<1>6. Sends(<<r, r>>, {})
  BY <1>1 DEF Sends
<1>7. /\ m.shares = node[r].shares
      /\ \A s \in ShareId :
           m.sync[s].received_packet = node[r].sync[s].received_packet
  BY <1>n, <1>4
<1>8. UNCHANGED <<bound, expect, scenario>>
  BY <1>1
<1> QED BY <1>1, <1>4, <1>5, <1>6, <1>7, <1>8, RelationsKept

\* SaveModel, Crash and Restart move nodes between memory and storage, and a
\* restart registers only what is bound.
LEMMA SaveRelates ==
  ASSUME IndInv, RelInv, NEW r \in Endpoint, SaveModel(r) \/ Crash(r) \/ Restart(r),
         UNCHANGED scenario
  PROVE  RelInv'
<1>1. UNCHANGED <<bound, net>>
  BY DEF SaveModel, Crash, Restart
<1>2. /\ node \in [Endpoint -> SharedNode \cup {None}]
      /\ disk \in [Endpoint -> SharedNode \cup {None}]
      /\ expect \in [Endpoint -> SUBSET Endpoint]
  BY DEF IndInv, TypeOK
<1>3. /\ \A q \in Endpoint : Copies(q)' \subseteq Copies(q)
      /\ SameShares' /\ Retains
      /\ \A q \in Endpoint :
           \/ node'[q] = node[q] /\ expect'[q] = expect[q]
           \/ node'[q] = None
           \/ bound[q]
  <2>1. CASE SaveModel(r)
    <3>1. /\ node[r] # None /\ node' = node /\ disk' = [disk EXCEPT ![r] = node[r]]
          /\ expect' = expect
      BY <2>1 DEF SaveModel
    <3>2. r \notin scenario.editors => node[r].shares = disk[r].shares
      BY <3>1, RelationsOf
    <3>3. \A q \in Endpoint : Copies(q)' \subseteq Copies(q)
      BY <1>2, <3>1 DEF Copies
    <3>4. SameShares'
      BY <1>2, <3>1 DEF RelInv, SameShares
    <3>5. Retains
      BY <1>1, <1>2, <3>1, <3>2 DEF Retains
    <3> QED BY <3>1, <3>3, <3>4, <3>5
  <2>2. CASE Crash(r)
    <3>1. /\ disk' = disk /\ node' = [node EXCEPT ![r] = None]
          /\ expect' = [expect EXCEPT ![r] = {}]
      BY <2>2 DEF Crash
    <3>2. SameShares' /\ Retains
      BY <1>1, <1>2, <3>1 DEF RelInv, SameShares, Retains
    <3> QED BY <1>2, <3>1, <3>2 DEF Copies
  <2>3. CASE Restart(r)
    <3>1. /\ disk' = disk /\ expect' = expect
          /\ node' = [node EXCEPT ![r] = IF bound[r] THEN disk[r] ELSE None]
      BY <2>3 DEF Restart, RegisterNode
    <3>2. SameShares' /\ Retains
      BY <1>1, <1>2, <3>1 DEF RelInv, SameShares, Retains
    <3> QED BY <1>2, <3>1, <3>2 DEF Copies
  <2> QED BY <2>1, <2>2, <2>3
<1>4. Adds(r, {}, <<r, r>>, {}, {})
  BY <1>1, <1>3 DEF Adds
<1>5. CopiesRelate' /\ FramesRelate'
  BY <1>3, <1>4, RelationsAdded
<1>6. ASSUME NEW q \in Endpoint
      PROVE  UnboundWaits(q)'
  BY <1>1, <1>3 DEF RelInv, UnboundWaits, Guarded
<1> QED BY <1>3, <1>5, <1>6 DEF RelInv

\* Who edits has the node bound; a share that is opened or closed begins
\* anew.
LEMMA EditRelates ==
  ASSUME IndInv, RelInv, NEW r \in Endpoint, NEW share \in ShareId, NEW access,
         \/ AddShare(r, share, access) \/ RemoveShare(r, share)
         \/ SetShareAccess(r, share, access),
         UNCHANGED scenario
  PROVE  RelInv'
<1>1. /\ node[r] # None /\ bound[r] /\ r \in scenario.editors
      /\ UNCHANGED <<disk, bound, expect, net>>
  BY DEF AddShare, RemoveShare, SetShareAccess
<1>2. node \in [Endpoint -> SharedNode \cup {None}] /\ node[r] \in SharedNode
  BY <1>1, NodeOf DEF IndInv, TypeOK
<1>3. /\ \A q \in Endpoint : q # r => node'[q] = node[q]
      /\ \A s \in ShareId :
           node'[r].sync[s] \in {node[r].sync[s], NewLinkSyncState}
  <2>1. CASE AddShare(r, share, access)
    <3>1. PICK m : m = [node[r] EXCEPT
                   !.shares = @ \cup {share},
                   !.readOnly = IF access = "ReadOnly" THEN @ \cup {share} ELSE @,
                   !.sync[share] = NewLinkSyncState]
      OBVIOUS
    <3>2. node' = [node EXCEPT ![r] = m]
      BY <2>1, <3>1 DEF AddShare
    <3>3. \A s \in ShareId : m.sync[s] \in {node[r].sync[s], NewLinkSyncState}
      BY <1>2, <3>1 DEF SharedNode
    <3> QED BY <1>2, <3>2, <3>3
  <2>2. CASE RemoveShare(r, share)
    <3>1. PICK m : m = [node[r] EXCEPT !.shares = @ \ {share},
                                       !.readOnly = @ \ {share},
                                       !.sync[share] = NewLinkSyncState]
      OBVIOUS
    <3>2. node' = [node EXCEPT ![r] = m]
      BY <2>2, <3>1 DEF RemoveShare
    <3>3. \A s \in ShareId : m.sync[s] \in {node[r].sync[s], NewLinkSyncState}
      BY <1>2, <3>1 DEF SharedNode
    <3> QED BY <1>2, <3>2, <3>3
  <2>3. CASE SetShareAccess(r, share, access)
    <3> DEFINE closed == IF access = "ReadOnly" THEN node[r].readOnly \cup {share}
                                                ELSE node[r].readOnly \ {share}
    <3>1. node' = [node EXCEPT ![r].readOnly = closed]
      BY <2>3 DEF SetShareAccess
    <3> HIDE DEF closed
    <3> QED BY <1>2, <3>1 DEF SharedNode
  <2> QED BY <2>1, <2>2, <2>3
<1>4. PICK m : m = node'[r]
  OBVIOUS
<1>5. Retains /\ SameShares'
  BY <1>1, <1>3 DEF Retains, RelInv, SameShares
<1>6. Adds(r, {m}, <<r, r>>, {}, {})
  BY <1>1, <1>3, <1>4 DEF Adds, Copies
<1>7. \A s \in ShareId : SyncRelates(r, s, m.sync[s])
  BY <1>1, <1>3, <1>4, RelationsOf, NewSyncRelates
<1>8. CopiesRelate' /\ FramesRelate'
  BY <1>5, <1>6, <1>7, RelationsAdded
<1>9. \A q \in Endpoint : UnboundWaits(q)'
  BY <1>1, <1>3 DEF RelInv, UnboundWaits, Guarded
<1> QED BY <1>5, <1>8, <1>9 DEF RelInv

\* SyncInitialState: who sends a snapshot has the node bound, and the frozen
\* bytes list what its storage lists.
LEMMA SyncInitialStateRelates ==
  ASSUME IndInv, RelInv, NEW r \in Endpoint, NEW share \in ShareId,
         SyncInitialState(r, share), UNCHANGED scenario
  PROVE  RelInv'
<1>n. PICK n : n = node[r]
  OBVIOUS
<1>state. PICK state : state = n.sync[share]
  OBVIOUS
<1>frame. PICK frame : frame = Frozen(n, r, share)
  OBVIOUS
<1>after. PICK after : after = BeginInitialSync(state, frame)
  OBVIOUS
<1>m. PICK m : m = [n EXCEPT !.sync[share] = after]
  OBVIOUS
<1> DEFINE to == LinkEndpoint[share]
<1>1. /\ node[r] # None /\ bound[r] /\ r # to /\ to \in Endpoint
      /\ UNCHANGED <<bound, expect, scenario>>
  BY ShareAssumption DEF SyncInitialState, Drives
<1>2. /\ n \in SharedNode /\ n \in Copies(r) /\ state \in LinkSyncState
      /\ net \in [Direction -> Seq(Frame)] /\ <<r, to>> \in Direction
  BY <1>n, <1>state, <1>1, NodeOf, CopyFacts DEF IndInv, TypeOK, Direction
<1>3. /\ \A s \in ShareId : SyncRelates(r, s, n.sync[s])
      /\ Committed(r)
  BY <1>n, <1>1, RelationsOf DEF Committed
<1>4. CASE /\ state.phase = "Pending"
           /\ net' = Enqueue(net, r, to, state.initial_packet)
           /\ UNCHANGED <<node, disk>>
  <2>1. PICK g : g = state.initial_packet
    OBVIOUS
  <2>2. g # None /\ g \in NodeStateFrame
    BY <1>2, <1>state, <1>4, <2>1, CopyFacts DEF SyncOK, LinkSyncState
  <2>3. g \in Frame /\ g.type = "NodeState"
    BY <2>2 DEF Frame, NodeStateFrame
  <2>4. \A d \in Direction, f \in Frame :
          Carries(net', d, f) =>
            Carries(net, d, f) \/ (d = <<r, to>> /\ f \in {g})
    BY <1>1, <1>2, <1>4, <2>1, <2>3, EnqueueCarries
  <2>5. FrameRelates(<<r, to>>, g)
    BY <1>state, <1>3, <2>1, <2>2, <2>3 DEF FrameRelates, SyncRelates
  <2>6. Sends(<<r, to>>, {g})
    BY <2>4, <2>5 DEF Sends
  <2> QED BY <1>1, <1>2, <1>4, <2>6, RelationsIdle
<1>5. CASE /\ state.phase = "NotStarted"
           /\ node' = [node EXCEPT ![r] = m]
           /\ disk' = [disk EXCEPT ![r] = m]
           /\ net' = Enqueue(net, r, to, frame)
  <2>1. /\ frame \in NodeStateFrame
        /\ frame.type = "NodeState" /\ frame.shares = n.shares
    BY <1>2, <1>frame DEF Frozen, NodeStateFrame, SnapshotId, SharedNode
  <2>2. frame \in Frame
    BY <2>1 DEF Frame
  <2>3. /\ after \in LinkSyncState
        /\ after.phase = "Pending" /\ after.initial_packet = frame
        /\ after.received_packet = state.received_packet
    <3>1. after \in LinkSyncState
      BY <1>2, <1>after, <2>1, SyncStates
    <3> QED BY <1>2, <1>after, <3>1 DEF BeginInitialSync, LinkSyncState
  <2>4. /\ m \in SharedNode
        /\ m.shares = n.shares
        /\ m.sync[share] = after
        /\ \A t \in ShareId : t # share => m.sync[t] = n.sync[t]
    BY <1>2, <1>m, <2>3, WithSync
  <2>5. /\ m.shares = node[r].shares
        /\ \A s \in ShareId :
             m.sync[s].received_packet = node[r].sync[s].received_packet
    BY <1>n, <1>state, <2>3, <2>4
  <2>6. Lists(r, m.shares)' /\ Retains
    BY <1>1, <1>5, <2>4, <2>5, NodeStep
  <2>7. Committed(r)'
    BY <1>3, <2>6, RelationsStable
  <2>8. FrameRelates(<<r, to>>, frame)'
    BY <2>1, <2>4, <2>6, <2>7 DEF FrameRelates
  <2>9. \A d \in Direction, f \in Frame :
          Carries(net', d, f) =>
            Carries(net, d, f) \/ (d = <<r, to>> /\ f \in {frame})
    BY <1>1, <1>2, <1>5, <2>2, EnqueueCarries
  <2>10. Sends(<<r, to>>, {frame})
    BY <2>8, <2>9 DEF Sends
  <2>11. ASSUME NEW s \in ShareId
         PROVE  SyncRelates(r, s, m.sync[s]) \/ SyncRelates(r, s, m.sync[s])'
    <3>1. CASE s = share
      <4>1. SyncRelates(r, share, after)'
        BY <2>1, <2>3, <2>4, <2>6 DEF SyncRelates
      <4>2. m.sync[s] = after
        BY <2>4, <3>1
      <4> QED BY <3>1, <4>1, <4>2
    <3>2. CASE s # share
      BY <1>3, <2>4, <3>2
    <3> QED BY <3>1, <3>2
  <2> QED BY <1>1, <1>2, <1>5, <2>4, <2>5, <2>10, <2>11, RelationsKept
<1> QED BY <1>n, <1>state, <1>frame, <1>after, <1>m, <1>4, <1>5
    DEF SyncInitialState

\* SyncNextEvent changes neither phases nor shares, and an event's frame
\* promises nothing about them.
LEMMA SyncNextEventRelates ==
  ASSUME IndInv, RelInv, NEW r \in Endpoint, NEW share \in ShareId,
         SyncNextEvent(r, share), UNCHANGED scenario
  PROVE  RelInv'
<1>n. PICK n : n = node[r]
  OBVIOUS
<1>state. PICK state : state = n.sync[share]
  OBVIOUS
<1> DEFINE to == LinkEndpoint[share]
           Packet(e) == [from |-> r, share |-> share, event |-> e]
           After(e) == BeginIncrementalEvent(state, Packet(e))
           Begin(e) == [n EXCEPT !.sync[share] = After(e)]
<1>1. /\ node[r] # None /\ r # to /\ to \in Endpoint
      /\ UNCHANGED <<bound, expect, scenario>>
  BY ShareAssumption DEF SyncNextEvent, Drives
<1>2. /\ n \in SharedNode /\ n \in Copies(r) /\ state \in LinkSyncState
      /\ net \in [Direction -> Seq(Frame)] /\ <<r, to>> \in Direction
  BY <1>n, <1>state, <1>1, NodeOf, CopyFacts DEF IndInv, TypeOK, Direction
<1>3. \A s \in ShareId : SyncRelates(r, s, n.sync[s])
  BY <1>n, <1>1, RelationsOf
<1>4. ASSUME NEW p \in EventPacketId,
             net' = Enqueue(net, r, to, FreezeEventPayload(p))
      PROVE  Sends(<<r, to>>, {FreezeEventPayload(p)})
  <2>1. PICK g : g = FreezeEventPayload(p)
    OBVIOUS
  <2>2. g \in Frame /\ g.type = "Event"
    BY <2>1 DEF FreezeEventPayload, Frame, EventFrame
  <2>3. \A d \in Direction, f \in Frame :
          Carries(net', d, f) =>
            Carries(net, d, f) \/ (d = <<r, to>> /\ f \in {g})
    BY <1>1, <1>2, <1>4, <2>1, <2>2, EnqueueCarries
  <2>4. FrameRelates(<<r, to>>, g)
    BY <2>2 DEF FrameRelates
  <2> QED BY <2>1, <2>3, <2>4 DEF Sends
<1>5. CASE /\ state.event_packet # None
           /\ net' = Enqueue(net, r, to, FreezeEventPayload(state.event_packet))
           /\ UNCHANGED <<node, disk>>
  <2>1. state.event_packet \in EventPacketId
    BY <1>2, <1>5 DEF LinkSyncState
  <2>2. PICK G : G = {FreezeEventPayload(state.event_packet)}
    OBVIOUS
  <2>3. Sends(<<r, to>>, G)
    BY <1>4, <1>5, <2>1, <2>2
  <2> QED BY <1>1, <1>2, <1>5, <2>3, RelationsIdle
<1>6. ASSUME NEW e \in n.journal,
             node' = [node EXCEPT ![r] = Begin(e)],
             disk' = [disk EXCEPT ![r] = Begin(e)],
             net' = Enqueue(net, r, to, FreezeEventPayload(Packet(e)))
      PROVE  RelInv'
  <2>1. PICK p : p = Packet(e)
    OBVIOUS
  <2>2. PICK after : after = After(e)
    OBVIOUS
  <2>3. PICK m : m = Begin(e)
    OBVIOUS
  <2>4. e \in EventId
    BY <1>2, CopyFacts
  <2>5. p \in EventPacketId
    BY <2>1, <2>4 DEF EventPacketId
  <2>6. PICK G : G = {FreezeEventPayload(p)}
    OBVIOUS
  <2>7. Sends(<<r, to>>, G)
    BY <1>4, <1>6, <2>1, <2>5, <2>6
  <2>8. /\ after \in LinkSyncState
        /\ after.phase = state.phase
        /\ after.initial_packet = state.initial_packet
        /\ after.received_packet = state.received_packet
    BY <1>2, <2>1, <2>2, <2>5, SyncStates DEF BeginIncrementalEvent, LinkSyncState
  <2>9. /\ m \in SharedNode
        /\ m.shares = n.shares
        /\ m.sync[share] = after
        /\ \A t \in ShareId : t # share => m.sync[t] = n.sync[t]
    BY <1>2, <2>2, <2>3, <2>8, WithSync
  <2>10. /\ m.shares = node[r].shares
         /\ \A s \in ShareId :
              m.sync[s].received_packet = node[r].sync[s].received_packet
    BY <1>n, <1>state, <2>8, <2>9
  <2>11. \A s \in ShareId : SyncRelates(r, s, m.sync[s])
    BY <1>state, <1>3, <2>8, <2>9 DEF SyncRelates
  <2>12. node' = [node EXCEPT ![r] = m] /\ disk' = [disk EXCEPT ![r] = m]
    BY <1>6, <2>3
  <2> QED BY <1>1, <1>2, <2>7, <2>9, <2>10, <2>11, <2>12, RelationsKept
<1> QED
  BY <1>n, <1>state, <1>5, <1>6
  DEF SyncNextEvent, NextUndeliveredSharedEvents, UndeliveredSharedEvents

\* Losses, repetitions, outages and expectations.
LEMMA SettingRelates ==
  ASSUME IndInv, RelInv, NEW from \in Endpoint, NEW to \in Endpoint, from # to,
         \/ DropNext(from, to) \/ DuplicateNext(from, to)
         \/ Disconnect(from, to) \/ Reconnect(from, to)
         \/ ExpectInitialNodeFromEndpoint(to, from)
         \/ ForgetInitialNodeFromEndpoint(to, from),
         UNCHANGED scenario
  PROVE  RelInv'
<1>1. UNCHANGED <<node, disk, bound, scenario>>
  BY DEF DropNext, DuplicateNext, Disconnect, Reconnect,
         ExpectInitialNodeFromEndpoint, ForgetInitialNodeFromEndpoint
<1>2. <<from, to>> \in Direction
  BY DEF Direction
<1>3. ASSUME NEW q \in Endpoint
      PROVE  expect[q] \subseteq expect'[q] \/ "forget" \in scenario.faults
  BY DEF DropNext, DuplicateNext, Disconnect, Reconnect, IndInv, TypeOK,
         ExpectInitialNodeFromEndpoint, ForgetInitialNodeFromEndpoint
<1>4. Sends(<<from, to>>, {})
  <2>1. CASE DropNext(from, to) \/ DuplicateNext(from, to)
    BY <2>1, TransportCarries DEF Sends, IndInv, TypeOK
  <2>2. CASE net' = net
    BY <2>2 DEF Sends
  <2> QED BY <2>1, <2>2 DEF Disconnect, Reconnect,
          ExpectInitialNodeFromEndpoint, ForgetInitialNodeFromEndpoint
<1> QED BY <1>1, <1>2, <1>3, <1>4, RelationsIdle

\* OnAck: a share becomes complete by an acknowledgement of its snapshot,
\* and who acknowledges has bound the node and stored the share.
LEMMA OnAckRelates ==
  ASSUME IndInv, RelInv, NEW source \in Endpoint, NEW r \in Endpoint, source # r,
         OnAck(source, r), UNCHANGED scenario
  PROVE  RelInv'
<1>n. PICK n : n = node[r]
  OBVIOUS
<1>f. PICK frame : frame = Head(net[<<source, r>>])
  OBVIOUS
<1>s. PICK share : share = frame.packet.share
  OBVIOUS
<1>state. PICK state : state = n.sync[share]
  OBVIOUS
<1>after. PICK after : after = Acknowledged(state)
  OBVIOUS
<1>m. PICK m : m = [n EXCEPT !.sync[share] = after]
  OBVIOUS
<1> DEFINE open == /\ n # None
                   /\ share \in SharesOfEndpoint(n.shares, source)
                   /\ Acknowledges(state, frame)
<1>1. /\ net[<<source, r>>] # << >> /\ frame.type = "Ack"
      /\ net' = Popped(source, r)
      /\ node' = IF open THEN [node EXCEPT ![r] = m] ELSE node
      /\ disk' = IF open THEN [disk EXCEPT ![r] = m] ELSE disk
      /\ UNCHANGED <<bound, expect, scenario>>
  BY <1>n, <1>f, <1>s, <1>state, <1>after, <1>m DEF OnAck, Delivers
<1>d. <<source, r>> \in Direction
  BY DEF Direction
<1>t. Takes(source, r, frame)
  BY <1>f, <1>1 DEF Takes
<1>2. /\ frame \in Frame
      /\ Carries(net, <<source, r>>, frame)
      /\ \A d \in Direction, f \in Frame :
           Carries(net', d, f) => Carries(net, d, f)
  <2>1. net' = Popped(source, r)
    BY <1>1
  <2> QED BY <1>t, <2>1, Answer
<1>3. FrameRelates(<<source, r>>, frame) /\ Sends(<<source, r>>, {})
  BY <1>d, <1>2 DEF RelInv, FramesRelate, Sends
<1>4. CASE ~open
  <2>1. UNCHANGED <<node, disk, bound, expect, scenario>>
    BY <1>1, <1>4
  <2> HIDE DEF open
  <2> QED BY <1>2, <1>3, <2>1, RelationsIdle
<1>5. CASE open
  <2>1. n \in SharedNode /\ n \in Copies(r) /\ node[r] # None
    BY <1>n, <1>5, NodeOf
  <2>2. /\ share \in ShareId /\ LinkEndpoint[share] = source
        /\ state \in LinkSyncState /\ SyncOK(r, share, state)
        /\ \A s \in ShareId : SyncRelates(r, s, n.sync[s])
    BY <1>n, <1>state, <1>5, <2>1, CopyFacts, RelationsOf
    DEF SharesOfEndpoint, SharedNode
  <2>3. /\ after \in LinkSyncState
        /\ after.received_packet = state.received_packet
        /\ after.initial_packet # None =>
             after.initial_packet = state.initial_packet
        /\ \/ state.phase = "Complete"
           \/ Committed(source) /\ Lists(source, {share})
    <3>1. CASE state.phase = "Pending"
      <4>1. state.initial_packet \in NodeStateFrame
        BY <2>2, <3>1 DEF SyncOK, LinkSyncState
      <4>2. frame.packet = state.initial_packet.packet
        BY <1>5, <3>1 DEF Acknowledges
      <4>3. frame.packet.event = None
        BY <4>1, <4>2 DEF NodeStateFrame, SnapshotId
      <4>4. Committed(source) /\ Lists(source, {share})
        BY <1>s, <1>1, <1>3, <4>3 DEF FrameRelates
      <4>5. after = CompleteInitialSync(state)
        BY <1>after, <3>1 DEF Acknowledged
      <4>6. after \in LinkSyncState
        BY <2>2, <4>5, SyncStates
      <4>7. /\ after.initial_packet = None
            /\ after.received_packet = state.received_packet
        BY <2>2, <4>5 DEF CompleteInitialSync, LinkSyncState
      <4> QED BY <4>4, <4>6, <4>7
    <3>2. CASE state.phase # "Pending"
      <4>1. state.phase = "Complete" /\ state.event_packet = frame.packet
        BY <1>5, <3>2 DEF Acknowledges
      <4>2. state.event_packet # None
        BY <1>2, <4>1, FrameTypes, NoneAssumption
      <4>3. after = CompleteIncrementalEvent(state)
        BY <1>after, <3>2 DEF Acknowledged
      <4>4. after \in LinkSyncState
        BY <2>2, <4>2, <4>3, SyncStates
      <4>5. /\ after.initial_packet = state.initial_packet
            /\ after.received_packet = state.received_packet
        BY <2>2, <4>3 DEF CompleteIncrementalEvent, LinkSyncState
      <4> QED BY <4>1, <4>4, <4>5
    <3> QED BY <3>1, <3>2
  <2>4. /\ m \in SharedNode
        /\ m.shares = n.shares
        /\ m.sync[share] = after
        /\ \A t \in ShareId : t # share => m.sync[t] = n.sync[t]
    BY <1>m, <2>1, <2>2, <2>3, WithSync
  <2>5. /\ m.shares = node[r].shares
        /\ \A s \in ShareId :
             m.sync[s].received_packet = node[r].sync[s].received_packet
    BY <1>n, <1>state, <2>3, <2>4
  <2>6. ASSUME NEW s \in ShareId
        PROVE  SyncRelates(r, s, m.sync[s])
    <3>1. CASE s = share
      <4>1. SyncRelates(r, share, state)
        BY <1>state, <2>2
      <4>2. SyncRelates(r, share, after)
        BY <2>2, <2>3, <4>1 DEF SyncRelates
      <4> QED BY <2>4, <3>1, <4>2
    <3>2. CASE s # share
      BY <2>2, <2>4, <3>2
    <3> QED BY <3>1, <3>2
  <2>7. /\ node' = [node EXCEPT ![r] = m] /\ disk' = [disk EXCEPT ![r] = m]
        /\ UNCHANGED <<bound, expect, scenario>>
    BY <1>1, <1>5
  <2> HIDE DEF open
  <2> QED BY <1>2, <1>3, <2>1, <2>4, <2>5, <2>6, <2>7, RelationsKept
<1> QED BY <1>4, <1>5

\* OnEvent changes the journal and acknowledges an event.
LEMMA OnEventRelates ==
  ASSUME IndInv, RelInv, NEW source \in Endpoint, NEW r \in Endpoint, source # r,
         OnEvent(source, r), UNCHANGED scenario
  PROVE  RelInv'
<1>n. PICK n : n = node[r]
  OBVIOUS
<1>f. PICK frame : frame = Head(net[<<source, r>>])
  OBVIOUS
<1>m. PICK m : m = [n EXCEPT !.journal = @ \cup {frame.packet.event}]
  OBVIOUS
<1>1. /\ net[<<source, r>>] # << >> /\ frame.type = "Event"
      /\ \/ net' = Popped(source, r)
         \/ net' = Enqueue(Popped(source, r), r, source, Ack(frame))
      /\ UNCHANGED <<bound, expect, scenario>>
  BY <1>f DEF OnEvent, Delivers
<1>t. Takes(source, r, frame)
  BY <1>f, <1>1 DEF Takes
<1>2. /\ frame \in Frame
      /\ Ack(frame).type = "Ack" /\ Ack(frame).packet = frame.packet
      /\ \A d \in Direction, f \in Frame :
           Carries(net', d, f) =>
             Carries(net, d, f) \/ (d = <<r, source>> /\ f \in {Ack(frame)})
  BY <1>t, Answer
<1>3. frame.packet.event \in EventId /\ frame.packet.event # None
  BY <1>1, <1>2, FrameTypes, NoneAssumption DEF EventFrame, EventPacketId
<1>4. PICK G : G = {Ack(frame)}
  OBVIOUS
<1>5. Sends(<<r, source>>, G)
  <2>1. FrameRelates(<<r, source>>, Ack(frame))
    BY <1>2, <1>3 DEF FrameRelates
  <2> QED BY <1>2, <1>4, <2>1 DEF Sends
<1>6. CASE UNCHANGED <<node, disk>>
  BY <1>1, <1>2, <1>5, <1>6, RelationsIdle
<1>7. CASE /\ n # None
           /\ node' = [node EXCEPT ![r] = m]
           /\ disk' = [disk EXCEPT ![r] = m]
  <2>1. n \in SharedNode /\ node[r] # None
    BY <1>n, <1>7, NodeOf
  <2>2. m \in SharedNode /\ m.shares = n.shares /\ m.sync = n.sync
    BY <1>m, <1>3, <2>1, WithEvent
  <2>3. /\ m.shares = node[r].shares
        /\ \A s \in ShareId :
             m.sync[s].received_packet = node[r].sync[s].received_packet
    BY <1>n, <2>2
  <2>4. \A s \in ShareId : SyncRelates(r, s, m.sync[s])
    BY <1>n, <2>1, <2>2, RelationsOf
  <2> QED BY <1>1, <1>2, <1>5, <1>7, <2>1, <2>2, <2>3, <2>4, RelationsKept
<1> QED BY <1>n, <1>f, <1>m, <1>6, <1>7 DEF OnEvent

\* OnNodeState: the acknowledgement waits for the binding as long as the
\* expectation is open, and an imported node lists what its sender lists.
LEMMA OnNodeStateRelates ==
  ASSUME IndInv, RelInv, NEW source \in Endpoint, NEW r \in Endpoint, source # r,
         NEW binds \in BOOLEAN, OnNodeState(source, r, binds),
         UNCHANGED scenario
  PROVE  RelInv'
<1>f. PICK frame : frame = Head(net[<<source, r>>])
  OBVIOUS
<1>m. PICK m : m = Imported(r, source, frame)
  OBVIOUS
<1>1. /\ net[<<source, r>>] # << >> /\ frame.type = "NodeState"
      /\ \/ net' = Popped(source, r)
         \/ net' = Enqueue(Popped(source, r), r, source, Ack(frame))
      /\ binds \/ "bindFails" \in scenario.faults
  BY <1>f DEF OnNodeState, Delivers, BindAndAck
<1>d. <<source, r>> \in Direction
  BY DEF Direction
<1>t. Takes(source, r, frame)
  BY <1>f, <1>1 DEF Takes
<1>2. /\ frame \in Frame
      /\ Carries(net, <<source, r>>, frame) /\ FrameOK(<<source, r>>, frame)
      /\ Ack(frame).type = "Ack" /\ Ack(frame).packet = frame.packet
      /\ net' = Popped(source, r) =>
           \A d \in Direction, f \in Frame :
             Carries(net', d, f) => Carries(net, d, f)
      /\ \A d \in Direction, f \in Frame :
           Carries(net', d, f) =>
             Carries(net, d, f) \/ (d = <<r, source>> /\ f \in {Ack(frame)})
  BY <1>t, Answer
<1>3. /\ frame \in NodeStateFrame /\ frame.packet.from = source
      /\ Committed(source) /\ Lists(source, frame.shares)
      /\ frame.packet \in SnapshotId /\ frame.packet # None
      /\ frame.packet.share \in ShareId
  <2>1. frame \in NodeStateFrame /\ frame.packet.from = source
    BY <1>1, <1>2, FrameTypes DEF FrameOK, SnapshotOK
  <2>2. FrameRelates(<<source, r>>, frame)
    BY <1>d, <1>2 DEF RelInv, FramesRelate
  <2>3. frame.packet \in SnapshotId
    BY <2>1 DEF NodeStateFrame
  <2> QED BY <1>1, <2>1, <2>2, <2>3, NoneAssumption
      DEF FrameRelates, SnapshotId, PacketId
<1>4. /\ bound \in [Endpoint -> BOOLEAN]
      /\ expect \in [Endpoint -> SUBSET Endpoint]
      /\ node \in [Endpoint -> SharedNode \cup {None}]
      /\ disk \in [Endpoint -> SharedNode \cup {None}]
  BY DEF IndInv, TypeOK
<1>5. CASE UNCHANGED <<node, disk, bound, expect>> /\ net' = Popped(source, r)
  <2>1. Sends(<<r, source>>, {})
    BY <1>2, <1>5 DEF Sends
  <2> QED BY <1>2, <1>5, <2>1, RelationsIdle
<1>6. CASE /\ AcceptsNodeState(r, source, frame)
           /\ BindAndAck(r, source, frame, binds)
           /\ node[r] = None => /\ node' = [node EXCEPT ![r] = m]
                                /\ disk' = [disk EXCEPT ![r] = m]
           /\ node[r] # None => UNCHANGED <<node, disk>>
  \* What the binding and the acknowledgement come to.
  <2>1. /\ \A q \in Endpoint : q # r => /\ bound'[q] = bound[q]
                                        /\ expect'[q] = expect[q]
        /\ bound[r] => bound'[r]
        /\ \/ bound'[r]
           \/ /\ source \in expect[r] /\ ~binds
              /\ net' = Popped(source, r) /\ expect' = expect
              /\ bound' = bound
           \/ /\ source \notin expect[r] /\ expect' = expect
              /\ ~bound[r] /\ r \notin scenario.exact
    <3>1. CASE /\ source \in expect[r] /\ binds
               /\ bound' = [bound EXCEPT ![r] = TRUE]
               /\ expect' = [expect EXCEPT ![r] = @ \ {source}]
      BY <1>4, <3>1, Zenon
    <3>2. CASE /\ source \in expect[r] /\ ~binds
               /\ net' = Popped(source, r)
               /\ UNCHANGED <<bound, expect>>
      BY <3>2
    <3>3. CASE /\ source \notin expect[r] /\ binds
               /\ bound' = [bound EXCEPT ![r] = @ \/ r \in scenario.exact]
               /\ UNCHANGED expect
      <4>1. \A q \in Endpoint : q # r => bound'[q] = bound[q]
        BY <1>4, <3>3, Zenon
      <4>2. bound'[r] = (bound[r] \/ r \in scenario.exact)
        BY <1>4, <3>3, Zenon
      <4> QED BY <3>3, <4>1, <4>2
    <3> QED BY <1>6, <3>1, <3>2, <3>3 DEF BindAndAck
  <2>2. CASE node[r] # None
    <3>1. /\ UNCHANGED <<node, disk>>
          /\ node[r].sync[frame.packet.share].received_packet = frame.packet
          /\ frame.packet.share \in node[r].shares
      BY <1>6, <2>2 DEF AcceptsNodeState, AddressedToThisReplica, SharesOfEndpoint
    <3>2. Retains
      BY <2>1, <3>1 DEF Retains
    <3>3. SameShares'
      BY <3>1 DEF RelInv, SameShares
    <3>4. UnboundWaits(r)
      BY DEF RelInv
    <3>5. ASSUME NEW q \in Endpoint
          PROVE  UnboundWaits(q)'
      BY <2>1, <3>1 DEF RelInv, UnboundWaits, Guarded
    <3>6. Lists(r, {frame.packet.share})'
      <4>1. Lists(r, {frame.packet.share})
        BY <2>2, <3>1, RelationsOf DEF Lists
      <4> QED BY <3>2, <4>1, RelationsStable
    <3>7. net' = Popped(source, r) \/ Committed(r)'
      BY <1>3, <2>1, <2>2, <3>1, <3>4 DEF UnboundWaits, Committed, Guarded
    <3>8. PICK G : G = IF net' = Popped(source, r) THEN {} ELSE {Ack(frame)}
      OBVIOUS
    <3>9. Sends(<<r, source>>, G)
      <4>1. CASE net' = Popped(source, r)
        BY <1>2, <3>8, <4>1 DEF Sends
      <4>2. CASE net' # Popped(source, r)
        <5>1. FrameRelates(<<r, source>>, Ack(frame))'
          BY <1>2, <3>6, <3>7, <4>2 DEF FrameRelates, Ack
        <5>2. G = {Ack(frame)}
          BY <3>8, <4>2
        <5> QED BY <1>2, <5>1, <5>2 DEF Sends, Ack
      <4> QED BY <4>1, <4>2
    <3>10. Adds(r, {}, <<r, source>>, G, {})
      BY <3>1, <3>9 DEF Adds, Copies, Sends
    <3>11. CopiesRelate' /\ FramesRelate'
      BY <1>2, <3>2, <3>9, <3>10, RelationsAdded DEF Sends
    <3> QED BY <3>3, <3>5, <3>11 DEF RelInv
  <2>3. CASE node[r] = None
    <3>1. /\ node' = [node EXCEPT ![r] = m] /\ disk' = [disk EXCEPT ![r] = m]
          /\ disk[r] = None
          /\ r \in scenario.exact \/ source \in expect[r]
          /\ frame.packet.share \in frame.shares
          /\ LinkEndpoint[frame.packet.share] = r
      BY <1>6, <2>3 DEF AcceptsNodeState, ImportAdmissible, SnapshotIsAdmissible,
         AddressedToThisReplica, SharesOfEndpoint
    <3>2. /\ m \in SharedNode /\ m.shares = frame.shares
          /\ \A s \in ShareId :
               /\ m.sync[s].initial_packet = None
               /\ m.sync[s].received_packet # None =>
                    m.sync[s].received_packet = frame.packet
               /\ m.sync[s].phase = "Complete" =>
                    \/ s \in SharesOfEndpoint(frame.shares, source)
                    \/ s = frame.packet.share
      BY <1>m, <1>3, ImportedNode
    <3>3. m # None /\ node'[r] = m /\ disk'[r] = m
      BY <1>4, <3>1, <3>2, NoneAssumption
    <3>4. Retains
      BY <1>4, <2>1, <3>1 DEF Retains
    <3>5. SameShares'
      BY <1>4, <3>1 DEF RelInv, SameShares
    <3>6. ASSUME NEW q \in Endpoint
          PROVE  UnboundWaits(q)'
      <4>1. CASE q = r
        BY <1>1, <1>3, <2>1, <3>1, <3>2, <3>3, <4>1 DEF UnboundWaits
      <4>2. CASE q # r
        <5>1. node'[q] = node[q]
          BY <1>4, <3>1, <4>2
        <5> QED BY <2>1, <4>2, <5>1 DEF RelInv, UnboundWaits, Guarded
      <4> QED BY <4>1, <4>2
    <3>7. ASSUME NEW s \in ShareId
          PROVE  SyncRelates(r, s, m.sync[s])
      BY <1>3, <3>1, <3>2 DEF SyncRelates, SharesOfEndpoint, Lists
    <3>8. Lists(r, {frame.packet.share})'
      BY <3>1, <3>2, <3>3 DEF Lists
    <3>9. net' = Popped(source, r) \/ Committed(r)'
      BY <2>1, <3>1 DEF Committed
    <3>10. PICK G : G = IF net' = Popped(source, r) THEN {} ELSE {Ack(frame)}
      OBVIOUS
    <3>11. Sends(<<r, source>>, G)
      <4>1. CASE net' = Popped(source, r)
        BY <1>2, <3>10, <4>1 DEF Sends
      <4>2. CASE net' # Popped(source, r)
        <5>1. FrameRelates(<<r, source>>, Ack(frame))'
          BY <1>2, <3>8, <3>9, <4>2 DEF FrameRelates, Ack
        <5>2. G = {Ack(frame)}
          BY <3>10, <4>2
        <5> QED BY <1>2, <5>1, <5>2 DEF Sends, Ack
      <4> QED BY <4>1, <4>2
    <3>12. Adds(r, {m}, <<r, source>>, G, {})
      BY <1>4, <3>1, <3>11 DEF Adds, Copies, Sends
    <3>13. CopiesRelate' /\ FramesRelate'
      BY <1>2, <3>4, <3>7, <3>11, <3>12, RelationsAdded DEF Sends
    <3> QED BY <3>5, <3>6, <3>13 DEF RelInv
  <2> QED BY <2>2, <2>3
<1> QED BY <1>f, <1>m, <1>5, <1>6 DEF OnNodeState, RegisterNode, CommitObjectGraph

\* Nothing is complete when the host has created the node.
LEMMA InitRelInv ==
  ASSUME Init
  PROVE  RelInv
<1>1. \A s \in ShareId : Created.sync[s] = NewLinkSyncState
  BY DEF Created
<1>2. CopiesRelate
  BY <1>1, NewSyncRelates DEF Init, Copies, CopiesRelate
<1>3. FramesRelate
  BY DEF Init, FramesRelate, Carries
<1>4. SameShares
  BY DEF Init, SameShares
<1>5. ASSUME NEW r \in Endpoint
      PROVE  UnboundWaits(r)
  BY DEF Init, UnboundWaits
<1> QED BY <1>2, <1>3, <1>4, <1>5 DEF RelInv

\* Every step preserves the second invariant.
LEMMA NextRelInv ==
  ASSUME IndInv, RelInv, [Next]_vars
  PROVE  RelInv'
<1>1. CASE UNCHANGED vars
  <2>1. UNCHANGED <<node, disk, bound, expect, net, scenario>>
    BY <1>1 DEF vars, system
  <2> QED BY <2>1 DEF RelInv, CopiesRelate, FramesRelate, SameShares,
          UnboundWaits, Guarded, SyncRelates, FrameRelates, Committed, Lists,
          Copies
<1>2. ASSUME NEW r \in Endpoint, Local(r), UNCHANGED scenario
      PROVE  RelInv'
  <2>1. ASSUME NEW share \in ShareId,
               \/ SyncInitialState(r, share) \/ SyncNextEvent(r, share)
               \/ RemoveShare(r, share)
               \/ \E access \in {"ReadWrite", "ReadOnly"} :
                    AddShare(r, share, access) \/ SetShareAccess(r, share, access)
        PROVE  RelInv'
    <3>1. CASE RemoveShare(r, share)
      BY <1>2, <3>1, EditRelates
    <3>2. ASSUME NEW access \in {"ReadWrite", "ReadOnly"},
                 AddShare(r, share, access) \/ SetShareAccess(r, share, access)
          PROVE  RelInv'
      BY <1>2, <3>2, EditRelates
    <3> QED BY <1>2, <2>1, <3>1, <3>2, SyncInitialStateRelates,
               SyncNextEventRelates
  <2> QED BY <1>2, <2>1, AuthorRelates, SaveRelates DEF Local
<1>3. ASSUME NEW d \in Direction, Between(d[1], d[2]), UNCHANGED scenario
      PROVE  RelInv'
  <2>1. d[1] \in Endpoint /\ d[2] \in Endpoint /\ d[1] # d[2]
    BY DEF Direction
  <2> QED BY <1>3, <2>1, SettingRelates, OnNodeStateRelates, OnAckRelates,
             OnEventRelates DEF Between
<1> QED BY <1>1, <1>2, <1>3 DEF Next

-----------------------------------------------------------------------------
(* The theorems.                                                           *)

\* The host has the node, and nothing has been sent.
LEMMA InitIndInv == Init => IndInv
<1> SUFFICES ASSUME Init PROVE IndInv
  OBVIOUS
<1>1. NewLinkSyncState \in LinkSyncState
  BY DEF NewLinkSyncState, LinkSyncState, Phase
<1>2. /\ Created \in SharedNode /\ Created # None
      /\ Created.shares = HostShares /\ Created.journal = {}
      /\ \A s \in ShareId : Created.sync[s] = NewLinkSyncState
  BY <1>1, ShareAssumption, NoneAssumption DEF Created, SharedNode
<1>3. TypeOK
  <2>1. bound \in [Endpoint -> BOOLEAN]
    BY Zenon DEF Init
  <2> QED BY <1>2, <2>1, EndpointAssumption, ShareAssumption, ScenarioAssumption
      DEF Init, TypeOK
<1>4. \A r \in Endpoint : \A n \in Copies(r) : n = Created
  BY DEF Init, Copies
<1>5. \A d \in Direction, f \in Frame : ~Carries(net, d, f)
  BY DEF Init, Carries
<1>6. /\ NewLinkSyncState.initial_packet = None
      /\ NewLinkSyncState.received_packet = None
      /\ NewLinkSyncState.event_packet = None
      /\ NewLinkSyncState.phase = "NotStarted"
      /\ NewLinkSyncState.delivered = {}
  BY DEF NewLinkSyncState
<1>7. ASSUME NEW r \in Endpoint, NEW s \in ShareId
      PROVE  ~Begun(r, s)
  <2>1. [from |-> r, share |-> s, event |-> None] # None
    BY NoneAssumption DEF PacketId, SnapshotId
  <2> QED BY <1>2, <1>4, <1>5, <1>6, <2>1 DEF Begun
<1>8. \A f \in NodeStateFrame : ~IsSnapshot(f)
  BY <1>2, <1>4, <1>5, <1>6, NoneAssumption DEF IsSnapshot, Frame
<1>9. CopiesOK
  BY <1>2, <1>4, <1>6 DEF Init, CopiesOK, CopyOK, SyncOK
<1>10. StorageFirst
  BY <1>2 DEF Init, StorageFirst
<1>11. FramesOK /\ FrozenOnce /\ SameBytes
  BY <1>2, <1>4, <1>5, <1>7, <1>8, ShareAssumption
  DEF FramesOK, FrozenOnce, SameBytes
<1> QED BY <1>3, <1>9, <1>10, <1>11 DEF IndInv

\* Every step preserves the invariant and loses nothing from storage.
LEMMA NextIndInv ==
  ASSUME IndInv, [Next]_vars
  PROVE  IndInv' /\ StorageGrows
<1>1. CASE UNCHANGED vars
  <2>1. UNCHANGED <<node, disk, net, used>>
    BY <1>1 DEF vars, system
  <2>2. TypeOK'
    BY <1>1 DEF vars, system, IndInv, TypeOK
  <2> QED BY <2>1, <2>2, IdleStep
<1>2. ASSUME NEW r \in Endpoint, Local(r), UNCHANGED scenario
      PROVE  IndInv' /\ StorageGrows
  <2>1. ASSUME NEW share \in ShareId,
               \/ SyncInitialState(r, share) \/ SyncNextEvent(r, share)
               \/ RemoveShare(r, share)
               \/ \E access \in {"ReadWrite", "ReadOnly"} :
                    AddShare(r, share, access) \/ SetShareAccess(r, share, access)
        PROVE  IndInv' /\ StorageGrows
    <3>1. CASE RemoveShare(r, share)
      BY <1>2, <3>1, EditStep
    <3>2. ASSUME NEW access \in {"ReadWrite", "ReadOnly"},
                 AddShare(r, share, access)
          PROVE  IndInv' /\ StorageGrows
      BY <1>2, <3>2, AddShareStep
    <3>3. ASSUME NEW access \in {"ReadWrite", "ReadOnly"},
                 SetShareAccess(r, share, access)
          PROVE  IndInv' /\ StorageGrows
      BY <1>2, <3>3, EditStep
    <3> QED BY <1>2, <2>1, <3>1, <3>2, <3>3, SyncInitialStateStep,
               SyncNextEventStep
  <2> QED BY <1>2, <2>1, AuthorStep, SaveStep DEF Local
<1>3. ASSUME NEW d \in Direction, Between(d[1], d[2]), UNCHANGED scenario
      PROVE  IndInv' /\ StorageGrows
  <2>1. d[1] \in Endpoint /\ d[2] \in Endpoint /\ d[1] # d[2]
    BY DEF Direction
  <2> QED BY <1>3, <2>1, TransportStep, SettingStep, OnNodeStateStep,
             OnAckStep, OnEventStep DEF Between
<1> QED BY <1>1, <1>2, <1>3 DEF Next

\* The invariant holds in every reachable state.
LEMMA SyncInvariant == Spec => []IndInv
<1>1. IndInv /\ [Next]_vars => IndInv'
  BY NextIndInv
<1> QED BY <1>1, InitIndInv, PTL DEF Spec

\* The variables keep their types: in particular an event frame always names
\* an event, and a snapshot's packet never does.
THEOREM SyncTypeOK == Spec => []TypeOK
<1>1. IndInv => TypeOK
  BY DEF IndInv
<1> QED BY <1>1, SyncInvariant, PTL

\* CommitShared, SyncInitialState, SyncNextEvent, OnEvent, OnNodeState: for
\* any number of endpoints and any faults, an author's storage has every
\* event of its own that another endpoint has.
THEOREM SyncAuthorRemembers == Spec => []AuthorRemembers
<1>1. ASSUME IndInv PROVE AuthorRemembers
  <2> SUFFICES ASSUME NEW r \in Endpoint, NEW e \in KnownBeside(r), e[1] = r
               PROVE  disk[r] # None /\ e \in disk[r].journal
    BY DEF AuthorRemembers
  <2>1. PICK q \in Endpoint \ {r} : \E n \in Copies(q) : e \in n.journal
    <3> DEFINE D == {disk[q].journal : q \in {p \in Endpoint \ {r} : disk[p] # None}}
               N == {node[q].journal : q \in {p \in Endpoint \ {r} : node[p] # None}}
    <3>1. PICK j : j \in D \cup N /\ e \in j
      BY Zenon DEF KnownBeside
    <3>2. CASE j \in D
      BY <3>1, <3>2 DEF Copies
    <3>3. CASE j \in N
      BY <3>1, <3>3 DEF Copies
    <3> QED BY <3>1, <3>2, <3>3
  <2>2. Safe(e)
    BY <1>1, <2>1, CopyFacts
  <2> QED BY <2>2 DEF Safe, Holds
<1> QED BY <1>1, SyncInvariant, PTL

\* OnAck, OnEvent, OnNodeState: for any number of endpoints, shares and
\* faults, what a share lists as delivered is in the storage of the endpoint
\* at its other end.
THEOREM SyncDeliveredIsDurable == Spec => []DeliveredIsDurable
<1>1. ASSUME IndInv PROVE DeliveredIsDurable
  <2> SUFFICES ASSUME NEW r \in Endpoint, NEW n \in {node[r], disk[r]} \ {None},
                      NEW s \in n.shares, n.sync[s].delivered # {}
               PROVE  Holds(LinkEndpoint[s], n.sync[s].delivered)
    BY DEF DeliveredIsDurable, Holds
  <2>1. n \in Copies(r)
    BY DEF Copies
  <2>2. n \in SharedNode /\ s \in ShareId
    BY <1>1, <2>1, CopyFacts DEF SharedNode
  <2>3. SyncOK(r, s, n.sync[s])
    BY <1>1, <2>1, <2>2, CopyFacts
  <2> QED BY <2>3 DEF SyncOK
<1> QED BY <1>1, SyncInvariant, PTL

\* SaveModel, CommitObjectGraph and the saves of the handlers: no step, a
\* crash included, takes an event out of an endpoint's storage.
THEOREM SyncStorageGrows == Spec => [][StorageGrows]_vars
<1>1. IndInv /\ [Next]_vars => StorageGrows
  BY NextIndInv
<1> QED BY <1>1, SyncInvariant, PTL DEF Spec

\* The second invariant holds in every reachable state, too.
LEMMA SyncRelations == Spec => []RelInv
<1>1. Init => RelInv
  BY InitRelInv
<1>2. IndInv /\ RelInv /\ [Next]_vars => RelInv'
  BY NextRelInv
<1> QED BY <1>1, <1>2, SyncInvariant, PTL DEF Spec

\* AddShare, OnAck, OnNodeState: for any endpoints, editors and faults, a
\* complete share is in the stored topology of the endpoint at its other end.
THEOREM SyncCompleteIsShared == Spec => []CompleteIsShared
<1>1. ASSUME IndInv, RelInv PROVE CompleteIsShared
  <2> SUFFICES ASSUME NEW r \in Endpoint, NEW n \in {node[r], disk[r]} \ {None},
                      NEW s \in n.shares,
                      LinkEndpoint[s] \notin scenario.editors \cup {r},
                      n.sync[s].phase = "Complete"
               PROVE  /\ disk[LinkEndpoint[s]] # None
                      /\ s \in disk[LinkEndpoint[s]].shares
    BY DEF CompleteIsShared
  <2>1. n \in Copies(r)
    BY DEF Copies
  <2>2. n \in SharedNode /\ s \in ShareId
    BY <1>1, <2>1, CopyFacts DEF SharedNode
  <2>3. SyncRelates(r, s, n.sync[s])
    BY <1>1, <2>1, <2>2 DEF RelInv, CopiesRelate
  <2> QED BY <2>3 DEF SyncRelates, Lists
<1> QED BY <1>1, SyncInvariant, SyncRelations, PTL

\* Where bindings fail, joins are not given up.
BindingsWaited == \A c \in Scenarios : ~({"bindFails", "forget"} \subseteq c.faults)

\* OnNodeState, BindAndAck, OnAck: for any endpoints, if no application both
\* fails to bind and gives up the expectation, a complete share leads to an
\* endpoint whose saved model has the node.
THEOREM SyncCompleteIsBound ==
  ASSUME BindingsWaited
  PROVE  Spec => []CompleteIsBound
<1>1. Init => scenario \in Scenarios
  BY DEF Init
<1>2. scenario \in Scenarios /\ [Next]_vars => (scenario \in Scenarios)'
  BY DEF Next, vars
<1>3. ASSUME IndInv, RelInv, scenario \in Scenarios PROVE CompleteIsBound
  <2> SUFFICES ASSUME NEW r \in Endpoint, NEW n \in {node[r], disk[r]} \ {None},
                      NEW s \in n.shares, LinkEndpoint[s] # r,
                      n.sync[s].phase = "Complete"
               PROVE  bound[LinkEndpoint[s]]
    BY DEF CompleteIsBound
  <2>1. n \in Copies(r)
    BY DEF Copies
  <2>2. n \in SharedNode /\ s \in ShareId
    BY <1>3, <2>1, CopyFacts DEF SharedNode
  <2>3. SyncRelates(r, s, n.sync[s])
    BY <1>3, <2>1, <2>2 DEF RelInv, CopiesRelate
  <2>4. Guarded
    BY <1>3 DEF Guarded, BindingsWaited
  <2> QED BY <2>3, <2>4 DEF SyncRelates, Committed
<1> QED BY <1>1, <1>2, <1>3, SyncInvariant, SyncRelations, PTL DEF Spec
=============================================================================
