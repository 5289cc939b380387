----------------------------- MODULE SharedSync -----------------------------
(***************************************************************************)
(* Replication of one SharedNode between endpoints: SharedSyncRuntime, the *)
(* LinkSyncState of every Share, the transport underneath and the use the  *)
(* application (chat_session.cpp) makes of them.                           *)
(*                                                                         *)
(* Each endpoint runs one process.  What the process has in memory is      *)
(* node[r]; what it would find after a restart is disk[r].  A handler runs *)
(* to completion on the model thread, saves what it changed and then       *)
(* sends, so a handler is one step.  A crash inside a handler is a loss    *)
(* (of the frame before the save, of the answer after it) followed by a    *)
(* crash; an import that was stored but never bound is an import whose     *)
(* binding callback failed.                                                *)
(*                                                                         *)
(* Events and shares are identities; the bytes of a frame are what the     *)
(* receiver gets out of them.                                              *)
(***************************************************************************)
EXTENDS Integers, Sequences

CONSTANTS
  Endpoint,       \* endpoint uids of the processes
  Host,           \* the endpoint that created the node
  ShareId,        \* identities of relationships (ObjIds of AddShareEvents)
  LinkEndpoint,   \* [ShareId -> Endpoint]: endpoint of the share's Link
  HostShares,     \* the shares the host opens when it creates the node
  MaxSequence,    \* [Endpoint -> Nat]: bound on the events each one authors
  Timestamp,      \* [EventId -> Nat]: the order timestamps of the events
  CanInsert(_, _),\* CanInsert(journal, e): e may be replayed at its place
  MaxQueue,       \* bound on the frames waiting in one direction
  Scenarios,      \* what may happen around the processes, of Scenario
  None            \* no node, no packet, no event

FaultKind == {"drop", "duplicate", "outage", "bindFails", "forget"}

EventId == UNION {{r} \X (1 .. MaxSequence[r]) : r \in Endpoint}
Direction == {d \in Endpoint \X Endpoint : d[1] # d[2]}

ASSUME EndpointAssumption == Host \in Endpoint

ASSUME ShareAssumption ==
  /\ LinkEndpoint \in [ShareId -> Endpoint]
  /\ HostShares \subseteq ShareId
  /\ \A s, t \in HostShares : LinkEndpoint[s] = LinkEndpoint[t] => s = t

ASSUME BoundAssumption ==
  /\ MaxSequence \in [Endpoint -> Nat]
  /\ MaxQueue \in Nat

ASSUME TimestampAssumption == Timestamp \in [EventId -> Nat]

Scenario ==
  [faults : SUBSET FaultKind,   \* which faults happen
   exact : SUBSET Endpoint,     \* who called ExpectInitialNode for the node
   crashing : SUBSET Endpoint,  \* who may crash
   editors : SUBSET Endpoint,   \* whose user changes the topology
   authors : SUBSET Endpoint]   \* whose user writes

ASSUME ScenarioAssumption == Scenarios \subseteq Scenario

VARIABLES
  node,      \* the registered SharedNode of each process, or None
  disk,      \* what storage holds of it, or None
  bound,     \* whether the application's saved model refers to the node
  expect,    \* the sources each process has an open endpoint expectation for
  sequence,  \* the author's saved sequence counter (next_message_sequence)
  used,      \* share ids that have been given out
  up,        \* the running processes
  net,       \* the frames on the way, per direction
  outage,    \* directions that are disconnected
  scenario   \* never changes

system == <<node, disk, bound, expect, sequence, used, up, net, outage>>
vars == <<system, scenario>>

-----------------------------------------------------------------------------
(* LinkSyncState and SharedNode.                                           *)

Phase == {"NotStarted", "Pending", "Complete"}

\* A packet id is the ObjId of the Begin...Event that froze the packet: one
\* per sender and share for the initial snapshot, one per event after that.
SnapshotId == [from : Endpoint, share : ShareId, event : {None}]
EventPacketId == [from : Endpoint, share : ShareId, event : EventId]
PacketId == SnapshotId \cup EventPacketId

NodeStateFrame ==
  [type : {"NodeState"}, packet : SnapshotId, shares : SUBSET ShareId,
   readOnly : SUBSET ShareId, journal : SUBSET EventId]
EventFrame == [type : {"Event"}, packet : EventPacketId]
AckFrame == [type : {"Ack"}, packet : PacketId]
Frame == NodeStateFrame \cup EventFrame \cup AckFrame

LinkSyncState ==
  [phase : Phase,
   initial_packet : NodeStateFrame \cup {None},
   covered : SUBSET EventId,
   received_packet : SnapshotId \cup {None},
   delivered : SUBSET EventId,
   event_packet : EventPacketId \cup {None}]

SharedNode ==
  [shares : SUBSET ShareId, readOnly : SUBSET ShareId,
   journal : SUBSET EventId, sync : [ShareId -> LinkSyncState]]

\* None is nothing of the above.
ASSUME NoneAssumption ==
  /\ None \notin EventId
  /\ None \notin PacketId
  /\ None \notin NodeStateFrame
  /\ None \notin SharedNode

NewLinkSyncState ==
  [phase |-> "NotStarted", initial_packet |-> None, covered |-> {},
   received_packet |-> None, delivered |-> {}, event_packet |-> None]

BeginInitialSync(state, frame) ==
  [state EXCEPT !.phase = "Pending", !.initial_packet = frame,
                !.covered = frame.journal]

CompleteInitialSync(state) ==
  [state EXCEPT !.phase = "Complete", !.initial_packet = None,
                !.delivered = @ \cup state.covered, !.covered = {}]

NoteInitialSyncReceived(state, packet) ==
  [state EXCEPT !.phase = "Complete", !.received_packet = packet]

CompleteFromReceivedSnapshot(state, journal) ==
  [state EXCEPT !.phase = "Complete", !.initial_packet = None,
                !.delivered = @ \cup journal, !.covered = {}]

\* Variant: an event counts as delivered when it is sent.
BeginIncrementalEvent_MarksDelivered(state, packet) ==
  [state EXCEPT !.event_packet = packet,
                !.delivered = @ \cup {packet.event}]

BeginIncrementalEvent(state, packet) == [state EXCEPT !.event_packet = packet]

CompleteIncrementalEvent(state) ==
  [state EXCEPT !.delivered = @ \cup {state.event_packet.event},
                !.event_packet = None]

SharesOfEndpoint(shares, endpoint) ==
  {s \in shares : LinkEndpoint[s] = endpoint}

\* The topology a snapshot or a node carries names `local' at the end of the
\* share and knows the source.
AddressedToThisReplica(n, local, source, share) ==
  /\ source # local
  /\ share \in SharesOfEndpoint(n.shares, local)
  /\ SharesOfEndpoint(n.shares, source) # {}

EventAddressedToThisReplica(n, local, source, share) ==
  /\ AddressedToThisReplica(n, local, source, share)
  /\ SharesOfEndpoint(n.shares, source) \cap n.readOnly = {}

\* The journal records that still have to go to the endpoint; the first one
\* in journal order is sent next.  Records with one timestamp lie in an order
\* that differs between replicas.
UndeliveredSharedEvents(n, share) ==
  {e \in n.journal : /\ e \notin n.sync[share].delivered
                     /\ e[1] # LinkEndpoint[share]}

\* Variant: any of them is sent next.
NextUndeliveredSharedEvents_AnyOrder(n, share) ==
  UndeliveredSharedEvents(n, share)

NextUndeliveredSharedEvents(n, share) ==
  {e \in UndeliveredSharedEvents(n, share) :
     \A f \in UndeliveredSharedEvents(n, share) :
       Timestamp[e] <= Timestamp[f]}

-----------------------------------------------------------------------------
(* The transport.  A frame sent during an outage is lost, and so is one    *)
(* that finds MaxQueue frames waiting.                                     *)

Enqueue(queues, from, to, frame) ==
  IF <<from, to>> \in outage \/ Len(queues[<<from, to>>]) >= MaxQueue
  THEN queues
  ELSE [queues EXCEPT ![<<from, to>>] = Append(@, frame)]

Popped(from, to) == [net EXCEPT ![<<from, to>>] = Tail(@)]

Ack(frame) == [type |-> "Ack", packet |-> frame.packet]

DropNext(from, to) ==
  /\ "drop" \in scenario.faults
  /\ net[<<from, to>>] # << >>
  /\ net' = Popped(from, to)
  /\ UNCHANGED <<node, disk, bound, expect, sequence, used, up, outage>>

\* The copy goes to the end of the queue, behind later frames.
DuplicateNext(from, to) ==
  /\ "duplicate" \in scenario.faults
  /\ net[<<from, to>>] # << >>
  /\ Len(net[<<from, to>>]) < MaxQueue
  /\ net' = [net EXCEPT ![<<from, to>>] = Append(@, Head(@))]
  /\ UNCHANGED <<node, disk, bound, expect, sequence, used, up, outage>>

Disconnect(from, to) ==
  /\ "outage" \in scenario.faults
  /\ outage' = outage \cup {<<from, to>>}
  /\ UNCHANGED <<node, disk, bound, expect, sequence, used, up, net>>

Reconnect(from, to) ==
  /\ <<from, to>> \in outage
  /\ outage' = outage \ {<<from, to>>}
  /\ UNCHANGED <<node, disk, bound, expect, sequence, used, up, net>>

-----------------------------------------------------------------------------
(* The application: authoring, saving, topology, expectations.             *)

\* The node with the next event of r, whose sequence number is reserved and
\* saved before the event exists.
Authored(r) ==
  [node[r] EXCEPT !.journal = @ \cup {<<r, sequence[r] + 1>>}]

CanAuthor(r) ==
  /\ r \in up /\ bound[r] /\ node[r] # None
  /\ r \in scenario.authors /\ sequence[r] < MaxSequence[r]
  /\ CanInsert(node[r].journal, <<r, sequence[r] + 1>>)

\* CommitShared changes the node in memory and saves nothing.
CommitShared(r) ==
  /\ CanAuthor(r)
  /\ sequence' = [sequence EXCEPT ![r] = @ + 1]
  /\ node' = [node EXCEPT ![r] = Authored(r)]
  /\ UNCHANGED <<disk, bound, expect, used, up, net, outage>>

\* SubmitDraft of the chat: reserve, persist, CommitShared, persist.  (Cut
\* short by a crash it is a CommitShared.)
SubmitDraft(r) ==
  /\ CanAuthor(r)
  /\ sequence' = [sequence EXCEPT ![r] = @ + 1]
  /\ node' = [node EXCEPT ![r] = Authored(r)]
  /\ disk' = [disk EXCEPT ![r] = Authored(r)]
  /\ UNCHANGED <<bound, expect, used, up, net, outage>>

\* The application saves its whole model.
SaveModel(r) ==
  /\ r \in up /\ bound[r] /\ node[r] # None
  /\ disk' = [disk EXCEPT ![r] = node[r]]
  /\ UNCHANGED <<node, bound, expect, sequence, used, up, net, outage>>

\* Variant: the new relationship over a Link inherits a finished one's phase.
AddShare_Inherits(r, share, access) ==
  /\ r \in up \cap scenario.editors /\ bound[r] /\ node[r] # None
  /\ share \notin used
  /\ SharesOfEndpoint(node[r].shares, LinkEndpoint[share]) = {}
  /\ used' = used \cup {share}
  /\ node' = [node EXCEPT
       ![r].shares = @ \cup {share},
       ![r].sync[share].phase =
          IF disk[LinkEndpoint[share]] # None THEN "Complete" ELSE @]
  /\ UNCHANGED <<disk, bound, expect, sequence, up, net, outage>>

\* AddShare with a Link that is not shared yet; every AddShareEvent has an
\* id of its own.
AddShare(r, share, access) ==
  /\ r \in up \cap scenario.editors /\ bound[r] /\ node[r] # None
  /\ share \notin used
  /\ SharesOfEndpoint(node[r].shares, LinkEndpoint[share]) = {}
  /\ used' = used \cup {share}
  /\ node' = [node EXCEPT ![r] = [node[r] EXCEPT
       !.shares = @ \cup {share},
       !.readOnly = IF access = "ReadOnly" THEN @ \cup {share} ELSE @,
       !.sync[share] = NewLinkSyncState]]
  /\ UNCHANGED <<disk, bound, expect, sequence, up, net, outage>>

RemoveShare(r, share) ==
  /\ r \in up \cap scenario.editors /\ bound[r] /\ node[r] # None
  /\ share \in node[r].shares
  /\ node' = [node EXCEPT ![r] = [node[r] EXCEPT
       !.shares = @ \ {share}, !.readOnly = @ \ {share},
       !.sync[share] = NewLinkSyncState]]
  /\ UNCHANGED <<disk, bound, expect, sequence, used, up, net, outage>>

SetShareAccess(r, share, access) ==
  /\ r \in up \cap scenario.editors /\ bound[r] /\ node[r] # None
  /\ share \in node[r].shares
  /\ (access = "ReadOnly") # (share \in node[r].readOnly)
  /\ node' = [node EXCEPT ![r].readOnly = IF access = "ReadOnly"
                                          THEN @ \cup {share}
                                          ELSE @ \ {share}]
  /\ UNCHANGED <<disk, bound, expect, sequence, used, up, net, outage>>

\* The join was accepted: the client waits for the room of the host.
ExpectInitialNodeFromEndpoint(r, source) ==
  /\ r \in up /\ ~bound[r] /\ r # source
  /\ source = Host
  /\ expect' = [expect EXCEPT ![r] = @ \cup {source}]
  /\ UNCHANGED <<node, disk, bound, sequence, used, up, net, outage>>

\* The join attempt ran into its deadline or was rejected.
ForgetInitialNodeFromEndpoint(r, source) ==
  /\ "forget" \in scenario.faults
  /\ r \in up /\ source \in expect[r]
  /\ expect' = [expect EXCEPT ![r] = @ \ {source}]
  /\ UNCHANGED <<node, disk, bound, sequence, used, up, net, outage>>

-----------------------------------------------------------------------------
(* The sender.                                                             *)

\* The application drives a share of a room that is bound in its model.
Drives(r, share) ==
  /\ r \in up /\ bound[r] /\ node[r] # None
  /\ share \in node[r].shares
  /\ LinkEndpoint[share] # r

Frozen(n, r, share) ==
  [type |-> "NodeState",
   packet |-> [from |-> r, share |-> share, event |-> None],
   shares |-> n.shares, readOnly |-> n.readOnly, journal |-> n.journal]

\* The first call freezes and saves the snapshot, then sends it; until the
\* acknowledgement every further call sends the same bytes again.
SyncInitialState(r, share) ==
  /\ Drives(r, share)
  /\ LET n     == node[r]
         state == n.sync[share]
         begun == [n EXCEPT !.sync[share] =
                      BeginInitialSync(state, Frozen(n, r, share))]
     IN \/ /\ state.phase = "Pending"
           /\ net' = Enqueue(net, r, LinkEndpoint[share], state.initial_packet)
           /\ UNCHANGED <<node, disk>>
        \/ /\ state.phase = "NotStarted"
           /\ node' = [node EXCEPT ![r] = begun]
           /\ disk' = [disk EXCEPT ![r] = begun]
           /\ net' = Enqueue(net, r, LinkEndpoint[share],
                             Frozen(n, r, share))
  /\ UNCHANGED <<bound, expect, sequence, used, up, outage>>

\* The bytes of an event: those of the object itself and nothing it leads to.
FreezeEventPayload(packet) == [type |-> "Event", packet |-> packet]

\* Variant: the packet is sent without saving the node and its state.
SyncNextEvent_NoSave(r, share) ==
  /\ Drives(r, share)
  /\ LET n     == node[r]
         state == n.sync[share]
     IN /\ state.phase = "Complete" /\ state.event_packet = None
        /\ \E e \in NextUndeliveredSharedEvents(n, share) :
             LET packet == [from |-> r, share |-> share, event |-> e]
             IN /\ node' = [node EXCEPT ![r].sync[share] =
                              BeginIncrementalEvent(state, packet)]
                /\ net' = Enqueue(net, r, LinkEndpoint[share],
                                  FreezeEventPayload(packet))
  /\ UNCHANGED <<disk, bound, expect, sequence, used, up, outage>>

\* At most one event per share is on its way.
SyncNextEvent(r, share) ==
  /\ Drives(r, share)
  /\ LET n     == node[r]
         state == n.sync[share]
     IN /\ state.phase = "Complete"
        /\ \/ /\ state.event_packet # None
              /\ net' = Enqueue(net, r, LinkEndpoint[share],
                          FreezeEventPayload(state.event_packet))
              /\ UNCHANGED <<node, disk>>
           \/ /\ state.event_packet = None
              /\ \E e \in NextUndeliveredSharedEvents(n, share) :
                   LET packet == [from |-> r, share |-> share, event |-> e]
                       begun  == [n EXCEPT !.sync[share] =
                                    BeginIncrementalEvent(state, packet)]
                   IN /\ node' = [node EXCEPT ![r] = begun]
                      /\ disk' = [disk EXCEPT ![r] = begun]
                      /\ net' = Enqueue(net, r, LinkEndpoint[share],
                                   FreezeEventPayload(packet))
  /\ UNCHANGED <<bound, expect, sequence, used, up, outage>>

-----------------------------------------------------------------------------
(* The receiver.                                                           *)

Delivers(source, r, type) ==
  /\ r \in up
  /\ <<source, r>> \notin outage
  /\ net[<<source, r>>] # << >>
  /\ Head(net[<<source, r>>]).type = type

\* The rules for a snapshot before anything of it is used.  (Whether its
\* pointers resolve and its journal replays is given for what a peer froze.)
SnapshotIsAdmissible(frame, r, source) ==
  AddressedToThisReplica(frame, r, source, frame.packet.share)

\* ImportValidatedNode: the node is awaited, the snapshot is admissible and
\* names the source once, and nothing of it is stored already.
ImportAdmissible(r, source, frame) ==
  /\ r \in scenario.exact \/ source \in expect[r]
  /\ SnapshotIsAdmissible(frame, r, source)
  /\ \A s, t \in SharesOfEndpoint(frame.shares, source) : s = t
  /\ disk[r] = None

\* The node as imported: its own sync state for every share, the share of
\* the source complete with all that the snapshot covers, its own share
\* marked with the packet it came in.
Imported(r, source, frame) ==
  [shares |-> frame.shares, readOnly |-> frame.readOnly,
   journal |-> frame.journal,
   sync |-> [s \in ShareId |->
     CASE s \in SharesOfEndpoint(frame.shares, source) ->
            CompleteFromReceivedSnapshot(NewLinkSyncState, frame.journal)
       [] s = frame.packet.share ->
            NoteInitialSyncReceived(NewLinkSyncState, frame.packet)
       [] OTHER -> NewLinkSyncState]]

\* Variant: a snapshot that was received once is not looked at again.
AcceptsNodeState_Once(r, source, frame) ==
  node[r] = None /\ ImportAdmissible(r, source, frame)

\* Whether the receipt leads to the binding callback and an acknowledgement.
AcceptsNodeState(r, source, frame) ==
  IF node[r] = None
  THEN ImportAdmissible(r, source, frame)
  ELSE /\ AddressedToThisReplica(node[r], r, source, frame.packet.share)
       /\ node[r].sync[frame.packet.share].received_packet = frame.packet

\* Variant: the acknowledgement does not wait for the binding.
BindAndAck_AcksFirst(r, source, frame, binds) ==
  /\ binds \/ source \in expect[r]
  /\ net' = Enqueue(Popped(source, r), r, source, Ack(frame))
  /\ IF source \in expect[r] /\ binds
     THEN /\ bound' = [bound EXCEPT ![r] = TRUE]
          /\ expect' = [expect EXCEPT ![r] = @ \ {source}]
     ELSE UNCHANGED <<bound, expect>>

\* With an expectation open the callback has to bind the node first; without
\* one the acknowledgement follows at once, and the application that asked
\* for this very node knows it.
BindAndAck(r, source, frame, binds) ==
  \/ /\ source \in expect[r] /\ binds
     /\ bound' = [bound EXCEPT ![r] = TRUE]
     /\ expect' = [expect EXCEPT ![r] = @ \ {source}]
     /\ net' = Enqueue(Popped(source, r), r, source, Ack(frame))
  \/ /\ source \in expect[r] /\ ~binds
     /\ net' = Popped(source, r)
     /\ UNCHANGED <<bound, expect>>
  \/ /\ source \notin expect[r] /\ binds
     /\ bound' = [bound EXCEPT ![r] = @ \/ r \in scenario.exact]
     /\ net' = Enqueue(Popped(source, r), r, source, Ack(frame))
     /\ UNCHANGED expect

\* Every object of an admitted snapshot is stored, and the node registered.
CommitObjectGraph(r, n) == [disk EXCEPT ![r] = n]

RegisterNode(r, n) == [node EXCEPT ![r] = n]

OnNodeState(source, r, binds) ==
  /\ Delivers(source, r, "NodeState")
  /\ binds \/ "bindFails" \in scenario.faults
  /\ LET frame == Head(net[<<source, r>>])
         n == IF node[r] = None THEN Imported(r, source, frame) ELSE node[r]
     IN \/ /\ AcceptsNodeState(r, source, frame)
           /\ node' = IF node[r] = None THEN RegisterNode(r, n) ELSE node
           /\ disk' = IF node[r] = None THEN CommitObjectGraph(r, n) ELSE disk
           /\ BindAndAck(r, source, frame, binds)
        \/ /\ ~AcceptsNodeState(r, source, frame)
           /\ binds
           /\ net' = Popped(source, r)
           /\ UNCHANGED <<node, disk, bound, expect>>
  /\ UNCHANGED <<sequence, used, up, outage>>

\* The frame acknowledges what is outstanding on the share.
Acknowledges(state, frame) ==
  \/ /\ state.phase = "Pending"
     /\ state.initial_packet.packet = frame.packet
  \/ /\ state.phase = "Complete"
     /\ state.event_packet = frame.packet

Acknowledged(state) ==
  IF state.phase = "Pending" THEN CompleteInitialSync(state)
                             ELSE CompleteIncrementalEvent(state)

OnAck(source, r) ==
  /\ Delivers(source, r, "Ack")
  /\ LET frame == Head(net[<<source, r>>])
         share == frame.packet.share
         open  == /\ node[r] # None
                  /\ share \in SharesOfEndpoint(node[r].shares, source)
                  /\ Acknowledges(node[r].sync[share], frame)
         done  == [node[r] EXCEPT !.sync[share] = Acknowledged(@)]
     IN /\ node' = IF open THEN [node EXCEPT ![r] = done] ELSE node
        /\ disk' = IF open THEN [disk EXCEPT ![r] = done] ELSE disk
        /\ net' = Popped(source, r)
  /\ UNCHANGED <<bound, expect, sequence, used, up, outage>>

\* The event is first tried in a copy of the node, at its place in the order.
PreflightHistoricalEventInsertion(n, e) == CanInsert(n.journal, e)

\* An event that is known is acknowledged again; a new one is inserted and
\* saved if the journal can be replayed with it, and then acknowledged.
OnEvent(source, r) ==
  /\ Delivers(source, r, "Event")
  /\ LET frame == Head(net[<<source, r>>])
         e     == frame.packet.event
         n     == node[r]
         addressed == /\ n # None
                      /\ EventAddressedToThisReplica(n, r, source,
                                                     frame.packet.share)
         grown == [n EXCEPT !.journal = @ \cup {e}]
     IN \/ /\ addressed /\ e \in n.journal
           /\ net' = Enqueue(Popped(source, r), r, source, Ack(frame))
           /\ UNCHANGED <<node, disk>>
        \/ /\ addressed /\ e \notin n.journal
           /\ PreflightHistoricalEventInsertion(n, e)
           /\ node' = [node EXCEPT ![r] = grown]
           /\ disk' = [disk EXCEPT ![r] = grown]
           /\ net' = Enqueue(Popped(source, r), r, source, Ack(frame))
        \/ /\ ~(addressed /\ (e \in n.journal
                              \/ PreflightHistoricalEventInsertion(n, e)))
           /\ net' = Popped(source, r)
           /\ UNCHANGED <<node, disk>>
  /\ UNCHANGED <<bound, expect, sequence, used, up, outage>>

-----------------------------------------------------------------------------
(* Crash and restart.  After a restart the application registers the node  *)
(* its saved model refers to; expectations are gone.                       *)

Crash(r) ==
  /\ r \in up \cap scenario.crashing
  /\ up' = up \ {r}
  /\ node' = [node EXCEPT ![r] = None]
  /\ expect' = [expect EXCEPT ![r] = {}]
  /\ UNCHANGED <<disk, bound, sequence, used, net, outage>>

Restart(r) ==
  /\ r \in Endpoint \ up
  /\ up' = up \cup {r}
  /\ node' = RegisterNode(r, IF bound[r] THEN disk[r] ELSE None)
  /\ UNCHANGED <<disk, bound, expect, sequence, used, net, outage>>

-----------------------------------------------------------------------------
\* The host has created the node, opened its shares and saved it.
Created ==
  [shares |-> HostShares, readOnly |-> {}, journal |-> {},
   sync |-> [s \in ShareId |-> NewLinkSyncState]]

Init ==
  /\ node = [r \in Endpoint |-> IF r = Host THEN Created ELSE None]
  /\ disk = node
  /\ bound = [r \in Endpoint |-> r = Host]
  /\ expect = [r \in Endpoint |-> {}]
  /\ sequence = [r \in Endpoint |-> 0]
  /\ used = HostShares
  /\ up = Endpoint
  /\ net = [d \in Direction |-> << >>]
  /\ outage = {}
  /\ scenario \in Scenarios

Local(r) ==
  \/ CommitShared(r) \/ SubmitDraft(r) \/ SaveModel(r)
  \/ \E share \in ShareId :
       \/ SyncInitialState(r, share) \/ SyncNextEvent(r, share)
       \/ RemoveShare(r, share)
       \/ \E access \in {"ReadWrite", "ReadOnly"} :
            AddShare(r, share, access) \/ SetShareAccess(r, share, access)
  \/ Crash(r) \/ Restart(r)

Between(from, to) ==
  \/ DropNext(from, to) \/ DuplicateNext(from, to)
  \/ Disconnect(from, to) \/ Reconnect(from, to)
  \/ ExpectInitialNodeFromEndpoint(to, from)
  \/ ForgetInitialNodeFromEndpoint(to, from)
  \/ \E binds \in BOOLEAN : OnNodeState(from, to, binds)
  \/ OnAck(from, to) \/ OnEvent(from, to)

Next ==
  /\ \/ \E r \in Endpoint : Local(r)
     \/ \E d \in Direction : Between(d[1], d[2])
  /\ UNCHANGED scenario

Spec == Init /\ [][Next]_vars

\* The session's loop drives every share of every bound room again and again,
\* the transport does not lose a frame that is sent for ever, a callback that
\* is retried for ever succeeds, and processes do not crash for ever.
Fairness ==
  /\ \A r \in Endpoint : WF_system(Restart(r))
  /\ <>[](up = Endpoint)
  /\ \A r \in Endpoint : \A share \in ShareId :
       /\ SF_system(SyncInitialState(r, share))
       /\ SF_system(SyncNextEvent(r, share))
  /\ \A d \in Direction :
       /\ SF_system(ExpectInitialNodeFromEndpoint(d[2], d[1]))
       /\ SF_system(OnNodeState(d[1], d[2], TRUE))
       /\ SF_system(OnAck(d[1], d[2]))
       /\ SF_system(OnEvent(d[1], d[2]))

FairSpec == Spec /\ Fairness

-----------------------------------------------------------------------------

\* The events somebody other than process r has, or will get out of a frame.
KnownBeside(r) ==
  UNION ({disk[q].journal : q \in {p \in Endpoint \ {r} : disk[p] # None}}
         \cup {node[q].journal : q \in {p \in Endpoint \ {r} : node[p] # None}})

\* SyncInitialState and SyncNextEvent save the node before the first send
\* ("bytes that were sent but not persisted could not be retried"): an
\* author never loses, by a crash, an event that another endpoint has.
AuthorRemembers ==
  \A r \in Endpoint : \A e \in KnownBeside(r) :
    e[1] = r => disk[r] # None /\ e \in disk[r].journal

\* OnEvent and OnNodeState save before they acknowledge, and OnAck takes an
\* acknowledgement only for the packet that is outstanding: what a share's
\* sync state, in memory or on disk, lists as delivered is on the disk of
\* the endpoint at the other end, whatever was lost, repeated or restarted.
DeliveredIsDurable ==
  \A r \in Endpoint : \A n \in {node[r], disk[r]} \ {None} :
    \A s \in n.shares : LET peer == LinkEndpoint[s] IN
      peer # r /\ n.sync[s].delivered # {} =>
        disk[peer] # None /\ n.sync[s].delivered \subseteq disk[peer].journal

\* The acknowledgement of a snapshot comes only after the receiver's
\* application has bound the node in its model ("Never ACK merely because
\* the receipt ID was recorded"): a complete share leads to an endpoint that
\* will have the node after a restart.
CompleteIsBound ==
  \A r \in Endpoint : \A n \in {node[r], disk[r]} \ {None} :
    \A s \in n.shares :
      LinkEndpoint[s] # r /\ n.sync[s].phase = "Complete" =>
        bound[LinkEndpoint[s]]

\* "A later AddShare over the same Link is a different relationship and must
\* not inherit Complete" (shared_node.cpp): a complete share is one that the
\* endpoint at its other end has in its own topology, so that it will accept
\* the events sent over it.  (An endpoint that edits may have closed it.)
CompleteIsShared ==
  \A r \in Endpoint : \A n \in {node[r], disk[r]} \ {None} :
    \A s \in n.shares : LET peer == LinkEndpoint[s] IN
      peer \notin scenario.editors \cup {r} /\ n.sync[s].phase = "Complete" =>
        disk[peer] # None /\ s \in disk[peer].shares

\* Every endpoint the host shares with gets the node and keeps it, though
\* frames are lost and bindings fail: "Make shared delivery restart-safe"
\* (plan.md) for the initial state.
EventuallyBound == \A r \in Endpoint : <>bound[r]

\* The same for the events: one that its author has saved reaches the disk of
\* every endpoint, directly or through the host, though it may be rejected
\* while the events it builds on are missing.
EveryEventArrives ==
  \A e \in EventId : \A q \in Endpoint \ {e[1]} :
    (disk[e[1]] # None /\ e \in disk[e[1]].journal)
      ~> (disk[q] # None /\ e \in disk[q].journal)
=============================================================================
