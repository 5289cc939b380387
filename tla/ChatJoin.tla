------------------------------- MODULE ChatJoin -------------------------------
(* How a client of the chat demo joins a host: the join requests it repeats  *)
(* until a deadline, the host's acceptance or rejection, and the snapshot of *)
(* the room that completes the join once it is bound to the client's chat    *)
(* entry.  Both sides may restart at any time, the client may switch to      *)
(* another host, and a frame may be lost, repeated or overtaken by another.  *)
(*                                                                           *)
(* A chat entry is named by its peer, so a host's entry for the client and   *)
(* the client's entry for a host are the rooms they are bound to.  A handler *)
(* of the model thread is one step; frames of an earlier connection, which   *)
(* ChatSession drops by their epoch, are lost frames here.                   *)
EXTENDS Naturals, FiniteSets

CONSTANTS Hosts,        \* uids of the hosts
          None,         \* no host, no room, no attempt
          Invalid,      \* any text that is not the uid of another endpoint
          MaxAttempts,  \* bound: join attempts of the user
          MaxRooms,     \* bound: rooms the hosts create
          MaxRestarts,  \* bound: processes that stop and start again
          MaxRetries,   \* bound: RetryConnection of the client
          MaxReplaced   \* bound: hosts whose model directory is replaced

ASSUME NoneAssumption == None \notin Hosts \cup Nat /\ Invalid \notin Hosts

VARIABLES
  join,       \* ChatDemoRuntimeState of the client, in its RAM domain
  sched,      \* the armed join request: its attempt and room, or None
  overdue,    \* the armed request is older than the deadline
  waiting,    \* waiting_entry_by_endpoint: endpoints an entry waits for
  expect,     \* open expectations of the client's SharedSyncRuntime
  registered, \* nodes of the client's SharedSyncRuntime
  stored,     \* rooms whose snapshot is in the client's storage
  entry,      \* the room each chat entry of the client is bound to
  hostRoom,   \* the room of each host's entry for the client, and its phase
  saved,      \* the workspaces on disk: the client's entries, the hosts' rooms
  ready,      \* the processes whose endpoint is ready
  net,        \* frames that were sent; each may still arrive, more than once
  tally       \* what the bounds count

clientVars ==
  <<join, sched, overdue, waiting, expect, registered, stored, entry>>
joinVars == <<clientVars, hostRoom, saved, ready, net, tally>>

Client == "client"
Attempt == 1..MaxAttempts
Room == 1..MaxRooms
NoRoom == [room |-> None, sync |-> "NotStarted"]

Pending == {"Joining", "Accepted"}

Idle == [phase |-> "Idle", attempt |-> None, host |-> None,
         accepted |-> None, bound |-> None]

Frame(kind, host, attempt, room) ==
  [kind |-> kind, host |-> host, attempt |-> attempt, room |-> room]

\* Each kind carries what DecodeChatBootstrap and the sync frames insist on.
Frames ==
  [kind: {"JoinRequest"}, host: Hosts, attempt: Attempt, room: Room \cup {None}]
  \cup [kind: {"JoinAccepted"}, host: Hosts, attempt: Attempt, room: Room]
  \cup [kind: {"JoinRejected"}, host: Hosts, attempt: Attempt, room: {None}]
  \cup [kind: {"NodeState", "Ack"}, host: Hosts, attempt: {None}, room: Room]

JoinInit ==
  /\ join = Idle /\ sched = None /\ overdue = FALSE
  /\ waiting = {} /\ registered = {} /\ stored = {}
  /\ expect = [h \in Hosts |-> None]
  /\ entry = [h \in Hosts |-> None]
  /\ hostRoom = [h \in Hosts |-> NoRoom]
  /\ saved = [entry |-> entry, host |-> hostRoom]
  /\ ready = {} /\ net = {}
  /\ tally = [attempts |-> 0, rooms |-> 0, restarts |-> 0, retries |-> 0,
              replaced |-> {}]

-----------------------------------------------------------------------------
(* ChatDemoRuntimeState: its events, when they apply and what they do.  The  *)
(* identity of the request event is the attempt.                             *)

JoinHostRequestedEvent(attempt, h) ==
  [type |-> "Requested", attempt |-> attempt, host |-> h]

JoinHostAcceptedEvent(attempt, source, room) ==
  [type |-> "Accepted", attempt |-> attempt, host |-> source, room |-> room]

JoinHostCompletedEvent(attempt, room) ==
  [type |-> "Completed", attempt |-> attempt, room |-> room]

JoinHostFailedEvent(attempt) == [type |-> "Failed", attempt |-> attempt]

JoinHostRequested(j, e) ==
  [phase |-> "Joining", attempt |-> e.attempt, host |-> e.host,
   accepted |-> None, bound |-> None]

CanAccept(j, e) ==
  j.phase = "Joining" /\ e.attempt = j.attempt /\ e.host = j.host

JoinHostAccepted(j, e) ==
  [j EXCEPT !.phase = "Accepted", !.accepted = e.room]

\* Only an accepted attempt can complete, and only with the accepted room;
\* completing it again is allowed.
CanComplete(j, e) ==
  /\ e.attempt = j.attempt /\ e.attempt # None
  /\ e.room = j.accepted /\ e.room # None
  /\ j.phase \in {"Accepted", "Joined"}

JoinHostCompleted(j, e) ==
  [j EXCEPT !.phase = "Joined", !.accepted = e.room, !.bound = e.room]

\* The attempt of a pending join has to match; a join that is Joined does not
\* fail any more.
CanFail(j, e) ==
  \/ j.phase \in Pending /\ e.attempt = j.attempt
  \/ j.phase \in {"Idle", "Failed"}

JoinHostFailed(j, e) ==
  [j EXCEPT !.phase = "Failed",
            !.attempt = IF e.attempt = None THEN @ ELSE e.attempt]

CanApply(j, e) ==
  CASE e.type = "Requested" -> TRUE
    [] e.type = "Accepted"  -> CanAccept(j, e)
    [] e.type = "Completed" -> CanComplete(j, e)
    [] e.type = "Failed"    -> CanFail(j, e)

\* The join after runtime->Commit(e); an event that cannot apply is dropped.
Commit(j, e) ==
  IF ~CanApply(j, e) THEN j
  ELSE CASE e.type = "Requested" -> JoinHostRequested(j, e)
         [] e.type = "Accepted"  -> JoinHostAccepted(j, e)
         [] e.type = "Completed" -> JoinHostCompleted(j, e)
         [] e.type = "Failed"    -> JoinHostFailed(j, e)

-----------------------------------------------------------------------------
(* The client's scheduler.                                                   *)

\* The request is frozen when it is armed: every retry sends the same bytes.
Armed(j) == [attempt |-> j.attempt, room |-> entry[j.host]]

ArmJoinScheduler(j) ==
  IF sched # None /\ sched.attempt = j.attempt
  THEN UNCHANGED <<sched, overdue>>
  ELSE sched' = Armed(j) /\ overdue' = FALSE

ClearJoinScheduler == sched' = None /\ overdue' = FALSE

\* The Join button, with what is in the host field.  Text that is no uid of
\* another endpoint fails the join; a second click reuses the attempt.
BeginJoin(input) ==
  \/ /\ input = Invalid
     /\ join' = Commit(join, JoinHostFailedEvent(join.attempt))
     /\ ClearJoinScheduler
     /\ UNCHANGED <<waiting, expect, tally>>
  \/ /\ input \in Hosts
     /\ join.phase \in Pending /\ join.host = input
     /\ ArmJoinScheduler(join)
     /\ UNCHANGED <<join, waiting, expect, tally>>
  \/ /\ input \in Hosts
     /\ ~(join.phase \in Pending /\ join.host = input)
     /\ tally.attempts < MaxAttempts
     /\ tally' = [tally EXCEPT !.attempts = @ + 1]
     /\ join' = Commit(join, JoinHostRequestedEvent(tally'.attempts, input))
     /\ sched' = Armed(join') /\ overdue' = FALSE
     /\ IF join.phase \in Pending
        THEN /\ expect' = [expect EXCEPT ![join.host] = None]
             /\ waiting' = waiting \ {join.host}
        ELSE UNCHANGED <<expect, waiting>>

UserJoins(input) ==
  /\ BeginJoin(input)
  /\ UNCHANGED <<registered, stored, entry, hostRoom, saved, ready, net>>

\* What drive_join_send asks for before it looks at the clock.
Driving ==
  /\ Client \in ready
  /\ join.phase \in Pending
  /\ sched # None /\ sched.attempt = join.attempt

\* Variant: the deadline only counts while the host has not answered.
DriveJoinDeadline_JoiningOnly ==
  /\ Driving /\ overdue /\ join.phase = "Joining"
  /\ join' = Commit(join, JoinHostFailedEvent(join.attempt))
  /\ expect' = [expect EXCEPT ![join.host] = None]
  /\ waiting' = waiting \ {join.host}
  /\ ClearJoinScheduler
  /\ UNCHANGED <<registered, stored, entry, hostRoom, saved, ready, net, tally>>

\* One budget covers Joining and Accepted.
DriveJoinDeadline ==
  /\ Driving /\ overdue
  /\ join' = Commit(join, JoinHostFailedEvent(join.attempt))
  /\ expect' = [expect EXCEPT ![join.host] = None]
  /\ waiting' = waiting \ {join.host}
  /\ ClearJoinScheduler
  /\ UNCHANGED <<registered, stored, entry, hostRoom, saved, ready, net, tally>>

DriveJoinSend ==
  /\ Driving /\ ~overdue
  /\ net' = net \cup {Frame("JoinRequest", join.host, sched.attempt, sched.room)}
  /\ UNCHANGED <<clientVars, hostRoom, saved, ready, tally>>

\* Thirty seconds pass since the request was armed.
Deadline ==
  /\ sched # None /\ ~overdue
  /\ overdue' = TRUE
  /\ UNCHANGED <<join, sched, waiting, expect, registered, stored, entry,
                 hostRoom, saved, ready, net, tally>>

-----------------------------------------------------------------------------
(* The host.                                                                 *)

\* SharedSyncRuntime::SyncInitialState of the room: the phase is saved before
\* the snapshot leaves.
SyncInitialState(h, room) ==
  [room |-> room,
   sync |-> IF hostRoom[h] = [room |-> room, sync |-> "Complete"]
            THEN "Complete" ELSE "Pending"]

Snapshot(h, r) ==
  IF r.sync = "Complete" THEN {} ELSE {Frame("NodeState", h, None, r.room)}

\* Variant: the acceptance leaves before the workspace is saved.
HostAcceptClient_AcceptsFirst(h, m) ==
  /\ hostRoom[h].room = None
  /\ tally.rooms < MaxRooms
  /\ tally' = [tally EXCEPT !.rooms = @ + 1]
  /\ hostRoom' = [hostRoom EXCEPT
                    ![h] = [room |-> tally'.rooms, sync |-> "Pending"]]
  /\ UNCHANGED saved
  /\ net' = net \cup {Frame("JoinAccepted", h, m.attempt, tally'.rooms)}

\* A client the host knows gets its room again, unless it names another one;
\* a new client gets a new room, bound and saved before the host answers.
HostAcceptClient(h, m) ==
  \/ /\ hostRoom[h].room # None
     /\ m.room \notin {None, hostRoom[h].room}
     /\ net' = net \cup {Frame("JoinRejected", h, m.attempt, None)}
     /\ UNCHANGED <<hostRoom, saved, tally>>
  \/ /\ hostRoom[h].room # None
     /\ m.room \in {None, hostRoom[h].room}
     /\ hostRoom' = [hostRoom EXCEPT ![h] = SyncInitialState(h, @.room)]
     /\ saved' = [saved EXCEPT !.host[h] = hostRoom'[h]]
     /\ net' = net \cup {Frame("JoinAccepted", h, m.attempt, hostRoom[h].room)}
                   \cup Snapshot(h, hostRoom'[h])
     /\ UNCHANGED tally
  \/ /\ hostRoom[h].room = None
     /\ tally.rooms < MaxRooms
     /\ tally' = [tally EXCEPT !.rooms = @ + 1]
     /\ hostRoom' = [hostRoom EXCEPT ![h] = SyncInitialState(h, tally'.rooms)]
     /\ saved' = [saved EXCEPT !.host[h] = hostRoom'[h]]
     /\ net' = net \cup {Frame("JoinAccepted", h, m.attempt, tally'.rooms)}
                   \cup Snapshot(h, hostRoom'[h])

\* A host that is not ready ignores the request; the client repeats it.
OnJoinRequest(m) ==
  /\ m.kind = "JoinRequest" /\ m.host \in ready
  /\ HostAcceptClient(m.host, m)
  /\ UNCHANGED <<clientVars, ready>>

\* The model loop repeats the snapshot until it is acknowledged.
DriveRoomSync(h) ==
  /\ h \in ready /\ hostRoom[h].room # None
  /\ hostRoom[h].sync # "Complete"
  /\ hostRoom' = [hostRoom EXCEPT ![h] = SyncInitialState(h, @.room)]
  /\ saved' = [saved EXCEPT !.host[h] = hostRoom'[h]]
  /\ net' = net \cup Snapshot(h, hostRoom'[h])
  /\ UNCHANGED <<clientVars, ready, tally>>

OnAck(m) ==
  /\ m.kind = "Ack" /\ m.host \in ready
  /\ hostRoom[m.host] = [room |-> m.room, sync |-> "Pending"]
  /\ hostRoom' = [hostRoom EXCEPT ![m.host].sync = "Complete"]
  /\ saved' = [saved EXCEPT !.host[m.host] = hostRoom'[m.host]]
  /\ UNCHANGED <<clientVars, ready, net, tally>>

-----------------------------------------------------------------------------
(* The client's answers.                                                     *)

\* Source and attempt are checked before anything changes.
Answers(m) == m.host = join.host /\ m.attempt = join.attempt

OnJoinRejected(m) ==
  /\ m.kind = "JoinRejected" /\ Client \in ready /\ Answers(m)
  /\ CanApply(join, JoinHostFailedEvent(m.attempt))
  /\ join' = Commit(join, JoinHostFailedEvent(m.attempt))
  /\ expect' = [expect EXCEPT ![m.host] = None]
  /\ waiting' = waiting \ {m.host}
  /\ ClearJoinScheduler
  /\ UNCHANGED <<registered, stored, entry, hostRoom, saved, ready, net, tally>>

\* The first acceptance of the attempt.  An entry that is bound to the room
\* completes the join at once; otherwise the snapshot of the room is awaited.
Accepting(m) ==
  LET accepted == JoinHostAcceptedEvent(m.attempt, m.host, m.room) IN
  /\ join.phase = "Joining" /\ CanApply(join, accepted)
  /\ \/ /\ entry[m.host] = m.room
        /\ join' = Commit(Commit(join, accepted),
                          JoinHostCompletedEvent(m.attempt, m.room))
        /\ ClearJoinScheduler
        /\ UNCHANGED <<waiting, expect>>
     \/ /\ entry[m.host] # m.room
        /\ join' = Commit(join, accepted)
        /\ waiting' = waiting \cup {m.host}
        /\ expect' = [expect EXCEPT ![m.host] = m.room]
        /\ UNCHANGED <<sched, overdue>>

\* A repeated acceptance opens the expectation again; one that offers another
\* room fails the join.
AcceptingAgain(m) ==
  /\ join.phase = "Accepted"
  /\ \/ /\ join.accepted = m.room
        /\ waiting' = waiting \cup {m.host}
        /\ expect' = [expect EXCEPT ![m.host] = m.room]
        /\ UNCHANGED <<join, sched, overdue>>
     \/ /\ join.accepted # m.room
        /\ CanApply(join, JoinHostFailedEvent(m.attempt))
        /\ join' = Commit(join, JoinHostFailedEvent(m.attempt))
        /\ ClearJoinScheduler
        /\ UNCHANGED <<waiting, expect>>

OnJoinAccepted(m) ==
  /\ m.kind = "JoinAccepted" /\ Client \in ready /\ Answers(m)
  /\ Accepting(m) \/ AcceptingAgain(m)
  /\ UNCHANGED <<registered, stored, entry, hostRoom, saved, ready, net, tally>>

\* The initial-node-imported callback: what it checks before it binds.
Binds(m) ==
  /\ join.phase = "Accepted"
  /\ m.host = join.host /\ m.room = join.accepted
  /\ m.host \in waiting
  /\ entry[m.host] \in {None, m.room}

ChatBindingChangedEvent(h, room) == [entry |-> h, room |-> room]

\* Variant: the binding is saved with the next change of the workspace.
BindChat_Unsaved(h, room) ==
  LET e == ChatBindingChangedEvent(h, room) IN
  /\ entry[h] \in {None, room}
  /\ entry' = [entry EXCEPT ![e.entry] = e.room]
  /\ UNCHANGED saved

\* An entry is bound once; binding it again to its room changes nothing.
BindChat(h, room) ==
  LET e == ChatBindingChangedEvent(h, room) IN
  /\ entry[h] \in {None, room}
  /\ entry' = [entry EXCEPT ![e.entry] = e.room]
  /\ saved' = [saved EXCEPT !.entry = entry']

\* SharedSyncRuntime::ImportValidatedNode: expected, and no object of it is in
\* the client's storage.
Imports(m) ==
  /\ m.room \notin registered
  /\ expect[m.host] = m.room
  /\ m.room \notin stored

\* A snapshot is imported and stored before it is bound.  While the expectation
\* is open it is acknowledged only after the callback has bound it.
OnNodeState(m) ==
  /\ m.kind = "NodeState" /\ Client \in ready
  /\ m.room \in registered \/ Imports(m)
  /\ registered' = registered \cup {m.room}
  /\ stored' = stored \cup {m.room}
  /\ \/ /\ expect[m.host] = None
        /\ net' = net \cup {Frame("Ack", m.host, None, m.room)}
        /\ UNCHANGED <<join, sched, overdue, waiting, expect, entry, saved>>
     \/ /\ expect[m.host] # None /\ ~Binds(m)
        /\ UNCHANGED <<join, sched, overdue, waiting, expect, entry, saved, net>>
     \/ /\ expect[m.host] # None /\ Binds(m)
        /\ BindChat(m.host, m.room)
        /\ join' = Commit(join, JoinHostCompletedEvent(join.attempt, m.room))
        /\ waiting' = waiting \ {m.host}
        /\ expect' = [expect EXCEPT ![m.host] = None]
        /\ ClearJoinScheduler
        /\ net' = net \cup {Frame("Ack", m.host, None, m.room)}
  /\ UNCHANGED <<hostRoom, ready, tally>>

-----------------------------------------------------------------------------
(* Endpoints and processes.                                                  *)

\* The client's on_ready: the bound rooms are registered, an accepted join is
\* expected again and a pending one is sent again.
OnReadyClient ==
  /\ Client \notin ready
  /\ ready' = ready \cup {Client}
  /\ registered' = {entry[h] : h \in Hosts} \ {None}
  /\ IF join.phase = "Accepted"
     THEN /\ waiting' = waiting \cup {join.host}
          /\ expect' = [expect EXCEPT ![join.host] = join.accepted]
     ELSE UNCHANGED <<waiting, expect>>
  /\ IF join.phase \in Pending
     THEN /\ sched' = IF sched # None /\ sched.attempt = join.attempt
                      THEN sched ELSE Armed(join)
          /\ net' = net \cup {Frame("JoinRequest", join.host,
                                    sched'.attempt, sched'.room)}
     ELSE UNCHANGED <<sched, net>>
  /\ UNCHANGED <<join, overdue, stored, entry, hostRoom, saved, tally>>

OnReadyHost(h) ==
  /\ h \notin ready
  /\ ready' = ready \cup {h}
  /\ UNCHANGED <<clientVars, hostRoom, saved, net, tally>>

\* The connection failed and the user asks for another one.  The join and its
\* clock go on; the sync runtime and its expectations are gone.
RetryConnection ==
  /\ Client \in ready /\ tally.retries < MaxRetries
  /\ tally' = [tally EXCEPT !.retries = @ + 1]
  /\ ready' = ready \ {Client}
  /\ registered' = {}
  /\ expect' = [h \in Hosts |-> None]
  /\ UNCHANGED <<join, sched, overdue, waiting, stored, entry,
                 hostRoom, saved, net>>

\* The client stops: the join state is not persistent and starts idle.
RestartClient ==
  /\ tally.restarts < MaxRestarts
  /\ tally' = [tally EXCEPT !.restarts = @ + 1]
  /\ join' = Idle /\ ClearJoinScheduler
  /\ waiting' = {} /\ registered' = {}
  /\ expect' = [h \in Hosts |-> None]
  /\ entry' = saved.entry
  /\ ready' = ready \ {Client}
  /\ UNCHANGED <<stored, hostRoom, saved, net>>

RestartHost(h) ==
  /\ tally.restarts < MaxRestarts
  /\ tally' = [tally EXCEPT !.restarts = @ + 1]
  /\ hostRoom' = [hostRoom EXCEPT ![h] = saved.host[h]]
  /\ ready' = ready \ {h}
  /\ UNCHANGED <<clientVars, saved, net>>

\* The host starts on an empty model directory with its old Aether identity.
ReplaceHost(h) ==
  /\ Cardinality(tally.replaced) < MaxReplaced /\ h \notin tally.replaced
  /\ tally' = [tally EXCEPT !.replaced = @ \cup {h}]
  /\ hostRoom' = [hostRoom EXCEPT ![h] = NoRoom]
  /\ saved' = [saved EXCEPT !.host[h] = NoRoom]
  /\ ready' = ready \ {h}
  /\ UNCHANGED <<clientVars, net>>

-----------------------------------------------------------------------------
JoinNext ==
  \/ \E input \in Hosts \cup {Invalid} : UserJoins(input)
  \/ DriveJoinSend \/ DriveJoinDeadline \/ Deadline
  \/ \E m \in net \cap Frames :
       \/ OnJoinRequest(m) \/ OnAck(m)
       \/ OnJoinRejected(m) \/ OnJoinAccepted(m) \/ OnNodeState(m)
  \/ \E h \in Hosts : \/ DriveRoomSync(h) \/ OnReadyHost(h)
                      \/ RestartHost(h) \/ ReplaceHost(h)
  \/ OnReadyClient \/ RetryConnection \/ RestartClient

\* The clock runs and the model loop of the client, which wakes every 50 ms,
\* keeps driving the join.
JoinFairness == WF_joinVars(Deadline) /\ WF_joinVars(DriveJoinDeadline)

JoinSpec == JoinInit /\ [][JoinNext]_joinVars /\ JoinFairness

-----------------------------------------------------------------------------
(* Properties.                                                               *)

\* A client that shows Joined has the room in the saved entry of that host, and
\* the host offered exactly this room in answer to this very attempt: neither a
\* late answer to an earlier attempt nor the snapshot of a host the user has
\* left can complete a join (handle_control, the imported callback).
JoinedIsBound ==
  join.phase = "Joined" =>
    /\ join.bound # None
    /\ saved.entry[join.host] = join.bound
    /\ Frame("JoinAccepted", join.host, join.attempt, join.bound) \in net

\* A host never offers one client two rooms, however often the client asks and
\* whenever the host restarts: the room is on disk before the first offer
\* leaves (host_accept_client).  Only a replaced model directory forgets it.
OneRoomPerClient ==
  \A m, n \in net :
    /\ m.kind = "JoinAccepted" /\ n.kind = "JoinAccepted"
    /\ m.host = n.host /\ m.host \notin tally.replaced
    => m.room = n.room

\* Every join is decided: as long as the endpoint is ready, a client does not
\* stay in Joining or Accepted, whatever the host and the network do.
JoinIsDecided ==
  <>[](Client \in ready) =>
    (join.phase \in Pending ~> join.phase \notin Pending)
=============================================================================
