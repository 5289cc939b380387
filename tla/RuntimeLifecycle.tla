-------------------------- MODULE RuntimeLifecycle --------------------------
(***************************************************************************)
(* The lifecycle nodes (runtime_lifecycle.h) in the application that uses  *)
(* them, the peer chat of examples/chat_ui_runtime_demo: every process run *)
(* opens a session on a model that remembers earlier runs, the Aether      *)
(* thread observes the network, selects the client and diagnoses presence, *)
(* and the model thread commits what is posted to it.  The process may be  *)
(* killed between any two steps, also in the middle of a save.             *)
(*                                                                         *)
(* PeerStreamHub is created when the client is ready, but nothing in the   *)
(* application opens a peer, so only its existence is kept.  A failed      *)
(* selection posts a log line to the model thread, which is left out.      *)
(***************************************************************************)
EXTENDS Naturals, Sequences

CONSTANTS
  MaxRuns,      \* process runs
  MaxCrashes,   \* of which are killed
  MaxChanges,   \* changes of the network while a run lasts, over all runs
  MaxDiagnoses, \* changes of Aether's diagnosis over all runs
  MaxFailures,  \* failed selections over all runs
  MaxSends      \* messages sent by the user, over all runs

ASSUME LifecycleBounds ==
  MaxRuns \in Nat \ {0} /\ MaxCrashes \in Nat /\ MaxChanges \in Nat
    /\ MaxDiagnoses \in Nat /\ MaxFailures \in Nat /\ MaxSends \in Nat

VARIABLES
  disk,    \* the stored objects of the model
  account, \* the uid in the Aether state directory, 0 for none
  mem,     \* the model of this process
  queue,   \* posts the model thread has accepted and not run
  model,   \* where the model thread is: "ready" or "binding"
  toSave,  \* objects the running save has still to store
  enable,  \* an EnableLocalPresenceMonitoring command is queued
  aether,  \* the Aether thread
  env,     \* network, diagnosis and selection as the thread would see them
  proc,    \* "down", "up", "exiting" or "saving"
  asserts, \* assertions that have failed
  count    \* how often each bounded thing happened; uids the cloud gave

vars == <<disk, account, mem, queue, model, toSave, enable, aether, env,
          proc, asserts, count>>

-----------------------------------------------------------------------------
(* The nodes, and what their events do to them.                            *)

ClientId == 1..2 \* a model holds one client; a second one would be a mistake
NetworkAvailability ==
  {"initializing", "no_interface", "no_internet", "available"}
NetworkIsOutage(a) == a \in {"no_interface", "no_internet"}
PresenceState == {"unknown", "online", "offline", "connecting"}

ApplicationRuntimeState == [run_id : Nat]
NetworkState == [run_id : Nat, availability : NetworkAvailability]
AetherRegistrationState ==
  [run_id : Nat, registered_run_id : Nat, uid : Nat,
   phase : {"registering", "registered"}]
ChatClient == [aether_uid : Nat, presence : PresenceState]
ChatRoom == [clients : SUBSET ClientId, feed : Nat]
ChatApplication ==
  [runtime : ApplicationRuntimeState, network : NetworkState,
   aether : AetherRegistrationState,
   client : [ClientId -> ChatClient], room : ChatRoom, app : ClientId \cup {0}]

IsRegisteredForCurrentRun(a) ==
  a.phase = "registered" /\ a.registered_run_id = a.run_id /\ a.uid # 0

ApplicationStartedEvent(run) == [run_id |-> run]

\* A run number that is new.
ApplicationStarted(runtime, e) ==
  IF e.run_id # 0 /\ e.run_id # runtime.run_id
  THEN [run_id |-> e.run_id] ELSE runtime

NetworkInitializingEvent(run) ==
  [run_id |-> run, availability |-> "initializing"]
NetworkInterfaceUnavailableEvent(run) ==
  [run_id |-> run, availability |-> "no_interface"]
InternetUnavailableEvent(run) ==
  [run_id |-> run, availability |-> "no_internet"]
NetworkAvailableEvent(run) == [run_id |-> run, availability |-> "available"]

\* Observations are of the current run only, and only news.
NetworkCanApply(n, e) ==
  /\ e.run_id # 0
  /\ IF e.availability = "initializing"
     THEN e.run_id # n.run_id \/ n.availability # "initializing"
     ELSE e.run_id = n.run_id /\ n.availability # e.availability

NetworkApply(n, e) ==
  IF NetworkCanApply(n, e)
  THEN [run_id |-> e.run_id, availability |-> e.availability] ELSE n

RegistrationStartedEvent(run) == [type |-> "started", run_id |-> run]
RegistrationCompletedEvent(run, uid) ==
  [type |-> "completed", run_id |-> run, uid |-> uid]

RegistrationCanApply(a, e) ==
  IF e.type = "started"
  THEN e.run_id # 0 /\ (e.run_id # a.run_id \/ a.phase # "registering")
  ELSE /\ e.uid # 0
       /\ a.run_id # 0 /\ e.run_id # 0 => e.run_id = a.run_id
       /\ ~IsRegisteredForCurrentRun(a) \/ a.uid # e.uid

RegistrationApply(a, e) ==
  IF ~RegistrationCanApply(a, e) THEN a
  ELSE IF e.type = "started"
  THEN [a EXCEPT !.run_id = e.run_id, !.phase = "registering"]
  ELSE [a EXCEPT !.run_id = IF @ = 0 THEN e.run_id ELSE @,
                 !.registered_run_id = e.run_id, !.uid = e.uid,
                 !.phase = "registered"]

PresenceChangedEvent(presence) == [presence |-> presence]
PresenceMonitoringStartedEvent == [presence |-> "connecting"]

\* Both presence events refuse a presence that is there already, and say
\* nothing else.
ClientApply(c, e) == [c EXCEPT !.presence = e.presence]

HasClient(m, c) == c \in m.room.clients
HasClientByAetherUid(m, uid) ==
  \E c \in m.room.clients : uid # 0 /\ m.client[c].aether_uid = uid

ClientAddedEvent(c) == [type |-> "added", client |-> c]
ChatMessageEvent(author) == [type |-> "message", client |-> author]

RoomCanApply(m, e) ==
  IF e.type = "added"
  THEN /\ ~HasClientByAetherUid(m, m.client[e.client].aether_uid)
       /\ ~HasClient(m, e.client)
  ELSE HasClient(m, e.client)

RoomApply(room, e) ==
  IF e.type = "added" THEN [room EXCEPT !.clients = @ \cup {e.client}]
                      ELSE [room EXCEPT !.feed = @ + 1]

-----------------------------------------------------------------------------
(* Commands on the model.                                                  *)

CommitApplicationStarted(m, run) ==
  [m EXCEPT !.runtime = ApplicationStarted(@, ApplicationStartedEvent(run))]

CommitNetwork(m, run, a) ==
  [m EXCEPT !.network = NetworkApply(@,
     CASE a = "initializing" -> NetworkInitializingEvent(run)
       [] a = "no_interface" -> NetworkInterfaceUnavailableEvent(run)
       [] a = "no_internet" -> InternetUnavailableEvent(run)
       [] a = "available" -> NetworkAvailableEvent(run))]

CommitAetherRegistrationStarted(m, run) ==
  [m EXCEPT !.aether = RegistrationApply(@, RegistrationStartedEvent(run))]

CommitAetherRegistrationCompleted(m, uid) ==
  [m EXCEPT !.aether =
     RegistrationApply(@, RegistrationCompletedEvent(m.aether.run_id, uid))]

\* Three commits under the number of the new run.
BeginRuntimeSession(m) ==
  LET run == m.runtime.run_id + 1
  IN  CommitAetherRegistrationStarted(
        CommitNetwork(CommitApplicationStarted(m, run), run, "initializing"),
        run)

CommitPresenceMonitoringStarted(m, c) ==
  [m EXCEPT !.client[c] = ClientApply(@, PresenceMonitoringStartedEvent)]

CommitPresenceChanged(m, c, state) ==
  [m EXCEPT !.client[c] = ClientApply(@, PresenceChangedEvent(state))]

BeginCurrentRun(m) ==
  LET n == BeginRuntimeSession(m)
  IN  IF n.app = 0 THEN n ELSE CommitPresenceMonitoringStarted(n, n.app)

CommitNetworkObservation(m, a) == CommitNetwork(m, m.runtime.run_id, a)

\* Variant: presence is left as it is when the network goes away.
ApplyNetworkObservation_KeepsPresence(m, a) == CommitNetworkObservation(m, a)

\* An outage puts the presence back to Connecting; a network that is
\* available says nothing about it.
ApplyNetworkObservation(m, a) ==
  LET n == CommitNetworkObservation(m, a)
  IN  IF n.app # 0 /\ NetworkIsOutage(a)
      THEN CommitPresenceMonitoringStarted(n, n.app) ELSE n

-----------------------------------------------------------------------------
(* Process and persistence.                                                *)

\* BuildChatGraph: no client, nothing observed.
Distilled ==
  [runtime |-> [run_id |-> 0],
   network |-> [run_id |-> 0, availability |-> "initializing"],
   aether |-> [run_id |-> 0, registered_run_id |-> 0, uid |-> 0,
               phase |-> "registering"],
   client |-> [c \in ClientId |-> [aether_uid |-> 0, presence |-> "unknown"]],
   room |-> [clients |-> {}, feed |-> 0], app |-> 0]

\* A save walks the application and stores leaves first.
SaveOrder == <<"client", "room", "runtime", "network", "aether", "app">>

NoThread ==
  [pc |-> "off", init |-> "waiting", network_available |-> FALSE,
   last_network |-> "none", net |-> "none", client |-> 0, hub |-> FALSE,
   presence_enabled |-> FALSE, last_reported |-> "none"]
NoEnv == [probe |-> "available", diag |-> "unknown", select |-> "none",
          due |-> FALSE]

\* The first start has distilled and saved the graph (CreateOrLoadChatModel);
\* a kill during that first save is a matter of ModelCheckpoint.
Init ==
  /\ disk = Distilled /\ mem = Distilled /\ account = 0
  /\ queue = <<>> /\ model = "ready" /\ toSave = <<>>
  /\ enable = FALSE /\ aether = NoThread /\ env = NoEnv
  /\ proc = "down" /\ asserts = {}
  /\ count = [runs |-> 0, crashes |-> 0, sends |-> 0, uids |-> 0,
              changes |-> 0, diagnoses |-> 0, failures |-> 0]

LoadChatModel == disk

\* WinChatApp::Run: load, open the session, start the two threads.
Run ==
  /\ proc = "down" /\ count.runs < MaxRuns
  /\ count' = [count EXCEPT !.runs = @ + 1]
  /\ mem' = BeginCurrentRun(LoadChatModel)
  /\ aether' = [NoThread EXCEPT !.pc = "top"]
  /\ env' \in {[NoEnv EXCEPT !.probe = a] :
                 a \in NetworkAvailability \ {"initializing"}}
  /\ proc' = "up"
  /\ UNCHANGED <<disk, account, queue, model, toSave, enable, asserts>>

Down ==
  /\ proc' = "down" /\ queue' = <<>> /\ toSave' = <<>> /\ enable' = FALSE
  /\ model' = "ready" /\ aether' = NoThread /\ env' = NoEnv
  /\ mem' = Distilled

Crash ==
  /\ proc # "down" /\ count.crashes < MaxCrashes
  /\ count' = [count EXCEPT !.crashes = @ + 1]
  /\ Down
  /\ UNCHANGED <<disk, account, asserts>>

\* One object of the running save reaches the disk.
StoreNext ==
  /\ toSave # <<>>
  /\ disk' = [disk EXCEPT ![Head(toSave)] = mem[Head(toSave)]]
  /\ toSave' = Tail(toSave)
  /\ UNCHANGED <<account, mem, queue, model, enable, aether, env, proc,
                 asserts, count>>

\* The user closes the window: both threads are told to stop.
RequestExit ==
  /\ proc = "up"
  /\ proc' = "exiting"
  /\ UNCHANGED <<disk, account, mem, queue, model, toSave, enable, aether,
                 env, asserts, count>>

\* Both threads are joined, the model is saved, the process ends.
JoinThreads ==
  /\ proc = "exiting" /\ aether.pc = "done"
  /\ queue = <<>> /\ model = "ready" /\ toSave = <<>>
  /\ proc' = "saving" /\ toSave' = SaveOrder
  /\ UNCHANGED <<disk, account, mem, queue, model, enable, aether, env,
                 asserts, count>>

Finish ==
  /\ proc = "saving" /\ toSave = <<>>
  /\ Down
  /\ UNCHANGED <<disk, account, asserts, count>>

-----------------------------------------------------------------------------
(* The model thread.                                                       *)

Post(q, type, val) ==
  IF proc = "up" THEN Append(q, [type |-> type, val |-> val]) ELSE q

\* A failed assertion ends the process.
Abort(which) ==
  /\ asserts' = asserts \cup {which}
  /\ Down
  /\ UNCHANGED <<disk, account, count>>

Turn(type) ==
  /\ proc \in {"up", "exiting"} /\ model = "ready" /\ toSave = <<>>
  /\ queue # <<>> /\ Head(queue).type = type

\* Variant: a new client is bound, and stored by the save at shutdown only.
CreateUnjoinedLocalClient_Unsaved(m, uid) ==
  IF m.app # 0 THEN [model |-> m, save |-> <<>>]
  ELSE LET c == CHOOSE c \in ClientId : c \notin m.room.clients
       IN  [model |-> [m EXCEPT !.app = c, !.client[c] =
                         [aether_uid |-> uid, presence |-> "unknown"]],
            save |-> <<>>]

\* The client a first registration binds to the application is stored at
\* once, before it is in the room.  Its id is one no stored object refers to.
CreateUnjoinedLocalClient(m, uid) ==
  IF m.app # 0 THEN [model |-> m, save |-> <<>>]
  ELSE LET c == CHOOSE c \in ClientId : c \notin m.room.clients
       IN  [model |-> [m EXCEPT !.app = c, !.client[c] =
                         [aether_uid |-> uid, presence |-> "unknown"]],
            save |-> SaveOrder]

AlreadyComplete(m) == IsRegisteredForCurrentRun(m.aether) /\ HasClient(m, m.app)

\* CompleteLocalRegistration up to the save of the client it binds.
BindLocalClient(m, uid) ==
  CreateUnjoinedLocalClient(CommitAetherRegistrationCompleted(m, uid), uid)

\* The rest: the client joins the room, unless it is there, and presence
\* monitoring starts.
JoinLocalClient(m) ==
  CommitPresenceMonitoringStarted(
    IF HasClient(m, m.app) THEN m
    ELSE [m EXCEPT !.room = RoomApply(@, ClientAddedEvent(m.app))], m.app)

HandleAetherUid ==
  /\ Turn("uid")
  /\ queue' = Tail(queue)
  /\ IF AlreadyComplete(mem)
     THEN /\ enable' = TRUE
          /\ UNCHANGED <<mem, model, toSave>>
     ELSE LET bound == BindLocalClient(mem, Head(queue).val)
          IN  /\ mem' = bound.model /\ toSave' = bound.save
              /\ model' = "binding"
              /\ UNCHANGED enable
  /\ UNCHANGED <<disk, account, aether, env, proc, asserts, count>>

\* EnableLocalPresenceMonitoring is the last thing the handler does.
FinishRegistration ==
  /\ model = "binding" /\ toSave = <<>>
  /\ IF HasClient(mem, mem.app) \/ RoomCanApply(mem, ClientAddedEvent(mem.app))
     THEN /\ mem' = JoinLocalClient(mem)
          /\ model' = "ready" /\ enable' = TRUE
          /\ UNCHANGED <<disk, account, queue, toSave, aether, env, proc,
                         asserts, count>>
     ELSE Abort("add")

HandleNetworkObservation ==
  /\ Turn("network")
  /\ queue' = Tail(queue)
  /\ mem' = ApplyNetworkObservation(mem, Head(queue).val)
  /\ UNCHANGED <<disk, account, model, toSave, enable, aether, env, proc,
                 asserts, count>>

HandlePresence ==
  /\ Turn("presence")
  /\ queue' = Tail(queue)
  /\ mem' = IF mem.app # 0 /\ Head(queue).val \in {"online", "offline"}
            THEN CommitPresenceChanged(mem, mem.app, Head(queue).val) ELSE mem
  /\ UNCHANGED <<disk, account, model, toSave, enable, aether, env, proc,
                 asserts, count>>

CommitSendChatMessage(m, author) ==
  [m EXCEPT !.room = RoomApply(@, ChatMessageEvent(author))]

\* CommitSendChatMessage asserts that the author is in the room.
HandleSend ==
  /\ Turn("send")
  /\ \/ /\ mem.app = 0
        /\ queue' = Tail(queue)
        /\ UNCHANGED <<disk, account, mem, model, toSave, enable, aether,
                       env, proc, asserts, count>>
     \/ /\ mem.app # 0 /\ RoomCanApply(mem, ChatMessageEvent(mem.app))
        /\ mem' = CommitSendChatMessage(mem, mem.app)
        /\ queue' = Tail(queue)
        /\ UNCHANGED <<disk, account, model, toSave, enable, aether, env,
                       proc, asserts, count>>
     \/ /\ mem.app # 0 /\ ~RoomCanApply(mem, ChatMessageEvent(mem.app))
        /\ Abort("send")

-----------------------------------------------------------------------------
(* The GUI.  How its copy of the nodes follows them is ModelRuntime's.     *)

\* What the identity bar shows: a status, or the uid (host), which may be
\* copied, and the room field (client), which may be joined.
ProjectIdentityBar(network, registration) ==
  IF NetworkIsOutage(network.availability) THEN "outage"
  ELSE IF IsRegisteredForCurrentRun(registration) THEN "ready"
  ELSE "registering"

\* The send button asks for no registration.
TrySend ==
  /\ proc = "up" /\ count.sends < MaxSends
  /\ count' = [count EXCEPT !.sends = @ + 1]
  /\ queue' = Post(queue, "send", 0)
  /\ UNCHANGED <<disk, account, mem, model, toSave, enable, aether, env,
                 proc, asserts>>

-----------------------------------------------------------------------------
(* The Aether thread.                                                      *)

stop == proc # "up"

\* Whether the observation, or a retry that is due, starts a selection.
OnNetworkObservation(a, available) ==
  /\ available /\ a.init \notin {"ready", "selecting"}
  /\ \/ ~a.network_available
     \/ a.init = "waiting"
     \/ a.init = "retry" /\ env.due

\* Where an observation leaves the controller when it starts nothing.
Observed(a, available) ==
  IF ~available /\ a.init \notin {"ready", "selecting"} THEN "waiting"
  ELSE a.init

\* Variant: a failed selection is left to the next change of the network.
OnSelectClientFailed_NoRetry(a) == a.init

\* Without a network a failed selection waits for it, else for its retry.
OnSelectClientFailed(a) == IF a.network_available THEN "retry" ELSE "waiting"

ReportNetwork(a, net) ==
  IF net = a.last_network THEN queue ELSE Post(queue, "network", net)

\* The top of the loop: commands, the probe, the selection, the hub.
LoopTop ==
  /\ aether.pc = "top" /\ proc \in {"up", "exiting"}
  /\ IF stop
     THEN /\ aether' = [aether EXCEPT !.pc = "done"]
          /\ account' = IF aether.client # 0 THEN aether.client ELSE account
          /\ UNCHANGED <<enable, queue, env>>
     ELSE LET net == env.probe
              available == net = "available"
              start == OnNetworkObservation(aether, available)
              init == IF start THEN "selecting" ELSE Observed(aether, available)
          IN /\ aether' = [aether EXCEPT !.pc = "update", !.net = net,
                 !.presence_enabled = @ \/ enable, !.last_network = net,
                 !.network_available = available, !.init = init,
                 !.hub = @ \/ (init = "ready" /\ aether.client # 0)]
             /\ enable' = FALSE
             /\ queue' = ReportNetwork(aether, net)
             /\ env' = [env EXCEPT !.due = @ /\ init = "retry",
                          !.select = IF start THEN "pending" ELSE @]
             /\ UNCHANGED account
  /\ UNCHANGED <<disk, mem, model, toSave, proc, asserts, count>>

\* Variant: the uid is reported before the client is stored.
ConfigureReadyClient_EmitsFirst(uid) ==
  /\ queue' = Post(queue, "uid", uid)
  /\ UNCHANGED account

\* The client is stored; its uid is reported in the next step.
ConfigureReadyClient(uid) ==
  /\ account' = uid
  /\ UNCHANGED queue

\* LocalConnectivityMonitor::Tick, at the end of each turn of the loop,
\* reports the diagnosis when it is news.
Tick(a, q) ==
  LET news == /\ a.presence_enabled /\ a.hub /\ a.net = "available"
              /\ env.diag # a.last_reported
  IN  /\ aether' = [a EXCEPT !.pc = "top",
                       !.last_reported = IF news THEN env.diag ELSE @]
      /\ queue' = IF news THEN Post(q, "presence", env.diag) ELSE q

\* Update delivers the answer of the selection, if there is one.
Update ==
  /\ aether.pc = "update"
  /\ \/ /\ stop \/ env.select \in {"none", "pending"}
        /\ Tick(aether, queue)
        /\ UNCHANGED <<account, env, count>>
     \/ /\ ~stop /\ env.select = "failed"
        /\ Tick([aether EXCEPT !.init = OnSelectClientFailed(aether)], queue)
        /\ env' = [env EXCEPT !.select = "none"]
        /\ UNCHANGED <<account, count>>
     \/ /\ ~stop /\ env.select = "ok"
        /\ LET uid == IF account # 0 THEN account ELSE count.uids + 1
           IN  /\ aether' = [aether EXCEPT !.pc = "emit", !.init = "ready",
                                           !.client = uid]
               /\ ConfigureReadyClient(uid)
               /\ count' = [count EXCEPT !.uids = IF @ < uid THEN uid ELSE @]
        /\ env' = [env EXCEPT !.select = "none"]
  /\ UNCHANGED <<disk, mem, model, toSave, enable, proc, asserts>>

EmitUid ==
  /\ aether.pc = "emit"
  /\ Tick(aether, Post(queue, "uid", aether.client))
  /\ UNCHANGED <<disk, account, mem, model, toSave, enable, env, proc,
                 asserts, count>>

-----------------------------------------------------------------------------
(* The world.                                                              *)

World ==
  /\ proc = "up"
  /\ UNCHANGED <<disk, account, mem, queue, model, toSave, enable, aether,
                 proc, asserts>>

NetworkChanges(a) ==
  /\ count.changes < MaxChanges /\ a # env.probe
  /\ env' = [env EXCEPT !.probe = a]
  /\ count' = [count EXCEPT !.changes = @ + 1]
  /\ World

PresenceFromLocalDiag(has_schedule, any_online) ==
  IF ~has_schedule THEN "unknown" ELSE IF any_online THEN "online" ELSE "offline"

DiagnosisChanges(has_schedule, any_online) ==
  /\ count.diagnoses < MaxDiagnoses
  /\ env.diag # PresenceFromLocalDiag(has_schedule, any_online)
  /\ env' = [env EXCEPT !.diag = PresenceFromLocalDiag(has_schedule, any_online)]
  /\ count' = [count EXCEPT !.diagnoses = @ + 1]
  /\ World

RetryIsDue ==
  /\ aether.init = "retry" /\ ~env.due
  /\ env' = [env EXCEPT !.due = TRUE]
  /\ World /\ UNCHANGED count

\* Failures, unlike answers, are bounded.
SelectAnswers ==
  /\ env.select = "pending"
  /\ \/ /\ env' = [env EXCEPT !.select = "ok"]
        /\ UNCHANGED count
     \/ /\ count.failures < MaxFailures
        /\ env' = [env EXCEPT !.select = "failed"]
        /\ count' = [count EXCEPT !.failures = @ + 1]
  /\ World

-----------------------------------------------------------------------------
ModelThread ==
  \/ HandleAetherUid \/ FinishRegistration \/ HandleNetworkObservation
  \/ HandlePresence \/ HandleSend \/ StoreNext
AetherThread == LoopTop \/ Update \/ EmitUid
Terminated == proc = "down" /\ count.runs = MaxRuns /\ UNCHANGED vars

Next ==
  \/ Run \/ Crash \/ RequestExit \/ JoinThreads \/ Finish
  \/ ModelThread \/ AetherThread \/ TrySend
  \/ \E a \in NetworkAvailability \ {"initializing"} : NetworkChanges(a)
  \/ \E s, o \in BOOLEAN : DiagnosisChanges(s, o)
  \/ RetryIsDue \/ SelectAnswers
  \/ Terminated

\* Two running threads and a clock; a selection that is asked is answered.
Fairness ==
  /\ WF_vars(ModelThread) /\ WF_vars(AetherThread)
  /\ WF_vars(RetryIsDue) /\ WF_vars(SelectAnswers)

Spec == Init /\ [][Next]_vars /\ Fairness

-----------------------------------------------------------------------------
(* Properties                                                              *)

TypeOK ==
  /\ disk \in ChatApplication /\ mem \in ChatApplication /\ account \in Nat
  /\ model \in {"ready", "binding"}
  /\ proc \in {"down", "up", "exiting", "saving"}
  /\ asserts \subseteq {"add", "send"}

\* Every uid the model or its files hold is the one in the Aether state
\* directory: killed at any point, the next run does not come back as somebody
\* else.
IdentityIsDurable ==
  \A m \in {mem, disk} :
    /\ m.aether.uid \in {0, account}
    /\ \A c \in ClientId : m.client[c].aether_uid \in {0, account}

\* chat_commands.h:35, assert(room.CanApply(*event)): no sequence of runs,
\* however they end, leaves a room that refuses the local client.
RegistrationIsAdmitted == "add" \notin asserts

\* runtime_lifecycle.h:186 and chat_commands.h:181: what the GUI shows is of
\* this run, whatever earlier runs stored.  The identity bar offers a uid, or a
\* room to join, only for the client this run has selected; an Online or
\* Offline is a diagnosis of this run, of a registered client, made after the
\* last outage the model knows of.
ShownIsThisRun ==
  /\ proc = "up" /\ ProjectIdentityBar(mem.network, mem.aether) = "ready" =>
       /\ aether.client # 0 /\ mem.aether.uid = aether.client
       /\ mem.aether.run_id = mem.runtime.run_id
  /\ proc # "down" /\ mem.app # 0
       /\ mem.client[mem.app].presence \in {"online", "offline"} =>
       /\ mem.network.availability = "available"
       /\ IsRegisteredForCurrentRun(mem.aether)
       /\ aether.last_reported # "none"

\* A run with a network registers: selections that fail are retried until the
\* client is in its room, unless the run ends or the network goes.
RegistersEventually ==
  []<>(\/ proc # "up" \/ env.probe # "available"
       \/ IsRegisteredForCurrentRun(mem.aether)
            /\ mem.app \in mem.room.clients)
=============================================================================
