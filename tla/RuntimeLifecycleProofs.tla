----------------------- MODULE RuntimeLifecycleProofs -----------------------
(***************************************************************************)
(* What a run shows and stores, for any number of runs, crashes, posts and *)
(* changes of the network.  A process may be killed between any two stored *)
(* objects, so the invariant relates the objects on disk to each other as  *)
(* well as to the model in memory; and the presence that is shown follows  *)
(* from the order of the posts, so it also says what the posts that are    *)
(* still queued will find when their turn comes.                           *)
(*                                                                         *)
(* And about the join protocol of the other chat demo (ChatJoin): a join   *)
(* that shows Joined is bound to the room the host offered for it, and a   *)
(* host offers a client one room.                                          *)
(***************************************************************************)
EXTENDS RuntimeLifecycle, ChatJoin, TLAPS

Observable == NetworkAvailability \ {"initializing"}
Diagnosis == {"unknown", "online", "offline"}

Posted ==
  [type : {"uid"}, val : Nat] \cup [type : {"network"}, val : Observable]
    \cup [type : {"presence"}, val : Diagnosis] \cup [type : {"send"}, val : {0}]

\* What is left of a save.
Saves ==
  {<<>>, <<"app">>, <<"aether", "app">>, <<"network", "aether", "app">>,
   <<"runtime", "network", "aether", "app">>,
   <<"room", "runtime", "network", "aether", "app">>, SaveOrder}

\* The run number is stored, the nodes of the run are not.
AfterRuntime == {<<"network", "aether", "app">>, <<"aether", "app">>}

ThreadState ==
  [pc : {"off", "top", "update", "emit", "done"},
   init : {"waiting", "selecting", "retry", "ready"},
   network_available : BOOLEAN, last_network : Observable \cup {"none"},
   net : Observable \cup {"none"}, client : Nat, hub : BOOLEAN,
   presence_enabled : BOOLEAN, last_reported : Diagnosis \cup {"none"}]

Types ==
  /\ TypeOK
  /\ queue \in Seq(Posted) /\ toSave \in Saves /\ enable \in BOOLEAN
  /\ aether \in ThreadState
  /\ env \in [probe : Observable, diag : Diagnosis,
              select : {"none", "pending", "ok", "failed"}, due : BOOLEAN]
  /\ count \in [runs : Nat, crashes : Nat, sends : Nat, uids : Nat,
                changes : Nat, diagnoses : Nat, failures : Nat]

\* Nothing of a process outlives it.
DownOK ==
  proc = "down" =>
    /\ queue = <<>> /\ toSave = <<>> /\ model = "ready" /\ enable = FALSE
    /\ aether = NoThread /\ env = NoEnv /\ mem = Distilled

\* One identity: the selected client's, once there is one.
IdentityOK ==
  /\ IdentityIsDurable
  /\ aether.client \in {0, account}
  /\ aether.pc = "emit" => aether.client # 0

\* Only the bound client is in the room; it gets there when the model on disk
\* names it.
RoomOK ==
  /\ \A m \in {mem, disk} : m.room.clients \subseteq {m.app}
  /\ proc # "down" =>
       \/ mem.app = disk.app
       \/ disk.app = 0 /\ toSave # <<>> /\ mem.room.clients = {}

\* The stored nodes are of no later run than the stored run number, which a
\* save writes before them; the nodes in memory are of this run.
RunOK ==
  /\ disk.network.run_id <= disk.runtime.run_id
  /\ disk.aether.run_id <= disk.runtime.run_id
  /\ proc # "down" =>
       /\ mem.runtime.run_id # 0
       /\ mem.network.run_id = mem.runtime.run_id
       /\ mem.aether.run_id = mem.runtime.run_id
       /\ disk.runtime.run_id <= mem.runtime.run_id
       /\ toSave \in AfterRuntime =>
            disk.runtime = mem.runtime

\* The registration in memory is the one this run's selection led to.
RegisteredOK ==
  /\ proc # "down" /\ mem.aether.phase = "registered" =>
       /\ IsRegisteredForCurrentRun(mem.aether)
       /\ aether.client # 0 /\ mem.aether.uid = aether.client
  /\ model = "binding" => mem.aether.phase = "registered" /\ mem.app # 0
  /\ enable \/ aether.presence_enabled => mem.aether.phase = "registered"

\* When the i-th post runs, the model knows of a network that is available.
AvailableAt(q, known, i) ==
  \/ /\ known = "available"
     /\ \A k \in 1..(i - 1) : q[k].type # "network"
  \/ \E j \in 1..(i - 1) :
       /\ q[j].type = "network" /\ q[j].val = "available"
       /\ \A k \in (j + 1)..(i - 1) : q[k].type # "network"

\* Every queued uid is the selected client's.
UidPosts(q, client) ==
  \A i \in 1..Len(q) : q[i].type = "uid" => q[i].val = client /\ client # 0

\* Every queued diagnosis was made for a registered client, and none will be
\* shown while the model knows of an outage.
PresencePosts(q, known, phase, reported) ==
  \A i \in 1..Len(q) : q[i].type = "presence" =>
    AvailableAt(q, known, i) /\ phase = "registered" /\ reported # "none"

QueueOK ==
  /\ UidPosts(queue, aether.client)
  /\ PresencePosts(queue, mem.network.availability, mem.aether.phase,
                   aether.last_reported)
  /\ aether.net = aether.last_network
  /\ proc = "up" /\ aether.last_network = "available" =>
       AvailableAt(queue, mem.network.availability, Len(queue) + 1)

PresenceOK ==
  /\ proc # "down" /\ mem.app # 0
  /\ mem.client[mem.app].presence \in {"online", "offline"}
  => /\ mem.network.availability = "available"
     /\ mem.aether.phase = "registered"
     /\ aether.last_reported # "none"

IndInv ==
  /\ Types /\ DownOK /\ IdentityOK /\ RoomOK /\ RunOK
  /\ RegisteredOK /\ QueueOK /\ PresenceOK /\ RegistrationIsAdmitted

-----------------------------------------------------------------------------
(* What the commands do to the model.                                      *)

\* The fields of a model, one level down.
LEMMA ModelFields ==
  \A m \in ChatApplication :
    /\ m.runtime \in ApplicationRuntimeState /\ m.network \in NetworkState
    /\ m.aether \in AetherRegistrationState /\ m.room \in ChatRoom
    /\ m.client \in [ClientId -> ChatClient] /\ m.app \in ClientId \cup {0}
    /\ m.runtime.run_id \in Nat /\ m.network.run_id \in Nat
    /\ m.aether.run_id \in Nat /\ m.aether.uid \in Nat
BY DEF ChatApplication, ApplicationRuntimeState, NetworkState,
       AetherRegistrationState

\* A new session leaves the identity and the room, is of the run after the
\* stored one and starts from nothing: no network, no registration.
LEMMA SessionBegins ==
  ASSUME NEW m \in ChatApplication,
         m.network.run_id <= m.runtime.run_id,
         m.aether.run_id <= m.runtime.run_id
  PROVE  LET n == BeginRuntimeSession(m)
             run == m.runtime.run_id + 1
         IN n = [m EXCEPT !.runtime = [run_id |-> run],
                  !.network = [run_id |-> run, availability |-> "initializing"],
                  !.aether = [m.aether EXCEPT !.run_id = run,
                                              !.phase = "registering"]]
<1> DEFINE run == m.runtime.run_id + 1
           m1 == CommitApplicationStarted(m, run)
           m2 == CommitNetwork(m1, run, "initializing")
           m3 == CommitAetherRegistrationStarted(m2, run)
<1>1. /\ run \in Nat /\ run # 0 /\ run # m.runtime.run_id
      /\ run # m.network.run_id /\ run # m.aether.run_id
  BY ModelFields
<1> HIDE DEF run
<1>2. m1 = [m EXCEPT !.runtime = [run_id |-> run]]
  BY <1>1 DEF CommitApplicationStarted, ApplicationStarted,
              ApplicationStartedEvent
<1>3. /\ m1.network = m.network /\ m1.aether = m.aether
      /\ m1 \in ChatApplication
  BY <1>1, <1>2, ModelFields DEF ChatApplication, ApplicationRuntimeState
<1> HIDE DEF m1
<1>4. m2 = [m1 EXCEPT
              !.network = [run_id |-> run, availability |-> "initializing"]]
  BY <1>1, <1>3 DEF CommitNetwork, NetworkApply, NetworkCanApply,
                    NetworkInitializingEvent
<1>5. m2.aether = m.aether
  BY <1>3, <1>4 DEF ChatApplication
<1> HIDE DEF m2
<1>6. m3 = [m2 EXCEPT !.aether = [m.aether EXCEPT !.run_id = run,
                                                  !.phase = "registering"]]
  BY <1>1, <1>5 DEF CommitAetherRegistrationStarted, RegistrationApply,
                    RegistrationCanApply, RegistrationStartedEvent
<1>7. m3 = [m EXCEPT !.runtime = [run_id |-> run],
              !.network = [run_id |-> run, availability |-> "initializing"],
              !.aether = [m.aether EXCEPT !.run_id = run,
                                          !.phase = "registering"]]
  BY <1>2, <1>4, <1>6
<1> QED BY <1>7 DEF BeginRuntimeSession, m1, m2, m3, run

\* The presence of one client changes, and nothing else.
LEMMA PresenceCommits ==
  \A m \in ChatApplication : \A c \in ClientId : \A p \in PresenceState :
    LET n == [m EXCEPT !.client[c] = ClientApply(@, [presence |-> p])]
    IN /\ n \in ChatApplication
       /\ n.runtime = m.runtime /\ n.network = m.network
       /\ n.aether = m.aether /\ n.room = m.room /\ n.app = m.app
       /\ n.client[c].presence = p
       /\ \A d \in ClientId : n.client[d].aether_uid = m.client[d].aether_uid
BY DEF ChatApplication, ChatClient, ClientApply

\* The same, of the commands.
LEMMA PresenceCommands ==
  ASSUME NEW m \in ChatApplication, NEW c \in ClientId, NEW p \in PresenceState,
         NEW n, \/ n = CommitPresenceChanged(m, c, p)
                \/ n = CommitPresenceMonitoringStarted(m, c) /\ p = "connecting"
  PROVE  /\ n \in ChatApplication
         /\ n.runtime = m.runtime /\ n.network = m.network
         /\ n.aether = m.aether /\ n.room = m.room /\ n.app = m.app
         /\ n.client[c].presence = p
         /\ \A d \in ClientId : n.client[d].aether_uid = m.client[d].aether_uid
<1>1. n = [m EXCEPT !.client[c] = ClientApply(@, [presence |-> p])]
  BY DEF CommitPresenceChanged, CommitPresenceMonitoringStarted,
         PresenceChangedEvent, PresenceMonitoringStartedEvent
<1> QED BY <1>1, PresenceCommits

\* The model of a new run.
LEMMA CurrentRunBegins ==
  ASSUME NEW m \in ChatApplication,
         m.network.run_id <= m.runtime.run_id,
         m.aether.run_id <= m.runtime.run_id
  PROVE  LET n == BeginCurrentRun(m)
             run == m.runtime.run_id + 1
         IN /\ n \in ChatApplication
            /\ n.runtime.run_id = run /\ n.network.run_id = run
            /\ n.aether.run_id = run /\ n.aether.phase = "registering"
            /\ n.aether.uid = m.aether.uid
            /\ n.room = m.room /\ n.app = m.app
            /\ n.app # 0 => n.client[n.app].presence = "connecting"
            /\ \A d \in ClientId : n.client[d].aether_uid = m.client[d].aether_uid
<1> DEFINE run == m.runtime.run_id + 1
           n == BeginRuntimeSession(m)
<1>1. n = [m EXCEPT !.runtime = [run_id |-> run],
             !.network = [run_id |-> run, availability |-> "initializing"],
             !.aether = [m.aether EXCEPT !.run_id = run,
                                         !.phase = "registering"]]
  BY SessionBegins
<1>2. run \in Nat
  BY ModelFields
<1> HIDE DEF n, run
<1>3. /\ n \in ChatApplication
      /\ n.runtime.run_id = run /\ n.network.run_id = run
      /\ n.aether.run_id = run /\ n.aether.phase = "registering"
      /\ n.aether.uid = m.aether.uid
      /\ n.room = m.room /\ n.app = m.app /\ n.client = m.client
  BY <1>1, <1>2, ModelFields
     DEF ChatApplication, ApplicationRuntimeState, NetworkState,
         NetworkAvailability, AetherRegistrationState
<1>4. CASE n.app = 0
  BY <1>3, <1>4 DEF BeginCurrentRun, n, run
<1>5. CASE n.app # 0
  <2>1. n.app \in ClientId /\ "connecting" \in PresenceState
    BY <1>3, <1>5, ModelFields DEF PresenceState
  <2>2. BeginCurrentRun(m) = CommitPresenceMonitoringStarted(n, n.app)
    BY <1>5 DEF BeginCurrentRun, n
  <2>3. PICK z : z = BeginCurrentRun(m)
    OBVIOUS
  <2>4. /\ z \in ChatApplication
        /\ z.runtime = n.runtime /\ z.network = n.network
        /\ z.aether = n.aether /\ z.room = n.room /\ z.app = n.app
        /\ z.client[n.app].presence = "connecting"
        /\ \A d \in ClientId : z.client[d].aether_uid = n.client[d].aether_uid
    BY <1>3, <2>1, <2>2, <2>3, PresenceCommands
  <2> QED BY <1>3, <2>3, <2>4 DEF run
<1> QED BY <1>4, <1>5

\* An observation of the network is recorded, and an outage ends what is
\* known of the presence.
LEMMA NetworkObserved ==
  ASSUME NEW m \in ChatApplication, NEW a \in Observable,
         m.runtime.run_id # 0, m.network.run_id = m.runtime.run_id
  PROVE  LET n == ApplyNetworkObservation(m, a)
         IN /\ n \in ChatApplication
            /\ n.network.availability = a /\ n.network.run_id = m.network.run_id
            /\ n.runtime = m.runtime /\ n.aether = m.aether
            /\ n.room = m.room /\ n.app = m.app
            /\ n.app # 0 =>
                 \/ a = "available" /\ n.client = m.client
                 \/ n.client[n.app].presence = "connecting"
            /\ \A d \in ClientId : n.client[d].aether_uid = m.client[d].aether_uid
<1> DEFINE n == CommitNetworkObservation(m, a)
<1>1. PICK run \in Nat : run = m.runtime.run_id /\ run # 0
  BY ModelFields
<1>2. m.network = [run_id |-> run, availability |-> m.network.availability]
  BY <1>1 DEF ChatApplication, NetworkState
<1>3. a \in {"no_interface", "no_internet", "available"}
  BY DEF Observable, NetworkAvailability
<1>4. PICK e : /\ e = [run_id |-> run, availability |-> a]
               /\ n = [m EXCEPT !.network = NetworkApply(@, e)]
  BY <1>1, <1>3 DEF CommitNetworkObservation, CommitNetwork,
       NetworkInterfaceUnavailableEvent, InternetUnavailableEvent,
       NetworkAvailableEvent
<1>5. NetworkApply(m.network, e) = [run_id |-> run, availability |-> a]
  BY <1>1, <1>2, <1>3, <1>4 DEF NetworkApply, NetworkCanApply
<1>6. n = [m EXCEPT !.network = [run_id |-> run, availability |-> a]]
  BY <1>4, <1>5
<1>7. /\ n \in ChatApplication
      /\ n.network.availability = a /\ n.network.run_id = m.network.run_id
      /\ n.runtime = m.runtime /\ n.aether = m.aether
      /\ n.room = m.room /\ n.app = m.app /\ n.client = m.client
  BY <1>1, <1>6 DEF ChatApplication, NetworkState, Observable
<1> HIDE DEF n
<1>8. CASE n.app # 0 /\ NetworkIsOutage(a)
  <2>1. n.app \in ClientId /\ "connecting" \in PresenceState
    BY <1>7, <1>8, ModelFields DEF PresenceState
  <2>2. ApplyNetworkObservation(m, a) = CommitPresenceMonitoringStarted(n, n.app)
    BY <1>8 DEF ApplyNetworkObservation, n
  <2>3. PICK z : z = ApplyNetworkObservation(m, a)
    OBVIOUS
  <2>4. /\ z \in ChatApplication
        /\ z.runtime = n.runtime /\ z.network = n.network
        /\ z.aether = n.aether /\ z.room = n.room /\ z.app = n.app
        /\ z.client[n.app].presence = "connecting"
        /\ \A d \in ClientId : z.client[d].aether_uid = n.client[d].aether_uid
    BY <1>7, <2>1, <2>2, <2>3, PresenceCommands
  <2> QED BY <1>7, <2>3, <2>4
<1>9. CASE ~(n.app # 0 /\ NetworkIsOutage(a))
  <2>1. ApplyNetworkObservation(m, a) = n
    BY <1>9 DEF ApplyNetworkObservation, n
  <2>2. n.app # 0 => a = "available"
    BY <1>3, <1>9 DEF NetworkIsOutage
  <2> QED BY <1>7, <2>1, <2>2
<1> QED BY <1>8, <1>9

\* A completed registration is the current run's, whether it was news or not.
LEMMA RegistrationCompletes ==
  ASSUME NEW m \in ChatApplication, NEW uid \in Nat, uid # 0,
         m.aether.run_id # 0,
         m.aether.phase = "registered" => m.aether.uid = uid
  PROVE  LET n == CommitAetherRegistrationCompleted(m, uid)
         IN /\ n \in ChatApplication
            /\ IsRegisteredForCurrentRun(n.aether) /\ n.aether.uid = uid
            /\ n.aether.run_id = m.aether.run_id
            /\ n.runtime = m.runtime /\ n.network = m.network
            /\ n.room = m.room /\ n.app = m.app /\ n.client = m.client
<1> DEFINE a == m.aether
           e == RegistrationCompletedEvent(a.run_id, uid)
<1>1. a \in AetherRegistrationState /\ a.run_id \in Nat /\ a.run_id # 0
  BY ModelFields
<1>2. e = [type |-> "completed", run_id |-> a.run_id, uid |-> uid]
  BY DEF RegistrationCompletedEvent
<1> HIDE DEF a, e
<1>3. LET b == RegistrationApply(a, e)
      IN /\ b \in AetherRegistrationState /\ b.run_id = a.run_id
         /\ IsRegisteredForCurrentRun(b) /\ b.uid = uid
  <2>1. CASE RegistrationCanApply(a, e)
    <3>1. RegistrationApply(a, e) =
            [a EXCEPT !.run_id = a.run_id, !.registered_run_id = a.run_id,
                      !.uid = uid, !.phase = "registered"]
      BY <1>1, <1>2, <2>1 DEF RegistrationApply
    <3> QED BY <1>1, <3>1 DEF AetherRegistrationState, IsRegisteredForCurrentRun
  <2>2. CASE ~RegistrationCanApply(a, e)
    <3>1. RegistrationApply(a, e) = a
      BY <2>2 DEF RegistrationApply
    <3>2. IsRegisteredForCurrentRun(a)
      BY <1>1, <1>2, <2>2 DEF RegistrationCanApply
    <3>3. a.uid = uid
      BY <3>2 DEF IsRegisteredForCurrentRun, a
    <3> QED BY <1>1, <3>1, <3>2, <3>3
  <2> QED BY <2>1, <2>2
<1>4. CommitAetherRegistrationCompleted(m, uid) =
        [m EXCEPT !.aether = RegistrationApply(a, e)]
  BY DEF CommitAetherRegistrationCompleted, a, e
<1>5. PICK b : b = RegistrationApply(a, e)
  OBVIOUS
<1> QED BY <1>3, <1>4, <1>5, ModelFields DEF ChatApplication, a

-----------------------------------------------------------------------------
(* The queue.                                                              *)

\* A post goes behind the others: it changes nothing for them.
LEMMA Posting ==
  ASSUME NEW q \in Seq(Posted), NEW p \in Posted, NEW known
  PROVE  LET r == Append(q, p)
         IN /\ r \in Seq(Posted) /\ Len(r) = Len(q) + 1
            /\ \A i \in 1..(Len(q) + 1) :
                 AvailableAt(q, known, i) => AvailableAt(r, known, i)
            /\ p.type # "network" /\ AvailableAt(q, known, Len(q) + 1) =>
                 AvailableAt(r, known, Len(q) + 2)
            /\ p.type = "network" /\ p.val = "available" =>
                 AvailableAt(r, known, Len(q) + 2)
<1> DEFINE r == Append(q, p)
<1>1. /\ r \in Seq(Posted) /\ Len(r) = Len(q) + 1 /\ r[Len(q) + 1] = p
      /\ \A i \in 1..Len(q) : r[i] = q[i]
      /\ Len(q) \in Nat
  OBVIOUS
<1> HIDE DEF r
<1>2. ASSUME NEW i \in 1..(Len(q) + 1), AvailableAt(q, known, i)
      PROVE  AvailableAt(r, known, i)
  <2>1. \A k \in 1..(i - 1) : r[k] = q[k]
    BY <1>1
  <2> QED BY <1>1, <1>2, <2>1 DEF AvailableAt
<1>3. ASSUME p.type # "network", AvailableAt(q, known, Len(q) + 1)
      PROVE  AvailableAt(r, known, Len(q) + 2)
  <2>1. AvailableAt(r, known, Len(q) + 1)
    BY <1>1, <1>2, <1>3
  <2>2. \A j \in Nat : \A k \in j..(Len(q) + 2 - 1) :
          k \in j..(Len(q) + 1 - 1) \/ k = Len(q) + 1
    BY <1>1
  <2>3. CASE /\ known = "available"
             /\ \A k \in 1..(Len(q) + 1 - 1) : r[k].type # "network"
    BY <1>1, <1>3, <2>2, <2>3 DEF AvailableAt
  <2>4. ASSUME NEW j \in 1..(Len(q) + 1 - 1),
               r[j].type = "network" /\ r[j].val = "available",
               \A k \in (j + 1)..(Len(q) + 1 - 1) : r[k].type # "network"
        PROVE  AvailableAt(r, known, Len(q) + 2)
    <3>1. j \in 1..(Len(q) + 2 - 1)
      BY <1>1
    <3>2. \A k \in (j + 1)..(Len(q) + 2 - 1) : r[k].type # "network"
      BY <1>1, <1>3, <2>2, <2>4
    <3> QED BY <2>4, <3>1, <3>2 DEF AvailableAt
  <2> QED BY <2>1, <2>3, <2>4 DEF AvailableAt
<1>4. ASSUME p.type = "network", p.val = "available"
      PROVE  AvailableAt(r, known, Len(q) + 2)
  <2>1. Len(q) + 1 \in 1..(Len(q) + 2 - 1)
    BY <1>1
  <2>2. \A k \in (Len(q) + 1 + 1)..(Len(q) + 2 - 1) : FALSE
    BY <1>1
  <2> QED BY <1>1, <1>4, <2>1, <2>2 DEF AvailableAt
<1> QED BY <1>1, <1>2, <1>3, <1>4 DEF r

\* What holds of the posts when one more is accepted.
LEMMA PostingKeeps ==
  ASSUME NEW q \in Seq(Posted), NEW p \in Posted, NEW known, NEW phase,
         NEW reported, NEW client,
         UidPosts(q, client), PresencePosts(q, known, phase, reported),
         p.type = "uid" => p.val = client /\ client # 0,
         p.type = "presence" =>
           /\ AvailableAt(q, known, Len(q) + 1)
           /\ phase = "registered" /\ reported # "none"
  PROVE  /\ UidPosts(Append(q, p), client)
         /\ PresencePosts(Append(q, p), known, phase, reported)
<1>1. PICK r : r = Append(q, p)
  OBVIOUS
<1>2. /\ Len(q) \in Nat /\ Len(r) = Len(q) + 1
      /\ \A i \in 1..Len(r) : \/ i \in 1..Len(q) /\ r[i] = q[i]
                              \/ i = Len(q) + 1 /\ r[i] = p
  BY <1>1
<1>3. \A i \in 1..(Len(q) + 1) :
        AvailableAt(q, known, i) => AvailableAt(r, known, i)
  BY <1>1, Posting
<1>4. UidPosts(r, client)
  BY <1>2 DEF UidPosts
<1>5. PresencePosts(r, known, phase, reported)
  <2> SUFFICES ASSUME NEW i \in 1..Len(r), r[i].type = "presence"
               PROVE  /\ AvailableAt(r, known, i)
                      /\ phase = "registered" /\ reported # "none"
    BY DEF PresencePosts
  <2>1. CASE i \in 1..Len(q) /\ r[i] = q[i]
    BY <1>2, <1>3, <2>1 DEF PresencePosts
  <2>2. CASE i = Len(q) + 1 /\ r[i] = p
    BY <1>2, <1>3, <2>2
  <2> QED BY <1>2, <2>1, <2>2
<1> QED BY <1>1, <1>4, <1>5

\* The first post is taken, and its observation recorded if it is one.
LEMMA Taking ==
  ASSUME NEW q \in Seq(Posted), q # <<>>, NEW known, NEW now,
         IF Head(q).type = "network" THEN now = Head(q).val ELSE now = known
  PROVE  /\ Tail(q) \in Seq(Posted) /\ Len(Tail(q)) = Len(q) - 1
         /\ \A i \in 1..Len(Tail(q)) : Tail(q)[i] = q[i + 1]
         /\ \A i \in 1..Len(q) : AvailableAt(q, known, i + 1) =>
                                   AvailableAt(Tail(q), now, i)
<1>1. PICK r : r = Tail(q)
  OBVIOUS
<1>2. /\ r \in Seq(Posted) /\ Len(q) \in Nat /\ Len(q) # 0
      /\ Len(r) = Len(q) - 1 /\ q[1] = Head(q)
      /\ \A i \in 1..Len(r) : r[i] = q[i + 1]
  BY <1>1
<1>3. ASSUME NEW i \in 1..Len(q), AvailableAt(q, known, i + 1)
      PROVE  AvailableAt(r, now, i)
  <2>1. \A k \in 1..(i - 1) : k + 1 \in 1..(i + 1 - 1) /\ r[k] = q[k + 1]
    BY <1>2
  <2>2. CASE /\ known = "available"
             /\ \A k \in 1..(i + 1 - 1) : q[k].type # "network"
    <3>1. 1 \in 1..(i + 1 - 1)
      BY <1>2
    <3> QED BY <1>2, <2>1, <2>2, <3>1 DEF AvailableAt
  <2>3. ASSUME NEW j \in 1..(i + 1 - 1),
               q[j].type = "network" /\ q[j].val = "available",
               \A k \in (j + 1)..(i + 1 - 1) : q[k].type # "network"
        PROVE  AvailableAt(r, now, i)
    <3>1. CASE j = 1
      <4>1. \A k \in 1..(i - 1) : k + 1 \in (j + 1)..(i + 1 - 1)
        BY <3>1
      <4>2. now = "available"
        BY <1>2, <2>3, <3>1
      <4> QED BY <2>1, <2>3, <4>1, <4>2 DEF AvailableAt
    <3>2. CASE j # 1
      <4>1. j - 1 \in 1..(i - 1) /\ j - 1 + 1 = j
        BY <3>2
      <4>2. r[j - 1] = q[j]
        BY <2>1, <4>1
      <4>3. \A k \in (j - 1 + 1)..(i - 1) :
              k + 1 \in (j + 1)..(i + 1 - 1) /\ k \in 1..(i - 1)
        BY <3>2
      <4> QED BY <2>1, <2>3, <4>1, <4>2, <4>3 DEF AvailableAt
    <3> QED BY <3>1, <3>2
  <2>4. CASE \E j \in 1..(i + 1 - 1) :
               /\ q[j].type = "network" /\ q[j].val = "available"
               /\ \A k \in (j + 1)..(i + 1 - 1) : q[k].type # "network"
    BY <2>3, <2>4, Zenon
  <2>5. \/ /\ known = "available"
           /\ \A k \in 1..(i + 1 - 1) : q[k].type # "network"
        \/ \E j \in 1..(i + 1 - 1) :
             /\ q[j].type = "network" /\ q[j].val = "available"
             /\ \A k \in (j + 1)..(i + 1 - 1) : q[k].type # "network"
    BY <1>3 DEF AvailableAt
  <2> QED BY <2>2, <2>4, <2>5, Zenon
<1> QED BY <1>1, <1>2, <1>3

\* What holds of the posts when the first one is taken.
LEMMA TakingKeeps ==
  ASSUME NEW q \in Seq(Posted), q # <<>>, NEW known, NEW now, NEW phase,
         NEW later, NEW reported, NEW client,
         IF Head(q).type = "network" THEN now = Head(q).val ELSE now = known,
         phase = "registered" => later = "registered",
         UidPosts(q, client), PresencePosts(q, known, phase, reported)
  PROVE  /\ UidPosts(Tail(q), client)
         /\ PresencePosts(Tail(q), now, later, reported)
<1>1. PICK r : r = Tail(q)
  OBVIOUS
<1>2. /\ Len(q) \in Nat /\ Len(q) # 0 /\ Len(r) = Len(q) - 1
      /\ \A i \in 1..Len(r) : r[i] = q[i + 1]
      /\ \A i \in 1..Len(q) : AvailableAt(q, known, i + 1) =>
                                AvailableAt(r, now, i)
  <2>1. Len(q) \in Nat /\ Len(q) # 0
    OBVIOUS
  <2>2. /\ Len(r) = Len(q) - 1 /\ \A i \in 1..Len(r) : r[i] = q[i + 1]
        /\ \A i \in 1..Len(q) : AvailableAt(q, known, i + 1) =>
                                  AvailableAt(r, now, i)
    BY <1>1, Taking, Zenon
  <2> QED BY <2>1, <2>2
<1>3. \A i \in 1..Len(r) : i + 1 \in 1..Len(q) /\ i \in 1..Len(q)
  BY <1>2
<1>4. UidPosts(r, client)
  BY <1>2, <1>3 DEF UidPosts
<1>5. PresencePosts(r, now, later, reported)
  BY <1>2, <1>3 DEF PresencePosts
<1> QED BY <1>1, <1>4, <1>5

-----------------------------------------------------------------------------
(* Processes and saves.                                                    *)

\* The model after BuildChatGraph.
LEMMA DistilledModel ==
  /\ Distilled \in ChatApplication
  /\ Distilled.app = 0 /\ Distilled.room.clients = {}
  /\ Distilled.aether.uid = 0 /\ Distilled.aether.phase = "registering"
  /\ \A c \in ClientId : Distilled.client[c].aether_uid = 0
  /\ Distilled.runtime.run_id = 0 /\ Distilled.network.run_id = 0
  /\ Distilled.aether.run_id = 0
BY DEF Distilled, ChatApplication, ApplicationRuntimeState, NetworkState,
       AetherRegistrationState, ChatClient, ChatRoom, NetworkAvailability,
       PresenceState

\* A process that does not run has no state.
LEMMA NoProcess ==
  /\ NoThread \in ThreadState /\ NoThread.client = 0 /\ NoThread.pc = "off"
  /\ NoThread.net = "none" /\ NoThread.last_network = "none"
  /\ NoThread.presence_enabled = FALSE /\ NoThread.last_reported = "none"
  /\ NoEnv \in [probe : Observable, diag : Diagnosis,
                select : {"none", "pending", "ok", "failed"}, due : BOOLEAN]
  /\ <<>> \in Seq(Posted) /\ Len(<<>>) = 0 /\ <<>> \in Saves
BY DEF NoThread, NoEnv, ThreadState, Observable, NetworkAvailability,
       Diagnosis, Saves

\* The order of a save.
LEMMA SavesInOrder ==
  /\ SaveOrder \in Saves /\ SaveOrder # <<>>
  /\ SaveOrder \notin AfterRuntime /\ <<>> \notin AfterRuntime
  /\ \A s \in Saves \ {<<>>} :
       /\ Tail(s) \in Saves
       /\ Head(s) \in {"client", "room", "runtime", "network", "aether", "app"}
       /\ Head(s) = "app" <=> Tail(s) = <<>>
       /\ Head(s) \in {"network", "aether"} => s \in AfterRuntime
       /\ Tail(s) \in AfterRuntime => Head(s) = "runtime" \/ s \in AfterRuntime
<1>1. /\ Head(<<"app">>) = "app" /\ Tail(<<"app">>) = <<>> /\ <<"app">> # <<>>
      /\ Len(<<"app">>) = 1
  OBVIOUS
<1>2. /\ Head(<<"aether", "app">>) = "aether"
      /\ Tail(<<"aether", "app">>) = <<"app">>
      /\ <<"aether", "app">> # <<>> /\ Len(<<"aether", "app">>) = 2
  OBVIOUS
<1>3. /\ Head(<<"network", "aether", "app">>) = "network"
      /\ Tail(<<"network", "aether", "app">>) = <<"aether", "app">>
      /\ <<"network", "aether", "app">> # <<>>
      /\ Len(<<"network", "aether", "app">>) = 3
  OBVIOUS
<1>4. /\ Head(<<"runtime", "network", "aether", "app">>) = "runtime"
      /\ Tail(<<"runtime", "network", "aether", "app">>)
           = <<"network", "aether", "app">>
      /\ <<"runtime", "network", "aether", "app">> # <<>>
      /\ Len(<<"runtime", "network", "aether", "app">>) = 4
  OBVIOUS
<1>5. /\ Head(<<"room", "runtime", "network", "aether", "app">>) = "room"
      /\ Tail(<<"room", "runtime", "network", "aether", "app">>)
           = <<"runtime", "network", "aether", "app">>
      /\ <<"room", "runtime", "network", "aether", "app">> # <<>>
      /\ Len(<<"room", "runtime", "network", "aether", "app">>) = 5
  OBVIOUS
<1>6. /\ Head(SaveOrder) = "client" /\ SaveOrder # <<>> /\ Len(SaveOrder) = 6
      /\ Tail(SaveOrder) = <<"room", "runtime", "network", "aether", "app">>
  BY DEF SaveOrder
<1>7. PICK s1 : s1 = <<"app">>
  OBVIOUS
<1>8. PICK s2 : s2 = <<"aether", "app">>
  OBVIOUS
<1>9. PICK s3 : s3 = <<"network", "aether", "app">>
  OBVIOUS
<1>10. PICK s4 : s4 = <<"runtime", "network", "aether", "app">>
  OBVIOUS
<1>11. PICK s5 : s5 = <<"room", "runtime", "network", "aether", "app">>
  OBVIOUS
<1>12. Saves = {<<>>, s1, s2, s3, s4, s5, SaveOrder}
  BY <1>7, <1>8, <1>9, <1>10, <1>11, Zenon DEF Saves
<1>13. /\ Tail(s1) = <<>> /\ Tail(s2) = s1 /\ Tail(s3) = s2 /\ Tail(s4) = s3
       /\ Tail(s5) = s4 /\ Tail(SaveOrder) = s5
       /\ Head(s1) = "app" /\ Head(s2) = "aether" /\ Head(s3) = "network"
       /\ Head(s4) = "runtime" /\ Head(s5) = "room"
       /\ Head(SaveOrder) = "client"
       /\ s1 # <<>> /\ s2 # <<>> /\ s3 # <<>> /\ s4 # <<>> /\ s5 # <<>>
       /\ SaveOrder # <<>>
  BY <1>1, <1>2, <1>3, <1>4, <1>5, <1>6, <1>7, <1>8, <1>9, <1>10, <1>11, Zenon
<1>14. /\ Len(s1) = 1 /\ Len(s2) = 2 /\ Len(s3) = 3 /\ Len(s4) = 4
       /\ Len(s5) = 5 /\ Len(SaveOrder) = 6
  BY <1>1, <1>2, <1>3, <1>4, <1>5, <1>6, <1>7, <1>8, <1>9, <1>10, <1>11, Zenon
<1>15. /\ SaveOrder \notin {s3, s2} /\ s1 \notin {s3, s2}
       /\ s4 \notin {s3, s2} /\ s5 \notin {s3, s2}
  BY <1>14
<1>16. AfterRuntime = {s3, s2}
  BY <1>8, <1>9, Zenon DEF AfterRuntime
<1>17. ASSUME NEW s \in Saves \ {<<>>}
       PROVE  /\ Tail(s) \in Saves
              /\ Head(s) \in {"client", "room", "runtime", "network",
                              "aether", "app"}
              /\ Head(s) = "app" <=> Tail(s) = <<>>
              /\ Head(s) \in {"network", "aether"} => s \in AfterRuntime
              /\ Tail(s) \in AfterRuntime =>
                   Head(s) = "runtime" \/ s \in AfterRuntime
  <2>1. s \in {s1, s2, s3, s4, s5, SaveOrder}
    BY <1>12
  <2>2. CASE s \in {s1, s2}
    BY <1>12, <1>13, <1>15, <1>16, <2>2
  <2>3. CASE s \in {s3, s4}
    BY <1>12, <1>13, <1>15, <1>16, <2>3
  <2>4. CASE s \in {s5, SaveOrder}
    BY <1>12, <1>13, <1>15, <1>16, <2>4
  <2> QED BY <2>1, <2>2, <2>3, <2>4
<1>18. /\ SaveOrder \in Saves /\ SaveOrder # <<>>
       /\ SaveOrder \notin AfterRuntime /\ <<>> \notin AfterRuntime
  BY <1>12, <1>13, <1>15, <1>16
<1> QED BY <1>17, <1>18

\* The first start.
LEMMA InitIndInv == Init => IndInv
<1> SUFFICES ASSUME Init PROVE IndInv
  OBVIOUS
<1>1. Types
  BY DistilledModel, NoProcess DEF Init, Types, TypeOK
<1>2. DownOK /\ RegistrationIsAdmitted
  BY DEF Init, DownOK, RegistrationIsAdmitted
<1>3. IdentityOK
  BY DistilledModel, NoProcess DEF Init, IdentityOK, IdentityIsDurable
<1>4. RoomOK /\ RunOK
  BY DistilledModel DEF Init, RoomOK, RunOK
<1>5. RegisteredOK /\ PresenceOK
  BY NoProcess DEF Init, RegisteredOK, PresenceOK
<1>6. QueueOK
  BY NoProcess DEF Init, QueueOK, UidPosts, PresencePosts
<1> QED BY <1>1, <1>2, <1>3, <1>4, <1>5, <1>6 DEF IndInv

\* A process that ends, or is killed, leaves the disk as it is.
LEMMA DownStep ==
  ASSUME IndInv, Down, UNCHANGED <<disk, account>>,
         asserts' \subseteq asserts \cup {"send"},
         count' \in [runs : Nat, crashes : Nat, sends : Nat, uids : Nat,
                     changes : Nat, diagnoses : Nat, failures : Nat]
  PROVE  IndInv'
<1>1. /\ proc' = "down" /\ queue' = <<>> /\ toSave' = <<>> /\ enable' = FALSE
      /\ model' = "ready" /\ aether' = NoThread /\ env' = NoEnv
      /\ mem' = Distilled
  BY DEF Down
<1>2. Types'
  BY <1>1, DistilledModel, NoProcess DEF IndInv, Types, TypeOK
<1>3. DownOK' /\ RegistrationIsAdmitted'
  BY <1>1 DEF DownOK, IndInv, RegistrationIsAdmitted
<1>4. IdentityOK'
  BY <1>1, DistilledModel, NoProcess DEF IndInv, IdentityOK, IdentityIsDurable
<1>5. RoomOK' /\ RunOK'
  BY <1>1, DistilledModel DEF IndInv, RoomOK, RunOK
<1>6. RegisteredOK' /\ PresenceOK'
  BY <1>1, NoProcess DEF RegisteredOK, PresenceOK
<1>7. QueueOK'
  BY <1>1, NoProcess DEF QueueOK, UidPosts, PresencePosts
<1> QED BY <1>2, <1>3, <1>4, <1>5, <1>6, <1>7 DEF IndInv

\* A run starts from the disk, whatever the run before it left there.
LEMMA RunStep ==
  ASSUME IndInv, Run
  PROVE  IndInv'
<1>1. /\ disk \in ChatApplication /\ account \in Nat /\ proc = "down"
      /\ count \in [runs : Nat, crashes : Nat, sends : Nat, uids : Nat,
                    changes : Nat, diagnoses : Nat, failures : Nat]
      /\ queue = <<>> /\ toSave = <<>> /\ model = "ready" /\ enable = FALSE
  BY DEF IndInv, Types, TypeOK, DownOK, Run
<1>2. /\ disk.network.run_id <= disk.runtime.run_id
      /\ disk.aether.run_id <= disk.runtime.run_id
  BY DEF IndInv, RunOK
<1>3. PICK n : n = BeginCurrentRun(disk)
  OBVIOUS
<1>4. /\ mem' = n /\ proc' = "up" /\ count' = [count EXCEPT !.runs = @ + 1]
      /\ aether' = [NoThread EXCEPT !.pc = "top"]
      /\ UNCHANGED <<disk, account, queue, model, toSave, enable, asserts>>
  BY <1>3 DEF Run, LoadChatModel
<1>5. /\ n \in ChatApplication
      /\ n.runtime.run_id = disk.runtime.run_id + 1
      /\ n.network.run_id = n.runtime.run_id
      /\ n.aether.run_id = n.runtime.run_id /\ n.aether.phase = "registering"
      /\ n.aether.uid = disk.aether.uid
      /\ n.room = disk.room /\ n.app = disk.app
      /\ n.app # 0 => n.client[n.app].presence = "connecting"
      /\ \A d \in ClientId : n.client[d].aether_uid = disk.client[d].aether_uid
  BY <1>1, <1>2, <1>3, CurrentRunBegins
<1>6. env' \in [probe : Observable, diag : Diagnosis,
                select : {"none", "pending", "ok", "failed"}, due : BOOLEAN]
  <2>1. PICK a \in Observable : env' = [NoEnv EXCEPT !.probe = a]
    BY DEF Run, Observable
  <2> QED BY <2>1, NoProcess
<1>7. /\ aether' \in ThreadState /\ aether'.client = 0 /\ aether'.pc = "top"
      /\ aether'.net = "none" /\ aether'.last_network = "none"
      /\ aether'.presence_enabled = FALSE
  BY <1>4, NoProcess DEF ThreadState
<1>8. Types'
  BY <1>1, <1>4, <1>5, <1>6, <1>7, NoProcess DEF IndInv, Types, TypeOK
<1>9. DownOK' /\ RegistrationIsAdmitted'
  BY <1>4 DEF IndInv, DownOK, RegistrationIsAdmitted
<1>10. IdentityOK'
  BY <1>4, <1>5, <1>7 DEF IndInv, IdentityOK, IdentityIsDurable
<1>11. RoomOK'
  BY <1>4, <1>5 DEF IndInv, RoomOK
<1>12. RunOK'
  <2>1. disk.runtime.run_id \in Nat
    BY <1>1, ModelFields
  <2> QED BY <1>1, <1>2, <1>4, <1>5, <2>1, SavesInOrder DEF RunOK
<1>13. RegisteredOK' /\ PresenceOK'
  BY <1>1, <1>4, <1>5, <1>7 DEF RegisteredOK, PresenceOK
<1>14. QueueOK'
  BY <1>1, <1>4, <1>7, NoProcess DEF QueueOK, UidPosts, PresencePosts
<1> QED BY <1>8, <1>9, <1>10, <1>11, <1>12, <1>13, <1>14 DEF IndInv

\* One object reaches the disk: the others there may be of an earlier run.
LEMMA StoreNextStep ==
  ASSUME IndInv, StoreNext
  PROVE  IndInv'
<1> DEFINE x == Head(toSave)
<1>1. /\ disk \in ChatApplication /\ mem \in ChatApplication
      /\ toSave \in Saves \ {<<>>} /\ proc # "down"
  BY DEF IndInv, Types, TypeOK, StoreNext, DownOK
<1>2. /\ toSave' = Tail(toSave) /\ disk' = [disk EXCEPT ![x] = mem[x]]
      /\ UNCHANGED <<account, mem, queue, model, enable, aether, env, proc,
                     asserts, count>>
  BY DEF StoreNext
<1>3. /\ toSave' \in Saves
      /\ x \in {"client", "room", "runtime", "network", "aether", "app"}
      /\ x = "app" <=> toSave' = <<>>
      /\ x \in {"network", "aether"} => toSave \in AfterRuntime
      /\ toSave' \in AfterRuntime => x = "runtime" \/ toSave \in AfterRuntime
  BY <1>1, <1>2, SavesInOrder
<1> HIDE DEF x
<1>4. /\ disk' \in ChatApplication
      /\ disk'.client = (IF x = "client" THEN mem.client ELSE disk.client)
      /\ disk'.room = (IF x = "room" THEN mem.room ELSE disk.room)
      /\ disk'.runtime = (IF x = "runtime" THEN mem.runtime ELSE disk.runtime)
      /\ disk'.network = (IF x = "network" THEN mem.network ELSE disk.network)
      /\ disk'.aether = (IF x = "aether" THEN mem.aether ELSE disk.aether)
      /\ disk'.app = (IF x = "app" THEN mem.app ELSE disk.app)
  <2>1. CASE x = "client"
    BY <1>1, <1>2, <2>1 DEF ChatApplication
  <2>2. CASE x = "room"
    BY <1>1, <1>2, <2>2 DEF ChatApplication
  <2>3. CASE x = "runtime"
    BY <1>1, <1>2, <2>3 DEF ChatApplication
  <2>4. CASE x = "network"
    BY <1>1, <1>2, <2>4 DEF ChatApplication
  <2>5. CASE x = "aether"
    BY <1>1, <1>2, <2>5 DEF ChatApplication
  <2>6. CASE x = "app"
    BY <1>1, <1>2, <2>6 DEF ChatApplication
  <2> QED BY <1>3, <2>1, <2>2, <2>3, <2>4, <2>5, <2>6
<1>5. Types'
  BY <1>2, <1>3, <1>4 DEF IndInv, Types, TypeOK
<1>6. DownOK' /\ RegistrationIsAdmitted'
  BY <1>1, <1>2 DEF IndInv, DownOK, RegistrationIsAdmitted
<1>7. IdentityOK'
  BY <1>2, <1>4 DEF IndInv, IdentityOK, IdentityIsDurable
<1>8. RoomOK'
  <2>1. /\ mem.room.clients \subseteq {mem.app} /\ disk.room.clients \subseteq {disk.app}
        /\ \/ mem.app = disk.app
           \/ disk.app = 0 /\ mem.room.clients = {}
    BY <1>1 DEF IndInv, RoomOK
  <2>2. disk.room.clients \subseteq ClientId /\ 0 \notin ClientId
    BY <1>1, ModelFields DEF ChatRoom, ClientId
  <2>3. disk'.room.clients \subseteq {disk'.app}
    BY <1>4, <2>1, <2>2
  <2>4. \/ mem.app = disk'.app
        \/ disk'.app = 0 /\ toSave' # <<>> /\ mem.room.clients = {}
    BY <1>3, <1>4, <2>1
  <2> QED BY <1>2, <2>1, <2>3, <2>4 DEF RoomOK
<1>9. RunOK'
  <2>1. /\ mem.runtime.run_id # 0
        /\ mem.network.run_id = mem.runtime.run_id
        /\ mem.aether.run_id = mem.runtime.run_id
        /\ disk.runtime.run_id <= mem.runtime.run_id
        /\ toSave \in AfterRuntime => disk.runtime = mem.runtime
        /\ disk.network.run_id <= disk.runtime.run_id
        /\ disk.aether.run_id <= disk.runtime.run_id
    BY <1>1 DEF IndInv, RunOK
  <2>2. /\ mem.runtime.run_id \in Nat /\ disk.runtime.run_id \in Nat
        /\ disk.network.run_id \in Nat /\ disk.aether.run_id \in Nat
    BY <1>1, ModelFields
  <2>3. /\ disk'.network.run_id <= disk'.runtime.run_id
        /\ disk'.aether.run_id <= disk'.runtime.run_id
        /\ disk'.runtime.run_id <= mem.runtime.run_id
    BY <1>3, <1>4, <2>1, <2>2
  <2>4. toSave' \in AfterRuntime => disk'.runtime = mem.runtime
    BY <1>3, <1>4, <2>1
  <2> QED BY <1>2, <2>1, <2>3, <2>4 DEF RunOK
<1>10. RegisteredOK' /\ QueueOK' /\ PresenceOK'
  BY <1>2 DEF IndInv, RegisteredOK, QueueOK, PresenceOK
<1> QED BY <1>5, <1>6, <1>7, <1>8, <1>9, <1>10 DEF IndInv

\* The user asks to exit; the threads end and the model is saved.
LEMMA ExitStep ==
  ASSUME IndInv, RequestExit \/ JoinThreads
  PROVE  IndInv'
<1>1. /\ proc # "down" /\ proc' \in {"exiting", "saving"}
      /\ \/ toSave' = toSave
         \/ toSave = <<>> /\ toSave' = SaveOrder
      /\ UNCHANGED <<disk, account, mem, queue, model, enable, aether, env,
                     asserts, count>>
  BY DEF RequestExit, JoinThreads
<1>2. Types'
  BY <1>1, SavesInOrder DEF IndInv, Types, TypeOK
<1>3. DownOK' /\ RegistrationIsAdmitted' /\ IdentityOK'
  BY <1>1 DEF IndInv, DownOK, RegistrationIsAdmitted, IdentityOK, IdentityIsDurable
<1>4. RoomOK'
  BY <1>1 DEF IndInv, RoomOK
<1>5. RunOK'
  BY <1>1, SavesInOrder DEF IndInv, RunOK
<1>6. RegisteredOK' /\ QueueOK' /\ PresenceOK'
  BY <1>1 DEF IndInv, RegisteredOK, QueueOK, PresenceOK
<1> QED BY <1>2, <1>3, <1>4, <1>5, <1>6 DEF IndInv

\* The network, the diagnosis and the selection change by themselves.
LEMMA WorldStep ==
  ASSUME IndInv,
         \/ \E a \in Observable : NetworkChanges(a)
         \/ \E s, o \in BOOLEAN : DiagnosisChanges(s, o)
         \/ RetryIsDue \/ SelectAnswers
  PROVE  IndInv'
<1>1. /\ env \in [probe : Observable, diag : Diagnosis,
                  select : {"none", "pending", "ok", "failed"}, due : BOOLEAN]
      /\ count \in [runs : Nat, crashes : Nat, sends : Nat, uids : Nat,
                    changes : Nat, diagnoses : Nat, failures : Nat]
  BY DEF IndInv, Types
<1>2. /\ proc = "up"
      /\ UNCHANGED <<disk, account, mem, queue, model, toSave, enable, aether,
                     proc, asserts>>
  BY DEF NetworkChanges, DiagnosisChanges, RetryIsDue, SelectAnswers, World
<1>3. /\ env' \in [probe : Observable, diag : Diagnosis,
                   select : {"none", "pending", "ok", "failed"}, due : BOOLEAN]
      /\ count' \in [runs : Nat, crashes : Nat, sends : Nat, uids : Nat,
                     changes : Nat, diagnoses : Nat, failures : Nat]
  <2>1. CASE \E a \in Observable : NetworkChanges(a)
    BY <1>1, <2>1 DEF NetworkChanges
  <2>2. CASE \E s, o \in BOOLEAN : DiagnosisChanges(s, o)
    <3>1. PICK s, o : DiagnosisChanges(s, o)
      BY <2>2
    <3>2. PICK d \in Diagnosis : d = PresenceFromLocalDiag(s, o)
      BY DEF PresenceFromLocalDiag, Diagnosis
    <3> QED BY <1>1, <3>1, <3>2 DEF DiagnosisChanges
  <2>3. CASE RetryIsDue
    BY <1>1, <2>3 DEF RetryIsDue
  <2>4. CASE SelectAnswers
    BY <1>1, <2>4 DEF SelectAnswers
  <2> QED BY <2>1, <2>2, <2>3, <2>4
<1>4. Types' /\ DownOK' /\ RegistrationIsAdmitted' /\ IdentityOK'
  BY <1>2, <1>3 DEF IndInv, Types, TypeOK, DownOK, RegistrationIsAdmitted,
                    IdentityOK, IdentityIsDurable
<1>5. RoomOK' /\ RunOK' /\ RegisteredOK' /\ QueueOK' /\ PresenceOK'
  BY <1>2 DEF IndInv, RoomOK, RunOK, RegisteredOK, QueueOK, PresenceOK
<1> QED BY <1>4, <1>5 DEF IndInv

-----------------------------------------------------------------------------
(* The model thread.                                                       *)

\* What a handler finds: its post, and a model of this run that is not being
\* saved.
LEMMA TurnFacts ==
  ASSUME IndInv, NEW type, Turn(type)
  PROVE  /\ mem \in ChatApplication /\ disk \in ChatApplication
         /\ proc \in {"up", "exiting"} /\ toSave = <<>> /\ model = "ready"
         /\ queue \in Seq(Posted) /\ queue # <<>>
         /\ Head(queue) \in Posted /\ Head(queue).type = type
         /\ Head(queue) = queue[1] /\ 1 \in 1..Len(queue)
         /\ mem.runtime.run_id # 0
         /\ mem.network.run_id = mem.runtime.run_id
         /\ mem.aether.run_id = mem.runtime.run_id
         /\ mem.app = disk.app
<1>1. queue \in Seq(Posted) /\ queue # <<>> /\ Head(queue).type = type
  BY DEF IndInv, Types, Turn
<1>2. /\ proc \in {"up", "exiting"} /\ toSave = <<>> /\ model = "ready"
      /\ mem \in ChatApplication /\ disk \in ChatApplication
  BY DEF IndInv, Types, TypeOK, Turn
<1>3. Head(queue) \in Posted /\ Head(queue) = queue[1] /\ 1 \in 1..Len(queue)
  BY <1>1
<1> QED BY <1>1, <1>2, <1>3 DEF IndInv, RunOK, RoomOK

\* The queue after a turn.
LEMMA TurnQueue ==
  ASSUME IndInv, NEW type, Turn(type), queue' = Tail(queue),
         UNCHANGED <<aether, proc>>,
         IF Head(queue).type = "network"
         THEN mem'.network.availability = Head(queue).val
         ELSE mem'.network.availability = mem.network.availability,
         mem.aether.phase = "registered" => mem'.aether.phase = "registered"
  PROVE  QueueOK' /\ queue' \in Seq(Posted)
<1>1. PICK q : q = queue
  OBVIOUS
<1>2. PICK known : known = mem.network.availability
  OBVIOUS
<1>3. PICK now : now = mem'.network.availability
  OBVIOUS
<1>4. PICK phase : phase = mem.aether.phase
  OBVIOUS
<1>5. PICK later : later = mem'.aether.phase
  OBVIOUS
<1>6. PICK reported : reported = aether.last_reported
  OBVIOUS
<1>7. PICK client : client = aether.client
  OBVIOUS
<1>8. /\ q \in Seq(Posted) /\ q # <<>>
      /\ IF Head(q).type = "network" THEN now = Head(q).val ELSE now = known
      /\ phase = "registered" => later = "registered"
  BY <1>1, <1>2, <1>3, <1>4, <1>5, TurnFacts
<1>9. UidPosts(q, client) /\ PresencePosts(q, known, phase, reported)
  BY <1>1, <1>2, <1>4, <1>6, <1>7 DEF IndInv, QueueOK
<1>10. UidPosts(Tail(q), client) /\ PresencePosts(Tail(q), now, later, reported)
  BY <1>8, <1>9, TakingKeeps
<1>11. /\ Tail(q) \in Seq(Posted) /\ Len(Tail(q)) = Len(q) - 1
       /\ \A i \in 1..Len(q) : AvailableAt(q, known, i + 1) =>
                                 AvailableAt(Tail(q), now, i)
  BY <1>8, Taking
<1>12. Len(q) \in Nat /\ Len(q) # 0
  BY <1>8
<1>13. AvailableAt(q, known, Len(q) + 1) =>
         AvailableAt(Tail(q), now, Len(Tail(q)) + 1)
  BY <1>11, <1>12
<1>14. /\ queue' = Tail(q)
       /\ proc = "up" /\ aether.last_network = "available" =>
            AvailableAt(q, known, Len(q) + 1)
       /\ aether.net = aether.last_network
  BY <1>1, <1>2 DEF IndInv, QueueOK
<1> QED BY <1>3, <1>5, <1>6, <1>7, <1>10, <1>11, <1>13, <1>14 DEF QueueOK

\* A turn that changes neither identity nor registration nor who is there.
LEMMA PlainTurn ==
  ASSUME IndInv, NEW type, Turn(type), queue' = Tail(queue),
         UNCHANGED <<disk, account, model, toSave, enable, aether, env, proc,
                     asserts, count>>,
         mem' \in ChatApplication,
         mem'.runtime = mem.runtime, mem'.aether = mem.aether,
         mem'.network.run_id = mem.network.run_id,
         mem'.app = mem.app, mem'.room.clients = mem.room.clients,
         \A c \in ClientId : mem'.client[c].aether_uid = mem.client[c].aether_uid,
         IF Head(queue).type = "network"
         THEN mem'.network.availability = Head(queue).val
         ELSE mem'.network.availability = mem.network.availability,
         PresenceOK'
  PROVE  IndInv'
<1>1. QueueOK' /\ queue' \in Seq(Posted)
  BY TurnQueue
<1>2. proc \in {"up", "exiting"}
  BY TurnFacts
<1>3. Types'
  BY <1>1 DEF IndInv, Types, TypeOK
<1>4. DownOK' /\ RegistrationIsAdmitted'
  BY <1>2 DEF IndInv, DownOK, RegistrationIsAdmitted
<1>5. IdentityOK'
  BY DEF IndInv, IdentityOK, IdentityIsDurable
<1>6. RoomOK' /\ RunOK'
  BY DEF IndInv, RoomOK, RunOK
<1>7. RegisteredOK'
  BY DEF IndInv, RegisteredOK
<1> QED BY <1>1, <1>3, <1>4, <1>5, <1>6, <1>7 DEF IndInv

\* An outage ends what is shown of the presence.
LEMMA NetworkTurn ==
  ASSUME IndInv, HandleNetworkObservation
  PROVE  IndInv'
<1>1. Turn("network") /\ queue' = Tail(queue)
  BY DEF HandleNetworkObservation
<1>2. /\ mem \in ChatApplication /\ Head(queue).type = "network"
      /\ Head(queue).val \in Observable /\ proc \in {"up", "exiting"}
      /\ mem.runtime.run_id # 0 /\ mem.network.run_id = mem.runtime.run_id
  BY <1>1, TurnFacts DEF Posted
<1>3. PICK a : a = Head(queue).val
  OBVIOUS
<1>4. PICK n : n = ApplyNetworkObservation(mem, a)
  OBVIOUS
<1>5. /\ n \in ChatApplication
      /\ n.network.availability = a /\ n.network.run_id = mem.network.run_id
      /\ n.runtime = mem.runtime /\ n.aether = mem.aether
      /\ n.room = mem.room /\ n.app = mem.app
      /\ n.app # 0 => \/ a = "available" /\ n.client = mem.client
                      \/ n.client[n.app].presence = "connecting"
      /\ \A d \in ClientId : n.client[d].aether_uid = mem.client[d].aether_uid
  BY <1>2, <1>3, <1>4, NetworkObserved
<1>6. /\ mem' = n
      /\ UNCHANGED <<disk, account, model, toSave, enable, aether, env, proc,
                     asserts, count>>
  BY <1>3, <1>4 DEF HandleNetworkObservation
<1>7. PresenceOK'
  BY <1>2, <1>5, <1>6 DEF IndInv, PresenceOK
<1> QED BY <1>1, <1>2, <1>3, <1>5, <1>6, <1>7, PlainTurn

\* A diagnosis is shown when its turn comes.
LEMMA PresenceTurn ==
  ASSUME IndInv, HandlePresence
  PROVE  IndInv'
<1>1. Turn("presence") /\ queue' = Tail(queue)
  BY DEF HandlePresence
<1>2. /\ mem \in ChatApplication /\ Head(queue).type = "presence"
      /\ Head(queue).val \in PresenceState /\ proc \in {"up", "exiting"}
      /\ queue[1] = Head(queue) /\ 1 \in 1..Len(queue)
  BY <1>1, TurnFacts DEF Posted, Diagnosis, PresenceState
<1>3. UNCHANGED <<disk, account, model, toSave, enable, aether, env, proc,
                  asserts, count>>
  BY DEF HandlePresence
<1>4. /\ mem.network.availability = "available"
      /\ mem.aether.phase = "registered" /\ aether.last_reported # "none"
  <2>1. /\ AvailableAt(queue, mem.network.availability, 1)
        /\ mem.aether.phase = "registered" /\ aether.last_reported # "none"
    BY <1>2 DEF IndInv, QueueOK, PresencePosts
  <2>2. \A j \in 1..(1 - 1) : FALSE
    OBVIOUS
  <2> QED BY <2>1, <2>2 DEF AvailableAt
<1>5. /\ mem' \in ChatApplication /\ mem'.runtime = mem.runtime
      /\ mem'.aether = mem.aether /\ mem'.network = mem.network
      /\ mem'.app = mem.app /\ mem'.room = mem.room
      /\ \A c \in ClientId : mem'.client[c].aether_uid = mem.client[c].aether_uid
  <2>1. CASE mem' = mem
    BY <1>2, <2>1
  <2>2. CASE /\ mem.app # 0
             /\ mem' = CommitPresenceChanged(mem, mem.app, Head(queue).val)
    <3>1. mem.app \in ClientId
      BY <1>2, <2>2, ModelFields
    <3>2. PICK k \in ChatApplication : k = mem
      BY <1>2
    <3>3. PICK p \in PresenceState : p = Head(queue).val
      BY <1>2
    <3>4. PICK z : z = CommitPresenceChanged(k, k.app, p)
      OBVIOUS
    <3>5. /\ z \in ChatApplication
          /\ z.runtime = k.runtime /\ z.network = k.network
          /\ z.aether = k.aether /\ z.room = k.room /\ z.app = k.app
          /\ \A d \in ClientId : z.client[d].aether_uid = k.client[d].aether_uid
      BY <3>1, <3>2, <3>4, PresenceCommands
    <3>6. mem' = z
      BY <2>2, <3>2, <3>3, <3>4
    <3> QED BY <3>2, <3>5, <3>6
  <2> QED BY <2>1, <2>2 DEF HandlePresence
<1>6. PresenceOK'
  BY <1>3, <1>4, <1>5 DEF PresenceOK
<1> QED BY <1>1, <1>2, <1>3, <1>5, <1>6, PlainTurn

\* A message needs its author in the room; without one the process ends.
LEMMA SendTurn ==
  ASSUME IndInv, HandleSend
  PROVE  IndInv'
<1>1. Turn("send")
  BY DEF HandleSend
<1>2. mem \in ChatApplication /\ Head(queue).type = "send"
  BY <1>1, TurnFacts
<1>3. CASE Abort("send")
  <2>1. count \in [runs : Nat, crashes : Nat, sends : Nat, uids : Nat,
                   changes : Nat, diagnoses : Nat, failures : Nat]
    BY DEF IndInv, Types
  <2> QED BY <1>3, <2>1, DownStep DEF Abort
<1>4. CASE /\ mem' = mem \/ mem' = CommitSendChatMessage(mem, mem.app)
           /\ queue' = Tail(queue)
           /\ UNCHANGED <<disk, account, model, toSave, enable, aether, env,
                          proc, asserts, count>>
  <2>1. /\ mem' \in ChatApplication /\ mem'.runtime = mem.runtime
        /\ mem'.aether = mem.aether /\ mem'.network = mem.network
        /\ mem'.app = mem.app /\ mem'.room.clients = mem.room.clients
        /\ mem'.client = mem.client
    <3>1. CASE mem' = mem
      BY <1>2, <3>1
    <3>2. CASE mem' = CommitSendChatMessage(mem, mem.app)
      <4>1. PICK r : r = RoomApply(mem.room, ChatMessageEvent(mem.app))
        OBVIOUS
      <4>2. mem' = [mem EXCEPT !.room = r]
        BY <3>2, <4>1 DEF CommitSendChatMessage
      <4>3. r \in ChatRoom /\ r.clients = mem.room.clients
        BY <1>2, <4>1, ModelFields DEF ChatRoom, RoomApply, ChatMessageEvent
      <4> QED BY <1>2, <4>1, <4>2, <4>3 DEF ChatApplication
    <3> QED BY <1>4, <3>1, <3>2
  <2>2. PresenceOK'
    BY <1>4, <2>1 DEF IndInv, PresenceOK
  <2> QED BY <1>1, <1>2, <1>4, <2>1, <2>2, PlainTurn
<1> QED BY <1>3, <1>4 DEF HandleSend

\* A uid that arrives binds the local client, or finds it complete.
LEMMA UidTurn ==
  ASSUME IndInv, HandleAetherUid
  PROVE  IndInv'
<1>1. Turn("uid") /\ queue' = Tail(queue)
  BY DEF HandleAetherUid
<1>2. UNCHANGED <<disk, account, aether, env, proc, asserts, count>>
  BY DEF HandleAetherUid
<1>3. PICK uid : uid = Head(queue).val
  OBVIOUS
<1>4. /\ mem \in ChatApplication /\ disk \in ChatApplication
      /\ proc \in {"up", "exiting"} /\ toSave = <<>> /\ model = "ready"
      /\ Head(queue).type = "uid" /\ uid \in Nat
      /\ mem.aether.run_id = mem.runtime.run_id /\ mem.aether.run_id # 0
      /\ mem.app = disk.app
      /\ queue[1] = Head(queue) /\ 1 \in 1..Len(queue)
  BY <1>1, <1>3, TurnFacts DEF Posted
<1>5. uid = aether.client /\ uid # 0 /\ uid = account
  BY <1>3, <1>4 DEF IndInv, QueueOK, UidPosts, IdentityOK
<1>6. DownOK' /\ RegistrationIsAdmitted'
  BY <1>2, <1>4 DEF IndInv, DownOK, RegistrationIsAdmitted
<1>7. CASE AlreadyComplete(mem)
  <2>1. /\ enable' = TRUE /\ UNCHANGED <<mem, model, toSave>>
        /\ mem.aether.phase = "registered"
    BY <1>7 DEF HandleAetherUid, AlreadyComplete, IsRegisteredForCurrentRun
  <2>2. QueueOK' /\ queue' \in Seq(Posted)
    BY <1>1, <1>2, <1>4, <2>1, TurnQueue
  <2>3. Types'
    BY <1>2, <2>1, <2>2 DEF IndInv, Types, TypeOK
  <2>4. IdentityOK' /\ RoomOK' /\ RunOK'
    BY <1>2, <2>1 DEF IndInv, IdentityOK, IdentityIsDurable, RoomOK, RunOK
  <2>5. RegisteredOK' /\ PresenceOK'
    BY <1>2, <1>4, <2>1 DEF IndInv, RegisteredOK, PresenceOK
  <2> QED BY <1>6, <2>2, <2>3, <2>4, <2>5 DEF IndInv
<1>8. CASE ~AlreadyComplete(mem)
  <2>1. PICK n : n = CommitAetherRegistrationCompleted(mem, uid)
    OBVIOUS
  <2>2. mem.aether.phase = "registered" => mem.aether.uid = uid
    BY <1>4, <1>5 DEF IndInv, RegisteredOK
  <2>3. /\ n \in ChatApplication
        /\ IsRegisteredForCurrentRun(n.aether) /\ n.aether.uid = uid
        /\ n.aether.run_id = mem.aether.run_id
        /\ n.runtime = mem.runtime /\ n.network = mem.network
        /\ n.room = mem.room /\ n.app = mem.app /\ n.client = mem.client
    BY <1>4, <1>5, <2>1, <2>2, RegistrationCompletes
  <2>4. /\ mem' = CreateUnjoinedLocalClient(n, uid).model
        /\ toSave' = CreateUnjoinedLocalClient(n, uid).save
        /\ model' = "binding" /\ UNCHANGED enable
    BY <1>3, <1>8, <2>1 DEF HandleAetherUid, BindLocalClient
  <2>5. /\ mem' \in ChatApplication
        /\ mem'.runtime = mem.runtime /\ mem'.network = mem.network
        /\ mem'.aether = n.aether /\ mem'.room = mem.room /\ mem'.app # 0
        /\ \/ mem'.app = mem.app /\ mem'.client = mem.client /\ toSave' = <<>>
           \/ /\ mem.app = 0 /\ toSave' = SaveOrder
              /\ mem'.client[mem'.app].presence = "unknown"
              /\ \A c \in ClientId : mem'.client[c].aether_uid \in
                                       {mem.client[c].aether_uid, uid}
    <3>1. CASE n.app # 0
      BY <2>3, <2>4, <3>1 DEF CreateUnjoinedLocalClient
    <3>2. CASE n.app = 0
      <4>1. PICK c : c = CHOOSE x \in ClientId : x \notin n.room.clients
        OBVIOUS
      <4>2. n.room.clients = {}
        <5>1. n.room.clients \subseteq {0} /\ n.room.clients \subseteq ClientId
          BY <2>3, <3>2, ModelFields DEF IndInv, RoomOK, ChatRoom
        <5> QED BY <5>1 DEF ClientId
      <4>3. c \in ClientId /\ c # 0
        BY <4>1, <4>2 DEF ClientId
      <4>4. PICK k : k = [aether_uid |-> uid, presence |-> "unknown"]
        OBVIOUS
      <4>5. k \in ChatClient /\ k.aether_uid = uid /\ k.presence = "unknown"
        BY <1>4, <4>4 DEF ChatClient, PresenceState
      <4>6. /\ mem' = [n EXCEPT !.app = c, !.client[c] = k]
            /\ toSave' = SaveOrder
        BY <2>4, <3>2, <4>1, <4>4 DEF CreateUnjoinedLocalClient
      <4>7. /\ mem' \in ChatApplication
            /\ mem'.runtime = n.runtime /\ mem'.network = n.network
            /\ mem'.aether = n.aether /\ mem'.room = n.room /\ mem'.app = c
            /\ mem'.client = [n.client EXCEPT ![c] = k]
        BY <2>3, <4>3, <4>5, <4>6 DEF ChatApplication
      <4>8. n.client \in [ClientId -> ChatClient]
        BY <2>3, ModelFields
      <4>9. /\ mem'.client[c] = k
            /\ \A d \in ClientId : mem'.client[d] \in {n.client[d], k}
        BY <4>3, <4>7, <4>8
      <4> QED BY <2>3, <3>2, <4>3, <4>5, <4>6, <4>7, <4>9
    <3> QED BY <3>1, <3>2
  <2>6. /\ mem'.aether.phase = "registered" /\ mem'.aether.uid = uid
        /\ IsRegisteredForCurrentRun(mem'.aether)
        /\ mem'.aether.run_id = mem.aether.run_id
    BY <2>3, <2>5 DEF IsRegisteredForCurrentRun
  <2>7. QueueOK' /\ queue' \in Seq(Posted)
    BY <1>1, <1>2, <1>4, <2>5, <2>6, TurnQueue
  <2>8. /\ toSave' \in Saves /\ toSave' \notin AfterRuntime
        /\ mem'.app # mem.app => toSave' # <<>>
    BY <2>5, SavesInOrder, NoProcess
  <2>9. Types'
    BY <1>2, <2>4, <2>5, <2>7, <2>8 DEF IndInv, Types, TypeOK
  <2>10. IdentityOK'
    <3>1. \A c \in ClientId : mem'.client[c].aether_uid \in {0, account}
      BY <1>5, <2>5 DEF IndInv, IdentityOK, IdentityIsDurable
    <3> QED BY <1>2, <1>5, <2>6, <3>1 DEF IndInv, IdentityOK, IdentityIsDurable
  <2>11. RoomOK'
    <3>1. mem.room.clients \subseteq {mem.app} /\ mem.room.clients \subseteq ClientId
      BY <1>4, ModelFields DEF IndInv, RoomOK, ChatRoom
    <3>2. mem.app = 0 => mem.room.clients = {}
      BY <3>1 DEF ClientId
    <3>3. /\ mem'.room.clients \subseteq {mem'.app}
          /\ \/ mem'.app = disk.app
             \/ disk.app = 0 /\ toSave' # <<>> /\ mem'.room.clients = {}
      BY <1>4, <2>5, <2>8, <3>1, <3>2
    <3> QED BY <1>2, <3>3 DEF IndInv, RoomOK
  <2>12. RunOK'
    BY <1>2, <1>4, <2>5, <2>6, <2>8 DEF IndInv, RunOK
  <2>13. RegisteredOK'
    BY <1>2, <1>5, <2>5, <2>6 DEF RegisteredOK
  <2>14. PresenceOK'
    BY <1>2, <2>5, <2>6 DEF IndInv, PresenceOK
  <2> QED BY <1>6, <2>7, <2>9, <2>10, <2>11, <2>12, <2>13, <2>14 DEF IndInv
<1> QED BY <1>7, <1>8

\* The bound client joins the room: nobody else can be there.
LEMMA FinishRegistrationStep ==
  ASSUME IndInv, FinishRegistration
  PROVE  IndInv'
<1>1. /\ mem \in ChatApplication /\ model = "binding" /\ toSave = <<>>
      /\ proc # "down" /\ mem.app # 0 /\ mem.app = disk.app
      /\ mem.aether.phase = "registered"
      /\ mem.room.clients \subseteq {mem.app}
  BY DEF IndInv, Types, TypeOK, DownOK, RegisteredOK, RoomOK, FinishRegistration
<1>2. mem.app \in ClientId /\ "connecting" \in PresenceState
  BY <1>1, ModelFields DEF PresenceState
<1>3. HasClient(mem, mem.app) \/ RoomCanApply(mem, ClientAddedEvent(mem.app))
  BY <1>1 DEF HasClient, RoomCanApply, ClientAddedEvent, HasClientByAetherUid
<1>4. /\ mem' = JoinLocalClient(mem) /\ model' = "ready" /\ enable' = TRUE
      /\ UNCHANGED <<disk, account, queue, toSave, aether, env, proc,
                     asserts, count>>
  BY <1>3 DEF FinishRegistration
<1>5. PICK n : /\ n \in ChatApplication
               /\ n.runtime = mem.runtime /\ n.network = mem.network
               /\ n.aether = mem.aether /\ n.client = mem.client
               /\ n.app = mem.app /\ n.room.clients \subseteq {mem.app}
               /\ mem' = CommitPresenceMonitoringStarted(n, mem.app)
  <2>1. CASE HasClient(mem, mem.app)
    BY <1>1, <1>4, <2>1 DEF JoinLocalClient
  <2>2. CASE ~HasClient(mem, mem.app)
    <3>1. PICK r : r = RoomApply(mem.room, ClientAddedEvent(mem.app))
      OBVIOUS
    <3>2. r \in ChatRoom /\ r.clients \subseteq {mem.app}
      BY <1>1, <1>2, <3>1, ModelFields DEF RoomApply, ClientAddedEvent, ChatRoom
    <3>3. PICK n : n = [mem EXCEPT !.room = r]
      OBVIOUS
    <3>4. mem' = CommitPresenceMonitoringStarted(n, mem.app)
      BY <1>4, <2>2, <3>1, <3>3 DEF JoinLocalClient
    <3>5. /\ n \in ChatApplication
          /\ n.runtime = mem.runtime /\ n.network = mem.network
          /\ n.aether = mem.aether /\ n.client = mem.client
          /\ n.app = mem.app /\ n.room = r
      BY <1>1, <3>2, <3>3 DEF ChatApplication
    <3> QED BY <3>2, <3>4, <3>5
  <2> QED BY <2>1, <2>2
<1>6. /\ mem' \in ChatApplication /\ mem'.runtime = mem.runtime
      /\ mem'.network = mem.network /\ mem'.aether = mem.aether
      /\ mem'.app = mem.app /\ mem'.room.clients \subseteq {mem.app}
      /\ mem'.client[mem.app].presence = "connecting"
      /\ \A d \in ClientId : mem'.client[d].aether_uid = mem.client[d].aether_uid
  BY <1>2, <1>5, PresenceCommits
     DEF CommitPresenceMonitoringStarted, PresenceMonitoringStartedEvent
<1>7. Types' /\ DownOK' /\ RegistrationIsAdmitted'
  BY <1>1, <1>4, <1>6 DEF IndInv, Types, TypeOK, DownOK, RegistrationIsAdmitted
<1>8. IdentityOK'
  BY <1>4, <1>6 DEF IndInv, IdentityOK, IdentityIsDurable
<1>9. RoomOK' /\ RunOK'
  BY <1>1, <1>4, <1>6 DEF IndInv, RoomOK, RunOK
<1>10. RegisteredOK' /\ PresenceOK'
  BY <1>1, <1>4, <1>6 DEF IndInv, RegisteredOK, PresenceOK
<1>11. QueueOK'
  BY <1>4, <1>6 DEF IndInv, QueueOK
<1> QED BY <1>7, <1>8, <1>9, <1>10, <1>11 DEF IndInv

-----------------------------------------------------------------------------
(* The Aether thread, and the user.                                        *)

\* A step that leaves the model and the disk alone.
LEMMA ThreadStep ==
  ASSUME IndInv, proc # "down",
         UNCHANGED <<disk, mem, model, toSave, proc, asserts>>,
         account' \in Nat, queue' \in Seq(Posted), enable' \in BOOLEAN,
         aether' \in ThreadState,
         env' \in [probe : Observable, diag : Diagnosis,
                   select : {"none", "pending", "ok", "failed"}, due : BOOLEAN],
         count' \in [runs : Nat, crashes : Nat, sends : Nat, uids : Nat,
                     changes : Nat, diagnoses : Nat, failures : Nat],
         account' = account \/ account = 0,
         aether'.client \in {0, account'},
         aether.client # 0 => aether'.client = aether.client,
         aether'.pc = "emit" => aether'.client # 0,
         enable' \/ aether'.presence_enabled =>
           enable \/ aether.presence_enabled,
         aether.last_reported # "none" => aether'.last_reported # "none",
         QueueOK'
  PROVE  IndInv'
<1>1. Types' /\ DownOK' /\ RegistrationIsAdmitted'
  BY DEF IndInv, Types, TypeOK, DownOK, RegistrationIsAdmitted
<1>2. IdentityOK'
  BY DEF IndInv, IdentityOK, IdentityIsDurable
<1>3. RoomOK' /\ RunOK'
  BY DEF IndInv, RoomOK, RunOK
<1>4. RegisteredOK'
  <2>1. mem.aether.phase = "registered" =>
          /\ IsRegisteredForCurrentRun(mem.aether)
          /\ aether'.client # 0 /\ mem.aether.uid = aether'.client
    BY DEF IndInv, RegisteredOK
  <2>2. enable' \/ aether'.presence_enabled => mem.aether.phase = "registered"
    BY DEF IndInv, RegisteredOK
  <2>3. model = "binding" => mem.aether.phase = "registered" /\ mem.app # 0
    BY DEF IndInv, RegisteredOK
  <2> QED BY <2>1, <2>2, <2>3 DEF RegisteredOK
<1>5. PresenceOK'
  BY DEF IndInv, PresenceOK
<1> QED BY <1>1, <1>2, <1>3, <1>4, <1>5 DEF IndInv

\* What the queue promises once a post is accepted, or dropped because the
\* process is about to end.
LEMMA PostStep ==
  ASSUME NEW q \in Seq(Posted), NEW type, NEW val, NEW known, NEW phase,
         NEW reported, NEW client,
         [type |-> type, val |-> val] \in Posted,
         UidPosts(q, client), PresencePosts(q, known, phase, reported),
         proc = "up" /\ type = "uid" => val = client /\ client # 0,
         proc = "up" /\ type = "presence" =>
           /\ AvailableAt(q, known, Len(q) + 1)
           /\ phase = "registered" /\ reported # "none"
  PROVE  LET r == Post(q, type, val)
         IN /\ r \in Seq(Posted)
            /\ UidPosts(r, client) /\ PresencePosts(r, known, phase, reported)
            /\ \/ proc # "up"
               \/ type = "network" /\ val # "available"
               \/ type # "network" /\ ~AvailableAt(q, known, Len(q) + 1)
               \/ AvailableAt(r, known, Len(r) + 1)
<1>1. CASE proc # "up"
  BY <1>1 DEF Post
<1>2. CASE proc = "up"
  <2>1. PICK p : p = [type |-> type, val |-> val]
    OBVIOUS
  <2>2. p \in Posted /\ p.type = type /\ p.val = val
    BY <2>1
  <2>3. PICK r : r = Append(q, p)
    OBVIOUS
  <2>4. Post(q, type, val) = r
    BY <1>2, <2>1, <2>3 DEF Post
  <2>5. UidPosts(r, client) /\ PresencePosts(r, known, phase, reported)
    BY <1>2, <2>2, <2>3, PostingKeeps
  <2>6. /\ r \in Seq(Posted) /\ Len(r) = Len(q) + 1
        /\ p.type # "network" /\ AvailableAt(q, known, Len(q) + 1) =>
             AvailableAt(r, known, Len(q) + 2)
        /\ p.type = "network" /\ p.val = "available" =>
             AvailableAt(r, known, Len(q) + 2)
    BY <2>2, <2>3, Posting
  <2>7. Len(q) + 2 = Len(r) + 1
    <3>1. Len(q) \in Nat
      OBVIOUS
    <3> QED BY <2>6, <3>1
  <2> QED BY <2>2, <2>4, <2>5, <2>6, <2>7
<1> QED BY <1>1, <1>2

\* The end of a turn of the loop: a diagnosis that is news is posted.
LEMMA TickStep ==
  ASSUME NEW a \in ThreadState, NEW q \in Seq(Posted), NEW known, NEW phase,
         env.diag \in Diagnosis, UNCHANGED proc, Tick(a, q),
         UidPosts(q, a.client),
         PresencePosts(q, known, phase, a.last_reported),
         a.net = a.last_network,
         proc = "up" /\ a.last_network = "available" =>
           AvailableAt(q, known, Len(q) + 1),
         a.presence_enabled => phase = "registered"
  PROVE  /\ aether' \in ThreadState /\ queue' \in Seq(Posted)
         /\ aether'.pc = "top" /\ aether'.client = a.client
         /\ aether'.net = a.net /\ aether'.last_network = a.last_network
         /\ aether'.presence_enabled = a.presence_enabled
         /\ a.last_reported # "none" => aether'.last_reported # "none"
         /\ UidPosts(queue', a.client)
         /\ PresencePosts(queue', known, phase, aether'.last_reported)
         /\ proc = "up" /\ a.last_network = "available" =>
              AvailableAt(queue', known, Len(queue') + 1)
<1> DEFINE news == /\ a.presence_enabled /\ a.hub /\ a.net = "available"
                   /\ env.diag # a.last_reported
<1>1. PICK l : l = (IF news THEN env.diag ELSE a.last_reported)
  OBVIOUS
<1>2. /\ aether' = [a EXCEPT !.pc = "top", !.last_reported = l]
      /\ queue' = IF news THEN Post(q, "presence", env.diag) ELSE q
  BY <1>1 DEF Tick
<1>3. /\ l \in Diagnosis \cup {"none"}
      /\ news => l # "none"
      /\ ~news => l = a.last_reported
      /\ a.last_reported # "none" => l # "none"
  <2>1. a.last_reported \in Diagnosis \cup {"none"} /\ "none" \notin Diagnosis
    BY DEF ThreadState, Diagnosis
  <2> HIDE DEF news
  <2> QED BY <1>1, <2>1
<1>4. /\ aether' \in ThreadState
      /\ aether'.pc = "top" /\ aether'.client = a.client
      /\ aether'.net = a.net /\ aether'.last_network = a.last_network
      /\ aether'.presence_enabled = a.presence_enabled
      /\ aether'.last_reported = l
  BY <1>2, <1>3 DEF ThreadState
<1>5. PresencePosts(q, known, phase, l)
  BY <1>3 DEF PresencePosts
<1>6. CASE news
  <2>1. [type |-> "presence", val |-> env.diag] \in Posted
    BY DEF Posted
  <2>2. a.net = "available" /\ phase = "registered" /\ l # "none"
    BY <1>3, <1>6
  <2>3. PICK d : d = env.diag
    OBVIOUS
  <2>4. PICK r : r = Post(q, "presence", d)
    OBVIOUS
  <2>5. /\ r \in Seq(Posted)
        /\ UidPosts(r, a.client) /\ PresencePosts(r, known, phase, l)
        /\ \/ proc # "up" \/ ~AvailableAt(q, known, Len(q) + 1)
           \/ AvailableAt(r, known, Len(r) + 1)
    BY <1>5, <2>1, <2>2, <2>3, <2>4, PostStep
  <2>6. queue' = r
    BY <1>2, <1>6, <2>3, <2>4
  <2> QED BY <1>3, <1>4, <2>5, <2>6
<1>7. CASE ~news
  <2>1. queue' = q
    BY <1>2, <1>7
  <2> QED BY <1>3, <1>4, <1>5, <2>1
<1> QED BY <1>6, <1>7

\* The thread's record after the client selection has moved on.
Selected(c, i, g) == [c EXCEPT !.init = i, !.hub = g]

\* It is a record of the thread's.
LEMMA ClientSelected ==
  ASSUME NEW c \in ThreadState, NEW i \in {"waiting", "selecting", "retry", "ready"},
         NEW g \in BOOLEAN
  PROVE  Selected(c, i, g) \in ThreadState
BY DEF ThreadState, Selected

\* The invariant, as the thread's steps need it.
LEMMA ThreadFacts ==
  ASSUME IndInv
  PROVE  /\ account \in Nat /\ queue \in Seq(Posted) /\ enable \in BOOLEAN
         /\ aether \in ThreadState
         /\ env \in [probe : Observable, diag : Diagnosis,
                     select : {"none", "pending", "ok", "failed"}, due : BOOLEAN]
         /\ count \in [runs : Nat, crashes : Nat, sends : Nat, uids : Nat,
                       changes : Nat, diagnoses : Nat, failures : Nat]
         /\ aether.client \in {0, account}
         /\ aether.pc = "emit" => aether.client # 0
         /\ UidPosts(queue, aether.client)
         /\ PresencePosts(queue, mem.network.availability, mem.aether.phase,
                          aether.last_reported)
         /\ aether.net = aether.last_network
         /\ proc = "up" /\ aether.last_network = "available" =>
              AvailableAt(queue, mem.network.availability, Len(queue) + 1)
         /\ aether.presence_enabled => mem.aether.phase = "registered"
         /\ aether.pc # "off" => proc # "down"
<1>1. aether.pc # "off" => proc # "down"
  BY NoProcess DEF IndInv, DownOK
<1> QED BY <1>1 DEF IndInv, Types, TypeOK, IdentityOK, QueueOK, RegisteredOK

\* The top of the loop reports a network that has changed.
LEMMA LoopTopStep ==
  ASSUME IndInv, LoopTop
  PROVE  IndInv'
<1>1. /\ aether.pc = "top" /\ proc # "down"
      /\ UNCHANGED <<disk, mem, model, toSave, proc, asserts, count>>
  BY DEF LoopTop
<1>2. CASE proc # "up"
  <2>1. /\ aether' = [aether EXCEPT !.pc = "done"]
        /\ account' = IF aether.client # 0 THEN aether.client ELSE account
        /\ UNCHANGED <<enable, queue, env>>
    BY <1>2 DEF LoopTop, stop
  <2>2. account' = account
    BY <2>1, ThreadFacts
  <2>3. /\ aether' \in ThreadState /\ aether'.pc = "done"
        /\ aether'.client = aether.client
        /\ aether'.net = aether.net
        /\ aether'.last_network = aether.last_network
        /\ aether'.presence_enabled = aether.presence_enabled
        /\ aether'.last_reported = aether.last_reported
    BY <2>1, ThreadFacts DEF ThreadState
  <2>4. QueueOK'
    BY <1>1, <2>1, <2>3 DEF IndInv, QueueOK
  <2> QED BY <1>1, <2>1, <2>2, <2>3, <2>4, ThreadFacts, ThreadStep
<1>3. CASE proc = "up"
  <2>1. PICK avail \in Observable : avail = env.probe
    BY ThreadFacts
  <2>2. PICK init \in {"waiting", "selecting", "retry", "ready"} :
          init = IF OnNetworkObservation(aether, avail = "available")
                 THEN "selecting" ELSE Observed(aether, avail = "available")
    BY ThreadFacts DEF Observed, ThreadState
  <2>3. /\ aether' = [aether EXCEPT !.pc = "update", !.net = avail,
                 !.presence_enabled = @ \/ enable, !.last_network = avail,
                 !.network_available = (avail = "available"), !.init = init,
                 !.hub = @ \/ (init = "ready" /\ aether.client # 0)]
        /\ enable' = FALSE /\ UNCHANGED account
        /\ queue' = ReportNetwork(aether, avail)
        /\ env' = [env EXCEPT !.due = @ /\ init = "retry",
                     !.select = IF OnNetworkObservation(aether, avail = "available")
                                THEN "pending" ELSE @]
    BY <1>3, <2>1, <2>2 DEF LoopTop, stop
  <2>4. /\ aether' \in ThreadState /\ aether'.pc = "update"
        /\ aether'.client = aether.client
        /\ aether'.net = avail /\ aether'.last_network = avail
        /\ aether'.last_reported = aether.last_reported
    <3>1. PICK p \in BOOLEAN : p = (aether.presence_enabled \/ enable)
      OBVIOUS
    <3>2. PICK v \in BOOLEAN : v = (avail = "available")
      OBVIOUS
    <3>3. PICK g \in BOOLEAN :
            g = (aether.hub \/ (init = "ready" /\ aether.client # 0))
      OBVIOUS
    <3>4. aether' = [aether EXCEPT !.pc = "update", !.net = avail,
              !.presence_enabled = p, !.last_network = avail,
              !.network_available = v, !.init = init, !.hub = g]
      BY <2>3, <3>1, <3>2, <3>3
    <3>5. PICK a \in ThreadState : a = aether
      BY ThreadFacts
    <3>6. PICK b \in ThreadState : b = [a EXCEPT !.pc = "update", !.net = avail,
                                                  !.presence_enabled = p]
      BY DEF ThreadState
    <3>7. PICK c \in ThreadState : c = [b EXCEPT !.last_network = avail,
                                                  !.network_available = v]
      BY DEF ThreadState
    <3>8. /\ c.pc = "update" /\ c.client = a.client
          /\ c.net = avail /\ c.last_network = avail
          /\ c.last_reported = a.last_reported
      BY <3>6, <3>7 DEF ThreadState
    <3>9. aether' = Selected(c, init, g)
      BY <3>4, <3>5, <3>6, <3>7 DEF Selected
    <3>10. PICK d : d = Selected(c, init, g)
      OBVIOUS
    <3>11. d \in ThreadState
      BY <3>10, ClientSelected
    <3>12. /\ d.pc = c.pc /\ d.client = c.client
           /\ d.net = c.net /\ d.last_network = c.last_network
           /\ d.last_reported = c.last_reported
      BY <3>10 DEF ThreadState, Selected
    <3>13. aether' = d
      BY <3>9, <3>10
    <3> QED BY <3>5, <3>8, <3>11, <3>12, <3>13
  <2>5. aether'.presence_enabled => enable \/ aether.presence_enabled
    BY <2>3, ThreadFacts DEF ThreadState
  <2>6. env' \in [probe : Observable, diag : Diagnosis,
                  select : {"none", "pending", "ok", "failed"}, due : BOOLEAN]
    BY <2>3, ThreadFacts
  <2>7. QueueOK' /\ queue' \in Seq(Posted)
    <3>1. PICK q \in Seq(Posted) : q = queue
      BY ThreadFacts
    <3>2. PICK known : known = mem.network.availability
      OBVIOUS
    <3>3. PICK phase : phase = mem.aether.phase
      OBVIOUS
    <3>4. PICK reported : reported = aether.last_reported
      OBVIOUS
    <3>5. PICK client : client = aether.client
      OBVIOUS
    <3>6. /\ UidPosts(q, client) /\ PresencePosts(q, known, phase, reported)
          /\ aether.last_network = "available" =>
               AvailableAt(q, known, Len(q) + 1)
      BY <1>3, <3>1, <3>2, <3>3, <3>4, <3>5, ThreadFacts
    <3>7. /\ queue' \in Seq(Posted)
          /\ UidPosts(queue', client)
          /\ PresencePosts(queue', known, phase, reported)
          /\ avail = "available" => AvailableAt(queue', known, Len(queue') + 1)
      <4>1. CASE avail = aether.last_network
        <5>1. queue' = q
          BY <2>3, <3>1, <4>1 DEF ReportNetwork
        <5> QED BY <3>6, <4>1, <5>1
      <4>2. CASE avail # aether.last_network
        <5>1. PICK r : r = Post(q, "network", avail)
          OBVIOUS
        <5>2. queue' = r
          BY <2>3, <3>1, <4>2, <5>1 DEF ReportNetwork
        <5>3. [type |-> "network", val |-> avail] \in Posted
          BY DEF Posted
        <5>4. /\ r \in Seq(Posted)
              /\ UidPosts(r, client)
              /\ PresencePosts(r, known, phase, reported)
              /\ avail # "available" \/ AvailableAt(r, known, Len(r) + 1)
          BY <1>3, <3>6, <5>1, <5>3, PostStep
        <5> QED BY <5>2, <5>4
      <4> QED BY <4>1, <4>2
    <3> QED BY <1>1, <2>4, <3>2, <3>3, <3>4, <3>5, <3>7 DEF QueueOK
  <2> QED BY <1>1, <2>3, <2>4, <2>5, <2>6, <2>7, ThreadFacts, ThreadStep
<1> QED BY <1>2, <1>3

\* A turn of the loop that ends without a new client.
LEMMA TickKeeps ==
  ASSUME IndInv, aether.pc # "off",
         NEW a \in ThreadState, NEW q \in Seq(Posted), Tick(a, q),
         UNCHANGED <<disk, account, mem, model, toSave, enable, proc, asserts,
                     count>>,
         env' \in [probe : Observable, diag : Diagnosis,
                   select : {"none", "pending", "ok", "failed"}, due : BOOLEAN],
         a.client = aether.client, a.net = aether.net,
         a.last_network = aether.last_network,
         a.presence_enabled = aether.presence_enabled,
         a.last_reported = aether.last_reported,
         UidPosts(q, a.client),
         PresencePosts(q, mem.network.availability, mem.aether.phase,
                       a.last_reported),
         proc = "up" /\ a.last_network = "available" =>
           AvailableAt(q, mem.network.availability, Len(q) + 1)
  PROVE  IndInv'
<1>1. PICK known : known = mem.network.availability
  OBVIOUS
<1>2. PICK phase : phase = mem.aether.phase
  OBVIOUS
<1>3. /\ env.diag \in Diagnosis /\ a.net = a.last_network
      /\ a.presence_enabled => phase = "registered"
  BY <1>2, ThreadFacts
<1>4. /\ aether' \in ThreadState /\ queue' \in Seq(Posted)
      /\ aether'.pc = "top" /\ aether'.client = a.client
      /\ aether'.net = a.net /\ aether'.last_network = a.last_network
      /\ aether'.presence_enabled = a.presence_enabled
      /\ a.last_reported # "none" => aether'.last_reported # "none"
      /\ UidPosts(queue', a.client)
      /\ PresencePosts(queue', known, phase, aether'.last_reported)
      /\ proc = "up" /\ a.last_network = "available" =>
           AvailableAt(queue', known, Len(queue') + 1)
  BY <1>1, <1>2, <1>3, TickStep
<1>5. QueueOK'
  BY <1>1, <1>2, <1>3, <1>4 DEF QueueOK
<1> QED BY <1>4, <1>5, ThreadFacts, ThreadStep

\* A selection that succeeds yields the client the directory has, if any.
LEMMA UpdateStep ==
  ASSUME IndInv, Update
  PROVE  IndInv'
<1>1. /\ aether.pc = "update"
      /\ UNCHANGED <<disk, mem, model, toSave, enable, proc, asserts>>
  BY DEF Update
<1>2. PICK q \in Seq(Posted) : q = queue
  BY ThreadFacts
<1>3. CASE Tick(aether, queue) /\ UNCHANGED <<account, env, count>>
  <2>1. PICK a \in ThreadState : a = aether
    BY ThreadFacts
  <2>2. Tick(a, q)
    BY <1>2, <1>3, <2>1
  <2> QED BY <1>1, <1>2, <1>3, <2>1, <2>2, ThreadFacts, TickKeeps
<1>4. CASE /\ Tick([aether EXCEPT !.init = OnSelectClientFailed(aether)], queue)
           /\ env' = [env EXCEPT !.select = "none"]
           /\ UNCHANGED <<account, count>>
  <2>1. PICK i \in {"waiting", "retry"} : i = OnSelectClientFailed(aether)
    BY DEF OnSelectClientFailed
  <2>2. PICK a : a = [aether EXCEPT !.init = i]
    OBVIOUS
  <2>3. /\ a \in ThreadState /\ a.client = aether.client /\ a.net = aether.net
        /\ a.last_network = aether.last_network
        /\ a.presence_enabled = aether.presence_enabled
        /\ a.last_reported = aether.last_reported
    BY <2>2, ThreadFacts DEF ThreadState
  <2>4. Tick(a, q)
    BY <1>2, <1>4, <2>1, <2>2
  <2>5. env' \in [probe : Observable, diag : Diagnosis,
                  select : {"none", "pending", "ok", "failed"}, due : BOOLEAN]
    BY <1>4, ThreadFacts
  <2> QED BY <1>1, <1>2, <1>4, <2>3, <2>4, <2>5, ThreadFacts, TickKeeps
<1>5. CASE /\ env.select = "ok"
           /\ LET uid == IF account # 0 THEN account ELSE count.uids + 1
              IN  /\ aether' = [aether EXCEPT !.pc = "emit", !.init = "ready",
                                              !.client = uid]
                  /\ ConfigureReadyClient(uid)
                  /\ count' = [count EXCEPT !.uids = IF @ < uid THEN uid ELSE @]
           /\ env' = [env EXCEPT !.select = "none"]
  <2>1. PICK uid \in Nat : uid = IF account # 0 THEN account ELSE count.uids + 1
    BY ThreadFacts
  <2>2. /\ aether' = [aether EXCEPT !.pc = "emit", !.init = "ready",
                                    !.client = uid]
        /\ account' = uid /\ UNCHANGED queue
        /\ count' = [count EXCEPT !.uids = IF @ < uid THEN uid ELSE @]
    BY <1>5, <2>1 DEF ConfigureReadyClient
  <2>3. /\ uid # 0
        /\ account # 0 => uid = account
    BY <2>1, ThreadFacts
  <2>4. /\ aether' \in ThreadState /\ aether'.pc = "emit"
        /\ aether'.client = uid /\ aether'.net = aether.net
        /\ aether'.last_network = aether.last_network
        /\ aether'.presence_enabled = aether.presence_enabled
        /\ aether'.last_reported = aether.last_reported
    BY <2>2, ThreadFacts DEF ThreadState
  <2>5. count' \in [runs : Nat, crashes : Nat, sends : Nat, uids : Nat,
                    changes : Nat, diagnoses : Nat, failures : Nat]
    <3>1. PICK u \in Nat : u = IF count.uids < uid THEN uid ELSE count.uids
      BY ThreadFacts
    <3>2. count' = [count EXCEPT !.uids = u]
      BY <2>2, <3>1
    <3> QED BY <3>2, ThreadFacts
  <2>6. env' \in [probe : Observable, diag : Diagnosis,
                  select : {"none", "pending", "ok", "failed"}, due : BOOLEAN]
    BY <1>5, ThreadFacts
  <2>7. aether.client # 0 => uid = aether.client
    BY <2>3, ThreadFacts
  <2>8. QueueOK'
    <3>1. UidPosts(queue, uid)
      BY <2>7, ThreadFacts DEF UidPosts
    <3> QED BY <1>1, <2>2, <2>4, <3>1 DEF IndInv, QueueOK
  <2>9. proc # "down"
    BY <1>1, ThreadFacts
  <2> QED BY <1>1, <2>2, <2>3, <2>4, <2>5, <2>6, <2>7, <2>8, <2>9, ThreadFacts,
             ThreadStep
<1> QED BY <1>3, <1>4, <1>5 DEF Update

\* The uid is posted after the client is stored.
LEMMA EmitUidStep ==
  ASSUME IndInv, EmitUid
  PROVE  IndInv'
<1>1. /\ aether.pc = "emit" /\ Tick(aether, Post(queue, "uid", aether.client))
      /\ UNCHANGED <<disk, account, mem, model, toSave, enable, env, proc,
                     asserts, count>>
  BY DEF EmitUid
<1>2. PICK a \in ThreadState : a = aether
  BY ThreadFacts
<1>3. PICK q \in Seq(Posted) : q = queue
  BY ThreadFacts
<1>4. PICK known : known = mem.network.availability
  OBVIOUS
<1>5. PICK phase : phase = mem.aether.phase
  OBVIOUS
<1>6. PICK client : client = a.client
  OBVIOUS
<1>7. PICK reported : reported = a.last_reported
  OBVIOUS
<1>8. /\ UidPosts(q, client) /\ PresencePosts(q, known, phase, reported)
      /\ proc = "up" /\ a.last_network = "available" =>
           AvailableAt(q, known, Len(q) + 1)
      /\ client # 0
  BY <1>1, <1>2, <1>3, <1>4, <1>5, <1>6, <1>7, ThreadFacts
<1>9. PICK r : r = Post(q, "uid", client)
  OBVIOUS
<1>10. [type |-> "uid", val |-> client] \in Posted
  BY <1>2, <1>6 DEF Posted, ThreadState
<1>11. /\ r \in Seq(Posted)
       /\ UidPosts(r, client) /\ PresencePosts(r, known, phase, reported)
       /\ \/ proc # "up" \/ ~AvailableAt(q, known, Len(q) + 1)
          \/ AvailableAt(r, known, Len(r) + 1)
  BY <1>8, <1>9, <1>10, PostStep
<1>12. Tick(a, r)
  BY <1>1, <1>2, <1>3, <1>6, <1>9
<1> QED BY <1>1, <1>2, <1>4, <1>5, <1>6, <1>7, <1>8, <1>11, <1>12, ThreadFacts,
           TickKeeps

\* The user's message goes behind what is queued.
LEMMA TrySendStep ==
  ASSUME IndInv, TrySend
  PROVE  IndInv'
<1>1. /\ proc = "up" /\ queue' = Post(queue, "send", 0)
      /\ count' = [count EXCEPT !.sends = @ + 1]
      /\ UNCHANGED <<disk, account, mem, model, toSave, enable, aether, env,
                     proc, asserts>>
  BY DEF TrySend
<1>2. PICK q \in Seq(Posted) : q = queue
  BY ThreadFacts
<1>3. PICK known : known = mem.network.availability
  OBVIOUS
<1>4. PICK phase : phase = mem.aether.phase
  OBVIOUS
<1>5. PICK client : client = aether.client
  OBVIOUS
<1>6. PICK reported : reported = aether.last_reported
  OBVIOUS
<1>7. /\ UidPosts(q, client) /\ PresencePosts(q, known, phase, reported)
      /\ aether.last_network = "available" => AvailableAt(q, known, Len(q) + 1)
  BY <1>1, <1>2, <1>3, <1>4, <1>5, <1>6, ThreadFacts
<1>8. PICK r : r = Post(q, "send", 0)
  OBVIOUS
<1>9. [type |-> "send", val |-> 0] \in Posted
  BY DEF Posted
<1>10. /\ r \in Seq(Posted)
       /\ UidPosts(r, client) /\ PresencePosts(r, known, phase, reported)
       /\ \/ proc # "up" \/ ~AvailableAt(q, known, Len(q) + 1)
          \/ AvailableAt(r, known, Len(r) + 1)
  BY <1>7, <1>8, <1>9, PostStep
<1>11. queue' = r
  BY <1>1, <1>2, <1>8
<1>12. QueueOK'
  BY <1>1, <1>3, <1>4, <1>5, <1>6, <1>7, <1>10, <1>11, ThreadFacts DEF QueueOK
<1>13. count' \in [runs : Nat, crashes : Nat, sends : Nat, uids : Nat,
                   changes : Nat, diagnoses : Nat, failures : Nat]
  <2>1. count \in [runs : Nat, crashes : Nat, sends : Nat, uids : Nat,
                   changes : Nat, diagnoses : Nat, failures : Nat]
    BY ThreadFacts
  <2> QED BY <1>1, <2>1
<1> QED BY <1>1, <1>10, <1>11, <1>12, <1>13, ThreadFacts, ThreadStep

-----------------------------------------------------------------------------
(* The theorems.                                                           *)

\* Every step of a process, of the network or of the user preserves it.
LEMMA NextIndInv == IndInv /\ [Next]_vars => IndInv'
<1> SUFFICES ASSUME IndInv, [Next]_vars PROVE IndInv'
  OBVIOUS
<1>1. CASE Run
  BY <1>1, RunStep
<1>2. CASE Crash \/ Finish
  <2>1. count \in [runs : Nat, crashes : Nat, sends : Nat, uids : Nat,
                   changes : Nat, diagnoses : Nat, failures : Nat]
    BY ThreadFacts
  <2>2. /\ Down /\ UNCHANGED <<disk, account, asserts>>
        /\ count' \in [runs : Nat, crashes : Nat, sends : Nat, uids : Nat,
                       changes : Nat, diagnoses : Nat, failures : Nat]
    BY <1>2, <2>1 DEF Crash, Finish
  <2> QED BY <2>2, DownStep
<1>3. CASE RequestExit \/ JoinThreads
  BY <1>3, ExitStep
<1>4. CASE ModelThread
  BY <1>4, UidTurn, FinishRegistrationStep, NetworkTurn, PresenceTurn, SendTurn,
     StoreNextStep DEF ModelThread
<1>5. CASE AetherThread
  BY <1>5, LoopTopStep, UpdateStep, EmitUidStep DEF AetherThread
<1>6. CASE TrySend
  BY <1>6, TrySendStep
<1>7. CASE \/ \E a \in NetworkAvailability \ {"initializing"} : NetworkChanges(a)
           \/ \E s, o \in BOOLEAN : DiagnosisChanges(s, o)
           \/ RetryIsDue \/ SelectAnswers
  BY <1>7, WorldStep DEF Observable
<1>8. CASE UNCHANGED vars
  <2>1. Types' /\ DownOK' /\ IdentityOK' /\ RoomOK' /\ RunOK'
    BY <1>8 DEF vars, IndInv, Types, TypeOK, DownOK, IdentityOK,
                IdentityIsDurable, RoomOK, RunOK
  <2>2. RegisteredOK' /\ QueueOK' /\ PresenceOK' /\ RegistrationIsAdmitted'
    BY <1>8 DEF vars, IndInv, RegisteredOK, QueueOK, PresenceOK,
                RegistrationIsAdmitted
  <2> QED BY <2>1, <2>2 DEF IndInv
<1> QED BY <1>1, <1>2, <1>3, <1>4, <1>5, <1>6, <1>7, <1>8 DEF Next, Terminated

\* The invariant holds of every reachable state.
LEMMA Invariance == Spec => []IndInv
BY InitIndInv, NextIndInv, PTL DEF Spec

\* However often the process is killed, and wherever in a save, every uid in
\* memory or on disk is the one in the Aether state directory
\* (ConfigureReadyClient stores the client before the uid is posted).
THEOREM LifecycleIdentityIsDurable == Spec => []IdentityIsDurable
<1>1. IndInv => IdentityIsDurable
  BY DEF IndInv, IdentityOK
<1> QED BY <1>1, Invariance, PTL

\* The assertion of CommitClientAdded never fails: a save stores the room before
\* the application that names the client, so no kill leaves a room with a
\* client in it that the application does not know.
THEOREM LifecycleRegistrationIsAdmitted == Spec => []RegistrationIsAdmitted
<1>1. IndInv => RegistrationIsAdmitted
  BY DEF IndInv
<1> QED BY <1>1, Invariance, PTL

\* What is shown is of this run: the uid is the selected client's, and an
\* Online or Offline was diagnosed for it and no later outage is known, for
\* any number of posts between the two threads.
THEOREM LifecycleShownIsThisRun == Spec => []ShownIsThisRun
<1>1. ASSUME IndInv PROVE ShownIsThisRun
  <2>1. ASSUME proc = "up", ProjectIdentityBar(mem.network, mem.aether) = "ready"
        PROVE  /\ aether.client # 0 /\ mem.aether.uid = aether.client
               /\ mem.aether.run_id = mem.runtime.run_id
    <3>1. mem.aether.phase = "registered"
      BY <2>1 DEF ProjectIdentityBar, IsRegisteredForCurrentRun
    <3> QED BY <1>1, <2>1, <3>1 DEF IndInv, RegisteredOK, RunOK
  <2>2. ASSUME proc # "down", mem.app # 0,
               mem.client[mem.app].presence \in {"online", "offline"}
        PROVE  /\ mem.network.availability = "available"
               /\ IsRegisteredForCurrentRun(mem.aether)
               /\ aether.last_reported # "none"
    BY <1>1, <2>2 DEF IndInv, PresenceOK, RegisteredOK
  <2> QED BY <2>1, <2>2 DEF ShownIsThisRun
<1> QED BY <1>1, Invariance, PTL

-----------------------------------------------------------------------------
(* The join protocol.  Its first property needs that an accepted join still  *)
(* names an offer that was sent and that entries are changed on disk and in  *)
(* memory together; the second that every offer of a host whose directory    *)
(* was not replaced names the room the host has on disk.                     *)

MaybeNat == Nat \cup {None}

JoinState ==
  [phase : {"Idle", "Joining", "Accepted", "Joined", "Failed"},
   attempt : MaybeNat, host : Hosts \cup {None},
   accepted : MaybeNat, bound : MaybeNat]

HostRoom == [room : MaybeNat, sync : {"NotStarted", "Pending", "Complete"}]

SentFrame ==
  [kind : {"JoinRequest", "JoinAccepted", "JoinRejected", "NodeState", "Ack"},
   host : Hosts, attempt : MaybeNat, room : MaybeNat]

JoinTypeOK ==
  /\ join \in JoinState
  /\ sched \in [attempt : MaybeNat, room : MaybeNat] \cup {None}
  /\ entry \in [Hosts -> MaybeNat]
  /\ hostRoom \in [Hosts -> HostRoom]
  /\ net \subseteq SentFrame
  /\ tally \in [attempts : Nat, rooms : Nat, restarts : Nat, retries : Nat,
                replaced : SUBSET Hosts]

\* What is in memory is on disk.
WorkspaceSaved == saved = [entry |-> entry, host |-> hostRoom]

\* A join that was requested has a host and an attempt; one that was accepted
\* has the room that an acceptance for it offered.
JoinOK ==
  /\ join.phase \in {"Joining", "Accepted", "Joined"} =>
       join.host \in Hosts /\ join.attempt \in Nat
  /\ join.phase \in {"Accepted", "Joined"} =>
       /\ join.accepted \in Nat
       /\ Frame("JoinAccepted", join.host, join.attempt, join.accepted) \in net
  /\ join.phase = "Joined" =>
       join.bound = join.accepted /\ entry[join.host] = join.bound

\* The room of a host that still has its directory is the one it offered.
OffersOK ==
  \A m \in net : m.kind = "JoinAccepted" =>
    /\ m.room \in Nat
    /\ m.host \notin tally.replaced => hostRoom[m.host].room = m.room

JoinIndInv == JoinTypeOK /\ WorkspaceSaved /\ JoinOK /\ OffersOK

-----------------------------------------------------------------------------

\* A new process: nobody has joined anything.
LEMMA JoinInitIndInv == JoinInit => JoinIndInv
<1> SUFFICES ASSUME JoinInit PROVE JoinIndInv
  OBVIOUS
<1>1. JoinTypeOK
  BY DEF JoinInit, JoinTypeOK, JoinState, Idle, MaybeNat, HostRoom, NoRoom
<1>2. WorkspaceSaved
  BY DEF JoinInit, WorkspaceSaved
<1>3. JoinOK /\ OffersOK
  BY DEF JoinInit, Idle, JoinOK, OffersOK
<1> QED BY <1>1, <1>2, <1>3 DEF JoinIndInv

\* What the events do to the join.
LEMMA CommitFailed ==
  ASSUME NEW j \in JoinState, NEW a \in MaybeNat
  PROVE  LET k == Commit(j, JoinHostFailedEvent(a))
         IN k \in JoinState /\ (k = j \/ k.phase = "Failed")
<1> DEFINE e == JoinHostFailedEvent(a)
<1>1. e.type = "Failed" /\ e.attempt = a
  BY DEF JoinHostFailedEvent
<1> HIDE DEF e
<1>2. CASE ~CanApply(j, e)
  BY <1>2 DEF Commit, e
<1>3. CASE CanApply(j, e)
  <2>1. Commit(j, e) = JoinHostFailed(j, e)
    BY <1>1, <1>3 DEF Commit
  <2>2. /\ JoinHostFailed(j, e) \in JoinState
        /\ JoinHostFailed(j, e).phase = "Failed"
    BY <1>1 DEF JoinHostFailed, JoinState
  <2> QED BY <2>1, <2>2 DEF e
<1> QED BY <1>2, <1>3

\* A request starts the attempt with nothing accepted or bound.
LEMMA CommitRequested ==
  ASSUME NEW j \in JoinState, NEW a \in Nat, NEW h \in Hosts
  PROVE  LET k == Commit(j, JoinHostRequestedEvent(a, h))
         IN /\ k \in JoinState
            /\ k.phase = "Joining" /\ k.host = h /\ k.attempt = a
BY DEF Commit, CanApply, JoinHostRequestedEvent, JoinHostRequested,
       JoinState, MaybeNat

\* An acceptance of the attempt records the room it offers.
LEMMA CommitAccepted ==
  ASSUME NEW j \in JoinState, NEW a \in Nat, NEW h \in Hosts, NEW room \in Nat,
         CanApply(j, JoinHostAcceptedEvent(a, h, room))
  PROVE  LET k == Commit(j, JoinHostAcceptedEvent(a, h, room))
         IN /\ k \in JoinState
            /\ k.phase = "Accepted" /\ k.host = h /\ k.attempt = a
            /\ k.accepted = room
BY DEF Commit, CanApply, CanAccept, JoinHostAcceptedEvent, JoinHostAccepted,
       JoinState, MaybeNat

\* A completion binds the accepted room, or is dropped.
LEMMA CommitCompleted ==
  ASSUME NEW j \in JoinState, NEW a \in Nat, NEW room \in Nat
  PROVE  LET k == Commit(j, JoinHostCompletedEvent(a, room))
         IN /\ k \in JoinState
            /\ \/ k = j
               \/ /\ j.phase \in {"Accepted", "Joined"}
                  /\ j.attempt = a /\ j.accepted = room
                  /\ k.phase = "Joined" /\ k.host = j.host /\ k.attempt = a
                  /\ k.accepted = room /\ k.bound = room
<1> DEFINE e == JoinHostCompletedEvent(a, room)
<1>1. e.type = "Completed" /\ e.attempt = a /\ e.room = room
  BY DEF JoinHostCompletedEvent
<1> HIDE DEF e
<1>2. CASE ~CanApply(j, e)
  BY <1>2 DEF Commit, e
<1>3. CASE CanApply(j, e)
  <2>1. Commit(j, e) = JoinHostCompleted(j, e) /\ CanComplete(j, e)
    BY <1>1, <1>3 DEF Commit, CanApply
  <2>2. LET k == JoinHostCompleted(j, e)
        IN /\ k \in JoinState /\ k.phase = "Joined" /\ k.host = j.host
           /\ k.attempt = j.attempt /\ k.accepted = room /\ k.bound = room
    BY <1>1 DEF JoinHostCompleted, JoinState, MaybeNat
  <2> QED BY <1>1, <2>1, <2>2 DEF CanComplete, e
<1> QED BY <1>2, <1>3

\* A frame of the kinds the network may hold, and one that arrives.
LEMMA SentFrames ==
  /\ \A kind \in {"JoinRequest", "JoinAccepted", "JoinRejected", "NodeState",
                  "Ack"}, h \in Hosts, a \in MaybeNat, room \in MaybeNat :
       /\ Frame(kind, h, a, room) \in SentFrame
       /\ Frame(kind, h, a, room).kind = kind
       /\ Frame(kind, h, a, room).host = h
       /\ Frame(kind, h, a, room).room = room
  /\ \A m \in Frames :
       /\ m.host \in Hosts
       /\ m.kind \in {"JoinRequest", "JoinAccepted", "JoinRejected"} =>
            m.attempt \in Nat
       /\ m.kind \in {"JoinAccepted", "NodeState", "Ack"} => m.room \in Nat
       /\ m.kind = "JoinAccepted" =>
            m = Frame("JoinAccepted", m.host, m.attempt, m.room)
<1>1. Attempt \subseteq Nat /\ Room \subseteq Nat
  BY DEF Attempt, Room
<1>2. \A kind \in {"JoinRequest", "JoinAccepted", "JoinRejected", "NodeState",
                   "Ack"}, h \in Hosts, a \in MaybeNat, room \in MaybeNat :
        /\ Frame(kind, h, a, room) \in SentFrame
        /\ Frame(kind, h, a, room).kind = kind
        /\ Frame(kind, h, a, room).host = h
        /\ Frame(kind, h, a, room).room = room
  BY DEF Frame, SentFrame
<1>3. ASSUME NEW m \in Frames
      PROVE  /\ m.host \in Hosts
             /\ m.kind \in {"JoinRequest", "JoinAccepted", "JoinRejected"} =>
                  m.attempt \in Nat
             /\ m.kind \in {"JoinAccepted", "NodeState", "Ack"} => m.room \in Nat
             /\ m.kind = "JoinAccepted" =>
                  m = Frame("JoinAccepted", m.host, m.attempt, m.room)
  BY <1>1 DEF Frames, Frame
<1> QED BY <1>2, <1>3

\* Steps of the client that leave the hosts and the disk alone: it is enough
\* to look at the join, and new frames are no offers.
LEMMA ClientStep ==
  ASSUME JoinIndInv, join' \in JoinState,
         sched' \in [attempt : MaybeNat, room : MaybeNat] \cup {None},
         UNCHANGED <<entry, hostRoom, saved>>,
         net \subseteq net', net' \subseteq SentFrame,
         \A m \in net' : m.kind = "JoinAccepted" => m \in net,
         tally' \in [attempts : Nat, rooms : Nat, restarts : Nat, retries : Nat,
                     replaced : SUBSET Hosts],
         tally'.replaced = tally.replaced,
         join' = join \/ JoinOK'
  PROVE  JoinIndInv'
<1>1. JoinTypeOK' /\ WorkspaceSaved'
  BY DEF JoinIndInv, JoinTypeOK, WorkspaceSaved
<1>2. JoinOK'
  BY DEF JoinIndInv, JoinOK
<1>3. OffersOK'
  BY DEF JoinIndInv, OffersOK
<1> QED BY <1>1, <1>2, <1>3 DEF JoinIndInv

\* The request is armed with the room of the entry.
LEMMA ArmedType ==
  ASSUME JoinIndInv, NEW j \in JoinState, j.host \in Hosts
  PROVE  Armed(j) \in [attempt : MaybeNat, room : MaybeNat]
BY DEF JoinIndInv, JoinTypeOK, Armed, JoinState

\* BeginJoin starts a new attempt, keeps the pending one or fails it.
LEMMA UserJoinsStep ==
  ASSUME JoinIndInv, NEW input \in Hosts \cup {Invalid}, UserJoins(input)
  PROVE  JoinIndInv'
<1>1. UNCHANGED <<entry, hostRoom, saved, net>>
  BY DEF UserJoins
<1>2. /\ join \in JoinState /\ net \subseteq SentFrame
      /\ sched \in [attempt : MaybeNat, room : MaybeNat] \cup {None}
      /\ tally \in [attempts : Nat, rooms : Nat, restarts : Nat, retries : Nat,
                    replaced : SUBSET Hosts]
  BY DEF JoinIndInv, JoinTypeOK
<1>3. CASE /\ join' = Commit(join, JoinHostFailedEvent(join.attempt))
           /\ sched' = None /\ UNCHANGED tally
  <2>1. join.attempt \in MaybeNat
    BY <1>2 DEF JoinState
  <2>2. join' \in JoinState /\ (join' = join \/ join'.phase = "Failed")
    BY <1>2, <1>3, <2>1, CommitFailed
  <2>3. join' = join \/ JoinOK'
    BY <2>2 DEF JoinOK
  <2> QED BY <1>1, <1>2, <1>3, <2>2, <2>3, ClientStep
<1>4. CASE /\ join.phase \in Pending /\ ArmJoinScheduler(join)
           /\ UNCHANGED <<join, tally>>
  <2>1. join.host \in Hosts
    BY <1>4 DEF JoinIndInv, JoinOK, Pending
  <2>2. sched' \in [attempt : MaybeNat, room : MaybeNat] \cup {None}
    BY <1>2, <1>4, <2>1, ArmedType DEF ArmJoinScheduler
  <2> QED BY <1>1, <1>2, <1>4, <2>2, ClientStep
<1>5. CASE /\ input \in Hosts
           /\ tally' = [tally EXCEPT !.attempts = @ + 1]
           /\ join' = Commit(join, JoinHostRequestedEvent(tally'.attempts, input))
           /\ sched' = Armed(join')
  <2>1. /\ tally' \in [attempts : Nat, rooms : Nat, restarts : Nat,
                       retries : Nat, replaced : SUBSET Hosts]
        /\ tally'.attempts \in Nat /\ tally'.replaced = tally.replaced
    BY <1>2, <1>5
  <2>2. /\ join' \in JoinState /\ join'.phase = "Joining"
        /\ join'.host = input /\ join'.attempt \in Nat
    <3>1. PICK a \in Nat : a = tally'.attempts
      BY <2>1
    <3>2. join' = Commit(join, JoinHostRequestedEvent(a, input))
      BY <1>5, <3>1
    <3> QED BY <1>2, <1>5, <3>2, CommitRequested, SMTT(30)
  <2>3. Armed(join') \in [attempt : MaybeNat, room : MaybeNat]
    BY <1>5, <2>2, ArmedType
  <2>4. JoinOK'
    BY <1>5, <2>2 DEF JoinOK
  <2> QED BY <1>1, <1>2, <1>5, <2>1, <2>2, <2>3, <2>4, ClientStep
<1> QED BY <1>3, <1>4, <1>5 DEF UserJoins, BeginJoin, ClearJoinScheduler

\* The scheduler repeats the request or fails the join.
LEMMA SchedulerStep ==
  ASSUME JoinIndInv, DriveJoinSend \/ DriveJoinDeadline \/ Deadline
  PROVE  JoinIndInv'
<1>1. UNCHANGED <<entry, hostRoom, saved, tally>>
  BY DEF DriveJoinSend, DriveJoinDeadline, Deadline, clientVars
<1>2. /\ join \in JoinState /\ net \subseteq SentFrame
      /\ sched \in [attempt : MaybeNat, room : MaybeNat] \cup {None}
      /\ tally \in [attempts : Nat, rooms : Nat, restarts : Nat, retries : Nat,
                    replaced : SUBSET Hosts]
  BY DEF JoinIndInv, JoinTypeOK
<1>3. CASE DriveJoinDeadline
  <2>1. join.attempt \in MaybeNat
    BY <1>2 DEF JoinState
  <2>2. /\ join' = Commit(join, JoinHostFailedEvent(join.attempt))
        /\ sched' = None /\ net' = net
    BY <1>3 DEF DriveJoinDeadline, ClearJoinScheduler
  <2>3. join' \in JoinState /\ (join' = join \/ join'.phase = "Failed")
    BY <1>2, <2>1, <2>2, CommitFailed
  <2>4. join' = join \/ JoinOK'
    BY <2>3 DEF JoinOK
  <2> QED BY <1>1, <1>2, <2>2, <2>3, <2>4, ClientStep
<1>4. CASE DriveJoinSend
  <2>1. join.host \in Hosts /\ sched.attempt \in MaybeNat /\ sched.room \in MaybeNat
    BY <1>2, <1>4 DEF DriveJoinSend, Driving, JoinIndInv, JoinOK, Pending
  <2>2. /\ join' = join /\ sched' = sched
        /\ net' = net \cup
             {Frame("JoinRequest", join.host, sched.attempt, sched.room)}
    BY <1>4 DEF DriveJoinSend, clientVars
  <2>3. /\ net' \subseteq SentFrame
        /\ \A m \in net' : m.kind = "JoinAccepted" => m \in net
    BY <1>2, <2>1, <2>2, SentFrames
  <2> QED BY <1>1, <1>2, <2>2, <2>3, ClientStep
<1>5. CASE Deadline
  BY <1>1, <1>2, <1>5, ClientStep DEF Deadline
<1> QED BY <1>3, <1>4, <1>5

\* A rejection fails the attempt it answers.
LEMMA OnJoinRejectedStep ==
  ASSUME JoinIndInv, NEW m \in Frames, OnJoinRejected(m)
  PROVE  JoinIndInv'
<1>1. /\ join \in JoinState /\ net \subseteq SentFrame
      /\ tally \in [attempts : Nat, rooms : Nat, restarts : Nat, retries : Nat,
                    replaced : SUBSET Hosts]
  BY DEF JoinIndInv, JoinTypeOK
<1>2. /\ join' = Commit(join, JoinHostFailedEvent(m.attempt))
      /\ sched' = None /\ UNCHANGED <<entry, hostRoom, saved, net, tally>>
      /\ m.kind = "JoinRejected"
  BY DEF OnJoinRejected, ClearJoinScheduler
<1>3. m.attempt \in MaybeNat
  BY <1>2, SentFrames DEF MaybeNat
<1>4. join' \in JoinState /\ (join' = join \/ join'.phase = "Failed")
  BY <1>1, <1>2, <1>3, CommitFailed
<1>5. join' = join \/ JoinOK'
  BY <1>4 DEF JoinOK
<1> QED BY <1>1, <1>2, <1>4, <1>5, ClientStep

\* An acceptance is taken for the attempt it answers only; it completes the
\* join at once when the entry has the room.
LEMMA OnJoinAcceptedStep ==
  ASSUME JoinIndInv, NEW m \in Frames, m \in net, OnJoinAccepted(m)
  PROVE  JoinIndInv'
<1>1. /\ join \in JoinState /\ net \subseteq SentFrame
      /\ sched \in [attempt : MaybeNat, room : MaybeNat] \cup {None}
      /\ tally \in [attempts : Nat, rooms : Nat, restarts : Nat, retries : Nat,
                    replaced : SUBSET Hosts]
  BY DEF JoinIndInv, JoinTypeOK
<1>2. /\ UNCHANGED <<entry, hostRoom, saved, net, tally>>
      /\ m.kind = "JoinAccepted"
      /\ m.host = join.host /\ m.attempt = join.attempt
  BY DEF OnJoinAccepted, Answers
<1>3. /\ m.host \in Hosts /\ m.attempt \in Nat /\ m.room \in Nat
      /\ Frame("JoinAccepted", m.host, m.attempt, m.room) \in net
  BY <1>2, SentFrames
<1> DEFINE accepted == JoinHostAcceptedEvent(m.attempt, m.host, m.room)
           j == Commit(join, accepted)
<1>4. CASE Accepting(m)
  <2>1. /\ j \in JoinState /\ j.phase = "Accepted" /\ j.host = m.host
        /\ j.attempt = m.attempt /\ j.accepted = m.room
    BY <1>1, <1>3, <1>4, CommitAccepted DEF Accepting
  <2> HIDE DEF j
  <2>2. CASE join' = j /\ UNCHANGED sched
    <3>1. JoinOK'
      BY <1>2, <1>3, <2>1, <2>2 DEF JoinOK
    <3> QED BY <1>1, <1>2, <2>1, <2>2, <3>1, ClientStep
  <2>3. CASE /\ entry[m.host] = m.room /\ sched' = None
             /\ join' = Commit(j, JoinHostCompletedEvent(m.attempt, m.room))
    <3>1. /\ join' \in JoinState
          /\ \/ join' = j
             \/ /\ join'.phase = "Joined" /\ join'.host = m.host
                /\ join'.attempt = m.attempt /\ join'.accepted = m.room
                /\ join'.bound = m.room
      BY <1>3, <2>1, <2>3, CommitCompleted
    <3>2. JoinOK'
      BY <1>2, <1>3, <2>1, <2>3, <3>1 DEF JoinOK
    <3> QED BY <1>1, <1>2, <2>3, <3>1, <3>2, ClientStep
  <2> QED BY <1>4, <2>2, <2>3 DEF Accepting, ClearJoinScheduler, j
<1>5. CASE AcceptingAgain(m)
  <2>1. CASE UNCHANGED <<join, sched>>
    BY <1>1, <1>2, <2>1, ClientStep
  <2>2. CASE /\ join' = Commit(join, JoinHostFailedEvent(m.attempt))
             /\ sched' = None
    <3>1. join' \in JoinState /\ (join' = join \/ join'.phase = "Failed")
      BY <1>1, <1>3, <2>2, CommitFailed DEF MaybeNat
    <3>2. join' = join \/ JoinOK'
      BY <3>1 DEF JoinOK
    <3> QED BY <1>1, <1>2, <2>2, <3>1, <3>2, ClientStep
  <2> QED BY <1>5, <2>1, <2>2 DEF AcceptingAgain, ClearJoinScheduler
<1> QED BY <1>4, <1>5 DEF OnJoinAccepted

\* A snapshot is bound, and the binding saved, before the join completes.
LEMMA OnNodeStateStep ==
  ASSUME JoinIndInv, NEW m \in Frames, OnNodeState(m)
  PROVE  JoinIndInv'
<1>1. /\ join \in JoinState /\ net \subseteq SentFrame
      /\ sched \in [attempt : MaybeNat, room : MaybeNat] \cup {None}
      /\ tally \in [attempts : Nat, rooms : Nat, restarts : Nat, retries : Nat,
                    replaced : SUBSET Hosts]
      /\ entry \in [Hosts -> MaybeNat]
  BY DEF JoinIndInv, JoinTypeOK
<1>2. UNCHANGED <<hostRoom, tally>> /\ m.kind = "NodeState"
  BY DEF OnNodeState
<1>3. m.host \in Hosts /\ m.room \in Nat
  BY <1>2, SentFrames
<1>4. /\ net \subseteq net' /\ net' \subseteq SentFrame
      /\ \A f \in net' : f.kind = "JoinAccepted" => f \in net
  <2>1. net' = net \/ net' = net \cup {Frame("Ack", m.host, None, m.room)}
    BY DEF OnNodeState
  <2>2. None \in MaybeNat /\ m.room \in MaybeNat
    BY <1>3 DEF MaybeNat
  <2>3. LET f == Frame("Ack", m.host, None, m.room)
        IN f \in SentFrame /\ f.kind = "Ack"
    BY <1>3, <2>2, SentFrames
  <2> QED BY <1>1, <2>1, <2>3
<1>5. CASE UNCHANGED <<join, sched, entry, saved>>
  BY <1>1, <1>2, <1>4, <1>5, ClientStep
<1>6. CASE /\ Binds(m) /\ BindChat(m.host, m.room) /\ sched' = None
           /\ join' = Commit(join, JoinHostCompletedEvent(join.attempt, m.room))
  <2>1. /\ join.phase = "Accepted" /\ join.host = m.host
        /\ join.accepted = m.room /\ join.attempt \in Nat
        /\ Frame("JoinAccepted", m.host, join.attempt, m.room) \in net
    BY <1>6 DEF Binds, JoinIndInv, JoinOK
  <2>2. /\ entry' = [entry EXCEPT ![m.host] = m.room]
        /\ saved' = [saved EXCEPT !.entry = entry']
    BY <1>6 DEF BindChat, ChatBindingChangedEvent
  <2>3. entry' \in [Hosts -> MaybeNat] /\ entry'[m.host] = m.room
    BY <1>1, <1>3, <2>2 DEF MaybeNat
  <2>4. /\ join' \in JoinState
        /\ \/ join' = join
           \/ /\ join'.phase = "Joined" /\ join'.host = m.host
              /\ join'.attempt = join.attempt /\ join'.accepted = m.room
              /\ join'.bound = m.room
    <3>1. PICK j \in JoinState : j = join
      BY <1>1
    <3>2. PICK a \in Nat : a = join.attempt
      BY <2>1
    <3>3. join' = Commit(j, JoinHostCompletedEvent(a, m.room))
      BY <1>6, <3>1, <3>2
    <3> QED BY <1>3, <2>1, <3>1, <3>2, <3>3, CommitCompleted
  <2>5. JoinOK'
    BY <1>3, <1>4, <2>1, <2>3, <2>4 DEF JoinOK
  <2>6. WorkspaceSaved'
    BY <1>2, <2>2 DEF JoinIndInv, WorkspaceSaved
  <2>7. JoinTypeOK'
    BY <1>2, <1>4, <1>6, <2>3, <2>4 DEF JoinIndInv, JoinTypeOK
  <2>8. OffersOK'
    BY <1>2, <1>4 DEF JoinIndInv, OffersOK
  <2> QED BY <2>5, <2>6, <2>7, <2>8 DEF JoinIndInv
<1> QED BY <1>5, <1>6 DEF OnNodeState, ClearJoinScheduler

\* A host changes its room to r and saves it, and offers only that room.
HostMoves(h, r) ==
  /\ UNCHANGED <<join, sched, entry>>
  /\ hostRoom' = [hostRoom EXCEPT ![h] = r]
  /\ saved' = [saved EXCEPT !.host[h] = r]
  /\ net \subseteq net' /\ net' \subseteq SentFrame
  /\ \A m \in net' : m.kind = "JoinAccepted" /\ m \notin net =>
       m.host = h /\ m.room = r.room /\ m.room \in Nat
  /\ tally' \in [attempts : Nat, rooms : Nat, restarts : Nat, retries : Nat,
                  replaced : SUBSET Hosts]
  /\ tally.replaced \subseteq tally'.replaced
  /\ \/ hostRoom[h].room \in {None, r.room}
     \/ h \in tally'.replaced

\* Steps of a host that leave the client alone.  Its room changes together
\* with the disk, and is never another one than it has offered.
LEMMA HostStep ==
  ASSUME JoinIndInv, NEW h \in Hosts, NEW r \in HostRoom, HostMoves(h, r)
  PROVE  JoinIndInv'
<1> USE DEF HostMoves
<1>1. /\ hostRoom \in [Hosts -> HostRoom] /\ net \subseteq SentFrame
      /\ saved = [entry |-> entry, host |-> hostRoom]
  BY DEF JoinIndInv, JoinTypeOK, WorkspaceSaved
<1>2. JoinTypeOK'
  BY <1>1 DEF JoinIndInv, JoinTypeOK
<1>3. WorkspaceSaved'
  BY <1>1 DEF WorkspaceSaved
<1>4. JoinOK'
  BY DEF JoinIndInv, JoinOK
<1>5. OffersOK'
  <2> SUFFICES ASSUME NEW m \in net', m.kind = "JoinAccepted"
               PROVE  /\ m.room \in Nat
                      /\ m.host \notin tally'.replaced =>
                           hostRoom'[m.host].room = m.room
    BY DEF OffersOK
  <2>1. m.host \in Hosts
    BY DEF SentFrame
  <2>2. CASE m \in net
    <3>1. /\ m.room \in Nat
          /\ m.host \notin tally'.replaced => hostRoom[m.host].room = m.room
      BY <2>2 DEF JoinIndInv, OffersOK
    <3>2. CASE m.host = h
      BY <1>1, <3>1, <3>2, NoneAssumption
    <3>3. CASE m.host # h
      BY <1>1, <2>1, <3>1, <3>3
    <3> QED BY <3>2, <3>3
  <2>3. CASE m \notin net
    BY <1>1, <2>3
  <2> QED BY <2>2, <2>3
<1> QED BY <1>2, <1>3, <1>4, <1>5 DEF JoinIndInv

\* The snapshot of a room, and the room after it was sent.
LEMMA SyncRoom ==
  ASSUME JoinIndInv, NEW h \in Hosts, NEW room \in Nat
  PROVE  LET r == SyncInitialState(h, room)
         IN /\ r \in HostRoom /\ r.room = room
            /\ Snapshot(h, r) \subseteq SentFrame
            /\ \A f \in Snapshot(h, r) : f.kind = "NodeState"
<1> DEFINE r == SyncInitialState(h, room)
<1>1. r \in HostRoom /\ r.room = room
  BY DEF SyncInitialState, HostRoom, MaybeNat
<1> HIDE DEF r
<1>2. None \in MaybeNat /\ room \in MaybeNat
  BY DEF MaybeNat
<1>3. LET f == Frame("NodeState", h, None, room)
      IN f \in SentFrame /\ f.kind = "NodeState"
  BY <1>2, SentFrames
<1>4. \A f \in Snapshot(h, r) : f = Frame("NodeState", h, None, room)
  BY <1>1 DEF Snapshot
<1> QED BY <1>1, <1>3, <1>4 DEF r

\* A request gets the room the host has, a new room, or a rejection.
LEMMA OnJoinRequestStep ==
  ASSUME JoinIndInv, NEW m \in Frames, OnJoinRequest(m)
  PROVE  JoinIndInv'
<1> DEFINE h == m.host
<1>1. /\ join \in JoinState /\ net \subseteq SentFrame
      /\ sched \in [attempt : MaybeNat, room : MaybeNat] \cup {None}
      /\ tally \in [attempts : Nat, rooms : Nat, restarts : Nat, retries : Nat,
                    replaced : SUBSET Hosts]
      /\ hostRoom \in [Hosts -> HostRoom]
  BY DEF JoinIndInv, JoinTypeOK
<1>2. /\ UNCHANGED <<join, sched, entry>>
      /\ m.kind = "JoinRequest" /\ HostAcceptClient(h, m)
  BY DEF OnJoinRequest, clientVars
<1>3. h \in Hosts /\ m.attempt \in MaybeNat /\ None \in MaybeNat
  BY <1>2, SentFrames DEF MaybeNat
<1>4. CASE /\ net' = net \cup {Frame("JoinRejected", h, m.attempt, None)}
           /\ UNCHANGED <<hostRoom, saved, tally>>
  <2>1. LET f == Frame("JoinRejected", h, m.attempt, None)
        IN f \in SentFrame /\ f.kind = "JoinRejected"
    BY <1>3, SentFrames
  <2>2. net' \subseteq SentFrame /\ \A f \in net' : f.kind = "JoinAccepted" => f \in net
    BY <1>1, <1>4, <2>1
  <2> QED BY <1>1, <1>2, <1>4, <2>2, ClientStep
<1>5. ASSUME NEW room \in Nat,
             hostRoom[h].room \in {None, room},
             hostRoom' = [hostRoom EXCEPT ![h] = SyncInitialState(h, room)],
             saved' = [saved EXCEPT !.host[h] = hostRoom'[h]],
             net' = net \cup {Frame("JoinAccepted", h, m.attempt, room)}
                        \cup Snapshot(h, hostRoom'[h]),
             \/ UNCHANGED tally
             \/ tally' = [tally EXCEPT !.rooms = @ + 1]
      PROVE  JoinIndInv'
  <2>1. PICK r : r = SyncInitialState(h, room)
    OBVIOUS
  <2>2. /\ r \in HostRoom /\ r.room = room
        /\ Snapshot(h, r) \subseteq SentFrame
        /\ \A f \in Snapshot(h, r) : f.kind = "NodeState"
    BY <1>3, <2>1, SyncRoom
  <2>3. hostRoom'[h] = r
    BY <1>1, <1>3, <1>5, <2>1
  <2>4. LET f == Frame("JoinAccepted", h, m.attempt, room)
        IN f \in SentFrame /\ f.host = h /\ f.room = room
    <3>1. room \in MaybeNat
      BY DEF MaybeNat
    <3> QED BY <1>3, <3>1, SentFrames DEF Frame
  <2>5. /\ net' \subseteq SentFrame /\ net \subseteq net'
        /\ \A f \in net' : f.kind = "JoinAccepted" /\ f \notin net =>
             f.host = h /\ f.room = room
    BY <1>1, <1>5, <2>2, <2>3, <2>4
  <2>6. /\ tally' \in [attempts : Nat, rooms : Nat, restarts : Nat,
                       retries : Nat, replaced : SUBSET Hosts]
        /\ tally'.replaced = tally.replaced
    BY <1>1, <1>5
  <2>g. PICK g \in Hosts : g = h
    BY <1>3
  <2>7. /\ hostRoom' = [hostRoom EXCEPT ![g] = r]
        /\ saved' = [saved EXCEPT !.host[g] = r]
    BY <1>5, <2>1, <2>3, <2>g
  <2>8. \A f \in net' : f.kind = "JoinAccepted" /\ f \notin net =>
          f.host = g /\ f.room = r.room /\ f.room \in Nat
    BY <2>2, <2>5, <2>g
  <2>9. hostRoom[g].room \in {None, r.room}
    BY <1>5, <2>2, <2>g
  <2>10. r \in HostRoom /\ tally.replaced \subseteq tally'.replaced
    BY <2>2, <2>6
  <2>11. UNCHANGED <<join, sched, entry>> /\ net \subseteq net' /\ net' \subseteq SentFrame
    BY <1>2, <2>5
  <2>12. HostMoves(g, r)
    BY <2>6, <2>7, <2>8, <2>9, <2>10, <2>11 DEF HostMoves
  <2> QED BY <2>10, <2>12, HostStep
<1>6. hostRoom[h].room # None => hostRoom[h].room \in Nat
  BY <1>1, <1>3 DEF HostRoom, MaybeNat
<1>7. CASE /\ hostRoom[h].room # None
           /\ hostRoom' = [hostRoom EXCEPT ![h] = SyncInitialState(h, @.room)]
           /\ saved' = [saved EXCEPT !.host[h] = hostRoom'[h]]
           /\ net' = net
                \cup {Frame("JoinAccepted", h, m.attempt, hostRoom[h].room)}
                \cup Snapshot(h, hostRoom'[h])
           /\ UNCHANGED tally
  <2>1. PICK room \in Nat : room = hostRoom[h].room
    BY <1>6, <1>7
  <2> QED BY <1>5, <1>7, <2>1
<1>8. CASE /\ hostRoom[h].room = None
           /\ tally' = [tally EXCEPT !.rooms = @ + 1]
           /\ hostRoom' =
                [hostRoom EXCEPT ![h] = SyncInitialState(h, tally'.rooms)]
           /\ saved' = [saved EXCEPT !.host[h] = hostRoom'[h]]
           /\ net' = net \cup {Frame("JoinAccepted", h, m.attempt, tally'.rooms)}
                         \cup Snapshot(h, hostRoom'[h])
  <2>1. PICK room \in Nat : room = tally'.rooms
    BY <1>1, <1>8
  <2> QED BY <1>5, <1>8, <2>1
<1> QED BY <1>2, <1>4, <1>7, <1>8 DEF HostAcceptClient

\* The other steps of a host: its room stays, or its directory is replaced.
LEMMA HostProcessStep ==
  ASSUME JoinIndInv, NEW h \in Hosts,
         \/ DriveRoomSync(h) \/ OnReadyHost(h)
         \/ RestartHost(h) \/ ReplaceHost(h)
  PROVE  JoinIndInv'
<1>1. /\ hostRoom \in [Hosts -> HostRoom] /\ net \subseteq SentFrame
      /\ tally \in [attempts : Nat, rooms : Nat, restarts : Nat, retries : Nat,
                    replaced : SUBSET Hosts]
      /\ saved = [entry |-> entry, host |-> hostRoom]
      /\ join \in JoinState
      /\ sched \in [attempt : MaybeNat, room : MaybeNat] \cup {None}
  BY DEF JoinIndInv, JoinTypeOK, WorkspaceSaved
<1>2. UNCHANGED <<join, sched, entry>>
  BY DEF DriveRoomSync, OnReadyHost, RestartHost, ReplaceHost, clientVars
<1>3. CASE DriveRoomSync(h)
  <2>1. PICK room \in Nat : room = hostRoom[h].room
    BY <1>1, <1>3 DEF DriveRoomSync, HostRoom, MaybeNat
  <2>2. PICK r : r = SyncInitialState(h, room)
    OBVIOUS
  <2>3. /\ r \in HostRoom /\ r.room = room
        /\ Snapshot(h, r) \subseteq SentFrame
        /\ \A f \in Snapshot(h, r) : f.kind = "NodeState"
    BY <2>2, SyncRoom
  <2>4. /\ hostRoom' = [hostRoom EXCEPT ![h] = r] /\ UNCHANGED tally
        /\ saved' = [saved EXCEPT !.host[h] = hostRoom'[h]]
        /\ net' = net \cup Snapshot(h, hostRoom'[h])
    BY <1>3, <2>1, <2>2 DEF DriveRoomSync
  <2>5. hostRoom'[h] = r
    BY <1>1, <2>4
  <2>6. /\ net \subseteq net' /\ net' \subseteq SentFrame
        /\ \A f \in net' : f.kind = "JoinAccepted" => f \in net
    BY <1>1, <2>3, <2>4, <2>5
  <2>7. HostMoves(h, r)
    BY <1>1, <1>2, <2>1, <2>3, <2>4, <2>5, <2>6 DEF HostMoves
  <2> QED BY <2>3, <2>7, HostStep
<1>4. CASE OnReadyHost(h)
  BY <1>1, <1>2, <1>4, ClientStep DEF OnReadyHost
<1>5. CASE RestartHost(h)
  <2>1. /\ hostRoom' = hostRoom /\ saved' = saved /\ net' = net
        /\ tally' = [tally EXCEPT !.restarts = @ + 1]
    BY <1>1, <1>5 DEF RestartHost
  <2>2. /\ tally' \in [attempts : Nat, rooms : Nat, restarts : Nat,
                       retries : Nat, replaced : SUBSET Hosts]
        /\ tally'.replaced = tally.replaced
    BY <1>1, <2>1
  <2> QED BY <1>1, <1>2, <2>1, <2>2, ClientStep
<1>6. CASE ReplaceHost(h)
  <2>1. NoRoom \in HostRoom
    BY DEF NoRoom, HostRoom, MaybeNat
  <2>2. /\ hostRoom' = [hostRoom EXCEPT ![h] = NoRoom] /\ net' = net
        /\ saved' = [saved EXCEPT !.host[h] = NoRoom]
        /\ tally' = [tally EXCEPT !.replaced = @ \cup {h}]
    BY <1>6 DEF ReplaceHost
  <2>3. /\ tally' \in [attempts : Nat, rooms : Nat, restarts : Nat,
                       retries : Nat, replaced : SUBSET Hosts]
        /\ tally.replaced \subseteq tally'.replaced /\ h \in tally'.replaced
    BY <1>1, <2>2
  <2>4. HostMoves(h, NoRoom)
    BY <1>1, <1>2, <2>1, <2>2, <2>3 DEF HostMoves
  <2> QED BY <2>1, <2>4, HostStep
<1> QED BY <1>3, <1>4, <1>5, <1>6

\* An acknowledgement completes the host's sync of the room it has.
LEMMA OnAckStep ==
  ASSUME JoinIndInv, NEW m \in Frames, OnAck(m)
  PROVE  JoinIndInv'
<1>1. /\ hostRoom \in [Hosts -> HostRoom] /\ net \subseteq SentFrame
      /\ tally \in [attempts : Nat, rooms : Nat, restarts : Nat, retries : Nat,
                    replaced : SUBSET Hosts]
  BY DEF JoinIndInv, JoinTypeOK
<1>2. m.host \in Hosts
  BY SentFrames
<1>3. PICK r : r = [room |-> m.room, sync |-> "Complete"]
  OBVIOUS
<1>4. /\ hostRoom[m.host] = [room |-> m.room, sync |-> "Pending"]
      /\ hostRoom' = [hostRoom EXCEPT ![m.host].sync = "Complete"]
      /\ saved' = [saved EXCEPT !.host[m.host] = hostRoom'[m.host]]
      /\ UNCHANGED <<join, sched, entry, net, tally>>
  BY DEF OnAck, clientVars
<1>5. r \in HostRoom /\ r.room = hostRoom[m.host].room
  BY <1>1, <1>2, <1>3, <1>4 DEF HostRoom
<1>6. hostRoom' = [hostRoom EXCEPT ![m.host] = r]
  <2>1. [hostRoom[m.host] EXCEPT !.sync = "Complete"] = r
    BY <1>3, <1>4
  <2>2. hostRoom' = [hostRoom EXCEPT ![m.host] =
                       [hostRoom[m.host] EXCEPT !.sync = "Complete"]]
    BY <1>4
  <2> QED BY <2>1, <2>2
<1>7. hostRoom'[m.host] = r
  BY <1>1, <1>2, <1>6
<1>8. HostMoves(m.host, r)
  BY <1>1, <1>2, <1>4, <1>5, <1>6, <1>7 DEF HostMoves
<1> QED BY <1>2, <1>5, <1>8, HostStep

\* The client connects, loses its connection or starts again.
LEMMA ClientProcessStep ==
  ASSUME JoinIndInv, OnReadyClient \/ RetryConnection \/ RestartClient
  PROVE  JoinIndInv'
<1>1. /\ join \in JoinState /\ net \subseteq SentFrame
      /\ sched \in [attempt : MaybeNat, room : MaybeNat] \cup {None}
      /\ tally \in [attempts : Nat, rooms : Nat, restarts : Nat, retries : Nat,
                    replaced : SUBSET Hosts]
      /\ saved = [entry |-> entry, host |-> hostRoom]
  BY DEF JoinIndInv, JoinTypeOK, WorkspaceSaved
<1>2. CASE OnReadyClient
  <2>1. UNCHANGED <<join, entry, hostRoom, saved, tally>>
    BY <1>2 DEF OnReadyClient
  <2>2. CASE join.phase \in Pending
    <3>1. join.host \in Hosts
      BY <2>2 DEF JoinIndInv, JoinOK, Pending
    <3>2. Armed(join) \in [attempt : MaybeNat, room : MaybeNat]
      BY <1>1, <3>1, ArmedType
    <3>3. /\ sched' \in [attempt : MaybeNat, room : MaybeNat]
          /\ net' = net \cup {Frame("JoinRequest", join.host, sched'.attempt,
                                    sched'.room)}
      BY <1>1, <1>2, <2>2, <3>2 DEF OnReadyClient
    <3>4. LET f == Frame("JoinRequest", join.host, sched'.attempt, sched'.room)
          IN f \in SentFrame /\ f.kind = "JoinRequest"
      BY <3>1, <3>3, SentFrames
    <3>5. net' \subseteq SentFrame /\ \A f \in net' : f.kind = "JoinAccepted" => f \in net
      BY <1>1, <3>3, <3>4
    <3> QED BY <1>1, <2>1, <3>3, <3>5, ClientStep
  <2>3. CASE join.phase \notin Pending
    <3>1. UNCHANGED <<sched, net>>
      BY <1>2, <2>3 DEF OnReadyClient
    <3> QED BY <1>1, <2>1, <3>1, ClientStep
  <2> QED BY <2>2, <2>3
<1>3. CASE RetryConnection
  <2>1. /\ UNCHANGED <<join, sched, entry, hostRoom, saved, net>>
        /\ tally' = [tally EXCEPT !.retries = @ + 1]
    BY <1>3 DEF RetryConnection
  <2>2. /\ tally' \in [attempts : Nat, rooms : Nat, restarts : Nat,
                       retries : Nat, replaced : SUBSET Hosts]
        /\ tally'.replaced = tally.replaced
    BY <1>1, <2>1
  <2> QED BY <1>1, <2>1, <2>2, ClientStep
<1>4. CASE RestartClient
  <2>1. /\ join' = Idle /\ sched' = None /\ entry' = entry
        /\ UNCHANGED <<hostRoom, saved, net>>
        /\ tally' = [tally EXCEPT !.restarts = @ + 1]
    BY <1>1, <1>4 DEF RestartClient, ClearJoinScheduler
  <2>2. /\ tally' \in [attempts : Nat, rooms : Nat, restarts : Nat,
                       retries : Nat, replaced : SUBSET Hosts]
        /\ tally'.replaced = tally.replaced
    BY <1>1, <2>1
  <2>3. join' \in JoinState /\ JoinOK'
    BY <2>1 DEF Idle, JoinState, JoinOK, MaybeNat
  <2> QED BY <1>1, <2>1, <2>2, <2>3, ClientStep
<1> QED BY <1>2, <1>3, <1>4

-----------------------------------------------------------------------------
(* The theorems.                                                           *)

\* Every step preserves the invariant.
LEMMA JoinNextIndInv == JoinIndInv /\ [JoinNext]_joinVars => JoinIndInv'
<1> SUFFICES ASSUME JoinIndInv, [JoinNext]_joinVars PROVE JoinIndInv'
  OBVIOUS
<1>1. CASE UNCHANGED joinVars
  BY <1>1
  DEF joinVars, clientVars, JoinIndInv, JoinTypeOK, WorkspaceSaved, JoinOK,
      OffersOK
<1>2. CASE \E input \in Hosts \cup {Invalid} : UserJoins(input)
  BY <1>2, UserJoinsStep
<1>3. CASE DriveJoinSend \/ DriveJoinDeadline \/ Deadline
  BY <1>3, SchedulerStep
<1>4. ASSUME NEW m \in net \cap Frames,
             \/ OnJoinRequest(m) \/ OnAck(m)
             \/ OnJoinRejected(m) \/ OnJoinAccepted(m) \/ OnNodeState(m)
      PROVE  JoinIndInv'
  BY <1>4, OnJoinRequestStep, OnAckStep, OnJoinRejectedStep,
     OnJoinAcceptedStep, OnNodeStateStep
<1>5. CASE \E h \in Hosts : \/ DriveRoomSync(h) \/ OnReadyHost(h)
                            \/ RestartHost(h) \/ ReplaceHost(h)
  BY <1>5, HostProcessStep
<1>6. CASE OnReadyClient \/ RetryConnection \/ RestartClient
  BY <1>6, ClientProcessStep
<1> QED BY <1>1, <1>2, <1>3, <1>4, <1>5, <1>6 DEF JoinNext

\* The invariant holds in every reachable state.
LEMMA JoinInvariant == JoinSpec => []JoinIndInv
BY JoinInitIndInv, JoinNextIndInv, PTL DEF JoinSpec

\* handle_control and the imported callback: for any number of hosts,
\* attempts, restarts and any order of frames, a client that shows Joined has
\* the room of the host in its saved entry, and the host offered this room in
\* answer to this attempt.
THEOREM JoinJoinedIsBound == JoinSpec => []JoinedIsBound
<1>1. JoinIndInv => JoinedIsBound
  BY NoneAssumption DEF JoinIndInv, JoinOK, WorkspaceSaved, JoinedIsBound
<1> QED BY <1>1, JoinInvariant, PTL

\* host_accept_client: for any number of requests and restarts, a host whose
\* model directory was not replaced offers the client one room.
THEOREM JoinOneRoomPerClient == JoinSpec => []OneRoomPerClient
<1>1. JoinIndInv => OneRoomPerClient
  BY DEF JoinIndInv, OffersOK, OneRoomPerClient
<1> QED BY <1>1, JoinInvariant, PTL
=============================================================================
