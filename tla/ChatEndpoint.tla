----------------------------- MODULE ChatEndpoint -----------------------------
(* ChatAetherRuntime, the endpoint of the chat demo, and the part of the     *)
(* ChatSession that follows it.  The endpoint's thread queues the frames for *)
(* a peer, starts one native write at a time, replaces the peer's channel    *)
(* when the peer opens a new port, and reports presence and failures to the  *)
(* model thread, which may stop it and start another one.                    *)
(*                                                                           *)
(* Peers do not interact, so there is one.  A step is one command, one       *)
(* callback of the aether library or one round of the write pump; all of     *)
(* them run on the endpoint's thread.  Which of two instants is later than   *)
(* offline_after_ms is all that is left of the clock.                        *)
EXTENDS Naturals, Sequences, FiniteSets, SequencesExt

CONSTANTS Payloads,    \* application frames the session sends
          TooLong,     \* those that are longer than the stream's max_element_size
          None,
          MaxSends,    \* bound: frames sent, pings sent or answered, peers closed
          MaxBinds,    \* bound: channels of the peer
          MaxFrames,   \* bound: frames received
          MaxReports,  \* bound: reports waiting for the model thread
          MaxRetries   \* bound: endpoints after the first one

ASSUME PayloadAssumption == TooLong \subseteq Payloads

VARIABLES
  phase,     \* of the endpoint's thread: "selecting", "configured", "leaving"
             \* once it is out of its loop, "ended"
  stop,      \* stop_
  commands,  \* commands_, filled by the model thread
  peer,      \* PeerState
  native,    \* the write whose status the library still has to report, or None
  writable,  \* stream_info().is_writable
  owed,      \* frames that were queued and neither written nor closed
  epoch,     \* network_epoch of the session
  life,      \* lifecycle_state
  conflict,  \* identity_conflict
  uid,       \* local_endpoint_uid of the workspace, None until the first time
  bound,     \* the session has a transport and a sync runtime
  seen,      \* remote_presence_map
  received,  \* frames: handed to the transport, applied by the sync runtime
  reports,   \* internal model work queued by the endpoint's callbacks
  count

handled == <<epoch, life, conflict, uid, bound, seen>>  \* the model thread's own
vars == <<phase, stop, commands, peer, native, writable, owed, handled,
          received, reports, count>>

Frame(kind, body) == [kind |-> kind, body |-> body]
Ping == Frame("ping", None)
Pong(nonce) == Frame("pong", nonce)

\* last is the later of last_rx_ms and last_heartbeat_rx_ms.
NewPeer == [stream |-> FALSE, incarnation |-> 0, pending |-> <<>>,
            active |-> None, next |-> 1, notice |-> None,
            presence |-> "Unknown", last |-> "never"]

Init ==
  /\ phase = "selecting" /\ stop = FALSE /\ commands = <<>>
  /\ peer = NewPeer /\ native = None /\ writable = FALSE /\ owed = {}
  /\ epoch = 1 /\ life = "Starting" /\ conflict = FALSE /\ bound = FALSE
  /\ uid \in {None, "own"}
  /\ seen = "Unknown" /\ reports = <<>>
  /\ received = [handed |-> 0, applied |-> 0]
  /\ count = [sends |-> 0, binds |-> 0]

\* Every callback carries the epoch its endpoint was started in.
Report(kind, value) == [epoch |-> epoch, kind |-> kind, value |-> value]
Post(new) == reports' = reports \o new
\* The bound on what the peer and the library may cause.
Room == Len(reports) < MaxReports

-----------------------------------------------------------------------------
(* PeerState                                                                 *)

\* A change of presence is reported once.
Presence(p, presence) == [p EXCEPT !.presence = presence]
SetPeer(p) ==
  /\ peer' = p
  /\ Post(IF p.presence = peer.presence THEN <<>>
          ELSE <<Report("presence", p.presence)>>)

Writing(p) == IF p.active = None THEN {} ELSE {p.active.frame}
SamePending(p, f) == f \in ToSet(p.pending) \cup Writing(p)
HasPendingKind(p, kind) ==
  \E f \in ToSet(p.pending) \cup Writing(p) : f.kind = kind

\* The same frame is queued once: the sync runtime repeats it until it is
\* acknowledged.
QueuePending(p, f) ==
  IF SamePending(p, f) THEN p ELSE [p EXCEPT !.pending = Append(@, f)]

DestroyPeerChannel(p) ==
  [p EXCEPT !.stream = FALSE, !.active = None, !.notice = None]

\* Variant: a new channel starts with nothing queued.
BindPeerStream_Fresh(p) ==
  LET q == DestroyPeerChannel(p) IN
  [q EXCEPT !.stream = TRUE, !.incarnation = @ + 1, !.pending = <<>>,
            !.presence = IF @ = "Online" THEN @ ELSE "Connecting",
            !.last = IF @ = "never" THEN "recent" ELSE @]

\* Queued frames outlive the channel, the write in progress does not.
BindPeerStream(p) ==
  LET q == DestroyPeerChannel(p) IN
  [q EXCEPT !.stream = TRUE, !.incarnation = @ + 1,
            !.presence = IF @ = "Online" THEN @ ELSE "Connecting",
            !.last = IF @ = "never" THEN "recent" ELSE @]

\* Binding drops the subscription of the write in progress.
Bind(p) ==
  /\ count.binds < MaxBinds
  /\ count' = [count EXCEPT !.binds = @ + 1]
  /\ SetPeer(BindPeerStream(p))
  /\ native' = None /\ writable' \in BOOLEAN

OpenPeerInternal(p) ==
  \/ p.stream /\ SetPeer(p) /\ UNCHANGED <<native, writable, count>>
  \/ ~p.stream /\ Bind(p)

-----------------------------------------------------------------------------
(* Commands of the session.  The endpoint takes them once it is configured;  *)
(* the session gives them as long as it has a transport, to a dead endpoint  *)
(* too.                                                                      *)

Enqueue(command) ==
  /\ bound /\ count.sends < MaxSends
  /\ count' = [count EXCEPT !.sends = @ + 1]
  /\ commands' = Append(commands, command)
  /\ UNCHANGED <<phase, stop, peer, native, writable, owed, handled, received,
                 reports>>

Send(b) == Enqueue([type |-> "send", body |-> b])
ClosePeer == Enqueue([type |-> "close"])

OnThread == phase = "configured"

Takes(type) ==
  /\ OnThread /\ commands # <<>> /\ Head(commands).type = type
  /\ commands' = Tail(commands)
  /\ UNCHANGED <<phase, stop, handled, received>>

OnOpenPeer == Takes("open") /\ OpenPeerInternal(peer) /\ UNCHANGED owed

OnSend ==
  LET f == Frame("app", Head(commands).body) IN
  /\ Takes("send")
  /\ OpenPeerInternal(QueuePending(peer, f))
  /\ owed' = IF f \in Writing(peer) THEN owed ELSE owed \cup {f}

OnClosePeer ==
  /\ Takes("close")
  /\ SetPeer([DestroyPeerChannel(peer) EXCEPT !.pending = <<>>,
                !.incarnation = @ + 1, !.presence = "Offline"])
  /\ native' = None /\ owed' = {}
  /\ UNCHANGED <<writable, count>>

-----------------------------------------------------------------------------
(* Callbacks of the aether library.                                          *)

\* The peer opens a port: its channel is replaced.
OnNewPort ==
  /\ OnThread /\ Bind(peer)
  /\ UNCHANGED <<phase, stop, commands, owed, handled, received>>

\* A linked stream is no proof that the peer is there.
OnStreamUpdate ==
  /\ Room /\ OnThread /\ peer.stream
  /\ writable' \in BOOLEAN
  /\ \/ SetPeer(Presence(peer, IF peer.presence = "Online" THEN "Online"
                               ELSE "Connecting"))
     \/ SetPeer(Presence(peer, IF peer.presence = "Online" THEN "Connecting"
                               ELSE peer.presence))
  /\ UNCHANGED <<phase, stop, commands, native, owed, handled, received, count>>

WithoutPongs(pending) ==
  LET kept[n \in 0 .. Len(pending)] ==
        IF n = 0 THEN <<>>
        ELSE IF pending[n].kind = "pong" THEN kept[n - 1]
        ELSE Append(kept[n - 1], pending[n])
  IN kept[Len(pending)]

\* The answer to the newest ping replaces the ones that still wait.
QueuePong(p, nonce) ==
  IF SamePending(p, Pong(nonce)) THEN p
  ELSE [p EXCEPT !.pending = Append(WithoutPongs(@), Pong(nonce))]

Heard == [peer EXCEPT !.last = "recent"]

OnPing ==
  /\ Room /\ OnThread /\ peer.stream /\ count.sends < MaxSends
  /\ SetPeer(Presence(QueuePong(Heard, count.sends), "Online"))
  /\ count' = [count EXCEPT !.sends = @ + 1]
  /\ UNCHANGED <<phase, stop, commands, native, writable, owed, handled,
                 received>>

\* A pong makes the peer Online, a control frame does not.
OnPongOrControl ==
  /\ Room /\ OnThread /\ peer.stream
  /\ SetPeer(Presence(Heard, "Online")) \/ SetPeer(Heard)
  /\ UNCHANGED <<phase, stop, commands, native, writable, owed, handled,
                 received, count>>

\* The frame goes to the transport, if the session has one by now.
OnApplication ==
  /\ Room /\ OnThread /\ peer.stream /\ received.handed < MaxFrames
  /\ peer' = Presence(Heard, "Online")
  /\ Post((IF peer.presence = "Online" THEN <<>>
           ELSE <<Report("presence", "Online")>>)
          \o (IF bound THEN <<Report("frame", None)>> ELSE <<>>))
  /\ received' = [received EXCEPT !.handed = IF bound THEN @ + 1 ELSE @]
  /\ UNCHANGED <<phase, stop, commands, native, writable, owed, handled, count>>

\* The write ends.  The callback only leaves a notice.
ApplyWriteStatus ==
  /\ OnThread /\ native # None
  /\ native' = None
  /\ \E status \in {"ok", "fail"} :
       peer' = IF /\ native.incarnation = peer.incarnation
                  /\ peer.active # None /\ native.token = peer.active.token
               THEN [peer EXCEPT !.notice = [native EXCEPT !.status = status]]
               ELSE peer
  /\ UNCHANGED <<phase, stop, commands, writable, owed, handled, received,
                 reports, count>>

-----------------------------------------------------------------------------
(* The endpoint's loop.                                                      *)

Heartbeat ==
  /\ OnThread /\ peer.stream
  /\ count.sends < MaxSends /\ ~HasPendingKind(peer, "ping")
  /\ count' = [count EXCEPT !.sends = @ + 1]
  /\ peer' = QueuePending(peer, Ping)
  /\ UNCHANGED <<phase, stop, commands, native, writable, owed, handled,
                 received, reports>>

\* offline_after_ms pass without a frame of the peer.
Silence ==
  /\ OnThread /\ peer.last = "recent"
  /\ peer' = [peer EXCEPT !.last = "old"]
  /\ UNCHANGED <<phase, stop, commands, native, writable, owed, handled,
                 received, reports, count>>

OfflineAfter ==
  /\ OnThread /\ peer.presence \in {"Connecting", "Online"} /\ peer.last = "old"
  /\ SetPeer(Presence(peer, "Offline"))
  /\ UNCHANGED <<phase, stop, commands, native, writable, owed, handled,
                 received, count>>

\* process_write_notice: a failed write is not queued again, the sync runtime
\* repeats what it needs.
ProcessWriteNotice ==
  LET n == peer.notice
      q == [peer EXCEPT !.notice = None, !.active = None]
  IN
  /\ OnThread /\ n # None
  /\ IF \/ n.incarnation # peer.incarnation \/ peer.active = None
        \/ n.token # peer.active.token
     THEN SetPeer([peer EXCEPT !.notice = None])
     ELSE IF n.status = "ok" THEN SetPeer(q)
     ELSE SetPeer(Presence(q, IF peer.last = "recent" THEN "Connecting"
                              ELSE "Offline"))
  /\ UNCHANGED <<phase, stop, commands, native, writable, owed, handled,
                 received, count>>

\* Variant: a write that ended before the subscription leaves no notice.
Started_NoNotice(p, finished) == p

\* Write may be over when it returns; the pump then takes it for a failure.
Started(p, finished) ==
  IF ~finished THEN p
  ELSE [p EXCEPT !.notice = [token |-> p.active.token, status |-> "fail",
                             incarnation |-> p.incarnation]]

\* A frame that is too long is dropped, the others are written one by one.
TryStartWrite ==
  LET f == Head(peer.pending) IN
  /\ OnThread /\ peer.notice = None
  /\ peer.active = None /\ peer.stream /\ writable /\ peer.pending # <<>>
  /\ \/ /\ f.body \in TooLong
        /\ peer' = [peer EXCEPT !.pending = Tail(@)]
        /\ UNCHANGED native
     \/ /\ f.body \notin TooLong
        /\ \E finished \in BOOLEAN :
             /\ peer' = Started([peer EXCEPT
                           !.active = [token |-> peer.next, frame |-> f],
                           !.pending = Tail(@), !.next = @ + 1], finished)
             /\ native' = IF finished THEN None
                          ELSE [token |-> peer.next, status |-> "open",
                                incarnation |-> peer.incarnation]
  /\ owed' = owed \ {f}
  /\ UNCHANGED <<phase, stop, commands, writable, handled, received, reports,
                 count>>

-----------------------------------------------------------------------------
(* The endpoint's thread.                                                    *)

\* The aether client is there: its uid, which need not be the one of the
\* workspace, and readiness are reported.
SelectClient ==
  /\ phase = "selecting"
  /\ phase' = "configured"
  /\ \E u \in {"own", "other"} :
       Post(<<Report("uid", u), Report("ready", None)>>)
  /\ UNCHANGED <<stop, commands, peer, native, writable, owed, handled,
                 received, count>>

Running == phase \in {"selecting", "configured"}

\* What the thread knows of its peers and has queued for them goes with it.
ForgetPeers ==
  /\ peer' = NewPeer /\ native' = None /\ writable' = FALSE /\ owed' = {}

\* The aether client cannot be had; the thread leaves its loop.
SelectFails ==
  /\ phase = "selecting"
  /\ phase' = "leaving"
  /\ Post(<<Report("failed", None)>>)
  /\ UNCHANGED <<stop, commands, peer, native, writable, owed, handled,
                 received, count>>

Stops ==
  /\ stop /\ Running
  /\ phase' = "leaving" /\ ForgetPeers
  /\ UNCHANGED <<stop, commands, handled, received, reports, count>>

\* Out of the loop the thread saves and exits the library.
Leaves ==
  /\ phase = "leaving"
  /\ phase' = "ended"
  /\ UNCHANGED <<stop, commands, peer, native, writable, owed, handled,
                 received, reports, count>>

\* Variant: the thread ends without a word.
Fails_Silently ==
  /\ phase # "ended"
  /\ phase' = "ended" /\ ForgetPeers
  /\ UNCHANGED <<stop, commands, handled, received, reports, count>>

\* An exception ends the thread, in its loop or on the way out.
Fails ==
  /\ phase # "ended"
  /\ phase' = "ended" /\ ForgetPeers
  /\ Post(<<Report("failed", None)>>)
  /\ UNCHANGED <<stop, commands, handled, received, count>>

-----------------------------------------------------------------------------
(* The model thread of the session.                                          *)

\* A report of an endpoint that was replaced is ignored.
Handles(kind) ==
  /\ reports # <<>> /\ Head(reports).kind = kind
  /\ reports' = Tail(reports)
  /\ UNCHANGED <<phase, peer, native, writable, owed, epoch, count>>
Current == Head(reports).epoch = epoch

LocalEndpointBoundEvent(u) == [type |-> "bound", uid |-> u]

\* The first uid is kept for ever; the same one is welcome again.
CanBindLocalEndpoint(u) == u # None /\ uid \in {None, u}
BindLocalEndpoint(u) ==
  uid' = IF uid = u THEN uid ELSE LocalEndpointBoundEvent(u).uid

\* Another uid than the workspace's is an error that no retry mends.
OnUid ==
  LET u == Head(reports).value IN
  /\ Handles("uid")
  /\ \/ ~Current /\ UNCHANGED <<uid, conflict, stop, life>>
     \/ /\ Current /\ CanBindLocalEndpoint(u) /\ BindLocalEndpoint(u)
        /\ UNCHANGED <<conflict, stop, life>>
     \/ /\ Current /\ ~CanBindLocalEndpoint(u)
        /\ conflict' = TRUE /\ stop' = TRUE /\ life' = "Failed"
        /\ UNCHANGED uid
  /\ UNCHANGED <<commands, bound, seen, received>>

OnReady ==
  /\ Handles("ready")
  /\ IF Current /\ ~conflict
     THEN /\ life' = "Ready" /\ bound' = TRUE
          /\ commands' = Append(commands, [type |-> "open"])
     ELSE UNCHANGED <<life, bound, commands>>
  /\ UNCHANGED <<stop, conflict, uid, seen, received>>

\* Variant: a failure is taken for one of the endpoint that runs.
OnFailed_AnyEpoch ==
  /\ Handles("failed")
  /\ life' = "Failed"
  /\ UNCHANGED <<stop, commands, conflict, uid, bound, seen, received>>

OnFailed ==
  /\ Handles("failed")
  /\ life' = IF Current THEN "Failed" ELSE life
  /\ UNCHANGED <<stop, commands, conflict, uid, bound, seen, received>>

OnPresence ==
  /\ Handles("presence")
  /\ seen' = IF Current THEN Head(reports).value ELSE seen
  /\ UNCHANGED <<stop, commands, life, conflict, uid, bound, received>>

\* The receive binding dies with its transport.
OnFrame ==
  /\ Handles("frame")
  /\ received' = IF Current /\ bound
                 THEN [received EXCEPT !.applied = @ + 1] ELSE received
  /\ UNCHANGED <<stop, commands, life, conflict, uid, bound, seen>>

RetryInto(presence) ==
  /\ life = "Failed" /\ ~conflict /\ phase = "ended" /\ epoch <= MaxRetries
  /\ epoch' = epoch + 1 /\ life' = "Starting" /\ bound' = FALSE
  /\ seen' = presence
  /\ received' = [handed |-> 0, applied |-> 0]
  /\ phase' = "selecting" /\ stop' = FALSE /\ commands' = <<>>
  /\ peer' = NewPeer /\ native' = None /\ writable' = FALSE /\ owed' = {}
  /\ UNCHANGED <<conflict, uid, reports, count>>

\* Variant: what the last endpoint knew of the peer is kept.
RetryConnection_KeepsPresence == RetryInto(seen)

\* The user retries after a failure: the thread is joined, another endpoint is
\* started, of which nothing is known.  Reports of the old one may still wait.
RetryConnection == RetryInto("Unknown")

-----------------------------------------------------------------------------

Pump == ProcessWriteNotice \/ TryStartWrite
Callback == OnNewPort \/ OnStreamUpdate \/ OnPing \/ OnPongOrControl
            \/ OnApplication \/ ApplyWriteStatus
Loop == OnOpenPeer \/ OnSend \/ OnClosePeer \/ Heartbeat \/ Silence
        \/ OfflineAfter \/ Pump \/ SelectClient \/ SelectFails \/ Stops \/ Leaves
        \/ Fails
ModelThread == OnUid \/ OnReady \/ OnFailed \/ OnPresence \/ OnFrame
Session == (\E b \in Payloads : Send(b)) \/ ClosePeer \/ RetryConnection

Next == Loop \/ Callback \/ ModelThread \/ Session

Spec == Init /\ [][Next]_vars

\* The library reports the status of every write it accepted and the endpoint's
\* loop goes on.  Nothing else has to happen.
Fairness == WF_vars(ApplyWriteStatus) /\ WF_vars(ProcessWriteNotice)
FairSpec == Spec /\ Fairness

-----------------------------------------------------------------------------
(* Properties                                                                *)

\* A frame that was queued and whose write has not begun is still queued,
\* also after the peer has opened another port in between
\* (chat_aether_runtime.cpp:411 "Preserve queued frames").
NothingOwedIsLost == owed \subseteq ToSet(peer.pending)

\* A write that was begun ends, even when it was over before the status could
\* be subscribed or its channel was replaced: the frames behind it are not
\* stuck (chat_aether_runtime.cpp:571 "unstick the pump").
WriteEnds == (peer.active # None) ~> (peer.active = None)

\* While an endpoint runs, the presence the session shows is, once the reports
\* under way are in, the presence this endpoint knows, and every frame it took
\* over is applied once; nothing of an earlier endpoint shows through
\* (chat_session.cpp:1671).
SessionFollowsEndpoint ==
  LET underWay(kind) == {i \in DOMAIN reports :
                           reports[i].epoch = epoch /\ reports[i].kind = kind}
      news == underWay("presence")
  IN
  Running =>
    /\ (IF news = {} THEN seen ELSE reports[Max(news)].value) = peer.presence
    /\ received.applied + Cardinality(underWay("frame")) = received.handed

\* A failure that the session shows is the failure of the endpoint it has, not
\* what the last one reported on its way out; and an endpoint that is out of its
\* loop is, once its reports are in, shown as failed, which is what lets the user
\* retry (chat_session.cpp:1617, the epoch check).
FailureFollowsEndpoint ==
  LET underWay == {i \in DOMAIN reports :
                     reports[i].epoch = epoch /\ reports[i].kind = "failed"}
  IN /\ life = "Failed" /\ ~conflict => ~Running
     /\ ~Running /\ underWay = {} => life = "Failed"
=============================================================================
