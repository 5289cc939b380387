-------------------------- MODULE ChatEndpointProofs --------------------------
(* Proofs about ChatEndpoint: no frame that is owed to the peer leaves the   *)
(* queue, and the session follows the endpoint that runs.                    *)
EXTENDS ChatEndpoint, FiniteSetTheorems, SequenceTheorems,
        WellFoundedInduction, TLAPS

Kinds == {"app", "ping", "pong"}
Frames == [kind : Kinds, body : Payloads \cup {None} \cup Nat]
Presences == {"Unknown", "Connecting", "Online", "Offline"}
Actives == {None} \cup [token : Nat, frame : Frames]
Notices == {None} \cup [token : Nat, status : {"open", "ok", "fail"},
                        incarnation : Nat]
PeerType == [stream : BOOLEAN, incarnation : Nat, pending : Seq(Frames),
             active : Actives, next : Nat, notice : Notices,
             presence : Presences, last : {"never", "recent", "old"}]
Commands == [type : {"send"}, body : Payloads] \cup [type : {"open", "close"}]
ReportType == [epoch : Nat,
               kind : {"uid", "ready", "failed", "presence", "frame"},
               value : Presences \cup {"own", "other", None}]

\* The state of the endpoint and what it shares with the session.
TypeOK ==
  /\ commands \in Seq(Commands)
  /\ peer \in PeerType
  /\ native \in Notices
  /\ epoch \in Nat
  /\ received \in [handed : Nat, applied : Nat]
  /\ reports \in Seq(ReportType)
  /\ count \in [sends : Nat, binds : Nat]

-----------------------------------------------------------------------------
(* The filter of QueuePong.                                                  *)

\* What the filter makes of the first n frames, in terms of what it makes of
\* one frame less.
Keeps(q, n, g) ==
  IF n = 0 THEN <<>>
  ELSE IF q[n].kind = "pong" THEN g[n - 1]
  ELSE Append(g[n - 1], q[n])

\* g is the filter's function on the first m frames.
IsKept(q, m, g) == g = [n \in 0 .. m |-> Keeps(q, n, g)]

\* The function that WithoutPongs defines by recursion exists.
LEMMA KeptExists ==
  ASSUME NEW q, NEW m \in Nat
  PROVE  \E g : IsKept(q, m, g)
<1> DEFINE Bad == {k \in Nat : ~ \E g : IsKept(q, k, g)}
<1>1. SUFFICES ASSUME Bad # {} PROVE FALSE
  OBVIOUS
<1>2. PICK k \in Bad : \A j \in Bad : ~ (<<j, k>> \in OpToRel(<, Nat))
  <2>1. Bad \subseteq Nat
    OBVIOUS
  <2> HIDE DEF Bad
  <2> QED
    BY <1>1, <2>1, NatLessThanWellFounded, WFMin
<1>3. \A j \in Nat : j < k => \E g : IsKept(q, j, g)
  BY <1>2 DEF OpToRel
<1>4. CASE k = 0
  <2>1. IsKept(q, 0, [n \in 0 .. 0 |-> <<>>])
    BY DEF IsKept, Keeps
  <2> QED
    BY <1>4, <2>1
<1>5. CASE k # 0
  <2>1. k - 1 \in Nat /\ k - 1 < k
    BY <1>5
  <2>2. PICK g : IsKept(q, k - 1, g)
    BY <1>3, <2>1
  <2> DEFINE h == [n \in 0 .. k |-> Keeps(q, n, g)]
  <2>3. \A n \in 0 .. (k - 1) : h[n] = g[n]
    BY <2>1, <2>2 DEF IsKept
  <2>4. \A n \in 0 .. k : Keeps(q, n, h) = Keeps(q, n, g)
    <3>1. \A n \in 0 .. k : n # 0 => h[n - 1] = g[n - 1]
      BY <2>3
    <3> HIDE DEF h
    <3> QED
      BY <3>1 DEF Keeps
  <2>5. h = [n \in 0 .. k |-> Keeps(q, n, h)]
    BY <2>4
  <2> QED
    BY <2>5 DEF IsKept
<1> QED
  BY <1>4, <1>5

LEMMA WithoutPongsIs ==
  ASSUME NEW q, Len(q) \in Nat
  PROVE  \E g : IsKept(q, Len(q), g) /\ WithoutPongs(q) = g[Len(q)]
<1> DEFINE kept == CHOOSE g : IsKept(q, Len(q), g)
<1>1. IsKept(q, Len(q), kept)
  BY KeptExists
<1>2. WithoutPongs(q) = kept[Len(q)]
  BY DEF WithoutPongs, IsKept, Keeps
<1> QED
  BY <1>1, <1>2

\* Every frame that is no pong is still queued.
LEMMA WithoutPongsKeeps ==
  ASSUME NEW q \in Seq(Frames)
  PROVE  /\ WithoutPongs(q) \in Seq(Frames)
         /\ \A i \in 1 .. Len(q) : q[i].kind # "pong" =>
              \E j \in 1 .. Len(WithoutPongs(q)) : WithoutPongs(q)[j] = q[i]
<1>1. PICK g : IsKept(q, Len(q), g) /\ WithoutPongs(q) = g[Len(q)]
  BY WithoutPongsIs
<1> DEFINE Good(n) ==
      /\ g[n] \in Seq(Frames)
      /\ \A i \in 1 .. n : q[i].kind # "pong" =>
           \E j \in 1 .. Len(g[n]) : g[n][j] = q[i]
<1> DEFINE Bad == {k \in 0 .. Len(q) : ~ Good(k)}
<1>2. SUFFICES ASSUME Bad # {} PROVE FALSE
  BY <1>1
<1>3. PICK k \in Bad : \A j \in Bad : ~ (<<j, k>> \in OpToRel(<, Nat))
  <2>1. Bad \subseteq Nat
    OBVIOUS
  <2> HIDE DEF Bad
  <2> QED
    BY <1>2, <2>1, NatLessThanWellFounded, WFMin
<1>4. k \in 0 .. Len(q) /\ ~ Good(k)
  OBVIOUS
<1>5. \A j \in 0 .. Len(q) : j < k => Good(j)
  <2>1. SUFFICES ASSUME NEW j \in 0 .. Len(q), j < k, ~ Good(j) PROVE FALSE
    OBVIOUS
  <2>2. j \in Bad
    BY <2>1
  <2>3. j \in Nat /\ k \in Nat
    BY <1>4
  <2> HIDE DEF Bad, Good
  <2> QED
    BY <1>3, <2>1, <2>2, <2>3 DEF OpToRel
<1>6. g[k] = Keeps(q, k, g)
  BY <1>1, <1>4 DEF IsKept
<1>7. CASE k = 0
  BY <1>4, <1>6, <1>7 DEF Keeps
<1>8. CASE k # 0
  <2>1. k - 1 \in 0 .. Len(q) /\ k - 1 < k /\ k \in 1 .. Len(q)
    BY <1>4, <1>8
  <2>2. Good(k - 1)
    <3> HIDE DEF Good
    <3> QED
      BY <1>5, <2>1
  <2>3. q[k] \in Frames
    BY <2>1
  <2>4. CASE q[k].kind = "pong"
    <3>1. g[k] = g[k - 1]
      BY <1>6, <1>8, <2>4 DEF Keeps
    <3> QED
      BY <1>4, <2>1, <2>2, <2>4, <3>1
  <2>5. CASE q[k].kind # "pong"
    <3>1. g[k] = Append(g[k - 1], q[k])
      BY <1>6, <1>8, <2>5 DEF Keeps
    <3>2. g[k] \in Seq(Frames) /\ Len(g[k]) = Len(g[k - 1]) + 1
          /\ g[k][Len(g[k])] = q[k]
          /\ \A j \in 1 .. Len(g[k - 1]) : g[k][j] = g[k - 1][j]
      BY <2>2, <2>3, <3>1
    <3>3. ASSUME NEW i \in 1 .. k, q[i].kind # "pong"
          PROVE  \E j \in 1 .. Len(g[k]) : g[k][j] = q[i]
      <4>1. CASE i = k
        <5>1. g[k][Len(g[k])] = q[i] /\ Len(g[k]) \in 1 .. Len(g[k])
          BY <2>2, <3>2, <4>1
        <5> QED
          BY <5>1
      <4>2. CASE i # k
        <5>1. i \in 1 .. (k - 1)
          BY <2>1, <4>2
        <5>2. PICK j \in 1 .. Len(g[k - 1]) : g[k - 1][j] = q[i]
          BY <2>2, <3>3, <5>1
        <5>3. j \in 1 .. Len(g[k]) /\ g[k][j] = q[i]
          BY <2>2, <3>2, <5>2
        <5> QED
          BY <5>3
      <4> QED
        BY <4>1, <4>2
    <3>4. g[k] \in Seq(Frames)
      BY <3>2
    <3> QED
      BY <1>4, <3>3, <3>4
  <2> QED
    BY <2>4, <2>5
<1> QED
  BY <1>7, <1>8
-----------------------------------------------------------------------------
(* What the peer's helpers return.                                           *)

LEMMA ToSetIndex ==
  ASSUME NEW q \in Seq(Frames), NEW f
  PROVE  f \in ToSet(q) <=> \E i \in 1 .. Len(q) : q[i] = f
BY DEF ToSet

LEMMA ToSetAppend ==
  ASSUME NEW q \in Seq(Frames), NEW f \in Frames
  PROVE  ToSet(Append(q, f)) = ToSet(q) \cup {f}
<1>1. /\ Append(q, f) \in Seq(Frames) /\ Len(Append(q, f)) = Len(q) + 1
      /\ Append(q, f)[Len(q) + 1] = f
      /\ \A i \in 1 .. Len(q) : Append(q, f)[i] = q[i]
  OBVIOUS
<1>2. ASSUME NEW g \in ToSet(Append(q, f)) PROVE g \in ToSet(q) \cup {f}
  <2>1. PICK i \in 1 .. Len(q) + 1 : Append(q, f)[i] = g
    BY <1>1, ToSetIndex
  <2>2. i \in 1 .. Len(q) \/ i = Len(q) + 1
    OBVIOUS
  <2> QED
    BY <1>1, <2>1, <2>2, ToSetIndex
<1>3. ASSUME NEW g \in ToSet(q) \cup {f} PROVE g \in ToSet(Append(q, f))
  <2>1. CASE g = f
    <3>1. Len(q) + 1 \in 1 .. Len(Append(q, f))
      BY <1>1
    <3> QED
      BY <1>1, <2>1, <3>1, ToSetIndex
  <2>2. CASE g \in ToSet(q)
    <3>1. PICK i \in 1 .. Len(q) : q[i] = g
      BY <2>2, ToSetIndex
    <3>2. i \in 1 .. Len(Append(q, f))
      BY <1>1
    <3> QED
      BY <1>1, <3>1, <3>2, ToSetIndex
  <2> QED
    BY <1>3, <2>1, <2>2
<1> QED
  BY <1>2, <1>3

LEMMA ToSetTail ==
  ASSUME NEW q \in Seq(Frames), q # <<>>
  PROVE  ToSet(q) \ {Head(q)} \subseteq ToSet(Tail(q))
<1>1. ASSUME NEW g \in ToSet(q) \ {Head(q)} PROVE g \in ToSet(Tail(q))
  <2>1. PICK i \in 1 .. Len(q) : q[i] = g
    BY ToSetIndex
  <2>2. i # 1
    BY <2>1
  <2>3. i - 1 \in 1 .. Len(Tail(q)) /\ Tail(q)[i - 1] = g
    BY <2>1, <2>2
  <2>4. Tail(q) \in Seq(Frames)
    OBVIOUS
  <2> QED
    BY <2>3, <2>4, ToSetIndex
<1> QED
  BY <1>1

LEMMA QueuePendingType ==
  ASSUME NEW p \in PeerType, NEW f \in Frames
  PROVE  /\ QueuePending(p, f) \in PeerType
         /\ QueuePending(p, f).presence = p.presence
         /\ QueuePending(p, f).active = p.active
         /\ ToSet(p.pending) \subseteq ToSet(QueuePending(p, f).pending)
         /\ f \notin Writing(p) => f \in ToSet(QueuePending(p, f).pending)
<1>1. CASE SamePending(p, f)
  BY <1>1 DEF QueuePending, SamePending
<1>2. CASE ~ SamePending(p, f)
  <2>1. p.pending \in Seq(Frames)
    BY DEF PeerType
  <2>2. QueuePending(p, f) = [p EXCEPT !.pending = Append(p.pending, f)]
    BY <1>2 DEF QueuePending
  <2>3. Append(p.pending, f) \in Seq(Frames)
    BY <2>1
  <2>4. QueuePending(p, f).pending = Append(p.pending, f)
    BY <2>2 DEF PeerType
  <2>5. ToSet(Append(p.pending, f)) = ToSet(p.pending) \cup {f}
    BY <2>1, ToSetAppend
  <2>6. /\ QueuePending(p, f) \in PeerType
        /\ QueuePending(p, f).presence = p.presence
        /\ QueuePending(p, f).active = p.active
    BY <2>2, <2>3 DEF PeerType
  <2> QED
    BY <2>4, <2>5, <2>6
<1> QED
  BY <1>1, <1>2

LEMMA QueuePongType ==
  ASSUME NEW p \in PeerType, NEW n \in Nat
  PROVE  /\ QueuePong(p, n) \in PeerType
         /\ QueuePong(p, n).presence = p.presence
         /\ \A f \in ToSet(p.pending) :
              f.kind # "pong" => f \in ToSet(QueuePong(p, n).pending)
<1>1. CASE SamePending(p, Pong(n))
  BY <1>1 DEF QueuePong
<1>2. CASE ~ SamePending(p, Pong(n))
  <2>1. p.pending \in Seq(Frames) /\ Pong(n) \in Frames
    BY DEF PeerType, Pong, Frame, Frames, Kinds
  <2> DEFINE w == WithoutPongs(p.pending)
  <2>2. /\ w \in Seq(Frames)
        /\ \A i \in 1 .. Len(p.pending) : p.pending[i].kind # "pong" =>
              \E j \in 1 .. Len(w) : w[j] = p.pending[i]
    BY <2>1, WithoutPongsKeeps
  <2>3. QueuePong(p, n) = [p EXCEPT !.pending = Append(w, Pong(n))]
    BY <1>2 DEF QueuePong
  <2> HIDE DEF w
  <2>4. Append(w, Pong(n)) \in Seq(Frames)
    BY <2>1, <2>2
  <2>5. ToSet(Append(w, Pong(n))) = ToSet(w) \cup {Pong(n)}
    BY <2>1, <2>2, ToSetAppend
  <2>6. \A f \in ToSet(p.pending) : f.kind # "pong" => f \in ToSet(w)
    BY <2>1, <2>2, ToSetIndex
  <2>7. QueuePong(p, n).pending = Append(w, Pong(n))
    BY <2>3 DEF PeerType
  <2>8. QueuePong(p, n) \in PeerType /\ QueuePong(p, n).presence = p.presence
    BY <2>3, <2>4 DEF PeerType
  <2> QED
    BY <2>5, <2>6, <2>7, <2>8
<1> QED
  BY <1>1, <1>2

LEMMA PresenceType ==
  ASSUME NEW p \in PeerType, NEW x \in Presences
  PROVE  /\ Presence(p, x) \in PeerType
         /\ Presence(p, x).presence = x
         /\ Presence(p, x).pending = p.pending
BY DEF Presence, PeerType

LEMMA BindType ==
  ASSUME NEW p \in PeerType
  PROVE  /\ BindPeerStream(p) \in PeerType
         /\ BindPeerStream(p).pending = p.pending
<1>1. DestroyPeerChannel(p) \in PeerType
      /\ DestroyPeerChannel(p).pending = p.pending
  BY DEF DestroyPeerChannel, PeerType, Actives, Notices
<1>2. PICK q \in PeerType : q = DestroyPeerChannel(p) /\ q.pending = p.pending
  BY <1>1
<1>3. PICK x \in Presences :
        x = IF q.presence = "Online" THEN q.presence ELSE "Connecting"
  BY DEF PeerType, Presences
<1>4. PICK l \in {"never", "recent", "old"} :
        l = IF q.last = "never" THEN "recent" ELSE q.last
  BY DEF PeerType
<1>5. BindPeerStream(p) =
        [q EXCEPT !.stream = TRUE, !.incarnation = q.incarnation + 1,
                  !.presence = x, !.last = l]
  <2>1. BindPeerStream(p) =
          [q EXCEPT !.stream = TRUE, !.incarnation = q.incarnation + 1,
                    !.presence = IF q.presence = "Online" THEN q.presence
                                 ELSE "Connecting",
                    !.last = IF q.last = "never" THEN "recent" ELSE q.last]
    BY <1>2, Zenon DEF BindPeerStream
  <2> QED
    BY <1>3, <1>4, <2>1
<1>6. PICK n \in Nat : n = q.incarnation + 1
  BY DEF PeerType
<1>7. [q EXCEPT !.stream = TRUE, !.incarnation = n] \in PeerType
      /\ [q EXCEPT !.stream = TRUE, !.incarnation = n].pending = q.pending
  BY DEF PeerType
<1>8. PICK r \in PeerType :
        r = [q EXCEPT !.stream = TRUE, !.incarnation = n] /\ r.pending = q.pending
  BY <1>7
<1>9. [r EXCEPT !.presence = x, !.last = l] \in PeerType
      /\ [r EXCEPT !.presence = x, !.last = l].pending = r.pending
  BY DEF PeerType
<1>10. BindPeerStream(p) = [r EXCEPT !.presence = x, !.last = l]
  BY <1>5, <1>6, <1>8
<1> QED
  BY <1>2, <1>8, <1>9, <1>10
-----------------------------------------------------------------------------
(* Frames owed to the peer, and how an endpoint's step shows in its reports. *)

\* What is owed is queued, and it is no answer to a ping.
Owed == /\ NothingOwedIsLost
        /\ \A f \in owed : f \in Frames /\ f.kind # "pong"

\* A step of the endpoint changes the presence it knows and reports it, or
\* does neither.
Shows ==
  \/ reports' = reports /\ peer'.presence = peer.presence
  \/ reports' = Append(reports, Report("presence", peer'.presence))

EndpointMoves ==
  /\ peer' \in PeerType /\ reports' \in Seq(ReportType) /\ Shows
  /\ UNCHANGED <<phase, stop, epoch, life, conflict, bound, seen, received>>

LEMMA SetPeerShows ==
  ASSUME TypeOK, NEW p \in PeerType, SetPeer(p)
  PROVE  peer' = p /\ reports' \in Seq(ReportType) /\ Shows
<1>1. peer' = p
  BY DEF SetPeer
<1>2. CASE p.presence = peer.presence
  <2>1. reports' = reports \o <<>>
    BY <1>2 DEF SetPeer, Post
  <2>2. reports' = reports
    BY <2>1 DEF TypeOK
  <2> QED
    BY <1>1, <1>2, <2>2 DEF Shows, TypeOK
<1>3. CASE p.presence # peer.presence
  <2>1. PICK r : r = Report("presence", p.presence)
    OBVIOUS
  <2>2. r \in ReportType
    BY <2>1 DEF Report, ReportType, PeerType, TypeOK
  <2>3. reports' = reports \o <<r>>
    BY <1>3, <2>1 DEF SetPeer, Post
  <2>4. reports' = Append(reports, r)
    BY <2>2, <2>3 DEF TypeOK
  <2> QED
    BY <1>1, <2>1, <2>2, <2>4 DEF Shows, TypeOK
<1> QED
  BY <1>2, <1>3

LEMMA OpenPeerShows ==
  ASSUME TypeOK, NEW p \in PeerType, OpenPeerInternal(p)
  PROVE  /\ peer' \in PeerType /\ peer'.pending = p.pending
         /\ reports' \in Seq(ReportType) /\ Shows
         /\ native' \in Notices /\ count' \in [sends : Nat, binds : Nat]
<1>1. CASE SetPeer(p) /\ UNCHANGED <<native, writable, count>>
  BY <1>1, SetPeerShows DEF TypeOK
<1>2. CASE Bind(p)
  <2>1. PICK q \in PeerType : q = BindPeerStream(p) /\ q.pending = p.pending
    BY BindType
  <2>2. SetPeer(q) /\ native' = None
        /\ count' = [count EXCEPT !.binds = count.binds + 1]
    BY <1>2, <2>1 DEF Bind
  <2>3. count' \in [sends : Nat, binds : Nat]
    BY <2>2 DEF TypeOK
  <2>4. native' \in Notices
    BY <2>2 DEF Notices
  <2> QED
    BY <2>1, <2>2, <2>3, <2>4, SetPeerShows
<1> QED
  BY <1>1, <1>2 DEF OpenPeerInternal

\* Every command, callback and round of the loop keeps what is owed and shows
\* what it learns of the peer.
EndpointStep ==
  \/ OnOpenPeer \/ OnSend \/ OnClosePeer \/ OnNewPort \/ OnStreamUpdate \/ OnPing
  \/ OnPongOrControl \/ ApplyWriteStatus \/ Heartbeat \/ Silence
  \/ OfflineAfter \/ Pump \/ (\E b \in Payloads : Send(b)) \/ ClosePeer

LEMMA TakesType ==
  ASSUME TypeOK, NEW type, Takes(type)
  PROVE  /\ commands' \in Seq(Commands) /\ Head(commands) \in Commands
         /\ Head(commands).type = type
         /\ UNCHANGED <<phase, stop, handled, received>>
<1>1. commands \in Seq(Commands) /\ commands # <<>> /\ commands' = Tail(commands)
  BY DEF Takes, TypeOK
<1> QED
  BY <1>1 DEF Takes

LEMMA EndpointKeeps ==
  ASSUME TypeOK, Owed, EndpointStep
  PROVE  TypeOK' /\ Owed' /\ EndpointMoves
<1>0. /\ peer \in PeerType /\ peer.pending \in Seq(Frames)
      /\ owed \subseteq ToSet(peer.pending)
  BY DEF TypeOK, PeerType, Owed, NothingOwedIsLost
<1>1. CASE OnOpenPeer
  <2>1. PICK p \in PeerType : p = peer
    BY <1>0
  <2>2. Takes("open") /\ OpenPeerInternal(p) /\ UNCHANGED owed
    BY <1>1, <2>1 DEF OnOpenPeer
  <2>3. commands' \in Seq(Commands) /\ UNCHANGED <<phase, stop, handled, received>>
    BY <2>2, TakesType
  <2>4. /\ peer' \in PeerType /\ peer'.pending = p.pending
        /\ reports' \in Seq(ReportType) /\ Shows
        /\ native' \in Notices /\ count' \in [sends : Nat, binds : Nat]
    BY <2>2, OpenPeerShows
  <2>5. Owed'
    BY <2>1, <2>2, <2>4 DEF Owed, NothingOwedIsLost
  <2>6. TypeOK'
    BY <2>3, <2>4 DEF TypeOK, handled
  <2> QED
    BY <2>3, <2>4, <2>5, <2>6 DEF EndpointMoves, handled
<1>2. CASE OnSend
  <2>1. PICK f : f = Frame("app", Head(commands).body)
    OBVIOUS
  <2>2. /\ Takes("send") /\ OpenPeerInternal(QueuePending(peer, f))
        /\ owed' = IF f \in Writing(peer) THEN owed ELSE owed \cup {f}
    BY <1>2, <2>1 DEF OnSend
  <2>3. /\ commands' \in Seq(Commands) /\ Head(commands) \in Commands
        /\ Head(commands).type = "send"
        /\ UNCHANGED <<phase, stop, handled, received>>
    BY <2>2, TakesType
  <2>4. f \in Frames /\ f.kind = "app"
    <3>1. Head(commands).body \in Payloads
      BY <2>3 DEF Commands
    <3> QED
      BY <2>1, <3>1 DEF Frame, Frames, Kinds
  <2>5. PICK p \in PeerType :
          /\ p = QueuePending(peer, f)
          /\ ToSet(peer.pending) \subseteq ToSet(p.pending)
          /\ f \notin Writing(peer) => f \in ToSet(p.pending)
    BY <1>0, <2>4, QueuePendingType
  <2>6. OpenPeerInternal(p)
    BY <2>2, <2>5
  <2>7. /\ peer' \in PeerType /\ peer'.pending = p.pending
        /\ reports' \in Seq(ReportType) /\ Shows
        /\ native' \in Notices /\ count' \in [sends : Nat, binds : Nat]
    BY <2>6, OpenPeerShows
  <2>8. Owed'
    <3>1. owed' \subseteq owed \cup {f} /\ (f \in Writing(peer) => owed' = owed)
      BY <2>2
    <3>2. owed' \subseteq ToSet(p.pending)
      BY <1>0, <2>5, <3>1
    <3> QED
      BY <2>4, <2>7, <3>1, <3>2 DEF Owed, NothingOwedIsLost
  <2>9. TypeOK'
    BY <2>3, <2>7 DEF TypeOK, handled
  <2> QED
    BY <2>3, <2>7, <2>8, <2>9 DEF EndpointMoves, handled
<1>3. CASE OnClosePeer
  <2>1. PICK q \in PeerType : q = DestroyPeerChannel(peer)
    BY <1>0 DEF DestroyPeerChannel, PeerType, Actives, Notices
  <2>2. PICK n \in Nat : n = q.incarnation + 1
    BY DEF PeerType
  <2>3. PICK p \in PeerType :
          p = [q EXCEPT !.pending = <<>>, !.incarnation = n,
                        !.presence = "Offline"]
    <3>a. <<>> \in Seq(Frames)
      OBVIOUS
    <3>0. PICK e \in Seq(Frames) : e = <<>>
      BY <3>a
    <3>1. [q EXCEPT !.pending = e, !.incarnation = n, !.presence = "Offline"]
            \in PeerType
      BY DEF PeerType, Presences
    <3> QED
      BY <3>0, <3>1
  <2>4. SetPeer(p)
    <3>1. SetPeer([q EXCEPT !.pending = <<>>, !.incarnation = q.incarnation + 1,
                            !.presence = "Offline"])
      BY <1>3, <2>1 DEF OnClosePeer
    <3> QED
      BY <2>2, <2>3, <3>1
  <2>5. Takes("close") /\ native' = None /\ owed' = {} /\ UNCHANGED count
    BY <1>3 DEF OnClosePeer
  <2>6. commands' \in Seq(Commands) /\ UNCHANGED <<phase, stop, handled, received>>
    BY <2>5, TakesType
  <2>7. peer' = p /\ reports' \in Seq(ReportType) /\ Shows
    BY <2>4, SetPeerShows
  <2>8. TypeOK'
    BY <2>5, <2>6, <2>7 DEF TypeOK, handled, Notices
  <2> QED
    BY <2>5, <2>6, <2>7, <2>8 DEF EndpointMoves, handled, Owed, NothingOwedIsLost
<1>4. CASE OnNewPort
  <2>1. PICK p \in PeerType : p = peer
    BY <1>0
  <2>2. Bind(p) /\ UNCHANGED <<phase, stop, commands, owed, handled, received>>
    BY <1>4, <2>1 DEF OnNewPort
  <2>3. PICK q \in PeerType : q = BindPeerStream(p) /\ q.pending = p.pending
    BY BindType
  <2>4. SetPeer(q) /\ native' = None
        /\ count' = [count EXCEPT !.binds = count.binds + 1]
    BY <2>2, <2>3 DEF Bind
  <2>5. peer' = q /\ reports' \in Seq(ReportType) /\ Shows
    BY <2>4, SetPeerShows
  <2>6. count' \in [sends : Nat, binds : Nat]
    BY <2>4 DEF TypeOK
  <2>7. TypeOK'
    BY <2>2, <2>4, <2>5, <2>6 DEF TypeOK, handled, Notices
  <2>8. Owed'
    BY <2>1, <2>2, <2>3, <2>5 DEF Owed, NothingOwedIsLost
  <2> QED
    BY <2>2, <2>5, <2>7, <2>8 DEF EndpointMoves, handled
<1>5. ASSUME NEW p \in PeerType, SetPeer(p), p.pending = peer.pending,
             UNCHANGED <<phase, stop, commands, native, owed, handled, received,
                         count>>
      PROVE  TypeOK' /\ Owed' /\ EndpointMoves
  <2>1. peer' = p /\ reports' \in Seq(ReportType) /\ Shows
    BY <1>5, SetPeerShows
  <2>2. TypeOK'
    BY <1>5, <2>1 DEF TypeOK, handled
  <2>3. Owed'
    BY <1>5, <2>1 DEF Owed, NothingOwedIsLost
  <2> QED
    BY <1>5, <2>1, <2>2, <2>3 DEF EndpointMoves, handled
<1>6. PICK h \in PeerType : h = Heard /\ h.pending = peer.pending
  <2>1. Heard \in PeerType /\ Heard.pending = peer.pending
    BY <1>0 DEF Heard, PeerType
  <2> QED
    BY <2>1
<1>7. CASE OnStreamUpdate
  <2>1. PICK x \in Presences : SetPeer(Presence(peer, x))
    BY <1>0, <1>7 DEF OnStreamUpdate, Presences, PeerType
  <2>2. PICK p \in PeerType : p = Presence(peer, x) /\ p.pending = peer.pending
    BY <1>0, PresenceType
  <2> QED
    BY <1>5, <1>7, <2>1, <2>2 DEF OnStreamUpdate
<1>8. CASE OnPing
  <2>1. PICK n \in Nat : n = count.sends
    BY DEF TypeOK
  <2>2. PICK q \in PeerType :
          /\ q = QueuePong(h, n)
          /\ \A f \in ToSet(h.pending) :
               f.kind # "pong" => f \in ToSet(q.pending)
    BY QueuePongType
  <2>3. PICK p \in PeerType : p = Presence(q, "Online") /\ p.pending = q.pending
    BY PresenceType DEF Presences
  <2>4. /\ SetPeer(p) /\ count' = [count EXCEPT !.sends = count.sends + 1]
        /\ UNCHANGED <<phase, stop, commands, native, owed, handled, received>>
    BY <1>6, <1>8, <2>1, <2>2, <2>3 DEF OnPing
  <2>5. peer' = p /\ reports' \in Seq(ReportType) /\ Shows
    BY <2>4, SetPeerShows
  <2>6. count' \in [sends : Nat, binds : Nat]
    BY <2>4 DEF TypeOK
  <2>7. TypeOK'
    BY <2>4, <2>5, <2>6 DEF TypeOK, handled
  <2>8. Owed'
    BY <1>0, <1>6, <2>2, <2>3, <2>4, <2>5 DEF Owed, NothingOwedIsLost
  <2> QED
    BY <2>4, <2>5, <2>7, <2>8 DEF EndpointMoves, handled
<1>9. CASE OnPongOrControl
  <2>1. PICK p \in PeerType : p = Presence(h, "Online") /\ p.pending = h.pending
    BY PresenceType DEF Presences
  <2>2. SetPeer(p) \/ SetPeer(h)
    BY <1>6, <1>9, <2>1 DEF OnPongOrControl
  <2> QED
    BY <1>5, <1>6, <1>9, <2>1, <2>2 DEF OnPongOrControl
<1>10. ASSUME peer' \in PeerType, peer'.presence = peer.presence,
              owed' \subseteq owed, owed' \subseteq ToSet(peer'.pending),
              native' \in Notices, count' \in [sends : Nat, binds : Nat],
              UNCHANGED <<phase, stop, commands, handled, received, reports>>
       PROVE  TypeOK' /\ Owed' /\ EndpointMoves
  <2>1. TypeOK'
    BY <1>10 DEF TypeOK, handled
  <2>2. Owed'
    BY <1>10 DEF Owed, NothingOwedIsLost
  <2> QED
    BY <1>10, <2>1, <2>2 DEF EndpointMoves, Shows, handled, TypeOK
<1>11. CASE ApplyWriteStatus
  <2>1. PICK status \in {"ok", "fail"} :
          \/ peer' = peer
          \/ peer' = [peer EXCEPT !.notice = [native EXCEPT !.status = status]]
    BY <1>11 DEF ApplyWriteStatus
  <2>2. native # None /\ native' = None
        /\ UNCHANGED <<phase, stop, commands, owed, handled, received, reports,
                       count>>
    BY <1>11 DEF ApplyWriteStatus
  <2>3. PICK n \in Notices : n = [native EXCEPT !.status = status]
    BY <2>2 DEF TypeOK, Notices
  <2>4. /\ [peer EXCEPT !.notice = n] \in PeerType
        /\ [peer EXCEPT !.notice = n].presence = peer.presence
        /\ [peer EXCEPT !.notice = n].pending = peer.pending
    BY <1>0 DEF PeerType
  <2>5. peer' \in PeerType /\ peer'.presence = peer.presence
        /\ peer'.pending = peer.pending
    BY <1>0, <2>1, <2>3, <2>4
  <2>6. native' \in Notices /\ count' \in [sends : Nat, binds : Nat]
    BY <2>2 DEF Notices, TypeOK
  <2> QED
    BY <1>0, <1>10, <2>2, <2>5, <2>6
<1>12. CASE Heartbeat
  <2>1. Ping \in Frames
    BY DEF Ping, Frame, Frames, Kinds
  <2>2. PICK f \in Frames : f = Ping
    BY <2>1
  <2>3. /\ peer' = QueuePending(peer, f)
        /\ count' = [count EXCEPT !.sends = count.sends + 1]
        /\ UNCHANGED <<phase, stop, commands, native, owed, handled, received,
                       reports>>
    BY <1>12, <2>2 DEF Heartbeat
  <2>4. /\ peer' \in PeerType /\ peer'.presence = peer.presence
        /\ ToSet(peer.pending) \subseteq ToSet(peer'.pending)
    BY <1>0, <2>3, QueuePendingType
  <2>5. native' \in Notices /\ count' \in [sends : Nat, binds : Nat]
    BY <2>3 DEF TypeOK
  <2> QED
    BY <1>0, <1>10, <2>3, <2>4, <2>5
<1>13. CASE Silence
  <2>1. /\ peer' = [peer EXCEPT !.last = "old"]
        /\ UNCHANGED <<phase, stop, commands, native, owed, handled, received,
                       reports, count>>
    BY <1>13 DEF Silence
  <2>2. peer' \in PeerType /\ peer'.presence = peer.presence
        /\ peer'.pending = peer.pending
    BY <1>0, <2>1 DEF PeerType
  <2>3. native' \in Notices /\ count' \in [sends : Nat, binds : Nat]
    BY <2>1 DEF TypeOK
  <2> QED
    BY <1>0, <1>10, <2>1, <2>2, <2>3
<1>14. CASE OfflineAfter
  <2>1. PICK p \in PeerType :
          p = Presence(peer, "Offline") /\ p.pending = peer.pending
    BY <1>0, PresenceType DEF Presences
  <2> QED
    BY <1>5, <1>14, <2>1 DEF OfflineAfter
<1>15. CASE ProcessWriteNotice
  <2>1. PICK p \in PeerType :
          p = [peer EXCEPT !.notice = None] /\ p.pending = peer.pending
    <3>1. [peer EXCEPT !.notice = None] \in PeerType
          /\ [peer EXCEPT !.notice = None].pending = peer.pending
      BY <1>0 DEF PeerType, Notices
    <3> QED
      BY <3>1
  <2>2. PICK q \in PeerType :
          /\ q = [peer EXCEPT !.notice = None, !.active = None]
          /\ q.pending = peer.pending
    <3>1. [peer EXCEPT !.notice = None, !.active = None] \in PeerType
          /\ [peer EXCEPT !.notice = None, !.active = None].pending = peer.pending
      BY <1>0 DEF PeerType, Notices, Actives
    <3> QED
      BY <3>1
  <2>3. PICK x \in Presences :
          x = IF peer.last = "recent" THEN "Connecting" ELSE "Offline"
    BY DEF Presences
  <2>4. PICK r \in PeerType : r = Presence(q, x) /\ r.pending = q.pending
    BY PresenceType
  <2>5. SetPeer(p) \/ SetPeer(q) \/ SetPeer(r)
    BY <1>15, <2>1, <2>2, <2>3, <2>4 DEF ProcessWriteNotice
  <2> QED
    BY <1>5, <1>15, <2>1, <2>2, <2>4, <2>5 DEF ProcessWriteNotice
<1>16. CASE TryStartWrite
  <2>1. peer.pending # <<>> /\ owed' = owed \ {Head(peer.pending)}
        /\ UNCHANGED <<phase, stop, commands, handled, received, reports, count>>
    BY <1>16 DEF TryStartWrite
  <2>2. PICK f \in Frames : f = Head(peer.pending)
    BY <1>0, <2>1
  <2>3. PICK t \in Seq(Frames) : t = Tail(peer.pending)
    <3>1. Tail(peer.pending) \in Seq(Frames)
      BY <1>0, <2>1
    <3> QED
      BY <3>1
  <2>4. owed' \subseteq owed /\ owed' \subseteq ToSet(t)
    <3>1. ToSet(peer.pending) \ {f} \subseteq ToSet(t)
      BY <1>0, <2>1, <2>2, <2>3, ToSetTail
    <3> QED
      BY <1>0, <2>1, <2>2, <3>1
  <2>5. CASE peer' = [peer EXCEPT !.pending = t] /\ UNCHANGED native
    <3>1. peer' \in PeerType /\ peer'.presence = peer.presence
          /\ peer'.pending = t
      BY <1>0, <2>5 DEF PeerType
    <3>2. native' \in Notices /\ count' \in [sends : Nat, binds : Nat]
      BY <2>1, <2>5 DEF TypeOK
    <3> QED
      BY <1>10, <2>1, <2>4, <3>1, <3>2
  <2>6. ASSUME NEW finished \in BOOLEAN,
               peer' = Started([peer EXCEPT
                         !.active = [token |-> peer.next, frame |-> f],
                         !.pending = t, !.next = peer.next + 1], finished),
               native' = IF finished THEN None
                         ELSE [token |-> peer.next, status |-> "open",
                               incarnation |-> peer.incarnation]
        PROVE  TypeOK' /\ Owed' /\ EndpointMoves
    <3>1. PICK a \in Actives : a = [token |-> peer.next, frame |-> f]
      BY <1>0 DEF Actives, PeerType
    <3>2. PICK n \in Nat : n = peer.next + 1
      BY <1>0 DEF PeerType
    <3>3. PICK p \in PeerType :
            /\ p = [peer EXCEPT !.active = a, !.pending = t, !.next = n]
            /\ p.presence = peer.presence /\ p.pending = t /\ p.active = a
      <4> DEFINE q == [peer EXCEPT !.active = a, !.pending = t, !.next = n]
      <4>1. q \in PeerType
        BY <1>0 DEF PeerType
      <4>2. q.presence = peer.presence /\ q.pending = t /\ q.active = a
        BY <1>0 DEF PeerType
      <4> QED
        BY <4>1, <4>2
    <3>4. peer' = Started(p, finished)
      BY <2>6, <3>1, <3>2, <3>3
    <3>5. PICK m \in Notices : m = [token |-> p.active.token, status |-> "fail",
                                    incarnation |-> p.incarnation]
      <4>1. p.active.token \in Nat
        BY <1>0, <3>1, <3>3 DEF PeerType
      <4>2. p.incarnation \in Nat
        BY DEF PeerType
      <4> QED
        BY <4>1, <4>2 DEF Notices
    <3>6. peer' = p \/ peer' = [p EXCEPT !.notice = m]
      BY <3>4, <3>5 DEF Started
    <3>7. peer' \in PeerType /\ peer'.presence = peer.presence
          /\ peer'.pending = t
      BY <3>3, <3>6 DEF PeerType
    <3>8. native' \in Notices
      BY <1>0, <2>6 DEF Notices, PeerType
    <3>9. count' \in [sends : Nat, binds : Nat]
      BY <2>1 DEF TypeOK
    <3> QED
      BY <1>10, <2>1, <2>4, <3>7, <3>8, <3>9
  <2>7. \/ peer' = [peer EXCEPT !.pending = t] /\ UNCHANGED native
        \/ \E finished \in BOOLEAN :
             /\ peer' = Started([peer EXCEPT
                           !.active = [token |-> peer.next, frame |-> f],
                           !.pending = t, !.next = peer.next + 1], finished)
             /\ native' = IF finished THEN None
                          ELSE [token |-> peer.next, status |-> "open",
                                incarnation |-> peer.incarnation]
    BY <1>16, <2>2, <2>3, Zenon DEF TryStartWrite
  <2> QED
    BY <2>5, <2>6, <2>7
<1>17. ASSUME NEW c \in Commands, Enqueue(c)
       PROVE  TypeOK' /\ Owed' /\ EndpointMoves
  <2>1. /\ commands' = Append(commands, c)
        /\ count' = [count EXCEPT !.sends = count.sends + 1]
        /\ UNCHANGED <<phase, stop, peer, native, owed, handled, received, reports>>
    BY <1>17 DEF Enqueue
  <2>2. commands' \in Seq(Commands) /\ count' \in [sends : Nat, binds : Nat]
    BY <2>1 DEF TypeOK
  <2>3. TypeOK'
    BY <2>1, <2>2 DEF TypeOK, handled
  <2> QED
    BY <1>0, <2>1, <2>3 DEF EndpointMoves, Shows, Owed, NothingOwedIsLost, handled,
                            TypeOK
<1>18. ASSUME NEW b \in Payloads, Send(b)
       PROVE  TypeOK' /\ Owed' /\ EndpointMoves
  <2>1. PICK c \in Commands : c = [type |-> "send", body |-> b]
    BY DEF Commands
  <2> QED
    BY <1>17, <1>18, <2>1 DEF Send
<1>19. CASE ClosePeer
  <2>1. PICK c \in Commands : c = [type |-> "close"]
    BY DEF Commands
  <2> QED
    BY <1>17, <1>19, <2>1 DEF ClosePeer
<1> QED
  BY <1>1, <1>2, <1>3, <1>4, <1>7, <1>8, <1>9, <1>11, <1>12, <1>13, <1>14,
     <1>15, <1>16, <1>18, <1>19 DEF EndpointStep, Pump
-----------------------------------------------------------------------------
(* The reports under way to the model thread.                                *)

\* The reports of one kind that the endpoint of epoch e has under way.
Of(rs, e, k) == {i \in 1 .. Len(rs) : rs[i].epoch = e /\ rs[i].kind = k}

\* A session that shows s shows p once the reports are in.
Follows(rs, e, s, p) ==
  \/ Of(rs, e, "presence") = {} /\ s = p
  \/ \E i \in Of(rs, e, "presence") :
        (\A j \in Of(rs, e, "presence") : j <= i) /\ rs[i].value = p

Coming(rs, e) == Cardinality(Of(rs, e, "frame"))

LEMMA OfAppend ==
  ASSUME NEW rs \in Seq(ReportType), NEW r \in ReportType, NEW e, NEW k
  PROVE  Of(Append(rs, r), e, k) =
           IF r.epoch = e /\ r.kind = k THEN Of(rs, e, k) \cup {Len(rs) + 1}
           ELSE Of(rs, e, k)
<1>1. /\ Len(Append(rs, r)) = Len(rs) + 1 /\ Append(rs, r)[Len(rs) + 1] = r
      /\ \A i \in 1 .. Len(rs) : Append(rs, r)[i] = rs[i]
  OBVIOUS
<1> QED
  BY <1>1 DEF Of

LEMMA OfTail ==
  ASSUME NEW rs \in Seq(ReportType), rs # <<>>, NEW e, NEW k
  PROVE  /\ \A i : i \in Of(Tail(rs), e, k) => i \in Nat /\ i + 1 \in Of(rs, e, k)
         /\ \A i \in Of(rs, e, k) : i # 1 => i - 1 \in Of(Tail(rs), e, k)
         /\ 1 \in Of(rs, e, k) <=> Head(rs).epoch = e /\ Head(rs).kind = k
<1>1. /\ Len(Tail(rs)) = Len(rs) - 1 /\ Len(rs) \in Nat \ {0}
      /\ \A i \in 1 .. Len(rs) - 1 : Tail(rs)[i] = rs[i + 1]
      /\ Head(rs) = rs[1]
  OBVIOUS
<1> QED
  BY <1>1 DEF Of

LEMMA OfFinite ==
  ASSUME NEW rs \in Seq(ReportType), NEW e, NEW k
  PROVE  IsFiniteSet(Of(rs, e, k)) /\ Cardinality(Of(rs, e, k)) \in Nat
<1>1. IsFiniteSet(1 .. Len(rs))
  BY FS_Interval
<1>2. Of(rs, e, k) \in SUBSET (1 .. Len(rs))
  BY DEF Of
<1>3. IsFiniteSet(Of(rs, e, k))
  BY <1>1, <1>2, FS_Subset
<1> QED
  BY <1>3, FS_CardinalityType

\* A report of another kind or epoch changes nothing, one of the presence is
\* what the session will show.
LEMMA FollowsAppend ==
  ASSUME NEW rs \in Seq(ReportType), NEW r \in ReportType, NEW e, NEW s, NEW p
  PROVE  /\ r.epoch = e /\ r.kind = "presence" =>
              Follows(Append(rs, r), e, s, r.value)
         /\ ~ (r.epoch = e /\ r.kind = "presence") /\ Follows(rs, e, s, p) =>
              Follows(Append(rs, r), e, s, p)
<1>1. /\ Len(rs) \in Nat /\ Append(rs, r)[Len(rs) + 1] = r
      /\ \A i \in 1 .. Len(rs) : Append(rs, r)[i] = rs[i]
  OBVIOUS
<1>2. \A i \in Of(rs, e, "presence") : i \in 1 .. Len(rs)
  BY DEF Of
<1>3. CASE r.epoch = e /\ r.kind = "presence"
  <2>1. Of(Append(rs, r), e, "presence") = Of(rs, e, "presence") \cup {Len(rs) + 1}
    BY <1>3, OfAppend
  <2> QED
    BY <1>1, <1>2, <1>3, <2>1 DEF Follows
<1>4. CASE ~ (r.epoch = e /\ r.kind = "presence")
  <2>1. Of(Append(rs, r), e, "presence") = Of(rs, e, "presence")
    BY <1>4, OfAppend
  <2> QED
    BY <1>1, <1>2, <1>4, <2>1 DEF Follows
<1> QED
  BY <1>3, <1>4

LEMMA FollowsTail ==
  ASSUME NEW rs \in Seq(ReportType), rs # <<>>, NEW e, NEW s, NEW p,
         Follows(rs, e, s, p)
  PROVE  Follows(Tail(rs), e,
                 IF Head(rs).epoch = e /\ Head(rs).kind = "presence"
                 THEN Head(rs).value ELSE s, p)
<1> DEFINE A == Of(rs, e, "presence")
           B == Of(Tail(rs), e, "presence")
<1>1. /\ \A i : i \in B => i \in Nat /\ i + 1 \in A
      /\ \A i \in A : i # 1 => i - 1 \in B
      /\ 1 \in A <=> Head(rs).epoch = e /\ Head(rs).kind = "presence"
  BY OfTail
<1>2. /\ \A i \in A : i \in Nat /\ i \in 1 .. Len(rs)
      /\ \A i \in 1 .. Len(rs) - 1 : Tail(rs)[i] = rs[i + 1]
      /\ Head(rs) = rs[1]
  BY DEF Of
<1>3. CASE A = {} /\ s = p
  <2>1. B = {} /\ 1 \notin A
    BY <1>1, <1>3
  <2> QED
    BY <1>1, <1>3, <2>1 DEF Follows
<1>4. ASSUME NEW i \in A, \A j \in A : j <= i, rs[i].value = p
      PROVE  Follows(Tail(rs), e,
                 IF Head(rs).epoch = e /\ Head(rs).kind = "presence"
                 THEN Head(rs).value ELSE s, p)
  <2>1. CASE i = 1
    <3>1. B = {}
      <4> SUFFICES ASSUME NEW j \in B PROVE FALSE
        OBVIOUS
      <4>1. j \in Nat /\ j + 1 \in A
        BY <1>1
      <4>2. j \in 1 .. Len(Tail(rs))
        BY DEF Of
      <4> HIDE DEF A, B
      <4> QED
        BY <1>4, <2>1, <4>1, <4>2
    <3> QED
      BY <1>1, <1>2, <1>4, <2>1, <3>1 DEF Follows
  <2>2. CASE i # 1
    <3>1. i - 1 \in B
      BY <1>1, <1>4, <2>2
    <3>2. \A j \in B : j <= i - 1
      <4> HIDE DEF A, B
      <4> QED
        BY <1>1, <1>2, <1>4
    <3>3. Tail(rs)[i - 1].value = p
      <4> HIDE DEF A, B
      <4>1. i - 1 \in 1 .. Len(rs) - 1 /\ (i - 1) + 1 = i
        BY <1>2, <1>4, <2>2
      <4> QED
        BY <1>2, <1>4, <4>1
    <3> QED
      BY <3>1, <3>2, <3>3 DEF Follows
  <2> QED
    BY <2>1, <2>2
<1> QED
  BY <1>3, <1>4 DEF Follows

LEMMA ComingAppend ==
  ASSUME NEW rs \in Seq(ReportType), NEW r \in ReportType, NEW e
  PROVE  Coming(Append(rs, r), e) =
           IF r.epoch = e /\ r.kind = "frame" THEN Coming(rs, e) + 1
           ELSE Coming(rs, e)
<1> DEFINE A == Of(rs, e, "frame")
<1>1. IsFiniteSet(A) /\ Cardinality(A) \in Nat
  BY OfFinite
<1>a. Len(rs) + 1 \notin A
  BY DEF Of
<1>2. Cardinality(A \cup {Len(rs) + 1}) = Cardinality(A) + 1
  <2> HIDE DEF A
  <2> QED
    BY <1>1, <1>a, FS_AddElement
<1>3. CASE r.epoch = e /\ r.kind = "frame"
  <2>1. Of(Append(rs, r), e, "frame") = A \cup {Len(rs) + 1}
    BY <1>3, OfAppend
  <2> QED
    BY <1>2, <1>3, <2>1 DEF Coming
<1>4. CASE ~ (r.epoch = e /\ r.kind = "frame")
  <2>1. Of(Append(rs, r), e, "frame") = A
    BY <1>4, OfAppend
  <2> QED
    BY <1>4, <2>1 DEF Coming
<1> QED
  BY <1>3, <1>4

LEMMA ComingTail ==
  ASSUME NEW rs \in Seq(ReportType), rs # <<>>, NEW e
  PROVE  /\ Coming(rs, e) \in Nat /\ Coming(Tail(rs), e) \in Nat
         /\ Coming(Tail(rs), e) =
              IF Head(rs).epoch = e /\ Head(rs).kind = "frame"
              THEN Coming(rs, e) - 1 ELSE Coming(rs, e)
<1> DEFINE A == Of(rs, e, "frame")
           B == Of(Tail(rs), e, "frame")
           f == [i \in B |-> i + 1]
<1>1. /\ \A i : i \in B => i \in Nat /\ i + 1 \in A
      /\ \A i \in A : i # 1 => i - 1 \in B
      /\ 1 \in A <=> Head(rs).epoch = e /\ Head(rs).kind = "frame"
  BY OfTail
<1>2. IsFiniteSet(A) /\ Cardinality(A) \in Nat
  BY OfFinite
<1>3. Tail(rs) \in Seq(ReportType)
  OBVIOUS
<1>4. IsFiniteSet(B) /\ Cardinality(B) \in Nat
  BY <1>3, OfFinite
<1>5. (\A i \in A : i \in Nat) /\ (\A i \in B : i \in Nat \ {0})
  BY DEF Of
<1>6. Cardinality(A \ {1}) = Cardinality(B)
  <2> HIDE DEF A, B
  <2>1. f \in Bijection(B, A \ {1})
    <3>1. f \in [B -> A \ {1}]
      BY <1>1, <1>5
    <3>2. \A x, y \in B : f[x] = f[y] => x = y
      BY <1>5
    <3>3. \A y \in A \ {1} : \E x \in B : f[x] = y
      <4> SUFFICES ASSUME NEW y \in A \ {1} PROVE \E x \in B : f[x] = y
        OBVIOUS
      <4>1. y - 1 \in B /\ (y - 1) + 1 = y
        BY <1>1, <1>5
      <4>2. f[y - 1] = y
        BY <4>1
      <4> QED
        BY <4>1, <4>2
    <3> HIDE DEF f
    <3> QED
      BY <3>1, <3>2, <3>3 DEF Bijection, Injection, Surjection,
                                 IsInjective
  <2> QED
    BY <1>4, <2>1, FS_Bijection DEF ExistsBijection
<1>7. Cardinality(A \ {1}) = IF 1 \in A THEN Cardinality(A) - 1 ELSE Cardinality(A)
  <2> HIDE DEF A
  <2> QED
    BY <1>2, FS_RemoveElement
<1> QED
  BY <1>1, <1>2, <1>4, <1>6, <1>7 DEF Coming
-----------------------------------------------------------------------------
(* The inductive invariant                                                   *)

\* No report is of a later epoch; the endpoint hands frames over only to a
\* session that is bound, and stays so until the next endpoint; and the session
\* follows the endpoint that runs.
Following ==
  /\ \A i \in 1 .. Len(reports) : reports[i].epoch <= epoch
  /\ Of(reports, epoch, "frame") # {} => bound
  /\ Running =>
       /\ Follows(reports, epoch, seen, peer.presence)
       /\ received.applied + Coming(reports, epoch) = received.handed

\* Only a conflict stops an endpoint, and the session shows it.  An endpoint that
\* runs has reported no failure and the session shows none; one that does not has,
\* or the session shows it; and readiness is reported, and taken, before a failure.
Failing ==
  /\ (stop => conflict) /\ (conflict => life = "Failed")
  /\ Running => Of(reports, epoch, "failed") = {}
  /\ life = "Failed" /\ ~conflict => ~Running /\ Of(reports, epoch, "ready") = {}
  /\ ~Running /\ life # "Failed" => Of(reports, epoch, "failed") # {}
  /\ \A i \in Of(reports, epoch, "ready"), j \in Of(reports, epoch, "failed") : i < j

IndInv == TypeOK /\ Owed /\ Following /\ Failing

LEMMA EmptyReports ==
  ASSUME NEW rs, NEW e, NEW s, \A k : Of(rs, e, k) = {}
  PROVE  Follows(rs, e, s, s) /\ Coming(rs, e) = 0
BY FS_EmptySet DEF Follows, Coming

\* Reports of the endpoint that runs join the others.
LEMMA FollowingAppend ==
  ASSUME NEW rs \in Seq(ReportType), NEW r \in ReportType, NEW e \in Nat,
         r.epoch = e, \A i \in 1 .. Len(rs) : rs[i].epoch <= e
  PROVE  \A i \in 1 .. Len(Append(rs, r)) : Append(rs, r)[i].epoch <= e
<1>1. /\ Len(Append(rs, r)) = Len(rs) + 1 /\ Append(rs, r)[Len(rs) + 1] = r
      /\ \A i \in 1 .. Len(rs) : Append(rs, r)[i] = rs[i]
  OBVIOUS
<1>2. ASSUME NEW i \in 1 .. Len(Append(rs, r)) PROVE Append(rs, r)[i].epoch <= e
  <2>1. i \in 1 .. Len(rs) \/ i = Len(rs) + 1
    BY <1>1
  <2> QED
    BY <1>1, <2>1
<1> QED
  BY <1>2

LEMMA EndpointFollows ==
  ASSUME TypeOK, Following, Failing, EndpointMoves
  PROVE  Following' /\ Failing'
<1>1. PICK x \in Presences : x = peer'.presence
  BY DEF EndpointMoves, PeerType
<1>2. UNCHANGED <<phase, stop, epoch, life, conflict, bound, seen, received>>
  BY DEF EndpointMoves
<1>3. CASE reports' = reports /\ peer'.presence = peer.presence
  BY <1>2, <1>3 DEF Following, Failing, Running
<1>4. CASE reports' = Append(reports, Report("presence", peer'.presence))
  <2>1. PICK r \in ReportType : r = [epoch |-> epoch, kind |-> "presence",
                                     value |-> x]
    <3>1. [epoch |-> epoch, kind |-> "presence", value |-> x] \in ReportType
      BY DEF ReportType, TypeOK
    <3> QED
      BY <3>1
  <2>2. reports' = Append(reports, r)
    BY <1>1, <1>4, <2>1 DEF Report
  <2>3. r.epoch = epoch /\ r.kind = "presence" /\ r.value = x
    BY <2>1
  <2>4. reports \in Seq(ReportType) /\ epoch \in Nat
    BY DEF TypeOK
  <2>5. /\ Of(reports', epoch, "frame") = Of(reports, epoch, "frame")
        /\ Of(reports', epoch, "failed") = Of(reports, epoch, "failed")
        /\ Of(reports', epoch, "ready") = Of(reports, epoch, "ready")
    BY <2>2, <2>3, <2>4, OfAppend
  <2>6. Coming(reports', epoch) = Coming(reports, epoch)
    BY <2>5 DEF Coming
  <2>7. Follows(reports', epoch, seen, x)
    BY <2>2, <2>3, <2>4, FollowsAppend
  <2>8. \A i \in 1 .. Len(reports') : reports'[i].epoch <= epoch
    BY <2>2, <2>3, <2>4, FollowingAppend DEF Following
  <2> QED
    BY <1>1, <1>2, <2>5, <2>6, <2>7, <2>8 DEF Following, Failing, Running
<1> QED
  BY <1>3, <1>4 DEF EndpointMoves, Shows

\* The frame report comes after the change of presence, if there is one.
LEMMA ApplicationKeeps ==
  ASSUME IndInv, OnApplication
  PROVE  IndInv'
<1>1. /\ reports \in Seq(ReportType) /\ epoch \in Nat /\ peer \in PeerType
      /\ received \in [handed : Nat, applied : Nat]
  BY DEF IndInv, TypeOK
<1>2. PICK h \in PeerType : h = Heard /\ h.pending = peer.pending
  <2>1. Heard \in PeerType /\ Heard.pending = peer.pending
    BY <1>1 DEF Heard, PeerType
  <2> QED
    BY <2>1
<1>3. PICK p \in PeerType : /\ p = Presence(h, "Online") /\ p.pending = h.pending
                            /\ p.presence = "Online"
  BY PresenceType DEF Presences
<1>4. /\ peer' = p
      /\ UNCHANGED <<phase, stop, commands, native, owed, handled, count>>
  BY <1>2, <1>3 DEF OnApplication
<1>5. PICK mid \in Seq(ReportType) :
        /\ mid = IF peer.presence = "Online" THEN reports
                 ELSE Append(reports, Report("presence", "Online"))
        /\ \A i \in 1 .. Len(mid) : mid[i].epoch <= epoch
        /\ Of(mid, epoch, "frame") = Of(reports, epoch, "frame")
        /\ Of(mid, epoch, "failed") = Of(reports, epoch, "failed")
        /\ Of(mid, epoch, "ready") = Of(reports, epoch, "ready")
        /\ Running => Follows(mid, epoch, seen, "Online")
  <2>1. CASE peer.presence = "Online"
    BY <1>1, <2>1 DEF IndInv, Following
  <2>2. CASE peer.presence # "Online"
    <3>1. PICK r \in ReportType : r = Report("presence", "Online")
      <4>1. Report("presence", "Online") \in ReportType
        BY <1>1 DEF Report, ReportType, Presences
      <4> QED
        BY <4>1
    <3>2. r.epoch = epoch /\ r.kind = "presence" /\ r.value = "Online"
      BY <3>1 DEF Report
    <3>3. Append(reports, r) \in Seq(ReportType)
      BY <1>1
    <3>4. /\ Of(Append(reports, r), epoch, "frame") = Of(reports, epoch, "frame")
          /\ Of(Append(reports, r), epoch, "failed") = Of(reports, epoch, "failed")
          /\ Of(Append(reports, r), epoch, "ready") = Of(reports, epoch, "ready")
      BY <1>1, <3>2, OfAppend
    <3>5. Follows(Append(reports, r), epoch, seen, "Online")
      BY <1>1, <3>2, FollowsAppend
    <3>6. \A i \in 1 .. Len(Append(reports, r)) :
            Append(reports, r)[i].epoch <= epoch
      BY <1>1, <3>2, FollowingAppend DEF IndInv, Following
    <3> QED
      BY <2>2, <3>1, <3>3, <3>4, <3>5, <3>6
  <2> QED
    BY <2>1, <2>2
<1>6. CASE ~ bound
  <2>1. reports' = mid
    <3>1. CASE peer.presence = "Online"
      <4>1. reports' = reports \o (<<>> \o <<>>)
        BY <1>6, <3>1 DEF OnApplication, Post
      <4>2. reports' = reports
        BY <1>1, <4>1
      <4> QED
        BY <1>5, <3>1, <4>2
    <3>2. CASE peer.presence # "Online"
      <4>1. PICK r \in ReportType : r = Report("presence", "Online")
        <5>1. Report("presence", "Online") \in ReportType
          BY <1>1 DEF Report, ReportType, Presences
        <5> QED
          BY <5>1
      <4>2. reports' = reports \o (<<r>> \o <<>>)
        BY <1>6, <3>2, <4>1 DEF OnApplication, Post
      <4>3. <<r>> \o <<>> = <<r>>
        OBVIOUS
      <4>4. reports' = Append(reports, r)
        BY <1>1, <4>2, <4>3
      <4> QED
        BY <1>5, <3>2, <4>1, <4>4
    <3> QED
      BY <3>1, <3>2
  <2>2. received' = received
    <3>1. received' = [received EXCEPT !.handed = received.handed]
      BY <1>6 DEF OnApplication
    <3> QED
      BY <1>1, <3>1
  <2>3. TypeOK'
    BY <1>1, <1>4, <1>5, <2>1, <2>2 DEF IndInv, TypeOK, handled
  <2>4. Coming(mid, epoch) = Coming(reports, epoch)
    BY <1>5 DEF Coming
  <2>5. Following'
    BY <1>3, <1>4, <1>5, <2>1, <2>2, <2>4 DEF IndInv, Following, Running, handled
  <2>6. Owed'
    BY <1>2, <1>3, <1>4 DEF IndInv, Owed, NothingOwedIsLost
  <2>7. Failing'
    BY <1>4, <1>5, <2>1 DEF IndInv, Failing, Running, handled
  <2> QED
    BY <2>3, <2>5, <2>6, <2>7 DEF IndInv
<1>7. CASE bound
  <2>1. PICK f \in ReportType : f = Report("frame", None)
    <3>1. Report("frame", None) \in ReportType
      BY <1>1 DEF Report, ReportType
    <3> QED
      BY <3>1
  <2>2. f.epoch = epoch /\ f.kind = "frame"
    BY <2>1 DEF Report
  <2>3. reports' = Append(mid, f)
    <3>1. CASE peer.presence = "Online"
      <4>1. reports' = reports \o (<<>> \o <<f>>)
        BY <1>7, <2>1, <3>1 DEF OnApplication, Post
      <4>2. <<>> \o <<f>> = <<f>>
        OBVIOUS
      <4>3. reports' = Append(reports, f)
        BY <1>1, <4>1, <4>2
      <4> QED
        BY <1>5, <3>1, <4>3
    <3>2. CASE peer.presence # "Online"
      <4>1. PICK r \in ReportType : r = Report("presence", "Online")
        <5>1. Report("presence", "Online") \in ReportType
          BY <1>1 DEF Report, ReportType, Presences
        <5> QED
          BY <5>1
      <4>2. reports' = reports \o (<<r>> \o <<f>>)
        BY <1>7, <2>1, <3>2, <4>1 DEF OnApplication, Post
      <4>3. <<r>> \o <<f>> = Append(<<r>>, f)
        OBVIOUS
      <4>4. reports \o Append(<<r>>, f) = Append(Append(reports, r), f)
        BY <1>1
      <4> QED
        BY <1>5, <3>2, <4>1, <4>2, <4>3, <4>4
    <3> QED
      BY <3>1, <3>2
  <2>4. received' = [received EXCEPT !.handed = received.handed + 1]
    BY <1>7 DEF OnApplication
  <2>5. /\ received' \in [handed : Nat, applied : Nat]
        /\ received'.handed = received.handed + 1
        /\ received'.applied = received.applied
    BY <1>1, <2>4
  <2>6. reports' \in Seq(ReportType)
    BY <1>5, <2>3
  <2>7. TypeOK'
    BY <1>1, <1>4, <2>5, <2>6 DEF IndInv, TypeOK, handled
  <2>8. Coming(reports', epoch) = Coming(reports, epoch) + 1
    <3>1. Coming(mid, epoch) = Coming(reports, epoch)
      BY <1>5 DEF Coming
    <3> QED
      BY <1>5, <2>2, <2>3, <3>1, ComingAppend
  <2>9. Running => Follows(reports', epoch, seen, "Online")
    BY <1>5, <2>2, <2>3, FollowsAppend
  <2>10. \A i \in 1 .. Len(reports') : reports'[i].epoch <= epoch
    BY <1>1, <1>5, <2>2, <2>3, FollowingAppend
  <2>11. Coming(reports, epoch) \in Nat
    BY <1>1, OfFinite DEF Coming
  <2>12. Following'
    BY <1>1, <1>3, <1>4, <1>7, <2>5, <2>8, <2>9, <2>10, <2>11
       DEF IndInv, Following, Running, handled
  <2>13. Owed'
    BY <1>2, <1>3, <1>4 DEF IndInv, Owed, NothingOwedIsLost
  <2>14. Failing'
    <3>1. /\ Of(Append(mid, f), epoch, "failed") = Of(mid, epoch, "failed")
          /\ Of(Append(mid, f), epoch, "ready") = Of(mid, epoch, "ready")
      BY <2>2, OfAppend
    <3>2. /\ Of(reports', epoch, "failed") = Of(reports, epoch, "failed")
          /\ Of(reports', epoch, "ready") = Of(reports, epoch, "ready")
      BY <1>5, <2>3, <3>1
    <3> QED
      BY <1>4, <3>2 DEF IndInv, Failing, Running, handled
  <2> QED
    BY <2>7, <2>12, <2>13, <2>14 DEF IndInv
<1> QED
  BY <1>6, <1>7

LEMMA NewPeerType ==
  NewPeer \in PeerType /\ NewPeer.presence = "Unknown" /\ NewPeer.pending = <<>>
<1>1. <<>> \in Seq(Frames)
  OBVIOUS
<1> QED
  BY <1>1 DEF NewPeer, PeerType, Actives, Notices, Presences

LEMMA ForgetPeersKeeps ==
  ASSUME ForgetPeers
  PROVE  peer' \in PeerType /\ native' \in Notices /\ Owed'
BY NewPeerType DEF ForgetPeers, Notices, Owed, NothingOwedIsLost

\* The thread reports its start and its failure.
LEMMA ThreadKeeps ==
  ASSUME IndInv, SelectClient \/ SelectFails \/ Stops \/ Leaves \/ Fails
  PROVE  IndInv'
<1>1. reports \in Seq(ReportType) /\ epoch \in Nat
  BY DEF IndInv, TypeOK
<1>2. CASE SelectClient
  <2>1. PICK u \in {"own", "other"} :
          reports' = reports \o <<Report("uid", u), Report("ready", None)>>
    BY <1>2 DEF SelectClient, Post
  <2>2. phase = "selecting" /\ phase' = "configured"
        /\ UNCHANGED <<stop, commands, peer, native, owed, handled, received, count>>
    BY <1>2 DEF SelectClient
  <2>3. PICK r \in ReportType : r = Report("uid", u)
    <3>1. Report("uid", u) \in ReportType
      BY <1>1 DEF Report, ReportType
    <3> QED
      BY <3>1
  <2>4. PICK q \in ReportType : q = Report("ready", None)
    <3>1. Report("ready", None) \in ReportType
      BY <1>1 DEF Report, ReportType
    <3> QED
      BY <3>1
  <2>5. r.epoch = epoch /\ r.kind = "uid" /\ q.epoch = epoch /\ q.kind = "ready"
    BY <2>3, <2>4 DEF Report
  <2>6. PICK mid \in Seq(ReportType) : mid = Append(reports, r)
    <3>1. Append(reports, r) \in Seq(ReportType)
      BY <1>1
    <3> QED
      BY <3>1
  <2>7. reports' = Append(mid, q)
    <3>1. <<r, q>> = Append(<<r>>, q)
      OBVIOUS
    <3>3. reports' = reports \o <<r, q>>
      BY <2>1, <2>3, <2>4
    <3>2. reports \o Append(<<r>>, q) = Append(Append(reports, r), q)
      BY <1>1
    <3> QED
      BY <2>6, <3>1, <3>2, <3>3
  <2>8. reports' \in Seq(ReportType)
    BY <2>6, <2>7
  <2>9. /\ Of(reports', epoch, "frame") = Of(reports, epoch, "frame")
        /\ Of(reports', epoch, "failed") = Of(reports, epoch, "failed")
    <3>1. /\ Of(mid, epoch, "frame") = Of(reports, epoch, "frame")
          /\ Of(mid, epoch, "failed") = Of(reports, epoch, "failed")
      BY <1>1, <2>5, <2>6, OfAppend
    <3>2. /\ Of(Append(mid, q), epoch, "frame") = Of(mid, epoch, "frame")
          /\ Of(Append(mid, q), epoch, "failed") = Of(mid, epoch, "failed")
      BY <2>5, OfAppend
    <3> QED
      BY <2>7, <3>1, <3>2
  <2>10. \A x : Follows(reports, epoch, seen, x) => Follows(reports', epoch, seen, x)
    <3>1. \A x : Follows(reports, epoch, seen, x) => Follows(mid, epoch, seen, x)
      BY <1>1, <2>5, <2>6, FollowsAppend
    <3>2. \A x : Follows(mid, epoch, seen, x) => Follows(reports', epoch, seen, x)
      BY <2>5, <2>6, <2>7, FollowsAppend
    <3> QED
      BY <3>1, <3>2
  <2>11. \A i \in 1 .. Len(reports') : reports'[i].epoch <= epoch
    <3>1. \A i \in 1 .. Len(mid) : mid[i].epoch <= epoch
      BY <1>1, <2>5, <2>6, FollowingAppend DEF IndInv, Following
    <3> QED
      BY <1>1, <2>5, <2>6, <2>7, <3>1, FollowingAppend
  <2>12. Following'
    BY <2>2, <2>9, <2>10, <2>11 DEF IndInv, Following, Running, Coming, handled
  <2>13. TypeOK' /\ Owed'
    BY <2>2, <2>8 DEF IndInv, TypeOK, Owed, NothingOwedIsLost, handled
  <2>14. Failing'
    BY <2>2, <2>9 DEF IndInv, Failing, Running, handled
  <2> QED
    BY <2>12, <2>13, <2>14 DEF IndInv
<1>3. CASE SelectFails \/ Fails
  <2>1. /\ phase' \in {"leaving", "ended"}
        /\ UNCHANGED <<stop, commands, handled, received, count>>
        /\ UNCHANGED <<peer, native, owed>> \/ ForgetPeers
    BY <1>3 DEF SelectFails, Fails
  <2>2. PICK r \in ReportType : r = Report("failed", None)
    <3>1. Report("failed", None) \in ReportType
      BY <1>1 DEF Report, ReportType
    <3> QED
      BY <3>1
  <2>3. r.epoch = epoch /\ r.kind = "failed"
    BY <2>2 DEF Report
  <2>4. reports' = reports \o <<r>>
    BY <1>3, <2>2 DEF SelectFails, Fails, Post
  <2>5. reports' = Append(reports, r)
    BY <1>1, <2>4
  <2>6. reports' \in Seq(ReportType)
    BY <1>1, <2>5
  <2>7. Of(reports', epoch, "frame") = Of(reports, epoch, "frame")
    BY <1>1, <2>3, <2>5, OfAppend
  <2>8. \A i \in 1 .. Len(reports') : reports'[i].epoch <= epoch
    BY <1>1, <2>3, <2>5, FollowingAppend DEF IndInv, Following
  <2>9. Following'
    BY <2>1, <2>7, <2>8 DEF IndInv, Following, Running, handled
  <2>10. TypeOK' /\ Owed'
    BY <2>1, <2>6, ForgetPeersKeeps
       DEF IndInv, TypeOK, Owed, NothingOwedIsLost, handled
  <2>11. Failing'
    <3>1. /\ Of(reports', epoch, "failed") =
               Of(reports, epoch, "failed") \cup {Len(reports) + 1}
          /\ Of(reports', epoch, "ready") = Of(reports, epoch, "ready")
      BY <1>1, <2>3, <2>5, OfAppend
    <3>2. \A i \in Of(reports, epoch, "ready") : i < Len(reports) + 1
      BY <1>1 DEF Of
    <3> QED
      BY <2>1, <3>1, <3>2 DEF IndInv, Failing, Running, handled
  <2> QED
    BY <2>9, <2>10, <2>11 DEF IndInv
<1>4. CASE Stops
  <2>1. /\ ForgetPeers /\ stop /\ phase' = "leaving"
        /\ UNCHANGED <<stop, commands, handled, received, reports, count>>
    BY <1>4 DEF Stops
  <2>2. Following'
    BY <2>1 DEF IndInv, Following, Running, handled
  <2>3. TypeOK' /\ Owed'
    BY <2>1, ForgetPeersKeeps DEF IndInv, TypeOK, handled
  <2>4. Failing'
    BY <2>1 DEF IndInv, Failing, Running, handled
  <2> QED
    BY <2>2, <2>3, <2>4 DEF IndInv
<1>5. CASE Leaves
  BY <1>5 DEF Leaves, IndInv, TypeOK, Owed, NothingOwedIsLost, Following,
              Failing, Running, handled
<1> QED
  BY <1>2, <1>3, <1>4, <1>5

\* What the model thread makes of the report it takes.
Applied ==
  /\ reports # <<>> /\ reports' = Tail(reports)
  /\ seen' = IF Head(reports).epoch = epoch /\ Head(reports).kind = "presence"
             THEN Head(reports).value ELSE seen
  /\ received' = IF /\ Head(reports).epoch = epoch
                    /\ Head(reports).kind = "frame" /\ bound
                 THEN [received EXCEPT !.applied = received.applied + 1]
                 ELSE received
  /\ (bound => bound') /\ commands' \in Seq(Commands)
  /\ (stop' => stop \/ conflict') /\ (conflict => conflict')
  /\ \/ /\ life' = life /\ conflict' = conflict
        /\ ~ (Head(reports).epoch = epoch /\ Head(reports).kind = "failed")
     \/ /\ life' = "Failed" /\ conflict' = conflict
        /\ Head(reports).epoch = epoch /\ Head(reports).kind = "failed"
     \/ /\ life' = "Ready" /\ conflict' = conflict /\ ~conflict
        /\ Head(reports).epoch = epoch /\ Head(reports).kind = "ready"
     \/ /\ life' = "Failed" /\ conflict'
  /\ UNCHANGED <<phase, peer, native, owed, epoch, count>>

\* A failure that is taken is shown; readiness comes before it.
LEMMA FailingTail ==
  ASSUME TypeOK, Failing, Applied
  PROVE  Failing'
<1> DEFINE ready == Of(reports, epoch, "ready")
           failed == Of(reports, epoch, "failed")
           ready2 == Of(Tail(reports), epoch, "ready")
           failed2 == Of(Tail(reports), epoch, "failed")
           Now(k) == Head(reports).epoch = epoch /\ Head(reports).kind = k
<1>1. /\ reports \in Seq(ReportType) /\ reports # <<>> /\ reports' = Tail(reports)
      /\ UNCHANGED <<phase, epoch>>
  BY DEF TypeOK, Applied
<1>2. /\ \A i : i \in ready2 => i \in Nat /\ i + 1 \in ready
      /\ \A i \in ready : i # 1 => i - 1 \in ready2
      /\ 1 \in ready <=> Now("ready")
  BY <1>1, OfTail
<1>3. /\ \A i : i \in failed2 => i \in Nat /\ i + 1 \in failed
      /\ \A i \in failed : i # 1 => i - 1 \in failed2
      /\ 1 \in failed <=> Now("failed")
  BY <1>1, OfTail
<1>4. \A i \in ready, j \in failed : i < j
  BY DEF Failing
<1>5. \A i \in ready2, j \in failed2 : i < j
  <2> HIDE DEF ready, failed, ready2, failed2
  <2> QED
    BY <1>2, <1>3, <1>4
<1>6. Now("failed") => ready2 = {}
  <2>1. ASSUME 1 \in failed, NEW i \in ready2 PROVE FALSE
    <3> HIDE DEF ready, failed, ready2, failed2
    <3>1. i \in Nat /\ i + 1 < 1
      BY <1>2, <1>4, <2>1
    <3> QED
      BY <3>1
  <2> QED
    BY <1>3, <2>1
<1>7. (stop' => conflict') /\ (conflict' => life' = "Failed")
  BY DEF Failing, Applied
<1>8. Running => failed2 = {} /\ ~Now("failed")
  BY <1>3 DEF Failing
<1>9. life' = "Failed" /\ ~conflict' => ~Running /\ ready2 = {}
  <2>1. life = "Failed" /\ ~conflict => ~Running /\ ready = {}
    BY DEF Failing
  <2> HIDE DEF ready, failed, ready2, failed2, Now
  <2>2. CASE life' = life /\ conflict' = conflict
    BY <1>2, <2>1, <2>2
  <2>3. CASE life' = "Failed" /\ Now("failed")
    BY <1>6, <1>8, <2>3
  <2> QED
    BY <2>2, <2>3 DEF Applied, Now
<1>10. ~Running /\ life' # "Failed" => failed2 # {}
  <2> SUFFICES ASSUME ~Running, life' # "Failed" PROVE failed2 # {}
    OBVIOUS
  <2>1. life # "Failed" /\ ~Now("failed")
    <3>1. CASE life' = life /\ ~Now("failed")
      BY <3>1
    <3>2. CASE ~conflict /\ Now("ready")
      <4>1. ready # {}
        BY <1>2, <3>2
      <4> QED
        BY <3>2, <4>1 DEF Failing
    <3> QED
      BY <3>1, <3>2 DEF Applied
  <2>2. PICK j : j \in failed
    BY <2>1 DEF Failing
  <2>3. j # 1
    BY <1>3, <2>1, <2>2
  <2> QED
    BY <1>3, <2>2, <2>3
<1> QED
  BY <1>1, <1>5, <1>7, <1>8, <1>9, <1>10 DEF Failing, Running

LEMMA AppliedKeeps ==
  ASSUME IndInv, Applied
  PROVE  IndInv'
<1>1. /\ reports \in Seq(ReportType) /\ epoch \in Nat /\ reports # <<>>
      /\ received \in [handed : Nat, applied : Nat]
      /\ reports' = Tail(reports) /\ (bound => bound')
      /\ commands' \in Seq(Commands)
      /\ UNCHANGED <<phase, peer, native, owed, epoch, count>>
  BY DEF IndInv, TypeOK, Applied
<1>2. reports' \in Seq(ReportType)
  BY <1>1
<1>3. received' \in [handed : Nat, applied : Nat]
  <2>1. received' \in {received, [received EXCEPT !.applied = received.applied + 1]}
    BY DEF Applied
  <2> QED
    BY <1>1, <2>1
<1>4. \A i \in 1 .. Len(reports') : reports'[i].epoch <= epoch
  <2>1. \A i \in 1 .. Len(Tail(reports)) :
          i + 1 \in 1 .. Len(reports) /\ Tail(reports)[i] = reports[i + 1]
    BY <1>1
  <2> QED
    BY <1>1, <2>1 DEF IndInv, Following
<1>5. Of(reports', epoch, "frame") # {} => bound'
  <2>1. Of(Tail(reports), epoch, "frame") # {} => Of(reports, epoch, "frame") # {}
    BY <1>1, OfTail
  <2> QED
    BY <1>1, <2>1 DEF IndInv, Following
<1>6. ASSUME Running
      PROVE  Follows(reports', epoch, seen', peer.presence)
  BY <1>1, <1>6, FollowsTail DEF IndInv, Following, Applied
<1>7. ASSUME Running
      PROVE  received'.applied + Coming(reports', epoch) = received'.handed
  <2>1. received.applied + Coming(reports, epoch) = received.handed
    BY <1>7 DEF IndInv, Following
  <2>2. /\ Coming(reports, epoch) \in Nat /\ Coming(Tail(reports), epoch) \in Nat
        /\ Coming(Tail(reports), epoch) =
             IF Head(reports).epoch = epoch /\ Head(reports).kind = "frame"
             THEN Coming(reports, epoch) - 1 ELSE Coming(reports, epoch)
    BY <1>1, ComingTail
  <2>3. CASE Head(reports).epoch = epoch /\ Head(reports).kind = "frame"
    <3>1. bound
      <4>1. 1 \in Of(reports, epoch, "frame")
        BY <1>1, <2>3, OfTail
      <4> QED
        BY <4>1 DEF IndInv, Following
    <3>2. received' = [received EXCEPT !.applied = received.applied + 1]
      BY <2>3, <3>1 DEF Applied
    <3>3. received'.applied = received.applied + 1
          /\ received'.handed = received.handed
      BY <1>1, <3>2
    <3>4. received.applied \in Nat /\ received.handed \in Nat
      BY <1>1
    <3>5. Coming(reports', epoch) = Coming(reports, epoch) - 1
      BY <1>1, <2>2, <2>3
    <3> QED
      BY <2>1, <2>2, <3>3, <3>4, <3>5
  <2>4. CASE ~ (Head(reports).epoch = epoch /\ Head(reports).kind = "frame")
    <3>1. received' = received
      BY <2>4 DEF Applied
    <3> QED
      BY <1>1, <2>1, <2>2, <2>4, <3>1
  <2> QED
    BY <2>3, <2>4
<1>8. TypeOK'
  BY <1>1, <1>2, <1>3 DEF IndInv, TypeOK
<1>9. Owed'
  BY <1>1 DEF IndInv, Owed, NothingOwedIsLost
<1>10. Following'
  BY <1>1, <1>4, <1>5, <1>6, <1>7 DEF Following, Running
<1>11. Failing'
  BY <1>1, FailingTail DEF IndInv
<1> QED
  BY <1>8, <1>9, <1>10, <1>11 DEF IndInv

LEMMA ModelThreadApplies ==
  ASSUME IndInv, ModelThread
  PROVE  Applied
<1>1. commands \in Seq(Commands)
  BY DEF IndInv, TypeOK
<1>2. CASE OnUid
  BY <1>1, <1>2 DEF OnUid, Handles, Current, Applied
<1>3. CASE OnReady
  <2>1. [type |-> "open"] \in Commands
    BY DEF Commands
  <2>2. Append(commands, [type |-> "open"]) \in Seq(Commands)
    BY <1>1, <2>1
  <2> QED
    BY <1>1, <1>3, <2>2 DEF OnReady, Handles, Current, Applied
<1>4. CASE OnFailed
  BY <1>1, <1>4 DEF OnFailed, Handles, Current, Applied
<1>5. CASE OnPresence
  BY <1>1, <1>5 DEF OnPresence, Handles, Current, Applied
<1>6. CASE OnFrame
  BY <1>1, <1>6 DEF OnFrame, Handles, Current, Applied
<1> QED
  BY <1>2, <1>3, <1>4, <1>5, <1>6 DEF ModelThread

\* No report of the epoch that begins is under way.
LEMMA RetryKeeps ==
  ASSUME IndInv, RetryConnection
  PROVE  IndInv'
<1>1. /\ epoch' = epoch + 1 /\ bound' = FALSE /\ seen' = "Unknown"
      /\ received' = [handed |-> 0, applied |-> 0]
      /\ commands' = <<>> /\ peer' = NewPeer /\ native' = None /\ owed' = {}
      /\ life' = "Starting" /\ UNCHANGED <<reports, count>>
      /\ phase' = "selecting" /\ stop' = FALSE /\ ~conflict'
  BY DEF RetryConnection, RetryInto
<1>2. reports \in Seq(ReportType) /\ epoch \in Nat
  BY DEF IndInv, TypeOK
<1>3. \A i \in 1 .. Len(reports) : reports[i].epoch \in Nat /\ reports[i].epoch <= epoch
  <2>1. \A i \in 1 .. Len(reports) : reports[i] \in ReportType
    BY <1>2
  <2> QED
    BY <2>1 DEF IndInv, Following, ReportType
<1>4. \A k : Of(reports, epoch + 1, k) = {}
  <2>1. \A i \in 1 .. Len(reports) : reports[i].epoch # epoch + 1
    BY <1>2, <1>3
  <2> QED
    BY <2>1 DEF Of
<1>5. Follows(reports, epoch + 1, "Unknown", "Unknown")
      /\ Coming(reports, epoch + 1) = 0
  BY <1>4, EmptyReports
<1>6. Following'
  BY <1>1, <1>2, <1>3, <1>4, <1>5, NewPeerType DEF Following
<1>7. TypeOK'
  <2>1. <<>> \in Seq(Commands)
    OBVIOUS
  <2> QED
    BY <1>1, <1>2, <2>1, NewPeerType DEF IndInv, TypeOK, Notices
<1>8. Owed'
  BY <1>1 DEF Owed, NothingOwedIsLost
<1>9. Failing'
  BY <1>1, <1>4 DEF Failing, Running
<1> QED
  BY <1>6, <1>7, <1>8, <1>9 DEF IndInv

LEMMA InitInd == Init => IndInv
<1> SUFFICES ASSUME Init PROVE IndInv
  OBVIOUS
<1>1. <<>> \in Seq(Commands) /\ <<>> \in Seq(ReportType)
  OBVIOUS
<1>2. TypeOK
  BY <1>1, NewPeerType DEF Init, TypeOK, Notices
<1>3. Owed
  BY DEF Init, Owed, NothingOwedIsLost
<1>4. \A k : Of(reports, 1, k) = {}
  BY DEF Init, Of
<1>5. Follows(reports, 1, "Unknown", "Unknown") /\ Coming(reports, 1) = 0
  BY <1>4, EmptyReports
<1>6. Following
  BY <1>4, <1>5, NewPeerType DEF Init, Following
<1>7. Failing
  BY <1>4 DEF Init, Failing, Running
<1> QED
  BY <1>2, <1>3, <1>6, <1>7 DEF IndInv

LEMMA NextKeeps == IndInv /\ [Next]_vars => IndInv'
<1> SUFFICES ASSUME IndInv, [Next]_vars PROVE IndInv'
  OBVIOUS
<1>1. CASE EndpointStep
  <2>1. TypeOK' /\ Owed' /\ EndpointMoves
    BY <1>1, EndpointKeeps DEF IndInv
  <2>2. Following' /\ Failing'
    BY <2>1, EndpointFollows DEF IndInv
  <2> QED
    BY <2>1, <2>2 DEF IndInv
<1>2. CASE OnApplication
  BY <1>2, ApplicationKeeps
<1>3. CASE SelectClient \/ SelectFails \/ Stops \/ Leaves \/ Fails
  BY <1>3, ThreadKeeps
<1>4. CASE ModelThread
  BY <1>4, ModelThreadApplies, AppliedKeeps
<1>5. CASE RetryConnection
  BY <1>5, RetryKeeps
<1>6. CASE UNCHANGED vars
  BY <1>6 DEF vars, handled, IndInv, TypeOK, Owed, NothingOwedIsLost, Following,
              Failing, Running
<1> QED
  BY <1>1, <1>2, <1>3, <1>4, <1>5, <1>6
     DEF Next, Loop, Callback, Session, EndpointStep

LEMMA EndpointInd == Spec => []IndInv
BY InitInd, NextKeeps, PTL DEF Spec

\* A frame the session handed to the endpoint and whose write has not begun
\* is still queued, whatever ports the peer opens and pings it sends
\* (BindPeerStream, QueuePong).
THEOREM EndpointNothingOwedIsLost == Spec => []NothingOwedIsLost
<1>1. IndInv => NothingOwedIsLost
  BY DEF IndInv, Owed
<1> QED
  BY <1>1, EndpointInd, PTL

\* The session never shows a failure of an endpoint it has replaced, whatever
\* that one reported on its way out, and always, once the reports are in, that
\* of the one it has (chat_session.cpp, the epoch check of on_failed).
THEOREM EndpointFailureFollowsEndpoint == Spec => []FailureFollowsEndpoint
<1>1. IndInv => FailureFollowsEndpoint
  <2> SUFFICES ASSUME IndInv PROVE FailureFollowsEndpoint
    OBVIOUS
  <2>1. DOMAIN reports = 1 .. Len(reports)
    BY DEF IndInv, TypeOK
  <2> QED
    BY <2>1 DEF IndInv, Failing, FailureFollowsEndpoint, Of
<1> QED
  BY <1>1, EndpointInd, PTL

\* Once the reports under way are in, the session shows the presence that the
\* running endpoint knows, and each frame it took over is applied once, through
\* every retry (chat_session.cpp, the epoch check of its callbacks).
THEOREM EndpointSessionFollowsEndpoint == Spec => []SessionFollowsEndpoint
<1>1. IndInv => SessionFollowsEndpoint
  <2> SUFFICES ASSUME IndInv PROVE SessionFollowsEndpoint
    OBVIOUS
  <2>1. reports \in Seq(ReportType)
    BY DEF IndInv, TypeOK
  <2>2. DOMAIN reports = 1 .. Len(reports)
    BY <2>1
  <2> DEFINE news == Of(reports, epoch, "presence")
  <2>3. ASSUME NEW i \in news, \A j \in news : j <= i PROVE Max(news) = i
    <3>1. \A j \in news : j \in Nat
      BY <2>1 DEF Of
    <3> HIDE DEF news
    <3>2. \A x \in news : (\A j \in news : x >= j) => x = i
      BY <2>3, <3>1
    <3>3. \A j \in news : i >= j
      BY <2>3, <3>1
    <3> QED
      BY <2>3, <3>2, <3>3 DEF Max
  <2>4. ASSUME Running
        PROVE  (IF news = {} THEN seen ELSE reports[Max(news)].value)
                 = peer.presence
    <3>1. Follows(reports, epoch, seen, peer.presence)
      BY <2>4 DEF IndInv, Following
    <3> QED
      BY <2>3, <3>1 DEF Follows
  <2>5. Running =>
          received.applied + Cardinality(Of(reports, epoch, "frame"))
            = received.handed
    BY DEF IndInv, Following, Coming
  <2> QED
    BY <2>2, <2>4, <2>5 DEF SessionFollowsEndpoint, Of
<1> QED
  BY <1>1, EndpointInd, PTL
==============================================================================
