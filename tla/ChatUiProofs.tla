---------------------------- MODULE ChatUiProofs ----------------------------
(***************************************************************************)
(* What a window and its session make of the user's edits, for any chats   *)
(* and any number of inputs, failures and crashes.                         *)
(*                                                                         *)
(* The argument follows an edit through the commands that are not run yet: *)
(* the last of them for a chat, or the draft of the model when there is    *)
(* none, is the text the user left; their revisions are newer than what    *)
(* was processed, and what was published is older still.  So a publication *)
(* that carries the window's own revision carries the user's text.         *)
(***************************************************************************)
EXTENDS ChatUi, SequenceTheorems, TLAPS

Text == Entries \cup {Empty, Big}

UserOp == {"edit", "send"}

Command ==
  [op : UserOp, entry : Entries, text : Text, revision : Nat]
    \cup [op : {"select", "scroll", "join"}, entry : Entries]

EntryViewState == [local : Text, revision : Nat, published : Nat]

Step ==
  Running \cup {"drain", "refuse", "finished", "failed"}

TypeOK ==
  /\ platform \in Platforms /\ gui \in {"idle", "consuming", "closed"}
  /\ active \in Entries \cup {None} /\ box \in Text /\ composing \in BOOLEAN
  /\ view \in [Entries -> EntryViewState]
  /\ mirror \in ShownWorkspace \cup {None} /\ switched \in BOOLEAN
  /\ queue \in Seq(Command) /\ batch \in Seq(Command) /\ pc \in Step
  /\ model \in Workspace /\ stopRequested \in BOOLEAN
  /\ processed \in [Entries -> Nat] /\ ack \in Entries \cup {None}
  /\ slot \in PublicationType \cup {None}
  /\ last \in [Entries -> Entries \cup {Empty}]

-----------------------------------------------------------------------------
(* The commands that are not run yet.                                      *)

\* A command that sets the draft of an entry, and the draft it leaves.
Touches(c, e) == c.op \in UserOp /\ c.entry = e /\ c.text # Big
Leaves(c) == IF c.op = "edit" THEN c.text ELSE Empty

\* After the commands of a queue the drafts are what the user left.
Settled(commands, draft, left) ==
  \A e \in Entries :
    \/ /\ \A i \in DOMAIN commands : ~ Touches(commands[i], e)
       /\ draft[e] = left[e]
    \/ \E i \in DOMAIN commands :
         /\ Touches(commands[i], e) /\ left[e] = Leaves(commands[i])
         /\ \A j \in DOMAIN commands : Touches(commands[j], e) => j <= i

\* Revisions grow along the queue, from the processed ones to the window's.
Ordered(commands, done, v) ==
  \A i \in DOMAIN commands :
    commands[i].op \in UserOp =>
      /\ done[commands[i].entry] < commands[i].revision
      /\ commands[i].revision <= v[commands[i].entry].revision
      /\ \A j \in DOMAIN commands :
           /\ j > i
           /\ commands[j].op \in UserOp /\ commands[j].entry = commands[i].entry
           => commands[i].revision < commands[j].revision

\* batch is what the model thread has swapped out of the queue.
Pending == batch \o queue

JoinCommand == {c \in Command : c.op = "join"}

\* Where the model thread is in its work.
QueueOK ==
  /\ pc \in Step \ {"work", "commit", "clear"} => batch = << >>
  /\ pc \in {"commit", "clear"} =>
       batch # << >> /\ Head(batch).op = "send" /\ Head(batch).text # Big
  /\ pc \in {"drain", "refuse", "finished"} =>
       /\ stopRequested
       /\ queue \in Seq(JoinCommand)

EditsOK ==
  /\ pc # "failed" => Settled(Pending, model.draft, last)
  /\ Ordered(Pending, processed, view)
  /\ \A e \in Entries : processed[e] <= view[e].revision

-----------------------------------------------------------------------------
(* What was published.                                                     *)

\* A publication describes what was processed when it was taken.
PublishedOK ==
  \A e \in Entries :
    /\ view[e].published <= processed[e]
    /\ slot # None =>
         /\ view[e].published <= slot.revisions[e]
         /\ slot.revisions[e] <= processed[e]
         /\ slot.revisions[e] = view[e].revision
              => slot.workspace.draft[e] = last[e]

-----------------------------------------------------------------------------
(* Whose text is where, on Linux.                                          *)

Own(e) == {Empty, e}

OwnCommand ==
  {c \in Command : c.op \in UserOp => c.text \in Own(c.entry) \cup {Big}}

\* The control shows the active chat's text unless the chat was just switched.
OwnWindow ==
  platform = "linux" =>
    /\ composing = FALSE
    /\ switched => gui = "consuming" /\ mirror # None
    /\ active = None => box = Empty
    /\ active # None /\ ~ switched => box \in Own(active) \cup {Big}
    /\ \A e \in Entries :
         /\ view[e].local \in Own(e) \cup {Big}
         /\ mirror # None => mirror.draft[e] \in Own(e)

OwnSession ==
  platform = "linux" =>
    /\ \A e \in Entries :
         /\ model.draft[e] \in Own(e)
         /\ slot # None => slot.workspace.draft[e] \in Own(e)
    /\ batch \in Seq(OwnCommand) /\ queue \in Seq(OwnCommand)

\* A chat is active once a workspace was shown.
ActiveOK == active = None <=> mirror = None

IndInv ==
  /\ TypeOK /\ disk = model /\ ActiveOK
  /\ QueueOK /\ EditsOK /\ PublishedOK /\ RevisionMatchesDraft
  /\ OwnWindow /\ OwnSession

-----------------------------------------------------------------------------
(* Queues of commands.                                                     *)

\* A command that sets no draft changes nothing of what is pending.
LEMMA AppendQuiet ==
  ASSUME NEW P \in Seq(Command), NEW c \in Command, c.op \notin UserOp,
         NEW d, NEW l, NEW done, NEW v
  PROVE  /\ Settled(P, d, l) => Settled(Append(P, c), d, l)
         /\ Ordered(P, done, v) => Ordered(Append(P, c), done, v)
<1> DEFINE Q == Append(P, c)
<1>1. /\ DOMAIN P = 1..Len(P) /\ Len(P) \in Nat /\ DOMAIN Q = 1..(Len(P) + 1)
      /\ Q[Len(P) + 1] = c /\ \A i \in 1..Len(P) : Q[i] = P[i]
  OBVIOUS
<1> HIDE DEF Q
<1>2. \A i \in DOMAIN Q : (i \in DOMAIN P /\ Q[i] = P[i]) \/ Q[i] = c
  BY <1>1
<1>3. \A i \in DOMAIN P : i \in DOMAIN Q /\ Q[i] = P[i]
  BY <1>1
<1>4. \A e \in Entries : ~ Touches(c, e)
  BY DEF Touches
<1>5. ASSUME Settled(P, d, l) PROVE Settled(Q, d, l)
  <2> SUFFICES ASSUME NEW e \in Entries
               PROVE  \/ /\ \A i \in DOMAIN Q : ~ Touches(Q[i], e)
                         /\ d[e] = l[e]
                      \/ \E i \in DOMAIN Q :
                           /\ Touches(Q[i], e) /\ l[e] = Leaves(Q[i])
                           /\ \A j \in DOMAIN Q : Touches(Q[j], e) => j <= i
    BY DEF Settled
  <2>1. CASE /\ \A i \in DOMAIN P : ~ Touches(P[i], e)
             /\ d[e] = l[e]
    <3>1. \A i \in DOMAIN Q : ~ Touches(Q[i], e)
      BY <1>2, <1>4, <2>1
    <3> QED BY <2>1, <3>1
  <2>2. ASSUME NEW i \in DOMAIN P, Touches(P[i], e), l[e] = Leaves(P[i]),
               \A j \in DOMAIN P : Touches(P[j], e) => j <= i
        PROVE  \E n \in DOMAIN Q :
                 /\ Touches(Q[n], e) /\ l[e] = Leaves(Q[n])
                 /\ \A j \in DOMAIN Q : Touches(Q[j], e) => j <= n
    <3>1. i \in DOMAIN Q /\ Q[i] = P[i]
      BY <1>3
    <3>2. \A j \in DOMAIN Q : Touches(Q[j], e) => j <= i
      BY <1>2, <1>4, <2>2
    <3> QED BY <2>2, <3>1, <3>2
  <2> QED BY <1>5, <2>1, <2>2 DEF Settled
<1>6. ASSUME Ordered(P, done, v) PROVE Ordered(Q, done, v)
  BY <1>2, <1>3, <1>6 DEF Ordered
<1> QED BY <1>5, <1>6 DEF Q

\* The newest command of an entry is the one that decides.
LEMMA AppendSettled ==
  ASSUME NEW P \in Seq(Command), NEW c \in Command, NEW d, NEW l, NEW m,
         Settled(P, d, l),
         \A e \in Entries : /\ Touches(c, e) => m[e] = Leaves(c)
                            /\ ~ Touches(c, e) => m[e] = l[e]
  PROVE  Settled(Append(P, c), d, m)
<1> DEFINE Q == Append(P, c)
<1>1. /\ DOMAIN P = 1..Len(P) /\ Len(P) \in Nat /\ DOMAIN Q = 1..(Len(P) + 1)
      /\ Q[Len(P) + 1] = c /\ \A i \in 1..Len(P) : Q[i] = P[i]
  OBVIOUS
<1> HIDE DEF Q
<1>2. Settled(Q, d, m)
  <2> SUFFICES ASSUME NEW e \in Entries
               PROVE  \/ /\ \A i \in DOMAIN Q : ~ Touches(Q[i], e)
                         /\ d[e] = m[e]
                      \/ \E i \in DOMAIN Q :
                           /\ Touches(Q[i], e) /\ m[e] = Leaves(Q[i])
                           /\ \A j \in DOMAIN Q : Touches(Q[j], e) => j <= i
    BY DEF Settled
  <2>1. CASE Touches(c, e)
    <3>1. m[e] = Leaves(c)
      BY <2>1
    <3>2. /\ Len(P) + 1 \in DOMAIN Q /\ Q[Len(P) + 1] = c
          /\ \A j \in DOMAIN Q : j <= Len(P) + 1
      BY <1>1
    <3> QED BY <2>1, <3>1, <3>2
  <2>2. CASE ~ Touches(c, e)
    <3>1. m[e] = l[e]
      BY <2>2
    <3>2. \A i \in DOMAIN Q : (i \in DOMAIN P /\ Q[i] = P[i]) \/ Q[i] = c
      BY <1>1
    <3>3. CASE (\A i \in DOMAIN P : ~ Touches(P[i], e)) /\ d[e] = l[e]
      BY <2>2, <3>1, <3>2, <3>3
    <3>4. ASSUME NEW i \in DOMAIN P, Touches(P[i], e), l[e] = Leaves(P[i]),
                 \A j \in DOMAIN P : Touches(P[j], e) => j <= i
          PROVE  \E n \in DOMAIN Q :
                   /\ Touches(Q[n], e) /\ m[e] = Leaves(Q[n])
                   /\ \A j \in DOMAIN Q : Touches(Q[j], e) => j <= n
      <4>1. i \in DOMAIN Q /\ Q[i] = P[i]
        BY <1>1
      <4>2. \A j \in DOMAIN Q : Touches(Q[j], e) => j <= i
        BY <2>2, <3>2, <3>4
      <4> QED BY <3>1, <3>4, <4>1, <4>2
    <3> QED BY <3>3, <3>4 DEF Settled
  <2> QED BY <2>1, <2>2
<1> QED BY <1>2 DEF Q

\* A new revision is newer than those that are pending.
LEMMA AppendOrdered ==
  ASSUME NEW P \in Seq(Command), NEW c \in Command, c.op \in UserOp,
         NEW done \in [Entries -> Nat],
         NEW v \in [Entries -> EntryViewState], NEW w \in [Entries -> EntryViewState],
         Ordered(P, done, v), c.revision = v[c.entry].revision + 1,
         done[c.entry] <= v[c.entry].revision, w[c.entry].revision = c.revision,
         \A e \in Entries : e # c.entry => w[e].revision = v[e].revision
  PROVE  Ordered(Append(P, c), done, w)
<1> DEFINE Q == Append(P, c)
<1>1. /\ DOMAIN P = 1..Len(P) /\ Len(P) \in Nat /\ DOMAIN Q = 1..(Len(P) + 1)
      /\ Q[Len(P) + 1] = c /\ \A i \in 1..Len(P) : Q[i] = P[i]
  OBVIOUS
<1> HIDE DEF Q
<1>2. c.entry \in Entries /\ c.revision \in Nat /\ v[c.entry].revision \in Nat
  BY DEF Command, UserOp, EntryViewState
<1>3. ASSUME NEW i \in DOMAIN P, P[i].op \in UserOp
      PROVE  P[i].entry \in Entries /\ P[i].revision \in Nat
  <2>1. P[i] \in Command
    BY <1>1
  <2> QED BY <1>3, <2>1 DEF Command, UserOp
<1>4. \A e \in Entries : v[e].revision \in Nat /\ w[e].revision \in Nat
  BY DEF EntryViewState
<1>5. Ordered(Q, done, w)
  <2> SUFFICES ASSUME NEW i \in DOMAIN Q, Q[i].op \in UserOp
               PROVE  /\ done[Q[i].entry] < Q[i].revision
                      /\ Q[i].revision <= w[Q[i].entry].revision
                      /\ \A j \in DOMAIN Q :
                           /\ j > i
                           /\ Q[j].op \in UserOp /\ Q[j].entry = Q[i].entry
                           => Q[i].revision < Q[j].revision
    BY DEF Ordered
  <2>1. CASE i = Len(P) + 1
    <3>1. Q[i] = c /\ \A j \in DOMAIN Q : ~ j > i
      BY <1>1, <2>1
    <3>2. w[c.entry].revision = c.revision
      BY <1>2
    <3> QED BY <1>2, <3>1, <3>2
  <2>2. CASE i \in DOMAIN P
    <3>1. Q[i] = P[i] /\ P[i].op \in UserOp
      BY <1>1, <2>2
    <3>2. /\ done[P[i].entry] < P[i].revision
          /\ P[i].revision <= v[P[i].entry].revision
          /\ \A j \in DOMAIN P :
               /\ j > i
               /\ P[j].op \in UserOp /\ P[j].entry = P[i].entry
               => P[i].revision < P[j].revision
      BY <2>2, <3>1 DEF Ordered
    <3>3. P[i].entry \in Entries /\ P[i].revision \in Nat
      BY <1>3, <2>2, <3>1
    <3>4. v[P[i].entry].revision <= w[P[i].entry].revision
      <4>1. PICK e \in Entries : e = P[i].entry
        BY <3>3
      <4>2. CASE e = c.entry
        <5>1. w[e].revision = v[e].revision + 1
          BY <4>2
        <5> QED BY <1>4, <4>1, <5>1
      <4>3. CASE e # c.entry
        <5>1. w[e].revision = v[e].revision
          BY <4>3
        <5> QED BY <1>4, <4>1, <5>1
      <4> QED BY <4>2, <4>3
    <3>5. P[i].revision <= w[P[i].entry].revision
      BY <1>4, <3>2, <3>3, <3>4
    <3>6. ASSUME NEW j \in DOMAIN Q, j > i, Q[j].op \in UserOp,
                 Q[j].entry = P[i].entry
          PROVE  P[i].revision < Q[j].revision
      <4>1. CASE j \in DOMAIN P
        BY <1>1, <3>2, <3>6, <4>1
      <4>2. CASE j = Len(P) + 1
        <5>1. Q[j] = c
          BY <1>1, <4>2
        <5> QED BY <1>2, <3>2, <3>3, <3>6, <5>1
      <4> QED BY <1>1, <4>1, <4>2
    <3> QED BY <3>1, <3>2, <3>5, <3>6
  <2> QED BY <1>1, <2>1, <2>2
<1> QED BY <1>5 DEF Q

\* Running the first command.
LEMMA RunFirst ==
  ASSUME NEW P \in Seq(Command), P # << >>, NEW d, NEW l, NEW d2, NEW done, NEW v,
         NEW done2,
         \A e \in Entries : d2[e] = IF Touches(P[1], e) THEN Leaves(P[1]) ELSE d[e],
         \A e \in Entries : done2[e] = IF Touches(P[1], e) THEN P[1].revision
                                                           ELSE done[e]
  PROVE  /\ Settled(P, d, l) => Settled(Tail(P), d2, l)
         /\ Ordered(P, done, v) => Ordered(Tail(P), done2, v)
<1> DEFINE Q == Tail(P)
<1>1. /\ DOMAIN P = 1..Len(P) /\ Len(P) \in Nat \ {0} /\ DOMAIN Q = 1..(Len(P) - 1)
      /\ \A i \in 1..(Len(P) - 1) : Q[i] = P[i + 1]
  OBVIOUS
<1> HIDE DEF Q
<1>2. \A i \in DOMAIN Q : i + 1 \in DOMAIN P /\ Q[i] = P[i + 1]
  BY <1>1
<1>3. \A i \in DOMAIN P : i # 1 => i - 1 \in DOMAIN Q /\ Q[i - 1] = P[i]
  BY <1>1
<1>4. 1 \in DOMAIN P
  BY <1>1
<1>5. ASSUME Settled(P, d, l) PROVE Settled(Q, d2, l)
  <2> SUFFICES ASSUME NEW e \in Entries
               PROVE  \/ /\ \A i \in DOMAIN Q : ~ Touches(Q[i], e)
                         /\ d2[e] = l[e]
                      \/ \E i \in DOMAIN Q :
                           /\ Touches(Q[i], e) /\ l[e] = Leaves(Q[i])
                           /\ \A j \in DOMAIN Q : Touches(Q[j], e) => j <= i
    BY DEF Settled
  <2>1. CASE (\A i \in DOMAIN P : ~ Touches(P[i], e)) /\ d[e] = l[e]
    <3>1. d2[e] = l[e]
      BY <1>4, <2>1
    <3>2. \A i \in DOMAIN Q : ~ Touches(Q[i], e)
      BY <1>2, <2>1
    <3> QED BY <3>1, <3>2
  <2>2. ASSUME NEW n \in DOMAIN P, Touches(P[n], e), l[e] = Leaves(P[n]),
               \A j \in DOMAIN P : Touches(P[j], e) => j <= n
        PROVE  \/ /\ \A i \in DOMAIN Q : ~ Touches(Q[i], e)
                  /\ d2[e] = l[e]
               \/ \E i \in DOMAIN Q :
                    /\ Touches(Q[i], e) /\ l[e] = Leaves(Q[i])
                    /\ \A j \in DOMAIN Q : Touches(Q[j], e) => j <= i
    <3>1. CASE n = 1
      <4>1. d2[e] = l[e]
        BY <2>2, <3>1
      <4>2. \A i \in DOMAIN Q : ~ Touches(Q[i], e)
        BY <1>1, <1>2, <2>2, <3>1
      <4> QED BY <4>1, <4>2
    <3>2. CASE n # 1
      <4>1. n - 1 \in DOMAIN Q /\ Q[n - 1] = P[n]
        BY <1>3, <3>2
      <4>2. \A j \in DOMAIN Q : Touches(Q[j], e) => j <= n - 1
        BY <1>1, <1>2, <2>2
      <4> QED BY <2>2, <4>1, <4>2
    <3> QED BY <3>1, <3>2
  <2> QED BY <1>5, <2>1, <2>2 DEF Settled
<1>6. ASSUME Ordered(P, done, v) PROVE Ordered(Q, done2, v)
  <2> SUFFICES ASSUME NEW i \in DOMAIN Q, Q[i].op \in UserOp
               PROVE  /\ done2[Q[i].entry] < Q[i].revision
                      /\ Q[i].revision <= v[Q[i].entry].revision
                      /\ \A j \in DOMAIN Q :
                           /\ j > i
                           /\ Q[j].op \in UserOp /\ Q[j].entry = Q[i].entry
                           => Q[i].revision < Q[j].revision
    BY DEF Ordered
  <2>1. PICK k \in DOMAIN P : k = i + 1 /\ Q[i] = P[k] /\ k > 1
    BY <1>1, <1>2
  <2>2. /\ done[P[k].entry] < P[k].revision
        /\ P[k].revision <= v[P[k].entry].revision
        /\ \A j \in DOMAIN P :
             /\ j > k
             /\ P[j].op \in UserOp /\ P[j].entry = P[k].entry
             => P[k].revision < P[j].revision
    BY <1>6, <2>1 DEF Ordered
  <2>3. P[k].entry \in Entries
    <3>1. P[k] \in Command
      BY <1>1, <2>1
    <3> QED BY <3>1 DEF Command
  <2>4. ASSUME Touches(P[1], P[k].entry) PROVE P[1].revision < P[k].revision
    <3>1. P[1].op \in UserOp /\ P[1].entry = P[k].entry
      BY <2>4 DEF Touches
    <3> QED BY <1>4, <1>6, <2>1, <3>1 DEF Ordered
  <2>5. done2[Q[i].entry] < Q[i].revision
    BY <2>1, <2>2, <2>3, <2>4
  <2>6. ASSUME NEW j \in DOMAIN Q, j > i, Q[j].op \in UserOp,
               Q[j].entry = Q[i].entry
        PROVE  Q[i].revision < Q[j].revision
    <3>1. PICK m \in DOMAIN P : m = j + 1 /\ Q[j] = P[m] /\ m > k
      BY <1>1, <1>2, <2>1, <2>6
    <3> QED BY <2>1, <2>2, <2>6, <3>1
  <2> QED BY <2>1, <2>2, <2>5, <2>6
<1> QED BY <1>5, <1>6 DEF Q

\* The commands of a batch and of the queue behind it.
LEMMA PendingShape ==
  ASSUME NEW b \in Seq(Command), NEW q \in Seq(Command)
  PROVE  /\ b \o q \in Seq(Command)
         /\ b = << >> => b \o q = q
         /\ \A c \in Command : b \o Append(q, c) = Append(b \o q, c)
         /\ b # << >> => /\ b \o q # << >> /\ (b \o q)[1] = Head(b)
                         /\ Tail(b \o q) = Tail(b) \o q
<1>1. b \o q \in Seq(Command) /\ Len(b \o q) = Len(b) + Len(q)
  OBVIOUS
<1>2. << >> \o q = q
  BY ConcatEmptySeq
<1>3. \A c \in Command : b \o Append(q, c) = Append(b \o q, c)
  OBVIOUS
<1>4. ASSUME b # << >>
      PROVE  /\ b \o q # << >> /\ (b \o q)[1] = Head(b)
             /\ Tail(b \o q) = Tail(b) \o q
  <2>1. Len(b) \in Nat \ {0} /\ Head(b) = b[1] /\ Len(q) \in Nat
    BY <1>4
  <2>2. Len(b \o q) > 0 /\ (b \o q)[1] = b[1]
    BY <1>1, <2>1
  <2>3. PICK x \in Seq(Command) : x = Tail(b \o q)
    <3>1. Tail(b \o q) \in Seq(Command)
      BY <1>1, <2>2
    <3> QED BY <3>1
  <2>4. PICK y \in Seq(Command) : y = Tail(b) \o q
    <3>1. Tail(b) \in Seq(Command)
      BY <1>4
    <3>2. Tail(b) \o q \in Seq(Command)
      BY <3>1
    <3> QED BY <3>2
  <2>5. /\ Len(x) = Len(b) + Len(q) - 1
        /\ \A i \in 1..Len(x) : x[i] = (b \o q)[i + 1]
    BY <1>1, <2>1, <2>2, <2>3
  <2>6. /\ Len(Tail(b)) = Len(b) - 1 /\ Tail(b) \in Seq(Command)
        /\ \A i \in 1..(Len(b) - 1) : Tail(b)[i] = b[i + 1]
    BY <1>4, <2>1
  <2>7. PICK t \in Seq(Command) : t = Tail(b)
    BY <2>6
  <2>8. /\ Len(y) = Len(t) + Len(q)
        /\ \A i \in 1..Len(t) : y[i] = t[i]
        /\ \A i \in 1..Len(q) : y[Len(t) + i] = q[i]
    BY <2>4, <2>7
  <2>9. /\ \A i \in 1..Len(b) : (b \o q)[i] = b[i]
        /\ \A i \in 1..Len(q) : (b \o q)[Len(b) + i] = q[i]
    OBVIOUS
  <2>10. Len(t) = Len(b) - 1 /\ \A i \in 1..(Len(b) - 1) : t[i] = b[i + 1]
    BY <2>6, <2>7
  <2> DEFINE p == b \o q
  <2> HIDE DEF p
  <2>11. /\ \A i \in 1..Len(x) : x[i] = p[i + 1]
         /\ \A i \in 1..Len(b) : p[i] = b[i]
         /\ \A i \in 1..Len(q) : p[Len(b) + i] = q[i]
    BY <2>5, <2>9 DEF p
  <2>12. \A i \in 1..Len(x) : x[i] = y[i]
    <3> TAKE i \in 1..Len(x)
    <3>1. CASE i <= Len(b) - 1
      <4>1. i \in 1..Len(t) /\ i + 1 \in 1..Len(b)
        BY <2>1, <2>10, <3>1
      <4>2. x[i] = b[i + 1]
        BY <2>11, <4>1
      <4>3. y[i] = b[i + 1]
        BY <2>8, <2>10, <4>1
      <4> QED BY <4>2, <4>3
    <3>2. CASE i > Len(b) - 1
      <4> DEFINE k == i - (Len(b) - 1)
      <4>1. k \in 1..Len(q)
        BY <2>1, <2>5, <3>2
      <4>2. i + 1 = Len(b) + k /\ i = Len(t) + k
        BY <2>1, <2>10
      <4> HIDE DEF k
      <4>3. x[i] = q[k]
        BY <2>11, <4>1, <4>2
      <4>4. y[i] = q[k]
        BY <2>8, <4>1, <4>2
      <4> QED BY <4>3, <4>4
    <3> QED BY <2>1, <3>1, <3>2
  <2>13. Len(x) = Len(y)
    BY <2>1, <2>5, <2>8, <2>10
  <2>14. x = y
    BY <2>12, <2>13, SeqEqual
  <2> QED BY <2>1, <2>2, <2>3, <2>4, <2>14
<1> QED BY <1>1, <1>2, <1>3, <1>4

\* A window that keeps the revisions keeps the order.
LEMMA SameRevisions ==
  ASSUME NEW P \in Seq(Command), NEW done, NEW v, NEW w, Ordered(P, done, v),
         \A e \in Entries : w[e].revision = v[e].revision
  PROVE  Ordered(P, done, w)
<1>1. \A i \in DOMAIN P : P[i].entry \in Entries
  <2> TAKE i \in DOMAIN P
  <2>1. P[i] \in Command
    OBVIOUS
  <2> QED BY <2>1 DEF Command
<1> QED BY <1>1 DEF Ordered

\* No command can be in order and set a draft whose last revision is done.
LEMMA NothingPending ==
  ASSUME NEW P \in Seq(Command), NEW done \in [Entries -> Nat],
         NEW v \in [Entries -> EntryViewState], NEW d, NEW l,
         Settled(P, d, l), Ordered(P, done, v),
         NEW e \in Entries, done[e] = v[e].revision
  PROVE  d[e] = l[e]
<1>1. \A i \in DOMAIN P : ~ Touches(P[i], e)
  <2> SUFFICES ASSUME NEW i \in DOMAIN P, Touches(P[i], e) PROVE FALSE
    OBVIOUS
  <2>1. P[i] \in Command /\ P[i].op \in UserOp /\ P[i].entry = e
    BY DEF Touches
  <2>2. P[i].revision \in Nat
    BY <2>1 DEF Command, UserOp
  <2>3. done[e] < P[i].revision /\ P[i].revision <= v[e].revision
    BY <2>1 DEF Ordered
  <2> QED BY <2>2, <2>3
<1> QED BY <1>1 DEF Settled

\* While the first command sets a draft, the model's copy does not matter.
LEMMA FirstDecides ==
  ASSUME NEW P \in Seq(Command), P # << >>, NEW d, NEW d2, NEW l, Settled(P, d, l),
         \A e \in Entries : d2[e] = d[e] \/ Touches(P[1], e)
  PROVE  Settled(P, d2, l)
<1>1. 1 \in DOMAIN P
  OBVIOUS
<1> QED BY <1>1 DEF Settled

-----------------------------------------------------------------------------
(* The workspace.                                                          *)

\* SetDraft sets one draft.
LEMMA SetDraftIs ==
  ASSUME NEW w \in Workspace, NEW e \in Entries, NEW t \in Entries \cup {Empty}
  PROVE  /\ SetDraft(w, e, t) \in Workspace
         /\ SetDraft(w, e, t).draft = [w.draft EXCEPT ![e] = t]
<1>1. w.draft \in [Entries -> Entries \cup {Empty}]
  BY DEF Workspace
<1>2. CASE w.draft[e] = t
  <2>1. [w.draft EXCEPT ![e] = t] = w.draft
    BY <1>1, <1>2
  <2> QED BY <1>2, <2>1 DEF SetDraft
<1>3. CASE w.draft[e] # t
  <2>1. SetDraft(w, e, t) = [w EXCEPT !.draft[e] = t]
    BY <1>3 DEF SetDraft, Commit, CanApply, Apply, DraftChangedEvent
  <2> QED BY <2>1 DEF Workspace
<1> QED BY <1>2, <1>3

\* Selecting or opening a chat, a reservation and a message leave the drafts.
LEMMA DraftsKept ==
  ASSUME NEW w \in Workspace
  PROVE  /\ \A e \in Entries :
              /\ SelectEntry(w, e) \in Workspace /\ SelectEntry(w, e).draft = w.draft
              /\ OpenOrSelectChat(w, e) \in Workspace
              /\ OpenOrSelectChat(w, e).draft = w.draft
         /\ \A n \in Nat :
              /\ Commit(w, MessageSequenceReservedEvent(n)) \in Workspace
              /\ Commit(w, MessageSequenceReservedEvent(n)).draft = w.draft
              /\ Commit(w, MessageAddedEvent(n)) \in Workspace
              /\ Commit(w, MessageAddedEvent(n)).draft = w.draft
<1>1. \A x \in Workspace, e \in Entries :
        /\ Commit(x, ChatSelectedEvent(e)) \in Workspace
        /\ Commit(x, ChatSelectedEvent(e)).draft = x.draft
  <2> TAKE x \in Workspace, e \in Entries
  <2>1. \/ Commit(x, ChatSelectedEvent(e)) = x
        \/ Commit(x, ChatSelectedEvent(e)) = [x EXCEPT !.selected = e]
    BY DEF Commit, CanApply, Apply, ChatSelectedEvent
  <2> QED BY <2>1 DEF Workspace
<1>2. \A x \in Workspace, e \in Entries :
        /\ Commit(x, ChatEntryAddedEvent(e)) \in Workspace
        /\ Commit(x, ChatEntryAddedEvent(e)).draft = x.draft
  <2> TAKE x \in Workspace, e \in Entries
  <2>1. \/ Commit(x, ChatEntryAddedEvent(e)) = x
        \/ Commit(x, ChatEntryAddedEvent(e)) = [x EXCEPT !.chats = @ \cup {e}]
    BY DEF Commit, CanApply, Apply, ChatEntryAddedEvent
  <2> QED BY <2>1 DEF Workspace
<1>3. ASSUME NEW n \in Nat
      PROVE  /\ Commit(w, MessageSequenceReservedEvent(n)) \in Workspace
             /\ Commit(w, MessageSequenceReservedEvent(n)).draft = w.draft
  <2>1. \/ Commit(w, MessageSequenceReservedEvent(n)) = w
        \/ Commit(w, MessageSequenceReservedEvent(n)) = [w EXCEPT !.next = n + 1]
    BY DEF Commit, CanApply, Apply, MessageSequenceReservedEvent
  <2> QED BY <2>1 DEF Workspace
<1>4. ASSUME NEW n \in Nat
      PROVE  /\ Commit(w, MessageAddedEvent(n)) \in Workspace
             /\ Commit(w, MessageAddedEvent(n)).draft = w.draft
  <2>1. \/ Commit(w, MessageAddedEvent(n)) = w
        \/ Commit(w, MessageAddedEvent(n)) = [w EXCEPT !.messages = @ \cup {n}]
    BY DEF Commit, CanApply, Apply, MessageAddedEvent
  <2> QED BY <2>1 DEF Workspace
<1>5. ASSUME NEW e \in Entries
      PROVE  SelectEntry(w, e) \in Workspace /\ SelectEntry(w, e).draft = w.draft
  BY <1>1 DEF SelectEntry
<1>6. ASSUME NEW e \in Entries
      PROVE  /\ OpenOrSelectChat(w, e) \in Workspace
             /\ OpenOrSelectChat(w, e).draft = w.draft
  <2>1. PICK x \in Workspace :
          /\ x = (IF e \in w.chats THEN w ELSE Commit(w, ChatEntryAddedEvent(e)))
          /\ x.draft = w.draft
    BY <1>2
  <2>2. OpenOrSelectChat(w, e) = Commit(x, ChatSelectedEvent(e))
    BY <2>1 DEF OpenOrSelectChat
  <2> QED BY <1>1, <2>1, <2>2
<1> QED BY <1>3, <1>4, <1>5, <1>6

\* What is published of a workspace.
LEMMA PublicationIs ==
  ASSUME NEW w \in Workspace, NEW r \in [Entries -> Nat], NEW a \in Entries \cup {None}
  PROVE  /\ Publication(w, r, a) \in PublicationType
         /\ Publication(w, r, a).revisions = r
         /\ Publication(w, r, a).workspace.draft = w.draft
BY DEF Workspace, Publication, Shown, PublicationType, ShownWorkspace

-----------------------------------------------------------------------------
(* What a step leaves alone.                                               *)

\* What was published stays true while only the model goes on.
LEMMA PublishedFrame ==
  ASSUME TypeOK, PublishedOK, RevisionMatchesDraft, processed' \in [Entries -> Nat],
         UNCHANGED <<slot, mirror, last>>,
         \A e \in Entries : /\ processed[e] <= processed'[e]
                            /\ view'[e].revision = view[e].revision
                            /\ view'[e].published = view[e].published
  PROVE  PublishedOK' /\ RevisionMatchesDraft'
<1>1. \A e \in Entries : view[e].published \in Nat /\ processed[e] \in Nat
  BY DEF TypeOK, EntryViewState
<1>2. slot # None => \A e \in Entries : slot.revisions[e] \in Nat
  BY DEF TypeOK, PublicationType
<1>3. PublishedOK'
  BY <1>1, <1>2 DEF PublishedOK
<1>4. RevisionMatchesDraft'
  BY DEF RevisionMatchesDraft
<1> QED BY <1>3, <1>4

\* The pending edits stay in order while the queue and the drafts stay.
LEMMA EditsFrame ==
  ASSUME TypeOK, EditsOK, Pending' = Pending, model'.draft = model.draft,
         UNCHANGED <<last, processed>>, pc = "failed" => pc' = "failed",
         \A e \in Entries : view'[e].revision = view[e].revision
  PROVE  EditsOK'
<1>1. PICK P \in Seq(Command) : P = Pending
  BY PendingShape DEF TypeOK, Pending
<1>2. Ordered(P, processed, view)
  BY <1>1 DEF EditsOK
<1>3. Ordered(P, processed, view')
  BY <1>2, SameRevisions
<1>4. pc' # "failed" => Settled(P, model'.draft, last')
  BY <1>1 DEF EditsOK
<1> QED BY <1>1, <1>3, <1>4 DEF EditsOK

\* A window whose revisions grow keeps the order.
LEMMA GrownRevisions ==
  ASSUME NEW P \in Seq(Command), NEW done, Ordered(P, done, view),
         view \in [Entries -> EntryViewState], view' \in [Entries -> EntryViewState],
         \A e \in Entries : view[e].revision <= view'[e].revision
  PROVE  Ordered(P, done, view')
<1>1. \A i \in DOMAIN P :
        P[i].op \in UserOp => P[i].entry \in Entries /\ P[i].revision \in Nat
  <2> TAKE i \in DOMAIN P
  <2>1. P[i] \in Command
    OBVIOUS
  <2> QED BY <2>1 DEF Command, UserOp
<1>2. \A e \in Entries : view[e].revision \in Nat /\ view'[e].revision \in Nat
  BY DEF EntryViewState
<1>3. \A i \in DOMAIN P :
        P[i].op \in UserOp => P[i].revision <= view'[P[i].entry].revision
  <2> SUFFICES ASSUME NEW i \in DOMAIN P, P[i].op \in UserOp
               PROVE  P[i].revision <= view'[P[i].entry].revision
    OBVIOUS
  <2>1. P[i].revision <= view[P[i].entry].revision
    BY DEF Ordered
  <2> QED BY <1>1, <1>2, <2>1
<1> QED BY <1>3 DEF Ordered

-----------------------------------------------------------------------------
(* Steps of the window.                                                    *)

\* An edit or a send that the window hands to the session, or that the
\* session refuses.
LEMMA UserCommand ==
  ASSUME IndInv, NEW c \in Command, c.op \in UserOp, active \in Entries,
         c.entry = active, c.revision = view[active].revision + 1,
         view' \in [Entries -> EntryViewState],
         \A e \in Entries :
           /\ view'[e].revision = IF e = active THEN c.revision ELSE view[e].revision
           /\ view'[e].published = view[e].published,
         queue' = IF AcceptingUser THEN queue \o <<c>> ELSE queue,
         last' = IF AcceptingUser /\ c.text # Big
                 THEN [last EXCEPT ![active] = Leaves(c)] ELSE last,
         UNCHANGED <<session, slot, stopRequested, mirror, platform>>,
         platform = "linux" => c \in OwnCommand
  PROVE  /\ queue' \in Seq(Command) /\ last' \in [Entries -> Entries \cup {Empty}]
         /\ disk' = model' /\ QueueOK' /\ EditsOK' /\ PublishedOK'
         /\ RevisionMatchesDraft' /\ OwnSession'
<1>1. /\ TypeOK /\ disk = model /\ QueueOK /\ EditsOK /\ PublishedOK
      /\ RevisionMatchesDraft /\ OwnSession
  BY DEF IndInv
<1>2. UNCHANGED <<batch, pc, model, disk, processed, slot, stopRequested, mirror, platform>>
  BY DEF session
<1>3. /\ view \in [Entries -> EntryViewState] /\ batch \in Seq(Command)
      /\ queue \in Seq(Command) /\ last \in [Entries -> Entries \cup {Empty}]
      /\ processed \in [Entries -> Nat]
  BY <1>1 DEF TypeOK
<1>4. \A e \in Entries : /\ view[e].revision \in Nat /\ view'[e].revision \in Nat
                         /\ view[e].published \in Nat
  BY <1>3 DEF EntryViewState
<1>5. queue \o <<c>> = Append(queue, c)
  BY <1>3
<1>6. queue' \in Seq(Command)
  BY <1>3, <1>5
<1>7. Leaves(c) \in Text /\ c.text \in Text
  BY DEF Command, Leaves, Text, UserOp
<1>8. c.text # Big => Leaves(c) \in Entries \cup {Empty}
  BY <1>7 DEF Leaves, Text
<1>9. last' \in [Entries -> Entries \cup {Empty}]
  BY <1>3, <1>8
<1>10. disk' = model'
  BY <1>1, <1>2
<1>11. QueueOK'
  <2>1. pc \in {"drain", "refuse", "finished"} => queue' = queue
    BY <1>1 DEF QueueOK, AcceptingUser
  <2> QED BY <1>1, <1>2, <2>1 DEF QueueOK
<1>12. \A e \in Entries : view[e].revision <= view'[e].revision
  BY <1>4
<1>13. \A e \in Entries : processed[e] <= view'[e].revision
  BY <1>1, <1>3, <1>4, <1>12 DEF EditsOK
<1>14. PICK P \in Seq(Command) : P = Pending
  BY <1>3, PendingShape DEF Pending
<1>15. EditsOK'
  <2>1. CASE ~ AcceptingUser
    <3>1. Pending' = P /\ last' = last
      BY <1>2, <1>14, <2>1 DEF Pending
    <3>2. Ordered(P, processed, view')
      BY <1>1, <1>3, <1>12, <1>14, GrownRevisions DEF EditsOK
    <3> QED BY <1>1, <1>2, <1>13, <1>14, <3>1, <3>2 DEF EditsOK
  <2>2. CASE AcceptingUser
    <3>1. Pending' = Append(P, c)
      <4>1. queue' = Append(queue, c)
        BY <1>5, <2>2
      <4>2. PICK b \in Seq(Command) : b = batch
        BY <1>3
      <4>3. PICK q \in Seq(Command) : q = queue
        BY <1>3
      <4>4. b \o Append(q, c) = Append(b \o q, c)
        BY PendingShape
      <4> QED BY <1>2, <1>14, <4>1, <4>2, <4>3, <4>4 DEF Pending
    <3>2. pc # "failed"
      BY <2>2 DEF AcceptingUser
    <3>3. Settled(P, model.draft, last) /\ Ordered(P, processed, view)
      BY <1>1, <1>14, <3>2 DEF EditsOK
    <3>4. \A e \in Entries : last'[e] = IF Touches(c, e) THEN Leaves(c) ELSE last[e]
      BY <1>3, <2>2 DEF Touches
    <3>5. PICK l \in [Entries -> Entries \cup {Empty}] : l = last
      BY <1>3
    <3>6. PICK m \in [Entries -> Entries \cup {Empty}] : m = last'
      BY <1>9
    <3>7. PICK v \in [Entries -> EntryViewState] : v = view
      BY <1>3
    <3>8. PICK w \in [Entries -> EntryViewState] : w = view'
      OBVIOUS
    <3>9. PICK d : d = model.draft
      OBVIOUS
    <3>10. PICK done \in [Entries -> Nat] : done = processed
      BY <1>3
    <3>11. /\ c.entry \in Entries /\ c.revision = v[c.entry].revision + 1
           /\ w[c.entry].revision = c.revision
           /\ \A e \in Entries : e # c.entry => w[e].revision = v[e].revision
      BY <3>7, <3>8
    <3>12. \A e \in Entries : /\ Touches(c, e) => m[e] = Leaves(c)
                              /\ ~ Touches(c, e) => m[e] = l[e]
      BY <3>4, <3>5, <3>6
    <3>13. Settled(P, d, l) /\ Ordered(P, done, v)
      BY <3>3, <3>5, <3>7, <3>9, <3>10
    <3>14. done[c.entry] <= v[c.entry].revision
      <4>1. \A e \in Entries : processed[e] <= view[e].revision
        BY <1>1 DEF EditsOK
      <4>2. \A e \in Entries : done[e] <= v[e].revision
        BY <3>7, <3>10, <4>1
      <4> QED BY <3>11, <4>2
    <3>15. Settled(Append(P, c), d, m)
      BY <3>12, <3>13, AppendSettled
    <3>16. Ordered(Append(P, c), done, w)
      BY <3>11, <3>13, <3>14, AppendOrdered
    <3> QED BY <1>2, <1>13, <3>1, <3>6, <3>8, <3>9, <3>10, <3>15, <3>16 DEF EditsOK
  <2> QED BY <2>1, <2>2
<1>16. \A e \in Entries : e # active => last'[e] = last[e]
  BY <1>3
<1>17. processed[active] < view'[active].revision
  <2>1. processed[active] <= view[active].revision
    BY <1>1 DEF EditsOK
  <2> QED BY <1>3, <1>4, <2>1
<1>18. slot # None => \A e \in Entries : slot.revisions[e] \in Nat
  BY <1>1 DEF TypeOK, PublicationType
<1>19. PublishedOK'
  <2> SUFFICES ASSUME NEW e \in Entries
               PROVE  /\ view'[e].published <= processed[e]
                      /\ slot # None =>
                           /\ view'[e].published <= slot.revisions[e]
                           /\ slot.revisions[e] <= processed[e]
                           /\ slot.revisions[e] = view'[e].revision
                                => slot.workspace.draft[e] = last'[e]
    BY <1>2 DEF PublishedOK
  <2>1. /\ view'[e].published <= processed[e]
        /\ slot # None =>
             /\ view'[e].published <= slot.revisions[e]
             /\ slot.revisions[e] <= processed[e]
    BY <1>1 DEF PublishedOK
  <2>2. CASE e # active
    BY <1>1, <1>16, <2>1, <2>2 DEF PublishedOK
  <2>3. CASE e = active
    <3>1. slot # None => slot.revisions[e] # view'[e].revision
      BY <1>3, <1>4, <1>17, <1>18, <2>1, <2>3
    <3> QED BY <2>1, <3>1
  <2> QED BY <2>2, <2>3
<1>20. RevisionMatchesDraft'
  <2> SUFFICES ASSUME mirror # None, NEW e \in Entries,
                      view'[e].revision = view'[e].published
               PROVE  mirror.draft[e] = last'[e]
    BY <1>2 DEF RevisionMatchesDraft
  <2>1. view[e].published <= processed[e]
    BY <1>1 DEF PublishedOK
  <2>2. e # active
    BY <1>3, <1>4, <1>17, <2>1
  <2> QED BY <1>1, <1>16, <2>2 DEF RevisionMatchesDraft
<1>21. OwnSession'
  <2>1. platform = "linux" => queue' \in Seq(OwnCommand)
    <3> SUFFICES ASSUME platform = "linux" PROVE queue' \in Seq(OwnCommand)
      OBVIOUS
    <3>1. queue \in Seq(OwnCommand) /\ c \in OwnCommand
      BY <1>1 DEF OwnSession
    <3>2. Append(queue, c) \in Seq(OwnCommand)
      BY <3>1
    <3> QED BY <1>5, <3>1, <3>2
  <2> QED BY <1>1, <1>2, <2>1 DEF OwnSession
<1> QED BY <1>6, <1>9, <1>10, <1>11, <1>15, <1>19, <1>20, <1>21

\* The text of the active chat changes.
LEMMA DraftChangedStep ==
  ASSUME IndInv, active # None, NEW t \in Text, OnDraftChanged(t),
         platform = "linux" => t \in Own(active) \cup {Big},
         UNCHANGED <<gui, active, mirror, switched, session, slot, stopRequested, platform>>,
         composing' \in BOOLEAN, platform = "linux" => composing' = FALSE
  PROVE  IndInv'
<1>1. TypeOK /\ ActiveOK /\ OwnWindow
  BY DEF IndInv
<1>2. PICK a \in Entries : a = active
  BY <1>1 DEF TypeOK
<1>3. view \in [Entries -> EntryViewState] /\ view[a].revision \in Nat
  BY <1>1 DEF TypeOK, EntryViewState
<1>4. PICK r \in Nat : r = view[a].revision + 1
  BY <1>3
<1>5. /\ view' = [view EXCEPT ![active].local = t, ![active].revision = @ + 1]
      /\ box' = t
      /\ EnqueueUserModelWork(<<Edit(active, t, view'[active].revision)>>)
      /\ last' = IF AcceptingUser /\ t # Big THEN [last EXCEPT ![active] = t] ELSE last
  BY DEF OnDraftChanged
<1>6. /\ view' \in [Entries -> EntryViewState]
      /\ view'[a].revision = r /\ view'[a].local = t
      /\ view'[a].published = view[a].published
      /\ \A e \in Entries : e # a => view'[e] = view[e]
  BY <1>2, <1>3, <1>4, <1>5 DEF EntryViewState
<1>7. PICK c \in Command : c = Edit(a, t, r)
  BY DEF Edit, Command, UserOp
<1>8. /\ c.op = "edit" /\ c.entry = a /\ c.text = t /\ c.revision = r
      /\ c.op \in UserOp
  BY <1>7 DEF Edit, UserOp
<1>9. queue' = IF AcceptingUser THEN queue \o <<c>> ELSE queue
  BY <1>2, <1>5, <1>6, <1>7 DEF EnqueueUserModelWork
<1>10. Leaves(c) = t
  BY <1>8 DEF Leaves
<1>11. last' = IF AcceptingUser /\ c.text # Big
               THEN [last EXCEPT ![active] = Leaves(c)] ELSE last
  BY <1>5, <1>8, <1>10
<1>12. platform = "linux" => c \in OwnCommand
  BY <1>2, <1>8 DEF OwnCommand
<1>13. active \in Entries /\ c.entry = active /\ c.revision = view[active].revision + 1
  BY <1>2, <1>4, <1>8
<1>14. \A e \in Entries :
         /\ view'[e].revision = IF e = active THEN c.revision ELSE view[e].revision
         /\ view'[e].published = view[e].published
  BY <1>2, <1>6, <1>8
<1>15. /\ queue' \in Seq(Command) /\ last' \in [Entries -> Entries \cup {Empty}]
       /\ disk' = model' /\ QueueOK' /\ EditsOK' /\ PublishedOK'
       /\ RevisionMatchesDraft' /\ OwnSession'
  BY <1>6, <1>8, <1>9, <1>11, <1>12, <1>13, <1>14, UserCommand
<1>16. TypeOK'
  BY <1>1, <1>5, <1>6, <1>15 DEF TypeOK, session
<1>17. ActiveOK'
  BY <1>1 DEF ActiveOK
<1>18. OwnWindow'
  BY <1>1, <1>2, <1>5, <1>6 DEF OwnWindow
<1> QED BY <1>15, <1>16, <1>17, <1>18 DEF IndInv

\* The input method is opened and closed on Windows only.
LEMMA ImeStep ==
  ASSUME IndInv, ImeStart \/ ImeEnd
  PROVE  IndInv'
<1>1. /\ TypeOK /\ disk = model /\ ActiveOK /\ QueueOK /\ EditsOK /\ PublishedOK
      /\ RevisionMatchesDraft /\ OwnWindow /\ OwnSession
  BY DEF IndInv
<1>2. platform # "linux" /\ active # None
  BY <1>1 DEF ImeStart, ImeEnd, OwnWindow, Usable
<1>3. CASE ImeEnd /\ \E t \in Text : OnDraftChanged(t)
  <2>1. PICK t \in Text : OnDraftChanged(t)
    BY <1>3
  <2>2. /\ UNCHANGED <<gui, active, mirror, switched, session, slot, stopRequested, platform>>
        /\ composing' = FALSE
    BY <1>3 DEF ImeEnd
  <2> QED BY <1>2, <2>1, <2>2, DraftChangedStep
<1>4. CASE /\ UNCHANGED <<gui, active, box, view, mirror, switched, queue, session,
                          slot, stopRequested, platform, last>>
           /\ composing' \in BOOLEAN
  <2>1. UNCHANGED <<batch, pc, model, disk, processed, ack>>
    BY <1>4 DEF session
  <2>2. TypeOK' /\ disk' = model' /\ ActiveOK' /\ QueueOK'
    BY <1>1, <1>4, <2>1 DEF TypeOK, ActiveOK, QueueOK
  <2>3. Pending' = Pending
    BY <1>4, <2>1 DEF Pending
  <2>4. EditsOK'
    BY <1>1, <1>4, <2>1, <2>3 DEF EditsOK
  <2>5. PublishedOK' /\ RevisionMatchesDraft'
    BY <1>1, <1>4, <2>1 DEF PublishedOK, RevisionMatchesDraft
  <2>6. OwnWindow' /\ OwnSession'
    BY <1>2, <1>4 DEF OwnWindow, OwnSession
  <2> QED BY <2>2, <2>4, <2>5, <2>6 DEF IndInv
<1>5. ImeStart => /\ UNCHANGED <<gui, active, box, view, mirror, switched, queue, session,
                                 slot, stopRequested, platform, last>>
                  /\ composing' \in BOOLEAN
  BY DEF ImeStart
<1>6. ImeEnd => \/ \E t \in Text : OnDraftChanged(t)
                \/ /\ UNCHANGED <<gui, active, box, view, mirror, switched, queue,
                                  session, slot, stopRequested, platform, last>>
                   /\ composing' \in BOOLEAN
  <2> SUFFICES ASSUME ImeEnd, OnDraftChanged(IF box = Empty THEN active ELSE box)
               PROVE  \E t \in Text : OnDraftChanged(t)
    BY DEF ImeEnd
  <2>1. PICK t : t = (IF box = Empty THEN active ELSE box)
    OBVIOUS
  <2>2. t \in Text
    BY <1>1, <1>2, <2>1 DEF TypeOK, Text
  <2>3. OnDraftChanged(t)
    BY <2>1
  <2> QED BY <2>2, <2>3
<1> QED BY <1>3, <1>4, <1>5, <1>6

\* Typing.
LEMMA TypeStep ==
  ASSUME IndInv, NEW t \in {active, Empty, Big}, Type(t)
  PROVE  IndInv'
<1>1. TypeOK /\ OwnWindow
  BY DEF IndInv
<1>2. active # None /\ active \in Entries
  BY <1>1 DEF Type, Usable, TypeOK
<1>3. t \in Text /\ t \in Own(active) \cup {Big}
  BY <1>2 DEF Text, Own
<1>4. /\ OnDraftChanged(t)
      /\ UNCHANGED <<gui, active, mirror, switched, session, slot, stopRequested, platform>>
      /\ composing' = composing
  BY DEF Type
<1>5. composing' \in BOOLEAN /\ (platform = "linux" => composing' = FALSE)
  BY <1>1, <1>4 DEF TypeOK, OwnWindow
<1> QED BY <1>2, <1>3, <1>4, <1>5, DraftChangedStep

\* Sending: the control keeps the text until the session has cleared it.
LEMMA SendStep ==
  ASSUME IndInv, OnSendDraftClicked
  PROVE  IndInv'
<1>1. TypeOK /\ ActiveOK /\ OwnWindow
  BY DEF IndInv
<1>2. PICK a \in Entries : a = active
  BY <1>1 DEF TypeOK, OnSendDraftClicked, Usable
<1>3. view \in [Entries -> EntryViewState] /\ view[a].revision \in Nat
  BY <1>1 DEF TypeOK, EntryViewState
<1>4. PICK r \in Nat : r = view[a].revision + 1
  BY <1>3
<1>5. PICK t \in Text : t = box
  BY <1>1 DEF TypeOK
<1>6. /\ view' = [view EXCEPT ![active].revision = @ + 1]
      /\ pendingSend' = view'[active].revision
      /\ EnqueueUserModelWork(<<SendDraft(active, box, pendingSend')>>)
      /\ last' = IF AcceptingUser /\ box # Big THEN [last EXCEPT ![active] = Empty] ELSE last
      /\ UNCHANGED <<gui, active, box, composing, mirror, switched, session, slot,
                     stopRequested, platform>>
  BY DEF OnSendDraftClicked
<1>7. /\ view' \in [Entries -> EntryViewState]
      /\ view'[a].revision = r /\ view'[a].local = view[a].local
      /\ view'[a].published = view[a].published
      /\ \A e \in Entries : e # a => view'[e] = view[e]
  BY <1>2, <1>3, <1>4, <1>6 DEF EntryViewState
<1>8. PICK c \in Command : c = SendDraft(a, t, r)
  BY DEF SendDraft, Command, UserOp
<1>9. /\ c.op = "send" /\ c.entry = a /\ c.text = t /\ c.revision = r
      /\ c.op \in UserOp
  BY <1>8 DEF SendDraft, UserOp
<1>10. queue' = IF AcceptingUser THEN queue \o <<c>> ELSE queue
  BY <1>2, <1>5, <1>6, <1>7, <1>8 DEF EnqueueUserModelWork
<1>11. Leaves(c) = Empty
  BY <1>9 DEF Leaves
<1>12. last' = IF AcceptingUser /\ c.text # Big
               THEN [last EXCEPT ![active] = Leaves(c)] ELSE last
  BY <1>5, <1>6, <1>9, <1>11
<1>13. platform = "linux" => c \in OwnCommand
  <2>1. platform = "linux" => ~ switched /\ active # None
    BY <1>1, <1>2, EntriesAssumption DEF OwnWindow, OnSendDraftClicked, Usable
  <2> QED BY <1>1, <1>2, <1>5, <1>9, <2>1 DEF OwnCommand, OwnWindow
<1>14. active \in Entries /\ c.entry = active /\ c.revision = view[active].revision + 1
  BY <1>2, <1>4, <1>9
<1>15. \A e \in Entries :
         /\ view'[e].revision = IF e = active THEN c.revision ELSE view[e].revision
         /\ view'[e].published = view[e].published
  BY <1>2, <1>7, <1>9
<1>16. /\ queue' \in Seq(Command) /\ last' \in [Entries -> Entries \cup {Empty}]
       /\ disk' = model' /\ QueueOK' /\ EditsOK' /\ PublishedOK'
       /\ RevisionMatchesDraft' /\ OwnSession'
  BY <1>6, <1>7, <1>9, <1>10, <1>12, <1>13, <1>14, <1>15, UserCommand
<1>17. TypeOK'
  BY <1>1, <1>6, <1>7, <1>16 DEF TypeOK, session
<1>18. ActiveOK'
  BY <1>1, <1>6 DEF ActiveOK
<1>19. \A e \in Entries : view'[e].local = view[e].local
  BY <1>7
<1>20. OwnWindow'
  BY <1>1, <1>6, <1>19 DEF OwnWindow
<1> QED BY <1>16, <1>17, <1>18, <1>20 DEF IndInv

\* UpdateDraftFromModel changes the text of one entry and of the control,
\* never a revision; what it shows is the entry's own.
LEMMA ShowDraftIs ==
  ASSUME NEW v \in [Entries -> EntryViewState], NEW e \in Entries,
         NEW m \in ShownWorkspace, NEW s \in BOOLEAN, box \in Text,
         ShowDraft(v, e, m, s)
  PROVE  /\ view' \in [Entries -> EntryViewState] /\ box' \in Text
         /\ \A x \in Entries : /\ view'[x].revision = v[x].revision
                               /\ view'[x].published = v[x].published
         /\ /\ platform = "linux"
            /\ \A x \in Entries : v[x].local \in Own(x) \cup {Big}
            /\ m.draft[e] \in Own(e) /\ (s \/ box \in Own(e) \cup {Big})
            => /\ box' \in Own(e) \cup {Big}
               /\ \A x \in Entries : view'[x].local \in Own(x) \cup {Big}
<1>1. PICK may \in BOOLEAN : may = (s \/ v[e].revision <= v[e].published)
  OBVIOUS
<1>2. PICK t : t = (IF s /\ v[e].local # Empty THEN v[e].local ELSE m.draft[e])
  OBVIOUS
<1>3. t \in Text
  BY <1>2 DEF ShownWorkspace, EntryViewState, Text
<1>4. UpdateDraftFromModel(v, box, e, m, s) =
        IF may THEN [view |-> [v EXCEPT ![e].local = t], box |-> t]
               ELSE [view |-> v, box |-> box]
  BY <1>1, <1>2 DEF UpdateDraftFromModel
<1>5. \/ view' = [v EXCEPT ![e].local = t] /\ box' = t
      \/ /\ view' = v /\ box' = box
         /\ platform = "linux" => ~ may
  <2>1. CASE platform = "windows"
    BY <1>4, <2>1 DEF ShowDraft, WinUpdateDraftFromModel
  <2>2. CASE platform # "windows"
    BY <1>4, <2>2 DEF ShowDraft
  <2> QED BY <2>1, <2>2
<1>6. CASE view' = [v EXCEPT ![e].local = t] /\ box' = t
  <2>1. /\ view' \in [Entries -> EntryViewState]
        /\ view'[e].local = t
        /\ view'[e].revision = v[e].revision /\ view'[e].published = v[e].published
        /\ \A x \in Entries : x # e => view'[x] = v[x]
    BY <1>3, <1>6 DEF EntryViewState
  <2>2. ASSUME \A x \in Entries : v[x].local \in Own(x) \cup {Big}, m.draft[e] \in Own(e)
        PROVE  t \in Own(e) \cup {Big}
    BY <1>2, <2>2
  <2> QED BY <1>3, <1>6, <2>1, <2>2
<1>7. CASE /\ view' = v /\ box' = box
           /\ platform = "linux" => ~ may
  BY <1>1, <1>7
<1> QED BY <1>5, <1>6, <1>7

\* Commands that set no draft are queued.
LEMMA QuietCommands ==
  ASSUME IndInv, NEW c \in Command, c.op \notin UserOp, queue' = Append(queue, c),
         UNCHANGED <<batch, model, last, processed, pc>>,
         \A e \in Entries : view'[e].revision = view[e].revision
  PROVE  EditsOK'
<1>1. TypeOK /\ EditsOK
  BY DEF IndInv
<1>2. PICK b \in Seq(Command) : b = batch
  BY <1>1 DEF TypeOK
<1>3. PICK q \in Seq(Command) : q = queue
  BY <1>1 DEF TypeOK
<1>4. PICK P \in Seq(Command) : P = b \o q
  BY PendingShape
<1>5. Pending = P /\ Pending' = Append(P, c)
  <2>1. b \o Append(q, c) = Append(b \o q, c)
    BY PendingShape
  <2> QED BY <1>2, <1>3, <1>4, <2>1 DEF Pending
<1>6. pc # "failed" => Settled(Append(P, c), model.draft, last)
  BY <1>1, <1>5, AppendQuiet DEF EditsOK
<1>7. Ordered(P, processed, view)
  BY <1>1, <1>5 DEF EditsOK
<1>8. Ordered(P, processed, view')
  BY <1>7, SameRevisions
<1>9. Ordered(Append(P, c), processed, view')
  BY <1>8, AppendQuiet
<1>10. \A e \in Entries : processed'[e] <= view'[e].revision
  BY <1>1 DEF EditsOK
<1> QED BY <1>5, <1>6, <1>9, <1>10 DEF EditsOK

\* The same for two commands.
LEMMA TwoQuietCommands ==
  ASSUME IndInv, NEW c \in Command, c.op \notin UserOp, NEW c2 \in Command,
         c2.op \notin UserOp, queue' = Append(Append(queue, c), c2),
         UNCHANGED <<batch, model, last, processed, pc>>,
         \A e \in Entries : view'[e].revision = view[e].revision
  PROVE  EditsOK'
<1>1. TypeOK /\ EditsOK
  BY DEF IndInv
<1>2. PICK b \in Seq(Command) : b = batch
  BY <1>1 DEF TypeOK
<1>3. PICK q \in Seq(Command) : q = queue
  BY <1>1 DEF TypeOK
<1>4. PICK P \in Seq(Command) : P = b \o q
  BY PendingShape
<1>5. PICK q2 \in Seq(Command) : q2 = Append(q, c)
  <2>1. Append(q, c) \in Seq(Command)
    OBVIOUS
  <2> QED BY <2>1
<1>6. PICK Q \in Seq(Command) : Q = Append(P, c)
  <2>1. Append(P, c) \in Seq(Command)
    OBVIOUS
  <2> QED BY <2>1
<1>7. Pending = P /\ Pending' = Append(Q, c2)
  <2>1. b \o q2 = Q
    BY <1>4, <1>5, <1>6, PendingShape
  <2>2. b \o Append(q2, c2) = Append(b \o q2, c2)
    BY PendingShape, SMTT(30)
  <2>3. Pending = b \o q /\ Pending' = b \o Append(q2, c2)
    BY <1>2, <1>3, <1>5 DEF Pending
  <2> QED BY <1>4, <2>1, <2>2, <2>3
<1>8. pc # "failed" => Settled(Q, model.draft, last)
  BY <1>1, <1>6, <1>7, AppendQuiet DEF EditsOK
<1>9. pc # "failed" => Settled(Append(Q, c2), model.draft, last)
  BY <1>8, AppendQuiet
<1>10. Ordered(P, processed, view)
  BY <1>1, <1>7 DEF EditsOK
<1>11. Ordered(P, processed, view')
  BY <1>10, SameRevisions
<1>12. Ordered(Q, processed, view')
  BY <1>6, <1>11, AppendQuiet
<1>13. Ordered(Append(Q, c2), processed, view')
  BY <1>12, AppendQuiet
<1>14. \A e \in Entries : processed'[e] <= view'[e].revision
  BY <1>1 DEF EditsOK
<1> QED BY <1>7, <1>9, <1>13, <1>14 DEF EditsOK

\* Leaving a chat keeps its text in the window; the next chat's is shown.
LEMMA SelectStep ==
  ASSUME IndInv, NEW e \in Entries, OnChatSelectionChanged(e)
  PROVE  IndInv'
<1>1. /\ TypeOK /\ disk = model /\ ActiveOK /\ QueueOK /\ EditsOK /\ PublishedOK
      /\ RevisionMatchesDraft /\ OwnWindow /\ OwnSession
  BY DEF IndInv
<1>2. /\ active # None /\ gui = "idle" /\ active' = e
      /\ EnqueueUserModelWork(<<SaveScroll(active), SelectChat(e)>>)
      /\ ShowDraft(SaveCurrentDraft, e, mirror, TRUE)
      /\ UNCHANGED <<gui, composing, mirror, switched, session, slot, stopRequested,
                     platform, last>>
  BY DEF OnChatSelectionChanged, Usable
<1>3. PICK a \in Entries : a = active
  BY <1>1, <1>2 DEF TypeOK
<1>4. PICK m \in ShownWorkspace : m = mirror
  BY <1>1, <1>2 DEF ActiveOK, TypeOK
<1>5. m # None
  BY <1>4, NoneAssumption
<1>6. view \in [Entries -> EntryViewState] /\ box \in Text
  BY <1>1 DEF TypeOK
<1>7. PICK v : v = SaveCurrentDraft
  OBVIOUS
<1>8. /\ v \in [Entries -> EntryViewState] /\ v[a].local = box
      /\ v[a].revision = view[a].revision /\ v[a].published = view[a].published
      /\ \A x \in Entries : x # a => v[x] = view[x]
  BY <1>3, <1>6, <1>7 DEF SaveCurrentDraft, EntryViewState
<1>9. ShowDraft(v, e, m, TRUE)
  BY <1>2, <1>4, <1>7
<1>10. /\ view' \in [Entries -> EntryViewState] /\ box' \in Text
       /\ \A x \in Entries : /\ view'[x].revision = v[x].revision
                             /\ view'[x].published = v[x].published
  BY <1>6, <1>8, <1>9, ShowDraftIs
<1>11. \A x \in Entries : /\ view'[x].revision = view[x].revision
                          /\ view'[x].published = view[x].published
  BY <1>8, <1>10
<1>12. PICK c \in Command : c = SaveScroll(a) /\ c.op = "scroll"
  <2>1. SaveScroll(a) \in Command /\ SaveScroll(a).op = "scroll"
    BY DEF Command, SaveScroll
  <2> QED BY <2>1
<1>13. PICK c2 \in Command : c2 = SelectChat(e) /\ c2.op = "select"
  <2>1. SelectChat(e) \in Command /\ SelectChat(e).op = "select"
    BY DEF Command, SelectChat
  <2> QED BY <2>1
<1>14. c.op \notin UserOp /\ c2.op \notin UserOp
  BY <1>12, <1>13 DEF UserOp
<1>15. queue \in Seq(Command) /\ queue \o <<c, c2>> = Append(Append(queue, c), c2)
  BY <1>1 DEF TypeOK
<1>16. queue' = IF AcceptingUser THEN Append(Append(queue, c), c2) ELSE queue
  BY <1>2, <1>3, <1>12, <1>13, <1>15 DEF EnqueueUserModelWork
<1>17. UNCHANGED <<batch, pc, model, disk, processed, ack>>
  BY <1>2 DEF session
<1>18. TypeOK'
  <2>1. queue' \in Seq(Command)
    BY <1>15, <1>16
  <2> QED BY <1>1, <1>2, <1>10, <1>17, <2>1 DEF TypeOK
<1>19. ActiveOK'
  BY <1>2, <1>4, <1>5, EntriesAssumption DEF ActiveOK
<1>20. QueueOK'
  <2>1. pc \in {"drain", "refuse", "finished"} => queue' = queue
    BY <1>1, <1>16 DEF QueueOK, AcceptingUser
  <2> QED BY <1>1, <1>2, <1>17, <2>1 DEF QueueOK
<1>21. EditsOK'
  <2>1. CASE AcceptingUser
    BY <1>2, <1>11, <1>14, <1>16, <1>17, <2>1, TwoQuietCommands
  <2>2. CASE ~ AcceptingUser
    <3>1. Pending' = Pending
      BY <1>16, <1>17, <2>2 DEF Pending
    <3> QED BY <1>1, <1>2, <1>11, <1>17, <3>1, EditsFrame
  <2> QED BY <2>1, <2>2
<1>22. PublishedOK' /\ RevisionMatchesDraft'
  <2>1. \A x \in Entries : processed[x] <= processed'[x]
    BY <1>1, <1>17 DEF TypeOK
  <2> QED BY <1>1, <1>2, <1>11, <1>17, <1>18, <2>1, PublishedFrame DEF TypeOK
<1>23. OwnWindow'
  <2> SUFFICES ASSUME platform = "linux" PROVE OwnWindow'
    BY <1>2 DEF OwnWindow
  <2>1. ~ switched /\ box \in Own(a) \cup {Big} /\ composing = FALSE
    BY <1>1, <1>2, <1>3 DEF OwnWindow
  <2>2. \A x \in Entries : v[x].local \in Own(x) \cup {Big}
    BY <1>1, <1>8, <2>1 DEF OwnWindow
  <2>3. \A x \in Entries : m.draft[x] \in Own(x)
    BY <1>1, <1>4, <1>5 DEF OwnWindow
  <2>4. /\ box' \in Own(e) \cup {Big}
        /\ \A x \in Entries : view'[x].local \in Own(x) \cup {Big}
    BY <1>6, <1>8, <1>9, <2>2, <2>3, ShowDraftIs
  <2>5. active' # None
    BY <1>2, EntriesAssumption
  <2> QED BY <1>2, <1>4, <2>1, <2>3, <2>4, <2>5 DEF OwnWindow
<1>24. OwnSession'
  <2>1. platform = "linux" => queue' \in Seq(OwnCommand)
    <3> SUFFICES ASSUME platform = "linux" PROVE queue' \in Seq(OwnCommand)
      OBVIOUS
    <3>1. queue \in Seq(OwnCommand) /\ c \in OwnCommand /\ c2 \in OwnCommand
      BY <1>1, <1>14 DEF OwnSession, OwnCommand
    <3>2. Append(Append(queue, c), c2) \in Seq(OwnCommand)
      BY <3>1
    <3> QED BY <1>16, <3>1, <3>2
  <2> QED BY <1>1, <1>2, <1>17, <2>1 DEF OwnSession
<1> QED BY <1>1, <1>17, <1>18, <1>19, <1>20, <1>21, <1>22, <1>23, <1>24 DEF IndInv

\* Closing saves the control's text in the window and queues the last command.
LEMMA CloseStep ==
  ASSUME IndInv, RequestClose
  PROVE  IndInv'
<1>1. /\ TypeOK /\ disk = model /\ ActiveOK /\ QueueOK /\ EditsOK /\ PublishedOK
      /\ RevisionMatchesDraft /\ OwnWindow /\ OwnSession
  BY DEF IndInv
<1>2. /\ gui = "idle" /\ stopRequested' = TRUE
      /\ view' = IF active = None THEN view ELSE SaveCurrentDraft
      /\ IF active = None THEN UNCHANGED queue
         ELSE EnqueueUserModelWork(<<SaveScroll(active)>>)
      /\ gui' \in {"idle", "closed"}
      /\ UNCHANGED <<active, box, composing, mirror, switched, session, slot,
                     platform, last>>
  BY DEF RequestClose, AfterClosing, bookkeeping
<1>3. UNCHANGED <<batch, pc, model, disk, processed, ack>>
  BY <1>2 DEF session
<1>4. view \in [Entries -> EntryViewState] /\ box \in Text /\ queue \in Seq(Command)
  BY <1>1 DEF TypeOK
<1>5. /\ view' \in [Entries -> EntryViewState]
      /\ \A x \in Entries : /\ view'[x].revision = view[x].revision
                            /\ view'[x].published = view[x].published
                            /\ \/ view'[x].local = view[x].local
                               \/ x = active /\ view'[x].local = box
  <2>1. CASE active = None
    BY <1>2, <1>4, <2>1
  <2>2. CASE active # None
    <3>1. PICK a \in Entries : a = active
      BY <1>1, <2>2 DEF TypeOK
    <3>2. view' = [view EXCEPT ![a].local = box]
      BY <1>2, <2>2, <3>1 DEF SaveCurrentDraft
    <3>3. /\ view' \in [Entries -> EntryViewState] /\ view'[a].local = box
          /\ view'[a].revision = view[a].revision /\ view'[a].published = view[a].published
          /\ \A x \in Entries : x # a => view'[x] = view[x]
      BY <1>4, <3>2 DEF EntryViewState
    <3> QED BY <3>1, <3>3
  <2> QED BY <2>1, <2>2
<1>6. \/ UNCHANGED queue
      \/ \E c \in Command : /\ AcceptingUser /\ c.op \notin UserOp
                            /\ queue' = Append(queue, c)
  <2>1. CASE active = None \/ ~ AcceptingUser
    BY <1>2, <2>1 DEF EnqueueUserModelWork
  <2>2. CASE active # None /\ AcceptingUser
    <3>1. PICK a \in Entries : a = active
      BY <1>1, <2>2 DEF TypeOK
    <3>2. SaveScroll(a) \in Command /\ SaveScroll(a).op = "scroll"
      BY DEF Command, SaveScroll
    <3>3. PICK c \in Command : c = SaveScroll(a) /\ c.op = "scroll"
      BY <3>2
    <3>4. queue' = queue \o <<c>>
      BY <1>2, <2>2, <3>1, <3>3 DEF EnqueueUserModelWork
    <3>5. queue \o <<c>> = Append(queue, c)
      BY <1>4
    <3>6. c.op \notin UserOp
      BY <3>3 DEF UserOp
    <3> QED BY <2>2, <3>4, <3>5, <3>6
  <2> QED BY <2>1, <2>2
<1>7. TypeOK'
  <2>1. queue' \in Seq(Command)
    BY <1>4, <1>6
  <2> QED BY <1>1, <1>2, <1>3, <1>5, <2>1 DEF TypeOK
<1>8. ActiveOK' /\ disk' = model'
  BY <1>1, <1>2, <1>3 DEF ActiveOK
<1>9. QueueOK'
  <2>1. pc \in {"drain", "refuse", "finished"} => queue' = queue
    BY <1>1, <1>6 DEF QueueOK, AcceptingUser
  <2> QED BY <1>1, <1>2, <1>3, <2>1 DEF QueueOK
<1>10. EditsOK'
  <2>1. CASE UNCHANGED queue
    <3>1. Pending' = Pending
      BY <1>3, <2>1 DEF Pending
    <3> QED BY <1>1, <1>2, <1>3, <1>5, <3>1, EditsFrame
  <2>2. ASSUME NEW c \in Command, c.op \notin UserOp, queue' = Append(queue, c)
        PROVE  EditsOK'
    BY <1>2, <1>3, <1>5, <2>2, QuietCommands
  <2> QED BY <1>6, <2>1, <2>2
<1>11. PublishedOK' /\ RevisionMatchesDraft'
  <2>1. \A x \in Entries : processed[x] <= processed'[x]
    BY <1>1, <1>3 DEF TypeOK
  <2>2. processed' \in [Entries -> Nat]
    BY <1>7 DEF TypeOK
  <2> QED BY <1>1, <1>2, <1>3, <1>5, <2>1, <2>2, PublishedFrame
<1>12. OwnWindow'
  <2> SUFFICES ASSUME platform = "linux" PROVE OwnWindow'
    BY <1>2 DEF OwnWindow
  <2>1. ~ switched /\ (active # None => box \in Own(active) \cup {Big})
    BY <1>1, <1>2 DEF OwnWindow
  <2>2. \A x \in Entries : view'[x].local \in Own(x) \cup {Big}
    BY <1>1, <1>5, <2>1, EntriesAssumption DEF OwnWindow
  <2> QED BY <1>1, <1>2, <2>1, <2>2 DEF OwnWindow
<1>13. OwnSession'
  <2>1. platform = "linux" => queue' \in Seq(OwnCommand)
    <3> SUFFICES ASSUME platform = "linux" PROVE queue' \in Seq(OwnCommand)
      OBVIOUS
    <3>1. queue \in Seq(OwnCommand)
      BY <1>1 DEF OwnSession
    <3>2. \A c \in Command : c.op \notin UserOp => c \in OwnCommand
      BY DEF OwnCommand
    <3>3. \A c \in OwnCommand : Append(queue, c) \in Seq(OwnCommand)
      BY <3>1
    <3> QED BY <1>6, <3>1, <3>2, <3>3
  <2> QED BY <1>1, <1>2, <1>3, <2>1 DEF OwnSession
<1> QED BY <1>7, <1>8, <1>9, <1>10, <1>11, <1>12, <1>13 DEF IndInv

\* The window takes a publication with its metadata.
LEMMA TakeStep ==
  ASSUME IndInv, TakeUiUpdate
  PROVE  IndInv'
<1>1. /\ TypeOK /\ disk = model /\ ActiveOK /\ QueueOK /\ EditsOK /\ PublishedOK
      /\ RevisionMatchesDraft /\ OwnWindow /\ OwnSession
  BY DEF IndInv
<1>2. /\ gui = "consuming" /\ slot # None /\ slot' = None
      /\ mirror' = slot.workspace
      /\ active' = IF Follows \/ active = None THEN slot.workspace.selected ELSE active
      /\ switched' = (switched \/ Follows)
      /\ view' = [e \in Entries |->
                    IF slot.revisions[e] = 0 THEN view[e]
                    ELSE [view[e] EXCEPT !.published = slot.revisions[e]]]
      /\ UNCHANGED <<gui, box, composing, queue, session, stopRequested, platform, last>>
  BY DEF TakeUiUpdate, TryTakeUiUpdate, ApplyPublication, NoteRevisions, bookkeeping
<1>3. UNCHANGED <<batch, pc, model, disk, processed, ack>>
  BY <1>2 DEF session
<1>4. PICK s \in PublicationType : s = slot
  BY <1>1, <1>2 DEF TypeOK
<1>5. /\ s.workspace \in ShownWorkspace /\ s.workspace.selected \in Entries
      /\ s.revisions \in [Entries -> Nat]
  BY DEF PublicationType, ShownWorkspace
<1>6. view \in [Entries -> EntryViewState] /\ processed \in [Entries -> Nat]
  BY <1>1 DEF TypeOK
<1>7. /\ view' \in [Entries -> EntryViewState]
      /\ \A e \in Entries :
           /\ view'[e].revision = view[e].revision /\ view'[e].local = view[e].local
           /\ s.revisions[e] = 0 => view'[e].published = view[e].published
           /\ s.revisions[e] # 0 => view'[e].published = s.revisions[e]
  BY <1>2, <1>4, <1>5, <1>6 DEF EntryViewState
<1>8. \A e \in Entries : /\ view[e].revision \in Nat /\ view[e].published \in Nat
                         /\ s.revisions[e] \in Nat /\ processed[e] \in Nat
  BY <1>5, <1>6 DEF EntryViewState
<1>9. \A e \in Entries : view'[e].published = s.revisions[e]
  <2> TAKE e \in Entries
  <2>1. view[e].published <= s.revisions[e]
    BY <1>1, <1>2, <1>4 DEF PublishedOK
  <2> QED BY <1>7, <1>8, <2>1
<1>10. active' \in Entries /\ mirror' \in ShownWorkspace
  BY <1>1, <1>2, <1>4, <1>5 DEF TypeOK
<1>11. TypeOK'
  <2>1. switched' \in BOOLEAN
    BY <1>2 DEF Follows
  <2> QED BY <1>1, <1>2, <1>3, <1>7, <1>10, <2>1 DEF TypeOK
<1>12. ActiveOK' /\ disk' = model'
  BY <1>1, <1>3, <1>10, EntriesAssumption, NoneAssumption DEF ActiveOK
<1>13. QueueOK'
  BY <1>1, <1>2, <1>3 DEF QueueOK
<1>14. EditsOK'
  <2>1. Pending' = Pending
    BY <1>2, <1>3 DEF Pending
  <2> QED BY <1>1, <1>2, <1>3, <1>7, <2>1, EditsFrame
<1>15. PublishedOK'
  BY <1>1, <1>2, <1>3, <1>4, <1>9 DEF PublishedOK
<1>16. RevisionMatchesDraft'
  <2> SUFFICES ASSUME NEW e \in Entries, view'[e].revision = view'[e].published
               PROVE  mirror'.draft[e] = last[e]
    BY <1>2 DEF RevisionMatchesDraft
  <2>1. s.revisions[e] = view[e].revision
    BY <1>7, <1>9
  <2> QED BY <1>1, <1>2, <1>4, <2>1 DEF PublishedOK
<1>17. OwnWindow'
  <2> SUFFICES ASSUME platform = "linux" PROVE OwnWindow'
    BY <1>2 DEF OwnWindow
  <2>1. composing' = FALSE /\ gui' = "consuming" /\ mirror' # None /\ active' # None
    BY <1>1, <1>2, <1>10, EntriesAssumption, NoneAssumption DEF OwnWindow
  <2>2. ~ switched' => box' \in Own(active') \cup {Big}
    <3> SUFFICES ASSUME ~ switched' PROVE box \in Own(active') \cup {Big}
      BY <1>2
    <3>1. ~ switched /\ ~ Follows
      BY <1>1, <1>2 DEF TypeOK
    <3>2. CASE active = None
      BY <1>1, <3>2 DEF OwnWindow, Own
    <3>3. CASE active # None
      BY <1>1, <1>2, <3>1, <3>3 DEF OwnWindow
    <3> QED BY <3>2, <3>3
  <2>3. \A e \in Entries : /\ view'[e].local \in Own(e) \cup {Big}
                           /\ mirror'.draft[e] \in Own(e)
    BY <1>1, <1>2, <1>7 DEF OwnWindow, OwnSession
  <2> QED BY <2>1, <2>2, <2>3 DEF OwnWindow
<1>18. OwnSession'
  BY <1>1, <1>2, <1>3 DEF OwnSession
<1> QED BY <1>11, <1>12, <1>13, <1>14, <1>15, <1>16, <1>17, <1>18 DEF IndInv

\* The window starts to consume, or refreshes its controls.
LEMMA RefreshStep ==
  ASSUME IndInv, StartConsuming \/ UpdateUiFromWorkspace
  PROVE  IndInv'
<1>1. /\ TypeOK /\ disk = model /\ ActiveOK /\ QueueOK /\ EditsOK /\ PublishedOK
      /\ RevisionMatchesDraft /\ OwnWindow /\ OwnSession
  BY DEF IndInv
<1>2. /\ switched' = FALSE /\ gui' \in {"idle", "consuming", "closed"}
      /\ UNCHANGED <<active, composing, mirror, queue, session, slot, stopRequested,
                     platform, last>>
  BY DEF StartConsuming, UpdateUiFromWorkspace, AfterClosing, bookkeeping
<1>3. UNCHANGED <<batch, pc, model, disk, processed, ack>>
  BY <1>2 DEF session
<1>4. view \in [Entries -> EntryViewState] /\ box \in Text /\ switched \in BOOLEAN
  BY <1>1 DEF TypeOK
<1>5. /\ view' \in [Entries -> EntryViewState] /\ box' \in Text
      /\ \A x \in Entries : /\ view'[x].revision = view[x].revision
                            /\ view'[x].published = view[x].published
      /\ platform = "linux" =>
           /\ active = None => box' = Empty
           /\ active # None => box' \in Own(active) \cup {Big}
           /\ \A x \in Entries : view'[x].local \in Own(x) \cup {Big}
  <2>1. CASE UNCHANGED <<view, box>> /\ (platform = "linux" => ~ switched)
    BY <1>1, <1>4, <2>1 DEF OwnWindow
  <2>2. CASE mirror # None /\ ShowDraft(view, active, mirror, switched)
    <3>1. PICK m \in ShownWorkspace : m = mirror
      BY <1>1, <2>2 DEF TypeOK
    <3>2. PICK a \in Entries : a = active
      BY <1>1, <2>2 DEF TypeOK, ActiveOK
    <3>3. PICK v \in [Entries -> EntryViewState] : v = view
      BY <1>4
    <3>4. PICK s \in BOOLEAN : s = switched
      BY <1>4
    <3>5. ShowDraft(v, a, m, s)
      BY <2>2, <3>1, <3>2, <3>3, <3>4
    <3>6. /\ view' \in [Entries -> EntryViewState] /\ box' \in Text
          /\ \A x \in Entries : /\ view'[x].revision = v[x].revision
                                /\ view'[x].published = v[x].published
      BY <1>4, <3>5, ShowDraftIs
    <3>7. ASSUME platform = "linux"
          PROVE  /\ box' \in Own(a) \cup {Big}
                 /\ \A x \in Entries : view'[x].local \in Own(x) \cup {Big}
      <4>1. active # None
        BY <3>2, EntriesAssumption
      <4>2. /\ \A x \in Entries : v[x].local \in Own(x) \cup {Big}
            /\ m.draft[a] \in Own(a) /\ (s \/ box \in Own(a) \cup {Big})
        BY <1>1, <2>2, <3>1, <3>2, <3>3, <3>4, <3>7, <4>1 DEF OwnWindow
      <4> QED BY <1>4, <3>5, <3>7, <4>2, ShowDraftIs
    <3>8. active # None
      BY <3>2, EntriesAssumption
    <3> QED BY <3>2, <3>3, <3>6, <3>7, <3>8
  <2>3. StartConsuming => UNCHANGED <<view, box>> /\ (platform = "linux" => ~ switched)
    BY <1>1 DEF StartConsuming, OwnWindow
  <2>4. UpdateUiFromWorkspace =>
          \/ UNCHANGED <<view, box>> /\ (platform = "linux" => ~ switched)
          \/ mirror # None /\ ShowDraft(view, active, mirror, switched)
    BY <1>1 DEF UpdateUiFromWorkspace, OwnWindow
  <2> QED BY <2>1, <2>2, <2>3, <2>4
<1>6. TypeOK' /\ ActiveOK' /\ disk' = model' /\ QueueOK'
  <2>1. TypeOK'
    BY <1>1, <1>2, <1>3, <1>5 DEF TypeOK
  <2>2. ActiveOK' /\ QueueOK'
    BY <1>1, <1>2, <1>3 DEF ActiveOK, QueueOK
  <2> QED BY <1>1, <1>3, <2>1, <2>2
<1>7. EditsOK'
  <2>1. Pending' = Pending
    BY <1>2, <1>3 DEF Pending
  <2> QED BY <1>1, <1>2, <1>3, <1>5, <2>1, EditsFrame
<1>8. PublishedOK' /\ RevisionMatchesDraft'
  <2>1. \A x \in Entries : processed[x] <= processed'[x]
    BY <1>1, <1>3 DEF TypeOK
  <2>2. processed' \in [Entries -> Nat]
    BY <1>6 DEF TypeOK
  <2> QED BY <1>1, <1>2, <1>3, <1>5, <2>1, <2>2, PublishedFrame
<1>9. OwnWindow'
  BY <1>1, <1>2, <1>5 DEF OwnWindow
<1>10. OwnSession'
  BY <1>1, <1>2, <1>3 DEF OwnSession
<1> QED BY <1>6, <1>7, <1>8, <1>9, <1>10 DEF IndInv

-----------------------------------------------------------------------------
(* Steps of the model thread.                                              *)

\* Only the session changes.
LEMMA WindowFrame ==
  ASSUME IndInv, UNCHANGED <<gui, window, platform>>
  PROVE  /\ OwnWindow' /\ ActiveOK' /\ UNCHANGED <<view, mirror>>
         /\ active' \in Entries \cup {None} /\ box' \in Text /\ composing' \in BOOLEAN
         /\ view' \in [Entries -> EntryViewState] /\ platform' \in Platforms
         /\ gui' \in {"idle", "consuming", "closed"} /\ switched' \in BOOLEAN
         /\ mirror' \in ShownWorkspace \cup {None}
<1>1. TypeOK /\ ActiveOK /\ OwnWindow
  BY DEF IndInv
<1>2. UNCHANGED <<gui, platform, active, box, composing, view, mirror, switched>>
  BY DEF window
<1>3. OwnWindow' /\ ActiveOK'
  BY <1>1, <1>2 DEF OwnWindow, ActiveOK
<1> QED BY <1>1, <1>2, <1>3 DEF TypeOK

\* A command of the batch is run to its end.
LEMMA RunStep ==
  ASSUME IndInv, pc \in {"work", "clear"}, pc' = "work", batch # << >>,
         batch' = Tail(batch),
         UNCHANGED <<gui, window, queue, slot, stopRequested, platform, last>>,
         model' \in Workspace, disk' = model', ack' \in Entries \cup {None},
         processed' \in [Entries -> Nat],
         \A e \in Entries :
           /\ model'.draft[e] = IF Touches(Head(batch), e) THEN Leaves(Head(batch))
                                                           ELSE model.draft[e]
           /\ processed'[e] = IF Touches(Head(batch), e) THEN Head(batch).revision
                                                         ELSE processed[e]
  PROVE  IndInv'
<1>1. /\ TypeOK /\ QueueOK /\ EditsOK /\ PublishedOK
      /\ RevisionMatchesDraft /\ OwnSession
  BY DEF IndInv
<1>2. PICK b \in Seq(Command) : b = batch
  BY <1>1 DEF TypeOK
<1>3. PICK q \in Seq(Command) : q = queue
  BY <1>1 DEF TypeOK
<1>4. PICK P \in Seq(Command) : P = b \o q
  BY PendingShape
<1>5. PICK c \in Command : c = Head(b)
  <2>1. Head(b) \in Command
    BY <1>2
  <2> QED BY <2>1
<1>6. /\ P # << >> /\ P[1] = c /\ Pending = P /\ Pending' = Tail(P)
  <2>1. Tail(P) = Tail(b) \o q /\ P # << >> /\ P[1] = c
    BY <1>2, <1>4, <1>5, PendingShape
  <2> QED BY <1>2, <1>3, <1>4, <2>1 DEF Pending
<1>7. UNCHANGED <<view, mirror>> /\ view \in [Entries -> EntryViewState]
  BY <1>1 DEF window, TypeOK
<1>8. PICK d : d = model.draft
  OBVIOUS
<1>9. PICK d2 : d2 = model'.draft
  OBVIOUS
<1>10. PICK done \in [Entries -> Nat] : done = processed
  BY <1>1 DEF TypeOK
<1>11. PICK done2 \in [Entries -> Nat] : done2 = processed'
  OBVIOUS
<1>12. PICK l : l = last
  OBVIOUS
<1>13. PICK v : v = view
  OBVIOUS
<1>14. \A e \in Entries : d2[e] = IF Touches(P[1], e) THEN Leaves(P[1]) ELSE d[e]
  BY <1>2, <1>5, <1>6, <1>8, <1>9
<1>15. \A e \in Entries : done2[e] = IF Touches(P[1], e) THEN P[1].revision ELSE done[e]
  BY <1>2, <1>5, <1>6, <1>10, <1>11
<1>16. Settled(P, d, l) /\ Ordered(P, done, v)
  BY <1>1, <1>6, <1>8, <1>10, <1>12, <1>13 DEF EditsOK
<1>17. Settled(Tail(P), d2, l) /\ Ordered(Tail(P), done2, v)
  BY <1>6, <1>14, <1>15, <1>16, RunFirst
<1>18. ASSUME NEW e \in Entries
       PROVE  done[e] <= done2[e] /\ done2[e] <= view[e].revision
  <2>1. done[e] <= view[e].revision
    BY <1>1, <1>10 DEF EditsOK
  <2>2. CASE ~ Touches(c, e)
    BY <1>6, <1>15, <2>1, <2>2
  <2>3. CASE Touches(c, e)
    <3>1. 1 \in DOMAIN P /\ c.op \in UserOp /\ c.entry = e
      BY <1>6, <2>3 DEF Touches
    <3>2. c.revision \in Nat
      BY <3>1 DEF Command, UserOp
    <3>3. done[e] < c.revision /\ c.revision <= view[e].revision
      BY <1>6, <1>13, <1>16, <3>1 DEF Ordered
    <3> QED BY <1>6, <1>15, <2>3, <3>2, <3>3
  <2> QED BY <2>2, <2>3
<1>19. EditsOK'
  <2>1. \A e \in Entries : processed'[e] <= view'[e].revision
    BY <1>7, <1>11, <1>18
  <2> QED BY <1>6, <1>7, <1>9, <1>11, <1>12, <1>13, <1>17, <2>1 DEF EditsOK
<1>20. PublishedOK' /\ RevisionMatchesDraft'
  <2>1. \A e \in Entries : processed[e] <= processed'[e]
    BY <1>10, <1>11, <1>18
  <2> QED BY <1>1, <1>7, <2>1, PublishedFrame
<1>21. TypeOK'
  <2>1. batch' \in Seq(Command)
    BY <1>2
  <2> QED BY <1>1, <2>1, WindowFrame DEF TypeOK, Step, Running
<1>22. QueueOK'
  BY DEF QueueOK
<1>23. OwnSession'
  <2> SUFFICES ASSUME platform = "linux" PROVE OwnSession'
    BY DEF OwnSession
  <2>1. batch \in Seq(OwnCommand) /\ queue \in Seq(OwnCommand)
    BY <1>1 DEF OwnSession
  <2>2. Tail(batch) \in Seq(OwnCommand) /\ Head(batch) \in OwnCommand
    BY <1>2, <2>1
  <2>2a. c \in OwnCommand
    BY <1>2, <1>5, <2>2
  <2>3. ASSUME NEW e \in Entries PROVE model'.draft[e] \in Own(e)
    <3>1. CASE Touches(c, e)
      <4>1. Leaves(c) \in Own(e)
        BY <2>2a, <3>1 DEF OwnCommand, Touches, Leaves, Own
      <4> QED BY <1>2, <1>5, <3>1, <4>1
    <3>2. CASE ~ Touches(c, e)
      BY <1>1, <1>2, <1>5, <3>2 DEF OwnSession
    <3> QED BY <3>1, <3>2
  <2> QED BY <1>1, <2>1, <2>2, <2>3 DEF OwnSession
<1> QED BY <1>19, <1>20, <1>21, <1>22, <1>23, WindowFrame DEF IndInv

\* The commands of a batch that end in this step.
LEMMA CommandStep ==
  ASSUME IndInv, \/ EditDraftCommand \/ ClearDraft \/ SelectChatCommand
                 \/ SaveScrollCommand \/ AcceptClient
                 \/ SendDraftCommand /\ Head(batch).text = Big
  PROVE  IndInv'
<1>1. TypeOK /\ QueueOK /\ disk = model
  BY DEF IndInv
<1>2. batch # << >> /\ pc \in {"work", "clear"}
  BY <1>1 DEF QueueOK, EditDraftCommand, ClearDraft, SelectChatCommand,
              SaveScrollCommand, AcceptClient, SendDraftCommand, Runs
<1>3. PICK c \in Command : c = Head(batch)
  <2>1. Head(batch) \in Command
    BY <1>1, <1>2 DEF TypeOK
  <2> QED BY <2>1
<1>4. PICK w \in Workspace : w = model
  BY <1>1 DEF TypeOK
<1>5. processed \in [Entries -> Nat] /\ ack \in Entries \cup {None}
  BY <1>1 DEF TypeOK
<1>6. c.entry \in Entries
  BY DEF Command
<1>7. /\ batch' = Tail(batch) /\ pc' = "work"
      /\ UNCHANGED <<gui, window, queue, slot, stopRequested, platform, last>>
  BY <1>2, <1>3 DEF QueueOK, EditDraftCommand, ClearDraft, SelectChatCommand,
       SaveScrollCommand, AcceptClient, SendDraftCommand, Runs, bookkeeping,
       FieldWithinUserCommandLimit
<1>8. w.draft \in [Entries -> Entries \cup {Empty}]
  BY DEF Workspace
<1>9. CASE /\ c.op \in UserOp /\ c.text # Big
           /\ model' = SetDraft(w, c.entry, Leaves(c)) /\ disk' = model' /\ ack' = ack
           /\ processed' = [processed EXCEPT ![c.entry] = c.revision]
  <2>1. c.text \in Text /\ c.revision \in Nat
    BY <1>9 DEF Command, UserOp
  <2>2. Leaves(c) \in Entries \cup {Empty}
    BY <1>9, <2>1 DEF Leaves, Text
  <2>3. model' \in Workspace /\ model'.draft = [w.draft EXCEPT ![c.entry] = Leaves(c)]
    <3>1. PICK e \in Entries : e = c.entry
      BY <1>6
    <3>2. PICK t \in Entries \cup {Empty} : t = Leaves(c)
      BY <2>2
    <3>3. /\ SetDraft(w, e, t) \in Workspace
          /\ SetDraft(w, e, t).draft = [w.draft EXCEPT ![e] = t]
      BY SetDraftIs
    <3>4. model' = SetDraft(w, e, t)
      BY <1>9, <3>1, <3>2
    <3> QED BY <3>1, <3>2, <3>3, <3>4
  <2>4. \A e \in Entries : Touches(c, e) <=> e = c.entry
    BY <1>9 DEF Touches
  <2>5. \A e \in Entries :
          /\ model'.draft[e] = IF Touches(c, e) THEN Leaves(c) ELSE model.draft[e]
          /\ processed'[e] = IF Touches(c, e) THEN c.revision ELSE processed[e]
    BY <1>4, <1>5, <1>8, <1>9, <2>3, <2>4
  <2>6. processed' \in [Entries -> Nat] /\ ack' \in Entries \cup {None}
    BY <1>5, <1>6, <1>9, <2>1
  <2> QED BY <1>2, <1>3, <1>7, <1>9, <2>3, <2>5, <2>6, RunStep
<1>10. CASE /\ ~ (c.op \in UserOp /\ c.text # Big)
            /\ model' \in Workspace /\ model'.draft = model.draft /\ disk' = model'
            /\ processed' = processed /\ ack' \in Entries \cup {None}
  <2>1. \A e \in Entries : ~ Touches(c, e)
    BY <1>10 DEF Touches
  <2>2. \A e \in Entries :
          /\ model'.draft[e] = IF Touches(c, e) THEN Leaves(c) ELSE model.draft[e]
          /\ processed'[e] = IF Touches(c, e) THEN c.revision ELSE processed[e]
    BY <1>10, <2>1
  <2> QED BY <1>2, <1>3, <1>5, <1>7, <1>10, <2>2, RunStep
<1>11. CASE EditDraftCommand
  <2>1. c.op = "edit" /\ c.op \in UserOp /\ Leaves(c) = c.text
    BY <1>3, <1>11 DEF EditDraftCommand, Runs, UserOp, Leaves
  <2>2. CASE c.text = Big
    BY <1>1, <1>3, <1>4, <1>5, <1>10, <1>11, <2>2
       DEF EditDraftCommand, FieldWithinUserCommandLimit
  <2>3. CASE c.text # Big
    BY <1>3, <1>4, <1>9, <1>11, <2>1, <2>3
       DEF EditDraftCommand, FieldWithinUserCommandLimit, Persist
  <2> QED BY <2>2, <2>3
<1>12. CASE ClearDraft
  <2>1. c.op = "send" /\ c.op \in UserOp /\ Leaves(c) = Empty /\ c.text # Big
    BY <1>1, <1>3, <1>12 DEF ClearDraft, QueueOK, UserOp, Leaves
  <2> QED BY <1>3, <1>4, <1>9, <1>12, <2>1 DEF ClearDraft, Persist
<1>13. CASE SelectChatCommand
  <2>1. c.op \notin UserOp
    BY <1>3, <1>13 DEF SelectChatCommand, Runs, UserOp
  <2>2. model' = SelectEntry(w, c.entry) /\ disk' = model' /\ ack' = c.entry
        /\ processed' = processed
    BY <1>3, <1>4, <1>13 DEF SelectChatCommand, Persist
  <2>3. model' \in Workspace /\ model'.draft = model.draft
    BY <1>4, <1>6, <2>2, DraftsKept
  <2> QED BY <1>6, <1>10, <2>1, <2>2, <2>3
<1>14. CASE SaveScrollCommand
  <2>1. c.op \notin UserOp
    BY <1>3, <1>14 DEF SaveScrollCommand, Runs, UserOp
  <2> QED BY <1>1, <1>4, <1>5, <1>10, <1>14, <2>1 DEF SaveScrollCommand
<1>15. CASE AcceptClient
  <2>1. c.op \notin UserOp
    BY <1>3, <1>15 DEF AcceptClient, Runs, UserOp
  <2>2. model' = OpenOrSelectChat(w, c.entry) /\ disk' = model' /\ ack' = ack
        /\ processed' = processed
    BY <1>3, <1>4, <1>15 DEF AcceptClient, Persist
  <2>3. model' \in Workspace /\ model'.draft = model.draft
    BY <1>4, <1>6, <2>2, DraftsKept
  <2> QED BY <1>5, <1>10, <2>1, <2>2, <2>3
<1>16. CASE SendDraftCommand /\ Head(batch).text = Big
  BY <1>1, <1>3, <1>4, <1>5, <1>10, <1>16
     DEF SendDraftCommand, FieldWithinUserCommandLimit
<1> QED BY <1>11, <1>12, <1>13, <1>14, <1>15, <1>16

\* The session goes on without finishing a command: what is pending stays.
LEMMA SessionStep ==
  ASSUME IndInv, Pending' = Pending, pc # "failed",
         UNCHANGED <<gui, window, slot, stopRequested, platform, last, processed, ack>>,
         queue' \in Seq(Command), batch' \in Seq(Command), pc' \in Step, QueueOK',
         platform = "linux" => batch' \in Seq(OwnCommand) /\ queue' \in Seq(OwnCommand),
         model' \in Workspace, disk' = model', model'.draft = model.draft
  PROVE  IndInv'
<1>1. TypeOK /\ EditsOK /\ PublishedOK /\ RevisionMatchesDraft /\ OwnSession
  BY DEF IndInv
<1>2. UNCHANGED <<view, mirror>>
  BY DEF window
<1>3. TypeOK'
  BY <1>1, WindowFrame DEF TypeOK
<1>4. EditsOK'
  BY <1>1, <1>2, EditsFrame
<1>5. PublishedOK' /\ RevisionMatchesDraft'
  <2>1. \A e \in Entries : processed[e] <= processed'[e]
    BY <1>1 DEF TypeOK
  <2>2. processed' \in [Entries -> Nat]
    BY <1>3 DEF TypeOK
  <2> QED BY <1>1, <1>2, <2>1, <2>2, PublishedFrame
<1>6. OwnSession'
  BY <1>1 DEF OwnSession
<1> QED BY <1>3, <1>4, <1>5, <1>6, WindowFrame DEF IndInv

\* The queue is swapped out; a message is committed; the worker stops.
LEMMA LoopStep ==
  ASSUME IndInv, \/ SwapQueue \/ CommitMessage \/ StopLoop
                 \/ RefuseInternalWork \/ FinalizeWorker
  PROVE  IndInv'
<1>1. TypeOK /\ disk = model /\ QueueOK /\ OwnSession
  BY DEF IndInv
<1>2. /\ UNCHANGED <<gui, window, slot, stopRequested, platform, last, processed, ack>>
      /\ pc # "failed"
  BY DEF SwapQueue, CommitMessage, StopLoop, RefuseInternalWork, FinalizeWorker,
         bookkeeping
<1>3. /\ queue \in Seq(Command) /\ batch \in Seq(Command) /\ model \in Workspace
      /\ platform = "linux" => batch \in Seq(OwnCommand) /\ queue \in Seq(OwnCommand)
  BY <1>1 DEF TypeOK, OwnSession
<1>4. CASE SwapQueue
  <2>1. /\ batch = << >> /\ batch' = queue /\ queue' = << >> /\ pc' = "work"
        /\ UNCHANGED <<model, disk>>
    BY <1>1, <1>4 DEF SwapQueue, QueueOK, Step, Running
  <2>2. PICK q \in Seq(Command) : q = queue
    BY <1>3
  <2>3. q \o << >> = q /\ << >> \o q = q
    BY ConcatEmptySeq
  <2>4. Pending' = Pending
    BY <2>1, <2>2, <2>3 DEF Pending
  <2>5. QueueOK' /\ pc' \in Step
    BY <2>1 DEF QueueOK, Step, Running
  <2>6. queue' \in Seq(Command) /\ (platform = "linux" => queue' \in Seq(OwnCommand))
    BY <2>1
  <2> QED BY <1>1, <1>2, <1>3, <2>1, <2>4, <2>5, <2>6, SessionStep
<1>5. CASE CommitMessage
  <2>1. pc = "commit" /\ pc' = "clear" /\ UNCHANGED <<queue, batch>>
    BY <1>5 DEF CommitMessage
  <2>2. PICK n \in Nat : n = model.next - 1
    <3>1. model.next \in Nat \ {0}
      BY <1>3 DEF Workspace
    <3>2. model.next - 1 \in Nat
      BY <3>1
    <3> QED BY <3>2
  <2>3. model' = Commit(model, MessageAddedEvent(n)) /\ disk' = model'
    BY <1>5, <2>2 DEF CommitMessage, Persist
  <2>4. PICK w \in Workspace : w = model
    BY <1>3
  <2>5. model' \in Workspace /\ model'.draft = model.draft
    BY <2>3, <2>4, DraftsKept
  <2>6. QueueOK' /\ pc' \in Step
    BY <1>1, <2>1 DEF QueueOK, Step, Running
  <2>7. Pending' = Pending
    BY <2>1 DEF Pending
  <2> QED BY <1>2, <1>3, <2>1, <2>3, <2>5, <2>6, <2>7, SessionStep
<1>6. CASE StopLoop
  <2>1. /\ pc = "loop" /\ pc' = "drain" /\ stopRequested /\ queue = << >>
        /\ UNCHANGED <<queue, batch, model, disk>>
    BY <1>6 DEF StopLoop
  <2>2. QueueOK' /\ pc' \in Step
    <3>1. << >> \in Seq(JoinCommand)
      OBVIOUS
    <3> QED BY <1>1, <1>2, <2>1, <3>1 DEF QueueOK, Step, Running
  <2>3. Pending' = Pending
    BY <2>1 DEF Pending
  <2> QED BY <1>1, <1>2, <1>3, <2>1, <2>2, <2>3, SessionStep
<1>7. CASE RefuseInternalWork \/ FinalizeWorker
  <2>1. /\ \/ pc = "drain" /\ pc' = "refuse"
           \/ pc = "refuse" /\ pc' = "finished"
        /\ UNCHANGED <<queue, batch>> /\ model' = model /\ disk' = model
    BY <1>1, <1>7 DEF RefuseInternalWork, FinalizeWorker, Persist
  <2>2. QueueOK' /\ pc' \in Step
    BY <1>1, <1>2, <2>1 DEF QueueOK, Step, Running
  <2>3. Pending' = Pending
    BY <2>1 DEF Pending
  <2> QED BY <1>1, <1>2, <1>3, <2>1, <2>2, <2>3, SessionStep
<1> QED BY <1>4, <1>5, <1>6, <1>7

\* A send reserves the sequence of its message first.
LEMMA ReserveStep ==
  ASSUME IndInv, SendDraftCommand, Head(batch).text # Big
  PROVE  IndInv'
<1>1. /\ TypeOK /\ QueueOK /\ EditsOK /\ PublishedOK /\ RevisionMatchesDraft
      /\ OwnSession
  BY DEF IndInv
<1>2. /\ pc = "work" /\ pc' = "commit" /\ batch # << >> /\ Head(batch).op = "send"
      /\ ReserveSequence(Head(batch))
      /\ UNCHANGED <<gui, window, queue, batch, processed, ack, slot, stopRequested,
                     platform, last>>
  BY DEF SendDraftCommand, Runs, FieldWithinUserCommandLimit, bookkeeping
<1>3. PICK b \in Seq(Command) : b = batch
  BY <1>1 DEF TypeOK
<1>4. PICK q \in Seq(Command) : q = queue
  BY <1>1 DEF TypeOK
<1>5. PICK P \in Seq(Command) : P = b \o q
  BY PendingShape
<1>6. PICK c \in Command : c = Head(b)
  <2>1. Head(b) \in Command
    BY <1>2, <1>3
  <2> QED BY <2>1
<1>7. P # << >> /\ P[1] = c /\ Pending = P /\ Pending' = P
  BY <1>2, <1>3, <1>4, <1>5, <1>6, PendingShape DEF Pending
<1>8. c.op = "send" /\ c.op \in UserOp /\ c.text # Big
  BY <1>2, <1>3, <1>6 DEF UserOp
<1>9. c.entry \in Entries /\ c.text \in Entries \cup {Empty}
  BY <1>8 DEF Command, UserOp, Text
<1>10. PICK e \in Entries : e = c.entry
  BY <1>9
<1>11. PICK t \in Entries \cup {Empty} : t = c.text
  BY <1>9
<1>12. PICK w \in Workspace : w = model
  BY <1>1 DEF TypeOK
<1>13. PICK n \in Nat : n = w.next
  BY DEF Workspace
<1>14. PICK x \in Workspace : x = SetDraft(w, e, t)
  BY SetDraftIs
<1>15. x.draft = [w.draft EXCEPT ![e] = t]
  BY <1>14, SetDraftIs
<1>16. model' = Commit(x, MessageSequenceReservedEvent(n)) /\ disk' = model'
  BY <1>2, <1>3, <1>6, <1>10, <1>11, <1>12, <1>13, <1>14 DEF ReserveSequence, Persist
<1>17. model' \in Workspace /\ model'.draft = x.draft
  BY <1>16, DraftsKept
<1>18. w.draft \in [Entries -> Entries \cup {Empty}]
  BY DEF Workspace
<1>19. \A y \in Entries : model'.draft[y] = model.draft[y] \/ Touches(c, y)
  BY <1>8, <1>10, <1>12, <1>15, <1>17, <1>18 DEF Touches
<1>20. EditsOK'
  <2>1. Settled(P, model.draft, last)
    BY <1>1, <1>2, <1>7 DEF EditsOK
  <2>2. PICK d2 : d2 = model'.draft
    OBVIOUS
  <2>3. Settled(P, d2, last)
    BY <1>7, <1>19, <2>1, <2>2, FirstDecides
  <2>4. UNCHANGED view
    BY <1>2 DEF window
  <2> QED BY <1>1, <1>2, <1>7, <2>2, <2>3, <2>4 DEF EditsOK
<1>21. TypeOK'
  <2>1. UNCHANGED <<gui, window, platform>>
    BY <1>2
  <2> QED BY <1>1, <1>2, <1>17, <2>1, WindowFrame DEF TypeOK, Step, Running
<1>22. QueueOK'
  BY <1>1, <1>2 DEF QueueOK
<1>23. PublishedOK' /\ RevisionMatchesDraft'
  <2>1. \A y \in Entries : processed[y] <= processed'[y]
    BY <1>1, <1>2 DEF TypeOK
  <2>2. processed' \in [Entries -> Nat] /\ UNCHANGED <<view, mirror>>
    BY <1>2, <1>21 DEF TypeOK, window
  <2> QED BY <1>1, <1>2, <2>1, <2>2, PublishedFrame
<1>24. OwnSession'
  <2> SUFFICES ASSUME platform = "linux" PROVE OwnSession'
    BY <1>2 DEF OwnSession
  <2>1. batch \in Seq(OwnCommand)
    BY <1>1 DEF OwnSession
  <2>2. Head(batch) \in OwnCommand
    BY <1>2, <2>1
  <2>3. t \in Own(e)
    BY <1>3, <1>6, <1>8, <1>10, <1>11, <2>2 DEF OwnCommand
  <2>4. \A y \in Entries : model'.draft[y] \in Own(y)
    BY <1>1, <1>12, <1>15, <1>17, <1>18, <2>3 DEF OwnSession
  <2> QED BY <1>1, <1>2, <2>4 DEF OwnSession
<1> QED BY <1>2, <1>16, <1>20, <1>21, <1>22, <1>23, <1>24, WindowFrame DEF IndInv

\* The end of a batch publishes the workspace with what was processed.
LEMMA PublishStep ==
  ASSUME IndInv, EndBatch
  PROVE  IndInv'
<1>1. /\ TypeOK /\ disk = model /\ QueueOK /\ EditsOK /\ PublishedOK
      /\ RevisionMatchesDraft /\ OwnSession
  BY DEF IndInv
<1>2. /\ pc = "work" /\ batch = << >> /\ pc' = "loop" /\ PublishNow
      /\ UNCHANGED <<gui, window, queue, batch, model, disk, processed, stopRequested,
                     platform, last>>
  BY DEF EndBatch, bookkeeping
<1>3. \/ UNCHANGED <<slot, ack>>
      \/ slot' = Publication(model, processed, ack) /\ ack' = None
  BY <1>2 DEF PublishNow
<1>4. PICK p : p = Publication(model, processed, ack)
  OBVIOUS
<1>5. /\ p \in PublicationType /\ p.revisions = processed
      /\ p.workspace.draft = model.draft
  <2>1. PICK w \in Workspace : w = model
    BY <1>1 DEF TypeOK
  <2>2. PICK r \in [Entries -> Nat] : r = processed
    BY <1>1 DEF TypeOK
  <2>3. PICK a \in Entries \cup {None} : a = ack
    BY <1>1 DEF TypeOK
  <2>4. p = Publication(w, r, a)
    BY <1>4, <2>1, <2>2, <2>3
  <2> QED BY <2>1, <2>2, <2>4, PublicationIs
<1>6. UNCHANGED <<view, mirror>>
  BY <1>2 DEF window
<1>7. TypeOK'
  <2>1. slot' \in PublicationType \cup {None} /\ ack' \in Entries \cup {None}
    BY <1>1, <1>3, <1>4, <1>5 DEF TypeOK
  <2>2. UNCHANGED <<gui, window, platform>>
    BY <1>2
  <2> QED BY <1>1, <1>2, <2>1, <2>2, WindowFrame DEF TypeOK, Step, Running
<1>8. QueueOK' /\ disk' = model'
  BY <1>1, <1>2 DEF QueueOK
<1>9. Pending' = Pending
  BY <1>2 DEF Pending
<1>10. EditsOK'
  BY <1>1, <1>2, <1>6, <1>9, EditsFrame
<1>11. \A e \in Entries : processed[e] = view[e].revision => model.draft[e] = last[e]
  <2> SUFFICES ASSUME NEW e \in Entries, processed[e] = view[e].revision
               PROVE  model.draft[e] = last[e]
    OBVIOUS
  <2>1. PICK P \in Seq(Command) : P = Pending
    BY <1>1, PendingShape DEF TypeOK, Pending
  <2>2. PICK done \in [Entries -> Nat] : done = processed
    BY <1>1 DEF TypeOK
  <2>3. PICK v \in [Entries -> EntryViewState] : v = view
    BY <1>1 DEF TypeOK
  <2>4. PICK d : d = model.draft
    OBVIOUS
  <2>5. PICK l : l = last
    OBVIOUS
  <2>6. Settled(P, d, l) /\ Ordered(P, done, v) /\ done[e] = v[e].revision
    BY <1>1, <1>2, <2>1, <2>2, <2>3, <2>4, <2>5 DEF EditsOK
  <2>7. d[e] = l[e]
    BY <2>6, NothingPending, SMTT(30)
  <2> QED BY <2>4, <2>5, <2>7
<1>12. PublishedOK' /\ RevisionMatchesDraft'
  <2>1. RevisionMatchesDraft'
    BY <1>1, <1>2, <1>6 DEF RevisionMatchesDraft
  <2>2. CASE slot' = slot
    BY <1>1, <1>2, <1>6, <2>1, <2>2 DEF PublishedOK
  <2>3. CASE slot' = p
    <3>1. \A e \in Entries : view[e].published <= processed[e] /\ processed[e] \in Nat
      BY <1>1 DEF PublishedOK, TypeOK
    <3>2. slot'.revisions = processed /\ slot'.workspace.draft = model.draft
      BY <1>5, <2>3
    <3>3. view' = view /\ processed' = processed /\ last' = last
      BY <1>2, <1>6
    <3>4. ASSUME NEW e \in Entries
          PROVE  /\ view'[e].published <= processed'[e]
                 /\ view'[e].published <= slot'.revisions[e]
                 /\ slot'.revisions[e] <= processed'[e]
                 /\ slot'.revisions[e] = view'[e].revision
                      => slot'.workspace.draft[e] = last'[e]
      <4>1. slot'.revisions[e] = view'[e].revision => slot'.workspace.draft[e] = last'[e]
        BY <1>11, <3>2, <3>3
      <4> QED BY <3>1, <3>2, <3>3, <4>1
    <3> QED BY <2>1, <3>4 DEF PublishedOK
  <2> QED BY <1>3, <1>4, <2>1, <2>2, <2>3
<1>13. OwnSession'
  BY <1>1, <1>2, <1>3, <1>4, <1>5 DEF OwnSession
<1> QED BY <1>2, <1>7, <1>8, <1>10, <1>12, <1>13, WindowFrame DEF IndInv

\* What the endpoint queued is drained after the loop.
LEMMA DrainStep ==
  ASSUME IndInv, DrainModelQueue
  PROVE  IndInv'
<1>1. /\ TypeOK /\ QueueOK /\ EditsOK /\ PublishedOK /\ RevisionMatchesDraft
      /\ OwnSession
  BY DEF IndInv
<1>2. /\ pc \in {"drain", "refuse"} /\ queue # << >> /\ queue' = Tail(queue)
      /\ Persist(OpenOrSelectChat(model, Head(queue).entry))
      /\ UNCHANGED <<gui, window, batch, pc, processed, ack, slot, stopRequested,
                     platform, last>>
  BY DEF DrainModelQueue, bookkeeping
<1>3. batch = << >> /\ queue \in Seq(JoinCommand)
  BY <1>1, <1>2 DEF QueueOK, Step, Running
<1>4. PICK q \in Seq(Command) : q = queue
  BY <1>1 DEF TypeOK
<1>5. /\ Tail(q) \in Seq(Command) /\ Tail(q) \in Seq(JoinCommand)
      /\ Head(q) \in JoinCommand /\ Head(q) = q[1]
  BY <1>2, <1>3, <1>4
<1>6. q[1].entry \in Entries /\ \A e \in Entries : ~ Touches(q[1], e)
  BY <1>5 DEF JoinCommand, Command, Touches, UserOp
<1>7. Pending = q /\ Pending' = Tail(q)
  <2>1. PICK b \in Seq(Command) : b = << >>
    <3>1. << >> \in Seq(Command)
      OBVIOUS
    <3> QED BY <3>1
  <2>2. PICK t \in Seq(Command) : t = Tail(q)
    BY <1>5
  <2>3. b \o q = q /\ b \o t = t
    BY <2>1, PendingShape
  <2> QED BY <1>2, <1>3, <1>4, <2>1, <2>2, <2>3 DEF Pending
<1>8. PICK w \in Workspace : w = model
  BY <1>1 DEF TypeOK
<1>9. model' \in Workspace /\ model'.draft = w.draft /\ disk' = model'
  <2>1. model' = OpenOrSelectChat(w, q[1].entry) /\ disk' = model'
    BY <1>2, <1>4, <1>5, <1>8 DEF Persist
  <2> QED BY <1>6, <2>1, DraftsKept
<1>10. UNCHANGED <<view, mirror>>
  BY <1>2 DEF window
<1>11. EditsOK'
  <2>1. PICK d : d = model.draft
    OBVIOUS
  <2>2. PICK done : done = processed
    OBVIOUS
  <2>3. PICK l : l = last
    OBVIOUS
  <2>4. PICK v : v = view
    OBVIOUS
  <2>5. Settled(q, d, l) /\ Ordered(q, done, v)
    BY <1>1, <1>2, <1>7, <2>1, <2>2, <2>3, <2>4 DEF EditsOK
  <2>6. Settled(Tail(q), d, l) /\ Ordered(Tail(q), done, v)
    <3>1. q # << >>
      BY <1>2, <1>4
    <3>2. /\ \A e \in Entries : d[e] = IF Touches(q[1], e) THEN Leaves(q[1]) ELSE d[e]
          /\ \A e \in Entries : done[e] = IF Touches(q[1], e) THEN q[1].revision
                                                              ELSE done[e]
      BY <1>6
    <3> QED BY <2>5, <3>1, <3>2, RunFirst
  <2>7. model'.draft = d
    BY <1>8, <1>9, <2>1
  <2> QED BY <1>1, <1>2, <1>7, <1>10, <2>2, <2>3, <2>4, <2>6, <2>7 DEF EditsOK
<1>12. TypeOK'
  <2>1. queue' \in Seq(Command)
    BY <1>2, <1>4, <1>5
  <2> QED BY <1>1, <1>2, <1>9, <2>1, WindowFrame DEF TypeOK
<1>13. QueueOK'
  BY <1>1, <1>2, <1>3, <1>4, <1>5 DEF QueueOK
<1>14. PublishedOK' /\ RevisionMatchesDraft'
  <2>1. \A e \in Entries : processed[e] <= processed'[e]
    BY <1>1, <1>2 DEF TypeOK
  <2>2. processed' \in [Entries -> Nat]
    BY <1>12 DEF TypeOK
  <2> QED BY <1>1, <1>2, <1>10, <2>1, <2>2, PublishedFrame
<1>15. OwnSession'
  <2> SUFFICES ASSUME platform = "linux" PROVE OwnSession'
    BY <1>2 DEF OwnSession
  <2>1. queue \in Seq(OwnCommand) /\ batch \in Seq(OwnCommand)
    BY <1>1 DEF OwnSession
  <2>2. Tail(queue) \in Seq(OwnCommand)
    BY <1>2, <2>1
  <2> QED BY <1>1, <1>2, <1>8, <1>9, <2>1, <2>2 DEF OwnSession
<1> QED BY <1>2, <1>9, <1>11, <1>12, <1>13, <1>14, <1>15, WindowFrame DEF IndInv

-----------------------------------------------------------------------------
(* Steps of the environment.                                               *)

\* A client joins.
LEMMA JoinStep ==
  ASSUME IndInv, NEW e \in Entries, ClientJoins(e)
  PROVE  IndInv'
<1>1. /\ TypeOK /\ disk = model /\ QueueOK /\ EditsOK /\ PublishedOK
      /\ RevisionMatchesDraft /\ OwnSession
  BY DEF IndInv
<1>2. PICK c : c = [op |-> "join", entry |-> e]
  OBVIOUS
<1>3. /\ pc \in Running \cup {"drain"} /\ queue' = Append(queue, c)
      /\ UNCHANGED <<gui, window, batch, pc, model, disk, processed, ack, slot,
                     stopRequested, platform, last>>
  BY <1>2 DEF ClientJoins, session
<1>4. c \in JoinCommand /\ c \in Command /\ c.op \notin UserOp /\ c \in OwnCommand
  BY <1>2 DEF JoinCommand, Command, UserOp, OwnCommand
<1>5. UNCHANGED <<view, mirror>>
  BY <1>3 DEF window
<1>6. EditsOK'
  BY <1>3, <1>4, <1>5, QuietCommands
<1>7. TypeOK'
  <2>1. queue' \in Seq(Command)
    BY <1>1, <1>3, <1>4 DEF TypeOK
  <2> QED BY <1>1, <1>3, <2>1, WindowFrame DEF TypeOK
<1>8. QueueOK'
  <2>1. queue \in Seq(JoinCommand) => queue' \in Seq(JoinCommand)
    BY <1>3, <1>4
  <2> QED BY <1>1, <1>3, <2>1 DEF QueueOK
<1>9. PublishedOK' /\ RevisionMatchesDraft'
  <2>1. \A y \in Entries : processed[y] <= processed'[y]
    BY <1>1, <1>3 DEF TypeOK
  <2>2. processed' \in [Entries -> Nat]
    BY <1>7 DEF TypeOK
  <2> QED BY <1>1, <1>3, <1>5, <2>1, <2>2, PublishedFrame
<1>10. OwnSession'
  <2>1. queue \in Seq(OwnCommand) => queue' \in Seq(OwnCommand)
    BY <1>3, <1>4
  <2> QED BY <1>1, <1>3, <2>1 DEF OwnSession
<1> QED BY <1>1, <1>3, <1>6, <1>7, <1>8, <1>9, <1>10, WindowFrame DEF IndInv

\* A command throws and the rest is discarded.
LEMMA FailStep ==
  ASSUME IndInv, WorkerFails
  PROVE  IndInv'
<1>1. /\ TypeOK /\ disk = model /\ QueueOK /\ EditsOK /\ PublishedOK
      /\ RevisionMatchesDraft /\ OwnSession
  BY DEF IndInv
<1>2. /\ pc' = "failed" /\ queue' = << >> /\ batch' = << >>
      /\ UNCHANGED <<gui, window, model, disk, processed, ack, slot, stopRequested,
                     platform, last>>
  BY DEF WorkerFails
<1>3. UNCHANGED <<view, mirror>>
  BY <1>2 DEF window
<1>4. << >> \in Seq(Command) /\ << >> \in Seq(OwnCommand)
  OBVIOUS
<1>5. EditsOK'
  <2>1. PICK P \in Seq(Command) : P = << >>
    BY <1>4
  <2>2. P \o P = << >>
    BY <2>1, PendingShape
  <2>3. Pending' = << >>
    BY <1>2, <2>1, <2>2 DEF Pending
  <2>4. DOMAIN Pending' = {}
    BY <2>3
  <2>5. Ordered(Pending, processed, view)'
    BY <2>4 DEF Ordered
  <2> QED BY <1>1, <1>2, <1>3, <2>5 DEF EditsOK
<1>6. TypeOK'
  BY <1>1, <1>2, <1>4, WindowFrame DEF TypeOK, Step, Running
<1>7. QueueOK'
  BY <1>2 DEF QueueOK
<1>8. PublishedOK' /\ RevisionMatchesDraft'
  <2>1. \A y \in Entries : processed[y] <= processed'[y]
    BY <1>1, <1>2 DEF TypeOK
  <2>2. processed' \in [Entries -> Nat]
    BY <1>6 DEF TypeOK
  <2> QED BY <1>1, <1>2, <1>3, <2>1, <2>2, PublishedFrame
<1>9. OwnSession'
  BY <1>1, <1>2, <1>4 DEF OwnSession
<1> QED BY <1>1, <1>2, <1>5, <1>6, <1>7, <1>8, <1>9, WindowFrame DEF IndInv

\* The process starts with the workspace of its disk.
Started ==
  /\ platform \in Platforms /\ gui = "idle" /\ active = None /\ box = Empty
  /\ composing = FALSE /\ view = [e \in Entries |-> NoView]
  /\ mirror = None /\ switched = FALSE
  /\ queue = << >> /\ batch = << >> /\ pc = "loop" /\ stopRequested = FALSE
  /\ model \in Workspace /\ disk = model /\ last = model.draft
  /\ processed = [e \in Entries |-> 0] /\ ack = None
  /\ slot = Publication(model, [e \in Entries |-> 0], None)
  /\ platform = "linux" => \A e \in Entries : model.draft[e] \in Own(e)

\* A process that starts has nothing pending.
LEMMA StartedOK == Started => IndInv
<1> SUFFICES ASSUME Started PROVE IndInv
  OBVIOUS
<1> USE DEF Started
<1>1. \A e \in Entries : view[e] = NoView
  OBVIOUS
<1>2. NoView \in EntryViewState /\ NoView.revision = 0 /\ NoView.published = 0
      /\ NoView.local = Empty
  BY DEF NoView, EntryViewState, Text
<1>3. PICK r \in [Entries -> Nat] : r = [e \in Entries |-> 0]
  OBVIOUS
<1>4. PICK w \in Workspace : w = model
  OBVIOUS
<1>5. PICK p : p = Publication(w, r, None)
  OBVIOUS
<1>6. /\ p \in PublicationType /\ p.revisions = r /\ p.workspace.draft = w.draft
  BY <1>5, PublicationIs
<1>7. slot = p
  BY <1>3, <1>4, <1>5
<1>8. << >> \in Seq(Command) /\ << >> \in Seq(OwnCommand)
  OBVIOUS
<1>9. TypeOK
  <2>1. view \in [Entries -> EntryViewState]
    BY <1>2
  <2>2. last \in [Entries -> Entries \cup {Empty}]
    BY DEF Workspace
  <2> QED BY <1>3, <1>6, <1>7, <1>8, <2>1, <2>2 DEF TypeOK, Step, Running, Text
<1>10. QueueOK
  BY DEF QueueOK
<1>11. EditsOK
  <2>1. PICK P \in Seq(Command) : P = << >>
    BY <1>8
  <2>2. P \o P = << >>
    BY <2>1, PendingShape
  <2>3. Pending = << >>
    BY <2>1, <2>2 DEF Pending
  <2>4. DOMAIN Pending = {}
    BY <2>3
  <2>5. Ordered(Pending, processed, view) /\ Settled(Pending, model.draft, last)
    BY <2>4 DEF Ordered, Settled
  <2>6. \A e \in Entries : processed[e] <= view[e].revision
    BY <1>1, <1>2
  <2> QED BY <2>5, <2>6 DEF EditsOK
<1>12. PublishedOK
  <2>1. \A e \in Entries : r[e] = 0 /\ processed[e] = 0 /\ view[e].published = 0
    BY <1>1, <1>2, <1>3
  <2>2. \A e \in Entries : p.workspace.draft[e] = last[e]
    BY <1>4, <1>6
  <2> QED BY <1>6, <1>7, <2>1, <2>2 DEF PublishedOK
<1>13. OwnWindow
  <2>1. \A e \in Entries : view[e].local \in Own(e) \cup {Big}
    BY <1>1, <1>2 DEF Own
  <2> QED BY <2>1 DEF OwnWindow
<1>14. OwnSession
  BY <1>4, <1>6, <1>7, <1>8 DEF OwnSession
<1>15. ActiveOK /\ RevisionMatchesDraft /\ disk = model
  BY DEF ActiveOK, RevisionMatchesDraft
<1> QED BY <1>9, <1>10, <1>11, <1>12, <1>13, <1>14, <1>15 DEF IndInv

\* The first start.
LEMMA InitOK == Init => IndInv
<1> SUFFICES ASSUME Init PROVE IndInv
  OBVIOUS
<1>1. First \in Entries
  BY EntriesAssumption DEF First
<1>2. PICK text \in {Empty, First}, chats \in {{First}, Entries} :
        model = [chats |-> chats, selected |-> First,
                 draft |-> [e \in Entries |-> IF e = First THEN text ELSE Empty],
                 next |-> 1, messages |-> {}]
  BY DEF Init
<1>3. model \in Workspace
  BY <1>1, <1>2 DEF Workspace
<1>4. \A e \in Entries : model.draft[e] \in Own(e)
  BY <1>2 DEF Own
<1>5. Started
  BY <1>3, <1>4 DEF Init, Started
<1> QED BY <1>5, StartedOK

\* The process dies and starts again.
LEMMA CrashStep ==
  ASSUME IndInv, Crash
  PROVE  IndInv'
<1>1. TypeOK /\ disk = model /\ OwnSession
  BY DEF IndInv
<1>2. PICK w \in LeftOnDisk :
        /\ disk' = w /\ model' = w /\ last' = w.draft
        /\ slot' = Publication(w, [e \in Entries |-> 0], None)
  BY DEF Crash
<1>3. w \in Workspace /\ w.draft = model.draft
  <2>1. CASE w = disk
    BY <1>1, <2>1 DEF TypeOK
  <2>2. CASE w = [disk EXCEPT !.messages = @ \cup {model.next - 1}]
    <3>1. model.next - 1 \in Nat
      BY <1>1 DEF TypeOK, Workspace
    <3> QED BY <1>1, <2>2, <3>1 DEF TypeOK, Workspace
  <2> QED BY <1>2, <2>1, <2>2 DEF LeftOnDisk
<1>4. Started'
  <2>1. platform' \in Platforms /\ platform' = platform
    BY <1>1 DEF TypeOK, Crash
  <2>2. platform' = "linux" => \A e \in Entries : model'.draft[e] \in Own(e)
    BY <1>1, <1>2, <1>3, <2>1 DEF OwnSession
  <2> QED BY <1>2, <1>3, <2>1, <2>2 DEF Crash, Started
<1>5. Started' => IndInv'
  BY StartedOK, PTL
<1> QED BY <1>4, <1>5

\* Nothing happens.
LEMMA StutterStep ==
  ASSUME IndInv, UNCHANGED vars
  PROVE  IndInv'
BY DEF IndInv, vars, window, session, bookkeeping, TypeOK, ActiveOK, QueueOK, EditsOK,
       Pending, PublishedOK, RevisionMatchesDraft, OwnWindow, OwnSession

\* Every step keeps the invariant.
LEMMA NextOK == IndInv /\ [Next]_vars => IndInv'
<1> SUFFICES ASSUME IndInv, [Next]_vars PROVE IndInv'
  OBVIOUS
<1>1. CASE UNCHANGED vars
  BY <1>1, StutterStep
<1>2. CASE HandleMain \/ LinuxSignals
  <2>1. \/ \E t \in {active, Empty, Big} : Type(t)
        \/ OnSendDraftClicked
        \/ \E e \in Entries : OnChatSelectionChanged(e)
        \/ RequestClose
    BY <1>2 DEF HandleMain, LinuxSignals
  <2> QED BY <2>1, TypeStep, SendStep, SelectStep, CloseStep
<1>3. CASE ImeStart \/ ImeEnd
  BY <1>3, ImeStep
<1>4. CASE Consume
  BY <1>4, RefreshStep, TakeStep DEF Consume
<1>5. CASE ModelThread
  <2>1. CASE \/ EditDraftCommand \/ ClearDraft \/ SelectChatCommand
             \/ SaveScrollCommand \/ AcceptClient
    BY <2>1, CommandStep
  <2>2. CASE SendDraftCommand
    <3>1. CASE Head(batch).text = Big
      BY <2>2, <3>1, CommandStep
    <3>2. CASE Head(batch).text # Big
      BY <2>2, <3>2, ReserveStep
    <3> QED BY <3>1, <3>2
  <2>3. CASE \/ SwapQueue \/ CommitMessage \/ StopLoop
             \/ RefuseInternalWork \/ FinalizeWorker
    BY <2>3, LoopStep
  <2>4. CASE EndBatch
    BY <2>4, PublishStep
  <2>5. CASE DrainModelQueue
    BY <2>5, DrainStep
  <2> QED BY <1>5, <2>1, <2>2, <2>3, <2>4, <2>5 DEF ModelThread
<1>6. CASE \E e \in Entries : ClientJoins(e)
  BY <1>6, JoinStep
<1>7. CASE WorkerFails
  BY <1>7, FailStep
<1>8. CASE Crash
  BY <1>8, CrashStep
<1> QED BY <1>1, <1>2, <1>3, <1>4, <1>5, <1>6, <1>7, <1>8 DEF Next, Gui

\* The invariant holds in every reachable state.
THEOREM ChatIndInv == Spec => []IndInv
<1> QED BY InitOK, NextOK, PTL DEF Spec

-----------------------------------------------------------------------------

(* For any chats: once the revision of an entry's last edit has come back in *)
(* a publication (TryTakeUiUpdate), the draft the window was sent is the     *)
(* text the user left, whatever was typed, sent or selected meanwhile and    *)
(* however often the process crashed.                                        *)
THEOREM ChatRevisionMatchesDraft == Spec => []RevisionMatchesDraft
<1>1. IndInv => RevisionMatchesDraft
  BY DEF IndInv
<1> QED BY <1>1, ChatIndInv, PTL

(* For any chats: on Linux no draft of the model ever holds text that was    *)
(* typed into another chat, though the window follows a selection the model  *)
(* makes for a new client.                                                   *)
THEOREM ChatDraftIsOwn == Spec => []DraftIsOwn
<1>1. IndInv => DraftIsOwn
  BY DEF IndInv, OwnSession, Own, DraftIsOwn
<1> QED BY <1>1, ChatIndInv, PTL

(* For any chats: a worker that finished has run every command the session   *)
(* accepted, so the drafts on the disk are what the user left, and the disk  *)
(* holds the whole workspace.                                                *)
THEOREM ChatClosedIsSaved == Spec => []ClosedIsSaved
<1>1. IndInv => ClosedIsSaved
  <2> SUFFICES ASSUME IndInv, pc = "finished", NEW e \in Entries
               PROVE  disk.draft[e] = last[e] /\ disk = model
    BY EntriesAssumption DEF ClosedIsSaved
  <2>1. TypeOK /\ disk = model /\ QueueOK /\ EditsOK
    BY DEF IndInv
  <2>2. batch = << >> /\ queue \in Seq(JoinCommand)
    BY <2>1 DEF QueueOK, Step, Running
  <2>3. PICK q \in Seq(JoinCommand) : q = queue
    BY <2>2
  <2>4. Pending = q
    <3>1. << >> \o q = q
      BY ConcatEmptySeq
    <3> QED BY <2>2, <2>3, <3>1 DEF Pending
  <2>5. \A i \in DOMAIN q : ~ Touches(q[i], e)
    <3> TAKE i \in DOMAIN q
    <3>1. q[i] \in JoinCommand
      OBVIOUS
    <3> QED BY <3>1 DEF JoinCommand, Touches, UserOp
  <2>6. Settled(q, model.draft, last)
    BY <2>1, <2>4 DEF EditsOK
  <2> QED BY <2>1, <2>5, <2>6 DEF Settled
<1> QED BY <1>1, ChatIndInv, PTL
=============================================================================
