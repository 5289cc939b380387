------------------------- MODULE NodeJournalProofs -------------------------
(***************************************************************************)
(* The fields of a node are what a replay of its journal gives, for any    *)
(* events, relationships, retention and clock.  A node that folds its      *)
(* journal stores the base at once and the rest with the next Save: the    *)
(* results are for processes that do not stop between the two.  They may   *)
(* stop at any other point and lose what was committed since the Save.     *)
(*                                                                         *)
(* That a rebuild keeps the sync states needs more than the fields: an     *)
(* AddShareEvent is applied once, before its RemoveShareEvent, and the     *)
(* states are those of the open relationships.  That an insertion raises   *)
(* the generation needs a bound on it: a rebuild counts the whole journal. *)
(***************************************************************************)
EXTENDS NodeJournal, SequenceTheorems, WellFoundedInduction, TLAPS

\* No process stops between a compaction and the Save that follows it.
SavedBeforeStop == ~ UnsavedFolds

SyncState == [ShareId -> {"Absent", "NotStarted", "Complete"}]

TypeOK ==
  /\ base \in Seq(Event) /\ live \in Seq(Event)
  /\ journal \in Seq(EventRecord) /\ sync \in SyncState
  /\ gen \in Nat /\ clock \in Nat /\ blocked \in BOOLEAN
  /\ saved \in [base : Seq(Event), journal : Seq(EventRecord), live : Seq(Event),
                sync : SyncState]

\* A relationship is added once, and before it is removed.
ShareOrder(log) ==
  \A s \in ShareId :
    /\ \A i, j \in DOMAIN log : log[i] = Adds[s] /\ log[j] = Adds[s] => i = j
    /\ \A j \in DOMAIN log : log[j] = Removes[s] =>
         \E i \in DOMAIN log : i < j /\ log[i] = Adds[s]

\* The sync states are those of the open relationships.
StatesOf(states, log) ==
  \A s \in ShareId : states[s] # "Absent" <=> s \in Open(log)

\* What was saved is as good as what there was: with the base it found it gives
\* the node again.
Sound(c) ==
  /\ c.live = c.base \o EventsOf(c.journal)
  /\ ShareOrder(c.live) /\ StatesOf(c.sync, c.live)

SavedWell == Sound(saved)

\* A node whose compaction is held back has an empty base, and has counted no
\* more generations than a rebuild would.
HeldBack == blocked => base = << >> /\ gen <= 1 + Len(journal)

IndInv ==
  /\ TypeOK /\ LiveIsReplay
  /\ ShareOrder(live) /\ StatesOf(sync, live) /\ SavedWell /\ HeldBack

-----------------------------------------------------------------------------
(* Sequences of events and of records.                                     *)

\* The events of a journal are a log of the same length.
LEMMA EventsOfType ==
  ASSUME NEW r \in Seq(EventRecord)
  PROVE  /\ EventsOf(r) \in Seq(Event) /\ Len(EventsOf(r)) = Len(r)
         /\ \A i \in 1..Len(r) : EventsOf(r)[i] = r[i].event
<1>1. DOMAIN r = 1..Len(r) /\ Len(r) \in Nat
  OBVIOUS
<1>2. \A i \in 1..Len(r) : r[i].event \in Event
  <2>1. \A i \in 1..Len(r) : r[i] \in EventRecord
    OBVIOUS
  <2>2. \A x \in EventRecord : x.event \in Event
    BY DEF EventRecord
  <2> QED BY <2>1, <2>2
<1>3. [i \in 1..Len(r) |-> r[i].event] \in Seq(Event)
  BY <1>1, <1>2
<1>4. EventsOf(r) = [i \in 1..Len(r) |-> r[i].event]
  BY <1>1 DEF EventsOf
<1> QED BY <1>1, <1>3, <1>4

\* Folding splits the events of a journal where it splits the journal.
LEMMA EventsOfSplit ==
  ASSUME NEW r \in Seq(EventRecord), NEW k \in 0..Len(r)
  PROVE  EventsOf(r) = EventsOf(SubSeq(r, 1, k)) \o EventsOf(SubSeq(r, k + 1, Len(r)))
<1> DEFINE p == SubSeq(r, 1, k)
           q == SubSeq(r, k + 1, Len(r))
<1>1. /\ p \in Seq(EventRecord) /\ Len(p) = k
      /\ q \in Seq(EventRecord) /\ Len(q) = Len(r) - k
      /\ \A i \in 1..k : p[i] = r[i]
      /\ \A i \in 1..(Len(r) - k) : q[i] = r[k + i]
  OBVIOUS
<1> HIDE DEF p, q
<1>2. /\ EventsOf(p) \in Seq(Event) /\ Len(EventsOf(p)) = k
      /\ \A i \in 1..k : EventsOf(p)[i] = p[i].event
  BY <1>1, EventsOfType
<1>3. /\ EventsOf(q) \in Seq(Event) /\ Len(EventsOf(q)) = Len(r) - k
      /\ \A i \in 1..(Len(r) - k) : EventsOf(q)[i] = q[i].event
  BY <1>1, EventsOfType
<1>4. /\ EventsOf(r) \in Seq(Event) /\ Len(EventsOf(r)) = Len(r)
      /\ \A i \in 1..Len(r) : EventsOf(r)[i] = r[i].event
  BY EventsOfType
<1>5. /\ EventsOf(p) \o EventsOf(q) \in Seq(Event)
      /\ Len(EventsOf(p) \o EventsOf(q)) = Len(r)
  <2>1. PICK l \in Seq(Event) : l = EventsOf(p)
    BY <1>2
  <2>2. PICK m \in Seq(Event) : m = EventsOf(q)
    BY <1>3
  <2>3. l \o m \in Seq(Event) /\ Len(l \o m) = Len(l) + Len(m)
    OBVIOUS
  <2>4. Len(l) = k /\ Len(m) = Len(r) - k
    BY <1>2, <1>3, <2>1, <2>2
  <2> QED BY <2>1, <2>2, <2>3, <2>4
<1>6. \A i \in 1..Len(r) : (EventsOf(p) \o EventsOf(q))[i] = EventsOf(r)[i]
  <2> TAKE i \in 1..Len(r)
  <2> DEFINE l == EventsOf(p)
             m == EventsOf(q)
  <2> HIDE DEF l, m
  <2>0. /\ \A n \in 1..k : (l \o m)[n] = l[n]
        /\ \A n \in 1..(Len(r) - k) : (l \o m)[k + n] = m[n]
    BY <1>2, <1>3 DEF l, m
  <2>1. CASE i <= k
    <3>1. i \in 1..k
      BY <2>1
    <3>2. (l \o m)[i] = p[i].event
      BY <3>1, <2>0, <1>2 DEF l
    <3>3. p[i] = r[i]
      BY <3>1, <1>1
    <3> QED BY <3>2, <3>3, <1>4 DEF l, m
  <2>2. CASE i > k
    <3>1. i - k \in 1..(Len(r) - k) /\ k + (i - k) = i
      BY <2>2
    <3>2. PICK n \in 1..(Len(r) - k) : n = i - k
      BY <3>1
    <3>3. k + n = i
      BY <3>1, <3>2
    <3>4. (l \o m)[i] = q[n].event
      BY <3>2, <3>3, <2>0, <1>3 DEF m
    <3>5. q[n] = r[i]
      BY <3>2, <3>3, <1>1
    <3> QED BY <3>4, <3>5, <1>4 DEF l, m
  <2>3. i <= k \/ i > k
    OBVIOUS
  <2> QED BY <2>1, <2>2, <2>3
<1> DEFINE l == EventsOf(r)
           m == EventsOf(p) \o EventsOf(q)
<1>7. /\ l \in Seq(Event) /\ m \in Seq(Event) /\ Len(l) = Len(m)
      /\ \A i \in 1..Len(l) : l[i] = m[i]
  BY <1>4, <1>5, <1>6
<1> HIDE DEF l, m
<1>8. l = m
  BY <1>7, SeqEqual
<1> QED BY <1>8 DEF l, m, p, q

\* A record at the end of a journal is an event at the end of its log.
LEMMA EventsOfAppend ==
  ASSUME NEW r \in Seq(EventRecord), NEW x \in EventRecord
  PROVE  EventsOf(Append(r, x)) = Append(EventsOf(r), x.event)
<1> DEFINE a == Append(r, x)
           l == EventsOf(r)
           m == Append(l, x.event)
<1>1. /\ a \in Seq(EventRecord) /\ Len(a) = Len(r) + 1
      /\ \A i \in 1..Len(r) : a[i] = r[i]
      /\ a[Len(r) + 1] = x /\ x.event \in Event
  BY DEF EventRecord
<1>2. /\ l \in Seq(Event) /\ Len(l) = Len(r)
      /\ \A i \in 1..Len(r) : l[i] = r[i].event
  BY EventsOfType
<1> HIDE DEF a, l
<1>3. /\ EventsOf(a) \in Seq(Event) /\ Len(EventsOf(a)) = Len(a)
      /\ \A i \in 1..Len(a) : EventsOf(a)[i] = a[i].event
  BY <1>1, EventsOfType
<1>4. /\ m \in Seq(Event) /\ Len(m) = Len(r) + 1
      /\ \A i \in 1..Len(r) : m[i] = l[i]
      /\ m[Len(r) + 1] = x.event
  BY <1>1, <1>2
<1> HIDE DEF m
<1>5. \A i \in 1..Len(m) : EventsOf(a)[i] = m[i]
  BY <1>1, <1>2, <1>3, <1>4
<1>6. EventsOf(a) = m
  BY <1>1, <1>3, <1>4, <1>5, SeqEqual
<1> QED BY <1>6 DEF a, l, m

\* Concatenation of logs is associative.
LEMMA ConcatLogs ==
  \A a, b, c \in Seq(Event) : a \o (b \o c) = (a \o b) \o c
<1> TAKE a, b, c \in Seq(Event)
<1>1. PICK m \in Seq(Event) : m = b \o c
  <2>1. b \o c \in Seq(Event)
    OBVIOUS
  <2> QED BY <2>1
<1>2. PICK n \in Seq(Event) : n = a \o b
  <2>1. a \o b \in Seq(Event)
    OBVIOUS
  <2> QED BY <2>1
<1>3. PICK x \in Seq(Event) : x = a \o m
  <2>1. a \o m \in Seq(Event)
    OBVIOUS
  <2> QED BY <2>1
<1>4. PICK y \in Seq(Event) : y = n \o c
  <2>1. n \o c \in Seq(Event)
    OBVIOUS
  <2> QED BY <2>1
<1>5. /\ Len(m) = Len(b) + Len(c) /\ Len(n) = Len(a) + Len(b)
      /\ Len(x) = Len(a) + Len(m) /\ Len(y) = Len(n) + Len(c)
  BY <1>1, <1>2, <1>3, <1>4
<1>6. /\ Len(a) \in Nat /\ Len(b) \in Nat /\ Len(c) \in Nat
      /\ Len(x) = Len(a) + Len(b) + Len(c) /\ Len(y) = Len(x)
  BY <1>5
<1>7. \A i \in 1..Len(x) : x[i] = y[i]
  <2> TAKE i \in 1..Len(x)
  <2>1. CASE i <= Len(a)
    BY <1>1, <1>2, <1>3, <1>4, <1>5, <1>6, <2>1
  <2>2. CASE i > Len(a) /\ i <= Len(a) + Len(b)
    BY <1>1, <1>2, <1>3, <1>4, <1>5, <1>6, <2>2
  <2>3. CASE i > Len(a) + Len(b)
    BY <1>1, <1>2, <1>3, <1>4, <1>5, <1>6, <2>3
  <2> QED BY <1>6, <2>1, <2>2, <2>3
<1>8. x = y
  BY <1>6, <1>7, SeqEqual
<1> QED BY <1>1, <1>2, <1>3, <1>4, <1>8

\* What is applied by a log in two parts.
LEMMA AppliedConcat ==
  ASSUME NEW a \in Seq(Event), NEW b \in Seq(Event)
  PROVE  Applied(a \o b) = Applied(a) \cup Applied(b)
<1>1. /\ a \o b \in Seq(Event) /\ Len(a \o b) = Len(a) + Len(b)
      /\ \A i \in 1..Len(a) : (a \o b)[i] = a[i]
      /\ \A i \in 1..Len(b) : (a \o b)[Len(a) + i] = b[i]
  OBVIOUS
<1> DEFINE c == a \o b
<1> HIDE DEF c
<1>2. ASSUME NEW x \in Applied(c) PROVE x \in Applied(a) \cup Applied(b)
  <2>1. PICK i \in 1..Len(c) : c[i] = x
    BY <1>1 DEF Applied, c
  <2>2. CASE i <= Len(a)
    BY <1>1, <2>1, <2>2 DEF Applied, c
  <2>3. CASE i > Len(a)
    <3>1. i - Len(a) \in 1..Len(b) /\ Len(a) + (i - Len(a)) = i
      BY <1>1, <2>1, <2>3 DEF c
    <3>2. b[i - Len(a)] = x
      BY <1>1, <2>1, <3>1 DEF c
    <3> QED BY <3>1, <3>2 DEF Applied
  <2> QED BY <2>1, <2>2, <2>3
<1>3. ASSUME NEW x \in Applied(a) PROVE x \in Applied(c)
  BY <1>1 DEF Applied, c
<1>4. ASSUME NEW x \in Applied(b) PROVE x \in Applied(c)
  <2>1. PICK i \in 1..Len(b) : b[i] = x
    BY DEF Applied
  <2>2. Len(a) + i \in 1..Len(c) /\ c[Len(a) + i] = x
    BY <1>1, <2>1 DEF c
  <2> QED BY <1>1, <2>2 DEF Applied, c
<1> QED BY <1>2, <1>3, <1>4 DEF c

\* What is applied by a log with one more event.
LEMMA AppliedAppend ==
  ASSUME NEW a \in Seq(Event), NEW e \in Event
  PROVE  Applied(Append(a, e)) = Applied(a) \cup {e}
<1> DEFINE c == Append(a, e)
<1>1. /\ c \in Seq(Event) /\ Len(c) = Len(a) + 1 /\ c[Len(a) + 1] = e
      /\ \A i \in 1..Len(a) : c[i] = a[i]
      /\ DOMAIN c = 1..(Len(a) + 1) /\ DOMAIN a = 1..Len(a)
  OBVIOUS
<1> HIDE DEF c
<1>2. Applied(c) \subseteq Applied(a) \cup {e}
  BY <1>1 DEF Applied
<1>3. Applied(a) \cup {e} \subseteq Applied(c)
  BY <1>1 DEF Applied
<1> QED BY <1>2, <1>3 DEF c


\* The events of two journals in a row.
LEMMA EventsOfConcat ==
  ASSUME NEW a \in Seq(EventRecord), NEW b \in Seq(EventRecord)
  PROVE  EventsOf(a \o b) = EventsOf(a) \o EventsOf(b)
<1>1. /\ a \o b \in Seq(EventRecord) /\ Len(a \o b) = Len(a) + Len(b)
      /\ Len(a) \in 0..Len(a \o b)
  OBVIOUS
<1>2. SubSeq(a \o b, 1, Len(a)) = a /\ SubSeq(a \o b, Len(a) + 1, Len(a \o b)) = b
  BY <1>1, SubSeqOfConcat1, SubSeqOfConcat2, SubSeqFull
<1>3. PICK c \in Seq(EventRecord) : c = a \o b
  BY <1>1
<1>4. PICK k \in 0..Len(c) : k = Len(a)
  BY <1>1, <1>3
<1>5. SubSeq(c, 1, k) = a /\ SubSeq(c, k + 1, Len(c)) = b
  BY <1>2, <1>3, <1>4
<1>6. EventsOf(c) = EventsOf(SubSeq(c, 1, k)) \o EventsOf(SubSeq(c, k + 1, Len(c)))
  BY EventsOfSplit
<1> QED BY <1>3, <1>5, <1>6

\* Inserting a record anywhere adds its event to what the journal applies.
LEMMA InsertAtProperties ==
  ASSUME NEW r \in Seq(EventRecord), NEW x \in EventRecord, NEW p \in 1..(Len(r) + 1)
  PROVE  /\ InsertAt(r, p, x) \in Seq(EventRecord)
         /\ Applied(EventsOf(InsertAt(r, p, x))) = Applied(EventsOf(r)) \cup {x.event}
         /\ p = Len(r) + 1 => InsertAt(r, p, x) = Append(r, x)
         /\ Len(InsertAt(r, p, x)) = Len(r) + 1
<1>0. /\ SubSeq(r, 1, p - 1) \in Seq(EventRecord)
      /\ SubSeq(r, p, Len(r)) \in Seq(EventRecord)
  OBVIOUS
<1>1. PICK a \in Seq(EventRecord) : a = SubSeq(r, 1, p - 1)
  BY <1>0
<1>2. PICK b \in Seq(EventRecord) : b = SubSeq(r, p, Len(r))
  BY <1>0
<1>3. a \o <<x>> = Append(a, x) /\ Append(a, x) \in Seq(EventRecord)
  BY AppendIsConcat
<1>4. PICK c \in Seq(EventRecord) : c = Append(a, x)
  BY <1>3
<1>5. InsertAt(r, p, x) = c \o b
  BY <1>1, <1>2, <1>3, <1>4 DEF InsertAt
<1>6. EventsOf(c) = Append(EventsOf(a), x.event)
  BY <1>4, EventsOfAppend
<1>7. x.event \in Event
  BY DEF EventRecord
<1>8. /\ EventsOf(a) \in Seq(Event) /\ EventsOf(b) \in Seq(Event)
      /\ EventsOf(c) \in Seq(Event)
  BY EventsOfType
<1>9. Applied(EventsOf(c)) = Applied(EventsOf(a)) \cup {x.event}
  BY <1>6, <1>7, <1>8, AppliedAppend
<1>10. Applied(EventsOf(c \o b)) = Applied(EventsOf(c)) \cup Applied(EventsOf(b))
  BY <1>8, EventsOfConcat, AppliedConcat
<1>11. Applied(EventsOf(r)) = Applied(EventsOf(a)) \cup Applied(EventsOf(b))
  <2>1. PICK k \in 0..Len(r) : k = p - 1
    OBVIOUS
  <2>2. k + 1 = p
    BY <2>1
  <2>3. EventsOf(r) = EventsOf(SubSeq(r, 1, k)) \o EventsOf(SubSeq(r, k + 1, Len(r)))
    BY EventsOfSplit
  <2>4. EventsOf(r) = EventsOf(a) \o EventsOf(b)
    BY <2>1, <2>2, <2>3, <1>1, <1>2
  <2> QED BY <2>4, <1>8, AppliedConcat
<1>12. ASSUME p = Len(r) + 1 PROVE InsertAt(r, p, x) = Append(r, x)
  <2>1. a = r
    BY <1>1, <1>12, SubSeqFull
  <2>2. b = << >>
    BY <1>2, <1>12, SubSeqEmpty
  <2>3. c \o << >> = c
    BY ConcatEmptySeq
  <2> QED BY <1>4, <1>5, <2>1, <2>2, <2>3
<1>13. Len(InsertAt(r, p, x)) = Len(r) + 1
  <2>1. Len(a) = p - 1 /\ Len(b) = Len(r) - p + 1
    BY <1>1, <1>2
  <2>2. Len(c) = Len(a) + 1 /\ Len(c \o b) = Len(c) + Len(b)
    BY <1>4
  <2> QED BY <1>5, <2>1, <2>2
<1> QED BY <1>5, <1>9, <1>10, <1>11, <1>12, <1>13

-----------------------------------------------------------------------------
(* Relationships and their sync states.                                    *)

\* Of a log in two parts, a relationship that the second adds is not known
\* to the first.
LEMMA OrderSplit ==
  ASSUME NEW a \in Seq(Event), NEW b \in Seq(Event), ShareOrder(a \o b),
         NEW s \in ShareId, Adds[s] \in Applied(b)
  PROVE  Adds[s] \notin Applied(a) /\ Removes[s] \notin Applied(a)
<1> DEFINE c == a \o b
<1>1. /\ DOMAIN c = 1..(Len(a) + Len(b)) /\ Len(a) \in Nat /\ Len(b) \in Nat
      /\ DOMAIN a = 1..Len(a) /\ DOMAIN b = 1..Len(b)
      /\ \A i \in 1..Len(a) : c[i] = a[i]
      /\ \A i \in 1..Len(b) : c[Len(a) + i] = b[i]
  OBVIOUS
<1> HIDE DEF c
<1>2. PICK n \in 1..Len(b) : b[n] = Adds[s]
  BY <1>1 DEF Applied
<1>3. PICK k \in DOMAIN c : k = Len(a) + n /\ c[k] = Adds[s]
  BY <1>1, <1>2
<1>4. /\ \A i, j \in DOMAIN c : c[i] = Adds[s] /\ c[j] = Adds[s] => i = j
      /\ \A j \in DOMAIN c : c[j] = Removes[s] =>
           \E i \in DOMAIN c : i < j /\ c[i] = Adds[s]
  BY DEF ShareOrder, c
<1>5. \A i \in DOMAIN c : c[i] = Adds[s] => i > Len(a)
  BY <1>1, <1>3, <1>4
<1>6. Adds[s] \notin Applied(a)
  BY <1>1, <1>5 DEF Applied
<1>7. ASSUME Removes[s] \in Applied(a) PROVE FALSE
  <2>1. PICK j \in 1..Len(a) : a[j] = Removes[s]
    BY <1>1, <1>7 DEF Applied
  <2>2. j \in DOMAIN c /\ c[j] = Removes[s]
    BY <1>1, <2>1
  <2>3. PICK i \in DOMAIN c : i < j /\ c[i] = Adds[s]
    BY <1>4, <2>2
  <2> QED BY <1>1, <1>5, <2>1, <2>3
<1> QED BY <1>6, <1>7

\* A relationship that a log removes was added by it.
LEMMA RemovedWasAdded ==
  ASSUME NEW log, ShareOrder(log), NEW s \in ShareId, Removes[s] \in Applied(log)
  PROVE  Adds[s] \in Applied(log)
BY DEF ShareOrder, Applied

\* An event that can be applied keeps the order.
LEMMA OrderAppend ==
  ASSUME NEW a \in Seq(Event), NEW e \in Event, ShareOrder(a), CanApplyTo(a, e)
  PROVE  ShareOrder(Append(a, e))
<1> DEFINE c == Append(a, e)
<1>1. /\ DOMAIN c = 1..(Len(a) + 1) /\ DOMAIN a = 1..Len(a) /\ Len(a) \in Nat
      /\ c[Len(a) + 1] = e /\ \A i \in 1..Len(a) : c[i] = a[i]
  OBVIOUS
<1> HIDE DEF c
<1> SUFFICES ASSUME NEW s \in ShareId
             PROVE  /\ \A i, j \in DOMAIN c : c[i] = Adds[s] /\ c[j] = Adds[s] => i = j
                    /\ \A j \in DOMAIN c : c[j] = Removes[s] =>
                         \E i \in DOMAIN c : i < j /\ c[i] = Adds[s]
  BY DEF ShareOrder, c
<1>2. /\ \A i, j \in 1..Len(a) : a[i] = Adds[s] /\ a[j] = Adds[s] => i = j
      /\ \A j \in 1..Len(a) : a[j] = Removes[s] =>
           \E i \in 1..Len(a) : i < j /\ a[i] = Adds[s]
  BY <1>1 DEF ShareOrder
<1>3. /\ e = Adds[s] => \A i \in 1..Len(a) : a[i] # Adds[s]
      /\ e = Removes[s] => \E i \in 1..Len(a) : a[i] = Adds[s]
  BY <1>1 DEF CanApplyTo, Open, Applied
<1>4. \A i, j \in DOMAIN c : c[i] = Adds[s] /\ c[j] = Adds[s] => i = j
  <2> TAKE i, j \in DOMAIN c
  <2> HAVE c[i] = Adds[s] /\ c[j] = Adds[s]
  <2>1. i \in 1..Len(a) \/ i = Len(a) + 1
    BY <1>1
  <2>2. j \in 1..Len(a) \/ j = Len(a) + 1
    BY <1>1
  <2> QED BY <1>1, <1>2, <1>3, <2>1, <2>2
<1>5. ASSUME NEW j \in DOMAIN c, c[j] = Removes[s]
      PROVE  \E i \in DOMAIN c : i < j /\ c[i] = Adds[s]
  <2>1. CASE j \in 1..Len(a)
    <3>1. PICK i \in 1..Len(a) : i < j /\ a[i] = Adds[s]
      BY <1>1, <1>2, <1>5, <2>1
    <3> QED BY <1>1, <3>1
  <2>2. CASE j = Len(a) + 1
    <3>1. PICK i \in 1..Len(a) : a[i] = Adds[s]
      BY <1>1, <1>3, <1>5, <2>2
    <3>2. i \in DOMAIN c /\ i < j /\ c[i] = Adds[s]
      BY <1>1, <2>2, <3>1
    <3> QED BY <3>2
  <2> QED BY <1>1, <2>1, <2>2
<1> QED BY <1>4, <1>5

\* A journal that replays from an empty base is in order.
LEMMA OrderReplayed ==
  ASSUME NEW r \in Seq(EventRecord), CanReplay(<< >>, r)
  PROVE  ShareOrder(EventsOf(r))
<1> DEFINE c == EventsOf(r)
<1>1. /\ DOMAIN c = 1..Len(r) /\ DOMAIN r = 1..Len(r) /\ Len(r) \in Nat
      /\ \A i \in 1..Len(r) : c[i] = r[i].event
  BY EventsOfType
<1>2. ASSUME NEW j \in 1..Len(r)
      PROVE  CanApplyTo(EventsOf(SubSeq(r, 1, j - 1)), c[j])
  <2>1. EventsOf(SubSeq(r, 1, j - 1)) \in Seq(Event)
    <3>1. SubSeq(r, 1, j - 1) \in Seq(EventRecord)
      OBVIOUS
    <3> QED BY <3>1, EventsOfType
  <2>2. << >> \o EventsOf(SubSeq(r, 1, j - 1)) = EventsOf(SubSeq(r, 1, j - 1))
    BY <2>1, ConcatEmptySeq
  <2>3. CanApplyTo(<< >> \o EventsOf(SubSeq(r, 1, j - 1)), r[j].event)
    BY <1>1 DEF CanReplay
  <2> QED BY <1>1, <2>2, <2>3
<1>3. ASSUME NEW j \in 1..Len(r)
      PROVE  Applied(EventsOf(SubSeq(r, 1, j - 1))) = {c[i] : i \in 1..(j - 1)}
  <2>0. SubSeq(r, 1, j - 1) \in Seq(EventRecord)
    OBVIOUS
  <2>1. PICK p \in Seq(EventRecord) : p = SubSeq(r, 1, j - 1)
    BY <2>0
  <2>2. Len(p) = j - 1 /\ \A i \in 1..(j - 1) : p[i] = r[i]
    BY <2>1
  <2>3. /\ EventsOf(p) \in Seq(Event) /\ Len(EventsOf(p)) = Len(p)
        /\ \A i \in 1..Len(p) : EventsOf(p)[i] = p[i].event
    BY EventsOfType
  <2>4. DOMAIN EventsOf(p) = 1..(j - 1)
    BY <2>2, <2>3
  <2>5. \A i \in 1..(j - 1) : i \in 1..Len(r) /\ EventsOf(p)[i] = c[i]
    BY <1>1, <2>2, <2>3
  <2> HIDE DEF c
  <2>6. Applied(EventsOf(p)) = {c[i] : i \in 1..(j - 1)}
    BY <2>4, <2>5 DEF Applied
  <2> QED BY <2>1, <2>6
<1> HIDE DEF c
<1>4. ASSUME NEW s \in ShareId, NEW j \in 1..Len(r)
      PROVE  /\ c[j] = Adds[s] => \A i \in 1..(j - 1) : c[i] # Adds[s]
             /\ c[j] = Removes[s] => \E i \in 1..(j - 1) : c[i] = Adds[s]
  <2>1. PICK A : A = Applied(EventsOf(SubSeq(r, 1, j - 1)))
    OBVIOUS
  <2>2. /\ c[j] = Adds[s] => Adds[s] \notin A
        /\ c[j] = Removes[s] => Adds[s] \in A
    BY <1>2, <2>1 DEF CanApplyTo, Open
  <2>3. A = {c[i] : i \in 1..(j - 1)}
    BY <1>3, <2>1
  <2> QED BY <2>2, <2>3
<1>5. ASSUME NEW s \in ShareId
      PROVE  /\ \A i, j \in DOMAIN c : c[i] = Adds[s] /\ c[j] = Adds[s] => i = j
             /\ \A j \in DOMAIN c : c[j] = Removes[s] =>
                  \E i \in DOMAIN c : i < j /\ c[i] = Adds[s]
  <2>1. ASSUME NEW i \in 1..Len(r), NEW j \in 1..Len(r),
               c[i] = Adds[s], c[j] = Adds[s]
        PROVE  i = j
    <3>1. ~ i < j
      BY <1>1, <1>4, <2>1
    <3>2. ~ j < i
      BY <1>1, <1>4, <2>1
    <3> QED BY <1>1, <3>1, <3>2
  <2>2. ASSUME NEW j \in 1..Len(r), c[j] = Removes[s]
        PROVE  \E i \in 1..Len(r) : i < j /\ c[i] = Adds[s]
    BY <1>1, <1>4, <2>2
  <2> QED BY <1>1, <2>1, <2>2
<1> QED BY <1>5 DEF ShareOrder, c


-----------------------------------------------------------------------------
(* Positions in the journal.                                               *)

\* A set of positions has a first one and a last one.
LEMMA FirstAndLast ==
  ASSUME NEW n \in Nat, NEW S \in SUBSET (1..n), S # {}
  PROVE  /\ \E i \in S : \A j \in S : i <= j
         /\ \E i \in S : \A j \in S : j <= i
<1>1. \A T \in SUBSET Nat : T # {} => \E x \in T : \A y \in T : x <= y
  <2> TAKE T \in SUBSET Nat
  <2> HAVE T # {}
  <2>1. PICK R : R = OpToRel(<, Nat)
    BY Zenon
  <2>2. IsWellFoundedOn(R, Nat)
    BY <2>1, NatLessThanWellFounded, Zenon
  <2>3. PICK x \in T : \A y \in T : ~ (<<y, x>> \in R)
    BY <2>2, WFMin
  <2>4. ASSUME NEW y \in T, y < x PROVE FALSE
    <3>1. <<y, x>> \in R
      BY <2>1, <2>4 DEF OpToRel
    <3> QED BY <2>3, <3>1
  <2> QED BY <2>3, <2>4
<1>2. \E i \in S : \A j \in S : i <= j
  BY <1>1
<1>3. \E i \in S : \A j \in S : j <= i
  <2> DEFINE T == {k \in Nat : n - k \in S}
  <2>1. T # {}
    <3>1. PICK i \in S : TRUE
      OBVIOUS
    <3>2. n - i \in Nat /\ n - (n - i) = i
      OBVIOUS
    <3> QED BY <3>1, <3>2
  <2>2. PICK k \in T : \A m \in T : k <= m
    BY <1>1, <2>1
  <2>3. ASSUME NEW j \in S PROVE j <= n - k
    <3>1. n - j \in Nat /\ n - (n - j) = j
      OBVIOUS
    <3>2. n - j \in T
      BY <3>1
    <3> QED BY <2>2, <3>2
  <2> QED BY <2>2, <2>3
<1> QED BY <1>2, <1>3


\* lower_bound gives a place in the journal or its end; after the timestamp
\* of the last record it gives the end.
LEMMA PositionProperties ==
  ASSUME TypeOK, NEW t \in Nat
  PROVE  /\ Position(t) \in 1..(Len(journal) + 1)
         /\ journal = << >> => Position(t) = 1
         /\ journal # << >> /\ journal[Len(journal)].timestamp < t
              => Position(t) = Len(journal) + 1
<1> DEFINE before == {i \in DOMAIN journal : journal[i].timestamp < t}
<1>1. DOMAIN journal = 1..Len(journal) /\ Len(journal) \in Nat
  BY DEF TypeOK
<1>2. journal = << >> => Len(journal) = 0
  BY DEF TypeOK
<1>3. journal # << >> => Len(journal) \in 1..Len(journal)
  BY DEF TypeOK
<1>4. CASE before = {}
  <2>1. Position(t) = 1
    BY <1>4 DEF Position
  <2>2. ~ (journal # << >> /\ journal[Len(journal)].timestamp < t)
    BY <1>1, <1>3, <1>4
  <2> QED BY <1>1, <2>1, <2>2
<1>5. CASE before # {}
  <2>1. PICK n \in Nat : n = Len(journal)
    BY <1>1
  <2>2. PICK B \in SUBSET (1..n) : B = before
    BY <1>1, <2>1
  <2>3. \E i \in B : \A j \in B : j <= i
    BY <1>5, <2>2, FirstAndLast
  <2>4. PICK p : p = (CHOOSE i \in B : \A j \in B : j <= i)
    OBVIOUS
  <2>5. p \in B /\ \A j \in B : j <= p
    BY <2>3, <2>4
  <2>6. Position(t) = 1 + p
    BY <1>5, <2>2, <2>4 DEF Position
  <2>7. journal # << >>
    BY <1>1, <1>2, <1>5
  <2>8. ASSUME journal[Len(journal)].timestamp < t PROVE p = n
    <3>1. n \in B
      BY <1>1, <1>3, <2>1, <2>2, <2>7, <2>8
    <3> QED BY <2>5, <3>1
  <2> QED BY <2>1, <2>5, <2>6, <2>7, <2>8
<1> QED BY <1>4, <1>5

\* The prefix that may be folded is a part of the journal, and none of it
\* while compaction is held back.
LEMMA PrefixProperties ==
  ASSUME TypeOK
  PROVE  /\ CollapsiblePrefixCount \in 0..Len(journal)
         /\ CollapsiblePrefixCount > 0 => ~ blocked
<1> DEFINE kept == {i \in DOMAIN journal : Retained(i)}
<1>1. DOMAIN journal = 1..Len(journal) /\ Len(journal) \in Nat
  BY DEF TypeOK
<1>2. CASE blocked
  BY <1>1, <1>2 DEF CollapsiblePrefixCount
<1>3. CASE ~ blocked /\ kept = {}
  BY <1>1, <1>3 DEF CollapsiblePrefixCount
<1>4. CASE ~ blocked /\ kept # {}
  <2>1. PICK n \in Nat : n = Len(journal)
    BY <1>1
  <2>2. PICK K \in SUBSET (1..n) : K = kept
    BY <1>1, <2>1
  <2>3. \E i \in K : \A j \in K : i <= j
    BY <1>4, <2>2, FirstAndLast
  <2>4. PICK p : p = (CHOOSE i \in K : \A j \in K : i <= j)
    OBVIOUS
  <2>5. p \in K
    BY <2>3, <2>4
  <2>6. CollapsiblePrefixCount = p - 1
    BY <1>4, <2>2, <2>4 DEF CollapsiblePrefixCount
  <2> QED BY <1>4, <2>1, <2>5, <2>6
<1> QED BY <1>2, <1>3, <1>4

-----------------------------------------------------------------------------
(* What applying records makes of the sync states.                         *)

\* The three cases of SyncAfter.
LEMMA SyncAfterCases ==
  ASSUME NEW st \in SyncState, NEW r, NEW A, A = Applied(EventsOf(r))
  PROVE  /\ SyncAfter(st, r) \in SyncState
         /\ \A s \in ShareId :
              /\ Removes[s] \in A => SyncAfter(st, r)[s] = "Absent"
              /\ Removes[s] \notin A /\ Adds[s] \in A /\ st[s] = "Absent"
                   => SyncAfter(st, r)[s] = "NotStarted"
              /\ Removes[s] \notin A /\ ~ (Adds[s] \in A /\ st[s] = "Absent")
                   => SyncAfter(st, r)[s] = st[s]
BY DEF SyncAfter, SyncState

\* States that agree with what a log opened and closed are not changed by
\* applying it again.
LEMMA SyncAfterAgain ==
  ASSUME NEW st \in SyncState, NEW r, NEW log, StatesOf(st, log),
         \A s \in ShareId : /\ Removes[s] \in Applied(EventsOf(r))
                                 <=> Removes[s] \in Applied(log)
                            /\ Adds[s] \in Applied(EventsOf(r))
                                 <=> Adds[s] \in Applied(log)
  PROVE  SyncAfter(st, r) = st
<1>1. PICK A : A = Applied(EventsOf(r))
  OBVIOUS
<1>2. PICK u : u = SyncAfter(st, r)
  OBVIOUS
<1>3. \A s \in ShareId : u[s] = st[s]
  BY <1>1, <1>2, SyncAfterCases DEF StatesOf, Open
<1>4. u \in SyncState
  BY <1>1, <1>2, SyncAfterCases
<1>5. u = st
  BY <1>3, <1>4 DEF SyncState
<1> QED BY <1>2, <1>5

\* Applying one more event keeps the states those of the open relationships.
LEMMA SyncAfterOne ==
  ASSUME NEW st \in SyncState, NEW log \in Seq(Event), ShareOrder(log),
         StatesOf(st, log), NEW x \in EventRecord, CanApplyTo(log, x.event)
  PROVE  /\ SyncAfter(st, <<x>>) \in SyncState
         /\ StatesOf(SyncAfter(st, <<x>>), Append(log, x.event))
<1>1. PICK e \in Event : e = x.event
  BY DEF EventRecord
<1>2. Applied(EventsOf(<<x>>)) = {e}
  <2>1. DOMAIN <<x>> = {1} /\ <<x>>[1] = x
    OBVIOUS
  <2> QED BY <1>1, <2>1 DEF Applied, EventsOf
<1>3. PICK A : A = Applied(log)
  OBVIOUS
<1>4. Applied(Append(log, e)) = A \cup {e}
  BY <1>3, AppliedAppend
<1>5. PICK r : r = <<x>>
  OBVIOUS
<1>6. PICK B : B = Applied(EventsOf(r)) /\ B = {e}
  BY <1>2, <1>5
<1>7. PICK u \in SyncState : u = SyncAfter(st, r)
  BY <1>6, SyncAfterCases
<1>8. ASSUME NEW s \in ShareId
      PROVE  u[s] # "Absent" <=> /\ Adds[s] \in A \cup {e}
                                 /\ Removes[s] \notin A \cup {e}
  <2>0. /\ Removes[s] \in B => u[s] = "Absent"
        /\ Removes[s] \notin B /\ Adds[s] \in B /\ st[s] = "Absent"
             => u[s] = "NotStarted"
        /\ Removes[s] \notin B /\ ~ (Adds[s] \in B /\ st[s] = "Absent")
             => u[s] = st[s]
    <3>1. B = Applied(EventsOf(r))
      BY <1>6
    <3> QED BY <1>7, <3>1, SyncAfterCases
  <2>1. /\ Removes[s] = e => u[s] = "Absent"
        /\ Removes[s] # e /\ Adds[s] = e /\ st[s] = "Absent" => u[s] = "NotStarted"
        /\ Removes[s] # e /\ ~ (Adds[s] = e /\ st[s] = "Absent") => u[s] = st[s]
    BY <1>6, <2>0
  <2>2. (st[s] # "Absent") <=> (Adds[s] \in A /\ Removes[s] \notin A)
    BY <1>3 DEF StatesOf, Open
  <2>3. Removes[s] \in A => Adds[s] \in A
    BY <1>3, RemovedWasAdded
  <2>4. e = Adds[s] => Adds[s] \notin A
    BY <1>1, <1>3 DEF CanApplyTo
  <2>5. Adds[s] # Removes[s]
    BY EventAssumption
  <2> QED BY <2>1, <2>2, <2>3, <2>4, <2>5
<1>9. StatesOf(u, Append(log, e))
  BY <1>4, <1>8 DEF StatesOf, Open
<1> QED BY <1>1, <1>5, <1>7, <1>9


-----------------------------------------------------------------------------
(* One lemma per action.                                                   *)

\* What was saved stays so until the next Save.
LEMMA SavedKept == ASSUME SavedWell, UNCHANGED saved PROVE SavedWell'
BY Zenon DEF SavedWell

\* A local event goes to the end.
LEMMA CommitStep ==
  ASSUME IndInv, NEW e \in Event, Commit(e), UNCHANGED blocked
  PROVE  IndInv' /\ gen' > gen
<1> DEFINE last == IF journal = << >> THEN 0 ELSE journal[Len(journal)].timestamp
<1>1. /\ TypeOK /\ LiveIsReplay /\ ShareOrder(live) /\ StatesOf(sync, live)
      /\ SavedWell /\ HeldBack
  BY DEF IndInv
<1>2. last \in Nat
  <2>1. CASE journal = << >>
    BY <2>1
  <2>2. CASE journal # << >>
    <3>1. journal[Len(journal)] \in EventRecord
      BY <1>1, <2>2 DEF TypeOK
    <3>2. last = journal[Len(journal)].timestamp
      BY <2>2
    <3> QED BY <3>1, <3>2 DEF EventRecord
  <2> QED BY <2>1, <2>2
<1>3. clock \in Nat
  BY <1>1 DEF TypeOK
<1>4. PICK t \in Nat : t = (IF clock <= last THEN last + 1 ELSE clock)
  BY <1>2, <1>3
<1>5. t > last
  BY <1>2, <1>3, <1>4
<1>6. PICK x \in EventRecord :
        x = [event |-> e, retained_since |-> clock, timestamp |-> t]
  BY <1>3 DEF EventRecord
<1>7. x.event = e /\ x.timestamp = t
  BY <1>6
<1>8. TryInsertEvent(x) /\ CanApplyTo(live, e)
  BY <1>4, <1>6 DEF Commit
<1>9. Position(t) = Len(journal) + 1
  <2>1. CASE journal = << >>
    <3>1. Len(journal) = 0
      BY <2>1
    <3> QED BY <1>1, <2>1, <3>1, PositionProperties
  <2>2. CASE journal # << >>
    <3>1. journal[Len(journal)].timestamp < t
      BY <1>5, <2>2
    <3> QED BY <1>1, <2>2, <3>1, PositionProperties
  <2> QED BY <2>1, <2>2
<1> HIDE DEF last
<1>10. /\ journal \in Seq(EventRecord) /\ Len(journal) \in Nat /\ live \in Seq(Event)
       /\ base \in Seq(Event) /\ sync \in SyncState /\ gen \in Nat
  BY <1>1 DEF TypeOK
<1>11. PICK j \in Seq(EventRecord) : j = journal
  BY <1>10
<1>12. PICK p \in 1..(Len(j) + 1) : p = Position(t)
  BY <1>1, <1>11, PositionProperties
<1>13. InsertAt(j, p, x) = Append(j, x)
  BY <1>9, <1>11, <1>12, InsertAtProperties
<1>14. journal' = Append(journal, x)
  BY <1>7, <1>8, <1>11, <1>12, <1>13 DEF TryInsertEvent
<1>15. live' = Append(live, e) /\ sync' = SyncAfter(sync, <<x>>) /\ gen' = gen + 1
  <2>1. Materialize(InsertAt(journal, Position(x.timestamp), x), x)
    BY <1>8 DEF TryInsertEvent
  <2>2. ~ (Position(x.timestamp) <= Len(journal))
    BY <1>7, <1>9, <1>10
  <2> QED BY <1>7, <2>1, <2>2 DEF Materialize
<1>16. UNCHANGED <<base, clock, saved, blocked>>
  BY DEF Commit
<1>17. PICK l \in Seq(Event) : l = live
  BY <1>10
<1>18. PICK st \in SyncState : st = sync
  BY <1>10
<1>19. SyncAfter(st, <<x>>) \in SyncState /\ StatesOf(SyncAfter(st, <<x>>), Append(l, e))
  BY <1>1, <1>7, <1>8, <1>17, <1>18, SyncAfterOne
<1>20. TypeOK'
  BY <1>1, <1>10, <1>14, <1>15, <1>16, <1>18, <1>19 DEF TypeOK
<1>21. LiveIsReplay'
  <2>1. EventsOf(Append(j, x)) = Append(EventsOf(j), e)
    BY <1>7, EventsOfAppend
  <2>2. PICK b \in Seq(Event) : b = base
    BY <1>10
  <2>3. PICK m \in Seq(Event) : m = EventsOf(j)
    BY EventsOfType
  <2>4. b \o Append(m, e) = Append(b \o m, e)
    OBVIOUS
  <2>5. l = b \o m
    BY <1>1, <1>11, <1>17, <2>2, <2>3 DEF LiveIsReplay
  <2>6. live' = Append(l, e)
    BY <1>15, <1>17
  <2>7. base' = b /\ EventsOf(journal') = Append(m, e)
    BY <1>11, <1>14, <1>16, <2>1, <2>2, <2>3
  <2> QED BY <2>4, <2>5, <2>6, <2>7 DEF LiveIsReplay
<1>22. ShareOrder(live)'
  <2>1. ShareOrder(Append(l, e))
    BY <1>1, <1>8, <1>17, OrderAppend
  <2> QED BY <1>15, <1>17, <2>1 DEF ShareOrder
<1>23. StatesOf(sync, live)'
  BY <1>15, <1>17, <1>18, <1>19 DEF StatesOf, Open, Applied
<1>24. SavedWell'
  BY <1>1, <1>16, SavedKept
<1>25. HeldBack'
  <2>1. Len(journal') = Len(journal) + 1
    BY <1>10, <1>14
  <2> QED BY <1>1, <1>10, <1>15, <1>16, <2>1 DEF HeldBack
<1>26. gen' > gen
  BY <1>10, <1>15
<1> QED BY <1>20, <1>21, <1>22, <1>23, <1>24, <1>25, <1>26 DEF IndInv

\* A shared event goes where its timestamp puts it; the sync states, and so
\* the relationships, are not touched by a rebuild.
LEMMA CommitSharedStep ==
  ASSUME IndInv, NEW e \in Event, CommitShared(e), UNCHANGED blocked
  PROVE  IndInv' /\ sync' = sync /\ gen' > gen
<1>1. /\ TypeOK /\ LiveIsReplay /\ ShareOrder(live) /\ StatesOf(sync, live)
      /\ SavedWell /\ HeldBack
  BY DEF IndInv
<1>2. /\ journal \in Seq(EventRecord) /\ Len(journal) \in Nat /\ live \in Seq(Event)
      /\ sync \in SyncState /\ clock \in Nat /\ gen \in Nat
  BY <1>1 DEF TypeOK
<1>3. e \in SharedEvent /\ blocked /\ base = << >>
  BY <1>1 DEF CommitShared, HeldBack
<1>4. PICK x \in EventRecord :
        x = [event |-> e, retained_since |-> clock, timestamp |-> Stamp[e]]
  BY <1>2, <1>3, EventAssumption DEF EventRecord
<1>5. x.event = e /\ x.timestamp \in Nat
  BY <1>4 DEF EventRecord
<1>6. TryInsertEvent(x)
  BY <1>4 DEF CommitShared
<1>7. PICK j \in Seq(EventRecord) : j = journal
  BY <1>2
<1>8. PICK p \in 1..(Len(j) + 1) : p = Position(x.timestamp)
  BY <1>1, <1>5, <1>7, PositionProperties
<1>9. PICK i \in Seq(EventRecord) : i = InsertAt(j, p, x)
  BY InsertAtProperties
<1>10. /\ Applied(EventsOf(i)) = Applied(EventsOf(j)) \cup {e}
       /\ p = Len(j) + 1 => i = Append(j, x)
  BY <1>5, <1>9, InsertAtProperties
<1>11. journal' = i /\ Materialize(i, x)
  BY <1>6, <1>7, <1>8, <1>9 DEF TryInsertEvent
<1>12. UNCHANGED <<base, clock, saved, blocked>>
  BY DEF CommitShared
<1>13. PICK m \in Seq(Event) : m = EventsOf(j)
  BY EventsOfType
<1>14. live = m
  BY <1>1, <1>3, <1>7, <1>13, ConcatEmptySeq DEF LiveIsReplay
<1>15. \A s \in ShareId : Adds[s] # e /\ Removes[s] # e
  BY <1>3, EventAssumption
<1>16. PICK st \in SyncState : st = sync
  BY <1>2
<1>17. PICK n \in Seq(Event) : n = EventsOf(i)
  BY EventsOfType
<1>18. /\ live' = n /\ ShareOrder(n)
       /\ sync' = SyncAfter(sync, <<x>>) \/ sync' = SyncAfter(sync, i)
  <2>1. CASE /\ Position(x.timestamp) = Len(journal) + 1
             /\ CanApplyTo(live, x.event)
             /\ live' = Append(live, x.event)
             /\ sync' = SyncAfter(sync, <<x>>)
    <3>1. i = Append(j, x)
      BY <1>7, <1>8, <1>10, <2>1
    <3>2. n = Append(m, e)
      BY <1>5, <1>13, <1>17, <3>1, EventsOfAppend
    <3>3. ShareOrder(n)
      BY <1>1, <1>5, <1>14, <2>1, <3>2, OrderAppend
    <3> QED BY <1>5, <1>14, <2>1, <3>2, <3>3
  <2>2. CASE /\ CanReplay(base, i)
             /\ live' = base \o EventsOf(i)
             /\ sync' = SyncAfter(sync, i)
    <3>1. ShareOrder(EventsOf(i))
      BY <1>3, <2>2, OrderReplayed
    <3>2. live' = n
      BY <1>3, <1>17, <2>2, ConcatEmptySeq
    <3> QED BY <1>17, <2>2, <3>1, <3>2
  <2> QED BY <1>11, <2>1, <2>2 DEF Materialize
<1>19. sync' = sync
  <2>1. Applied(EventsOf(<<x>>)) = {e}
    <3>1. DOMAIN <<x>> = {1} /\ <<x>>[1] = x
      OBVIOUS
    <3> QED BY <1>5, <3>1 DEF Applied, EventsOf
  <2>2. CASE sync' = SyncAfter(sync, <<x>>)
    <3>1. PICK r : r = <<x>> /\ Applied(EventsOf(r)) = {e}
      BY <2>1
    <3>2. PICK u \in SyncState : u = SyncAfter(st, r)
      BY SyncAfterCases
    <3>3. \A s \in ShareId : u[s] = st[s]
      BY <1>15, <3>1, <3>2, SyncAfterCases
    <3>4. u = st
      BY <3>3 DEF SyncState
    <3> QED BY <1>16, <2>2, <3>1, <3>2, <3>4
  <2>3. CASE sync' = SyncAfter(sync, i)
    <3>1. \A s \in ShareId :
            /\ Removes[s] \in Applied(EventsOf(i)) <=> Removes[s] \in Applied(m)
            /\ Adds[s] \in Applied(EventsOf(i)) <=> Adds[s] \in Applied(m)
      BY <1>10, <1>13, <1>15
    <3>2. StatesOf(st, m)
      BY <1>1, <1>14, <1>16
    <3>3. SyncAfter(st, i) = st
      BY <3>1, <3>2, SyncAfterAgain
    <3> QED BY <1>16, <2>3, <3>3
  <2> QED BY <1>18, <2>2, <2>3
<1>19a. gen' \in Nat /\ gen' > gen /\ gen' <= 1 + Len(journal')
  <2>1. Len(i) = Len(journal) + 1
    BY <1>7, <1>9, InsertAtProperties
  <2>2. gen <= 1 + Len(journal)
    BY <1>1, <1>3 DEF HeldBack
  <2>3. gen' = gen + 1 \/ gen' = 1 + Len(i)
    BY <1>11 DEF Materialize
  <2> QED BY <1>2, <1>11, <2>1, <2>2, <2>3
<1>20. TypeOK'
  BY <1>1, <1>11, <1>12, <1>18, <1>19, <1>19a DEF TypeOK
<1>21. LiveIsReplay'
  <2>1. << >> \o n = n
    BY ConcatEmptySeq
  <2> QED BY <1>3, <1>11, <1>12, <1>17, <1>18, <2>1 DEF LiveIsReplay
<1>22. ShareOrder(live)'
  BY <1>18 DEF ShareOrder
<1>23. StatesOf(sync, live)'
  <2>1. Applied(n) = Applied(m) \cup {e}
    BY <1>10, <1>13, <1>17
  <2>2. \A s \in ShareId : s \in Open(n) <=> s \in Open(m)
    BY <1>15, <2>1 DEF Open
  <2>3. StatesOf(st, n)
    BY <1>1, <1>14, <1>16, <2>2 DEF StatesOf
  <2> QED BY <1>16, <1>18, <1>19, <2>3 DEF StatesOf, Open, Applied
<1>24. SavedWell'
  BY <1>1, <1>12, SavedKept
<1>25. HeldBack'
  BY <1>3, <1>12, <1>19a DEF HeldBack
<1> QED BY <1>19, <1>19a, <1>20, <1>21, <1>22, <1>23, <1>24, <1>25 DEF IndInv


\* Folding keeps the fields and the states, whatever it keeps of the journal.
LEMMA CompactStep ==
  ASSUME IndInv, CompactJournal, UNCHANGED blocked
  PROVE  IndInv' /\ live' = live /\ sync' = sync
<1>1. /\ TypeOK /\ LiveIsReplay /\ ShareOrder(live) /\ StatesOf(sync, live)
      /\ SavedWell
  BY DEF IndInv
<1>2. PICK j \in Seq(EventRecord) : j = journal
  BY <1>1 DEF TypeOK
<1>3. PICK k \in 0..Len(j) : k = CollapsiblePrefixCount
  BY <1>1, <1>2, PrefixProperties
<1>4. ~ blocked
  BY <1>1, PrefixProperties DEF CompactJournal
<1>5. SubSeq(j, 1, k) \in Seq(EventRecord) /\ SubSeq(j, k + 1, Len(j)) \in Seq(EventRecord)
  OBVIOUS
<1>6. PICK prefix \in Seq(EventRecord) : prefix = SubSeq(j, 1, k)
  BY <1>5
<1>7. PICK retained \in Seq(EventRecord) : retained = SubSeq(j, k + 1, Len(j))
  BY <1>5
<1>8. PICK p \in Seq(Event) : p = EventsOf(prefix)
  BY EventsOfType
<1>9. PICK q \in Seq(Event) : q = EventsOf(retained)
  BY EventsOfType
<1>10. PICK b \in Seq(Event) : b = base
  BY <1>1 DEF TypeOK
<1>11. PICK f \in Seq(Event) : f = b \o p
  <2>1. b \o p \in Seq(Event)
    OBVIOUS
  <2> QED BY <2>1
<1>11a. b \o (p \o q) = f \o q
  <2>1. b \o (p \o q) = (b \o p) \o q
    BY ConcatLogs
  <2> QED BY <1>11, <2>1
<1>12. PICK st \in SyncState : st = sync
  BY <1>1 DEF TypeOK
<1>13. live = f \o q
  <2>1. EventsOf(j) = p \o q
    BY <1>6, <1>7, <1>8, <1>9, EventsOfSplit
  <2>2. live = b \o (p \o q)
    BY <1>1, <1>2, <1>10, <2>1 DEF LiveIsReplay
  <2> QED BY <1>11a, <2>2
<1>14. /\ journal' = retained
       /\ \/ /\ retained = << >> /\ base' = live /\ live' = live /\ sync' = sync
          \/ /\ retained # << >> /\ base' = f /\ live' = f \o q
             /\ sync' = SyncAfter(SyncAfter(st, prefix), retained)
       /\ UNCHANGED <<gen, clock, saved>>
  BY <1>2, <1>3, <1>6, <1>7, <1>8, <1>9, <1>10, <1>11, <1>12 DEF CompactJournal
<1>15. SyncAfter(SyncAfter(st, prefix), retained) = st
  <2>1. PICK P : P = Applied(p)
    OBVIOUS
  <2>2. PICK Q : Q = Applied(q)
    OBVIOUS
  <2>3. PICK B : B = Applied(b)
    OBVIOUS
  <2>4. Applied(f) = B \cup P
    BY <1>11, <2>1, <2>3, AppliedConcat
  <2>5. PICK l \in Seq(Event) : l = live /\ l = f \o q
    BY <1>1, <1>13 DEF TypeOK
  <2>6. Applied(l) = B \cup P \cup Q
    BY <2>2, <2>4, <2>5, AppliedConcat
  <2>7. PICK u \in SyncState : u = SyncAfter(st, prefix)
    BY SyncAfterCases
  <2>8. PICK w \in SyncState : w = SyncAfter(u, retained)
    BY SyncAfterCases
  <2>9. ASSUME NEW s \in ShareId PROVE w[s] = st[s]
    <3>1. /\ Removes[s] \in P => u[s] = "Absent"
          /\ Removes[s] \notin P /\ Adds[s] \in P /\ st[s] = "Absent"
               => u[s] = "NotStarted"
          /\ Removes[s] \notin P /\ ~ (Adds[s] \in P /\ st[s] = "Absent")
               => u[s] = st[s]
      <4>1. P = Applied(EventsOf(prefix))
        BY <1>8, <2>1
      <4> QED BY <2>7, <4>1, SyncAfterCases
    <3>2. /\ Removes[s] \in Q => w[s] = "Absent"
          /\ Removes[s] \notin Q /\ Adds[s] \in Q /\ u[s] = "Absent"
               => w[s] = "NotStarted"
          /\ Removes[s] \notin Q /\ ~ (Adds[s] \in Q /\ u[s] = "Absent")
               => w[s] = u[s]
      <4>1. Q = Applied(EventsOf(retained))
        BY <1>9, <2>2
      <4> QED BY <2>8, <4>1, SyncAfterCases
    <3>3. (st[s] # "Absent") <=> /\ Adds[s] \in B \cup P \cup Q
                                 /\ Removes[s] \notin B \cup P \cup Q
      BY <1>1, <1>12, <2>5, <2>6 DEF StatesOf, Open
    <3>4. Adds[s] \in Q => Adds[s] \notin B \cup P /\ Removes[s] \notin B \cup P
      <4>1. ShareOrder(f \o q)
        BY <1>1, <2>5
      <4> QED BY <2>2, <2>4, <4>1, OrderSplit
    <3>5. Adds[s] \in P => Removes[s] \notin B
      <4>1. p \o q \in Seq(Event)
        OBVIOUS
      <4>3. PICK c \in Seq(Event) : c = p \o q
        BY <4>1
      <4>4. ShareOrder(b \o c)
        BY <1>11a, <1>1, <2>5, <4>3
      <4>5. Applied(c) = P \cup Q
        BY <2>1, <2>2, <4>3, AppliedConcat
      <4> QED BY <2>3, <4>4, <4>5, OrderSplit
    <3>6. Adds[s] # Removes[s]
      BY EventAssumption
    <3> QED BY <3>1, <3>2, <3>3, <3>4, <3>5, <3>6
  <2>10. w = st
    BY <2>9 DEF SyncState
  <2> QED BY <2>7, <2>8, <2>10
<1>16. live' = live /\ sync' = sync
  BY <1>12, <1>13, <1>14, <1>15
<1>17. base' \in Seq(Event)
  BY <1>1, <1>14 DEF TypeOK
<1>18. TypeOK'
  BY <1>1, <1>14, <1>16, <1>17 DEF TypeOK
<1>19. LiveIsReplay'
  <2>1. CASE retained # << >>
    <3>1. base' = f /\ live' = f \o q /\ journal' = retained
      BY <1>14, <2>1
    <3> QED BY <1>9, <3>1 DEF LiveIsReplay
  <2>2. CASE retained = << >>
    <3>1. EventsOf(retained) = << >>
      <4>1. Len(retained) = 0
        BY <2>2
      <4>2. EventsOf(retained) \in Seq(Event) /\ Len(EventsOf(retained)) = 0
        BY <4>1, EventsOfType
      <4> QED BY <4>2, EmptySeq
    <3>2. PICK l \in Seq(Event) : l = live
      BY <1>1 DEF TypeOK
    <3>3. l \o << >> = l
      BY ConcatEmptySeq
    <3>4. base' = l /\ live' = l /\ journal' = retained
      BY <1>14, <2>2, <3>2
    <3> QED BY <3>1, <3>3, <3>4 DEF LiveIsReplay
  <2> QED BY <2>1, <2>2
<1>20. ShareOrder(live)' /\ StatesOf(sync, live)'
  BY <1>1, <1>16 DEF ShareOrder, StatesOf, Open, Applied
<1>21. HeldBack'
  BY <1>4 DEF HeldBack
<1>22. SavedWell'
  BY <1>1, <1>14, SavedKept
<1> QED BY <1>16, <1>18, <1>19, <1>20, <1>21, <1>22 DEF IndInv

\* Progress, Save and time leave what is replayed alone.
LEMMA LocalStep ==
  ASSUME IndInv, (\E s \in ShareId : CompleteInitialSync(s)) \/ Save \/ Tick,
         UNCHANGED blocked
  PROVE  IndInv'
<1>1. /\ TypeOK /\ LiveIsReplay /\ ShareOrder(live) /\ StatesOf(sync, live)
      /\ SavedWell /\ HeldBack
  BY DEF IndInv
<1>2. UNCHANGED <<base, journal, live, gen, blocked>>
  BY DEF CompleteInitialSync, Save, Tick
<1>3. LiveIsReplay' /\ ShareOrder(live)'
  <2>1. EventsOf(journal)' = EventsOf(journal)
    BY <1>2 DEF EventsOf
  <2>2. LiveIsReplay'
    BY <1>1, <1>2, <2>1 DEF LiveIsReplay
  <2> QED BY <1>1, <1>2, <2>2 DEF ShareOrder
<1>3a. HeldBack'
  BY <1>1, <1>2 DEF HeldBack
<1>4. CASE \E s \in ShareId : CompleteInitialSync(s)
  <2>1. PICK s \in ShareId : CompleteInitialSync(s)
    BY <1>4
  <2>2. /\ sync' = [sync EXCEPT ![s] = "Complete"] /\ sync[s] = "NotStarted"
        /\ UNCHANGED <<clock, saved>>
    BY <2>1 DEF CompleteInitialSync
  <2>3. TypeOK'
    BY <1>1, <1>2, <2>2 DEF TypeOK, SyncState
  <2>4. \A t \in ShareId : (sync'[t] # "Absent") <=> (sync[t] # "Absent")
    BY <1>1, <2>2 DEF TypeOK, SyncState
  <2>5. StatesOf(sync, live)'
    BY <1>1, <1>2, <2>4 DEF StatesOf, Open, Applied
  <2>6. SavedWell'
    BY <1>1, <2>2, SavedKept
  <2> QED BY <1>3, <1>3a, <2>3, <2>5, <2>6 DEF IndInv
<1>5. CASE Save
  <2>1. /\ saved' = [base |-> base, journal |-> journal, live |-> live, sync |-> sync]
        /\ UNCHANGED <<sync, clock>>
    BY <1>5 DEF Save, Checkpoint
  <2>2. TypeOK'
    BY <1>1, <1>2, <2>1 DEF TypeOK
  <2>3. StatesOf(sync, live)'
    BY <1>1, <1>2, <2>1 DEF StatesOf, Open, Applied
  <2>4. SavedWell'
    <3>1. PICK c : c = [base |-> base, journal |-> journal, live |-> live, sync |-> sync]
      OBVIOUS
    <3>2. Sound(c)
      BY <1>1, <3>1 DEF Sound, LiveIsReplay
    <3> QED BY <2>1, <3>1, <3>2 DEF SavedWell
  <2> QED BY <1>3, <1>3a, <2>2, <2>3, <2>4 DEF IndInv
<1>6. CASE Tick
  <2>1. UNCHANGED <<sync, saved>> /\ clock' = clock + 1
    BY <1>6 DEF Tick
  <2>2. TypeOK'
    BY <1>1, <1>2, <2>1 DEF TypeOK
  <2>3. StatesOf(sync, live)' /\ SavedWell'
    BY <1>1, <1>2, <2>1, SavedKept DEF StatesOf, Open, Applied
  <2> QED BY <1>3, <1>3a, <2>2, <2>3 DEF IndInv
<1> QED BY <1>4, <1>5, <1>6

\* What a stopped process saved is as good as what it had.
LEMMA LoadStep ==
  ASSUME SavedBeforeStop, IndInv, Load, UNCHANGED blocked
  PROVE  IndInv'
<1>1. TypeOK /\ SavedWell /\ HeldBack
  BY DEF IndInv
<1>2. base = saved.base
  BY DEF Load, SavedBeforeStop
<1>3. /\ journal' = saved.journal /\ live' = saved.live /\ sync' = saved.sync
      /\ gen' = 1 /\ UNCHANGED <<base, clock, saved, blocked>>
  BY DEF Load
<1>4. TypeOK'
  BY <1>1, <1>3 DEF TypeOK
<1>5. LiveIsReplay'
  <2>1. PICK c : c = saved
    OBVIOUS
  <2>2. c.live = c.base \o EventsOf(c.journal)
    BY <1>1, <2>1 DEF SavedWell, Sound
  <2>3. base' = c.base /\ live' = c.live /\ journal' = c.journal
    BY <1>2, <1>3, <2>1
  <2> QED BY <2>2, <2>3 DEF LiveIsReplay
<1>6. ShareOrder(live)' /\ StatesOf(sync, live)'
  <2>1. PICK c : c = saved
    OBVIOUS
  <2>2. ShareOrder(c.live) /\ StatesOf(c.sync, c.live)
    BY <1>1, <2>1 DEF SavedWell, Sound
  <2>3. live' = c.live /\ sync' = c.sync
    BY <1>3, <2>1
  <2> QED BY <2>2, <2>3
<1>7. SavedWell'
  BY <1>1, <1>3, SavedKept
<1>8. HeldBack'
  <2>1. Len(journal') \in Nat
    BY <1>4 DEF TypeOK
  <2> QED BY <1>1, <1>3, <2>1 DEF HeldBack
<1> QED BY <1>4, <1>5, <1>6, <1>7, <1>8 DEF IndInv

\* A replica that imports the node builds the same fields, and the states of
\* the relationships its journal opens.
LEMMA ImportStep ==
  ASSUME IndInv, Import, UNCHANGED blocked
  PROVE  IndInv'
<1>1. /\ TypeOK /\ LiveIsReplay /\ ShareOrder(live) /\ HeldBack
  BY DEF IndInv
<1>2. blocked /\ base = << >>
  BY <1>1 DEF Import, HeldBack
<1>3. PICK j \in Seq(EventRecord) : j = journal
  BY <1>1 DEF TypeOK
<1>4. PICK m \in Seq(Event) : m = EventsOf(j)
  BY EventsOfType
<1>5. << >> \o m = m
  BY ConcatEmptySeq
<1>6. live = m /\ live' = m
  BY <1>1, <1>2, <1>3, <1>4, <1>5 DEF LiveIsReplay, Import
<1>7. PICK st \in SyncState : st = [s \in ShareId |-> "Absent"]
  BY DEF SyncState
<1>8. PICK u \in SyncState : u = SyncAfter(st, j)
  BY SyncAfterCases
<1>9. /\ sync' = u /\ saved' = [base |-> base, journal |-> j, live |-> m, sync |-> u]
      /\ gen' = 1 + Len(j)
      /\ UNCHANGED <<base, journal, clock, blocked>>
  BY <1>3, <1>6, <1>7, <1>8 DEF Import
<1>10. StatesOf(u, m)
  <2> SUFFICES ASSUME NEW s \in ShareId
               PROVE  (u[s] # "Absent") <=> s \in Open(m)
    BY DEF StatesOf
  <2>1. PICK A : A = Applied(m)
    OBVIOUS
  <2>2. /\ Removes[s] \in A => u[s] = "Absent"
        /\ Removes[s] \notin A /\ Adds[s] \in A /\ st[s] = "Absent"
             => u[s] = "NotStarted"
        /\ Removes[s] \notin A /\ ~ (Adds[s] \in A /\ st[s] = "Absent")
             => u[s] = st[s]
    <3>1. A = Applied(EventsOf(j))
      BY <1>4, <2>1
    <3> QED BY <1>8, <3>1, SyncAfterCases
  <2>3. st[s] = "Absent"
    BY <1>7
  <2> QED BY <2>1, <2>2, <2>3 DEF Open
<1>11. TypeOK'
  BY <1>1, <1>6, <1>9 DEF TypeOK
<1>12. LiveIsReplay' /\ ShareOrder(live)'
  <2>1. live' = live
    BY <1>6
  <2>2. LiveIsReplay'
    BY <1>1, <1>9, <2>1 DEF LiveIsReplay, EventsOf
  <2>3. ShareOrder(live)'
    BY <1>1, <2>1 DEF ShareOrder
  <2> QED BY <2>2, <2>3
<1>13. StatesOf(sync, live)'
  BY <1>6, <1>9, <1>10 DEF StatesOf, Open, Applied
<1>14. SavedWell'
  <2>1. PICK c : c = [base |-> << >>, journal |-> j, live |-> m, sync |-> u]
    OBVIOUS
  <2>2. ShareOrder(m)
    BY <1>1, <1>6
  <2>3. Sound(c)
    BY <1>4, <1>5, <1>10, <2>1, <2>2 DEF Sound
  <2> QED BY <1>2, <1>9, <2>1, <2>3 DEF SavedWell
<1>15. HeldBack'
  <2>1. Len(j) \in Nat /\ journal' = j
    BY <1>3, <1>9
  <2> QED BY <1>2, <1>9, <2>1 DEF HeldBack
<1> QED BY <1>11, <1>12, <1>13, <1>14, <1>15 DEF IndInv


-----------------------------------------------------------------------------
(* The results.                                                            *)

\* The invariant holds of a new node.
LEMMA InitInv == Init => IndInv
<1> SUFFICES ASSUME Init PROVE IndInv
  OBVIOUS
<1>1. /\ base = << >> /\ journal = << >> /\ live = << >> /\ clock = 1
      /\ sync = [s \in ShareId |-> "Absent"] /\ blocked \in BOOLEAN
      /\ gen = 1
      /\ saved = [base |-> << >>, journal |-> << >>, live |-> << >>, sync |-> sync]
  BY DEF Init, Checkpoint
<1>2. TypeOK
  BY <1>1 DEF TypeOK, SyncState
<1>3. EventsOf(<< >>) = << >>
  <2>0. << >> \in Seq(EventRecord) /\ Len(<< >>) = 0
    OBVIOUS
  <2>1. PICK r \in Seq(EventRecord) : r = << >> /\ Len(r) = 0
    BY <2>0
  <2>2. EventsOf(r) \in Seq(Event) /\ Len(EventsOf(r)) = 0
    BY <2>1, EventsOfType
  <2> QED BY <2>1, <2>2, EmptySeq
<1>4. LiveIsReplay
  BY <1>1, <1>3 DEF LiveIsReplay
<1>5. ShareOrder(<< >>) /\ Applied(<< >>) = {}
  <2>1. DOMAIN << >> = {}
    OBVIOUS
  <2> QED BY <2>1 DEF ShareOrder, Applied
<1>6. StatesOf(sync, << >>)
  BY <1>1, <1>5 DEF StatesOf, Open
<1>8. SavedWell
  BY <1>1, <1>4, <1>5, <1>6 DEF SavedWell, Sound, LiveIsReplay
<1>9. HeldBack
  BY <1>1 DEF HeldBack
<1> QED BY <1>1, <1>2, <1>4, <1>5, <1>6, <1>8, <1>9 DEF IndInv

\* Every step keeps the invariant.
LEMMA NextInv == ASSUME SavedBeforeStop PROVE IndInv /\ [Next]_vars => IndInv'
<1> SUFFICES ASSUME IndInv, [Next]_vars PROVE IndInv'
  OBVIOUS
<1>1. CASE UNCHANGED vars
  <2>1. /\ TypeOK /\ LiveIsReplay /\ ShareOrder(live) /\ StatesOf(sync, live)
        /\ SavedWell /\ HeldBack
    BY DEF IndInv
  <2>2. UNCHANGED <<base, journal, live, gen, sync, blocked, clock, saved>>
    BY <1>1 DEF vars
  <2>3. TypeOK'
    BY <2>1, <2>2 DEF TypeOK
  <2>4. LiveIsReplay'
    BY <2>1, <2>2 DEF LiveIsReplay, EventsOf
  <2>5. ShareOrder(live)'
    BY <2>1, <2>2 DEF ShareOrder
  <2>6. StatesOf(sync, live)'
    BY <2>1, <2>2 DEF StatesOf, Open, Applied
  <2>7. SavedWell'
    BY <2>1, <2>2, SavedKept
  <2>8. HeldBack'
    BY <2>1, <2>2 DEF HeldBack
  <2> QED BY <2>3, <2>4, <2>5, <2>6, <2>7, <2>8 DEF IndInv
<1>2. CASE Next
  <2>1. UNCHANGED blocked
    BY <1>2 DEF Next
  <2>2. ASSUME NEW e \in Event, Commit(e) PROVE IndInv'
    BY <2>1, <2>2, CommitStep
  <2>3. ASSUME NEW e \in Event, CommitShared(e) PROVE IndInv'
    BY <2>1, <2>3, CommitSharedStep
  <2>4. CASE CompactJournal
    BY <2>1, <2>4, CompactStep
  <2>5. CASE (\E s \in ShareId : CompleteInitialSync(s)) \/ Save \/ Tick
    BY <2>1, <2>5, LocalStep
  <2>6. CASE Load
    BY <2>1, <2>6, LoadStep
  <2>7. CASE Import
    BY <2>1, <2>7, ImportStep
  <2> QED BY <1>2, <2>2, <2>3, <2>4, <2>5, <2>6, <2>7 DEF Next
<1> QED BY <1>1, <1>2

\* The invariant always holds.
LEMMA InvHolds == ASSUME SavedBeforeStop PROVE Spec => []IndInv
<1>1. IndInv /\ [Next]_vars => IndInv'
  BY NextInv
<1> QED BY <1>1, InitInv, PTL DEF Spec

\* Whatever was inserted before records already applied, folded, loaded or
\* imported, the fields are what a replay from the base gives, provided no
\* process stops between a compaction and its Save.
THEOREM NodeLiveIsReplay == ASSUME SavedBeforeStop PROVE Spec => []LiveIsReplay
<1>1. IndInv => LiveIsReplay
  BY DEF IndInv
<1>2. Spec => []IndInv
  BY InvHolds
<1> QED BY <1>1, <1>2, PTL

\* CompactJournal never changes the fields, over any restarts but one between
\* a compaction and its Save.
THEOREM NodeCompactionIsHousekeeping ==
  ASSUME SavedBeforeStop PROVE Spec => CompactionIsHousekeeping
<1>1. IndInv /\ [Next]_vars => [CompactJournal => live' = live]_vars
  <2> SUFFICES ASSUME IndInv, [Next]_vars, CompactJournal, vars' # vars
               PROVE  live' = live
    OBVIOUS
  <2>1. UNCHANGED blocked
    BY DEF Next
  <2> QED BY <2>1, CompactStep
<1>2. Spec => []IndInv
  BY InvHolds
<1> QED BY <1>1, <1>2, PTL DEF Spec, CompactionIsHousekeeping

\* An event that is inserted always raises the generation, though a rebuild
\* starts to count again.
THEOREM NodeGenerationTells ==
  ASSUME SavedBeforeStop PROVE Spec => GenerationTells
<1>1. IndInv /\ [Next]_vars =>
        [(\E e \in Event : Commit(e) \/ CommitShared(e)) => gen' > gen]_vars
  <2> SUFFICES ASSUME IndInv, [Next]_vars, vars' # vars,
                      \E e \in Event : Commit(e) \/ CommitShared(e)
               PROVE  gen' > gen
    OBVIOUS
  <2>1. UNCHANGED blocked
    BY DEF Next
  <2>2. ASSUME NEW e \in Event, Commit(e) PROVE gen' > gen
    BY <2>1, <2>2, CommitStep
  <2>3. ASSUME NEW e \in Event, CommitShared(e) PROVE gen' > gen
    BY <2>1, <2>3, CommitSharedStep
  <2> QED BY <2>2, <2>3
<1>2. Spec => []IndInv
  BY InvHolds
<1> QED BY <1>1, <1>2, PTL DEF Spec, GenerationTells

\* Inserting a late event or folding the journal never sets the progress of
\* a relationship back, over any restarts but one between a compaction and its
\* Save.
THEOREM NodeProgressSurvives ==
  ASSUME SavedBeforeStop PROVE Spec => ProgressSurvives
<1>1. IndInv /\ [Next]_vars =>
        [(\E e \in SharedEvent : CommitShared(e)) \/ CompactJournal
           => sync' = sync]_vars
  <2> SUFFICES ASSUME IndInv, [Next]_vars, vars' # vars,
                      (\E e \in SharedEvent : CommitShared(e)) \/ CompactJournal
               PROVE  sync' = sync
    OBVIOUS
  <2>1. UNCHANGED blocked
    BY DEF Next
  <2>2. CASE CompactJournal
    BY <2>1, <2>2, CompactStep
  <2>3. ASSUME NEW e \in SharedEvent, CommitShared(e) PROVE sync' = sync
    <3>1. e \in Event
      BY EventAssumption
    <3> QED BY <2>1, <2>3, <3>1, CommitSharedStep
  <2> QED BY <2>2, <2>3
<1>2. Spec => []IndInv
  BY InvHolds
<1> QED BY <1>1, <1>2, PTL DEF Spec, ProgressSurvives
=============================================================================
