---------------------------- MODULE NodeJournal ----------------------------
(***************************************************************************)
(* One event-sourced Node (node.h): the base snapshot, the journal ordered *)
(* by timestamp, the materialised fields and the generation counter, and   *)
(* the local sync state of a SharedNode's relationships (shared_node.cpp)  *)
(* that a rebuild has to carry over.                                       *)
(*                                                                         *)
(* The materialised fields are modelled by what determines them: the       *)
(* sequence of the events applied since the node was created.  The base is *)
(* written to storage whenever it is captured; the rest only by Save.      *)
(***************************************************************************)
EXTENDS Integers, Sequences, SequencesExt

CONSTANTS
  Event,       \* event objects
  SharedEvent, \* those with an identity of their own (CommitShared, InsertShared)
  Stamp,       \* [SharedEvent -> Nat]: their order timestamps
  ShareId,     \* relationships
  Adds,        \* [ShareId -> Event]: the AddShareEvent of a relationship
  Removes,     \* [ShareId -> Event]: the RemoveShareEvent of a relationship
  Needs,       \* <<e, d>>: e can be applied only after d (CanApply of e)
  MaxTime,     \* bound on the clock
  MaxEvents,   \* retention by count, or Unlimited
  MaxAge,      \* retention by age, or Unlimited
  UnsavedFolds, \* whether a process may stop between a compaction and its Save
  Unlimited, FullyMaterialized

ASSUME EventAssumption ==
  /\ SharedEvent \subseteq Event
  /\ Stamp \in [SharedEvent -> Nat \ {0}]
  /\ Adds \in [ShareId -> Event \ SharedEvent]
  /\ Removes \in [ShareId -> Event \ SharedEvent]
  /\ \A s, t \in ShareId : Adds[s] # Removes[t]
  /\ \A s, t \in ShareId :
       s # t => Adds[s] # Adds[t] /\ Removes[s] # Removes[t]
  /\ Needs \subseteq Event \X Event

ASSUME BoundAssumption ==
  /\ MaxTime \in Nat \ {0}
  /\ MaxEvents \in Nat \cup {Unlimited}
  /\ MaxAge \in Nat \cup {Unlimited}
  /\ UnsavedFolds \in BOOLEAN
  /\ Unlimited \notin Nat /\ FullyMaterialized \notin Nat

VARIABLES
  base,     \* what the base snapshot holds: the events folded into it
  journal,  \* EventRecords in journal order
  live,     \* the materialised fields: the events applied to get them
  applied,  \* applied_journal_size_
  gen,      \* generation_
  sync,     \* link_sync_states: the phase of a relationship, or "Absent"
  blocked,  \* SetJournalCompactionBlocked, which the owner of a replicated node does
  clock,    \* SystemUtcMicros
  saved     \* the journal, fields and sync states of the last Save, and the
            \* base it found

vars == <<base, journal, live, applied, gen, sync, blocked, clock, saved>>

EventRecord == [event : Event, timestamp : Nat, retained_since : Nat]

-----------------------------------------------------------------------------
(* Applying events.                                                        *)

Applied(log) == {log[i] : i \in DOMAIN log}
EventsOf(records) == [i \in DOMAIN records |-> records[i].event]

\* The relationships that are open after the events of a log.
Open(log) == {s \in ShareId : /\ Adds[s] \in Applied(log)
                              /\ Removes[s] \notin Applied(log)}

\* CanApplyTo, and the assertions of Apply(AddShareEvent) and
\* Apply(RemoveShareEvent).
CanApplyTo(log, e) ==
  /\ \A d \in Event : <<e, d>> \in Needs => d \in Applied(log)
  /\ \A s \in ShareId : /\ e = Adds[s] => Adds[s] \notin Applied(log)
                        /\ e = Removes[s] => s \in Open(log)

\* TryReplayJournal: every record in turn.
CanReplay(from, records) ==
  \A i \in DOMAIN records :
    CanApplyTo(from \o EventsOf(SubSeq(records, 1, i - 1)), records[i].event)

\* Variant: adding a relationship always starts its sync state afresh.
SyncAfter_Resets(states, records) ==
  LET events == Applied(EventsOf(records))
  IN [s \in ShareId |-> CASE Removes[s] \in events -> "Absent"
                          [] Removes[s] \notin events /\ Adds[s] \in events
                               -> "NotStarted"
                          [] OTHER -> states[s]]

\* What applying the records makes of the sync states: AddShare creates the
\* one that is missing, RemoveShare drops it.
SyncAfter(states, records) ==
  LET events == Applied(EventsOf(records))
  IN [s \in ShareId |-> CASE Removes[s] \in events -> "Absent"
                          [] /\ Removes[s] \notin events
                             /\ Adds[s] \in events
                             /\ states[s] = "Absent" -> "NotStarted"
                          [] OTHER -> states[s]]

-----------------------------------------------------------------------------
(* TryInsertEvent.                                                         *)

\* lower_bound: before the records that carry the same timestamp.
Position(timestamp) ==
  LET before == {i \in DOMAIN journal : journal[i].timestamp < timestamp}
  IN IF before = {} THEN 1
     ELSE 1 + (CHOOSE i \in before : \A j \in before : j <= i)

\* Variant: a rebuild counts no generations, as a compaction's does not.
Materialize_Quietly(inserted, record) ==
  /\ applied' = Len(inserted)
  /\ \/ /\ Position(record.timestamp) = Len(journal) + 1
        /\ CanApplyTo(live, record.event)
        /\ live' = Append(live, record.event)
        /\ gen' = gen + 1
        /\ sync' = SyncAfter(sync, <<record>>)
     \/ /\ Position(record.timestamp) <= Len(journal)
        /\ CanReplay(base, inserted)
        /\ live' = base \o EventsOf(inserted)
        /\ gen' = 1
        /\ sync' = SyncAfter(sync, inserted)

\* Variant: the event is applied to the fields where they stand.
Materialize_InPlace(inserted, record) ==
  /\ live' = Append(live, record.event)
  /\ gen' = gen + 1
  /\ sync' = SyncAfter(sync, <<record>>)
  /\ applied' = Len(inserted)

\* A record at the end is applied to the fields as they are.  Any other
\* place means a rebuild: the fields are loaded from the base, the sync
\* states are stashed and restored, and the whole journal is replayed, each
\* event counting one generation from one.
Materialize(inserted, record) ==
  /\ applied' = Len(inserted)
  /\ \/ /\ Position(record.timestamp) = Len(journal) + 1
        /\ CanApplyTo(live, record.event)
        /\ live' = Append(live, record.event)
        /\ gen' = gen + 1
        /\ sync' = SyncAfter(sync, <<record>>)
     \/ /\ Position(record.timestamp) <= Len(journal)
        /\ CanReplay(base, inserted)
        /\ live' = base \o EventsOf(inserted)
        /\ gen' = 1 + Len(inserted)
        /\ sync' = SyncAfter(sync, inserted)

TryInsertEvent(record) ==
  LET inserted == InsertAt(journal, Position(record.timestamp), record)
  IN /\ journal' = inserted
     /\ Materialize(inserted, record)

\* Commit: a local event gets a timestamp after the last record.
Commit(e) ==
  /\ e \notin SharedEvent /\ e \notin Applied(live)
  /\ CanApplyTo(live, e)
  /\ LET last == IF journal = << >> THEN 0 ELSE journal[Len(journal)].timestamp
     IN TryInsertEvent([event |-> e, retained_since |-> clock,
                        timestamp |-> IF clock <= last THEN last + 1
                                                       ELSE clock])
  /\ UNCHANGED <<base, clock, saved>>

\* CommitShared and InsertShared: a shared event keeps its timestamp and goes
\* where that puts it; an identity that is in the journal is refused.  A
\* remote event has passed the same replay on a scratch copy.
CommitShared(e) ==
  /\ blocked /\ e \in SharedEvent /\ e \notin Applied(EventsOf(journal))
  /\ TryInsertEvent([event |-> e, retained_since |-> clock,
                     timestamp |-> Stamp[e]])
  /\ UNCHANGED <<base, clock, saved>>

-----------------------------------------------------------------------------
(* CompactJournal.                                                         *)

Retained(i) ==
  \/ MaxEvents = Unlimited
  \/ Len(journal) - (i - 1) <= MaxEvents
  \/ /\ MaxAge # Unlimited
     /\ \/ journal[i].retained_since > clock
        \/ clock - journal[i].retained_since <= MaxAge

CollapsiblePrefixCount ==
  IF blocked THEN 0
  ELSE LET kept == {i \in DOMAIN journal : Retained(i)}
       IN IF kept = {} THEN Len(journal)
          ELSE (CHOOSE i \in kept : \A j \in kept : i <= j) - 1

\* Variant: the retained records are replayed on the fields as they are.
CompactJournal_WithoutRebuild ==
  LET retained == SubSeq(journal, CollapsiblePrefixCount + 1, Len(journal))
  IN /\ CollapsiblePrefixCount > 0
     /\ base' = live
     /\ live' = live \o EventsOf(retained)
     /\ journal' = retained
     /\ applied' = FullyMaterialized
     /\ UNCHANGED <<gen, sync, clock, saved>>

\* With nothing retained the fields become the base.  Otherwise the node is
\* rebuilt with the prefix alone, captured, and the rest replayed.
CompactJournal ==
  LET prefix   == SubSeq(journal, 1, CollapsiblePrefixCount)
      retained == SubSeq(journal, CollapsiblePrefixCount + 1, Len(journal))
      folded   == base \o EventsOf(prefix)
  IN /\ CollapsiblePrefixCount > 0
     /\ \/ /\ retained = << >>
           /\ base' = live
           /\ UNCHANGED <<live, sync>>
        \/ /\ retained # << >>
           /\ base' = folded
           /\ live' = folded \o EventsOf(retained)
           /\ sync' = SyncAfter(SyncAfter(sync, prefix), retained)
     /\ journal' = retained
     /\ applied' = FullyMaterialized
     /\ UNCHANGED <<gen, clock, saved>>

-----------------------------------------------------------------------------
(* Sync progress, persistence, import, time.                               *)

\* LinkSyncState moves on for its own reasons.
CompleteInitialSync(s) ==
  /\ sync[s] = "NotStarted"
  /\ sync' = [sync EXCEPT ![s] = "Complete"]
  /\ UNCHANGED <<base, journal, live, applied, gen, clock, saved>>

Checkpoint == [base |-> base, journal |-> journal, live |-> live, sync |-> sync]

Save ==
  /\ saved' = Checkpoint
  /\ UNCHANGED <<base, journal, live, applied, gen, sync, clock>>

\* The process stops and another loads the node: fields and journal of the
\* last Save, the base as it was last captured.  What was committed since the
\* Save is lost, for every node; with UnsavedFolds the stop may also fall
\* between the capture of a base and the Save after it.
Load ==
  /\ UnsavedFolds \/ base = saved.base
  /\ journal' = saved.journal
  /\ live' = saved.live
  /\ sync' = saved.sync
  /\ applied' = FullyMaterialized
  /\ gen' = 1
  /\ UNCHANGED <<base, clock, saved>>

\* Another replica imports the node: base and journal travel, the sync states
\* do not, and ReplayFromBase builds the fields and the states.  The owner of
\* a shared node holds compaction back (chat_session.cpp).
Import ==
  /\ blocked
  /\ live' = base \o EventsOf(journal)
  /\ sync' = SyncAfter([s \in ShareId |-> "Absent"], journal)
  /\ applied' = Len(journal)
  /\ gen' = 1 + Len(journal)
  /\ saved' = [base |-> base, journal |-> journal, live |-> live', sync |-> sync']
  /\ UNCHANGED <<base, journal, clock>>

Tick ==
  /\ clock < MaxTime
  /\ clock' = clock + 1
  /\ UNCHANGED <<base, journal, live, applied, gen, sync, saved>>

Init ==
  /\ base = << >> /\ journal = << >> /\ live = << >>
  /\ applied = FullyMaterialized
  /\ gen = 1
  /\ sync = [s \in ShareId |-> "Absent"]
  /\ clock = 1 /\ blocked \in BOOLEAN
  /\ saved = Checkpoint

Next ==
  /\ \/ \E e \in Event : Commit(e) \/ CommitShared(e)
     \/ CompactJournal
     \/ \E s \in ShareId : CompleteInitialSync(s)
     \/ Save \/ Load \/ Tick
     \/ Import
  /\ UNCHANGED blocked

Spec == Init /\ [][Next]_vars

-----------------------------------------------------------------------------

\* "Live fields already equal old base + the whole journal" (CompactJournal):
\* whatever was inserted before records already applied, folded or loaded,
\* the fields are the ones a replay from the base gives.
LiveIsReplay == live = base \o EventsOf(journal)

\* The local progress of a relationship survives every rebuild
\* (StashLocalPersistentAcrossRebuild): inserting a late event or folding the
\* journal never sets it back.
ProgressSurvives ==
  [][(\E e \in SharedEvent : CommitShared(e)) \/ CompactJournal
       => sync' = sync]_vars

\* "Housekeeping only: [...] materialized fields are unchanged" (CompactJournal
\* in node.h): the rebuild from the prefix gives the fields the node had, after
\* any restarts.
CompactionIsHousekeeping == [][CompactJournal => live' = live]_vars

\* A view tells new fields by a number that is higher than the one it drew
\* (Generation in node.h).  A rebuild restarts the count at one, and every
\* replayed event counts again: an insertion, wherever it lands, always leaves
\* the number higher than it was.
GenerationTells ==
  [][(\E e \in Event : Commit(e) \/ CommitShared(e)) => gen' > gen]_vars
=============================================================================
