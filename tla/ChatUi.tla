-------------------------------- MODULE ChatUi --------------------------------
(* The window of the chat demo and the model thread of its ChatSession: what *)
(* the user types, sends and selects reaches the model through a queue of    *)
(* commands, and comes back in publications of the workspace that are paired *)
(* with the edit revisions and the selection they answer.  The process may   *)
(* die at any point and start again from the disk.                           *)
(*                                                                           *)
(* A handler of the window is one step, and so is a command of the model     *)
(* thread; the publication slot is the one PublicationChannel describes.     *)
(* Every chat is bound to a room and the endpoint is registered.             *)
(* displayed_entry_id is the active entry whenever a handler starts.         *)
EXTENDS Naturals, Sequences, FiniteSets

CONSTANTS Entries,     \* the chats of the workspace
          Platforms,   \* a subset of {"linux", "windows"}
          None,
          Empty,       \* the empty draft
          Big,         \* a draft over kMaxDraftTextBytes
          MaxInputs    \* bound: edits, clicks, clients that join, and faults

ASSUME PlatformAssumption == Platforms \subseteq {"linux", "windows"}

ASSUME EntriesAssumption == Entries # {} /\ None \notin Entries

VARIABLES
  platform,
  gui,              \* the GUI thread: "idle", "consuming" or "closed"
  active,           \* active_entry_id
  box,              \* the draft control: a text is named after the chat
                    \* whose draft it was typed into
  composing,        \* an IME composition is open in it
  view,             \* EntryViewState of each entry
  pendingSelection, \* pending_user_selection
  pendingSend,      \* pending_send_revision
  sendError,        \* local_send_error: "Message not sent"
  sendEnabled,      \* the Send button is enabled
  mirror,           \* the GUI's copy of the workspace, None before the first
  switched,         \* chat_switched of ConsumeUiUpdates
  closing,
  notified,         \* a notification of the session is posted to the window
  queue,            \* work_queue
  batch,            \* local_work of the model loop
  pc,               \* where the model thread is
  model,            \* ChatWorkspace in the model domain
  disk,             \* ChatWorkspace as it was saved
  dirty,            \* publication_dirty
  processed,        \* processed_edit_revisions
  ack,              \* pending_select_ack
  slot,             \* the unread publication with its metadata, or None
  stopRequested,
  last,             \* the text the user left in each draft
  inputs            \* how many inputs there were

window == <<active, box, composing, view, pendingSelection, pendingSend,
            sendError, sendEnabled, mirror, switched>>
session == <<batch, pc, model, disk, dirty, processed, ack>>
bookkeeping == <<platform, last, inputs>>
vars == <<gui, window, closing, notified, queue, session, slot, stopRequested,
          bookkeeping>>

Running == {"loop", "work", "commit", "clear"}
Finished == pc \in {"finished", "failed"}

Workspace == [chats: SUBSET Entries, selected: Entries,
              draft: [Entries -> Entries \cup {Empty}],
              next: Nat \ {0}, messages: SUBSET Nat]

\* What the window is sent of a workspace: the messages are left out.
Shown(w) == [chats |-> w.chats, selected |-> w.selected, draft |-> w.draft]

Publication(w, revisions, selectAck) ==
  [workspace |-> Shown(w), revisions |-> revisions, ack |-> selectAck]

ShownWorkspace == [chats: SUBSET Entries, selected: Entries,
                   draft: [Entries -> Entries \cup {Empty}]]

PublicationType ==
  [workspace: ShownWorkspace, revisions: [Entries -> Nat],
   ack: Entries \cup {None}]

ASSUME NoneAssumption == None \notin ShownWorkspace /\ None \notin PublicationType

NoView == [local |-> Empty, revision |-> 0, published |-> 0]

First == CHOOSE e \in Entries : TRUE

\* Chats and a draft may be left from an earlier run.  The workspace is
\* published before the endpoint is registered.
Init ==
  /\ platform \in Platforms
  /\ gui = "idle" /\ active = None /\ box = Empty /\ composing = FALSE
  /\ view = [e \in Entries |-> NoView]
  /\ pendingSelection = None /\ pendingSend = 0 /\ sendError = FALSE
  /\ sendEnabled = FALSE
  /\ mirror = None /\ switched = FALSE /\ closing = FALSE /\ notified = TRUE
  /\ queue = <<>> /\ batch = <<>> /\ pc = "loop"
  /\ \E text \in {Empty, First}, chats \in {{First}, Entries} :
       model = [chats |-> chats, selected |-> First,
                draft |-> [e \in Entries |-> IF e = First THEN text ELSE Empty],
                next |-> 1, messages |-> {}]
  /\ disk = model /\ dirty = FALSE
  /\ processed = [e \in Entries |-> 0] /\ ack = None
  /\ slot = Publication(model, processed, None) /\ stopRequested = FALSE
  /\ last = model.draft
  /\ inputs = 0

-----------------------------------------------------------------------------
(* The workspace and its events: a command commits events, and each commit   *)
(* applies the event to the workspace.                                       *)

ChatEntryAddedEvent(e) == [type |-> "entryAdded", entry |-> e]
ChatSelectedEvent(e) == [type |-> "selected", entry |-> e]
DraftChangedEvent(e, t) == [type |-> "draft", entry |-> e, text |-> t]
MessageSequenceReservedEvent(n) == [type |-> "reserved", sequence |-> n]
MessageAddedEvent(n) == [type |-> "message", sequence |-> n]

\* Only the selection and the reservation can be refused; the text of a
\* message is never empty here.
CanApply(w, event) ==
  /\ event.type = "selected" => event.entry \in w.chats
  /\ event.type = "reserved" => event.sequence = w.next
  /\ event.type = "message" => event.sequence # 0

Apply(w, event) ==
  CASE event.type = "entryAdded" -> [w EXCEPT !.chats = @ \cup {event.entry}]
    [] event.type = "selected" -> [w EXCEPT !.selected = event.entry]
    [] event.type = "draft" -> [w EXCEPT !.draft[event.entry] = event.text]
    [] event.type = "reserved" -> [w EXCEPT !.next = event.sequence + 1]
    [] event.type = "message" ->
         [w EXCEPT !.messages = @ \cup {event.sequence}]

Commit(w, event) == IF CanApply(w, event) THEN Apply(w, event) ELSE w

SetDraft(w, e, t) ==
  IF w.draft[e] = t THEN w ELSE Commit(w, DraftChangedEvent(e, t))

SelectEntry(w, e) ==
  IF e \notin w.chats \/ w.selected = e THEN w
  ELSE Commit(w, ChatSelectedEvent(e))

\* The chat of a peer is opened once, and selected whenever the peer joins.
OpenOrSelectChat(w, e) ==
  Commit(IF e \in w.chats THEN w ELSE Commit(w, ChatEntryAddedEvent(e)),
         ChatSelectedEvent(e))

-----------------------------------------------------------------------------
(* Commands of the window.                                                   *)

\* User commands are refused once a stop is requested or the worker failed.
AcceptingUser == ~stopRequested /\ pc # "failed"

EnqueueUserModelWork(commands) ==
  queue' = IF AcceptingUser THEN queue \o commands ELSE queue

Edit(e, t, revision) ==
  [op |-> "edit", entry |-> e, text |-> t, revision |-> revision]
SendDraft(e, t, revision) ==
  [op |-> "send", entry |-> e, text |-> t, revision |-> revision]
SelectChat(e) == [op |-> "select", entry |-> e]
SaveScroll(e) == [op |-> "scroll", entry |-> e]

\* A step of the user, of the network or of the environment.
Input == inputs < MaxInputs /\ inputs' = inputs + 1

Usable == gui = "idle" /\ ~closing /\ active # None

\* The draft of entry e after UpdateDraftFromModel, and what the control shows.
\* A model draft only replaces what the user wrote once every edit of the entry
\* was published; on a switch the window's own text comes first.
UpdateDraftFromModel(v, b, e, m, chatSwitched) ==
  LET mayReplace == chatSwitched \/ v[e].revision <= v[e].published
      shown == IF chatSwitched /\ v[e].local # Empty
               THEN v[e].local ELSE m.draft[e]
  IN IF mayReplace
     THEN [view |-> [v EXCEPT ![e].local = shown], box |-> shown]
     ELSE [view |-> v, box |-> b]

\* Windows leaves the control alone while a composition is open.
WinUpdateDraftFromModel(v, b, e, m, chatSwitched) ==
  IF composing
  THEN [view |-> v, box |-> b]
  ELSE UpdateDraftFromModel(v, b, e, m, chatSwitched)

ShowDraft(v, e, m, chatSwitched) ==
  LET d == IF platform = "windows"
           THEN WinUpdateDraftFromModel(v, box, e, m, chatSwitched)
           ELSE UpdateDraftFromModel(v, box, e, m, chatSwitched)
  IN view' = d.view /\ box' = d.box

\* Linux enables Send for any bound chat; Windows also asks for a text and a
\* session that still runs, and looks again whenever the text changes.
LinuxSendEnabled(a) == a # None
UpdateSendAvailability(a, text) ==
  /\ ~closing /\ pc # "failed"
  /\ a # None /\ text # Empty

\* OnDraftChanged: every change of the text is a revision and a command.
OnDraftChanged(t) ==
  /\ Input
  /\ sendEnabled' = IF platform = "windows"
                    THEN UpdateSendAvailability(active, t) ELSE sendEnabled
  /\ box' = t
  /\ view' = [view EXCEPT ![active].local = t, ![active].revision = @ + 1]
  /\ EnqueueUserModelWork(<<Edit(active, t, view'[active].revision)>>)
  /\ last' = IF AcceptingUser /\ t # Big THEN [last EXCEPT ![active] = t]
             ELSE last

Type(t) ==
  /\ Usable /\ ~composing /\ t # box
  /\ OnDraftChanged(t)
  /\ UNCHANGED <<gui, active, composing, pendingSelection, pendingSend,
                 sendError, mirror, switched, closing, notified, session, slot,
                 stopRequested, platform>>

\* A composition of the input method is opened in the control.
ImeStart ==
  /\ platform = "windows" /\ Usable /\ ~composing
  /\ Input
  /\ composing' = TRUE
  /\ UNCHANGED <<gui, active, box, view, pendingSelection, pendingSend,
                 sendError, sendEnabled, mirror, switched, closing, notified,
                 queue, session, slot, stopRequested, platform, last>>

\* The composition is given up, or its text is added to the control.
ImeEnd ==
  /\ composing /\ Usable
  /\ composing' = FALSE
  /\ \/ UNCHANGED <<box, view, sendEnabled, queue, last, inputs>>
     \/ OnDraftChanged(IF box = Empty THEN active ELSE box)
  /\ UNCHANGED <<gui, active, pendingSelection, pendingSend, sendError, mirror,
                 switched, closing, notified, session, slot, stopRequested,
                 platform>>

OnSendDraftClicked ==
  /\ Usable /\ ~composing /\ sendEnabled /\ box # Empty
  /\ Input
  /\ view' = [view EXCEPT ![active].revision = @ + 1]
  /\ pendingSend' = view'[active].revision
  /\ sendError' = FALSE
  /\ EnqueueUserModelWork(<<SendDraft(active, box, pendingSend')>>)
  /\ last' = IF AcceptingUser /\ box # Big THEN [last EXCEPT ![active] = Empty]
             ELSE last
  /\ UNCHANGED <<gui, active, box, composing, pendingSelection, sendEnabled,
                 mirror, switched, closing, notified, session, slot,
                 stopRequested, platform>>

SaveCurrentDraft == [view EXCEPT ![active].local = box]

\* Variant: the new chat's draft is shown when the selection is published.
OnChatSelectionChanged_Later(e) ==
  /\ Usable /\ ~composing /\ e \in mirror.chats \ {active}
  /\ Input
  /\ active' = e /\ pendingSelection' = e
  /\ EnqueueUserModelWork(<<SaveScroll(active), SelectChat(e)>>)
  /\ view' = SaveCurrentDraft
  /\ UNCHANGED <<gui, box, composing, pendingSend, sendError, sendEnabled,
                 mirror, switched, closing, notified, session, slot,
                 stopRequested, platform, last>>

OnChatSelectionChanged(e) ==
  /\ Usable /\ ~composing /\ e \in mirror.chats \ {active}
  /\ Input
  /\ active' = e /\ pendingSelection' = e
  /\ EnqueueUserModelWork(<<SaveScroll(active), SelectChat(e)>>)
  /\ ShowDraft(SaveCurrentDraft, e, mirror, TRUE)
  /\ UNCHANGED <<gui, composing, pendingSend, sendError, sendEnabled, mirror,
                 switched, closing, notified, session, slot, stopRequested,
                 platform, last>>

-----------------------------------------------------------------------------
(* What the window does with the session's notifications.                    *)

StartConsuming ==
  /\ gui = "idle" /\ notified
  /\ gui' = "consuming" /\ notified' = FALSE /\ switched' = FALSE
  /\ UNCHANGED <<active, box, composing, view, pendingSelection, pendingSend,
                 sendError, sendEnabled, mirror, closing, queue, session, slot,
                 stopRequested, bookkeeping>>

\* The publication and its metadata leave the session together.
TryTakeUiUpdate == slot # None /\ slot' = None

\* A new client makes the model select its chat; the window follows unless the
\* user's own selection is still unanswered.
Follows ==
  /\ mirror # None /\ pendingSelection = None
  /\ slot.workspace.selected # active

ApplyPublication ==
  /\ mirror' = slot.workspace
  /\ active' = IF Follows \/ active = None THEN slot.workspace.selected
               ELSE active
  /\ switched' = (switched \/ Follows)

\* The edits of each entry the publication contains.
NoteRevisions ==
  /\ view' = [e \in Entries |->
                IF slot.revisions[e] = 0 THEN view[e]
                ELSE [view[e] EXCEPT !.published = slot.revisions[e]]]
  /\ IF pendingSend # 0 /\ slot.revisions[active'] = pendingSend
     THEN pendingSend' = 0 /\ sendError' = FALSE
     ELSE UNCHANGED <<pendingSend, sendError>>

\* One round of ConsumeUiUpdates.
TakeUiUpdate ==
  /\ gui = "consuming"
  /\ TryTakeUiUpdate
  /\ ApplyPublication
  /\ pendingSelection' = IF slot.ack = pendingSelection THEN None
                         ELSE pendingSelection
  /\ NoteRevisions
  /\ UNCHANGED <<gui, box, composing, sendEnabled, closing, notified, queue,
                 session, stopRequested, bookkeeping>>

\* TryFinishClosing: only a finished worker lets the window go.
AfterClosing(isClosing) ==
  IF isClosing /\ Finished THEN "closed" ELSE "idle"

\* The updates are consumed: the controls are refreshed once.
UpdateUiFromWorkspace ==
  /\ gui = "consuming" /\ slot = None
  /\ sendError' = (sendError \/ pendingSend # 0)
  /\ IF mirror = None THEN UNCHANGED <<view, box>>
     ELSE ShowDraft(view, active, mirror, switched)
  /\ sendEnabled' = IF platform = "windows"
                    THEN UpdateSendAvailability(active, box')
                    ELSE LinuxSendEnabled(active)
  /\ switched' = FALSE
  /\ gui' = AfterClosing(closing)
  /\ UNCHANGED <<active, composing, pendingSelection, pendingSend, mirror,
                 closing, notified, queue, session, slot, stopRequested,
                 bookkeeping>>

\* Variant: closing waits for the next notification.
RequestClose_Waits ==
  /\ gui = "idle" /\ ~closing
  /\ closing' = TRUE /\ stopRequested' = TRUE
  /\ view' = IF active = None THEN view ELSE SaveCurrentDraft
  /\ IF active = None THEN UNCHANGED queue
     ELSE EnqueueUserModelWork(<<SaveScroll(active)>>)
  /\ UNCHANGED <<gui, active, box, composing, pendingSelection, pendingSend,
                 sendError, sendEnabled, mirror, switched, notified, session,
                 slot, bookkeeping>>

\* The last commands are queued before the stop is requested.
RequestClose ==
  /\ gui = "idle" /\ ~closing
  /\ closing' = TRUE
  /\ stopRequested' = TRUE
  /\ view' = IF active = None THEN view ELSE SaveCurrentDraft
  /\ IF active = None THEN UNCHANGED queue
     ELSE EnqueueUserModelWork(<<SaveScroll(active)>>)
  /\ gui' = AfterClosing(TRUE)
  /\ UNCHANGED <<active, box, composing, pendingSelection, pendingSend,
                 sendError, sendEnabled, mirror, switched, notified, session,
                 slot, bookkeeping>>

-----------------------------------------------------------------------------
(* The model thread.                                                         *)

\* The host accepts a client and selects its chat (OpenOrSelectChat), work the
\* endpoint's callbacks queue until the worker refuses internal work.
ClientJoins(e) ==
  /\ pc \in Running \cup {"drain"}
  /\ Input
  /\ queue' = Append(queue, [op |-> "join", entry |-> e])
  /\ UNCHANGED <<gui, window, closing, notified, session, slot, stopRequested,
                 platform, last>>

\* The loop wakes for work, and for a publication it had to hold back.
SwapQueue ==
  /\ pc = "loop"
  /\ queue # <<>> \/ (dirty /\ slot = None /\ ~stopRequested)
  /\ batch' = queue /\ queue' = <<>> /\ pc' = "work"
  /\ UNCHANGED <<gui, window, closing, notified, model, disk, dirty,
                 processed, ack, slot, stopRequested, bookkeeping>>

\* Every command that changes the workspace saves it before the next one.
Persist(w) == model' = w /\ disk' = w

Runs(op) == pc = "work" /\ batch # <<>> /\ Head(batch).op = op

FieldWithinUserCommandLimit(c) == c.text # Big

EditDraftCommand ==
  LET c == Head(batch) IN
  /\ Runs("edit")
  /\ batch' = Tail(batch)
  /\ IF ~FieldWithinUserCommandLimit(c)
     THEN dirty' = TRUE /\ UNCHANGED <<model, disk, processed>>
     ELSE /\ Persist(SetDraft(model, c.entry, c.text))
          /\ processed' = [processed EXCEPT ![c.entry] = c.revision]
          /\ dirty' = (dirty \/ model.draft[c.entry] # c.text)
  /\ notified' = TRUE
  /\ UNCHANGED <<gui, window, closing, queue, pc, ack, slot, stopRequested,
                 bookkeeping>>

\* The draft and the reservation of the message's sequence are saved before
\* there is a message.
ReserveSequence(c) ==
  Persist(Commit(SetDraft(model, c.entry, c.text),
                 MessageSequenceReservedEvent(model.next)))

SendDraftCommand ==
  /\ Runs("send")
  /\ IF ~FieldWithinUserCommandLimit(Head(batch))
     THEN /\ batch' = Tail(batch) /\ dirty' = TRUE /\ notified' = TRUE
          /\ UNCHANGED <<pc, model, disk>>
     ELSE /\ ReserveSequence(Head(batch)) /\ pc' = "commit"
          /\ UNCHANGED <<batch, dirty, notified>>
  /\ UNCHANGED <<gui, window, closing, queue, processed, ack, slot,
                 stopRequested, bookkeeping>>

CommitMessage ==
  /\ pc = "commit" /\ pc' = "clear"
  /\ Persist(Commit(model, MessageAddedEvent(model.next - 1)))
  /\ UNCHANGED <<gui, window, closing, notified, queue, batch, dirty, processed,
                 ack, slot, stopRequested, platform, last, inputs>>

ClearDraft ==
  LET c == Head(batch) IN
  /\ pc = "clear" /\ pc' = "work" /\ batch' = Tail(batch)
  /\ Persist(SetDraft(model, c.entry, Empty))
  /\ processed' = [processed EXCEPT ![c.entry] = c.revision]
  /\ dirty' = TRUE /\ notified' = TRUE
  /\ UNCHANGED <<gui, window, closing, queue, ack, slot, stopRequested,
                 bookkeeping>>

SelectChatCommand ==
  /\ Runs("select")
  /\ batch' = Tail(batch)
  /\ Persist(SelectEntry(model, Head(batch).entry))
  /\ ack' = Head(batch).entry /\ dirty' = TRUE
  /\ UNCHANGED <<gui, window, closing, notified, queue, pc, processed, slot,
                 stopRequested, bookkeeping>>

\* Saving a scroll position always asks for a publication.
SaveScrollCommand ==
  /\ Runs("scroll")
  /\ batch' = Tail(batch) /\ dirty' = TRUE
  /\ UNCHANGED <<gui, window, closing, notified, queue, pc, model, disk,
                 processed, ack, slot, stopRequested, bookkeeping>>

AcceptClient ==
  /\ Runs("join")
  /\ batch' = Tail(batch)
  /\ Persist(OpenOrSelectChat(model, Head(batch).entry))
  /\ dirty' = TRUE
  /\ UNCHANGED <<gui, window, closing, notified, queue, pc, processed, ack,
                 slot, stopRequested, bookkeeping>>

\* Variant: a publication the window has not taken is forgotten.
PublishNow_Dropped ==
  /\ dirty' = FALSE
  /\ IF dirty /\ slot = None
     THEN slot' = Publication(model, processed, ack) /\ ack' = None /\ notified' = TRUE
     ELSE UNCHANGED <<slot, ack, notified>>

\* Variant: the metadata of a publication is replaced though its bytes stay.
PublishNow_Metadata ==
  /\ notified' = TRUE
  /\ IF dirty /\ slot = None
     THEN slot' = Publication(model, processed, ack) /\ ack' = None /\ dirty' = FALSE
     ELSE /\ slot' = IF slot = None THEN None
                     ELSE [slot EXCEPT !.revisions = processed]
          /\ UNCHANGED <<ack, dirty>>

\* A busy slot keeps the workspace dirty; the loop does not wait for it.
PublishNow ==
  IF dirty /\ slot = None
  THEN /\ slot' = Publication(model, processed, ack)
       /\ ack' = None /\ dirty' = FALSE /\ notified' = TRUE
  ELSE UNCHANGED <<slot, ack, dirty, notified>>

EndBatch ==
  /\ pc = "work" /\ batch = <<>>
  /\ pc' = "loop"
  /\ PublishNow
  /\ UNCHANGED <<gui, window, closing, queue, batch, model, disk, processed,
                 stopRequested, bookkeeping>>

\* Variant: a stop is honoured before the queue is empty.
StopLoop_AtOnce ==
  /\ pc = "loop" /\ stopRequested
  /\ pc' = "drain" /\ queue' = <<>>
  /\ UNCHANGED <<gui, window, closing, notified, batch, model, disk, dirty,
                 processed, ack, slot, stopRequested, bookkeeping>>

\* A stop ends the loop when nothing is queued any more; the endpoint is
\* stopped and joined before the rest is drained.
StopLoop ==
  /\ pc = "loop" /\ stopRequested /\ queue = <<>>
  /\ pc' = "drain"
  /\ UNCHANGED <<gui, window, closing, notified, queue, batch, model, disk,
                 dirty, processed, ack, slot, stopRequested, bookkeeping>>

\* ShutdownEndpointAndDrain, then the drain after internal work is refused:
\* what the endpoint queued until it was joined is still run.
DrainModelQueue ==
  /\ pc \in {"drain", "refuse"} /\ queue # <<>>
  /\ Persist(OpenOrSelectChat(model, Head(queue).entry))
  /\ queue' = Tail(queue) /\ dirty' = TRUE
  /\ UNCHANGED <<gui, window, closing, notified, batch, pc, processed, ack,
                 slot, stopRequested, bookkeeping>>

RefuseInternalWork ==
  /\ pc = "drain" /\ pc' = "refuse"
  /\ UNCHANGED <<gui, window, closing, notified, queue, batch, model, disk,
                 dirty, processed, ack, slot, stopRequested, bookkeeping>>

\* The last save; the window is told once the worker's objects are gone.
FinalizeWorker ==
  /\ pc = "refuse" /\ queue = <<>>
  /\ Persist(model)
  /\ pc' = "finished" /\ notified' = TRUE
  /\ UNCHANGED <<gui, window, closing, queue, batch, dirty, processed, ack,
                 slot, stopRequested, bookkeeping>>

\* A command throws: what is queued is discarded, not run on a failed model.
WorkerFails ==
  /\ pc = "work" /\ batch # <<>> /\ Input
  /\ pc' = "failed" /\ queue' = <<>> /\ batch' = <<>> /\ notified' = TRUE
  /\ UNCHANGED <<gui, window, closing, model, disk, dirty, processed, ack,
                 slot, stopRequested, platform, last>>

\* What a crash leaves on the disk: the last save, or of the save that is on
\* its way the message alone (a save writes one object after the other).
LeftOnDisk ==
  {disk} \cup IF pc = "commit"
              THEN {[disk EXCEPT !.messages = @ \cup {model.next - 1}]} ELSE {}

\* The process dies and starts again with the workspace of its disk.
Crash ==
  /\ gui # "closed" /\ Input
  /\ \E w \in LeftOnDisk :
       /\ disk' = w /\ model' = w /\ last' = w.draft
       /\ slot' = Publication(w, [e \in Entries |-> 0], None)
  /\ gui' = "idle" /\ active' = None /\ box' = Empty /\ composing' = FALSE
  /\ view' = [e \in Entries |-> NoView]
  /\ pendingSelection' = None /\ pendingSend' = 0 /\ sendError' = FALSE
  /\ sendEnabled' = FALSE
  /\ mirror' = None /\ switched' = FALSE /\ closing' = FALSE
  /\ notified' = TRUE /\ queue' = <<>> /\ batch' = <<>> /\ pc' = "loop"
  /\ dirty' = FALSE /\ processed' = [e \in Entries |-> 0] /\ ack' = None
  /\ stopRequested' = FALSE
  /\ UNCHANGED platform

-----------------------------------------------------------------------------
\* HandleMain: the messages of the Windows window.
HandleMain ==
  /\ platform = "windows"
  /\ \/ \E t \in {active, Empty, Big} : Type(t)
     \/ OnSendDraftClicked
     \/ \E e \in Entries : OnChatSelectionChanged(e)
     \/ RequestClose

\* The signals of the Linux window.
LinuxSignals ==
  /\ platform = "linux"
  /\ \/ \E t \in {active, Empty, Big} : Type(t)
     \/ OnSendDraftClicked
     \/ \E e \in Entries : OnChatSelectionChanged(e)
     \/ RequestClose

Gui == HandleMain \/ LinuxSignals \/ ImeStart \/ ImeEnd

Consume == StartConsuming \/ TakeUiUpdate \/ UpdateUiFromWorkspace

ModelThread ==
  \/ SwapQueue \/ EditDraftCommand \/ SendDraftCommand \/ CommitMessage
  \/ ClearDraft \/ SelectChatCommand \/ SaveScrollCommand \/ AcceptClient
  \/ EndBatch \/ StopLoop \/ DrainModelQueue \/ RefuseInternalWork
  \/ FinalizeWorker

Next ==
  \/ Gui \/ Consume \/ ModelThread
  \/ \E e \in Entries : ClientJoins(e)
  \/ WorkerFails \/ Crash

Spec == Init /\ [][Next]_vars

\* The window's message loop and the model thread go on; nothing is assumed of
\* the user, of the network or of crashes.
Fairness == WF_vars(Consume) /\ WF_vars(ModelThread)

FairSpec == Spec /\ Fairness

-----------------------------------------------------------------------------

(* The metadata of a publication describes the workspace it was taken with:  *)
(* once the revision of an entry's last edit has come back, the window's copy *)
(* of the draft is the text the user left, so replacing the control loses     *)
(* nothing (processed_edit_revisions_by_entry of TryTakeUiUpdate).            *)
RevisionMatchesDraft ==
  mirror # None =>
    \A e \in Entries :
      view[e].revision = view[e].published => mirror.draft[e] = last[e]

(* The drafts of two chats do not mix: on Linux no draft of the model holds   *)
(* text typed into another chat, whichever thread changes the active chat.    *)
(* On Windows an open composition keeps the old text in the control.          *)
DraftIsOwn ==
  platform = "linux" =>
    \A e \in Entries : model.draft[e] \in {Empty, e}

(* Closing loses no edit: when the worker has finished without an error, the  *)
(* saved drafts are what the user left and every message is saved.            *)
ClosedIsSaved ==
  pc = "finished" =>
    /\ \A e \in Entries : disk.draft[e] = last[e]
    /\ disk = model

(* Nothing stays unpublished: once the user is idle, the window's copy of the *)
(* workspace is the model's, though the loop holds a publication back while   *)
(* the last one is unread.                                                    *)
MirrorCatchesUp ==
  <>[](Finished \/ mirror = Shown(model))

(* A window that is closing closes, even if the worker failed before or fails *)
(* meanwhile (TryFinishClosing).                                              *)
ClosingEnds == closing ~> (gui = "closed" \/ ~closing)
=============================================================================
