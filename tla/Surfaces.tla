------------------------------ MODULE Surfaces ------------------------------
(***************************************************************************)
(* The surfaces application: a model thread that owns the list of surfaces *)
(* (SurfacesModelSession), a GUI thread that shows a mirror of it through  *)
(* presenters, the single-slot publication channel between them, and the   *)
(* queue that coalesces the sizes windows report.  The GUI thread is one   *)
(* of four hosts, which differ in what they post and when:                 *)
(*                                                                         *)
(*   windows  a window and its buttons are presenters of their own, sizes  *)
(*            go through the queue, a stop first posts bounds, z-order and *)
(*            focus, the end of the model thread overtakes messages;       *)
(*   linux    one presenter per window, a stop first posts focus, bounds;  *)
(*   web      one page is shown at a time, every publication is answered   *)
(*            with sizes, the shown page and a save;                       *)
(*   android  pages are reported, each followed by a save.                 *)
(*                                                                         *)
(* A structural publication of any live node serializes the whole graph    *)
(* the node reaches, and every surface reaches the list, so a publication  *)
(* holds the list and the surfaces that are in it.                         *)
(***************************************************************************)
EXTENDS Naturals, Sequences, SequencesExt, FiniteSets

CONSTANTS
    Hosts,          \* the hosts checked, a subset of Platforms
    MaxSurfaces,    \* bound: surfaces ever created
    MaxInputs,      \* bound: inputs of the user
    Sizes,          \* sizes a window may take
    DefaultSize     \* the size a surface is created with

Platforms == {"windows", "linux", "web", "android"}
Ids == 1 .. MaxSurfaces

ASSUME SurfacesAssumption ==
    /\ Hosts \subseteq Platforms
    /\ MaxSurfaces \in Nat \ {0}
    /\ MaxInputs \in Nat
    /\ DefaultSize \in Sizes

None == 0                          \* no surface, no size: a null pointer
List == MaxSurfaces + 1            \* the Surfaces node among the dirty nodes
NewSurface == [size |-> DefaultSize, bounds |-> DefaultSize]
NoMirror == [surfaces |-> <<>>, current |-> None, z |-> <<>>,
             size |-> [s \in Ids |-> NewSurface.size],
             bounds |-> [s \in Ids |-> NewSurface.bounds]]

VARIABLES
    host,       \* the platform this process runs on
    model,      \* Surfaces and Surface nodes, as materialized
    created,    \* surfaces created so far; removed ones stay in the journal
    dirty,      \* PendingDirtyNodes, in first-dirty order
    work,       \* pending_work
    stop,       \* session stop flag
    mpc,        \* where the model thread is
    drain,      \* locals of a running size drain
    slots,      \* the size queue: latest size per surface, None if empty
    scheduled,  \* drain_scheduled_
    channel,    \* the publication channel: its state and its bytes
    saved,      \* the profile on disk
    wakes,      \* messages posted to the GUI thread
    gpc,        \* where the GUI thread is
    mirror,     \* the GUI's copy of the model
    loaded,     \* presenters with a native presentation, in load order
    native,     \* the size each native window has
    ensure,     \* the GUI wrote a slot and has not yet scheduled a drain
    desired,    \* desired_current_id_ of the web host
    inputs,     \* inputs the user has made
    atStop      \* history: the sizes the windows had when a stop was handled

modelVars == <<model, created, dirty, drain, saved>>
queueVars == <<slots, scheduled>>
guiVars == <<wakes, gpc, mirror, loaded, native, ensure, desired, inputs, atStop>>
vars == <<host, modelVars, work, stop, mpc, queueVars, channel, guiVars>>

-----------------------------------------------------------------------------
(* The model.  An operation commits an event or, when it would change       *)
(* nothing or its surface is gone, none; an event changes a Surfaces or a   *)
(* Surface node and makes it dirty.                                         *)

Event(kind, node, value) == [kind |-> kind, node |-> node, value |-> value]

AddSurfaceEvent(s) == Event("add", List, s)
RemoveSurfaceEvent(s) == Event("remove", List, s)
SetCurrentSurfaceEvent(s) == Event("current", List, s)
SetDesktopZOrderEvent(order) == Event("zOrder", List, order)
SurfaceBoundsChangedEvent(s, v) == Event("bounds", s, v)
SurfacePresentationSizeChangedEvent(s, v) == Event("size", s, v)

\* The elements of seq that are in set, in their order.
Only(seq, set) ==
    LET kept[n \in 0 .. Len(seq)] ==
          IF n = 0 THEN <<>>
          ELSE IF seq[n] \in set THEN Append(kept[n - 1], seq[n])
          ELSE kept[n - 1]
    IN  kept[Len(seq)]

ApplyRemove(m, s) ==
    [m EXCEPT !.surfaces = RemoveFirst(@, s), !.z = Only(@, Range(@) \ {s}),
              !.current = IF @ = s THEN None ELSE @]

Apply(m, e) ==
    CASE e.kind = "add" ->
           [m EXCEPT !.surfaces = Append(@, e.value), !.z = Append(@, e.value)]
      [] e.kind = "remove" -> ApplyRemove(m, e.value)
      [] e.kind = "current" -> [m EXCEPT !.current = e.value]
      [] e.kind = "zOrder" -> [m EXCEPT !.z = e.value]
      [] e.kind = "bounds" -> [m EXCEPT !.bounds[e.node] = e.value]
      [] e.kind = "size" -> [m EXCEPT !.size[e.node] = e.value]

Live(s) == s \in Range(model.surfaces)

AddSurface == {AddSurfaceEvent(created + 1)}
RemoveLive(s) == IF Live(s) THEN {RemoveSurfaceEvent(s)} ELSE {}
MakeCurrent(s) == IF model.current # s /\ Live(s) THEN {SetCurrentSurfaceEvent(s)} ELSE {}

\* A z-order read from the windows, made to fit the surfaces that are live
\* now: unknown ones are skipped, missing ones go to the bottom.
SetDesktopZOrderFromObjIds(ids) ==
    LET live == Range(model.surfaces)
        known == Only(ids, live)
        resolved == known \o Only(model.surfaces, live \ Range(known))
    IN  IF model.z = resolved THEN {} ELSE {SetDesktopZOrderEvent(resolved)}

SetDesktopBounds(s, v) ==
    IF model.bounds[s] = v THEN {} ELSE {SurfaceBoundsChangedEvent(s, v)}

SetPresentationSize(s, v) ==
    IF model.size[s] = v THEN {} ELSE {SurfacePresentationSizeChangedEvent(s, v)}

\* What a queued invocation commits: an event, or nothing.
Perform(w) ==
    CASE w.op = "add" -> AddSurface
      [] w.op = "remove" -> RemoveLive(w.s)
      [] w.op = "makeCurrent" -> MakeCurrent(w.s)
      [] w.op = "zOrder" -> SetDesktopZOrderFromObjIds(w.order)
      [] w.op = "bounds" -> SetDesktopBounds(w.s, w.v)
      [] w.op = "size" -> SetPresentationSize(w.s, w.v)

\* PendingDirtyNodes: a node enters once, at the end.
Noted(d, n) == IF \E i \in DOMAIN d : d[i] = n THEN d ELSE Append(d, n)

Commit(events) ==
    \/ events = {} /\ UNCHANGED <<model, dirty>>
    \/ \E e \in events : model' = Apply(model, e) /\ dirty' = Noted(dirty, e.node)

-----------------------------------------------------------------------------
(* The model thread                                                        *)

NoDrain == [keys |-> {}, s |-> None, v |-> DefaultSize, again |-> FALSE]

Busy == channel.state # "free"

\* The layers of the objects that are reached without journals and bases: a
\* surface that was removed has none.
SerializeObjectGraphToBuffer(m) ==
    LET reached == Range(m.surfaces) IN
    [surfaces |-> m.surfaces, current |-> m.current, z |-> m.z,
     size |-> [s \in reached |-> m.size[s]],
     bounds |-> [s \in reached |-> m.bounds[s]]]

Publish(kind) ==
    /\ channel' = [state |-> "published", data |-> SerializeObjectGraphToBuffer(model)]
    /\ wakes' = Append(wakes, kind)

PublishInitial ==
    /\ mpc = "start"
    /\ Publish("initial")
    /\ mpc' = "wait"
    /\ UNCHANGED <<host, modelVars, work, stop, queueVars, gpc, mirror, loaded,
                   native, ensure, desired, inputs, atStop>>

\* cv.wait returns and takes one task: a plain one runs to its end, a size
\* drain begins.
RunWork ==
    /\ mpc = "wait" /\ work # <<>>
    /\ work' = Tail(work)
    /\ LET w == Head(work) IN
         \/ /\ w.op = "drain"
            /\ mpc' = "drain"
            /\ scheduled' = FALSE
            /\ UNCHANGED <<modelVars, slots>>
         \/ /\ w.op = "save"
            /\ saved' = model
            /\ mpc' = "publish"
            /\ UNCHANGED <<model, created, dirty, drain, queueVars>>
         \/ /\ w.op \notin {"drain", "save"}
            /\ Commit(Perform(w))
            /\ created' = IF w.op = "add" THEN created + 1 ELSE created
            /\ mpc' = "publish"
            /\ UNCHANGED <<drain, saved, queueVars>>
    /\ UNCHANGED <<host, stop, channel, guiVars>>

\* Variant: a stop ends the loop before the queue is empty.
BreakOnStop_Undrained ==
    /\ mpc = "wait" /\ stop
    /\ mpc' = "save"
    /\ UNCHANGED <<host, modelVars, work, stop, queueVars, channel, guiVars>>

BreakOnStop ==
    /\ mpc = "wait" /\ stop /\ work = <<>>
    /\ mpc' = "save"
    /\ UNCHANGED <<host, modelVars, work, stop, queueVars, channel, guiVars>>

WakeToPublish ==
    /\ mpc = "wait" /\ ~stop /\ work = <<>> /\ dirty # <<>> /\ ~Busy
    /\ mpc' = "publish"
    /\ UNCHANGED <<host, modelVars, work, stop, queueVars, channel, guiVars>>

\* Variant: a dirty node is popped before the channel is looked at.
PublishNext_PopsFirst ==
    /\ mpc = "publish"
    /\ IF stop \/ Busy \/ dirty = <<>>
       THEN /\ mpc' = "wait"
            /\ dirty' = IF dirty = <<>> THEN dirty ELSE Tail(dirty)
            /\ UNCHANGED <<channel, wakes>>
       ELSE /\ dirty' = Tail(dirty)
            /\ IF Head(dirty) \in Range(model.surfaces) \union {List}
               THEN Publish("incremental")
               ELSE UNCHANGED <<channel, wakes>>
            /\ UNCHANGED mpc
    /\ UNCHANGED <<host, model, created, drain, saved, work, stop, queueVars, gpc,
                   mirror, loaded, native, ensure, desired, inputs, atStop>>

\* One turn of the publishing loop: dirty nodes in first-dirty order, those
\* no longer live skipped, while the channel is free.
PublishNext ==
    /\ mpc = "publish"
    /\ IF stop \/ Busy \/ dirty = <<>>
       THEN /\ mpc' = "wait"
            /\ UNCHANGED <<dirty, channel, wakes>>
       ELSE /\ dirty' = Tail(dirty)
            /\ IF Head(dirty) \in Range(model.surfaces) \union {List}
               THEN Publish("incremental")
               ELSE UNCHANGED <<channel, wakes>>
            /\ UNCHANGED mpc
    /\ UNCHANGED <<host, model, created, drain, saved, work, stop, queueVars, gpc,
                   mirror, loaded, native, ensure, desired, inputs, atStop>>

\* The size drain reads the keys, then takes each one: the newest size is
\* applied outside the lock and its slot erased only if still the same.
DrainKeys ==
    /\ mpc = "drain"
    /\ drain' = [NoDrain EXCEPT !.keys = {s \in Ids : slots[s] # None}]
    /\ mpc' = "drainNext"
    /\ UNCHANGED <<host, model, created, dirty, saved, work, stop, queueVars,
                   channel, guiVars>>

DrainApply ==
    /\ mpc = "drainNext"
    /\ \E s \in drain.keys :
         /\ Commit(SetPresentationSize(s, slots[s]))
         /\ drain' = [drain EXCEPT !.keys = @ \ {s}, !.s = s, !.v = slots[s]]
    /\ mpc' = "drainErase"
    /\ UNCHANGED <<host, created, saved, work, stop, queueVars, channel, guiVars>>

\* Variant: the slot is erased although a newer size is in it.
DrainErase_Newer ==
    /\ mpc = "drainErase"
    /\ slots' = [slots EXCEPT ![drain.s] = None]
    /\ mpc' = "drainNext"
    /\ UNCHANGED <<host, model, created, dirty, drain, saved, work, stop, scheduled,
                   channel, guiVars>>

DrainErase ==
    /\ mpc = "drainErase"
    /\ IF slots[drain.s] = drain.v
       THEN slots' = [slots EXCEPT ![drain.s] = None] /\ UNCHANGED drain
       ELSE drain' = [drain EXCEPT !.again = TRUE] /\ UNCHANGED slots
    /\ mpc' = "drainNext"
    /\ UNCHANGED <<host, model, created, dirty, saved, work, stop, scheduled,
                   channel, guiVars>>

Posted(w) == IF stop THEN work ELSE work \o w

EnsureDrainScheduled ==
    /\ scheduled' = TRUE
    /\ work' = IF scheduled THEN work ELSE Posted(<<[op |-> "drain"]>>)

DrainDone ==
    /\ mpc = "drainNext" /\ drain.keys = {}
    /\ IF drain.again THEN EnsureDrainScheduled ELSE UNCHANGED <<scheduled, work>>
    /\ drain' = NoDrain
    /\ mpc' = "publish"
    /\ UNCHANGED <<host, model, created, dirty, saved, stop, slots, channel, guiVars>>

SaveAndEnd ==
    /\ mpc = "save"
    /\ saved' = model
    /\ mpc' = "done"
    /\ wakes' = Append(wakes, "finished")
    /\ UNCHANGED <<host, model, created, dirty, drain, work, stop, queueVars, channel,
                   gpc, mirror, loaded, native, ensure, desired, inputs, atStop>>

ModelStep ==
    \/ PublishInitial \/ RunWork \/ BreakOnStop \/ WakeToPublish \/ PublishNext
    \/ DrainKeys \/ DrainApply \/ DrainErase \/ DrainDone \/ SaveAndEnd

-----------------------------------------------------------------------------
(* The GUI thread: what the hosts share                                    *)

\* The presenters a surface is created with.  The buttons of a Windows host
\* are alike: one stands for the three.
Chrome == IF host = "windows" THEN {"window", "button"} ELSE {"window"}
Presenters == Range(mirror.surfaces) \X Chrome

\* A button needs the native window of its surface.
ReadyForPresentation(p) ==
    p[2] = "button" => <<p[1], "window">> \in Range(loaded)

Invoke(op, s) == [op |-> op, s |-> s]
PageShown(s) == <<Invoke("makeCurrent", s)>>
SizeOf(s) == [op |-> "size", s |-> s, v |-> native[s]]
QueueCurrentBounds(s) == [op |-> "bounds", s |-> s, v |-> native[s]]
PersistState == <<[op |-> "save"]>>
Map(seq, Op(_)) == [i \in DOMAIN seq |-> Op(seq[i])]

GuiFree == gpc = "loop" /\ ~ensure

\* The layers of a publication replace those in the GUI's storage; others, of
\* surfaces removed meanwhile, stay.
ReadAndInjectPublicationLayers(ui, p) ==
    [ui EXCEPT !.size = p.size @@ @, !.bounds = p.bounds @@ @]

\* The root and every injected object are read again.
HydrateInjectedPublicationGraph(ui, p) ==
    [ui EXCEPT !.surfaces = p.surfaces, !.current = p.current, !.z = p.z]

LoadInitialPublication(p) ==
    HydrateInjectedPublicationGraph(ReadAndInjectPublicationLayers(NoMirror, p), p)

\* The same into the objects the mirror has already.
DeserializeObjectGraphFromBuffer(ui, p) ==
    HydrateInjectedPublicationGraph(ReadAndInjectPublicationLayers(ui, p), p)

\* A message about a publication is handled: the mirror is brought up to it,
\* and presenters are loaded and unloaded in the steps that follow.
Consumes(h, kind, slot) ==
    /\ host = h
    /\ GuiFree /\ wakes # <<>> /\ Head(wakes) = kind
    /\ channel.state = "published"
    /\ wakes' = Tail(wakes)
    /\ mirror' = IF kind = "initial" THEN LoadInitialPublication(channel.data)
                 ELSE DeserializeObjectGraphFromBuffer(mirror, channel.data)
    /\ channel' = [channel EXCEPT !.state = slot]
    /\ gpc' = IF kind = "initial" THEN "initialize" ELSE "unload"
    /\ UNCHANGED <<host, modelVars, work, stop, mpc, queueVars, loaded, native,
                   ensure, inputs, atStop>>

\* The bytes are copied and the slot is free at once.
ConsumesCopy(h, kind) == Consumes(h, kind, "free") /\ UNCHANGED desired

\* A new presenter of the mirror gets its native presentation.
Loads(h, p) ==
    /\ host = h
    /\ gpc \in {"initialize", "load"} /\ ~ensure
    /\ p \in Presenters \ Range(loaded) /\ ReadyForPresentation(p)
    /\ loaded' = Append(loaded, p)
    /\ UNCHANGED <<host, modelVars, stop, mpc, scheduled, channel, wakes, gpc, mirror,
                   inputs, atStop>>

\* The publication is shown and the host posts what it has to say to it.
Settles(h, answers) ==
    /\ host = h
    /\ gpc \in {"initialize", "load"} /\ ~ensure
    /\ Presenters \subseteq Range(loaded)
    /\ work' = Posted(answers)
    /\ gpc' = "loop"
    /\ UNCHANGED <<host, modelVars, stop, mpc, queueVars, wakes, mirror, loaded, native,
                   ensure, inputs, atStop>>

Input(h) ==
    /\ host = h
    /\ GuiFree /\ loaded # <<>> /\ inputs < MaxInputs
    /\ inputs' = inputs + 1
    /\ UNCHANGED <<host, modelVars, mpc, scheduled, channel, gpc, mirror, loaded, atStop>>

Posts(ws) == work' = Posted(ws) /\ UNCHANGED <<stop, wakes>>

\* A page host resizes every page.
Resizes(v) ==
    /\ native # [x \in Ids |-> v]
    /\ native' = [x \in Ids |-> v]
    /\ Posts(Map(mirror.surfaces, LAMBDA s : [op |-> "size", s |-> s, v |-> v]))

AddsQueued == Cardinality({i \in DOMAIN work : work[i].op = "add"})

AddClick(s) == created + AddsQueued < MaxSurfaces /\ Posts(<<Invoke("add", s)>>)

RemoveClick(s) == Posts(<<Invoke("remove", s)>>)

\* A desktop host posts itself a message; a page host stops the session.
PostApplicationStop == wakes' = Append(wakes, "stop") /\ UNCHANGED <<stop, work>>
StopSession == stop' = TRUE /\ UNCHANGED <<wakes, work>>

LastOne == Len(mirror.surfaces) = 1

\* RequestApplicationStop of a desktop host up to RequestStop: what the
\* windows look like now is posted to the model.
QueuesWindowState(h, ws) ==
    /\ host = h
    /\ GuiFree /\ wakes # <<>> /\ Head(wakes) = "stop"
    /\ wakes' = Tail(wakes)
    /\ work' = Posted(ws)
    /\ atStop' = IF stop THEN atStop
                 ELSE [s \in Ids |-> IF s \in Range(mirror.surfaces) THEN native[s]
                                     ELSE None]
    /\ gpc' = "stopping"
    /\ UNCHANGED <<host, modelVars, stop, mpc, queueVars, channel, mirror, loaded, native,
                   ensure, desired, inputs>>

QueueAllWindowBounds == Map(mirror.surfaces, QueueCurrentBounds)

\* The window that has the focus, if it is one of ours.
Focused == {<<>>} \union {PageShown(s) : s \in Range(mirror.surfaces)}

RequestStop ==
    /\ gpc = "stopping"
    /\ stop' = TRUE
    /\ gpc' = "loop"
    /\ UNCHANGED <<host, modelVars, work, mpc, queueVars, channel, wakes, mirror, loaded,
                   native, ensure, desired, inputs, atStop>>

\* The end of the model thread is noticed.
Finishes(h) ==
    /\ host = h
    /\ GuiFree /\ mpc = "done"
    /\ gpc' = "ending"
    /\ UNCHANGED <<host, modelVars, work, stop, mpc, queueVars, channel, wakes, mirror,
                   loaded, native, ensure, desired, inputs, atStop>>

-----------------------------------------------------------------------------
(* Windows: sizes go through the queue, which releases its lock between     *)
(* writing a slot and looking at drain_scheduled_.                          *)

PostSize(s, v) ==
    /\ slots' = [slots EXCEPT ![s] = v]
    /\ ensure' = TRUE
    /\ native' = [native EXCEPT ![s] = v]

GuiEnsuresDrain ==
    /\ ensure
    /\ EnsureDrainScheduled
    /\ ensure' = FALSE
    /\ UNCHANGED <<host, modelVars, stop, mpc, slots, channel, wakes, gpc, mirror, loaded,
                   native, desired, inputs, atStop>>

WinOnInitialPublished == ConsumesCopy("windows", "initial")
WinOnIncrementalPublished == ConsumesCopy("windows", "incremental")

\* A native window takes the model's bounds and reports its size.
WinWindowOnLoad(s) ==
    /\ Loads("windows", <<s, "window">>)
    /\ PostSize(s, mirror.bounds[s])
    /\ UNCHANGED <<work, desired>>

WinButtonOnLoad(s) ==
    /\ Loads("windows", <<s, "button">>)
    /\ UNCHANGED <<work, slots, native, ensure, desired>>

WinSettles == Settles("windows", <<>>) /\ UNCHANGED <<channel, desired>>

\* A window is resized, activated or closed.
SurfaceHostWndProc(s) ==
    /\ Input("windows")
    /\ \/ /\ \E v \in Sizes \ {native[s]} : PostSize(s, v)
          /\ UNCHANGED <<work, stop, wakes>>
       \/ Posts(PageShown(s)) /\ UNCHANGED <<slots, native, ensure>>
       \/ PostApplicationStop /\ UNCHANGED <<slots, native, ensure>>
    /\ UNCHANGED desired

WinOnCommand(s) ==
    /\ Input("windows")
    /\ AddClick(s) \/ (~LastOne /\ RemoveClick(s)) \/ (LastOne /\ PostApplicationStop)
    /\ UNCHANGED <<slots, native, ensure, desired>>

Orders == {q \in [1 .. Len(mirror.surfaces) -> Range(mirror.surfaces)] : IsInjective(q)}
QueueDesktopZOrderSnapshot(z) == <<[op |-> "zOrder", order |-> z]>>

WinRequestApplicationStop ==
    \E z \in Orders, focus \in Focused :
        QueuesWindowState("windows",
            QueueAllWindowBounds \o QueueDesktopZOrderSnapshot(z) \o focus)

\* The event that the model thread is done overtakes the messages.
WinFinishes == Finishes("windows")

Windows ==
    \/ WinOnInitialPublished \/ WinOnIncrementalPublished \/ WinSettles
    \/ \E s \in Range(mirror.surfaces) : WinWindowOnLoad(s) \/ WinButtonOnLoad(s)
    \/ GuiEnsuresDrain \/ WinRequestApplicationStop \/ WinFinishes

-----------------------------------------------------------------------------
(* Linux                                                                    *)

LinuxOnInitialPublished == ConsumesCopy("linux", "initial")
LinuxOnIncrementalPublished == ConsumesCopy("linux", "incremental")

LinuxOnLoad(s) ==
    /\ Loads("linux", <<s, "window">>)
    /\ native' = [native EXCEPT ![s] = mirror.bounds[s]]
    /\ work' = Posted(<<[op |-> "size", s |-> s, v |-> mirror.bounds[s]]>>)
    /\ UNCHANGED <<slots, ensure, desired>>

\* The first publication also raises the current window, or the last one.
RestoreActiveSurfaceZOrder ==
    IF mirror.current # None THEN PageShown(mirror.current)
    ELSE IF mirror.surfaces # <<>> THEN PageShown(Last(mirror.surfaces)) ELSE <<>>

LinuxSettles ==
    /\ Settles("linux", IF gpc = "initialize" THEN RestoreActiveSurfaceZOrder ELSE <<>>)
    /\ UNCHANGED <<channel, desired>>

\* A window is resized, gets the focus or is closed.
LinuxWindowEvent(s) ==
    /\ Input("linux")
    /\ \/ \E v \in Sizes \ {native[s]} :
            /\ native' = [native EXCEPT ![s] = v]
            /\ Posts(<<[op |-> "size", s |-> s, v |-> v]>>)
       \/ Posts(PageShown(s)) /\ UNCHANGED native
       \/ PostApplicationStop /\ UNCHANGED native
    /\ UNCHANGED <<slots, ensure, desired>>

LinuxOnCommand(s) ==
    /\ Input("linux")
    /\ AddClick(s) \/ (~LastOne /\ RemoveClick(s)) \/ (LastOne /\ PostApplicationStop)
    /\ UNCHANGED <<slots, native, ensure, desired>>

LinuxRequestApplicationStop ==
    \E focus \in Focused : QueuesWindowState("linux", focus \o QueueAllWindowBounds)

LinuxOnModelFinished == Finishes("linux") /\ Head(wakes) = "finished"

Linux ==
    \/ LinuxOnInitialPublished \/ LinuxOnIncrementalPublished \/ LinuxSettles
    \/ \E s \in Range(mirror.surfaces) : LinuxOnLoad(s)
    \/ LinuxRequestApplicationStop \/ LinuxOnModelFinished

-----------------------------------------------------------------------------
(* The web: one page is shown, which the host chooses before the model does *)

EffectiveCurrentId ==
    IF desired \in Range(mirror.surfaces) THEN desired
    ELSE IF mirror.current # None THEN mirror.current
    ELSE IF mirror.surfaces # <<>> THEN Head(mirror.surfaces)
    ELSE None

\* desired_current_id_ once the shown page is refreshed: dropped when the
\* model has caught up with it or the surface is gone.
ShowCurrentPage(d) ==
    IF d = mirror.current \/ d \notin Range(mirror.surfaces) THEN None ELSE d

\* The slot stays taken until the publication is applied.
WebConsumePublication ==
    \/ Consumes("web", "initial", "in_ui") /\ UNCHANGED desired
    \/ Consumes("web", "incremental", "in_ui") /\ UNCHANGED desired

\* A page that appears in a running session becomes the wanted one.
OnSurfacePageLoaded(s) ==
    /\ Loads("web", <<s, "window">>)
    /\ desired' = IF gpc = "load" THEN s ELSE desired
    /\ UNCHANGED <<work, slots, native, ensure>>

OnSurfacePageUnloaded(s) == ShowCurrentPage(IF desired = s THEN None ELSE desired)

ReportPresentationSizes == Map(mirror.surfaces, SizeOf)

\* The page a first publication makes the wanted one, and tells the model of
\* when the model has none.
EnsureModelCurrentSeeded ==
    IF mirror.current # None \/ mirror.surfaces = <<>> THEN <<>>
    ELSE PageShown(Head(mirror.surfaces))

\* Nothing more once a stop was asked for: Posted takes no work then.
QueueIndexedDbPersist == PersistState

WebSettles ==
    /\ desired' = IF gpc = "initialize" /\ mirror.surfaces # <<>>
                  THEN ShowCurrentPage(IF mirror.current # None THEN mirror.current
                                       ELSE Head(mirror.surfaces))
                  ELSE ShowCurrentPage(desired)
    /\ channel' = [channel EXCEPT !.state = "free"]
    /\ Settles("web",
         (IF gpc = "initialize" THEN EnsureModelCurrentSeeded \o ReportPresentationSizes
          ELSE ReportPresentationSizes \o
               (IF EffectiveCurrentId = None THEN <<>> ELSE PageShown(EffectiveCurrentId)))
         \o QueueIndexedDbPersist)

SelectSurface(s) ==
    /\ Input("web")
    /\ Posts(PageShown(s))
    /\ desired' = ShowCurrentPage(s)
    /\ UNCHANGED <<slots, native, ensure>>

\* The browser window is resized: every page is.
WebReportPresentationSize ==
    /\ Input("web")
    /\ \E v \in Sizes : Resizes(v)
    /\ UNCHANGED <<slots, ensure, desired>>

AddCurrent ==
    /\ Input("web")
    /\ EffectiveCurrentId # None /\ AddClick(EffectiveCurrentId)
    /\ UNCHANGED <<slots, native, ensure, desired>>

RemoveCurrent ==
    /\ Input("web")
    /\ \/ LastOne /\ StopSession
       \/ ~LastOne /\ EffectiveCurrentId # None /\ RemoveClick(EffectiveCurrentId)
    /\ UNCHANGED <<slots, native, ensure, desired>>

WebRequestStop ==
    /\ Input("web")
    /\ StopSession
    /\ UNCHANGED <<slots, native, ensure, desired>>

FinishStopAndSync == Finishes("web") /\ Head(wakes) = "finished"

Web ==
    \/ WebConsumePublication \/ WebSettles \/ FinishStopAndSync
    \/ \E s \in Range(mirror.surfaces) : OnSurfacePageLoaded(s)

-----------------------------------------------------------------------------
(* Android: a pager, each change of which is saved                          *)

AndroidConsumePublication ==
    ConsumesCopy("android", "initial") \/ ConsumesCopy("android", "incremental")

AndroidOnLoad(s) ==
    /\ Loads("android", <<s, "window">>)
    /\ UNCHANGED <<work, slots, native, ensure, desired>>

\* The pager is given the pages: it lays them out and, when the model names no
\* current page, shows one and reports it.
PublishPages ==
    /\ \E shown \in IF mirror.current # None \/ mirror.surfaces = <<>> THEN {<<>>}
                    ELSE {PageShown(s) \o PersistState : s \in Range(mirror.surfaces)} :
         Settles("android", ReportPresentationSizes \o shown)
    /\ UNCHANGED <<channel, desired>>

AndroidPageShown(s) ==
    /\ Input("android")
    /\ Posts(PageShown(s) \o PersistState)
    /\ UNCHANGED <<slots, native, ensure, desired>>

AddFromSurface(s) ==
    /\ Input("android")
    /\ AddClick(s)
    /\ UNCHANGED <<slots, native, ensure, desired>>

RemoveSurface(s) ==
    /\ Input("android")
    /\ (LastOne /\ StopSession) \/ (~LastOne /\ RemoveClick(s))
    /\ UNCHANGED <<slots, native, ensure, desired>>

AndroidReportPresentationSize ==
    /\ Input("android")
    /\ \E v \in Sizes : Resizes(v)
    /\ UNCHANGED <<slots, ensure, desired>>

AndroidRequestStop ==
    /\ Input("android")
    /\ StopSession
    /\ UNCHANGED <<slots, native, ensure, desired>>

UnloadUi == Finishes("android") /\ Head(wakes) = "finished"

Android ==
    \/ AndroidConsumePublication \/ PublishPages \/ UnloadUi
    \/ \E s \in Range(mirror.surfaces) : AndroidOnLoad(s)

-----------------------------------------------------------------------------
(* Presenters go, and the end                                               *)

\* Variant: the oldest presenter goes first.
UnloadLatest_Oldest(ps) ==
    /\ Range(loaded) \intersect ps # {}
    /\ LET gone == SelectInSeq(loaded, LAMBDA p : p \in ps)
       IN  /\ loaded' = RemoveAt(loaded, gone)
           /\ desired' = IF host = "web" THEN OnSurfacePageUnloaded(loaded[gone][1])
                         ELSE desired

\* The newest loaded presenter among those to go: children before parents.
UnloadLatest(ps) ==
    /\ Range(loaded) \intersect ps # {}
    /\ LET gone == SelectLastInSeq(loaded, LAMBDA p : p \in ps)
       IN  /\ loaded' = RemoveAt(loaded, gone)
           /\ desired' = IF host = "web" THEN OnSurfacePageUnloaded(loaded[gone][1])
                         ELSE desired

UnloadRemoved ==
    /\ gpc = "unload"
    /\ UnloadLatest(Range(loaded) \ Presenters)
    /\ UNCHANGED <<host, modelVars, work, stop, mpc, queueVars, channel, wakes, gpc,
                   mirror, native, ensure, inputs, atStop>>

UnloadedRemoved ==
    /\ gpc = "unload" /\ Range(loaded) \subseteq Presenters
    /\ gpc' = "load"
    /\ UNCHANGED <<host, modelVars, work, stop, mpc, queueVars, channel, wakes, mirror,
                   loaded, native, ensure, desired, inputs, atStop>>

UnloadPresenters ==
    /\ gpc = "ending"
    /\ UnloadLatest(Presenters)
    /\ UNCHANGED <<host, modelVars, work, stop, mpc, queueVars, channel, wakes, gpc,
                   mirror, native, ensure, inputs, atStop>>

EndGui ==
    /\ gpc = "ending" /\ Range(loaded) \intersect Presenters = {}
    /\ mirror' = NoMirror
    /\ gpc' = "ended"
    /\ UNCHANGED <<host, modelVars, work, stop, mpc, queueVars, channel, wakes, loaded,
                   native, ensure, desired, inputs, atStop>>

GuiStep ==
    \/ Windows \/ Linux \/ Web \/ Android
    \/ UnloadRemoved \/ UnloadedRemoved \/ RequestStop \/ UnloadPresenters \/ EndGui

User ==
    \/ \E s \in Range(mirror.surfaces) :
         \/ SurfaceHostWndProc(s) \/ WinOnCommand(s)
         \/ LinuxWindowEvent(s) \/ LinuxOnCommand(s)
         \/ SelectSurface(s)
         \/ AndroidPageShown(s) \/ AddFromSurface(s) \/ RemoveSurface(s)
    \/ WebReportPresentationSize \/ AddCurrent \/ RemoveCurrent \/ WebRequestStop
    \/ AndroidReportPresentationSize \/ AndroidRequestStop

-----------------------------------------------------------------------------
Profile(n, z, c) ==
    [NoMirror EXCEPT !.surfaces = [i \in 1 .. n |-> i], !.z = z, !.current = c]

\* What has been loaded: the distilled graph, which has one surface and no
\* z-order, or a profile of two surfaces that a Windows host has saved.
Init ==
    /\ host \in Hosts
    /\ \E c \in {None, 1} :
         \/ model = Profile(1, <<>>, c) /\ created = 1
         \/ MaxSurfaces > 1 /\ model = Profile(2, <<2, 1>>, c) /\ created = 2
    /\ saved = model
    /\ dirty = <<>> /\ work = <<>> /\ stop = FALSE /\ mpc = "start" /\ drain = NoDrain
    /\ slots = [s \in Ids |-> None] /\ scheduled = FALSE
    /\ channel = [state |-> "free", data |-> SerializeObjectGraphToBuffer(NoMirror)]
    /\ wakes = <<>> /\ gpc = "loop" /\ mirror = NoMirror /\ loaded = <<>>
    /\ native = [s \in Ids |-> DefaultSize]
    /\ ensure = FALSE /\ desired = None /\ inputs = 0
    /\ atStop = [s \in Ids |-> None]

Next == ModelStep \/ GuiStep \/ User

Spec == Init /\ [][Next]_vars /\ WF_vars(ModelStep) /\ WF_vars(GuiStep)

-----------------------------------------------------------------------------

\* Native presentations follow the mirror: whenever the GUI thread is back in
\* its loop exactly the presenters the mirror reaches are loaded, a button
\* never outlives or precedes its window, and the end leaves none behind.
PresentedIsLive ==
    /\ gpc = "loop" => Range(loaded) = Presenters
    /\ \A p \in Range(loaded) : <<p[1], "window">> \in Range(loaded)
    /\ gpc = "ended" => loaded = <<>>

\* The profile saved at the end has, for every surface it holds that had a
\* window when the application was asked to stop, the bounds of that window;
\* on Windows it has a place in the z-order for each of its surfaces.
StopKeepsWindows ==
    mpc = "done" => \A s \in Range(saved.surfaces) :
        /\ atStop[s] # None => saved.bounds[s] = atStop[s]
        /\ host = "windows" => s \in Range(saved.z)

\* The model's list of surfaces and the one shown meet again and again until
\* the application stops: no addition or removal stays unpublished.
TopologyShown == []<>(stop \/ mirror.surfaces = model.surfaces)

\* The size of a window reaches the model, however many reports are coalesced
\* and whenever a report meets a running drain.
SizeReachesModel ==
    \A s \in Ids :
        []<>(stop \/ <<s, "window">> \notin Range(loaded) \/ model.size[s] = native[s])

=============================================================================
