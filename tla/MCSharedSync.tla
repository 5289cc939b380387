---------------------------- MODULE MCSharedSync ----------------------------
(* A host h and a client p; every share is named after the endpoint its    *)
(* Link leads to.                                                          *)
EXTENDS SharedSync

CONSTANTS h, p, sh, sp, sp2

MCLinkEndpoint == [s \in {sh, sp, sp2} |-> IF s = sh THEN h ELSE p]
MCLinkEndpoint2 == [s \in {sh, sp} |-> IF s = sh THEN h ELSE p]

OneEach == [r \in {h, p} |-> 1]
HostTwo == [r \in {h, p} |-> IF r = h THEN 2 ELSE 0]

\* Nothing but what the fields given say.
Quiet == [faults |-> {}, exact |-> {}, crashing |-> {}, editors |-> {},
          authors |-> {h, p}]

\* Everything goes wrong with the transport and the processes.
Faulty == [Quiet EXCEPT !.faults = {"drop", "duplicate", "outage", "bindFails"},
                        !.crashing = {h, p}]

\* The host opens and closes relationships; the client gives a join up.
Editing == [Quiet EXCEPT !.faults = {"drop", "forget"}, !.crashing = {h},
                         !.exact = {p}, !.editors = {h}, !.authors = {h}]

\* Frames are lost, bindings fail and the host crashes, but not for ever.
Recovering == [Quiet EXCEPT !.faults = {"drop", "bindFails"}, !.crashing = {h}]

FaultyOrEditing == {Faulty, Editing}
OnlyRecovering == {Recovering}

\* Timestamps grow along each author's events and coincide between authors.
MCTimestamp == [e \in EventId |-> e[2]]

\* An event can be replayed only where its author's earlier ones are.
InOrder(journal, e) == e[2] = 1 \/ <<e[1], e[2] - 1>> \in journal

Always(journal, e) == TRUE
=============================================================================
