--------------------------- MODULE MCNodeJournal ---------------------------
(* Events of one node: shared ones e1, e2, e3, local ones l1, l2, and two  *)
(* relationships that are opened and closed.                               *)
EXTENDS NodeJournal

CONSTANTS e1, e2, e3, l1, l2, a1, a2, r1, r2, s1, s2

\* Two shared events have one timestamp.
MCStamp == [e \in SharedEvent |-> IF e = e1 THEN 1 ELSE 2]
NoStamp == [e \in {} |-> 1]
MCAdds == [s \in ShareId |-> IF s = s1 THEN a1 ELSE a2]
MCRemoves == [s \in ShareId |-> IF s = s1 THEN r1 ELSE r2]

\* The last shared event builds on the first.
MCNeeds == {<<e3, e1>>}
NoNeeds == {}
=============================================================================
