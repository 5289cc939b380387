--------------------------- MODULE MCModelRuntime ---------------------------
(* Two nodes and two roots; one node is mapped to both.                    *)
EXTENDS ModelRuntime

CONSTANTS n1, n2, r1, r2

MCMapped0 == [n \in Node |-> IF n = n1 THEN Root ELSE {r1}]
=============================================================================
