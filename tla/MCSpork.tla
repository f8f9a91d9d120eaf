------------------------------ MODULE MCSpork ------------------------------
(* Instances of Spork for TLC.                                             *)
EXTENDS Spork

CONSTANTS n1, n2, n3

\* Three nodes in a line: n2 must relay.
LinePeers == [n \in {n1, n2, n3} |-> IF n = n2 THEN {n1, n3} ELSE {n2}]
=============================================================================
