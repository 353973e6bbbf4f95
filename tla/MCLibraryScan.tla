---------------------------- MODULE MCLibraryScan ----------------------------
(* Small instances of LibraryScan for TLC.                                   *)
EXTENDS LibraryScan

CONSTANTS r1, r2, s1, s2, p1, p2, p3

TwoRoots == [s \in {s1, s2} |-> IF s = s1 THEN r1 ELSE r2]
OneRoot == [s \in {s1, s2} |-> r1]
TwoScopes == [p \in {p1, p2, p3} |-> IF p = p3 THEN s2 ELSE s1]
=============================================================================
