---------------------------- MODULE MCRootLeases ----------------------------
(* Small instances of RootLeases for TLC.                                    *)
EXTENDS RootLeases

CONSTANTS scan, publisher, undo

ThreeClients == {scan, publisher, undo}
TwoRoots == {1, 2}
=============================================================================
