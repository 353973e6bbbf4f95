------------------------ MODULE MCAcquisitionCleanup ------------------------
(* Small instances of AcquisitionCleanup for TLC.                            *)
EXTENDS AcquisitionCleanup, TLC

CONSTANTS w1, w2, p1, p2, nzb, peer

OneWorker == {w1}
TwoWorkers == {w1, w2}
OnePlan == {p1}
TwoPlans == {p1, p2}
OneNzb == {nzb}
OnePeer == {peer}
NoUsenet == {}

\* Workers are interchangeable in the safety runs; no temporal property is checked there.
WorkerSymmetry == Permutations(Workers)
=============================================================================
