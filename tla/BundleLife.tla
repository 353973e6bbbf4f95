------------------------------ MODULE BundleLife ------------------------------
(***************************************************************************)
(* A publication bundle as the acquisition cleanup sees it: whatever the   *)
(* publisher, its recovery and an administrator do, these are its moves.   *)
(* AcquisitionCleanup is built on them (Publish, BundleMoves and           *)
(* ResolveBundle); ImportPublication implements them.                      *)
(***************************************************************************)
VARIABLE bundle

Init == bundle = "absent"

Publish == bundle \in {"absent", "rolled_back"} /\ bundle' = "publishing"
Commit == bundle = "publishing" /\ bundle' = "committed"
Complete == bundle = "committed" /\ bundle' = "completed"
RollBack == bundle = "publishing" /\ bundle' = "rolled_back"
GetStuck == bundle \in {"publishing", "committed"} /\ bundle' = "needs_attention"
Resolve == bundle = "needs_attention" /\ bundle' = "resolved"

Next == Publish \/ Commit \/ Complete \/ RollBack \/ GetStuck \/ Resolve

Spec == Init /\ [][Next]_bundle
=============================================================================
