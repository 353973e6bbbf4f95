---------------------------- MODULE MCDownloadTask ----------------------------
(* Small instances of DownloadTask for TLC.                                  *)
EXTENDS DownloadTask, TLC

CONSTANTS r1, r2, k1, k2

OneRunner == {r1}
TwoRunners == {r1, r2}
OneCaller == {k1}
TwoCallers == {k1, k2}

Nobody == {}
Canceller == {"cancel"}
Switcher == {"next"}
CancelAndNext == {"cancel", "next"}
PickAndNext == {"pick", "next", "reap"}
Picker == {"pick"}
Importers == {"reimport", "cancel", "retry", "settle", "import"}
ReimportAndReap == {"reimport", "reap"}
Settlers == {"settle"}
Enders == {"next", "cancel", "reap"}
Elsewhere == {"import"}

\* Runners and callers are interchangeable where no liveness property is checked.
CoroutineSymmetry == Permutations(Runners) \union Permutations(Callers)
=============================================================================
