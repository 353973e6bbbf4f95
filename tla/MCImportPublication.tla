-------------------------- MODULE MCImportPublication --------------------------
(* Small instances of ImportPublication for TLC.                             *)
EXTENDS ImportPublication

None == {}
One == {1}
Two == {2}
=============================================================================
