------------------------------ MODULE SafeImport ------------------------------
(***************************************************************************)
(* What the publication of an import promises, whatever fails meanwhile:   *)
(* the bundle becomes part of the library as a whole, when the catalog     *)
(* adopts it, or not at all; until then the acquired files stay where they *)
(* are, and a file that is replaced goes to the recycle bin only afterwards.*)
(***************************************************************************)
CONSTANT Files

VARIABLES
  acquired,  \* files whose source is still there
  placed,    \* files that are at their destination in the library
  adopted,   \* the catalog knows them
  former     \* former[f]: where the file that f replaces is

Places == {"nothing", "library", "aside", "recycled"}

Init ==
  /\ acquired = Files /\ placed = {} /\ adopted = FALSE
  /\ former \in [Files -> {"nothing", "library"}]

Place(f) ==
  /\ ~adopted /\ placed' = placed \union {f}
  /\ UNCHANGED <<acquired, adopted, former>>
Withdraw(f) ==
  /\ ~adopted /\ placed' = placed \ {f}
  /\ UNCHANGED <<acquired, adopted, former>>
SetAside(f) ==
  /\ ~adopted /\ former[f] = "library" /\ former' = [former EXCEPT ![f] = "aside"]
  /\ UNCHANGED <<acquired, adopted, placed>>
\* It goes back to its path, whatever stands there.
PutBack(f) ==
  /\ ~adopted /\ placed' = placed \ {f}
  /\ former[f] = "aside" /\ former' = [former EXCEPT ![f] = "library"]
  /\ UNCHANGED <<acquired, adopted>>

Adopt ==
  /\ ~adopted /\ placed = Files /\ adopted' = TRUE
  /\ UNCHANGED <<acquired, placed, former>>

Release(f) ==
  /\ adopted /\ acquired' = acquired \ {f}
  /\ UNCHANGED <<adopted, placed, former>>
Recycle(f) ==
  /\ adopted /\ former[f] # "nothing" /\ former' = [former EXCEPT ![f] = "recycled"]
  /\ UNCHANGED <<acquired, adopted, placed>>

Next ==
  \/ Adopt
  \/ \E f \in Files: Place(f) \/ Withdraw(f) \/ SetAside(f) \/ PutBack(f) \/ Release(f) \/ Recycle(f)

Spec == Init /\ [][Next]_<<acquired, placed, adopted, former>>
=============================================================================
