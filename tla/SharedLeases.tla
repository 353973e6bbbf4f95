----------------------------- MODULE SharedLeases -----------------------------
(***************************************************************************)
(* What the filesystem coordinator promises its users                      *)
(* (library_filesystem_coordinator.py, "Short per-root filesystem leases   *)
(* shared by scans and publishers"): a lease covers a set of library roots *)
(* as a whole, readers share, a writer is alone on each of its roots.      *)
(***************************************************************************)
CONSTANTS Roots, Clients

VARIABLES
  holds,  \* holds[c]: the roots of the lease c has, {} without one
  mode    \* mode[c]: "read", "write", or "none"

Compatible(c, m, R) ==
  \A d \in Clients \ {c}: holds[d] \intersect R # {} => m = "read" /\ mode[d] = "read"

Init ==
  /\ holds = [c \in Clients |-> {}]
  /\ mode = [c \in Clients |-> "none"]

Take(c, m, R) ==
  /\ mode[c] = "none"
  /\ R # {} /\ Compatible(c, m, R)
  /\ holds' = [holds EXCEPT ![c] = R]
  /\ mode' = [mode EXCEPT ![c] = m]

Drop(c) ==
  /\ mode[c] # "none"
  /\ holds' = [holds EXCEPT ![c] = {}]
  /\ mode' = [mode EXCEPT ![c] = "none"]

Next == \E c \in Clients:
  Drop(c) \/ \E m \in {"read", "write"}, R \in SUBSET Roots: Take(c, m, R)

Spec == Init /\ [][Next]_<<holds, mode>>
=============================================================================
