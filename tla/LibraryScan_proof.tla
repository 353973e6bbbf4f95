--------------------------- MODULE LibraryScan_proof ---------------------------
(***************************************************************************)
(* Proofs about LibraryScan, for any roots, scopes and paths and any       *)
(* bounds: its types, what a step may do to the row of a run, that a       *)
(* completed run swept all of it and overlooked no file, and that the      *)
(* discovery fence keeps a track from being marked missing falsely.        *)
(***************************************************************************)
EXTENDS LibraryScan, TLAPS

\* The types of a run's row, of a scope, of an inventory row and of the worker.
Runs == [state: RunStates, control: {"none", "pause", "stop"}, resume: Working, policy: Policies]
ScopeRows == [found: {"pending", "completed", "partly", "unavailable"}, reconciled: BOOLEAN]
Rows == {"absent", "skipped", "new", "known", "changed", "done", "failed"}
Ats == {"idle", "scope", "walk", "walked", "left_scope", "left_walk", "index", "left_index",
        "commit", "fail", "reconcile", "left_reconcile"}
WorkerStates ==
  [at: Ats,
   todo: SUBSET Paths, scopes: SUBSET Scopes, scope: SUBSET Scopes, rev: Nat,
   restarts: 0..Rewalks, clean: BOOLEAN]
\* TypeOK with the types of its parts named.
Typed ==
  /\ run \in Runs /\ queued \in Policies \union {"none"}
  /\ scope \in [Scopes -> ScopeRows] /\ inventory \in [Paths -> Rows]
  /\ worker \in WorkerStates
  /\ pending \in BOOLEAN /\ crossed \in BOOLEAN /\ restarted \in BOOLEAN
  /\ fence \in [Roots -> Nat \union {NoFence}]
  /\ revision \in [Roots -> Nat] /\ publishing \subseteq Roots
  /\ disk \subseteq Paths /\ tracks \in [Paths -> {"none", "indexed", "missing"}]
  /\ policy \in Policies /\ steady \subseteq Paths
  /\ disturbed \in 0..MaxDisturbed

\* Typed says what the model's type invariant says.
LEMMA TypedIsTypeOK == Typed <=> TypeOK
  BY DEF Typed, TypeOK, Runs, ScopeRows, Rows, WorkerStates, Ats

USE ScopesAssumption, PathsAssumption, BoundsAssumption, FenceAssumption
-----------------------------------------------------------------------------
(* Types.                                                                   *)

\* What becomes of a run's row.
LEMMA RunTypes ==
  ASSUME NEW r \in Runs
  PROVE  /\ Settled(r) \in Runs /\ Recovered(r) \in Runs
         /\ \A state \in RunStates: [r EXCEPT !.state = state] \in Runs
         /\ r.state \in RunStates /\ r.control \in {"none", "pause", "stop"}
         /\ r.resume \in Working /\ r.policy \in Policies
  BY DEF Settled, Recovered, Runs, RunStates, Working, Terminal

\* What an interrupted run becomes is a run.
LEMMA OutcomeTyped == Typed => Outcome \in Runs
  BY RunTypes DEF Typed, Outcome, RunStates, Terminal

\* Settling a run keeps the types of what it writes.
LEMMA SettlesTyped ==
  ASSUME Typed, NEW r \in Runs, Settles(r)
  PROVE  run' \in Runs /\ pending' \in BOOLEAN /\ fence' \in [Roots -> Nat \union {NoFence}]
  BY DEF Typed, Settles, NoFences

\* The idle worker is a worker.
LEMMA IdleTyped == Idle \in WorkerStates
  BY DEF Idle, WorkerStates, Ats

\* The worker's record keeps its type under the updates the actions make.
LEMMA WorkerTyped ==
  ASSUME NEW w \in WorkerStates
  PROVE  /\ \A at \in Ats: [w EXCEPT !.at = at] \in WorkerStates
         /\ \A t \in SUBSET Paths: [w EXCEPT !.todo = t] \in WorkerStates
         /\ \A t \in SUBSET Paths: [w EXCEPT !.todo = t, !.clean = FALSE] \in WorkerStates
         /\ \A t \in SUBSET Paths, at \in Ats: [w EXCEPT !.at = at, !.todo = t] \in WorkerStates
         /\ \A t \in SUBSET Scopes: [w EXCEPT !.scopes = t] \in WorkerStates
         /\ \A t \in SUBSET Scopes, at \in Ats: [w EXCEPT !.at = at, !.scopes = t] \in WorkerStates
         /\ \A t \in SUBSET Scopes, at \in Ats:
              [w EXCEPT !.at = at, !.scopes = t, !.scope = {}] \in WorkerStates
         /\ w.at \in Ats /\ w.todo \in SUBSET Paths /\ w.scopes \in SUBSET Scopes
         /\ w.scope \in SUBSET Scopes /\ w.rev \in Nat /\ w.restarts \in 0..Rewalks
         /\ w.clean \in BOOLEAN
  BY DEF WorkerStates

\* Beginning a walk keeps the types.
LEMMA WalkTyped ==
  ASSUME Typed, NEW s \in Scopes, NEW n \in 0..Rewalks, Walk(s, n)
  PROVE  worker' \in WorkerStates /\ inventory' \in [Paths -> Rows]
  BY ZenonT(30) DEF Typed, Walk, WorkerStates, Ats, Rows

\* Entering discovery keeps the types.
LEMMA DiscoverTyped ==
  ASSUME Typed, NEW found, Discover(found)
  PROVE  /\ worker' \in WorkerStates /\ inventory' \in [Paths -> Rows]
         /\ scope' \in [Scopes -> ScopeRows]
  BY ZenonT(30), IdleTyped, WorkerTyped DEF Typed, Discover, Ats, Rows, ScopeRows

\* A checkpoint that says no keeps the types.
LEMMA LeaveTyped ==
  ASSUME Typed, NEW at \in {"left_scope", "left_walk", "left_index", "left_reconcile"}, Leave(at)
  PROVE  /\ worker' \in WorkerStates /\ run' \in Runs /\ pending' \in BOOLEAN
         /\ fence' \in [Roots -> Nat \union {NoFence}]
  <1>1. Settles(Outcome) /\ worker' = [worker EXCEPT !.at = at]
    BY DEF Leave
  <1>2. Outcome \in Runs
    BY OutcomeTyped
  <1>3. worker' \in WorkerStates
    BY ZenonT(30), <1>1, WorkerTyped DEF Typed, Ats
  <1> QED
    BY <1>1, <1>2, <1>3, SettlesTyped

\* Leaving a scope keeps the types.
LEMMA ScopeDoneTyped ==
  ASSUME Typed, NEW s \in Scopes, NEW found \in {"completed", "partly"}, ScopeDone(s, found)
  PROVE  worker' \in WorkerStates /\ scope' \in [Scopes -> ScopeRows]
  <1>1. worker' \in WorkerStates
    BY ZenonT(30), WorkerTyped DEF ScopeDone, Typed, Ats
  <1>2. scope' \in [Scopes -> ScopeRows]
    BY DEF ScopeDone, Typed, ScopeRows
  <1> QED
    BY <1>1, <1>2

\* The worker that begins to index or to reconcile is a worker.
LEMMA StartsTyped ==
  /\ [Idle EXCEPT !.at = "index"] \in WorkerStates
  /\ [Idle EXCEPT !.at = "reconcile", !.scopes = Scopes] \in WorkerStates
  <1>1. "index" \in Ats /\ "reconcile" \in Ats /\ Scopes \in SUBSET Scopes
    BY DEF Ats
  <1>2. [Idle EXCEPT !.at = "index"] \in WorkerStates
    BY <1>1, IdleTyped, WorkerTyped
  <1>3. [Idle EXCEPT !.at = "reconcile", !.scopes = Scopes] \in WorkerStates
    BY <1>1, IdleTyped, WorkerTyped
  <1> QED
    BY <1>2, <1>3

\* The bound holds.
LEMMA DisturbTyped == Typed /\ Disturb => disturbed' \in 0..MaxDisturbed
  BY DEF Typed, Disturb

\* Every step keeps the types.
LEMMA NextTyped == Typed /\ [Next]_vars => Typed'
  <1> SUFFICES ASSUME Typed, [Next]_vars PROVE Typed'
    OBVIOUS
  <1> USE DEF files, marks, calm, others, runVars
  <1>1. UNCHANGED vars => Typed'
    BY DEF vars, Typed
  <1>2. Claim => Typed'
    <2> SUFFICES ASSUME Claim PROVE Typed'
      OBVIOUS
    <2>1. run' \in Runs
      BY DEF Claim, Typed, Runs, RunStates, Working
    <2>2. /\ worker' \in WorkerStates /\ inventory' \in [Paths -> Rows]
          /\ scope' \in [Scopes -> ScopeRows]
      BY DiscoverTyped DEF Claim
    <2> QED
      BY <2>1, <2>2 DEF Claim, Typed, NoFences
  <1>3. TakeUp => Typed'
    <2> SUFFICES ASSUME TakeUp PROVE Typed'
      OBVIOUS
    <2>1. /\ worker' \in WorkerStates /\ inventory' \in [Paths -> Rows]
          /\ scope' \in [Scopes -> ScopeRows]
      <3>1. CASE Discover([s \in Scopes |-> scope[s].found])
        BY <3>1, DiscoverTyped
      <3>2. CASE worker' = [Idle EXCEPT !.at = "index"] /\ UNCHANGED <<scope, inventory>>
        BY <3>2, StartsTyped DEF Typed
      <3>3. CASE worker' = [Idle EXCEPT !.at = "reconcile", !.scopes = Scopes] /\ UNCHANGED <<scope, inventory>>
        BY <3>3, StartsTyped DEF Typed
      <3> QED
        BY <3>1, <3>2, <3>3 DEF TakeUp
    <2> QED
      BY <2>1 DEF TakeUp, Typed
  <1>4. LeaveScope \/ LeaveIndex \/ LeaveReconcile => Typed'
    BY LeaveTyped DEF LeaveScope, LeaveIndex, LeaveReconcile, Typed
  <1>5. LeaveWalk => Typed'
    <2> SUFFICES ASSUME LeaveWalk PROVE Typed'
      OBVIOUS
    <2>1. scope' \in [Scopes -> ScopeRows]
      BY SMTT(30) DEF LeaveWalk, Typed, ScopeRows
    <2> QED
      BY <2>1, LeaveTyped DEF LeaveWalk, Typed
  <1>6. WalkEnds => Typed'
    BY ZenonT(30), WorkerTyped DEF WalkEnds, Typed, Ats
  <1>7. EndDiscovery => Typed'
    <2> SUFFICES ASSUME EndDiscovery PROVE Typed'
      OBVIOUS
    <2>1. run' \in Runs /\ pending' \in BOOLEAN /\ fence' \in [Roots -> Nat \union {NoFence}]
      <3>1. /\ [run EXCEPT !.state = "failed"] \in Runs /\ [run EXCEPT !.state = "indexing"] \in Runs
            /\ Settled(run) \in Runs
        BY RunTypes DEF Typed, RunStates, Working, Terminal
      <3> QED
        BY <3>1, SettlesTyped DEF EndDiscovery, Typed
    <2>2. worker' \in WorkerStates
      BY IdleTyped, StartsTyped DEF EndDiscovery
    <2> QED
      BY <2>1, <2>2 DEF EndDiscovery, Typed
  <1>8. EndIndexing => Typed'
    <2> SUFFICES ASSUME EndIndexing PROVE Typed'
      OBVIOUS
    <2>1. run' \in Runs
      BY RunTypes DEF EndIndexing, Typed, RunStates, Working
    <2>2. worker' \in WorkerStates
      BY IdleTyped, StartsTyped DEF EndIndexing
    <2> QED
      BY <2>1, <2>2 DEF EndIndexing, Typed
  <1>9. EndReconciling \/ GiveUp => Typed'
    <2> SUFFICES ASSUME EndReconciling \/ GiveUp PROVE Typed'
      OBVIOUS
    <2>1. [run EXCEPT !.state = "completed"] \in Runs /\ Outcome \in Runs
      BY RunTypes, OutcomeTyped DEF Typed, RunStates, Terminal
    <2>2. run' \in Runs /\ pending' \in BOOLEAN /\ fence' \in [Roots -> Nat \union {NoFence}]
      BY <2>1, SettlesTyped DEF EndReconciling, GiveUp
    <2> QED
      BY <2>2, IdleTyped DEF EndReconciling, GiveUp, Typed
  <1>10. Return => Typed'
    <2> SUFFICES ASSUME Return PROVE Typed'
      OBVIOUS
    <2>1. /\ Settled(run) \in Runs /\ Outcome \in Runs
          /\ \A state \in RunStates: [run EXCEPT !.state = state] \in Runs
      BY RunTypes, OutcomeTyped DEF Typed
    <2>2. run' \in Runs /\ pending' \in BOOLEAN /\ fence' \in [Roots -> Nat \union {NoFence}]
      BY SMTT(30), <2>1, SettlesTyped DEF Return, Typed, RunStates, Working, Terminal
    <2>3. worker' \in WorkerStates
      <3>1. \/ worker' = Idle \/ worker' = [Idle EXCEPT !.at = "index"]
            \/ worker' = [Idle EXCEPT !.at = "reconcile", !.scopes = Scopes]
        BY DEF Return
      <3> QED
        BY <3>1, IdleTyped, StartsTyped
    <2> QED
      BY <2>2, <2>3 DEF Return, Typed
  <1>11. ASSUME NEW s \in Scopes PROVE NextScope(s) => Typed'
    BY WalkTyped DEF NextScope, Typed
  <1>12. ASSUME NEW s \in Scopes PROVE FenceHolds(s) => Typed'
    <2> SUFFICES ASSUME FenceHolds(s) PROVE Typed'
      OBVIOUS
    <2>1. PICK found \in {"completed", "partly"}: ScopeDone(s, found)
      BY DEF FenceHolds
    <2>2. worker' \in WorkerStates /\ scope' \in [Scopes -> ScopeRows]
      BY <2>1, ScopeDoneTyped
    <2>3. fence' \in [Roots -> Nat \union {NoFence}]
      BY WorkerTyped DEF FenceHolds, Typed
    <2> QED
      BY <2>1, <2>2, <2>3 DEF FenceHolds, ScopeDone, Typed
  <1>13. ASSUME NEW s \in Scopes PROVE FenceBroken(s) => Typed'
    <2> SUFFICES ASSUME FenceBroken(s) PROVE Typed'
      OBVIOUS
    <2>1. CASE worker.restarts < Rewalks /\ Walk(s, worker.restarts + 1) /\ UNCHANGED scope
      <3>1. worker.restarts + 1 \in 0..Rewalks
        BY <2>1 DEF Typed, WorkerStates
      <3> QED
        BY <2>1, <3>1, WalkTyped DEF FenceBroken, Typed
    <2>2. CASE ScopeDone(s, "partly")
      <3>1. worker' \in WorkerStates /\ scope' \in [Scopes -> ScopeRows]
        BY <2>2, ScopeDoneTyped
      <3> QED
        BY <2>2, <3>1 DEF FenceBroken, ScopeDone, Typed
    <2> QED
      BY <2>1, <2>2 DEF FenceBroken
  <1>14. ASSUME NEW s \in Scopes PROVE Reconcile(s) => Typed'
    <2> SUFFICES ASSUME Reconcile(s) PROVE Typed'
      OBVIOUS
    <2>1. scope' \in [Scopes -> ScopeRows]
      BY ZenonT(60) DEF Reconcile, Typed, ScopeRows
    <2>3. worker' \in WorkerStates
      BY WorkerTyped DEF Reconcile, Typed
    <2>2. tracks' \in [Paths -> {"none", "indexed", "missing"}]
      BY DEF Reconcile, Typed
    <2> QED
      BY <2>1, <2>2, <2>3 DEF Reconcile, Typed
  <1>15. ASSUME NEW p \in Paths PROVE WalkPath(p) => Typed'
    <2> SUFFICES ASSUME WalkPath(p) PROVE Typed'
      OBVIOUS
    <2>1. worker' \in WorkerStates
      BY WorkerTyped DEF WalkPath, Typed
    <2>2. inventory' \in [Paths -> Rows]
      BY SMTT(30) DEF WalkPath, Typed, Rows
    <2>3. disturbed' \in 0..MaxDisturbed
      BY DisturbTyped DEF WalkPath, Typed
    <2> QED
      BY <2>1, <2>2, <2>3 DEF WalkPath, Typed
  <1>16. ASSUME NEW p \in Paths PROVE IndexRow(p) => Typed'
    <2> SUFFICES ASSUME IndexRow(p) PROVE Typed'
      OBVIOUS
    <2>1. worker' \in WorkerStates
      <3>1. worker \in WorkerStates /\ {p} \in SUBSET Paths /\ "commit" \in Ats /\ "fail" \in Ats
        BY DEF Typed, Ats
      <3>2. \/ worker' = worker \/ worker' = [worker EXCEPT !.at = "commit", !.todo = {p}]
            \/ worker' = [worker EXCEPT !.at = "fail", !.todo = {p}]
        BY DEF IndexRow
      <3>3. /\ [worker EXCEPT !.at = "commit", !.todo = {p}] \in WorkerStates
            /\ [worker EXCEPT !.at = "fail", !.todo = {p}] \in WorkerStates
        BY <3>1, WorkerTyped
      <3> QED
        BY <3>1, <3>2, <3>3
    <2>2. inventory' \in [Paths -> Rows]
      BY SMTT(30) DEF IndexRow, Typed, Rows
    <2>3. disturbed' \in 0..MaxDisturbed
      BY DisturbTyped DEF IndexRow, Typed
    <2> QED
      BY <2>1, <2>2, <2>3 DEF IndexRow, Typed
  <1>17. ASSUME NEW p \in Paths PROVE CommitRow(p) => Typed'
    <2> SUFFICES ASSUME CommitRow(p) PROVE Typed'
      OBVIOUS
    <2>1. worker' \in WorkerStates
      BY ZenonT(30), WorkerTyped DEF CommitRow, Typed, Ats
    <2>2. inventory' \in [Paths -> Rows]
      BY DEF CommitRow, Typed, Rows
    <2> QED
      BY <2>1, <2>2 DEF CommitRow, Typed
  <1>18. Request \/ StopQueued \/ ChangePolicy => Typed'
    BY DisturbTyped DEF Request, StopQueued, ChangePolicy, Typed, Policies
  <1>19. Pause \/ Resume \/ Stop => Typed'
    <2>1. ASSUME NEW state \in RunStates, NEW control \in {"none", "pause", "stop"},
                 Controlled(state, control), control = "pause" => run.state \in Working,
                 crossed' \in BOOLEAN
          PROVE  Typed'
      <3>1. run' \in Runs
        BY <2>1 DEF Controlled, Typed, Runs
      <3> QED
        BY <2>1, <3>1, DisturbTyped DEF Controlled, Typed, NoFences
    <2>2. run.resume \in RunStates
      BY RunTypes DEF Typed, RunStates
    <2> QED
      BY <2>1, <2>2 DEF Pause, Resume, Stop, Typed, RunStates, Working, Terminal
  <1>20. Restart => Typed'
    <2> SUFFICES ASSUME Restart PROVE Typed'
      OBVIOUS
    <2>1. run' \in Runs
      BY RunTypes DEF Restart, Typed
    <2> QED
      BY <2>1, IdleTyped, DisturbTyped DEF Restart, Typed, NoFences
  <1>21. WalkDegrades => Typed'
    <2> SUFFICES ASSUME WalkDegrades PROVE Typed'
      OBVIOUS
    <2>1. worker' \in WorkerStates
      <3>1. worker \in WorkerStates /\ worker.todo \in SUBSET Paths
        BY WorkerTyped DEF Typed
      <3>2. PICK p \in worker.todo: worker' = [worker EXCEPT !.todo = worker.todo \ {p}, !.clean = FALSE]
        BY DEF WalkDegrades
      <3>3. worker.todo \ {p} \in SUBSET Paths
        BY <3>1
      <3> QED
        BY <3>1, <3>2, <3>3, WorkerTyped
    <2> QED
      BY <2>1, DisturbTyped DEF WalkDegrades, Typed
  <1>22. WorkerFails => Typed'
    <2> SUFFICES ASSUME WorkerFails PROVE Typed'
      OBVIOUS
    <2>1. [run EXCEPT !.state = "failed"] \in Runs /\ Settled(run) \in Runs
      BY RunTypes DEF Typed, RunStates, Terminal
    <2>2. run' \in Runs /\ pending' \in BOOLEAN /\ fence' \in [Roots -> Nat \union {NoFence}]
      BY <2>1, SettlesTyped DEF WorkerFails
    <2> QED
      BY <2>2, IdleTyped, DisturbTyped DEF WorkerFails, Typed
  <1>23. ASSUME NEW s \in Scopes PROVE Unavailable(s) => Typed'
    <2> SUFFICES ASSUME Unavailable(s) PROVE Typed'
      OBVIOUS
    <2>1. worker' \in WorkerStates
      BY WorkerTyped DEF Unavailable, Typed
    <2>2. scope' \in [Scopes -> ScopeRows]
      BY DEF Unavailable, Typed, ScopeRows
    <2> QED
      BY <2>1, <2>2, DisturbTyped DEF Unavailable, Typed
  <1>24. ASSUME NEW s \in Scopes PROVE Stall(s) => Typed'
    <2> SUFFICES ASSUME Stall(s) PROVE Typed'
      OBVIOUS
    <2>1. worker.restarts + 1 \in 0..Rewalks
      BY DEF Stall, Typed, WorkerStates
    <2> QED
      BY <2>1, WalkTyped, DisturbTyped DEF Stall, Typed
  <1>25. ASSUME NEW p \in Paths, NEW q \in Paths PROVE Publish(p, q) => Typed'
    BY DisturbTyped DEF Publish, Typed
  <1>26. ASSUME NEW r \in Roots PROVE Released(r) => Typed'
    BY DEF Released, Typed
  <1>27. ASSUME NEW p \in Paths PROVE UserAdds(p) \/ UserDeletes(p) => Typed'
    BY DisturbTyped DEF UserAdds, UserDeletes, Typed
  <1> HIDE DEF files, marks, calm, others, runVars
  <1> QED
    BY <1>1, <1>2, <1>3, <1>4, <1>5, <1>6, <1>7, <1>8, <1>9, <1>10, <1>11, <1>12, <1>13, <1>14,
       <1>15, <1>16, <1>17, <1>18, <1>19, <1>20, <1>21, <1>22, <1>23, <1>24, <1>25, <1>26, <1>27
       DEF Next, Work

\* The initial state has its types.
LEMMA InitTyped == Init => Typed
  <1> SUFFICES ASSUME Init PROVE Typed
    OBVIOUS
  <1>1. run \in Runs /\ queued \in Policies \union {"none"} /\ policy \in Policies
    BY DEF Init, Runs, RunStates, Working, Terminal, Policies
  <1>2. scope \in [Scopes -> ScopeRows] /\ inventory \in [Paths -> Rows]
    BY DEF Init, ScopeRows, Rows
  <1>3. tracks \in [Paths -> {"none", "indexed", "missing"}] /\ revision \in [Roots -> Nat]
    BY DEF Init
  <1>4. fence \in [Roots -> Nat \union {NoFence}]
    BY DEF Init, NoFences
  <1>5. disturbed \in 0..MaxDisturbed
    BY DEF Init
  <1>6. disk \subseteq Paths /\ steady \subseteq Paths /\ publishing \subseteq Roots
    BY DEF Init
  <1> QED
    BY <1>1, <1>2, <1>3, <1>4, <1>5, <1>6, IdleTyped DEF Init, Typed

\* ... and so has every state.
LEMMA AlwaysTyped == Spec => []Typed
  BY InitTyped, NextTyped, PTL DEF Spec

\* Every variable of a scan has its type, for any roots, scopes, paths and bounds.
THEOREM ScanTyped == Spec => []TypeOK
  BY AlwaysTyped, TypedIsTypeOK, PTL
-----------------------------------------------------------------------------
(* What a step may do to the row of the run.                                *)

\* All the ways in which a step may change the row.
Kinds ==
  \/ run' = run
  \/ /\ run.state \in Terminal /\ queued # "none"
     /\ run' = [state |-> "discovering", control |-> "none", resume |-> "discovering",
                policy |-> queued]
  \/ run' = Settled(run)
  \/ run' = Outcome
  \/ run.state \in Working /\ \E state \in Working \union {"completed", "failed"}:
       run' = [run EXCEPT !.state = state]
  \/ /\ run.state \in Working
     /\ run' = [run EXCEPT !.state = "pausing", !.control = "pause", !.resume = run.state]
  \/ /\ run.state = "paused"
     /\ run' = [run EXCEPT !.state = run.resume, !.control = "none", !.resume = @]
  \/ /\ run.state = "paused"
     /\ run' = [run EXCEPT !.state = "cancelled", !.control = "none", !.resume = @]
  \/ /\ run.state \in Working \union {"pausing"}
     /\ run' = [run EXCEPT !.state = "stopping", !.control = "stop", !.resume = @]
  \/ run' = Recovered(run)

\* Each action changes the row in one of these ways.
LEMMA StepKinds == [Next]_vars => Kinds
  <1> SUFFICES ASSUME [Next]_vars PROVE Kinds
    OBVIOUS
  <1> USE DEF calm, others, runVars
  <1>1. Claim => Kinds
    BY DEF Claim, Kinds
  <1>2. \/ UNCHANGED vars \/ TakeUp \/ WalkEnds \/ Request \/ StopQueued \/ ChangePolicy \/ WalkDegrades
        \/ \E s \in Scopes: \/ NextScope(s) \/ FenceHolds(s) \/ FenceBroken(s) \/ Reconcile(s)
                            \/ Unavailable(s) \/ Stall(s)
        \/ \E p \in Paths: WalkPath(p) \/ IndexRow(p) \/ CommitRow(p) \/ UserAdds(p) \/ UserDeletes(p)
        \/ \E p, q \in Paths: Publish(p, q)
        \/ \E r \in Roots: Released(r)
        => run' = run
    BY DEF vars, TakeUp, WalkEnds, Request, StopQueued, ChangePolicy, WalkDegrades, NextScope,
           FenceHolds, FenceBroken, Reconcile, Unavailable, Stall, WalkPath, IndexRow, CommitRow,
           UserAdds, UserDeletes, Publish, Released
  <1>3. LeaveScope \/ LeaveWalk \/ LeaveIndex \/ LeaveReconcile \/ GiveUp => run' = Outcome
    BY DEF LeaveScope, LeaveWalk, LeaveIndex, LeaveReconcile, GiveUp, Leave, Settles
  <1>4. EndDiscovery \/ EndIndexing \/ EndReconciling => Kinds
    BY DEF EndDiscovery, EndIndexing, EndReconciling, Settles, Kinds, Working
  <1>5. Return => Kinds
    BY DEF Return, Settles, Kinds, Working
  <1>6. WorkerFails => Kinds
    BY DEF WorkerFails, Settles, Kinds
  <1>7. Restart => Kinds
    BY DEF Restart, Kinds
  <1>8. Pause => Kinds
    BY DEF Pause, Controlled, Kinds
  <1>9. Resume => Kinds
    BY DEF Resume, Controlled, Kinds
  <1>10. Stop => Kinds
    BY DEF Stop, Controlled, Kinds
  <1>11. run' = run \/ run' = Outcome => Kinds
    BY DEF Kinds
  <1> QED
    BY <1>1, <1>2, <1>3, <1>4, <1>5, <1>6, <1>7, <1>8, <1>9, <1>10, <1>11 DEF Next, Work

\* The control that is noted is that of the state.
Controls ==
  /\ run.state = "stopping" <=> run.control = "stop"
  /\ run.state = "pausing" => run.control = "pause"
  /\ run.control = "pause" => run.state \in {"pausing", "superseded"}

\* What a settled, an interrupted and a recovered row look like.
LEMMA Settlements ==
  ASSUME Typed, Controls
  PROVE  /\ Settled(run).state \in {run.state, "paused", "cancelled"}
         /\ run.state \notin {"pausing", "stopping"} => Settled(run) = run
         /\ run.state = "stopping" => Settled(run).state = "cancelled" /\ Outcome.state = "cancelled"
                                      /\ Recovered(run).state = "cancelled"
         /\ run.state \in Terminal => Outcome = run
         /\ run.state \in Terminal /\ run.control # "pause" => Recovered(run) = run
  BY DEF Typed, Controls, Settled, Outcome, Recovered, Runs, RunStates, Working, Terminal

\* Every step keeps the noted control in line with the state.
LEMMA ControlsKept == Typed /\ Controls /\ [Next]_vars => Controls'
  <1> SUFFICES ASSUME Typed, Controls, Kinds PROVE Controls'
    BY StepKinds
  <1> USE DEF Controls, Typed, Runs, RunStates, Working, Terminal
  <1>1. CASE run' = run
    BY <1>1
  <1>2. CASE run' = Settled(run)
    BY <1>2 DEF Settled
  <1>3. CASE run' = Outcome
    BY <1>3 DEF Outcome, Settled
  <1>4. CASE run' = Recovered(run)
    BY <1>4 DEF Recovered
  <1>5. ASSUME run.state \in Working, NEW state \in Working \union {"completed", "failed"},
               run' = [run EXCEPT !.state = state]
        PROVE  Controls'
    BY <1>5
  <1>6. CASE run.state \in Working
             /\ run' = [run EXCEPT !.state = "pausing", !.control = "pause", !.resume = run.state]
    BY <1>6
  <1>7. CASE run.state = "paused"
             /\ run' = [run EXCEPT !.state = run.resume, !.control = "none", !.resume = @]
    BY <1>7
  <1>8. CASE run' = [run EXCEPT !.state = "cancelled", !.control = "none", !.resume = @]
    BY <1>8
  <1>9. CASE run' = [run EXCEPT !.state = "stopping", !.control = "stop", !.resume = @]
    BY <1>9
  <1>10. CASE run' = [state |-> "discovering", control |-> "none", resume |-> "discovering",
                      policy |-> queued]
    BY <1>10
  <1> QED
    BY <1>1, <1>2, <1>3, <1>4, <1>5, <1>6, <1>7, <1>8, <1>9, <1>10 DEF Kinds

\* ... so it is in line in every state.
LEMMA AlwaysControls == Spec => [](Typed /\ Controls)
  <1>1. Init => Controls
    BY DEF Init, Controls
  <1> QED
    BY <1>1, InitTyped, NextTyped, ControlsKept, PTL DEF Spec

\* A stop that was accepted ends the run as cancelled, whatever happens meanwhile.
THEOREM AcceptedStopWins == Spec => StopWins
  <1>1. Typed /\ Controls /\ [Next]_vars /\ run.state = "stopping"
        => run'.state \in {"stopping", "cancelled"}
    <2> SUFFICES ASSUME Typed, Controls, Kinds, run.state = "stopping"
                 PROVE  run'.state \in {"stopping", "cancelled"}
      BY StepKinds
    <2> QED
      BY Settlements DEF Kinds, Working, Terminal
  <1> QED
    BY <1>1, AlwaysControls, PTL DEF Spec, StopWins

\* A run that has ended is not touched again, but for one superseded while it was being paused.
THEOREM EndedRunsStay == Spec => EndedStays
  <1> DEFINE Stays == run'.state = run.state \/ (run'.state = "discovering" /\ queued # "none")
  <1>1. Typed /\ Controls /\ [Next]_vars /\ run.state \in Terminal /\ run.control # "pause" => Stays
    <2> SUFFICES ASSUME Typed, Controls, Kinds, run.state \in Terminal, run.control # "pause"
                 PROVE  Stays
      BY StepKinds
    <2> QED
      BY Settlements DEF Kinds, Working, Terminal
  <1> QED
    BY <1>1, AlwaysControls, PTL DEF Spec, EndedStays
-----------------------------------------------------------------------------
(* Where the worker is.                                                     *)

\* The worker walks scopes, is at work, or is on its way out.
Walking == {"scope", "walk", "walked"}
Busy == Walking \union {"index", "commit", "fail", "reconcile"}
Leaving == {"left_scope", "left_walk", "left_index", "left_reconcile"}

\* While the worker is busy its run is under way or is being paused or stopped.
AtWork ==
  /\ worker.at \in Busy => run.state \in Working \union {"pausing", "stopping"}
  /\ run.state = "completed" => worker.at = "idle"

\* The scopes that are still to be walked, the one that is walked and its paths, the row that is
\* committed.
Open ==
  /\ worker.at \in Walking => \A s \in worker.scopes:
       scope[s].found # "completed" /\ ~scope[s].reconciled
  /\ worker.at \in {"walk", "walked"} => worker.scope \subseteq worker.scopes
  /\ worker.at = "walked" => worker.todo = {}
  /\ worker.at = "walk" => \A p \in worker.todo: ScopeOf[p] \in worker.scope
  /\ worker.at \in {"commit", "fail"} => \A p \in worker.todo: inventory[p] \in {"new", "changed"}

\* The controls, the leases and the other runs leave the sweep alone.
LEMMA QuietSteps ==
  \/ UNCHANGED vars \/ Pause \/ Resume \/ Stop \/ Request \/ StopQueued \/ ChangePolicy
  \/ \E r \in Roots: Released(r)
  => UNCHANGED <<scope, inventory, worker, disk, tracks, steady>>
  BY DEF vars, Pause, Resume, Stop, Controlled, Request, StopQueued, ChangePolicy, Released,
         runVars, files

\* The steps after which the worker is idle.
LEMMA EndSteps ==
  EndReconciling \/ GiveUp \/ WorkerFails \/ Restart
  => worker' = Idle /\ UNCHANGED <<scope, inventory, disk, tracks, steady>>
  BY DEF EndReconciling, GiveUp, WorkerFails, Restart, calm, others, files

\* A checkpoint that says no.
LEMMA LeaveSteps ==
  ASSUME Typed, LeaveScope \/ LeaveIndex \/ LeaveReconcile \/ LeaveWalk
  PROVE  /\ worker'.at \in Leaving /\ worker.at \in Busy
         /\ run' = Outcome /\ ~GoesOn
         /\ UNCHANGED <<inventory, disk, tracks, steady, crossed>>
         /\ \/ scope' = scope
            \/ scope' = [s \in Scopes |-> IF s \in worker.scope THEN [scope[s] EXCEPT !.found = "partly"]
                                          ELSE scope[s]]
  BY DEF LeaveScope, LeaveIndex, LeaveReconcile, LeaveWalk, Leave, Settles, Typed, WorkerStates,
         Leaving, Busy, Walking, calm, others, marks

\* The scope that is walked from the start.
LEMMA WalkFields ==
  ASSUME Typed, NEW s \in Scopes, NEW n, Walk(s, n)
  PROVE  /\ worker'.at = "walk" /\ worker'.scope = {s} /\ worker'.scopes = worker.scopes
         /\ worker'.todo = {p \in Paths: ScopeOf[p] = s} /\ worker'.clean = TRUE
         /\ worker'.rev = revision[RootOf[s]]
  BY DEF Walk, Typed, WorkerStates

\* The worker as it begins a phase.
LEMMA IdleFields ==
  /\ Idle.at = "idle" /\ [Idle EXCEPT !.at = "index"].at = "index"
  /\ [Idle EXCEPT !.at = "index"].todo = {}
  /\ [Idle EXCEPT !.at = "reconcile", !.scopes = Scopes].at = "reconcile"
  /\ [Idle EXCEPT !.at = "reconcile", !.scopes = Scopes].scopes = Scopes
  BY DEF Idle

\* Where an action of the worker takes it.
LEMMA Ways ==
  ASSUME Typed
  PROVE  /\ Claim => worker'.at = "scope"
         /\ TakeUp => worker'.at \in {"scope", "index", "reconcile"}
         /\ WalkEnds => /\ worker'.at = "walked" /\ worker'.todo = {} /\ worker'.scope = worker.scope
                        /\ worker'.scopes = worker.scopes /\ worker'.clean = worker.clean
                        /\ worker'.rev = worker.rev
         /\ EndIndexing => worker'.at = "reconcile" /\ worker'.scopes = Scopes
         /\ EndDiscovery => worker' = Idle \/ (worker'.at = "index" /\ run'.state = "indexing")
  BY ZenonT(60), IdleFields DEF Claim, TakeUp, WalkEnds, EndIndexing, EndDiscovery, Discover, Typed, WorkerStates, Idle, Runs

\* The worker stays in its part of the run.
SamePhase ==
  /\ worker.at \in Walking <=> worker'.at \in Walking
  /\ worker.at = "reconcile" <=> worker'.at = "reconcile"

\* The steps that leave the worker busy and the row alone.
LEMMA StaysBusy ==
  ASSUME Typed,
         \/ WalkEnds \/ WalkDegrades
         \/ \E s \in Scopes: \/ NextScope(s) \/ FenceHolds(s) \/ FenceBroken(s) \/ Reconcile(s)
                             \/ Unavailable(s) \/ Stall(s)
         \/ \E p \in Paths: WalkPath(p) \/ IndexRow(p) \/ CommitRow(p)
  PROVE  worker.at \in Busy /\ worker'.at \in Busy /\ run' = run /\ SamePhase
  <1> USE DEF Busy, Walking, Typed, WorkerStates, SamePhase
  <1>1. WalkEnds \/ WalkDegrades => worker.at \in Busy /\ worker'.at \in Busy /\ run' = run /\ SamePhase
    BY DEF WalkEnds, WalkDegrades
  <1>2. ASSUME NEW s \in Scopes, NEW n, Walk(s, n)
        PROVE  worker'.at = "walk"
    BY <1>2, WalkFields
  <1>3. ASSUME NEW s \in Scopes, NextScope(s) \/ FenceHolds(s) \/ FenceBroken(s) \/ Stall(s)
        PROVE  worker.at \in Busy /\ worker'.at \in Busy /\ run' = run /\ SamePhase
    BY <1>2, <1>3 DEF NextScope, FenceHolds, FenceBroken, Stall, ScopeDone
  <1>4. ASSUME NEW s \in Scopes, Reconcile(s) \/ Unavailable(s)
        PROVE  worker.at \in Busy /\ worker'.at \in Busy /\ run' = run /\ SamePhase
    BY <1>4 DEF Reconcile, Unavailable
  <1>5. ASSUME NEW p \in Paths, WalkPath(p) \/ IndexRow(p) \/ CommitRow(p)
        PROVE  worker.at \in Busy /\ worker'.at \in Busy /\ run' = run /\ SamePhase
    BY ZenonT(60), <1>5 DEF WalkPath, IndexRow, CommitRow
  <1> QED
    BY <1>1, <1>3, <1>4, <1>5

\* Every step keeps a busy worker's run under way.
LEMMA AtWorkKept == Typed /\ Controls /\ AtWork /\ [Next]_vars => AtWork'
  <1> SUFFICES ASSUME Typed, Controls, AtWork, [Next]_vars PROVE AtWork'
    OBVIOUS
  <1> USE DEF AtWork
  <1>1. CASE worker'.at = "idle"
    BY <1>1 DEF Busy, Walking
  <1>2. CASE worker'.at \in Busy /\ run'.state \in Working
    BY <1>2 DEF Busy, Walking, Working
  <1>3. CASE worker'.at \in Busy /\ worker.at \in Busy /\ run' = run
    BY <1>3 DEF Busy, Walking, Working
  <1>4. CASE LeaveScope \/ LeaveIndex \/ LeaveReconcile \/ LeaveWalk
    <2>1. worker'.at \in Leaving /\ worker.at \in Busy /\ run' = Outcome
      BY <1>4, LeaveSteps
    <2>2. run.state # "completed" => Outcome.state # "completed"
      BY DEF Outcome, Settled, Typed, Runs
    <2> QED
      BY <2>1, <2>2 DEF Busy, Walking, Leaving, Working
  <1>5. CASE worker' = worker /\ (run' = run \/ Pause \/ Resume \/ Stop)
    BY <1>5 DEF Pause, Resume, Stop, Controlled, Typed, Runs, Working, Terminal, Busy, Walking
  <1>6. Claim \/ TakeUp \/ EndDiscovery \/ EndIndexing => AtWork'
    BY <1>1, <1>2, Ways, IdleFields
       DEF Claim, TakeUp, EndDiscovery, EndIndexing, Typed, Runs, Working, Busy, Walking
  <1>7. Return => AtWork'
    BY <1>1, <1>2, IdleFields DEF Return, Typed, Runs, Working, Busy, Walking
  <1>8. \/ WalkEnds \/ WalkDegrades
        \/ \E s \in Scopes: \/ NextScope(s) \/ FenceHolds(s) \/ FenceBroken(s) \/ Reconcile(s)
                            \/ Unavailable(s) \/ Stall(s)
        \/ \E p \in Paths: WalkPath(p) \/ IndexRow(p) \/ CommitRow(p)
        => AtWork'
    BY <1>3, StaysBusy
  <1>9. EndReconciling \/ GiveUp \/ WorkerFails \/ Restart => AtWork'
    BY <1>1, EndSteps, IdleFields
  <1>10. \/ \E p, q \in Paths: Publish(p, q)
         \/ \E p \in Paths: UserAdds(p) \/ UserDeletes(p)
         => AtWork'
    BY <1>5 DEF Publish, UserAdds, UserDeletes, runVars
  <1>11. \/ UNCHANGED vars \/ Pause \/ Resume \/ Stop \/ Request \/ StopQueued \/ ChangePolicy
         \/ \E r \in Roots: Released(r)
         => AtWork'
    BY <1>5, QuietSteps DEF vars, Request, StopQueued, ChangePolicy, Released, runVars
  <1> QED
    BY <1>4, <1>6, <1>7, <1>8, <1>9, <1>10, <1>11 DEF Next, Work

\* What entering discovery leaves open, and empties.
LEMMA DiscoverFields ==
  ASSUME Typed, NEW found, Discover(found)
  PROVE  /\ worker'.at = "scope" /\ worker'.scopes \subseteq Scopes
         /\ \A s \in Scopes: s \in worker'.scopes <=> found[s] # "completed"
         /\ \A s \in Scopes: found[s] # "completed" => scope'[s].found = "pending" /\ ~scope'[s].reconciled
         /\ \A s \in Scopes: found[s] = "completed" => scope'[s] = scope[s]
         /\ \A p \in Paths: found[ScopeOf[p]] # "completed" => inventory'[p] = "absent"
         /\ \A p \in Paths: found[ScopeOf[p]] = "completed" => inventory'[p] = inventory[p]
  BY DEF Discover, Typed, Idle

\* A scope that the worker is through with.
LEMMA ScopeDoneFields ==
  ASSUME Typed, NEW s \in Scopes, NEW found \in {"completed", "partly"}, ScopeDone(s, found)
  PROVE  /\ worker'.at = "scope" /\ worker'.scopes = worker.scopes \ {s}
         /\ inventory' = inventory
         /\ \A t \in Scopes: /\ scope'[t].reconciled = scope[t].reconciled
                             /\ scope'[t].found = IF t = s THEN found ELSE scope[t].found
  BY DEF ScopeDone, Typed, WorkerStates, ScopeRows

\* Every step keeps the scopes that are still to be walked open.
LEMMA OpenKept == Typed /\ Open /\ [Next]_vars => Open'
  <1> SUFFICES ASSUME Typed, Open, [Next]_vars PROVE Open'
    OBVIOUS
  <1> USE DEF Open
  <1>1. CASE worker'.at \notin Walking \union {"commit", "fail"}
    BY <1>1 DEF Walking
  <1>2. CASE UNCHANGED <<scope, inventory, worker>>
    BY <1>2
  <1>3. Claim \/ TakeUp => Open'
    <2>1. ASSUME NEW found, Discover(found) PROVE Open'
      <3>1. /\ worker'.at = "scope" /\ worker'.scopes \subseteq Scopes
            /\ \A s \in Scopes: s \in worker'.scopes <=> found[s] # "completed"
        BY <2>1, DiscoverFields
      <3>2. \A s \in worker'.scopes: scope'[s].found = "pending" /\ ~scope'[s].reconciled
        BY <2>1, <3>1, DiscoverFields
      <3> QED
        BY <3>1, <3>2
    <2> QED
      BY <2>1, <1>1, IdleFields DEF Claim, TakeUp, Walking
  <1>4. ASSUME NEW s \in Scopes, NEW n, Walk(s, n), s \in worker.scopes, scope' = scope,
               worker.at \in Walking
        PROVE  Open'
    <2>1. /\ worker'.at = "walk" /\ worker'.scopes = worker.scopes
          /\ worker'.scope = {s} /\ worker'.todo = {p \in Paths: ScopeOf[p] = s}
      BY ZenonT(30), <1>4, WalkFields
    <2>2. /\ worker'.scope \subseteq worker'.scopes
          /\ \A p \in worker'.todo: ScopeOf[p] \in worker'.scope
      BY <1>4, <2>1
    <2> QED
      BY <1>4, <2>1, <2>2
  <1>5. ASSUME NEW s \in Scopes, NEW found \in {"completed", "partly"}, ScopeDone(s, found),
               worker.at \in Walking
        PROVE  Open'
    <2>1. worker'.scopes \in SUBSET Scopes
      BY <1>5, ScopeDoneTyped, WorkerTyped
    <2> QED
      BY <1>5, <2>1, ScopeDoneFields DEF Walking
  <1>6. ASSUME NEW s \in Scopes, NextScope(s) \/ FenceHolds(s) \/ FenceBroken(s) \/ Stall(s)
        PROVE  Open'
    BY <1>4, <1>5, <1>6 DEF NextScope, FenceHolds, FenceBroken, Stall, Walking
  <1>7. ASSUME NEW s \in Scopes PROVE Unavailable(s) => Open'
    <2> SUFFICES ASSUME Unavailable(s) PROVE Open'
      OBVIOUS
    <2>1. worker'.at = "scope" /\ worker'.scopes = worker.scopes \ {s} /\ worker.scopes \in SUBSET Scopes
      BY DEF Unavailable, Typed, WorkerStates
    <2>2. \A t \in Scopes \ {s}: scope'[t] = scope[t]
      BY DEF Unavailable, Typed
    <2> QED
      BY <2>1, <2>2 DEF Unavailable, Walking
  <1>8. ASSUME NEW s \in Scopes PROVE Reconcile(s) => Open'
    BY <1>1 DEF Reconcile, Typed, WorkerStates, Walking
  <1>9. ASSUME NEW p \in Paths PROVE WalkPath(p) => Open'
    BY DEF WalkPath, Typed, WorkerStates, Walking
  <1>10. ASSUME NEW p \in Paths PROVE IndexRow(p) => Open'
    <2> SUFFICES ASSUME IndexRow(p) PROVE Open'
      OBVIOUS
    <2>1. CASE worker' = worker
      BY <2>1, <1>1 DEF IndexRow, Walking
    <2>2. CASE /\ \/ worker' = [worker EXCEPT !.at = "commit", !.todo = {p}]
                  \/ worker' = [worker EXCEPT !.at = "fail", !.todo = {p}]
               /\ inventory' = inventory /\ inventory[p] \in {"new", "changed"}
      <3>1. worker'.at \in {"commit", "fail"} /\ worker'.todo = {p}
        BY <2>2 DEF Typed, WorkerStates
      <3> QED
        BY <2>2, <3>1 DEF Walking
    <2> QED
      BY <2>1, <2>2 DEF IndexRow
  <1>11. ASSUME NEW p \in Paths PROVE CommitRow(p) => Open'
    BY <1>1 DEF CommitRow, Typed, WorkerStates, Walking
  <1>12. WalkEnds => Open'
    BY Ways DEF WalkEnds, Walking
  <1>13. WalkDegrades => Open'
    BY DEF WalkDegrades, Typed, WorkerStates, Walking
  <1>14. LeaveScope \/ LeaveIndex \/ LeaveReconcile \/ LeaveWalk => Open'
    BY <1>1, LeaveSteps DEF Leaving, Walking
  <1>15. EndReconciling \/ GiveUp \/ WorkerFails \/ Restart => Open'
    BY <1>1, EndSteps, IdleFields DEF Walking
  <1>16. EndDiscovery \/ EndIndexing \/ Return => Open'
    BY <1>1, Ways, IdleFields DEF Return, Walking
  <1>17. \/ UNCHANGED vars \/ Pause \/ Resume \/ Stop \/ Request \/ StopQueued \/ ChangePolicy
         \/ \E r \in Roots: Released(r)
         \/ \E p, q \in Paths: Publish(p, q)
         \/ \E p \in Paths: UserAdds(p) \/ UserDeletes(p)
         => Open'
    BY <1>2, QuietSteps DEF Publish, UserAdds, UserDeletes, runVars
  <1> QED
    BY <1>3, <1>6, <1>7, <1>8, <1>9, <1>10, <1>11, <1>12, <1>13, <1>14, <1>15, <1>16, <1>17
       DEF Next, Work
-----------------------------------------------------------------------------
(* What the walk has seen of the files that stay.                           *)

\* A file that stays has a row in every scope that was read in full, a row that is known has
\* a track, and a clean walk has the file before it or has made its row.
Seen(p) ==
  /\ scope[ScopeOf[p]].found = "completed" => inventory[p] # "absent"
  /\ inventory[p] \in {"known", "changed", "done"} => tracks[p] # "none"
  /\ worker.at \in {"walk", "walked"} /\ worker.clean /\ ScopeOf[p] \in worker.scope =>
       p \in worker.todo \/ inventory[p] # "absent"
\* ... of every file that stays, all of which are on disk.
Sighted == steady \subseteq disk /\ \A p \in steady: Seen(p)

\* The rows of a scope that is walked from the start.
LEMMA WalkRows ==
  ASSUME Typed, NEW s \in Scopes, NEW n, Walk(s, n)
  PROVE  \A p \in Paths: /\ ScopeOf[p] = s => inventory'[p] = "absent" /\ p \in worker'.todo
                         /\ ScopeOf[p] # s => inventory'[p] = inventory[p]
  BY DEF Walk, Typed, WorkerStates

\* Every step keeps sight of the files that stay.
LEMMA SightedKept == Typed /\ Open /\ Sighted /\ [Next]_vars => Sighted'
  <1> SUFFICES ASSUME Typed, Open, Sighted, [Next]_vars PROVE Sighted'
    OBVIOUS
  <1>a. steady \subseteq Paths /\ steady \subseteq disk /\ \A p \in steady: Seen(p)
    BY DEF Typed, Sighted
  <1>b. \A p \in Paths: ScopeOf[p] \in Scopes
    OBVIOUS
  <1>1. CASE UNCHANGED <<scope, inventory, tracks, steady, disk>>
             /\ worker'.at \notin {"walk", "walked"}
    BY <1>1, <1>a DEF Sighted, Seen
  <1>2. CASE UNCHANGED <<scope, inventory, tracks, steady, disk, worker>>
    BY <1>2, <1>a DEF Sighted, Seen
  <1>3. Claim => Sighted'
    <2> SUFFICES ASSUME Claim PROVE Sighted'
      OBVIOUS
    <2>1. steady' \subseteq Paths /\ steady' = disk'
      BY DEF Claim, Typed
    <2>2. Discover([s \in Scopes |-> "pending"])
      BY DEF Claim
    <2>3. /\ worker'.at = "scope"
          /\ \A p \in Paths: inventory'[p] = "absent" /\ scope'[ScopeOf[p]].found = "pending"
      BY <2>2, <1>b, DiscoverFields
    <2> QED
      BY <2>1, <2>3 DEF Sighted, Seen
  <1>4. TakeUp => Sighted'
    <2> SUFFICES ASSUME TakeUp PROVE Sighted'
      OBVIOUS
    <2>1. CASE Discover([s \in Scopes |-> scope[s].found])
      <3>1. /\ worker'.at = "scope"
            /\ \A p \in Paths: IF scope[ScopeOf[p]].found = "completed"
                 THEN scope'[ScopeOf[p]] = scope[ScopeOf[p]] /\ inventory'[p] = inventory[p]
                 ELSE scope'[ScopeOf[p]].found = "pending" /\ inventory'[p] = "absent"
        BY <2>1, <1>b, DiscoverFields
      <3>2. steady' = steady /\ disk' = disk /\ tracks' = tracks
        BY DEF TakeUp, calm, others
      <3> QED
        BY <1>a, <3>1, <3>2 DEF Sighted, Seen
    <2>2. CASE worker' \in {[Idle EXCEPT !.at = "index"], [Idle EXCEPT !.at = "reconcile", !.scopes = Scopes]}
               /\ UNCHANGED <<scope, inventory>>
      BY <2>2, <1>1, IdleFields DEF TakeUp, calm, others
    <2> QED
      BY <2>1, <2>2 DEF TakeUp
  <1>5. ASSUME NEW s \in Scopes, NEW n, Walk(s, n), s \in worker.scopes, worker.at \in Walking,
               UNCHANGED <<scope, tracks, steady, disk>>
        PROVE  Sighted'
    <2>1. scope[s].found # "completed"
      BY <1>5 DEF Open
    <2>2. worker'.scope = {s}
      BY <1>5, WalkFields
    <2>3. ASSUME NEW p \in steady PROVE Seen(p)'
      BY <1>a, <1>5, <2>1, <2>2, WalkRows DEF Seen
    <2> QED
      BY <1>a, <1>5, <2>3 DEF Sighted
  <1>6. ASSUME NEW s \in Scopes, NEW found \in {"completed", "partly"}, ScopeDone(s, found),
               found = "completed" => worker.at = "walked" /\ worker.clean /\ s \in worker.scope,
               UNCHANGED <<tracks, steady, disk>>
        PROVE  Sighted'
    <2>1. ASSUME NEW p \in steady PROVE Seen(p)'
      <3>1. worker'.at = "scope" /\ inventory' = inventory
        BY <1>6, ScopeDoneFields
      <3>2. scope'[ScopeOf[p]].found = IF ScopeOf[p] = s THEN found ELSE scope[ScopeOf[p]].found
        BY <1>6, <1>a, <1>b, ScopeDoneFields
      <3>3. ScopeOf[p] = s /\ found = "completed" => inventory[p] # "absent"
        BY <1>6, <1>a DEF Seen, Open
      <3> QED
        BY <1>6, <1>a, <3>1, <3>2, <3>3 DEF Seen
    <2> QED
      BY <1>a, <1>6, <2>1 DEF Sighted
  <1>7. ASSUME NEW s \in Scopes, NextScope(s) \/ FenceHolds(s) \/ FenceBroken(s) \/ Stall(s)
        PROVE  Sighted'
    <2>1. UNCHANGED <<tracks, steady, disk>>
      BY <1>7 DEF NextScope, FenceHolds, FenceBroken, Stall, calm, others
    <2> QED
      BY <1>5, <1>6, <1>7, <2>1 DEF NextScope, FenceHolds, FenceBroken, Stall, Walking, Open
  <1>8. ASSUME NEW s \in Scopes PROVE Unavailable(s) => Sighted'
    <2> SUFFICES ASSUME Unavailable(s) PROVE Sighted'
      OBVIOUS
    <2>1. worker'.at = "scope" /\ UNCHANGED <<inventory, tracks, steady, disk>>
      BY DEF Unavailable, Typed, WorkerStates
    <2>2. \A t \in Scopes: scope'[t].found = "completed" => scope[t].found = "completed"
      BY DEF Unavailable, Typed, ScopeRows
    <2> QED
      BY <1>a, <1>b, <2>1, <2>2 DEF Sighted, Seen
  <1>9. ASSUME NEW s \in Scopes PROVE Reconcile(s) => Sighted'
    <2> SUFFICES ASSUME Reconcile(s) PROVE Sighted'
      OBVIOUS
    <2>1. worker'.at = "reconcile" /\ UNCHANGED <<inventory, steady, disk>>
      BY DEF Reconcile, Typed, WorkerStates, calm, others
    <2>2. \A t \in Scopes: scope'[t].found = scope[t].found
      BY DEF Reconcile, Typed, ScopeRows
    <2>3. \A p \in Paths: tracks[p] # "none" => tracks'[p] # "none"
      BY DEF Reconcile, Typed
    <2> QED
      BY <1>a, <1>b, <2>1, <2>2, <2>3 DEF Sighted, Seen
  <1>10. ASSUME NEW p \in Paths PROVE WalkPath(p) => Sighted'
    <2> SUFFICES ASSUME WalkPath(p) PROVE Sighted'
      OBVIOUS
    <2>1. /\ worker'.at = "walk" /\ worker'.todo = worker.todo \ {p} /\ worker'.clean = worker.clean
          /\ worker'.scope = worker.scope /\ UNCHANGED <<scope, tracks, steady, disk>>
          /\ worker.at = "walk"
      BY DEF WalkPath, Typed, WorkerStates, calm
    <2>2. \A q \in Paths \ {p}: inventory'[q] = inventory[q]
      BY DEF WalkPath, Typed
    <2>3. p \in disk => /\ inventory'[p] \in {"skipped", "new", "known", "changed"}
                        /\ inventory'[p] \in {"known", "changed"} => tracks[p] # "none"
      BY DEF WalkPath, Typed
    <2>4. ASSUME NEW q \in steady PROVE Seen(q)'
      BY <1>a, <2>1, <2>2, <2>3 DEF Seen
    <2> QED
      BY <1>a, <2>1, <2>4 DEF Sighted
  <1>11. ASSUME NEW p \in Paths PROVE IndexRow(p) \/ CommitRow(p) => Sighted'
    <2> SUFFICES ASSUME IndexRow(p) \/ CommitRow(p) PROVE Sighted'
      OBVIOUS
    <2>1. worker'.at \in {"index", "commit", "fail"} /\ UNCHANGED <<scope, steady, disk>>
      BY DEF IndexRow, CommitRow, Typed, WorkerStates, calm, others
    <2>2. \A q \in Paths \ {p}: inventory'[q] = inventory[q] /\ tracks'[q] = tracks[q]
      BY DEF IndexRow, CommitRow, Typed
    <2>3. \/ inventory'[p] = inventory[p] /\ tracks'[p] = tracks[p]
          \/ inventory[p] = "known" /\ inventory'[p] = "done" /\ tracks'[p] = tracks[p]
          \/ inventory'[p] = "failed" /\ tracks'[p] = tracks[p]
          \/ inventory'[p] = "done" /\ tracks'[p] = "indexed"
      BY DEF IndexRow, CommitRow, Typed
    <2>4. ASSUME NEW q \in steady PROVE Seen(q)'
      BY <1>a, <2>1, <2>2, <2>3 DEF Seen
    <2> QED
      BY <1>a, <2>1, <2>4 DEF Sighted
  <1>12. WalkEnds => Sighted'
    <2> SUFFICES ASSUME WalkEnds PROVE Sighted'
      OBVIOUS
    <2>1. /\ worker'.at = "walked" /\ worker'.todo = {} /\ worker'.scope = worker.scope
          /\ worker'.clean = worker.clean /\ worker.at = "walk" /\ worker.todo = {}
          /\ UNCHANGED <<scope, inventory, tracks, steady, disk>>
      BY Ways DEF WalkEnds, calm, others
    <2> QED
      BY <1>a, <2>1 DEF Sighted, Seen
  <1>13. WalkDegrades => Sighted'
    <2> SUFFICES ASSUME WalkDegrades PROVE Sighted'
      OBVIOUS
    <2>1. worker'.clean = FALSE /\ UNCHANGED <<scope, inventory, tracks, steady, disk>>
      BY DEF WalkDegrades, Typed, WorkerStates
    <2> QED
      BY <1>a, <2>1 DEF Sighted, Seen
  <1>14. LeaveScope \/ LeaveIndex \/ LeaveReconcile \/ LeaveWalk => Sighted'
    <2> SUFFICES ASSUME LeaveScope \/ LeaveIndex \/ LeaveReconcile \/ LeaveWalk PROVE Sighted'
      OBVIOUS
    <2>1. worker'.at \in Leaving /\ UNCHANGED <<inventory, disk, tracks, steady>>
      BY LeaveSteps
    <2>2. \A t \in Scopes: scope'[t].found = "completed" => scope[t].found = "completed"
      BY LeaveSteps DEF Typed, ScopeRows
    <2> QED
      BY <1>a, <1>b, <2>1, <2>2 DEF Sighted, Seen, Leaving
  <1>15. EndReconciling \/ GiveUp \/ WorkerFails \/ Restart => Sighted'
    BY <1>1, EndSteps, IdleFields
  <1>16. EndDiscovery \/ EndIndexing \/ Return => Sighted'
    BY <1>1, Ways, IdleFields DEF EndDiscovery, EndIndexing, Return, calm, others
  <1>17. \/ UNCHANGED vars \/ Pause \/ Resume \/ Stop \/ Request \/ StopQueued \/ ChangePolicy
         \/ \E r \in Roots: Released(r)
         => Sighted'
    BY <1>2, QuietSteps
  <1>18. ASSUME NEW p \in Paths, NEW q \in Paths PROVE Publish(p, q) => Sighted'
    <2> SUFFICES ASSUME Publish(p, q) PROVE Sighted'
      OBVIOUS
    <2>1. /\ UNCHANGED <<scope, inventory, worker>> /\ steady' = steady \ {p}
          /\ disk' = (disk \ {p}) \union {q} /\ q \notin disk
          /\ \A o \in Paths \ {p, q}: tracks'[o] = tracks[o]
      BY DEF Publish, runVars, Typed
    <2> QED
      BY <1>a, <2>1 DEF Sighted, Seen
  <1>19. ASSUME NEW p \in Paths PROVE UserAdds(p) \/ UserDeletes(p) => Sighted'
    <2> SUFFICES ASSUME UserAdds(p) \/ UserDeletes(p) PROVE Sighted'
      OBVIOUS
    <2>1. /\ UNCHANGED <<scope, inventory, worker, tracks>> /\ steady' \subseteq steady
          /\ steady' \subseteq disk'
      BY <1>a DEF UserAdds, UserDeletes, runVars
    <2> QED
      BY <1>a, <2>1 DEF Sighted, Seen
  <1> QED
    BY <1>3, <1>4, <1>7, <1>8, <1>9, <1>10, <1>11, <1>12, <1>13, <1>14, <1>15, <1>16, <1>17,
       <1>18, <1>19
       DEF Next, Work
-----------------------------------------------------------------------------
(* The phases of a run that no control has crossed.                         *)

\* The phase a run is in, or was in when it was paused.
Phase == IF run.state \in Working THEN run.state
         ELSE IF run.control = "pause" \/ run.state = "paused" THEN run.resume ELSE "none"
\* The step does not begin a phase and does not complete the run.
PhaseStays == Phase' \in {Phase, "none"} /\ (run'.state = "completed" => run.state = "completed")

\* The worker is in the phase of its run, and has a reason to leave it.
Places ==
  /\ worker.at \in Walking => Phase \in {"discovering", "none"}
  /\ worker.at \in {"index", "commit", "fail"} => Phase \in {"indexing", "none"}
  /\ worker.at = "reconcile" => Phase \in {"reconciling", "none"}
  /\ worker.at \in Leaving => run.state \notin Working

\* What a phase has done when the next one begins, and what is left of the current one.
Progress ==
  /\ worker.at \in Walking => \A s \in Scopes \ worker.scopes: scope[s].found # "pending"
  /\ Phase \in {"indexing", "reconciling"} \/ run.state = "completed" =>
       \A s \in Scopes: scope[s].found # "pending"
  /\ Phase = "reconciling" \/ run.state = "completed" => Indexed
  /\ worker.at = "reconcile" => Indexed /\ \A s \in Scopes \ worker.scopes: scope[s].reconciled
  /\ run.state = "completed" => \A s \in Scopes: scope[s].reconciled

\* A file that stays is in the library, or told of, once its scope is reconciled.
Kept(p) == scope[ScopeOf[p]].reconciled /\ scope[ScopeOf[p]].found = "completed"
           => tracks[p] = "indexed" \/ Told(p)

\* The inductive invariant of a sweep.
Sweep ==
  /\ Typed /\ Controls /\ AtWork /\ Open /\ Sighted
  /\ ~crossed => Places /\ Progress /\ \A p \in steady: Kept(p)

\* Only a claim makes a run uncrossed again.
LEMMA Uncrossed == [Next]_vars /\ ~crossed' => Claim \/ ~crossed
  BY DEF Next, Work, vars, TakeUp, LeaveScope, WalkEnds, LeaveWalk, EndDiscovery, LeaveIndex,
         EndIndexing, LeaveReconcile, EndReconciling, GiveUp, Return, NextScope, FenceHolds,
         FenceBroken, Reconcile, WalkPath, IndexRow, CommitRow, Request, Pause, Resume, Stop,
         StopQueued, ChangePolicy, Restart, WalkDegrades, WorkerFails, Unavailable, Stall, Publish,
         Released, UserAdds, UserDeletes, calm, others, marks

\* The row moves on to the next phase only where the worker says so.
LEMMA PhaseSteps ==
  ASSUME Typed, Controls
  PROVE  /\ run' \in {run, Settled(run), Outcome, Recovered(run)} => PhaseStays
         /\ ~GoesOn => Outcome.state \notin Working
         /\ Settled(run).state \in Working => run.state = Settled(run).state
         /\ Pause \/ Resume \/ Stop => PhaseStays
         /\ \A state \in Working: run' = [run EXCEPT !.state = state] => run'.state = state /\ Phase' = state
         /\ run.state \in Working /\ run' = [run EXCEPT !.state = "failed"] => PhaseStays
         /\ run.state \in Working /\ run' = [run EXCEPT !.state = "completed"] => Phase' = "none"
  <1> USE DEF Typed, Controls, Runs, RunStates, Working, Terminal
  <1>1. run' \in {run, Settled(run), Outcome, Recovered(run)} => PhaseStays
    <2>1. run' = run => PhaseStays
      BY DEF PhaseStays, Phase
    <2>2. run' = Settled(run) => PhaseStays
      BY DEF PhaseStays, Phase, Settled
    <2>3. run' = Outcome => PhaseStays
      BY DEF PhaseStays, Phase, Outcome, Settled
    <2>4. run' = Recovered(run) => PhaseStays
      BY DEF PhaseStays, Phase, Recovered
    <2> QED
      BY <2>1, <2>2, <2>3, <2>4
  <1>2. ~GoesOn => Outcome.state \notin Working
    BY DEF Outcome, Settled, GoesOn
  <1>3. Settled(run).state \in Working => run.state = Settled(run).state
    BY DEF Settled
  <1>4. Pause => PhaseStays
    BY DEF Pause, Controlled, PhaseStays, Phase
  <1>5. Resume => PhaseStays
    BY DEF Resume, Controlled, PhaseStays, Phase
  <1>6. Stop => PhaseStays
    BY DEF Stop, Controlled, PhaseStays, Phase
  <1>7. \A state \in Working: run' = [run EXCEPT !.state = state] => run'.state = state /\ Phase' = state
    BY DEF Phase
  <1>8. run.state \in Working /\ run' = [run EXCEPT !.state = "failed"] => PhaseStays
    BY DEF PhaseStays, Phase
  <1>9. run.state \in Working /\ run' = [run EXCEPT !.state = "completed"] => Phase' = "none"
    BY DEF Phase
  <1> QED
    BY <1>1, <1>2, <1>3, <1>4, <1>5, <1>6, <1>7, <1>8, <1>9

\* A claimed run is in discovery.
LEMMA ClaimPhase ==
  Claim => Phase' = "discovering" /\ run'.state = "discovering"
  <1>1. Claim => run'.state = "discovering"
    BY DEF Claim
  <1> QED
    BY <1>1 DEF Phase, Working

\* A claim begins the sweep anew.
LEMMA ClaimSweeps ==
  ASSUME Typed, Claim
  PROVE  Places' /\ Progress' /\ \A p \in steady': Kept(p)'
  <1>1. Phase' = "discovering" /\ run'.state = "discovering"
    BY ClaimPhase
  <1>2. worker'.at = "scope" /\ \A s \in Scopes: s \in worker'.scopes /\ ~scope'[s].reconciled
    BY DiscoverFields DEF Claim
  <1>3. steady' \subseteq Paths
    BY DEF Claim, Typed
  <1> QED
    BY <1>1, <1>2, <1>3 DEF Places, Progress, Kept, Walking, Leaving

\* Every step keeps the worker in the phase of its run.
LEMMA PlacesKept ==
  ASSUME Typed, Controls, AtWork, Places, [Next]_vars, ~crossed'
  PROVE  Places'
  <1> USE DEF Places
  <1>1. CASE worker'.at = "idle"
    BY <1>1 DEF Walking, Leaving
  <1>2. Claim => Places'
    BY ClaimSweeps
  <1>3. TakeUp => Places'
    <2> SUFFICES ASSUME TakeUp PROVE Places'
      OBVIOUS
    <2>1. run' = run /\ run.state \in Working /\ Phase' = run.state
      BY DEF TakeUp, Phase
    <2>2. \/ worker'.at = "scope" /\ run.state = "discovering"
          \/ worker'.at = "index" /\ run.state = "indexing"
          \/ worker'.at = "reconcile" /\ run.state = "reconciling"
      BY IdleFields, DiscoverFields DEF TakeUp
    <2> QED
      BY <2>1, <2>2 DEF Walking, Leaving
  <1>4. \/ WalkEnds \/ WalkDegrades
        \/ \E s \in Scopes: \/ NextScope(s) \/ FenceHolds(s) \/ FenceBroken(s) \/ Reconcile(s)
                            \/ Unavailable(s) \/ Stall(s)
        \/ \E p \in Paths: WalkPath(p) \/ IndexRow(p) \/ CommitRow(p)
        => Places'
    <2>1. CASE worker.at \in Busy /\ worker'.at \in Busy /\ run' = run /\ SamePhase
      <3>1. Phase' = Phase
        BY <2>1 DEF Phase
      <3> QED
        BY <2>1, <3>1 DEF SamePhase, Busy, Walking, Leaving
    <2> QED
      BY <2>1, StaysBusy
  <1>5. LeaveScope \/ LeaveIndex \/ LeaveReconcile \/ LeaveWalk => Places'
    BY LeaveSteps, PhaseSteps DEF Leaving, Walking
  <1>6. EndDiscovery \/ EndIndexing => Places'
    <2>1. EndDiscovery => Places'
      BY <1>1, Ways, IdleFields DEF Phase, Working, Walking, Leaving
    <2>2. EndIndexing => run' = [run EXCEPT !.state = "reconciling"] /\ worker'.at = "reconcile"
      BY Ways DEF EndIndexing
    <2> QED
      BY <2>1, <2>2, PhaseSteps DEF Walking, Leaving, Working
  <1>7. Return => Places'
    BY <1>1, IdleFields DEF Return, Working, Leaving
  <1>8. EndReconciling \/ GiveUp \/ WorkerFails \/ Restart => Places'
    BY <1>1, EndSteps, IdleFields
  <1>9. CASE worker' = worker /\ (run' = run \/ Pause \/ Resume \/ Stop)
    <2>1. PhaseStays
      BY <1>9, PhaseSteps
    <2>2. CASE worker.at \in Leaving
      BY <1>9, <2>2 DEF Pause, Resume, Stop, Controlled, Typed, Runs, Leaving, Walking, Working
    <2> QED
      BY <1>9, <2>1, <2>2 DEF PhaseStays, Walking, Leaving
  <1>10. \/ \E p, q \in Paths: Publish(p, q)
         \/ \E p \in Paths: UserAdds(p) \/ UserDeletes(p)
         => Places'
    BY <1>9 DEF Publish, UserAdds, UserDeletes, runVars
  <1>11. \/ UNCHANGED vars \/ Pause \/ Resume \/ Stop \/ Request \/ StopQueued \/ ChangePolicy
         \/ \E r \in Roots: Released(r)
         => Places'
    BY <1>9, QuietSteps DEF vars, Request, StopQueued, ChangePolicy, Released, runVars
  <1> QED
    BY <1>2, <1>3, <1>4, <1>5, <1>6, <1>7, <1>8, <1>10, <1>11 DEF Next, Work

\* Progress does not depend on more than this.
LEMMA ProgressStays ==
  ASSUME Typed, Progress, PhaseStays, worker' = worker \/ worker'.at \in Leaving \union {"idle"},
         inventory' = inventory,
         \A s \in Scopes: /\ scope'[s].found = "pending" => scope[s].found = "pending"
                          /\ scope[s].reconciled => scope'[s].reconciled
  PROVE  Progress'
  <1>1. Indexed => Indexed'
    BY DEF Indexed
  <1> QED
    BY <1>1 DEF Progress, PhaseStays, Walking, Leaving

\* Every step keeps what the phases have done.
LEMMA ProgressKept ==
  ASSUME Typed, Controls, AtWork, Open, Places, Progress, [Next]_vars, ~crossed'
  PROVE  Progress'
  <1> USE DEF Progress
  <1>a. worker.scopes \in SUBSET Scopes
    BY WorkerTyped DEF Typed
  <1>1. Claim => Progress'
    BY ClaimSweeps
  <1>2. TakeUp => Progress'
    <2> SUFFICES ASSUME TakeUp PROVE Progress'
      OBVIOUS
    <2>1. run' = run /\ run.state \in Working /\ Phase' = run.state /\ Phase = run.state
      BY DEF TakeUp, Phase
    <2>2. CASE run.state = "discovering" /\ Discover([s \in Scopes |-> scope[s].found])
      <3>1. /\ worker'.at = "scope"
            /\ \A s \in Scopes: s \notin worker'.scopes => scope[s].found = "completed" /\ scope'[s] = scope[s]
        BY <2>2, DiscoverFields
      <3> QED
        BY <2>1, <2>2, <3>1 DEF Walking
    <2>3. CASE run.state \in {"indexing", "reconciling"} /\ UNCHANGED <<scope, inventory>>
      <3>1. Indexed => Indexed'
        BY <2>3 DEF Indexed
      <3>2. \/ worker'.at = "index"
            \/ worker'.at = "reconcile" /\ worker'.scopes = Scopes /\ run.state = "reconciling"
        BY <2>3, IdleFields DEF TakeUp
      <3> QED
        BY <2>1, <2>3, <3>1, <3>2 DEF Walking
    <2> QED
      BY <2>2, <2>3 DEF TakeUp
  <1>3. ASSUME worker.at \in Walking, worker'.at \in Walking, run' = run,
               \A s \in Scopes \ worker'.scopes: scope'[s].found # "pending"
        PROVE  Progress'
    <2>1. Phase' = Phase /\ Phase \in {"discovering", "none"} /\ run.state # "completed"
      BY <1>3 DEF Phase, Places, AtWork, Walking
    <2> QED
      BY <1>3, <2>1 DEF Walking
  <1>4. ASSUME NEW s \in Scopes, NEW n, Walk(s, n), worker.at \in Walking, UNCHANGED <<scope, run>>
        PROVE  Progress'
    <2>1. worker'.at = "walk" /\ worker'.scopes = worker.scopes
      BY <1>4, WalkFields
    <2> QED
      BY <1>3, <1>4, <2>1 DEF Walking
  <1>5. ASSUME NEW s \in Scopes, NEW found \in {"completed", "partly"}, ScopeDone(s, found),
               worker.at \in Walking, run' = run
        PROVE  Progress'
    <2>1. worker'.at = "scope" /\ worker'.scopes = worker.scopes \ {s}
      BY <1>5, ScopeDoneFields
    <2>2. \A t \in Scopes \ worker'.scopes: scope'[t].found # "pending"
      BY <1>5, <2>1, ScopeDoneFields
    <2> QED
      BY <1>3, <1>5, <2>1, <2>2 DEF Walking
  <1>6. ASSUME NEW s \in Scopes, NextScope(s) \/ FenceHolds(s) \/ FenceBroken(s) \/ Stall(s)
        PROVE  Progress'
    BY <1>4, <1>5, <1>6 DEF NextScope, FenceHolds, FenceBroken, Stall, Walking
  <1>7. ASSUME NEW s \in Scopes PROVE Unavailable(s) => Progress'
    <2> SUFFICES ASSUME Unavailable(s) PROVE Progress'
      OBVIOUS
    <2>1. worker'.at = "scope" /\ worker'.scopes = worker.scopes \ {s} /\ worker.at = "scope"
      BY DEF Unavailable, Typed, WorkerStates
    <2>2. \A t \in Scopes: scope'[t].found = IF t = s THEN "unavailable" ELSE scope[t].found
      BY DEF Unavailable, Typed, ScopeRows
    <2> QED
      BY <1>3, <2>1, <2>2 DEF Unavailable, Walking
  <1>8. ASSUME NEW s \in Scopes PROVE Reconcile(s) => Progress'
    <2> SUFFICES ASSUME Reconcile(s) PROVE Progress'
      OBVIOUS
    <2>1. worker.at = "reconcile" /\ worker'.at = "reconcile" /\ worker'.scopes = worker.scopes \ {s}
      BY DEF Reconcile, Typed, WorkerStates
    <2>2. \A t \in Scopes: /\ scope'[t].found = scope[t].found
                           /\ scope'[t].reconciled = IF t = s THEN TRUE ELSE scope[t].reconciled
      BY DEF Reconcile, Typed, ScopeRows
    <2>3. run' = run /\ Phase' = Phase /\ (Indexed => Indexed')
      BY DEF Reconcile, Phase, Indexed
    <2> QED
      BY <2>1, <2>2, <2>3 DEF Walking
  <1>9. ASSUME NEW p \in Paths PROVE WalkPath(p) => Progress'
    <2> SUFFICES ASSUME WalkPath(p) PROVE Progress'
      OBVIOUS
    <2>1. /\ worker.at = "walk" /\ worker'.at = "walk" /\ worker'.scopes = worker.scopes
          /\ scope' = scope /\ run' = run
      BY DEF WalkPath, Typed, WorkerStates
    <2> QED
      BY <1>3, <2>1 DEF Walking
  <1>10. ASSUME NEW p \in Paths PROVE IndexRow(p) \/ CommitRow(p) => Progress'
    <2> SUFFICES ASSUME IndexRow(p) \/ CommitRow(p) PROVE Progress'
      OBVIOUS
    <2>1. /\ worker'.at \in {"index", "commit", "fail"}
          /\ scope' = scope /\ run' = run /\ Phase' = Phase
      BY DEF IndexRow, CommitRow, Typed, WorkerStates, Phase
    <2>2. Indexed => Indexed'
      BY DEF IndexRow, CommitRow, Indexed, Typed
    <2> QED
      BY <2>1, <2>2 DEF Walking
  <1>11. WalkEnds \/ WalkDegrades => Progress'
    <2> SUFFICES ASSUME WalkEnds \/ WalkDegrades PROVE Progress'
      OBVIOUS
    <2>1. /\ worker.at \in Walking /\ worker'.at \in Walking /\ worker'.scopes = worker.scopes
          /\ scope' = scope /\ run' = run
      BY Ways DEF WalkEnds, WalkDegrades, Typed, WorkerStates, Walking
    <2> QED
      BY <1>3, <2>1 DEF Walking
  <1>12. LeaveScope \/ LeaveIndex \/ LeaveReconcile \/ LeaveWalk => Progress'
    <2> SUFFICES ASSUME LeaveScope \/ LeaveIndex \/ LeaveReconcile \/ LeaveWalk PROVE Progress'
      OBVIOUS
    <2>1. worker'.at \in Leaving /\ run' = Outcome /\ inventory' = inventory
      BY LeaveSteps
    <2>2. PhaseStays
      BY <2>1, PhaseSteps
    <2>3. \A s \in Scopes: /\ scope'[s].found = "pending" => scope[s].found = "pending"
                           /\ scope[s].reconciled => scope'[s].reconciled
      BY SMTT(30), LeaveSteps DEF Typed, ScopeRows
    <2> QED
      BY <2>1, <2>2, <2>3, ProgressStays
  <1>13. EndReconciling => Progress'
    <2> SUFFICES ASSUME EndReconciling PROVE Progress'
      OBVIOUS
    <2>1. worker'.at = "idle" /\ UNCHANGED <<scope, inventory>> /\ run.state = "reconciling"
      BY EndSteps, IdleFields DEF EndReconciling
    <2>2. Phase = "reconciling" /\ Phase' = "none"
      BY <2>1, PhaseSteps DEF EndReconciling, Settles, Phase, Working
    <2>3. Indexed => Indexed'
      BY <2>1 DEF Indexed
    <2> QED
      BY <2>1, <2>2, <2>3 DEF EndReconciling, Walking
  <1>14. GiveUp \/ WorkerFails \/ Restart => Progress'
    <2> SUFFICES ASSUME GiveUp \/ WorkerFails \/ Restart PROVE Progress'
      OBVIOUS
    <2>1. worker'.at = "idle" /\ UNCHANGED <<scope, inventory>>
      BY EndSteps, IdleFields
    <2>2. PhaseStays
      BY PhaseSteps DEF GiveUp, WorkerFails, Restart, Settles
    <2> QED
      BY <2>1, <2>2, ProgressStays
  <1>15. EndDiscovery => Progress'
    <2> SUFFICES ASSUME EndDiscovery PROVE Progress'
      OBVIOUS
    <2>1. UNCHANGED <<scope, inventory>> /\ worker.at = "scope" /\ worker.scopes = {}
      BY DEF EndDiscovery
    <2>2. CASE run' = [run EXCEPT !.state = "indexing"] /\ worker' = [Idle EXCEPT !.at = "index"]
      <3>1. Phase' = "indexing" /\ run'.state = "indexing" /\ worker'.at = "index"
        BY <2>2, PhaseSteps, IdleFields DEF Working
      <3> QED
        BY <2>1, <3>1 DEF Walking
    <2>3. CASE worker' = Idle /\ run' = Settled(run)
      BY <2>1, <2>3, PhaseSteps, ProgressStays, IdleFields
    <2>4. CASE worker' = Idle /\ run.state = "discovering" /\ run' = [run EXCEPT !.state = "failed"]
      BY <2>1, <2>4, PhaseSteps, ProgressStays, IdleFields DEF Working
    <2> QED
      BY <2>2, <2>3, <2>4 DEF EndDiscovery, Settles
  <1>16. EndIndexing => Progress'
    <2> SUFFICES ASSUME EndIndexing PROVE Progress'
      OBVIOUS
    <2>1. /\ UNCHANGED <<scope, inventory>> /\ Indexed /\ run.state = "indexing" /\ worker'.at = "reconcile"
          /\ worker'.scopes = Scopes /\ run' = [run EXCEPT !.state = "reconciling"]
      BY Ways DEF EndIndexing
    <2>2. Phase = "indexing" /\ Phase' = "reconciling" /\ run'.state = "reconciling"
      BY <2>1, PhaseSteps DEF Phase, Working
    <2>3. Indexed'
      BY <2>1 DEF Indexed
    <2> QED
      BY <2>1, <2>2, <2>3 DEF Walking
  <1>17. Return => Progress'
    <2> SUFFICES ASSUME Return PROVE Progress'
      OBVIOUS
    <2>1. worker.at \in Leaving /\ run.state \notin Working
      BY DEF Return, Places, Leaving
    <2>2. worker' = Idle /\ run' = Settled(run) /\ UNCHANGED <<scope, inventory>>
      BY <2>1 DEF Return, Settles, Working
    <2> QED
      BY <2>2, PhaseSteps, ProgressStays, IdleFields
  <1>18. CASE UNCHANGED <<worker, scope, inventory>> /\ (run' = run \/ Pause \/ Resume \/ Stop)
    BY <1>18, PhaseSteps, ProgressStays
  <1>19. \/ \E p, q \in Paths: Publish(p, q)
         \/ \E p \in Paths: UserAdds(p) \/ UserDeletes(p)
         => Progress'
    BY <1>18 DEF Publish, UserAdds, UserDeletes, runVars
  <1>20. \/ UNCHANGED vars \/ Pause \/ Resume \/ Stop \/ Request \/ StopQueued \/ ChangePolicy
         \/ \E r \in Roots: Released(r)
         => Progress'
    BY <1>18, QuietSteps DEF vars, Request, StopQueued, ChangePolicy, Released, runVars
  <1> QED
    BY <1>1, <1>2, <1>6, <1>7, <1>8, <1>9, <1>10, <1>11, <1>12, <1>13, <1>14, <1>15, <1>16, <1>17,
       <1>19, <1>20 DEF Next, Work

\* A reconciled scope that was read in full keeps its files, and what the run tells of them.
LEMMA KeptStays ==
  ASSUME Typed, \A p \in steady: Kept(p), steady' \subseteq steady,
         \A s \in Scopes: scope'[s].reconciled /\ scope'[s].found = "completed"
                            => scope[s].reconciled /\ scope[s].found = "completed",
         \A p \in steady': tracks[p] = "indexed" => tracks'[p] = "indexed",
         \A p \in steady': Told(p) /\ scope'[ScopeOf[p]].reconciled
                             /\ scope'[ScopeOf[p]].found = "completed" => Told(p)'
  PROVE  \A p \in steady': Kept(p)'
  BY DEF Kept, Typed

\* Every step keeps the files of reconciled scopes in the library.
LEMMA KeptKept ==
  ASSUME Typed, Open, Sighted, Places, Progress, \A p \in steady: Kept(p), [Next]_vars, ~crossed'
  PROVE  \A p \in steady': Kept(p)'
  <1> DEFINE K == \A p \in steady': Kept(p)'
  <1>a. /\ steady \in SUBSET Paths /\ worker.scopes \in SUBSET Scopes
        /\ \A p \in Paths: ScopeOf[p] \in Scopes
    BY WorkerTyped DEF Typed
  <1>1. CASE UNCHANGED <<scope, inventory, tracks, steady>>
    BY <1>1, KeptStays DEF Told
  <1>2. Claim => K
    BY ClaimSweeps
  <1>3. TakeUp => K
    <2> SUFFICES ASSUME TakeUp PROVE K
      OBVIOUS
    <2>1. UNCHANGED <<tracks, steady>>
      BY DEF TakeUp, calm, others
    <2>2. CASE Discover([s \in Scopes |-> scope[s].found])
      <3>1. \A s \in Scopes: scope'[s].reconciled /\ scope'[s].found = "completed" => scope'[s] = scope[s]
        BY <2>2, DiscoverFields
      <3>2. \A p \in Paths: scope'[ScopeOf[p]].found = "completed" => inventory'[p] = inventory[p]
        BY <1>a, <2>2, DiscoverFields
      <3> QED
        BY <1>a, <2>1, <3>1, <3>2, KeptStays DEF Told
    <2> QED
      BY <1>1, <2>1, <2>2 DEF TakeUp
  <1>4. ASSUME NEW s \in Scopes, NEW found \in {"completed", "partly"}, ScopeDone(s, found),
               s \in worker.scopes, worker.at \in Walking, UNCHANGED <<tracks, steady>>
        PROVE  K
    <2>1. ~scope[s].reconciled
      BY <1>4 DEF Open
    <2>2. /\ \A t \in Scopes: /\ scope'[t].reconciled = scope[t].reconciled
                              /\ scope'[t].found = IF t = s THEN found ELSE scope[t].found
          /\ inventory' = inventory
      BY <1>4, ScopeDoneFields
    <2>3. \A t \in Scopes: scope'[t].reconciled /\ scope'[t].found = "completed"
                            => scope[t].reconciled /\ scope[t].found = "completed"
      BY <2>1, <2>2
    <2> QED
      BY <1>4, <2>2, <2>3, KeptStays DEF Told
  <1>5. ASSUME NEW s \in Scopes, NextScope(s) \/ FenceHolds(s) \/ FenceBroken(s) \/ Stall(s)
        PROVE  K
    <2>1. UNCHANGED <<tracks, steady>>
      BY <1>5 DEF NextScope, FenceHolds, FenceBroken, Stall, calm, others
    <2>2. s \in worker.scopes /\ worker.at \in Walking
      BY <1>5 DEF NextScope, FenceHolds, FenceBroken, Stall, Open, Walking
    <2>3. \/ \E found \in {"completed", "partly"}: ScopeDone(s, found)
          \/ scope' = scope /\ (Walk(s, 0) \/ Walk(s, worker.restarts + 1))
      BY <1>5 DEF NextScope, FenceHolds, FenceBroken, Stall
    <2>4. ASSUME scope' = scope, NEW n, Walk(s, n) PROVE K
      <3>1. ~scope'[s].reconciled
        BY <2>2, <2>4 DEF Open
      <3>2. \A p \in Paths: ScopeOf[p] # s => inventory'[p] = inventory[p]
        BY <2>4, WalkRows
      <3> QED
        BY <1>a, <2>1, <2>4, <3>1, <3>2, KeptStays DEF Told
    <2> QED
      BY <1>4, <2>1, <2>2, <2>3, <2>4
  <1>6. ASSUME NEW s \in Scopes PROVE Unavailable(s) => K
    <2> SUFFICES ASSUME Unavailable(s) PROVE K
      OBVIOUS
    <2>1. \A t \in Scopes: scope'[t].reconciled /\ scope'[t].found = "completed"
                            => scope[t].reconciled /\ scope[t].found = "completed"
      BY DEF Unavailable, Typed, ScopeRows
    <2> QED
      BY <2>1, KeptStays DEF Unavailable, Told
  <1>7. ASSUME NEW s \in Scopes PROVE Reconcile(s) => K
    <2> SUFFICES ASSUME Reconcile(s) PROVE K
      OBVIOUS
    <2>1. worker.at = "reconcile" /\ steady' = steady /\ inventory' = inventory
      BY DEF Reconcile, calm, others
    <2>2. \A t \in Scopes: /\ scope'[t].found = scope[t].found
                           /\ t # s => scope'[t].reconciled = scope[t].reconciled
      BY ZenonT(60) DEF Reconcile, Typed, ScopeRows
    <2>3. \A p \in Paths: ScopeOf[p] # s => tracks'[p] = tracks[p]
      BY DEF Reconcile
    <2>4. \A p \in Paths: /\ ScopeOf[p] = s /\ scope[s].found = "completed" /\ tracks[p] # "none"
                          /\ Listed(p)
                          => tracks'[p] = "indexed"
      BY DEF Reconcile
    <2>5. Indexed
      BY <2>1 DEF Progress
    <2>6. ASSUME NEW p \in steady PROVE Kept(p)'
      <3>1. CASE ScopeOf[p] # s
        BY <1>a, <2>1, <2>2, <2>3, <3>1 DEF Kept, Told
      <3>2. CASE ScopeOf[p] = s /\ scope[s].found = "completed"
        <4>1. inventory[p] # "absent"
          BY <3>2 DEF Sighted, Seen
        <4>2. inventory[p] = "done" \/ Told(p)
          BY <1>a, <2>5, <4>1 DEF Indexed, Told
        <4>3. CASE inventory[p] = "done"
          <5>1. tracks[p] # "none" /\ Listed(p)
            BY <4>3 DEF Sighted, Seen, Listed
          <5> QED
            BY <1>a, <2>4, <3>2, <5>1 DEF Kept
        <4>4. CASE Told(p)
          BY <2>1, <4>4 DEF Kept, Told
        <4> QED
          BY <4>2, <4>3, <4>4
      <3>3. CASE ScopeOf[p] = s /\ scope[s].found # "completed"
        BY <2>2, <3>3 DEF Kept
      <3> QED
        BY <3>1, <3>2, <3>3
    <2> QED
      BY <2>1, <2>6
  <1>8. ASSUME NEW p \in Paths PROVE IndexRow(p) \/ CommitRow(p) => K
    <2> SUFFICES ASSUME IndexRow(p) \/ CommitRow(p) PROVE K
      OBVIOUS
    <2>1. scope' = scope /\ steady' = steady /\ \A q \in Paths: tracks'[q] \in {tracks[q], "indexed"}
      BY DEF IndexRow, CommitRow, calm, others, Typed
    <2>2. ~Told(p) \/ inventory' = inventory
      BY DEF IndexRow, CommitRow, Open, Told
    <2>3. \A q \in Paths \ {p}: inventory'[q] = inventory[q]
      BY DEF IndexRow, CommitRow, Typed
    <2> QED
      BY <1>a, <2>1, <2>2, <2>3, KeptStays DEF Told
  <1>14. ASSUME NEW p \in Paths PROVE WalkPath(p) => K
    <2> SUFFICES ASSUME WalkPath(p) PROVE K
      OBVIOUS
    <2>1. UNCHANGED <<scope, tracks, steady>> /\ p \in worker.todo /\ worker.at = "walk"
      BY DEF WalkPath, calm
    <2>2. ~scope'[ScopeOf[p]].reconciled
      BY <1>a, <2>1 DEF Open, Walking
    <2>3. \A q \in Paths \ {p}: inventory'[q] = inventory[q]
      BY DEF WalkPath, Typed
    <2> QED
      BY <1>a, <2>1, <2>2, <2>3, KeptStays DEF Told
  <1>9. LeaveScope \/ LeaveIndex \/ LeaveReconcile \/ LeaveWalk => K
    <2> SUFFICES ASSUME LeaveScope \/ LeaveIndex \/ LeaveReconcile \/ LeaveWalk PROVE K
      OBVIOUS
    <2>1. UNCHANGED <<inventory, tracks, steady>>
      BY LeaveSteps
    <2>2. \A t \in Scopes: scope'[t].reconciled /\ scope'[t].found = "completed"
                            => scope[t].reconciled /\ scope[t].found = "completed"
      BY LeaveSteps DEF Typed, ScopeRows
    <2> QED
      BY <2>1, <2>2, KeptStays DEF Told
  <1>10. ASSUME NEW p \in Paths, NEW q \in Paths PROVE Publish(p, q) => K
    <2> SUFFICES ASSUME Publish(p, q) PROVE K
      OBVIOUS
    <2>1. UNCHANGED <<scope, inventory>> /\ steady' = steady \ {p}
      BY DEF Publish, runVars
    <2>2. \A o \in Paths \ {p}: tracks[o] = "indexed" => tracks'[o] = "indexed"
      BY DEF Publish, Typed
    <2> QED
      BY <1>a, <2>1, <2>2, KeptStays DEF Told
  <1>11. ASSUME NEW p \in Paths PROVE UserAdds(p) \/ UserDeletes(p) => K
    <2> SUFFICES ASSUME UserAdds(p) \/ UserDeletes(p) PROVE K
      OBVIOUS
    <2>1. UNCHANGED <<scope, inventory, tracks>> /\ steady' \subseteq steady
      BY DEF UserAdds, UserDeletes, runVars
    <2> QED
      BY <2>1, KeptStays DEF Told
  <1>12. \/ WalkEnds \/ WalkDegrades \/ EndDiscovery \/ EndIndexing \/ Return
         => UNCHANGED <<scope, inventory, tracks, steady>>
    BY DEF WalkEnds, WalkDegrades, EndDiscovery, EndIndexing, Return, calm, others
  <1>13. \/ UNCHANGED vars \/ Pause \/ Resume \/ Stop \/ Request \/ StopQueued \/ ChangePolicy
         \/ \E r \in Roots: Released(r)
         \/ EndReconciling \/ GiveUp \/ WorkerFails \/ Restart
         => UNCHANGED <<scope, inventory, tracks, steady>>
    BY QuietSteps, EndSteps
  <1> QED
    BY SMTT(30), <1>1, <1>2, <1>3, <1>5, <1>6, <1>7, <1>8, <1>9, <1>10, <1>11, <1>12, <1>13, <1>14
       DEF Next, Work

\* The invariant holds at the start.
LEMMA InitSweep == Init => Sweep
  <1> SUFFICES ASSUME Init PROVE Sweep
    OBVIOUS
  <1>1. Typed
    BY InitTyped
  <1>2. worker.at = "idle" /\ run.state = "completed" /\ run.control = "none" /\ Phase = "none"
    BY IdleFields DEF Init, Phase, Working
  <1>3. \A s \in Scopes: scope[s].found = "completed" /\ scope[s].reconciled
    BY DEF Init
  <1>4. Indexed /\ steady = {}
    BY DEF Init, Indexed
  <1> QED
    BY <1>1, <1>2, <1>3, <1>4
       DEF Sweep, Controls, AtWork, Open, Sighted, Places, Progress, Walking, Busy, Leaving

\* Every step keeps the invariant.
LEMMA SweepKept == Sweep /\ [Next]_vars => Sweep'
  <1> SUFFICES ASSUME Sweep, [Next]_vars PROVE Sweep'
    OBVIOUS
  <1>1. Typed' /\ Controls' /\ AtWork' /\ Open' /\ Sighted'
    BY NextTyped, ControlsKept, AtWorkKept, OpenKept, SightedKept DEF Sweep
  <1>2. ASSUME ~crossed' PROVE Places' /\ Progress' /\ \A p \in steady': Kept(p)'
    <2>1. CASE ~crossed
      BY <1>2, <2>1, PlacesKept, ProgressKept, KeptKept DEF Sweep
    <2>2. CASE Claim
      BY <2>2, ClaimSweeps DEF Sweep
    <2> QED
      BY <1>2, <2>1, <2>2, Uncrossed
  <1> QED
    BY <1>1, <1>2 DEF Sweep

\* The invariant holds in every state.
LEMMA AlwaysSweep == Spec => []Sweep
  BY InitSweep, SweepKept, PTL DEF Spec

\* A run that completed did all of it, when no control crossed it: each scope was walked or
\* reported, each row indexed and each scope reconciled.
THEOREM CompletedRunsSwept == Spec => []CompletedSwept
  <1>1. Sweep => CompletedSwept
    BY DEF Sweep, Progress, CompletedSwept
  <1> QED
    BY <1>1, AlwaysSweep, PTL

\* A file that was there from the start of a completed run to its end is in the library, in
\* each scope that could be read, or it is one the run recorded as skipped or failed.
THEOREM FilesNotOverlooked == Spec => []NothingOverlooked
  <1>1. Sweep => NothingOverlooked
    BY DEF Sweep, Progress, NothingOverlooked, Kept, Typed
  <1> QED
    BY <1>1, AlwaysSweep, PTL
-----------------------------------------------------------------------------
(* The discovery fence.                                                     *)

\* The fence is kept per root, so a root is sure of one scope only.
OneScopePerRoot == \A s, t \in Scopes: RootOf[s] = RootOf[t] => s = t

\* A fence and a walk hold a revision of their root that was current once.
Ordered ==
  /\ \A r \in Roots: fence[r] = NoFence \/ fence[r] <= revision[r]
  /\ worker.at \in {"walk", "walked"} => \A s \in worker.scope: worker.rev <= revision[RootOf[s]]

\* While the run is under way every scope that was read in full has its fence.
FenceKnown == ~restarted /\ run.state \notin Terminal =>
  \A s \in Scopes: scope[s].found = "completed" => fence[RootOf[s]] # NoFence

\* A catalogued file without a row is not there, where the fence holds or the walk has passed.
NotThere(p) == ~Listed(p) /\ tracks[p] # "none" => p \notin disk
Sure == \A p \in Paths: LET s == ScopeOf[p] IN
  /\ scope[s].found = "completed" /\ fence[RootOf[s]] = revision[RootOf[s]] /\ RootOf[s] \notin publishing
       => NotThere(p)
  /\ worker.at \in {"walk", "walked"} /\ s \in worker.scope /\ worker.clean
     /\ worker.rev = revision[RootOf[s]] /\ RootOf[s] \notin publishing
       => p \in worker.todo \/ NotThere(p)

\* The steps that neither walk nor set a fence.
Unfenced ==
  /\ worker' = worker \/ worker'.at \notin {"walk", "walked"}
  /\ revision' = revision /\ publishing' = publishing
  /\ fence' = fence \/ fence' = NoFences
  /\ \A s \in Scopes: scope'[s].found = "completed" => scope[s].found = "completed"

\* The types the fence's arithmetic needs.
LEMMA FenceTypes ==
  ASSUME Typed
  PROVE  /\ \A r \in Roots: revision[r] \in Nat /\ revision[r] # NoFence /\ NoFences[r] = NoFence
         /\ \A r \in Roots: fence[r] = NoFence \/ fence[r] \in Nat
         /\ \A s \in Scopes: RootOf[s] \in Roots
         /\ \A p \in Paths: ScopeOf[p] \in Scopes
         /\ worker.rev \in Nat /\ worker.rev # NoFence /\ worker.scope \in SUBSET Scopes
         /\ worker.scopes \in SUBSET Scopes
  BY ZenonT(60), WorkerTyped DEF Typed, NoFences

\* Such a step keeps the order of the revisions.
LEMMA UnfencedOrdered == Typed /\ Ordered /\ Unfenced => Ordered'
  BY FenceTypes DEF Ordered, Unfenced

\* Such a step keeps what is known of absent files, if it brings none back.
LEMMA UnfencedSure ==
  ASSUME Typed, Sure, Unfenced,
         \A p \in Paths: scope'[ScopeOf[p]].found = "completed" \/ worker' = worker
                           => (NotThere(p) => NotThere(p)')
  PROVE  Sure'
  <1> SUFFICES ASSUME NEW p \in Paths
               PROVE  LET s == ScopeOf[p] IN
                      /\ scope'[s].found = "completed" /\ fence'[RootOf[s]] = revision'[RootOf[s]]
                         /\ RootOf[s] \notin publishing' => NotThere(p)'
                      /\ worker'.at \in {"walk", "walked"} /\ s \in worker'.scope /\ worker'.clean
                         /\ worker'.rev = revision'[RootOf[s]] /\ RootOf[s] \notin publishing'
                           => p \in worker'.todo \/ NotThere(p)'
    BY DEF Sure
  <1> DEFINE s == ScopeOf[p]
  <1>1. s \in Scopes /\ RootOf[s] \in Roots
    OBVIOUS
  <1>2. fence'[RootOf[s]] = revision'[RootOf[s]] => fence[RootOf[s]] = revision[RootOf[s]]
    BY <1>1, FenceTypes DEF Unfenced
  <1> QED
    BY <1>1, <1>2 DEF Sure, Unfenced

\* What the sweep knows of absent files stays known, and the row does not come back to life.
UnfencedStep ==
  /\ Unfenced
  /\ \A p \in Paths: scope'[ScopeOf[p]].found = "completed" \/ worker' = worker
                       => (NotThere(p) => NotThere(p)')
  /\ restarted' = restarted
  /\ run'.state \notin Terminal => run.state \notin Terminal /\ fence' = fence

\* A row that is settled or interrupted does not come back from a terminal state.
LEMMA EndedRows ==
  ASSUME Typed
  PROVE  /\ Outcome.state \notin Terminal => run.state \notin Terminal
         /\ Settled(run).state \notin Terminal => run.state \notin Terminal
         /\ Working \intersect Terminal = {} /\ run.resume \in Working
  BY DEF Outcome, Settled, Typed, Runs, RunStates, Terminal, Working

\* Each action of the sweep but the claim, the walk, the fence and the restart is of that kind.
LEMMA UnfencedControls ==
  ASSUME Typed,
         UNCHANGED vars \/ Request \/ Pause \/ Resume \/ Stop \/ StopQueued \/ ChangePolicy
  PROVE  UnfencedStep
  <1>1. UNCHANGED <<scope, inventory, worker, disk, tracks>>
    BY QuietSteps
  <1>2. UNCHANGED <<revision, publishing, restarted>>
    BY DEF vars, Request, Pause, Resume, Stop, StopQueued, ChangePolicy, Controlled, marks
  <1>3. fence' = fence \/ fence' = NoFences
    BY DEF vars, Request, Pause, Resume, Stop, StopQueued, ChangePolicy, Controlled, runVars
  <1>4. run'.state \notin Terminal => run.state \notin Terminal /\ fence' = fence
    BY EndedRows DEF vars, Request, Pause, Resume, Stop, StopQueued, ChangePolicy, Controlled, runVars,
           Typed, Runs, Terminal, Working
  <1> QED
    BY <1>1, <1>2, <1>3, <1>4 DEF UnfencedStep, Unfenced, NotThere, Listed

\* The ends of a phase are of that kind.
LEMMA UnfencedEnds ==
  ASSUME Typed, EndDiscovery \/ EndIndexing \/ EndReconciling \/ GiveUp \/ Return \/ WorkerFails
  PROVE  UnfencedStep
  <1>1. UNCHANGED <<scope, inventory, disk, tracks, revision, publishing, restarted>>
    BY DEF EndDiscovery, EndIndexing, EndReconciling, GiveUp, Return, WorkerFails, calm, others, marks
  <1>2. worker'.at \notin {"walk", "walked"}
    BY Ways, EndSteps, IdleFields DEF Return
  <1>3. (run' = run /\ fence' = fence) \/ Settles(run')
        \/ (run.state \in Working /\ fence' = fence)
    BY DEF EndDiscovery, EndIndexing, EndReconciling, GiveUp, Return, WorkerFails, Settles, Working
  <1>4. fence' = fence \/ fence' = NoFences
    BY <1>3 DEF Settles
  <1>5. run' \in {run, Outcome, Settled(run)} \/ run.state \in Working
    BY DEF EndDiscovery, EndIndexing, EndReconciling, GiveUp, Return, WorkerFails, Settles, Working
  <1>6. run'.state \notin Terminal => run.state \notin Terminal /\ fence' = fence
    BY <1>3, <1>5, EndedRows DEF Settles, Working, Terminal
  <1> QED
    BY <1>1, <1>2, <1>4, <1>6 DEF UnfencedStep, Unfenced, NotThere, Listed

\* The checkpoints that say no are of that kind.
LEMMA UnfencedLeaves ==
  ASSUME Typed, LeaveScope \/ LeaveIndex \/ LeaveReconcile \/ LeaveWalk
  PROVE  UnfencedStep
  <1>1. worker'.at \notin {"walk", "walked"} /\ UNCHANGED <<inventory, disk, tracks>> /\ run' = Outcome
    BY LeaveSteps DEF Leaving
  <1>2. UNCHANGED <<revision, publishing, restarted>> /\ Settles(Outcome)
    BY DEF LeaveScope, LeaveIndex, LeaveReconcile, LeaveWalk, Leave, calm, others, marks
  <1>3. \A s \in Scopes: scope'[s].found = "completed" => scope[s].found = "completed"
    BY LeaveSteps DEF Typed, ScopeRows
  <1> QED
    BY <1>1, <1>2, <1>3, EndedRows DEF UnfencedStep, Unfenced, NotThere, Listed, Settles

\* The rest of the sweep and the user's files are of that kind.
LEMMA UnfencedWork ==
  ASSUME Typed,
         \/ TakeUp
         \/ \E s \in Scopes: Reconcile(s) \/ Unavailable(s)
         \/ \E p \in Paths: IndexRow(p) \/ CommitRow(p) \/ UserAdds(p) \/ UserDeletes(p)
  PROVE  UnfencedStep
  <1>1. UNCHANGED <<run, fence, revision, publishing, restarted>>
    BY DEF TakeUp, Reconcile, Unavailable, IndexRow, CommitRow, UserAdds, UserDeletes, runVars,
           calm, others, marks
  <1>2. CASE TakeUp
    <2>1. UNCHANGED <<disk, tracks>>
      BY <1>2 DEF TakeUp, calm, others
    <2>2. CASE Discover([s \in Scopes |-> scope[s].found])
      <3>1. /\ worker'.at = "scope"
            /\ \A s \in Scopes: scope'[s].found = "completed" => scope[s].found = "completed"
            /\ \A p \in Paths: scope'[ScopeOf[p]].found = "completed" => inventory'[p] = inventory[p]
        BY <2>2, FenceTypes, DiscoverFields
      <3>2. worker' # worker
        BY <1>2, <3>1 DEF TakeUp
      <3> QED
        BY <1>1, <2>1, <3>1, <3>2 DEF UnfencedStep, Unfenced, NotThere, Listed
    <2>3. CASE UNCHANGED <<scope, inventory>> /\ worker'.at \in {"index", "reconcile"}
      BY <1>1, <2>1, <2>3 DEF UnfencedStep, Unfenced, NotThere, Listed
    <2> QED
      BY <1>2, <2>2, <2>3, IdleFields DEF TakeUp
  <1>3. ASSUME NEW s \in Scopes, Reconcile(s) PROVE UnfencedStep
    <2>1. worker'.at = "reconcile" /\ UNCHANGED <<inventory, disk>>
      BY <1>3 DEF Reconcile, Typed, WorkerStates, calm, others
    <2>2. \A p \in Paths: tracks'[p] # "none" => tracks[p] # "none"
      BY <1>3 DEF Reconcile, Typed
    <2>3. \A t \in Scopes: scope'[t].found = scope[t].found
      BY <1>3 DEF Reconcile, Typed, ScopeRows
    <2> QED
      BY <1>1, <2>1, <2>2, <2>3 DEF UnfencedStep, Unfenced, NotThere, Listed
  <1>4. ASSUME NEW s \in Scopes, Unavailable(s) PROVE UnfencedStep
    <2>1. worker'.at = "scope" /\ UNCHANGED <<inventory, disk, tracks>>
      BY <1>4 DEF Unavailable, Typed, WorkerStates
    <2>2. \A t \in Scopes: scope'[t].found = "completed" => scope[t].found = "completed"
      BY <1>4 DEF Unavailable, Typed, ScopeRows
    <2> QED
      BY <1>1, <2>1, <2>2 DEF UnfencedStep, Unfenced, NotThere, Listed
  <1>5. ASSUME NEW p \in Paths, IndexRow(p) \/ CommitRow(p) PROVE UnfencedStep
    <2>1. worker'.at \in {"index", "commit", "fail"} /\ UNCHANGED <<scope, disk>>
      BY <1>5 DEF IndexRow, CommitRow, Typed, WorkerStates, calm, others
    <2>2. \A q \in Paths: ~Listed(q)' => ~Listed(q) /\ tracks'[q] = tracks[q]
      BY ZenonT(60), <1>5 DEF IndexRow, CommitRow, Typed, Listed
    <2> QED
      BY <1>1, <2>1, <2>2 DEF UnfencedStep, Unfenced, NotThere, Listed
  <1>6. ASSUME NEW p \in Paths, UserAdds(p) \/ UserDeletes(p) PROVE UnfencedStep
    <2>1. UNCHANGED <<scope, inventory, worker, tracks>>
          /\ \A q \in Paths: q \in disk' => q \in disk \/ tracks[q] = "none"
      BY <1>6 DEF UserAdds, UserDeletes, runVars
    <2> QED
      BY <1>1, <2>1 DEF UnfencedStep, Unfenced, NotThere, Listed
  <1> QED
    BY <1>2, <1>3, <1>4, <1>5, <1>6

\* The three parts of the fence's invariant, which is inductive together with the worker's place.
Fenced == Ordered /\ FenceKnown /\ Sure

\* A step of that kind keeps the fence's invariant.
LEMMA UnfencedFenced == Typed /\ Fenced /\ UnfencedStep => Fenced'
  <1> SUFFICES ASSUME Typed, Fenced, UnfencedStep PROVE Fenced'
    OBVIOUS
  <1>1. Ordered' /\ Sure'
    BY UnfencedOrdered, UnfencedSure DEF Fenced, UnfencedStep
  <1>2. FenceKnown'
    BY DEF Fenced, FenceKnown, UnfencedStep, Unfenced
  <1> QED
    BY <1>1, <1>2 DEF Fenced

\* A scope that is walked from the start has all its paths before it.
LEMMA WalkFenced ==
  ASSUME Typed, Open, Fenced, NEW s \in Scopes, NEW n, Walk(s, n), s \in worker.scopes,
         worker.at \in Walking,
         UNCHANGED <<run, scope, fence, revision, publishing, disk, tracks, restarted>>
  PROVE  Fenced'
  <1>1. /\ worker'.at = "walk" /\ worker'.scope = {s} /\ worker'.rev = revision[RootOf[s]]
        /\ scope[s].found # "completed"
    BY WalkFields DEF Open
  <1>2. Ordered'
    BY <1>1, FenceTypes DEF Fenced, Ordered
  <1>3. FenceKnown'
    BY DEF Fenced, FenceKnown
  <1>4. \A p \in Paths: /\ ScopeOf[p] = s => p \in worker'.todo
                        /\ ScopeOf[p] # s => (NotThere(p) => NotThere(p)')
    BY WalkRows DEF NotThere, Listed
  <1>5. Sure'
    BY <1>1, <1>4, FenceTypes DEF Fenced, Sure
  <1> QED
    BY <1>2, <1>3, <1>5 DEF Fenced

\* A scope is through: with the fence, when it was read in full and nothing was published.
LEMMA DoneFenced ==
  ASSUME Typed, Fenced, OneScopePerRoot, NEW s \in Scopes, NEW found \in {"completed", "partly"},
         ScopeDone(s, found),
         IF found = "completed"
           THEN /\ worker.at = "walked" /\ worker.todo = {} /\ worker.clean /\ s \in worker.scope
                /\ worker.rev = revision[RootOf[s]] /\ RootOf[s] \notin publishing
                /\ fence' = [fence EXCEPT ![RootOf[s]] = worker.rev]
           ELSE fence' = fence,
         UNCHANGED <<run, revision, publishing, disk, tracks, restarted>>
  PROVE  Fenced'
  <1>1. /\ worker'.at = "scope" /\ inventory' = inventory
        /\ \A t \in Scopes: scope'[t].found = IF t = s THEN found ELSE scope[t].found
    BY ScopeDoneFields
  <1>2. \A t \in Scopes \ {s}: fence'[RootOf[t]] = fence[RootOf[t]]
    BY FenceTypes DEF OneScopePerRoot, Typed
  <1>3. found = "completed" => fence'[RootOf[s]] = revision[RootOf[s]]
    BY FenceTypes DEF Typed
  <1>4. Ordered'
    <2>1. \A r \in Roots: fence'[r] = fence[r] \/ fence'[r] = revision[r]
      BY <1>3, FenceTypes DEF Typed
    <2> QED
      BY <1>1, <2>1, FenceTypes DEF Fenced, Ordered
  <1>5. FenceKnown'
    BY <1>1, <1>2, <1>3, FenceTypes DEF Fenced, FenceKnown
  <1>6. ASSUME NEW p \in Paths, scope'[ScopeOf[p]].found = "completed",
               fence'[RootOf[ScopeOf[p]]] = revision[RootOf[ScopeOf[p]]],
               RootOf[ScopeOf[p]] \notin publishing
        PROVE  NotThere(p)
    BY <1>1, <1>2, <1>6, FenceTypes DEF Fenced, Sure
  <1>7. Sure'
    BY <1>1, <1>6 DEF Sure, NotThere, Listed
  <1> QED
    BY <1>4, <1>5, <1>7 DEF Fenced

\* Every step keeps the fence's invariant.
LEMMA FencedKept ==
  ASSUME Typed, Open, Fenced, OneScopePerRoot, [Next]_vars
  PROVE  Fenced'
  <1>1. CASE UnfencedStep
    BY <1>1, UnfencedFenced
  <1>2. Claim => Fenced'
    <2> SUFFICES ASSUME Claim PROVE Fenced'
      OBVIOUS
    <2>1. worker'.at = "scope" /\ \A s \in Scopes: scope'[s].found = "pending"
      BY DiscoverFields DEF Claim
    <2>2. \A r \in Roots: fence'[r] = NoFence
      BY DEF Claim, NoFences
    <2> QED
      BY <2>1, <2>2, FenceTypes DEF Fenced, Ordered, FenceKnown, Sure
  <1>3. ASSUME NEW s \in Scopes, NextScope(s) \/ Stall(s) PROVE Fenced'
    <2>1. UNCHANGED <<run, scope, fence, revision, publishing, disk, tracks, restarted>>
      BY <1>3 DEF NextScope, Stall, calm, others, marks
    <2> QED
      BY <1>3, <2>1, WalkFenced DEF NextScope, Stall, Walking, Open
  <1>4. ASSUME NEW s \in Scopes, FenceBroken(s) PROVE Fenced'
    <2>1. UNCHANGED <<run, fence, revision, publishing, disk, tracks, restarted>>
      BY <1>4 DEF FenceBroken, calm, others, marks
    <2>2. worker.at \in Walking /\ s \in worker.scopes
      BY <1>4 DEF FenceBroken, Walking, Open
    <2>3. CASE Walk(s, worker.restarts + 1) /\ scope' = scope
      BY <2>1, <2>2, <2>3, WalkFenced
    <2>4. CASE ScopeDone(s, "partly")
      BY <2>1, <2>4, DoneFenced
    <2> QED
      BY <1>4, <2>3, <2>4 DEF FenceBroken
  <1>5. ASSUME NEW s \in Scopes, FenceHolds(s) PROVE Fenced'
    <2>1. UNCHANGED <<run, revision, publishing, disk, tracks, restarted>>
      BY <1>5 DEF FenceHolds, calm, others, marks
    <2>2. worker.todo = {}
      BY <1>5 DEF FenceHolds, Open
    <2>3. CASE worker.clean /\ ScopeDone(s, "completed")
               /\ fence' = [fence EXCEPT ![RootOf[s]] = worker.rev]
      BY <1>5, <2>1, <2>2, <2>3, DoneFenced DEF FenceHolds
    <2>4. CASE ScopeDone(s, "partly") /\ fence' = fence
      BY <2>1, <2>4, DoneFenced
    <2> QED
      BY <1>5, <2>3, <2>4 DEF FenceHolds
  <1>6. ASSUME NEW p \in Paths, WalkPath(p) PROVE Fenced'
    <2>1. /\ worker.at = "walk" /\ worker'.at = "walk" /\ worker'.todo = worker.todo \ {p}
          /\ worker'.clean = worker.clean /\ worker'.scope = worker.scope /\ worker'.rev = worker.rev
      BY <1>6 DEF WalkPath, Typed, WorkerStates
    <2>2. UNCHANGED <<run, scope, fence, revision, publishing, disk, tracks, restarted>>
      BY <1>6 DEF WalkPath, calm, others, marks
    <2>3. /\ \A q \in Paths \ {p}: Listed(q)' = Listed(q)
          /\ p \in disk /\ tracks[p] # "none" => Listed(p)'
      BY <1>6 DEF WalkPath, Typed, Listed
    <2>4. \A q \in Paths: NotThere(q) => NotThere(q)'
      BY <2>2, <2>3 DEF NotThere, Listed
    <2>5. NotThere(p)'
      BY <2>2, <2>3 DEF NotThere, Listed
    <2>6. Ordered' /\ FenceKnown'
      BY <2>1, <2>2 DEF Fenced, Ordered, FenceKnown
    <2>7. Sure'
      BY <2>1, <2>2, <2>4, <2>5 DEF Fenced, Sure
    <2> QED
      BY <2>6, <2>7 DEF Fenced
  <1>7. WalkEnds \/ WalkDegrades => Fenced'
    <2> SUFFICES ASSUME WalkEnds \/ WalkDegrades PROVE Fenced'
      OBVIOUS
    <2>1. /\ worker.at = "walk" /\ worker'.at \in {"walk", "walked"} /\ worker'.rev = worker.rev
          /\ worker'.scope = worker.scope /\ worker'.clean \in {worker.clean, FALSE}
          /\ worker'.clean => worker'.todo = worker.todo
      BY DEF WalkEnds, WalkDegrades, Typed, WorkerStates
    <2>2. UNCHANGED <<run, scope, inventory, fence, revision, publishing, disk, tracks, restarted>>
      BY DEF WalkEnds, WalkDegrades, calm, others, marks
    <2>3. Ordered' /\ FenceKnown'
      BY <2>1, <2>2 DEF Fenced, Ordered, FenceKnown
    <2>4. Sure'
      BY <2>1, <2>2 DEF Fenced, Sure, NotThere, Listed
    <2> QED
      BY <2>3, <2>4 DEF Fenced
  <1>8. ASSUME NEW p \in Paths, NEW q \in Paths, Publish(p, q) PROVE Fenced'
    <2>1. UNCHANGED <<run, scope, inventory, worker, fence, revision, restarted>>
      BY <1>8 DEF Publish, runVars, marks
    <2>2. /\ publishing' = publishing \union {RootOf[ScopeOf[p]], RootOf[ScopeOf[q]]}
          /\ disk' = (disk \ {p}) \union {q}
          /\ \A o \in Paths \ {p, q}: tracks'[o] = tracks[o]
      BY <1>8 DEF Publish, Typed
    <2>3. Ordered' /\ FenceKnown'
      BY <2>1 DEF Fenced, Ordered, FenceKnown
    <2>4. \A o \in Paths: RootOf[ScopeOf[o]] \notin publishing' =>
            RootOf[ScopeOf[o]] \notin publishing /\ (NotThere(o) => NotThere(o)')
      BY <2>1, <2>2 DEF NotThere, Listed
    <2>5. Sure'
      BY <2>1, <2>4 DEF Fenced, Sure
    <2> QED
      BY <2>3, <2>5 DEF Fenced
  <1>9. ASSUME NEW r \in Roots, Released(r) PROVE Fenced'
    <2>1. UNCHANGED <<run, scope, inventory, worker, fence, disk, tracks, restarted>>
      BY <1>9 DEF Released, runVars, files, marks
    <2>2. /\ publishing' = publishing \ {r} /\ revision'[r] = revision[r] + 1
          /\ \A q \in Roots \ {r}: revision'[q] = revision[q]
      BY <1>9 DEF Released, Typed
    <2>3. Ordered' /\ FenceKnown'
      BY <2>1, <2>2, FenceTypes DEF Fenced, Ordered, FenceKnown
    <2>4. fence[r] # revision'[r]
      BY <2>2, FenceTypes DEF Fenced, Ordered
    <2>5. worker.at \in {"walk", "walked"} =>
            \A s \in worker.scope: RootOf[s] = r => worker.rev # revision'[r]
      BY <2>2, FenceTypes DEF Fenced, Ordered
    <2>6. \A p \in Paths: NotThere(p) => NotThere(p)'
      BY <2>1 DEF NotThere, Listed
    <2>7. Sure'
      BY <2>1, <2>2, <2>4, <2>5, <2>6, FenceTypes DEF Fenced, Sure
    <2> QED
      BY <2>3, <2>7 DEF Fenced
  <1>10. Restart => Fenced'
    <2> SUFFICES ASSUME Restart PROVE Fenced'
      OBVIOUS
    <2>1. worker'.at = "idle" /\ restarted'
      BY EndSteps, IdleFields DEF Restart
    <2>2. \A r \in Roots: fence'[r] = NoFence /\ revision'[r] = 0
      BY DEF Restart, NoFences
    <2> QED
      BY <2>1, <2>2, FenceTypes, FenceAssumption DEF Fenced, Ordered, FenceKnown, Sure
  <1> QED
    BY <1>1, <1>2, <1>3, <1>4, <1>5, <1>6, <1>7, <1>8, <1>9, <1>10,
       UnfencedControls, UnfencedEnds, UnfencedLeaves, UnfencedWork DEF Next, Work

\* The fence's invariant holds at the start.
LEMMA InitFenced == Init => Fenced
  <1> SUFFICES ASSUME Init PROVE Fenced
    OBVIOUS
  <1>1. worker.at = "idle" /\ run.state = "completed" /\ \A r \in Roots: fence[r] = NoFence
    BY IdleFields DEF Init, NoFences
  <1>2. \A r \in Roots: revision[r] = 0 /\ NoFence # 0
    BY FenceAssumption DEF Init
  <1> QED
    BY <1>1, <1>2 DEF Fenced, Ordered, FenceKnown, Sure, Terminal

\* Only reconciliation marks a track missing.
LEMMA MissingSteps ==
  ASSUME Typed, [Next]_vars, NEW p \in Paths, tracks[p] # "missing", tracks'[p] = "missing"
  PROVE  \E s \in Scopes: Reconcile(s)
  <1>1. ASSUME NEW q \in Paths, NEW r \in Paths, Publish(q, r) PROVE FALSE
    BY <1>1 DEF Publish, Typed
  <1>2. ASSUME NEW q \in Paths, CommitRow(q) PROVE FALSE
    BY <1>2 DEF CommitRow, Typed
  <1>3. tracks' # tracks
    OBVIOUS
  <1>4. ~(LeaveScope \/ LeaveIndex \/ LeaveReconcile \/ LeaveWalk)
    BY <1>3, LeaveSteps
  <1>5. ~(EndReconciling \/ GiveUp \/ WorkerFails \/ Restart)
    BY <1>3, EndSteps
  <1>6. ~(\/ UNCHANGED vars \/ Pause \/ Resume \/ Stop \/ Request \/ StopQueued \/ ChangePolicy
          \/ \E r \in Roots: Released(r))
    BY SMTT(30), <1>3, QuietSteps
  <1>7. ~(\/ Claim \/ TakeUp \/ WalkEnds \/ WalkDegrades \/ EndDiscovery \/ EndIndexing \/ Return
          \/ \E s \in Scopes: NextScope(s) \/ FenceHolds(s) \/ FenceBroken(s) \/ Stall(s) \/ Unavailable(s)
          \/ \E q \in Paths: WalkPath(q) \/ IndexRow(q) \/ UserAdds(q) \/ UserDeletes(q))
    BY <1>3 DEF Claim, TakeUp, WalkEnds, WalkDegrades, EndDiscovery, EndIndexing, Return, NextScope,
                FenceHolds, FenceBroken, Stall, Unavailable, WalkPath, IndexRow, UserAdds, UserDeletes
  <1> QED
    BY <1>1, <1>2, <1>4, <1>5, <1>6, <1>7 DEF Next, Work

\* Where no root has two scopes, a track is marked missing only when its file is not there,
\* however the publishers and the user move files during the walk and after it.
THEOREM MissingIsGone == OneScopePerRoot => (Spec => NoFalseMissing)
  <1> SUFFICES ASSUME OneScopePerRoot PROVE Spec => NoFalseMissing
    OBVIOUS
  <1>1. Init => Fenced
    BY InitFenced
  <1>2. Sweep /\ Fenced /\ [Next]_vars => Fenced'
    BY FencedKept DEF Sweep
  <1> DEFINE Gone == \A p \in Paths:
               tracks[p] # "missing" /\ tracks'[p] = "missing" /\ ~restarted => p \notin disk
  <1>3. Sweep /\ Fenced /\ [Next]_vars => Gone
    <2> SUFFICES ASSUME Sweep, Fenced, [Next]_vars, NEW p \in Paths,
                        tracks[p] # "missing", tracks'[p] = "missing", ~restarted
                 PROVE  p \notin disk
      OBVIOUS
    <2>1. PICK s \in Scopes: Reconcile(s)
      BY MissingSteps DEF Sweep
    <2>2. /\ worker.at = "reconcile" /\ RootOf[s] \notin publishing
          /\ ScopeOf[p] = s /\ scope[s].found = "completed" /\ tracks[p] # "none"
          /\ ~Listed(p) /\ AllowMissing(s)
      BY <2>1 DEF Reconcile
    <2>3. run.state \notin Terminal
      BY <2>2 DEF Sweep, AtWork, Busy, Terminal, Working
    <2>4. fence[RootOf[s]] = revision[RootOf[s]]
      BY <2>2, <2>3 DEF Fenced, FenceKnown, AllowMissing
    <2> QED
      BY <2>2, <2>4 DEF Fenced, Sure, NotThere, Listed
  <1> QED
    BY <1>1, <1>2, <1>3, AlwaysSweep, PTL DEF Spec, NoFalseMissing
=============================================================================
