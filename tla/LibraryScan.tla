----------------------------- MODULE LibraryScan -----------------------------
(***************************************************************************)
(* A library scan (services/native/library_scan_coordinator.py,            *)
(* library_inventory_scanner.py, library_indexer.py, library_reconciler.py *)
(* and the scan runs of native_library_store.py) next to the publishers    *)
(* that move files while it runs, the user who pauses, resumes and stops   *)
(* it, a change of the library policy and restarts.                        *)
(*                                                                         *)
(* One worker carries one run through discovery, indexing and              *)
(* reconciliation; at most one more run is queued.  A walk looks at one    *)
(* path at a time and holds no lease; the fence check, a tag read and a    *)
(* reconciliation batch happen under the root's read lease (RootLeases).   *)
(* The history variables crossed, restarted and steady are for properties.   *)
(***************************************************************************)
EXTENDS Naturals, FiniteSets

CONSTANTS
  Roots, Scopes, Paths,
  RootOf,        \* RootOf[s]: the library root of a scope
  ScopeOf,       \* ScopeOf[p]: the scope that covers a path
  OnDisk, Catalogued,  \* the paths that exist and those with a track at the start
  NoFence,
  Rewalks,       \* how often one scope is walked again (2 in the code)
  MaxDisturbed   \* bound: requests, controls, policy changes, moves, edits, faults, skipped
                 \* and unreadable files and restarts together

ASSUME ScopesAssumption == RootOf \in [Scopes -> Roots]
ASSUME PathsAssumption ==
  /\ ScopeOf \in [Paths -> Scopes] /\ OnDisk \subseteq Paths /\ Catalogued \subseteq Paths
ASSUME BoundsAssumption == Rewalks \in Nat /\ MaxDisturbed \in Nat
ASSUME FenceAssumption == NoFence \notin Nat

VARIABLES
  run,         \* the run that is or was last worked on (library_scan_runs)
  queued,      \* policy of the queued follow-up run, or "none"
  scope,       \* scope[s]: discovery_state and whether it was reconciled
  inventory,   \* inventory[p]: the row of the scope's current generation; a path the walk
               \* "skipped" has none, but like a "failed" row it is in library_scan_failures
  worker,      \* where the worker is
  pending,     \* _pending_control_run_ids holds the run
  fence,       \* _scan_revisions of the run, per root
  revision,    \* revision of each root's lease
  publishing,  \* roots under a write lease
  disk, tracks,
  policy,      \* the policy revision that is configured
  disturbed,   \* how many there were
  crossed,     \* a control crossed the worker: a resume before it had returned, or a
               \* pause or a stop before it had taken the run up
  restarted,   \* the process restarted since the run was claimed
  steady       \* paths that have been on disk ever since the run was claimed

runVars == <<run, queued, scope, inventory, worker, pending, fence>>
files == <<disk, tracks, steady>>
marks == <<crossed, restarted>>
vars == <<run, queued, scope, inventory, worker, pending, fence, revision, publishing,
          disk, tracks, policy, disturbed, crossed, restarted, steady>>

Working == {"discovering", "indexing", "reconciling"}
Terminal == {"completed", "cancelled", "superseded", "failed"}
RunStates == Working \union Terminal \union {"pausing", "paused", "stopping"}
Policies == {"old", "new"}
Idle == [at |-> "idle", todo |-> {}, scopes |-> {}, scope |-> {}, rev |-> 0,
         restarts |-> 0, clean |-> TRUE]

TypeOK ==
  /\ run \in [state: RunStates, control: {"none", "pause", "stop"}, resume: Working,
              policy: Policies]
  /\ queued \in Policies \union {"none"}
  /\ scope \in [Scopes -> [found: {"pending", "completed", "partly", "unavailable"},
                           reconciled: BOOLEAN]]
  /\ inventory \in [Paths -> {"absent", "skipped", "new", "known", "changed", "done", "failed"}]
  /\ worker \in [at: {"idle", "scope", "walk", "walked", "left_scope", "left_walk", "index",
                      "left_index", "commit", "fail", "reconcile", "left_reconcile"},
                 todo: SUBSET Paths, scopes: SUBSET Scopes, scope: SUBSET Scopes, rev: Nat,
                 restarts: 0..Rewalks, clean: BOOLEAN]
  /\ pending \in BOOLEAN /\ crossed \in BOOLEAN /\ restarted \in BOOLEAN
  /\ fence \in [Roots -> Nat \union {NoFence}]
  /\ revision \in [Roots -> Nat] /\ publishing \subseteq Roots
  /\ disk \subseteq Paths /\ tracks \in [Paths -> {"none", "indexed", "missing"}]
  /\ policy \in Policies /\ steady \subseteq Paths
  /\ disturbed \in 0..MaxDisturbed

NoFences == [r \in Roots |-> NoFence]
Init ==
  /\ run = [state |-> "completed", control |-> "none", resume |-> "discovering", policy |-> "old"]
  /\ queued = "old"
  /\ scope = [s \in Scopes |-> [found |-> "completed", reconciled |-> TRUE]]
  /\ inventory = [p \in Paths |-> "absent"]
  /\ worker = Idle /\ pending = FALSE /\ fence = NoFences
  /\ revision = [r \in Roots |-> 0] /\ publishing = {}
  /\ disk = OnDisk /\ tracks = [p \in Paths |-> IF p \in Catalogued THEN "indexed" ELSE "none"]
  /\ policy = "old"
  /\ disturbed = 0
  /\ crossed = FALSE /\ restarted = FALSE /\ steady = {}

\* What happens around the worker, and is bounded.
Disturb == disturbed < MaxDisturbed /\ disturbed' = disturbed + 1
-----------------------------------------------------------------------------
(* The run's row, and the user who controls it.                             *)

\* request_scan_run: the queued run covers an equal request; another policy conflicts.
Request ==
  /\ Disturb
  /\ queued' = IF queued = "none" THEN policy ELSE queued
  /\ UNCHANGED <<run, scope, inventory, worker, pending, fence, revision, publishing, files,
                 policy, marks>>

\* A control is written to the row and noted for the checkpoints (control).
Controlled(state, control) ==
  /\ Disturb
  /\ run' = [run EXCEPT !.state = state, !.control = control,
                        !.resume = IF control = "pause" THEN run.state ELSE @]
  /\ pending' = (state \in {"pausing", "stopping"})
  /\ fence' = IF state \in Terminal THEN NoFences ELSE fence
  /\ UNCHANGED <<queued, scope, inventory, worker, revision, publishing, files, policy,
                 restarted>>

Pause ==
  /\ run.state \in Working
  /\ Controlled("pausing", "pause")
  /\ crossed' = (crossed \/ worker.at = "idle")
Resume ==
  /\ run.state = "paused"
  /\ Controlled(run.resume, "none")
  /\ crossed' = (crossed \/ worker.at # "idle")
Stop ==
  /\ \/ run.state = "paused" /\ Controlled("cancelled", "none") /\ UNCHANGED crossed
     \/ /\ run.state \in Working \union {"pausing"}
        /\ Controlled("stopping", "stop")
        /\ crossed' = (crossed \/ worker.at = "idle")

\* Stopping a run that is still queued cancels it.
StopQueued ==
  /\ queued # "none" /\ Disturb
  /\ queued' = "none"
  /\ UNCHANGED <<run, scope, inventory, worker, pending, fence, revision, publishing, files,
                 policy, marks>>

ChangePolicy ==
  /\ Disturb
  /\ policy = "old" /\ policy' = "new"
  /\ UNCHANGED <<runVars, revision, publishing, files, marks>>
-----------------------------------------------------------------------------
(* Files: the publishers work under a write lease, the user does not.  They  *)
(* are bounded to what happens while a run is under way.                    *)

\* A publisher moves a catalogued file and its track; the revision moves on release.
Publish(p, q) ==
  /\ run.state \notin Terminal /\ Disturb
  /\ p \in disk /\ q \notin disk /\ tracks[p] = "indexed" /\ tracks[q] = "none"
  /\ LET touched == {RootOf[ScopeOf[p]], RootOf[ScopeOf[q]]} IN
     /\ publishing \intersect touched = {}
     /\ publishing' = publishing \union touched
  /\ disk' = (disk \ {p}) \union {q} /\ steady' = steady \ {p}
  /\ tracks' = [tracks EXCEPT ![p] = "none", ![q] = "indexed"]
  /\ UNCHANGED <<runVars, revision, policy, marks>>

Released(r) ==
  /\ r \in publishing /\ publishing' = publishing \ {r}
  /\ revision' = [revision EXCEPT ![r] = @ + 1]
  /\ UNCHANGED <<runVars, files, policy, disturbed, marks>>

\* A new file: one that was deleted and comes back is for the next run to restore.
UserAdds(p) ==
  /\ run.state \notin Terminal /\ Disturb /\ p \notin disk /\ tracks[p] = "none"
  /\ disk' = disk \union {p}
  /\ UNCHANGED <<runVars, revision, publishing, tracks, steady, policy, marks>>
UserDeletes(p) ==
  /\ run.state \notin Terminal /\ Disturb /\ p \in disk /\ disk' = disk \ {p} /\ steady' = steady \ {p}
  /\ UNCHANGED <<runVars, revision, publishing, tracks, policy, marks>>
-----------------------------------------------------------------------------
(* The worker.                                                              *)

calm == <<queued, revision, publishing, disk, policy, marks, steady>>
others == <<calm, disturbed>>

\* _settle_pending_control: what a pause or a stop comes to; the worker's last step.
SettledAsResumed(r) == CASE r.state = "pausing" -> [r EXCEPT !.state = r.resume, !.control = "none"]
                         [] r.state = "stopping" -> [r EXCEPT !.state = "cancelled", !.control = "none"]
                         [] OTHER -> r
Settled(r) == CASE r.state = "pausing" -> [r EXCEPT !.state = "paused", !.control = "none"]
                [] r.state = "stopping" -> [r EXCEPT !.state = "cancelled", !.control = "none"]
                [] OTHER -> r
Settles(r) ==
  /\ run' = r
  /\ pending' = FALSE
  /\ fence' = IF r.state \in Terminal THEN NoFences ELSE fence

\* checkpoint: the row is read only when the policy changed or a control is noted.
GoesOn == policy = run.policy /\ (~pending \/ run.state \in Working)
\* A checkpoint that says no; the worker, on its way out, has not yet looked at the row.
OutcomePolicyFirst ==
  IF policy # run.policy
  THEN IF run.state \in Terminal THEN run ELSE [run EXCEPT !.state = "superseded"]
  ELSE Settled(run)
Outcome ==
  IF policy # run.policy /\ run.state # "stopping"
  THEN IF run.state \in Terminal THEN run ELSE [run EXCEPT !.state = "superseded"]
  ELSE Settled(run)
Leave(at) ==
  /\ ~GoesOn
  /\ Settles(Outcome)
  /\ worker' = [worker EXCEPT !.at = at]

\* The scope is walked from the start: its rows are those of an older generation.
Walk(s, restarts) ==
  /\ worker' = [worker EXCEPT !.at = "walk", !.scope = {s}, !.restarts = restarts,
                              !.todo = {p \in Paths: ScopeOf[p] = s}, !.clean = TRUE,
                              !.rev = revision[RootOf[s]]]
  /\ inventory' = [p \in Paths |-> IF ScopeOf[p] = s THEN "absent" ELSE inventory[p]]
\* discover is entered: completed scopes keep their rows, the others start anew.
Discover(found) ==
  LET open == {s \in Scopes: found[s] # "completed"} IN
  /\ worker' = [Idle EXCEPT !.at = "scope", !.scopes = open]
  /\ scope' = [s \in Scopes |-> IF s \in open THEN [found |-> "pending", reconciled |-> FALSE]
                                ELSE scope[s]]
  /\ inventory' = [p \in Paths |-> IF ScopeOf[p] \in open THEN "absent" ELSE inventory[p]]

\* claim_next_scan_run: a paused run is in the way, and so is one that is being settled.
ClaimAfterCompletion ==
  /\ worker.at = "idle" /\ run.state = "completed" /\ queued # "none"
  /\ run' = [state |-> "discovering", control |-> "none", resume |-> "discovering",
             policy |-> queued]
  /\ queued' = "none" /\ pending' = FALSE /\ fence' = NoFences
  /\ Discover([s \in Scopes |-> "pending"])
  /\ crossed' = FALSE /\ restarted' = FALSE /\ steady' = disk
  /\ UNCHANGED <<revision, publishing, disk, tracks, policy, disturbed>>
Claim ==
  /\ worker.at = "idle" /\ run.state \in Terminal /\ queued # "none"
  /\ run' = [state |-> "discovering", control |-> "none", resume |-> "discovering",
             policy |-> queued]
  /\ queued' = "none" /\ pending' = FALSE /\ fence' = NoFences
  /\ Discover([s \in Scopes |-> "pending"])
  /\ crossed' = FALSE /\ restarted' = FALSE /\ steady' = disk
  /\ UNCHANGED <<revision, publishing, disk, tracks, policy, disturbed>>

\* get_resumable_scan_run: after a pause or a restart.
TakeUpDiscovery ==
  /\ worker.at = "idle" /\ run.state = "discovering"
  /\ Discover([s \in Scopes |-> scope[s].found])
  /\ UNCHANGED <<run, pending, fence, tracks, others>>
TakeUp ==
  /\ worker.at = "idle" /\ run.state \in Working
  /\ \/ /\ run.state = "discovering"
        /\ Discover([s \in Scopes |-> scope[s].found])
     \/ /\ run.state = "indexing"
        /\ worker' = [Idle EXCEPT !.at = "index"] /\ UNCHANGED <<scope, inventory>>
     \/ /\ run.state = "reconciling"
        /\ worker' = [Idle EXCEPT !.at = "reconcile", !.scopes = Scopes]
        /\ UNCHANGED <<scope, inventory>>
  /\ UNCHANGED <<run, pending, fence, tracks, others>>

\* discover's loop over the scopes that are not completed.
NextScope(s) ==
  /\ worker.at = "scope" /\ s \in worker.scopes /\ GoesOn
  /\ Walk(s, 0)
  /\ UNCHANGED <<run, scope, pending, fence, tracks, others>>
LeaveScope ==
  /\ worker.at = "scope" /\ worker.scopes # {} /\ Leave("left_scope")
  /\ UNCHANGED <<scope, inventory, tracks, others>>

\* The probe finds no root: the scope is reported and the run goes on.
Unavailable(s) ==
  /\ worker.at = "scope" /\ s \in worker.scopes /\ GoesOn
  /\ Disturb
  /\ scope' = [scope EXCEPT ![s].found = "unavailable"]
  /\ worker' = [worker EXCEPT !.scopes = @ \ {s}]
  /\ UNCHANGED <<run, inventory, pending, fence, tracks, queued, revision, publishing, disk,
                 policy, marks, steady>>

\* One path of the walk; a row remembers how it compares with the catalog.  What cannot be
\* taken up (a name that is not UTF-8 or that another one folds into, a link out of the root,
\* a device) is reported and skipped; where a track's file was, that counts as a deletion.
WalkPath(p) ==
  /\ worker.at = "walk" /\ p \in worker.todo
  /\ worker' = [worker EXCEPT !.todo = @ \ {p}]
  /\ \/ p \notin disk /\ UNCHANGED <<inventory, disturbed>>
     \/ /\ p \in disk
        /\ \E as \in IF tracks[p] = "none" THEN {"new"} ELSE {"known", "changed"}:
             inventory' = [inventory EXCEPT ![p] = as]
        /\ UNCHANGED disturbed
     \/ /\ p \in disk /\ tracks[p] = "none" /\ Disturb
        /\ inventory' = [inventory EXCEPT ![p] = "skipped"]
  /\ UNCHANGED <<run, scope, pending, fence, tracks, calm>>

\* A directory cannot be read: the scope will be partially read.
WalkDegrades ==
  /\ worker.at = "walk" /\ worker.clean /\ worker.todo # {}
  /\ Disturb
  /\ \E p \in worker.todo: worker' = [worker EXCEPT !.todo = @ \ {p}, !.clean = FALSE]
  /\ UNCHANGED <<run, scope, inventory, pending, fence, tracks, queued, revision, publishing,
                 disk, policy, marks, steady>>

WalkEnds ==
  /\ worker.at = "walk" /\ worker.todo = {}
  /\ worker' = [worker EXCEPT !.at = "walked"]
  /\ UNCHANGED <<run, scope, inventory, pending, fence, tracks, others>>

\* A checkpoint inside the walk: the rest is drained and the scope is partially read.
LeaveWalk ==
  /\ worker.at = "walk" /\ Leave("left_walk")
  /\ scope' = [s \in Scopes |-> IF s \in worker.scope THEN [scope[s] EXCEPT !.found = "partly"]
                                ELSE scope[s]]
  /\ UNCHANGED <<inventory, tracks, others>>

\* The fence: under the read lease, nothing was published since the walk began.
ScopeDone(s, found) ==
  /\ scope' = [scope EXCEPT ![s].found = found]
  /\ worker' = [worker EXCEPT !.at = "scope", !.scopes = @ \ {s}, !.scope = {}]
  /\ UNCHANGED inventory
FenceHolds(s) ==
  /\ worker.at = "walked" /\ s \in worker.scope /\ RootOf[s] \notin publishing
  /\ revision[RootOf[s]] = worker.rev
  /\ \/ /\ worker.clean /\ ScopeDone(s, "completed")
        /\ fence' = [fence EXCEPT ![RootOf[s]] = worker.rev]
     \/ ~worker.clean /\ ScopeDone(s, "partly") /\ UNCHANGED fence
  /\ UNCHANGED <<run, pending, tracks, others>>
FenceBrokenAgain(s) ==
  /\ worker.at = "walked" /\ s \in worker.scope /\ RootOf[s] \notin publishing
  /\ revision[RootOf[s]] # worker.rev
  /\ Walk(s, worker.restarts + 1)
  /\ UNCHANGED <<run, scope, pending, fence, tracks, others>>
FenceBroken(s) ==
  /\ worker.at = "walked" /\ s \in worker.scope /\ RootOf[s] \notin publishing
  /\ revision[RootOf[s]] # worker.rev
  /\ \/ worker.restarts < Rewalks /\ Walk(s, worker.restarts + 1) /\ UNCHANGED scope
     \/ worker.restarts = Rewalks /\ ScopeDone(s, "partly")
  /\ UNCHANGED <<run, pending, fence, tracks, others>>

\* Discovery is over for every scope, or the worker takes it to be.
EndDiscovery ==
  /\ worker.at = "scope" /\ worker.scopes = {}
  /\ \/ /\ \A s \in Scopes: scope[s].found = "unavailable"
        /\ run.state = "discovering"
        /\ Settles([run EXCEPT !.state = "failed"]) /\ worker' = Idle
     \/ /\ \E s \in Scopes: scope[s].found # "unavailable"
        /\ run.state = "discovering"
        /\ run' = [run EXCEPT !.state = "indexing"]
        /\ worker' = [Idle EXCEPT !.at = "index"] /\ UNCHANGED <<pending, fence>>
     \/ run.state # "discovering" /\ Settles(Settled(run)) /\ worker' = Idle
  /\ UNCHANGED <<scope, inventory, tracks, others>>

\* Tags are read under the read lease and committed with the batch, after it.  A read that
\* is put off (too many are stuck), times out, raises, or finds the file changing or gone
\* commits a failed row instead.
IndexRow(p) ==
  /\ worker.at = "index" /\ GoesOn
  /\ \/ /\ inventory[p] = "known"
        /\ inventory' = [inventory EXCEPT ![p] = "done"] /\ UNCHANGED <<worker, disturbed>>
     \/ /\ inventory[p] \in {"new", "changed"}
        /\ \/ /\ p \in disk /\ RootOf[ScopeOf[p]] \notin publishing
              /\ worker' = [worker EXCEPT !.at = "commit", !.todo = {p}]
              /\ UNCHANGED disturbed
           \/ /\ IF p \in disk THEN Disturb ELSE UNCHANGED disturbed
              /\ worker' = [worker EXCEPT !.at = "fail", !.todo = {p}]
        /\ UNCHANGED inventory
  /\ UNCHANGED <<run, scope, pending, fence, tracks, calm>>
CommitRowOnly(p) ==
  /\ worker.at \in {"commit", "fail"} /\ p \in worker.todo /\ GoesOn
  /\ inventory' = [inventory EXCEPT ![p] = "done"]
  /\ worker' = [worker EXCEPT !.at = "index", !.todo = {}]
  /\ UNCHANGED <<run, scope, pending, fence, tracks, others>>
CommitRow(p) ==
  /\ p \in worker.todo /\ GoesOn
  /\ \/ /\ worker.at = "commit"
        /\ tracks' = [tracks EXCEPT ![p] = "indexed"]
        /\ inventory' = [inventory EXCEPT ![p] = "done"]
     \/ /\ worker.at = "fail"
        /\ inventory' = [inventory EXCEPT ![p] = "failed"] /\ UNCHANGED tracks
  /\ worker' = [worker EXCEPT !.at = "index", !.todo = {}]
  /\ UNCHANGED <<run, scope, pending, fence, others>>
LeaveIndex ==
  /\ worker.at \in {"index", "commit", "fail"} /\ Leave("left_index")
  /\ UNCHANGED <<scope, inventory, tracks, others>>

\* No row is pending: each was indexed or has failed.
Indexed == \A p \in Paths: inventory[p] \in {"absent", "skipped", "done", "failed"}
EndIndexing ==
  /\ worker.at = "index" /\ Indexed /\ run.state = "indexing" /\ GoesOn
  /\ run' = [run EXCEPT !.state = "reconciling"]
  /\ worker' = [Idle EXCEPT !.at = "reconcile", !.scopes = Scopes]
  /\ UNCHANGED <<scope, inventory, pending, fence, tracks, others>>

\* reconcile, one batch per scope, under the read lease.
AllowMissingAlways(s) == s \in Scopes
Listed(p) == inventory[p] \notin {"absent", "skipped"}
AllowMissing(s) == fence[RootOf[s]] \in {NoFence, revision[RootOf[s]]}
Reconcile(s) ==
  /\ worker.at = "reconcile" /\ s \in worker.scopes /\ GoesOn
  /\ RootOf[s] \notin publishing
  /\ worker' = [worker EXCEPT !.scopes = @ \ {s}]
  /\ scope' = [scope EXCEPT ![s].reconciled = TRUE]
  /\ tracks' = [p \in Paths |->
       IF ScopeOf[p] # s \/ scope[s].found # "completed" \/ tracks[p] = "none" THEN tracks[p]
       ELSE IF Listed(p) THEN "indexed"
       ELSE IF AllowMissing(s) THEN "missing" ELSE tracks[p]]
  /\ UNCHANGED <<run, inventory, pending, fence, others>>
LeaveReconcile ==
  /\ worker.at = "reconcile" /\ worker.scopes # {} /\ Leave("left_reconcile")
  /\ UNCHANGED <<scope, inventory, tracks, others>>
EndReconciling ==
  /\ worker.at = "reconcile" /\ worker.scopes = {} /\ run.state = "reconciling" /\ GoesOn
  /\ Settles([run EXCEPT !.state = "completed"]) /\ worker' = Idle
  /\ UNCHANGED <<scope, inventory, tracks, others>>
\* The last checkpoint of a phase says no, or the transition finds the row changed.
GiveUp ==
  /\ \/ worker.at = "index" /\ Indexed
     \/ worker.at = "reconcile" /\ worker.scopes = {}
  /\ ~GoesOn \/ run.state \notin Working
  /\ Settles(Outcome) /\ worker' = Idle
  /\ UNCHANGED <<scope, inventory, tracks, others>>

\* The worker is back in _continue_run and reads the row: a run that is no longer in its
\* phase is settled, one that was resumed in the meantime counts as through with it.
Return ==
  /\ \/ /\ worker.at = "left_scope" /\ run.state = "discovering"
        /\ run' = [run EXCEPT !.state = "indexing"]
        /\ worker' = [Idle EXCEPT !.at = "index"] /\ UNCHANGED <<pending, fence>>
     \/ /\ worker.at = "left_walk" /\ run.state = "discovering"
        /\ Settles([run EXCEPT !.state = "failed"]) /\ worker' = Idle
     \/ /\ worker.at = "left_index" /\ run.state = "indexing" /\ GoesOn
        /\ run' = [run EXCEPT !.state = "reconciling"]
        /\ worker' = [Idle EXCEPT !.at = "reconcile", !.scopes = Scopes]
        /\ UNCHANGED <<pending, fence>>
     \/ /\ worker.at = "left_reconcile" /\ run.state = "reconciling" /\ GoesOn
        /\ Settles([run EXCEPT !.state = "completed"]) /\ worker' = Idle
     \/ /\ worker.at \in {"left_index", "left_reconcile"} /\ run.state \in Working /\ ~GoesOn
        /\ Settles(Outcome) /\ worker' = Idle
     \/ /\ worker.at \in {"left_scope", "left_walk", "left_index", "left_reconcile"}
        /\ run.state \notin Working
        /\ Settles(Settled(run)) /\ worker' = Idle
  /\ UNCHANGED <<scope, inventory, tracks, others>>

\* A walk that stalls is repeated while its budget lasts; other failures end the run.
Stall(s) ==
  /\ worker.at = "walk" /\ s \in worker.scope /\ GoesOn /\ worker.restarts < Rewalks
  /\ Disturb
  /\ Walk(s, worker.restarts + 1)
  /\ UNCHANGED <<run, scope, pending, fence, tracks, queued, revision, publishing, disk, policy,
                 marks, steady>>
WorkerFails ==
  /\ worker.at \notin {"idle", "left_scope", "left_walk", "left_index", "left_reconcile"}
  /\ Disturb
  /\ Settles(IF run.state \in Working THEN [run EXCEPT !.state = "failed"] ELSE Settled(run))
  /\ worker' = Idle
  /\ UNCHANGED <<scope, inventory, tracks, queued, revision, publishing, disk, policy, marks,
                 steady>>

\* The process ends; recover settles what was being paused or stopped.  Leases, revisions
\* and fences are gone, and the publishers' own recovery has run.
RecoveredRetrying(r) ==
  IF r.state \in {"pausing", "failed"} THEN [r EXCEPT !.state = "paused", !.control = "none"]
  ELSE r
Recovered(r) ==
  IF r.state = "stopping" \/ r.control = "stop"
  THEN [r EXCEPT !.state = "cancelled", !.control = "none"]
  ELSE IF r.state = "pausing" \/ r.control = "pause"
  THEN [r EXCEPT !.state = "paused", !.control = "none"] ELSE r
Restart ==
  /\ Disturb
  /\ run' = Recovered(run)
  /\ worker' = Idle /\ pending' = FALSE /\ fence' = NoFences
  /\ revision' = [r \in Roots |-> 0] /\ publishing' = {}
  /\ restarted' = TRUE
  /\ UNCHANGED <<queued, scope, inventory, files, policy, crossed>>
-----------------------------------------------------------------------------
Work ==
  \/ Claim \/ TakeUp \/ LeaveScope \/ WalkEnds \/ LeaveWalk \/ EndDiscovery
  \/ LeaveIndex \/ EndIndexing \/ LeaveReconcile \/ EndReconciling \/ GiveUp \/ Return
  \/ \E s \in Scopes: NextScope(s) \/ FenceHolds(s) \/ FenceBroken(s) \/ Reconcile(s)
  \/ \E p \in Paths: WalkPath(p) \/ IndexRow(p) \/ CommitRow(p)

Next ==
  \/ Work
  \/ Request \/ Pause \/ Resume \/ Stop \/ StopQueued \/ ChangePolicy \/ Restart
  \/ WalkDegrades \/ WorkerFails \/ \E s \in Scopes: Unavailable(s) \/ Stall(s)
  \/ \E p, q \in Paths: Publish(p, q)
  \/ \E r \in Roots: Released(r)
  \/ \E p \in Paths: UserAdds(p) \/ UserDeletes(p)

Spec == Init /\ [][Next]_vars

\* The supervisor loops for ever and is woken by requests and resumes; a publisher ends.
FairSpec == Spec /\ WF_vars(Work) /\ \A r \in Roots: WF_vars(Released(r))
-----------------------------------------------------------------------------
\* A track is marked missing only when its file is not there, however the publishers move
\* files during and after the walk (the discovery fence), while the fence is in memory.
NoFalseMissing == [][\A p \in Paths:
  tracks[p] # "missing" /\ tracks'[p] = "missing" /\ ~restarted => p \notin disk]_vars

\* A run that completed did all of it: each scope was walked or reported, every row of the
\* inventory was indexed or has failed, each completed scope was reconciled.
CompletedSwept == run.state = "completed" /\ ~crossed =>
  /\ \A s \in Scopes: scope[s].found # "pending" /\ scope[s].reconciled
  /\ Indexed

\* ... so a file that was there from its start to its end is in the library, in each scope
\* that could be read, or the run tells of it: the walk skipped it or its row has failed.
Told(p) == inventory[p] \in {"skipped", "failed"}
NothingOverlooked == run.state = "completed" /\ worker.at = "idle" /\ ~crossed =>
  \A p \in steady \intersect disk:
    scope[ScopeOf[p]].found = "completed" => tracks[p] = "indexed" \/ Told(p)

\* A stop that was accepted ends the run as cancelled, also when the policy changes, the
\* worker fails or the process restarts meanwhile.
StopWins == [][run.state = "stopping" => run'.state \in {"stopping", "cancelled"}]_vars

\* An ended run stays ended, but for one superseded while it was being paused.
EndedStays == [][run.state \in Terminal /\ run.control # "pause" =>
  run'.state = run.state \/ (run'.state = "discovering" /\ queued # "none")]_vars
\* _SCAN_TRANSITIONS has no way out of a terminal state.
EndedForGood == [][run.state \in Terminal =>
  run'.state = run.state \/ (run'.state = "discovering" /\ queued # "none")]_vars

\* A control exit "is pause/stop/policy-supersede, not a filesystem error".
PauseIsNoFailure == [][worker.at = "left_walk" => run'.state # "failed"]_vars

\* Every run comes to an end or to a pause, and a queued one is taken up unless a paused
\* one is in the way; but for controls that cross the worker.
RunsEnd == run.state \notin Terminal \union {"paused"}
             ~> run.state \in Terminal \union {"paused"} \/ crossed
QueuedRuns == queued # "none" ~> queued = "none" \/ run.state = "paused" \/ crossed
\* A control that was not settled is left "for the supervisor to retry".
ControlsSettle == run.state \in {"pausing", "stopping"} ~> run.state \notin {"pausing", "stopping"}
=============================================================================
