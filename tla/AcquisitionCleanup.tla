-------------------------- MODULE AcquisitionCleanup --------------------------
(***************************************************************************)
(* The durable cleanup of acquisition sources                              *)
(* (services/native/acquisition_cleanup_service.py) together with what it  *)
(* shares the attempt journal, the download mount and the download client  *)
(* with: the download that owns an attempt, its import and the publication *)
(* bundles of that import, a cancel, a re-import, the hourly sweep of      *)
(* orphan folders, and a restart of the process.                           *)
(***************************************************************************)
EXTENDS AttemptJournal, FiniteSets

CONSTANTS
  Attempts,     \* rows of the journal, one per candidate hand-off
  Usenet,       \* those handed to SABnzbd; the others are slskd transfers
  NoAttempt,
  MaxFaults,    \* bound: client or filesystem calls of the cleanup that go wrong
  MaxCrashes,   \* bound: restarts of the process and cancelled cleanup coroutines
  MaxLapses     \* bound: leases that run out under the worker that holds them

ASSUME UsenetAssumption == Usenet \subseteq Attempts
ASSUME NoAttemptAssumption == NoAttempt \notin Attempts
ASSUME BoundsAssumption == MaxFaults \in Nat /\ MaxCrashes \in Nat /\ MaxLapses \in Nat

VARIABLES
  row,      \* row[a]: the journal row
  seen,     \* seen[a]: workers whose copy carries the row's current row_revision
  view,     \* view[w][a]: the copy of the row that worker w took
  worker,   \* worker[w]: where it is in _process_claimed, and what it has read
  owner,    \* owner[a]: what the download does with the attempt
  task,     \* task[a]: the download task, as far as it concerns this attempt
  bundle,   \* bundle[a][p]: publication bundle of plan p over a's files
  tried,    \* tried[a]: plans the running import has handed to the publisher
  disk,     \* disk[a]: the workspace or files of a on the download mount
  job,      \* job[a]: the client's record of the transfer
  orphan,   \* the attempt whose folder the orphan sweep has decided to remove
  faults, crashes, lapses

journal == <<row, seen, view>>
download == <<owner, task, tried>>
client == <<disk, job>>
vars == <<row, seen, view, worker, owner, task, bundle, tried, disk, job, orphan,
          faults, crashes, lapses>>

BundleStates == {"absent", "publishing", "committed", "completed", "resolved",
                 "needs_attention", "rolled_back"}
JobStates == {"none", "active", "between", "completed", "failed", "gone"}
OwnerStates == {"idle", "enqueuing", "polling", "importing", "switching",
                "reacquired", "reimporting"}
\* "moved": the task is active on another candidate; "failed" includes partial.
TaskStates == {"active", "moved", "failed", "completed", "cancelled"}
Materializations == {"active", "completed", "failed", "missing"}

\* Places of a worker.  At the ones in Deciding it works from its claim; at
\* "unsafe" and "retry" it has caught the exception of that name, and at
\* "record_unsafe" and "record_retry" it has re-read the row.
Deciding == {"barrier", "inspect", "evidence", "abort", "absence", "remove",
             "removed", "discard", "complete", "recheck", "attention_discard",
             "attention_requeue", "attention_defer"}
PastBarriers == {"inspect", "evidence", "abort", "absence", "remove", "removed",
                 "discard", "complete", "attention_discard"}
Places == Deciding \union {"idle", "unsafe", "retry", "record_unsafe", "record_retry"}

WorkerStates == [place: Places, at: Attempts \union {NoAttempt}, claimed: SUBSET Attempts,
                 seen_as: Materializations, found: BOOLEAN, error: ErrorCodes]

Idle == [place |-> "idle", at |-> NoAttempt, claimed |-> {},
         seen_as |-> "missing", found |-> FALSE, error |-> "none"]

TypeOK ==
  /\ row \in [Attempts -> Rows]
  /\ seen \in [Attempts -> SUBSET Workers]
  /\ view \in [Workers -> [Attempts -> Rows]]
  /\ worker \in [Workers -> WorkerStates]
  /\ owner \in [Attempts -> OwnerStates]
  /\ task \in [Attempts -> TaskStates]
  /\ bundle \in [Attempts -> [Plans -> BundleStates]]
  /\ tried \in [Attempts -> SUBSET Plans]
  /\ disk \in [Attempts -> {"empty", "files"}]
  /\ job \in [Attempts -> JobStates]
  /\ orphan \in Attempts \union {NoAttempt}
  /\ faults \in 0..MaxFaults
  /\ crashes \in 0..MaxCrashes
  /\ lapses \in 0..MaxLapses

Init ==
  /\ row = [a \in Attempts |-> AbsentRow]
  /\ seen = [a \in Attempts |-> {}]
  /\ view = [w \in Workers |-> [a \in Attempts |-> AbsentRow]]
  /\ worker = [w \in Workers |-> Idle]
  /\ owner = [a \in Attempts |-> "idle"]
  /\ task = [a \in Attempts |-> "active"]
  /\ bundle = [a \in Attempts |-> [p \in Plans |-> "absent"]]
  /\ tried = [a \in Attempts |-> {}]
  /\ disk = [a \in Attempts |-> "empty"]
  /\ job = [a \in Attempts |-> "none"]
  /\ orphan = NoAttempt
  /\ faults = 0
  /\ crashes = 0
  /\ lapses = 0
-----------------------------------------------------------------------------
(* What the code asks of the shared state.                                  *)

\* A bundle no longer needs its source bytes.
Cleared(state) == state \in {"completed", "resolved"}
\* A bundle whose source bytes must stay for an administrator.
Barred(state) == state \in {"absent", "needs_attention", "rolled_back"}

\* inspect_materialization: SABnzbd reports neither queue nor history for a job
\* that is between the two.
ClientView(a) ==
  IF job[a] \in {"active", "completed", "failed"} THEN job[a] ELSE "missing"

\* Whether the inspection yields a workspace path or located files.
Located(a) == IF a \in Usenet THEN job[a] = "completed" ELSE disk[a] = "files"

\* _attention_source_absent
SourceAbsent(a, v) ==
  /\ ClientView(a) # "active"
  /\ IF v.evidence \/ Located(a) THEN disk[a] = "empty" ELSE ClientView(a) = "missing"

\* A client can discard its record unless the job still sits in SABnzbd's queue.
Discardable(a) == ~(a \in Usenet /\ job[a] = "active")
JobDiscarded(a) ==
  IF a \in Usenet /\ job[a] \notin {"completed", "failed"} THEN job
  ELSE [job EXCEPT ![a] = "gone"]

At(w) == worker[w].at
View(w) == view[w][At(w)]
AllCleared(w) == \A p \in View(w).bundles: Cleared(bundle[At(w)][p])

\* A write to the row of a: the copies of W, and no others, are current after it.
Write(a, r, W) ==
  /\ row' = [row EXCEPT ![a] = r]
  /\ seen' = [seen EXCEPT ![a] = W]

Fault == faults < MaxFaults /\ faults' = faults + 1

\* Worker w moves on within an attempt, or is done with it.
Go(w, place) == worker' = [worker EXCEPT ![w].place = place]
GoUnsafe(w, error) ==
  worker' = [worker EXCEPT ![w] = [@ EXCEPT !.place = "unsafe", !.error = error]]
Leave(w) ==
  /\ worker' = [worker EXCEPT ![w] = [Idle EXCEPT !.claimed = worker[w].claimed]]
  /\ view' = [view EXCEPT ![w][At(w)] = AbsentRow]

\* transition_download_attempt: the write happens only if the revision w last saw
\* is the row's; otherwise the service raises attempt_revision_changed.
CasThenKeepsCopy(w, r, place) ==
  IF w \in seen[At(w)]
  THEN Write(At(w), r, {w}) /\ Go(w, place) /\ UNCHANGED view
  ELSE Go(w, "retry") /\ UNCHANGED journal
CasThen(w, r, place) ==
  IF w \in seen[At(w)]
  THEN /\ Write(At(w), r, {w})
       /\ view' = [view EXCEPT ![w][At(w)] = r]
       /\ Go(w, place)
  ELSE Go(w, "retry") /\ UNCHANGED journal
CasLeaveBlind(w, r) == Write(At(w), r, {}) /\ Leave(w)
CasLeave(w, r) ==
  IF w \in seen[At(w)]
  THEN Write(At(w), r, {}) /\ Leave(w)
  ELSE Go(w, "retry") /\ UNCHANGED journal

\* What no step of a worker touches.
CleanupFrame == UNCHANGED <<download, bundle, orphan, crashes, lapses>>
-----------------------------------------------------------------------------
(* The cleanup service, one await at a time.                                *)

\* The claim of run_once (every claimable row) and of cleanup_now (one of them).
ClaimUnrevised(w) ==
  /\ worker[w] = Idle
  /\ \E a \in Attempts:
       /\ Claimable(row[a])
       /\ Write(a, Leased(row[a], w), seen[a] \union {w})
       /\ view' = [view EXCEPT ![w][a] = Leased(row[a], w)]
       /\ worker' = [worker EXCEPT ![w].claimed = {a}]
  /\ UNCHANGED <<client, faults>> /\ CleanupFrame
Claim(w) ==
  /\ worker[w] = Idle
  /\ \E A \in SUBSET {a \in Attempts: Claimable(row[a])}:
       /\ A # {}
       /\ Cardinality(A) = 1 \/ A = {a \in Attempts: Claimable(row[a])}
       /\ row' = [a \in Attempts |-> IF a \in A THEN Leased(row[a], w) ELSE row[a]]
       /\ seen' = [a \in Attempts |-> IF a \in A THEN {w} ELSE seen[a]]
       /\ view' = [view EXCEPT ![w] =
                     [a \in Attempts |-> IF a \in A THEN Leased(row[a], w) ELSE @[a]]]
       /\ worker' = [worker EXCEPT ![w].claimed = A]
  /\ UNCHANGED <<client, faults>> /\ CleanupFrame

\* The next attempt of the page, as it was when it was claimed.
Begin(w) ==
  /\ worker[w].place = "idle"
  /\ \E a \in worker[w].claimed:
       worker' = [worker EXCEPT ![w] = [@ EXCEPT
         !.at = a, !.claimed = worker[w].claimed \ {a},
         !.place = IF view[w][a].state = "needs_attention" THEN "recheck" ELSE "barrier"]]
  /\ UNCHANGED <<journal, client, faults>> /\ CleanupFrame

\* _check_publisher_barriers.  The code reads the bundles one by one; a cleared
\* bundle stays cleared, so reading them together at the end is the same.
Barrier(w) ==
  /\ worker[w].place = "barrier"
  /\ \/ /\ \E p \in View(w).bundles: Barred(bundle[At(w)][p])
        /\ GoUnsafe(w, "barrier")
        /\ UNCHANGED journal
     \/ /\ \E p \in View(w).bundles: bundle[At(w)][p] \in {"publishing", "committed"}
        /\ CasLeave(w, Deferred(row[At(w)], "deferred"))
     \/ /\ AllCleared(w)
        /\ Go(w, IF View(w).state = "workspace_removed" THEN "discard" ELSE "inspect")
        /\ UNCHANGED journal
  /\ UNCHANGED <<client, faults>> /\ CleanupFrame

\* inspect_materialization
Inspect(w) ==
  /\ worker[w].place = "inspect"
  /\ worker' = [worker EXCEPT ![w] = [@ EXCEPT
       !.place = "evidence", !.seen_as = ClientView(At(w)), !.found = Located(At(w))]]
  /\ UNCHANGED <<journal, client, faults>> /\ CleanupFrame

\* Where _cleanup_source and _cleanup_usenet_workspace go from an inspection.
AfterEvidence(a, r, seen_as) ==
  CASE seen_as = "active" -> "abort"
    [] seen_as # "active" /\ a \notin Usenet -> "remove"
    [] seen_as = "failed" /\ a \in Usenet -> "discard"
    [] seen_as = "completed" /\ a \in Usenet -> "remove"
    [] seen_as = "missing" /\ a \in Usenet ->
         IF r.evidence THEN "absence"
         ELSE IF ~r.job_known /\ r.failures < UnresolvedJobRetries THEN "retry"
         ELSE "complete"

\* _record_and_validate_evidence: what the inspection told is journaled.
Evidence(w) ==
  /\ worker[w].place = "evidence"
  /\ LET r == [row[At(w)] EXCEPT !.evidence = @ \/ worker[w].found,
                                 !.job_known = @ \/ worker[w].seen_as # "missing"]
     IN  CasThen(w, r, AfterEvidence(At(w), r, worker[w].seen_as))
  /\ UNCHANGED <<client, faults>> /\ CleanupFrame

\* abort.  SABnzbd refuses to abort a job that completed meanwhile, and takes one
\* between queue and history for gone; slskd drops its transfer records.
Abort(w) ==
  /\ worker[w].place = "abort"
  /\ IF At(w) \in Usenet
     THEN /\ Go(w, IF job[At(w)] = "completed" THEN "retry" ELSE "complete")
          /\ job' = IF job[At(w)] \in {"active", "failed"}
                    THEN [job EXCEPT ![At(w)] = "gone"] ELSE job
     ELSE /\ Go(w, "remove")
          /\ job' = [job EXCEPT ![At(w)] = "gone"]
  /\ UNCHANGED <<journal, disk, faults>> /\ CleanupFrame

\* The client lost the job, the workspace it had is journaled.
Absence(w) ==
  /\ worker[w].place = "absence"
  /\ IF disk[At(w)] = "files" THEN GoUnsafe(w, "unsafe") ELSE Go(w, "complete")
  /\ UNCHANGED <<journal, client, faults>> /\ CleanupFrame

\* _remove_workspace_safely; _cleanup_slskd_files unlinks the paths that the row
\* names, none when nothing was ever located.
Remove(w) ==
  /\ worker[w].place = "remove"
  /\ disk' = IF At(w) \in Usenet \/ View(w).evidence
             THEN [disk EXCEPT ![At(w)] = "empty"] ELSE disk
  /\ Go(w, IF At(w) \in Usenet THEN "removed" ELSE "discard")
  /\ UNCHANGED <<journal, job, faults>> /\ CleanupFrame

Removed(w) ==
  /\ worker[w].place = "removed"
  /\ CasThen(w, WorkspaceRemoved(row[At(w)]), "discard")
  /\ UNCHANGED <<client, faults>> /\ CleanupFrame

\* discard_client_artifacts
Discard(w) ==
  /\ worker[w].place = "discard"
  /\ IF Discardable(At(w))
     THEN Go(w, "complete") /\ job' = JobDiscarded(At(w))
     ELSE Go(w, "retry") /\ job' = job
  /\ UNCHANGED <<journal, disk, faults>> /\ CleanupFrame

\* _mark_complete
Complete(w) ==
  /\ worker[w].place = "complete"
  /\ CasLeave(w, Completed(row[At(w)]))
  /\ UNCHANGED <<client, faults>> /\ CleanupFrame

\* _recheck_attention up to its discard call.
AttentionExit(w) ==
  IF View(w).error = "barrier" THEN "attention_requeue" ELSE "attention_defer"
Recheck(w) ==
  /\ worker[w].place = "recheck"
  /\ \/ /\ ~AllCleared(w)
        /\ Go(w, "attention_defer") /\ UNCHANGED faults
     \/ /\ Fault
        /\ Go(w, "attention_defer")
     \/ /\ AllCleared(w) /\ UNCHANGED faults
        /\ Go(w, IF SourceAbsent(At(w), View(w)) THEN "attention_discard"
                 ELSE AttentionExit(w))
  /\ UNCHANGED <<journal, client>> /\ CleanupFrame

AttentionDiscard(w) ==
  /\ worker[w].place = "attention_discard"
  /\ \/ /\ Discardable(At(w)) /\ UNCHANGED faults
        /\ Go(w, "complete") /\ job' = JobDiscarded(At(w))
     \/ /\ ~Discardable(At(w)) /\ UNCHANGED <<job, faults>>
        /\ Go(w, AttentionExit(w))
     \/ /\ Fault /\ UNCHANGED job
        /\ Go(w, "attention_defer")
  /\ UNCHANGED <<journal, disk>> /\ CleanupFrame

\* The end of _recheck_attention, and _defer_attention.
AttentionSettles(w) ==
  /\ \/ /\ worker[w].place = "attention_requeue"
        /\ CasLeave(w, Requeued(row[At(w)]))
     \/ /\ worker[w].place = "attention_defer"
        /\ CasLeave(w, Deferred(row[At(w)], row[At(w)].error))
  /\ UNCHANGED <<client, faults>> /\ CleanupFrame

\* A call of the client or of the filesystem fails.
CallFails(w) ==
  /\ worker[w].place \in {"inspect", "abort", "remove", "discard"}
  /\ Fault
  /\ Go(w, "retry")
  /\ UNCHANGED <<journal, client>> /\ CleanupFrame

\* Evidence that contradicts the journal, a replaced file, a workspace that does
\* not validate: _UnsafeCleanup.
Refused(w) ==
  /\ worker[w].place \in {"evidence", "remove"}
  /\ worker[w].place = "remove" => disk[At(w)] = "files"
  /\ Fault
  /\ GoUnsafe(w, "unsafe")
  /\ UNCHANGED <<journal, client>> /\ CleanupFrame

\* The handlers of _process_claimed: they read the row again ...
Reread(w) ==
  /\ worker[w].place \in {"unsafe", "retry"}
  /\ view' = [view EXCEPT ![w][At(w)] = row[At(w)]]
  /\ seen' = [seen EXCEPT ![At(w)] = @ \union {w}]
  /\ Go(w, IF worker[w].place = "unsafe" THEN "record_unsafe" ELSE "record_retry")
  /\ UNCHANGED <<row, client, faults>> /\ CleanupFrame

\* ... and write the outcome to it, whoever holds it now.
Record(w) ==
  /\ worker[w].place \in {"record_unsafe", "record_retry"}
  /\ IF w \in seen[At(w)]
     THEN Write(At(w), IF worker[w].place = "record_unsafe"
                       THEN Attention(row[At(w)], worker[w].error)
                       ELSE Failed(row[At(w)], "failed"), {})
     ELSE UNCHANGED <<row, seen>>
  /\ Leave(w)
  /\ UNCHANGED <<client, faults>> /\ CleanupFrame

\* Leases and retry times run out.
LeaseExpires(a) ==
  /\ row[a].live
  /\ LET w == row[a].lease IN
       IF At(w) = a \/ a \in worker[w].claimed
       THEN lapses < MaxLapses /\ lapses' = lapses + 1
       ELSE UNCHANGED lapses
  /\ row' = [row EXCEPT ![a].live = FALSE]
  /\ UNCHANGED <<seen, view, worker, client, faults, download, bundle, orphan, crashes>>
DueElapses(a) ==
  /\ ~row[a].due
  /\ row' = [row EXCEPT ![a].due = TRUE]
  /\ UNCHANGED <<seen, view, worker, client, faults>> /\ CleanupFrame
-----------------------------------------------------------------------------
(* The download that owns the attempt.                                      *)

DownloadFrame == UNCHANGED <<view, worker, orphan, faults, crashes, lapses>>

\* schedule_download_attempt_cleanup and its two relatives: they take the lease
\* from whoever holds it, unless the row is settled.
Schedule(a, disposition, bundles) ==
  Write(a, Scheduled(row[a], disposition, bundles),
        IF CanSchedule(row[a]) THEN {} ELSE seen[a])

Becomes(a, doing) == owner' = [owner EXCEPT ![a] = doing]
TaskBecomes(a, status) == task' = [task EXCEPT ![a] = status]

\* A strategy's enqueue: the row, then the hand-off, then the client's id.
Acquire(a) ==
  /\ row[a].state = "absent" /\ task[a] = "active" /\ owner[a] = "idle"
  /\ Write(a, CreatedRow, {})
  /\ Becomes(a, "enqueuing")
  /\ UNCHANGED <<task, tried, bundle, client>> /\ DownloadFrame
HandOff(a) ==
  /\ owner[a] = "enqueuing" /\ job[a] = "none"
  /\ job' = [job EXCEPT ![a] = "active"]
  /\ UNCHANGED <<row, seen, download, bundle, disk>> /\ DownloadFrame
HandleKnown(a) ==
  /\ owner[a] = "enqueuing" /\ job[a] # "none" /\ CanHold(row[a])
  /\ Write(a, WithHandle(row[a]), {})
  /\ Becomes(a, "polling")
  /\ UNCHANGED <<task, tried, bundle, client>> /\ DownloadFrame

\* The client at work.  A failed SABnzbd job may leave a folder behind.
JobMoves(a) ==
  /\ \/ /\ a \in Usenet /\ job[a] = "active"
        /\ job' = [job EXCEPT ![a] = "between"] /\ UNCHANGED disk
     \/ /\ job[a] = IF a \in Usenet THEN "between" ELSE "active"
        /\ \E end \in {"completed", "failed"}, left \in {"empty", "files"}:
             /\ end = "completed" => left = "files"
             /\ job' = [job EXCEPT ![a] = end]
             /\ disk' = [disk EXCEPT ![a] = left]
  /\ UNCHANGED <<row, seen, download, bundle>> /\ DownloadFrame

\* A user, or its retention, removes the job from the client's history.
JobForgotten(a) ==
  /\ job[a] \in {"completed", "failed"} /\ Fault
  /\ job' = [job EXCEPT ![a] = "gone"]
  /\ UNCHANGED <<row, seen, download, bundle, disk, view, worker, orphan, crashes, lapses>>

StartImport(a) ==
  /\ owner[a] = "polling"
  /\ job[a] \in IF a \in Usenet THEN {"completed"} ELSE {"completed", "failed"}
  /\ Becomes(a, "importing")
  /\ UNCHANGED <<row, seen, task, tried, bundle, client>> /\ DownloadFrame

\* _publish_planned_imports and the entry of _publish_import_bundle: a bundle is
\* found by the digest of its plan, and one that needs attention is refused.
Publish(a, p) ==
  /\ owner[a] \in {"importing", "reimporting"} /\ tried[a] = {} /\ disk[a] = "files"
  /\ tried' = [tried EXCEPT ![a] = {p}]
  /\ bundle' = IF bundle[a][p] \in {"absent", "rolled_back"}
               THEN [bundle EXCEPT ![a][p] = "publishing"] ELSE bundle
  /\ UNCHANGED <<row, seen, owner, task, client>> /\ DownloadFrame

\* Publication proceeds, rolls back or gets stuck; without its import only
\* recover_import_bundle moves it, and never commits it.  Completing it unlinks the
\* published files; a folder may keep others.
BundleMoves(a, p) ==
  /\ \E end \in BundleStates:
       /\ \/ bundle[a][p] = "publishing" /\ end \in {"rolled_back", "needs_attention"}
          \/ bundle[a][p] = "publishing" /\ end = "committed" /\ p \in tried[a]
          \/ bundle[a][p] = "committed" /\ end \in {"completed", "needs_attention"}
       /\ bundle' = [bundle EXCEPT ![a][p] = end]
       /\ \/ UNCHANGED disk
          \/ end = "completed" /\ disk' = [disk EXCEPT ![a] = "empty"]
  /\ UNCHANGED <<row, seen, download, job>> /\ DownloadFrame

\* resolve_import_bundle: an administrator closes a bundle that needs attention.
ResolveBundle(a, p) ==
  /\ bundle[a][p] = "needs_attention"
  /\ bundle' = [bundle EXCEPT ![a][p] = "resolved"]
  /\ UNCHANGED <<row, seen, download, client>> /\ DownloadFrame

\* The import has its ProcessResult: the bundle it published, if that went well,
\* and _workspace_disposition: local faults preserve, a secured hold or files that
\* match nothing discard.  It ends the task (finalize_task_and_attempt), or, when
\* it is not a re-import, the task switches to another candidate.
FinishImport(a) ==
  /\ owner[a] \in {"importing", "reimporting"}
  /\ \A p \in tried[a]: bundle[a][p] # "publishing"
  /\ LET published == {p \in tried[a]: bundle[a][p] \in {"committed", "completed"}}
         stuck == {p \in tried[a]: bundle[a][p] \in {"needs_attention", "resolved"}}
     IN  \E disposition \in {"discard", "preserve"}:
           /\ stuck # {} => disposition = "preserve"
           /\ Schedule(a, disposition, published)
           /\ \/ TaskBecomes(a, IF published = {} THEN "failed" ELSE "completed")
                 /\ Becomes(a, "idle")
              \/ TaskBecomes(a, "failed") /\ Becomes(a, "idle")
              \/ owner[a] = "importing" /\ Becomes(a, "switching") /\ UNCHANGED task
  /\ tried' = [tried EXCEPT ![a] = {}]
  /\ UNCHANGED <<bundle, client>> /\ DownloadFrame

\* The candidate is given up before an import (_schedule_attempt_cleanup), or the
\* task fails over an error (_fail_task_preserving_attempt).
Abandon(a) ==
  /\ owner[a] \in {"enqueuing", "polling"}
  /\ \/ Schedule(a, "discard", {}) /\ Becomes(a, "switching") /\ UNCHANGED task
     \/ Schedule(a, "preserve", {}) /\ Becomes(a, "idle") /\ TaskBecomes(a, "failed")
  /\ UNCHANGED <<tried, bundle, client>> /\ DownloadFrame

\* link_picked_candidate moves the task on, or _settle_incomplete ends it.
Link(a) ==
  /\ owner[a] = "switching"
  /\ \E status \in {"moved", "failed"}: TaskBecomes(a, status)
  /\ Becomes(a, "idle")
  /\ UNCHANGED <<row, seen, tried, bundle, client>> /\ DownloadFrame

\* A task that moved on ends with its other candidate.
OtherCandidateEnds(a) ==
  /\ task[a] = "moved"
  /\ TaskBecomes(a, "completed")
  /\ UNCHANGED <<row, seen, owner, tried, bundle, client>> /\ DownloadFrame

\* cancel_task: the runner is cancelled and awaited, then the task and its rows are
\* written together.  A re-import holds the task's operation lock.
Cancel(a) ==
  /\ task[a] # "cancelled"
  /\ owner[a] \notin {"reacquired", "reimporting"}
  /\ \A p \in tried[a]: bundle[a][p] # "publishing"
  /\ \/ Schedule(a, "discard", {p \in Plans: bundle[a][p] # "absent"})
     \/ Schedule(a, "preserve", {})
  /\ TaskBecomes(a, "cancelled") /\ Becomes(a, "idle")
  /\ tried' = [tried EXCEPT ![a] = {}]
  /\ UNCHANGED <<bundle, client>> /\ DownloadFrame

\* _reimport_task_locked: the row is acquired in one transaction, the task is set
\* to processing in the next.
Reacquire(a) ==
  /\ owner[a] = "idle" /\ task[a] = "failed" /\ CanReacquire(row[a])
  /\ Write(a, Reacquired(row[a]), {})
  /\ Becomes(a, "reacquired")
  /\ UNCHANGED <<task, tried, bundle, client>> /\ DownloadFrame
Reimport(a) ==
  /\ owner[a] = "reacquired"
  /\ TaskBecomes(a, "active") /\ Becomes(a, "reimporting")
  /\ UNCHANGED <<row, seen, tried, bundle, client>> /\ DownloadFrame

\* _resume_single_task of a task that still stands on this attempt.  Downloads
\* resume after the publisher's recovery has settled every interrupted bundle and
\* recover_startup has drained the rows it could claim; a row leased to a worker of
\* the process that died is not among them.
Resume(a) ==
  /\ owner[a] = "idle" /\ task[a] = "active" /\ row[a].state # "absent"
  /\ \A p \in Plans: bundle[a][p] \notin {"publishing", "committed"}
  /\ ~Claimable(row[a])
  /\ \A w \in Workers: At(w) # a /\ a \notin worker[w].claimed
  /\ Becomes(a, "polling")
  /\ UNCHANGED <<row, seen, task, tried, bundle, client>> /\ DownloadFrame
-----------------------------------------------------------------------------
(* The sweep of orphan folders, restarts, cancelled coroutines.             *)

\* _reconcile_orphan_folder decides from the journal, the task and the bundles ...
OrphanChoose(a) ==
  /\ orphan = NoAttempt /\ a \in Usenet /\ disk[a] = "files"
  /\ row[a].state = "complete"
  /\ task[a] \notin {"active", "moved"}
  /\ \A p \in Plans: bundle[a][p] \in {"absent", "completed"}
  /\ orphan' = a
  /\ UNCHANGED <<journal, worker, download, bundle, client, faults, crashes, lapses>>

\* ... and then, unless the client still downloads, removes the folder.
OrphanRemoveTimid ==
  /\ orphan # NoAttempt
  /\ orphan' = NoAttempt
  /\ IF ClientView(orphan) # "missing" THEN UNCHANGED client
     ELSE job' = JobDiscarded(orphan) /\ disk' = [disk EXCEPT ![orphan] = "empty"]
  /\ UNCHANGED <<journal, worker, download, bundle, faults, crashes, lapses>>
OrphanRemove ==
  /\ orphan # NoAttempt
  /\ orphan' = NoAttempt
  /\ IF job[orphan] = "active" THEN UNCHANGED client
     ELSE job' = JobDiscarded(orphan) /\ disk' = [disk EXCEPT ![orphan] = "empty"]
  /\ UNCHANGED <<journal, worker, download, bundle, faults, crashes, lapses>>

Interrupted == crashes < MaxCrashes /\ crashes' = crashes + 1

\* The process dies: what is in memory is gone, the lease of a dead worker stays.
Crash ==
  /\ Interrupted
  /\ seen' = [a \in Attempts |-> {}]
  /\ view' = [w \in Workers |-> [a \in Attempts |-> AbsentRow]]
  /\ worker' = [w \in Workers |-> Idle]
  /\ owner' = [a \in Attempts |-> "idle"]
  /\ tried' = [a \in Attempts |-> {}]
  /\ orphan' = NoAttempt
  /\ UNCHANGED <<row, task, bundle, client, faults, lapses>>

\* The coroutine that runs cleanup_now is cancelled with its caller; the handlers
\* of _process_claimed do not catch that.
Killed(w) ==
  /\ Interrupted
  /\ worker[w] # Idle
  /\ worker' = [worker EXCEPT ![w] = Idle]
  /\ view' = [view EXCEPT ![w] = [a \in Attempts |-> AbsentRow]]
  /\ seen' = [a \in Attempts |-> seen[a] \ {w}]
  /\ UNCHANGED <<row, download, bundle, client, orphan, faults, lapses>>
-----------------------------------------------------------------------------
WorkerStep(w) ==
  \/ Claim(w) \/ Begin(w) \/ Barrier(w) \/ Inspect(w) \/ Evidence(w) \/ Abort(w)
  \/ Absence(w) \/ Remove(w) \/ Removed(w) \/ Discard(w) \/ Complete(w)
  \/ Recheck(w) \/ AttentionDiscard(w) \/ AttentionSettles(w)
  \/ CallFails(w) \/ Refused(w) \/ Reread(w) \/ Record(w)

\* What the download does by itself, with its client.
DownloadStep(a) ==
  \/ HandOff(a) \/ HandleKnown(a) \/ JobMoves(a) \/ StartImport(a)
  \/ FinishImport(a) \/ Abandon(a) \/ Link(a) \/ OtherCandidateEnds(a)
  \/ Reimport(a) \/ Resume(a)
  \/ \E p \in Plans: BundleMoves(a, p)

\* What somebody asks for.
Request(a) ==
  \/ Acquire(a) \/ Cancel(a) \/ Reacquire(a) \/ JobForgotten(a)
  \/ \E p \in Plans: Publish(a, p) \/ ResolveBundle(a, p)

Next ==
  \/ \E w \in Workers: WorkerStep(w) \/ Killed(w)
  \/ \E a \in Attempts:
       DownloadStep(a) \/ Request(a) \/ OrphanChoose(a) \/ LeaseExpires(a) \/ DueElapses(a)
  \/ OrphanRemove \/ Crash

Spec == Init /\ [][Next]_vars

\* The cleanup loop runs every 30 s and the sweep every hour, asyncio schedules
\* every coroutine that can run, time passes, and a download that has started
\* comes to an end.  Requests, restarts and administrators owe nothing.
FairSpec ==
  /\ Spec
  /\ \A w \in Workers: WF_vars(WorkerStep(w))
  /\ \A a \in Attempts:
       /\ WF_vars(DownloadStep(a))
       /\ WF_vars(JobMoves(a))
       /\ WF_vars(LeaseExpires(a)) /\ WF_vars(DueElapses(a))
       /\ WF_vars(OrphanChoose(a))
  /\ WF_vars(OrphanRemove)
-----------------------------------------------------------------------------
Content(r) == [r EXCEPT !.due = TRUE, !.live = TRUE]

\* Whether w would act on a from its claim, and succeed.
ActsOn(w, a) ==
  /\ w \in seen[a]
  /\ \/ At(w) = a /\ worker[w].place \in Deciding
     \/ a \in worker[w].claimed

\* A copy whose revision is current tells what the row says, so a CAS that
\* succeeds was decided from the row as it is (transition_download_attempt).
CurrentView ==
  \A w \in Workers, a \in Attempts:
    w \in seen[a] => Content(view[w][a]) = Content(row[a])

\* A copy that can still commit belongs to the worker the row is leased to.
HolderIsCurrent ==
  \A w \in Workers, a \in Attempts: ActsOn(w, a) => row[a].lease = w

\* Of the workers that decide about one attempt at most one can still commit a
\* decision, even when leases lapse, workers are killed or the process restarts.
CommitExclusive ==
  \A v, w \in Workers, a \in Attempts: ActsOn(v, a) /\ ActsOn(w, a) => v = w

\* A source is recorded as removed or settled only when every publication bundle
\* that the row names no longer needs its bytes.
SettledMeansCleared ==
  \A a \in Attempts:
    row[a].state \in {"workspace_removed", "complete"} =>
      \A p \in row[a].bundles: Cleared(bundle[a][p])

\* Past the barriers, the worker has seen every bundle its copy names cleared.
DecidedOnCleared ==
  \A w \in Workers: worker[w].place \in PastBarriers => AllCleared(w)

\* Bytes that go, other than by the publisher's own unlinking.
Lost(a) == disk[a] = "files" /\ disk'[a] = "empty" /\ bundle' = bundle

\* Neither a cleanup nor the sweep takes the source bytes from under a publication
\* that is being prepared from them.
SourceStaysWhilePublishing ==
  [][\A a \in Attempts: Lost(a) => \A p \in Plans: bundle[a][p] # "publishing"]_vars

\* Cleanup debt is worked off, or handed to an administrator or a re-import.
DebtSettles ==
  \A a \in Attempts:
    row[a].state \in {"cleanup_pending", "workspace_removed"} ~>
      row[a].state \notin {"cleanup_pending", "workspace_removed"}

\* A folder that SABnzbd leaves behind after the attempt was settled is swept, unless
\* somebody publishes from it after all.
\* (One whose bundle an administrator resolved is not: the sweep asks for completed.)
DebrisCollected ==
  \A a \in Usenet:
    LET unclaimed == \A p \in Plans: bundle[a][p] \in {"absent", "completed"}
    IN  row[a].state = "complete" /\ disk[a] = "files" /\ unclaimed
          ~> disk[a] = "empty" \/ ~unclaimed
-----------------------------------------------------------------------------
(* What documents say and this code does not keep (README, section 3.5).     *)

\* What DownloadClientProtocol says of the split of its operations: "a completed
\* workspace cannot be lost before publication barriers clear".
BytesOutliveBarriers ==
  [][\A a \in Attempts: Lost(a) =>
       \A p \in Plans: bundle[a][p] \notin {"publishing", "committed", "needs_attention"}]_vars

\* A row that says a download or an import holds the attempt belongs to a task
\* that is live (has_download_cleanup_debt: "acquiring/in_use mean live work").
InUseMeansLiveWork ==
  \A a \in Attempts:
    row[a].state \in {"acquiring", "in_use"} => (owner[a] # "idle" \/ task[a] = "active")
=============================================================================
