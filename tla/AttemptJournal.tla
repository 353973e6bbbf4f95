---------------------------- MODULE AttemptJournal ----------------------------
(***************************************************************************)
(* The rows of the table download_attempts and the transactions that       *)
(* DownloadStore runs on one row (infrastructure/persistence/              *)
(* download_store.py).  Every transaction is one SQLite write: here, one   *)
(* operator from a row to the row it leaves, with its WHERE clause beside  *)
(* it.  Timestamps are kept as what the queries ask of them: whether       *)
(* next_retry_at has come (due) and whether the lease has run out (live).  *)
(* row_revision is compared for equality only, so the modules that use     *)
(* this one keep it as the set of readers whose copy is still current.     *)
(***************************************************************************)
EXTENDS Naturals

CONSTANTS
  Workers,             \* coroutines that run the cleanup service
  NoWorker,            \* lease_owner IS NULL
  Plans,               \* file plans; a plan's digest names its publication bundle
  UnresolvedJobRetries \* failures before an unseen client job is given up as absent

ASSUME NoWorkerAssumption == NoWorker \notin Workers
ASSUME RetriesAssumption == UnresolvedJobRetries \in Nat

\* "absent" is a row that has not been inserted.
AttemptStates == {"absent", "acquiring", "in_use", "cleanup_pending",
                  "workspace_removed", "complete", "preserved", "needs_attention"}
Dispositions == {"undecided", "discard", "preserve"}

\* Error codes, kept apart as far as a decision reads them: "barrier" stands for
\* publisher_barrier_missing and publisher_needs_attention.
ErrorCodes == {"none", "barrier", "unsafe", "deferred", "failed"}

Rows == [state: AttemptStates, disposition: Dispositions, bundles: SUBSET Plans,
         due: BOOLEAN, lease: Workers \union {NoWorker}, live: BOOLEAN,
         error: ErrorCodes, failures: 0..UnresolvedJobRetries,
         evidence: BOOLEAN, job_known: BOOLEAN]

AbsentRow == [state |-> "absent", disposition |-> "undecided", bundles |-> {},
              due |-> TRUE, lease |-> NoWorker, live |-> FALSE, error |-> "none",
              failures |-> 0, evidence |-> FALSE, job_known |-> FALSE]
-----------------------------------------------------------------------------
Unlease(r) == [r EXCEPT !.lease = NoWorker, !.live = FALSE]

LeaseFreeWhenCleared(r) == r.lease = NoWorker
LeaseFree(r) == r.lease = NoWorker \/ ~r.live

\* create_download_attempt
CreatedRow == [AbsentRow EXCEPT !.state = "acquiring"]

\* update_download_attempt_handle: the client's job id is journaled.
CanHold(r) == r.state \in {"acquiring", "in_use"}
WithHandle(r) == [r EXCEPT !.state = "in_use", !.job_known = TRUE]

\* schedule_download_attempt_cleanup, and the attempt's half of
\* finalize_task_and_attempt and cancel_task_and_schedule_attempts.  A row that
\* is complete or needs attention is left as it is.
CanSchedule(r) == r.state \notin {"absent", "complete", "needs_attention"}
ScheduledAsDisposition(r, disposition, bundles) ==
  [Unlease(r) EXCEPT !.state = disposition, !.disposition = disposition, !.bundles = bundles]
Scheduled(r, disposition, bundles) ==
  IF CanSchedule(r)
  THEN [Unlease(r) EXCEPT
          !.state = IF disposition = "discard" THEN "cleanup_pending" ELSE "preserved",
          !.disposition = disposition, !.bundles = bundles,
          !.due = TRUE, !.error = "none"]
  ELSE r

\* claim_download_cleanup_attempts and claim_download_cleanup_attempt
Claimable(r) ==
  /\ r.state \in {"cleanup_pending", "workspace_removed", "needs_attention"}
  /\ r.due
  /\ LeaseFree(r)
Leased(r, w) == [r EXCEPT !.lease = w, !.live = TRUE]

\* acquire_download_attempt_for_reimport
CanReacquireLeased(r) == r.state \in {"cleanup_pending", "preserved", "needs_attention"}
CanReacquire(r) ==
  /\ r.state \in {"cleanup_pending", "preserved", "needs_attention"}
  /\ LeaseFree(r)
Reacquired(r) == [Unlease(r) EXCEPT !.state = "in_use", !.disposition = "undecided",
                                    !.due = TRUE, !.error = "none"]

\* record_download_cleanup_failure.  The code counts on past the one number it
\* compares the count with; the model stops there.
Failed(r, error) ==
  [Unlease(r) EXCEPT !.due = FALSE, !.error = error,
     !.failures = IF @ < UnresolvedJobRetries THEN @ + 1 ELSE @]

\* The rows transition_download_attempt writes for the cleanup service.
Deferred(r, error) == [Unlease(r) EXCEPT !.due = FALSE, !.error = error]
Attention(r, error) == [Deferred(r, error) EXCEPT !.state = "needs_attention",
                                                  !.disposition = "preserve"]
Requeued(r) == [Unlease(r) EXCEPT !.state = "cleanup_pending", !.disposition = "discard",
                                  !.due = TRUE, !.error = "none"]
WorkspaceRemoved(r) == [r EXCEPT !.state = "workspace_removed", !.error = "none"]
Completed(r) == [Unlease(r) EXCEPT !.state = "complete", !.error = "none"]
=============================================================================
