----------------------- MODULE AcquisitionCleanup_proof -----------------------
(***************************************************************************)
(* Proofs about AcquisitionCleanup, for any number of attempts, workers    *)
(* and plans and any bounds.  The inductive invariant IInv joins the two   *)
(* facts the code relies on without saying so: a revision that a compare-  *)
(* and-set accepts stands for the row as it is now, and the worker whose   *)
(* copy it is holds the lease.  A second one, Undisturbed, says of an      *)
(* attempt in the hands of a worker that no download is at it.             *)
(***************************************************************************)
EXTENDS AcquisitionCleanup, TLAPS

-----------------------------------------------------------------------------
(* The transactions of the journal map rows to rows.                        *)

LEMMA UnleaseType == ASSUME NEW r \in Rows PROVE Unlease(r) \in Rows
  BY DEF Unlease, Rows

\* Transactions that look at nothing but the row.
LEMMA RowTypes ==
  ASSUME NEW r \in Rows
  PROVE  /\ CreatedRow \in Rows /\ AbsentRow \in Rows
         /\ WithHandle(r) \in Rows
         /\ Reacquired(r) \in Rows
         /\ Requeued(r) \in Rows
         /\ WorkspaceRemoved(r) \in Rows
         /\ Completed(r) \in Rows
         /\ [r EXCEPT !.live = FALSE] \in Rows
         /\ [r EXCEPT !.due = TRUE] \in Rows
  <1> USE DEF Rows, AttemptStates, Dispositions, ErrorCodes
  <1>1. AbsentRow \in Rows
    BY RetriesAssumption DEF AbsentRow
  <1>2. CreatedRow \in Rows
    BY <1>1 DEF CreatedRow
  <1>3. WithHandle(r) \in Rows /\ WorkspaceRemoved(r) \in Rows
    BY DEF WithHandle, WorkspaceRemoved
  <1>4. Reacquired(r) \in Rows
    BY DEF Reacquired, Unlease
  <1>5. Requeued(r) \in Rows
    BY DEF Requeued, Unlease
  <1>6. Completed(r) \in Rows
    BY DEF Completed, Unlease
  <1>7. [r EXCEPT !.live = FALSE] \in Rows /\ [r EXCEPT !.due = TRUE] \in Rows
    OBVIOUS
  <1> QED
    BY <1>1, <1>2, <1>3, <1>4, <1>5, <1>6, <1>7

\* Transactions with an argument.
LEMMA RowTypesOf ==
  ASSUME NEW r \in Rows
  PROVE  /\ \A disposition \in {"discard", "preserve"}, bundles \in SUBSET Plans:
              Scheduled(r, disposition, bundles) \in Rows
         /\ \A w \in Workers: Leased(r, w) \in Rows
         /\ \A error \in ErrorCodes:
              Failed(r, error) \in Rows /\ Deferred(r, error) \in Rows
              /\ Attention(r, error) \in Rows
         /\ \A evidence, job_known \in BOOLEAN:
              [r EXCEPT !.evidence = evidence, !.job_known = job_known] \in Rows
  <1>1. \A disposition \in {"discard", "preserve"}, bundles \in SUBSET Plans:
          Scheduled(r, disposition, bundles) \in Rows
    <2> TAKE disposition \in {"discard", "preserve"}, bundles \in SUBSET Plans
    <2> DEFINE u == Unlease(r)
    <2>1. u \in Rows
      BY UnleaseType
    <2>2. [u EXCEPT !.state = IF disposition = "discard" THEN "cleanup_pending"
                              ELSE "preserved",
                    !.disposition = disposition, !.bundles = bundles,
                    !.due = TRUE, !.error = "none"] \in Rows
      <3> HIDE DEF u
      <3> QED
        BY <2>1 DEF Rows, AttemptStates, Dispositions, ErrorCodes
    <2> QED
      BY <2>2 DEF Scheduled
  <1>2. \A w \in Workers: Leased(r, w) \in Rows
    BY DEF Rows, Leased
  <1>3. \A error \in ErrorCodes: Deferred(r, error) \in Rows /\ Attention(r, error) \in Rows
    BY DEF Rows, Deferred, Attention, Unlease, AttemptStates, Dispositions
  <1>4. \A error \in ErrorCodes: Failed(r, error) \in Rows
    <2> TAKE error \in ErrorCodes
    <2> DEFINE u == Unlease(r)
               n == IF u.failures < UnresolvedJobRetries THEN u.failures + 1
                    ELSE u.failures
    <2>1. u \in Rows
      BY UnleaseType
    <2>2. n \in 0..UnresolvedJobRetries
      <3> HIDE DEF u
      <3> QED
        BY <2>1, RetriesAssumption DEF Rows
    <2>3. [u EXCEPT !.due = FALSE, !.error = error, !.failures = n] \in Rows
      <3> HIDE DEF u, n
      <3> QED
        BY <2>1, <2>2 DEF Rows
    <2> QED
      BY <2>3 DEF Failed
  <1>5. \A evidence, job_known \in BOOLEAN:
          [r EXCEPT !.evidence = evidence, !.job_known = job_known] \in Rows
    BY DEF Rows
  <1> QED
    BY <1>1, <1>2, <1>3, <1>4, <1>5

\* What the cleanup service's transactions leave alone.
LEMMA RowFields ==
  ASSUME NEW r \in Rows
  PROVE  /\ \A w \in Workers:
              Leased(r, w).lease = w /\ Leased(r, w).state = r.state
              /\ Leased(r, w).bundles = r.bundles
         /\ \A error \in ErrorCodes:
              /\ Deferred(r, error).bundles = r.bundles /\ Deferred(r, error).state = r.state
              /\ Attention(r, error).bundles = r.bundles
              /\ Attention(r, error).state = "needs_attention"
              /\ Failed(r, error).bundles = r.bundles /\ Failed(r, error).state = r.state
         /\ Requeued(r).bundles = r.bundles /\ Requeued(r).state = "cleanup_pending"
         /\ Completed(r).bundles = r.bundles /\ Completed(r).state = "complete"
         /\ Reacquired(r).state = "in_use" /\ WithHandle(r).state = "in_use"
         /\ CreatedRow.state = "acquiring"
  <1> DEFINE u == Unlease(r)
  <1>1. u \in Rows /\ u.bundles = r.bundles /\ u.state = r.state
    BY UnleaseType DEF Unlease, Rows
  <1>2. \A w \in Workers:
          Leased(r, w).lease = w /\ Leased(r, w).state = r.state
          /\ Leased(r, w).bundles = r.bundles
    BY DEF Leased, Rows
  <1>3. \A error \in ErrorCodes:
          Deferred(r, error).bundles = u.bundles /\ Deferred(r, error).state = u.state
    <2> HIDE DEF u
    <2>1. \A error \in ErrorCodes:
            /\ [u EXCEPT !.due = FALSE, !.error = error].bundles = u.bundles
            /\ [u EXCEPT !.due = FALSE, !.error = error].state = u.state
      BY <1>1 DEF Rows
    <2> QED
      BY <2>1 DEF Deferred, u
  <1>4. \A error \in ErrorCodes:
          /\ Attention(r, error).bundles = r.bundles
          /\ Attention(r, error).state = "needs_attention"
    <2> TAKE error \in ErrorCodes
    <2> DEFINE d == Deferred(r, error)
    <2>1. d \in Rows /\ d.bundles = r.bundles
      BY <1>1, <1>3, RowTypesOf
    <2>2. [d EXCEPT !.state = "needs_attention", !.disposition = "preserve"].bundles = d.bundles
          /\ [d EXCEPT !.state = "needs_attention", !.disposition = "preserve"].state
             = "needs_attention"
      <3> HIDE DEF d
      <3> QED
        BY <2>1 DEF Rows
    <2> QED
      BY <2>1, <2>2 DEF Attention
  <1>5. \A error \in ErrorCodes:
          Failed(r, error).bundles = u.bundles /\ Failed(r, error).state = u.state
    <2> TAKE error \in ErrorCodes
    <2> DEFINE n == IF u.failures < UnresolvedJobRetries THEN u.failures + 1 ELSE u.failures
    <2>1. /\ [u EXCEPT !.due = FALSE, !.error = error, !.failures = n].bundles = u.bundles
          /\ [u EXCEPT !.due = FALSE, !.error = error, !.failures = n].state = u.state
      <3> HIDE DEF u, n
      <3> QED
        BY <1>1 DEF Rows
    <2> QED
      BY <2>1 DEF Failed
  <1>6. /\ Requeued(r).bundles = u.bundles /\ Requeued(r).state = "cleanup_pending"
        /\ Completed(r).bundles = u.bundles /\ Completed(r).state = "complete"
        /\ Reacquired(r).state = "in_use"
    <2> HIDE DEF u
    <2>1. /\ [u EXCEPT !.state = "cleanup_pending", !.disposition = "discard",
                       !.due = TRUE, !.error = "none"].bundles = u.bundles
          /\ [u EXCEPT !.state = "cleanup_pending", !.disposition = "discard",
                       !.due = TRUE, !.error = "none"].state = "cleanup_pending"
          /\ [u EXCEPT !.state = "complete", !.error = "none"].bundles = u.bundles
          /\ [u EXCEPT !.state = "complete", !.error = "none"].state = "complete"
          /\ [u EXCEPT !.state = "in_use", !.disposition = "undecided",
                       !.due = TRUE, !.error = "none"].state = "in_use"
      BY <1>1 DEF Rows
    <2> QED
      BY <2>1 DEF Requeued, Completed, Reacquired, u
  <1>7. WithHandle(r).state = "in_use" /\ CreatedRow.state = "acquiring"
    BY DEF WithHandle, CreatedRow, AbsentRow, Rows
  <1> QED
    BY <1>1, <1>2, <1>3, <1>4, <1>5, <1>6, <1>7

\* A scheduled row is not settled, unless it was.
LEMMA ScheduledFields ==
  ASSUME NEW r \in Rows, NEW d \in {"discard", "preserve"}, NEW B \in SUBSET Plans
  PROVE  IF CanSchedule(r) THEN Scheduled(r, d, B).state \in {"cleanup_pending", "preserved"}
         ELSE Scheduled(r, d, B) = r
  <1> DEFINE u == Unlease(r)
             s == IF d = "discard" THEN "cleanup_pending" ELSE "preserved"
  <1>1. u \in Rows
    BY UnleaseType
  <1>2. [u EXCEPT !.state = s, !.disposition = d, !.bundles = B,
                  !.due = TRUE, !.error = "none"].state = s
    <2> HIDE DEF u, s
    <2> QED
      BY <1>1 DEF Rows
  <1> QED
    BY <1>2 DEF Scheduled
-----------------------------------------------------------------------------
(* Type correctness, in three parts, with the shape of a worker's record.   *)

JournalOK ==
  /\ row \in [Attempts -> Rows]
  /\ seen \in [Attempts -> SUBSET Workers]
  /\ view \in [Workers -> [Attempts -> Rows]]

WorkerOK ==
  /\ worker \in [Workers -> WorkerStates]
  /\ \A w \in Workers:
       /\ worker[w].place # "idle" => worker[w].at \in Attempts
       /\ worker[w].place = "idle" => worker[w].at = NoAttempt
       /\ worker[w].at \notin worker[w].claimed

RestOK ==
  /\ owner \in [Attempts -> OwnerStates]
  /\ task \in [Attempts -> TaskStates]
  /\ bundle \in [Attempts -> [Plans -> BundleStates]]
  /\ tried \in [Attempts -> SUBSET Plans]
  /\ disk \in [Attempts -> {"empty", "files"}]
  /\ job \in [Attempts -> JobStates]
  /\ orphan \in Attempts \union {NoAttempt}
  /\ faults \in 0..MaxFaults
  /\ crashes \in 0..MaxCrashes
  /\ lapses \in 0..MaxLapses

Typed == JournalOK /\ WorkerOK /\ RestOK

LEMMA TypedIsTypeOK == Typed => TypeOK
  BY DEF Typed, JournalOK, WorkerOK, RestOK, TypeOK

LEMMA IdleType == Idle \in WorkerStates
  BY DEF Idle, WorkerStates, Places, Materializations, ErrorCodes

LEMMA TypedInit == Init => Typed
  <1> SUFFICES ASSUME Init PROVE Typed
    OBVIOUS
  <1>1. JournalOK
    <2>1. AbsentRow \in Rows
      BY RetriesAssumption DEF AbsentRow, Rows, AttemptStates, Dispositions, ErrorCodes
    <2> QED
      BY <2>1 DEF Init, JournalOK
  <1>2. WorkerOK
    BY IdleType, NoAttemptAssumption DEF Init, WorkerOK, Idle
  <1>3. RestOK
    BY BoundsAssumption DEF Init, RestOK, OwnerStates, TaskStates, BundleStates, JobStates
  <1> QED
    BY <1>1, <1>2, <1>3 DEF Typed

\* What the moves of a worker keep.
LEMMA WriteTyped ==
  ASSUME JournalOK, NEW a \in Attempts, NEW r \in Rows, NEW W \in SUBSET Workers,
         Write(a, r, W)
  PROVE  row' \in [Attempts -> Rows] /\ seen' \in [Attempts -> SUBSET Workers]
  BY DEF JournalOK, Write

LEMMA GoTyped ==
  ASSUME WorkerOK, NEW w \in Workers, worker[w].place # "idle",
         NEW p \in Places \ {"idle"}, Go(w, p)
  PROVE  WorkerOK'
  BY DEF WorkerOK, Go, WorkerStates

LEMMA GoUnsafeTyped ==
  ASSUME WorkerOK, NEW w \in Workers, worker[w].place # "idle",
         NEW e \in ErrorCodes, GoUnsafe(w, e)
  PROVE  WorkerOK'
  BY ZenonT(60) DEF WorkerOK, GoUnsafe, WorkerStates, Places

LEMMA LeaveTyped ==
  ASSUME JournalOK, WorkerOK, NEW w \in Workers, worker[w].place # "idle", Leave(w)
  PROVE  WorkerOK' /\ view' \in [Workers -> [Attempts -> Rows]]
  <1>1. AbsentRow \in Rows
    BY RetriesAssumption DEF AbsentRow, Rows, AttemptStates, Dispositions, ErrorCodes
  <1>2. view' \in [Workers -> [Attempts -> Rows]]
    BY <1>1 DEF Leave, JournalOK
  <1>3. [Idle EXCEPT !.claimed = worker[w].claimed] \in WorkerStates
    BY IdleType DEF WorkerOK, WorkerStates
  <1>4. WorkerOK'
    BY <1>3, NoAttemptAssumption DEF Leave, WorkerOK, WorkerStates, Idle
  <1> QED
    BY <1>2, <1>4

LEMMA CasThenTyped ==
  ASSUME JournalOK, WorkerOK, NEW w \in Workers, worker[w].place # "idle",
         NEW r \in Rows, NEW p \in Places \ {"idle"}, CasThen(w, r, p)
  PROVE  JournalOK' /\ WorkerOK'
  <1>1. CASE w \in seen[At(w)]
    <2>1. At(w) \in Attempts
      BY DEF WorkerOK, At
    <2>2. Write(At(w), r, {w}) /\ Go(w, p) /\ view' = [view EXCEPT ![w][At(w)] = r]
      BY <1>1 DEF CasThen
    <2>3. WorkerOK'
      BY <2>2, GoTyped
    <2>4. view' \in [Workers -> [Attempts -> Rows]]
      BY <2>2 DEF JournalOK
    <2> QED
      BY <2>1, <2>2, <2>3, <2>4, WriteTyped DEF JournalOK
  <1>2. CASE w \notin seen[At(w)]
    <2>1. Go(w, "retry") /\ UNCHANGED journal
      BY <1>2 DEF CasThen
    <2> QED
      BY <2>1, GoTyped DEF Places, journal, JournalOK
  <1> QED
    BY <1>1, <1>2

LEMMA CasLeaveTyped ==
  ASSUME JournalOK, WorkerOK, NEW w \in Workers, worker[w].place # "idle",
         NEW r \in Rows, CasLeave(w, r)
  PROVE  JournalOK' /\ WorkerOK'
  <1>1. CASE w \in seen[At(w)]
    <2>1. At(w) \in Attempts
      BY DEF WorkerOK, At
    <2>2. Write(At(w), r, {}) /\ Leave(w)
      BY <1>1 DEF CasLeave
    <2> QED
      BY <2>1, <2>2, WriteTyped, LeaveTyped DEF JournalOK
  <1>2. CASE w \notin seen[At(w)]
    <2>1. Go(w, "retry") /\ UNCHANGED journal
      BY <1>2 DEF CasLeave
    <2> QED
      BY <2>1, GoTyped DEF Places, journal, JournalOK
  <1> QED
    BY <1>1, <1>2

LEMMA FaultTyped == ASSUME RestOK, Fault PROVE faults' \in 0..MaxFaults
  BY BoundsAssumption DEF RestOK, Fault

LEMMA JobDiscardedTyped ==
  ASSUME RestOK, NEW a \in Attempts PROVE JobDiscarded(a) \in [Attempts -> JobStates]
  BY DEF RestOK, JobDiscarded, JobStates

\* A worker's move that leaves journal and client alone.
LEMMA QuietTyped ==
  ASSUME Typed, WorkerOK', UNCHANGED <<journal, client, faults>>, CleanupFrame
  PROVE  Typed'
  BY DEF Typed, JournalOK, RestOK, journal, client, CleanupFrame, download

\* A worker's move that writes the journal.
LEMMA WritingTyped ==
  ASSUME Typed, JournalOK', WorkerOK', UNCHANGED <<client, faults>>, CleanupFrame
  PROVE  Typed'
  BY DEF Typed, RestOK, client, CleanupFrame, download

\* A worker's move that calls the client.
LEMMA CallingTyped ==
  ASSUME Typed, WorkerOK', UNCHANGED journal, CleanupFrame,
         disk' \in [Attempts -> {"empty", "files"}], job' \in [Attempts -> JobStates],
         faults' \in 0..MaxFaults
  PROVE  Typed'
  BY DEF Typed, JournalOK, RestOK, journal, CleanupFrame, download

LEMMA WorkerTyped ==
  ASSUME Typed, NEW w \in Workers, WorkerStep(w)
  PROVE  Typed'
  <1> USE DEF Typed
  <1>0. /\ worker[w].place # "idle" => At(w) \in Attempts /\ row[At(w)] \in Rows
        /\ worker[w] \in WorkerStates
    BY DEF WorkerOK, JournalOK, At
  <1>1. ASSUME Claim(w) PROVE Typed'
    <2>1. PICK A \in SUBSET {a \in Attempts: Claimable(row[a])}:
            /\ row' = [a \in Attempts |-> IF a \in A THEN Leased(row[a], w) ELSE row[a]]
            /\ seen' = [a \in Attempts |-> IF a \in A THEN {w} ELSE seen[a]]
            /\ view' = [view EXCEPT ![w] =
                          [a \in Attempts |-> IF a \in A THEN Leased(row[a], w) ELSE @[a]]]
            /\ worker' = [worker EXCEPT ![w].claimed = A]
      BY <1>1 DEF Claim
    <2>2. \A a \in Attempts: row[a] \in Rows /\ Leased(row[a], w) \in Rows
      BY RowTypesOf DEF JournalOK
    <2>3. JournalOK'
      BY <2>1, <2>2 DEF JournalOK
    <2>4. WorkerOK'
      <3>1. worker[w] = Idle /\ A \subseteq Attempts /\ NoAttempt \notin A
        BY <1>1, NoAttemptAssumption DEF Claim
      <3>2. worker' = [worker EXCEPT ![w] = [Idle EXCEPT !.claimed = A]]
        BY <2>1, <3>1
      <3>3. [Idle EXCEPT !.claimed = A] \in WorkerStates
        BY <3>1, IdleType DEF WorkerStates
      <3> QED
        BY <3>1, <3>2, <3>3 DEF WorkerOK, Idle
    <2> QED
      BY <1>1, <2>3, <2>4, WritingTyped DEF Claim
  <1>2. ASSUME Begin(w) PROVE Typed'
    <2>1. PICK a \in worker[w].claimed:
            worker' = [worker EXCEPT ![w] = [@ EXCEPT
              !.at = a, !.claimed = worker[w].claimed \ {a},
              !.place = IF view[w][a].state = "needs_attention" THEN "recheck"
                        ELSE "barrier"]]
      BY <1>2 DEF Begin
    <2>2. WorkerOK'
      BY <2>1, <1>0 DEF WorkerOK, WorkerStates, Places, Deciding
    <2> QED
      BY <1>2, <2>2, QuietTyped DEF Begin
  <1>3. ASSUME Barrier(w) PROVE Typed'
    <2>1. ASSUME GoUnsafe(w, "barrier"), UNCHANGED journal PROVE Typed'
      BY <2>1, <1>3, GoUnsafeTyped, QuietTyped DEF Barrier, ErrorCodes
    <2>2. ASSUME CasLeave(w, Deferred(row[At(w)], "deferred")) PROVE Typed'
      <3>1. Deferred(row[At(w)], "deferred") \in Rows
        BY <1>0, <1>3, RowTypesOf DEF Barrier, ErrorCodes
      <3> QED
        BY <2>2, <3>1, <1>3, CasLeaveTyped, WritingTyped DEF Barrier
    <2>3. ASSUME Go(w, IF View(w).state = "workspace_removed" THEN "discard" ELSE "inspect"),
                 UNCHANGED journal
          PROVE  Typed'
      BY <2>3, <1>3, GoTyped, QuietTyped DEF Barrier, Places, Deciding
    <2> QED
      BY <1>3, <2>1, <2>2, <2>3 DEF Barrier
  <1>4. ASSUME Inspect(w) PROVE Typed'
    <2>1. ClientView(At(w)) \in Materializations /\ Located(At(w)) \in BOOLEAN
      BY <1>0, <1>4 DEF Inspect, ClientView, Located, Materializations, RestOK, JobStates
    <2>2. WorkerOK'
      BY <1>4, <1>0, <2>1 DEF Inspect, WorkerOK, WorkerStates, Places, Deciding
    <2> QED
      BY <1>4, <2>2, QuietTyped DEF Inspect
  <1>5. ASSUME Evidence(w) PROVE Typed'
    <2> DEFINE r == [row[At(w)] EXCEPT !.evidence = @ \/ worker[w].found,
                                       !.job_known = @ \/ worker[w].seen_as # "missing"]
               p == AfterEvidence(At(w), r, worker[w].seen_as)
    <2>1. r \in Rows
      BY <1>0, <1>5 DEF Evidence, Rows, WorkerStates
    <2>2. p \in Places \ {"idle"}
      BY <1>0, <1>5 DEF Evidence, AfterEvidence, Places, Deciding, WorkerStates, Materializations
    <2> QED
      BY <1>5, <2>1, <2>2, CasThenTyped, WritingTyped DEF Evidence
  <1>6. ASSUME Abort(w) PROVE Typed'
    <2>1. WorkerOK'
      BY <1>6, GoTyped DEF Abort, Places, Deciding
    <2>2. job' \in [Attempts -> JobStates]
      BY <1>6 DEF Abort, RestOK, JobStates
    <2> QED
      BY <1>6, <2>1, <2>2, CallingTyped DEF Abort, RestOK
  <1>7. ASSUME Absence(w) PROVE Typed'
    <2>1. WorkerOK'
      BY <1>7, GoTyped, GoUnsafeTyped DEF Absence, Places, Deciding, ErrorCodes
    <2> QED
      BY <1>7, <2>1, QuietTyped DEF Absence
  <1>8. ASSUME Remove(w) PROVE Typed'
    <2>1. WorkerOK'
      BY <1>8, GoTyped DEF Remove, Places, Deciding
    <2> QED
      BY <1>8, <2>1, CallingTyped DEF Remove, RestOK
  <1>9. ASSUME Removed(w) PROVE Typed'
    <2>1. WorkspaceRemoved(row[At(w)]) \in Rows
      BY <1>0, <1>9, RowTypes DEF Removed
    <2> QED
      BY <1>9, <2>1, CasThenTyped, WritingTyped DEF Removed, Places, Deciding
  <1>10. ASSUME Discard(w) PROVE Typed'
    <2>1. WorkerOK'
      BY <1>10, GoTyped DEF Discard, Places, Deciding
    <2>2. job' \in [Attempts -> JobStates]
      BY <1>0, <1>10, JobDiscardedTyped DEF Discard, RestOK
    <2> QED
      BY <1>10, <2>1, <2>2, CallingTyped DEF Discard, RestOK
  <1>11. ASSUME Complete(w) PROVE Typed'
    <2>1. Completed(row[At(w)]) \in Rows
      BY <1>0, <1>11, RowTypes DEF Complete
    <2> QED
      BY <1>11, <2>1, CasLeaveTyped, WritingTyped DEF Complete
  <1>12. ASSUME Recheck(w) PROVE Typed'
    <2>1. WorkerOK'
      BY <1>12, GoTyped DEF Recheck, AttentionExit, Places, Deciding
    <2>2. faults' \in 0..MaxFaults
      BY <1>12, FaultTyped DEF Recheck, RestOK
    <2> QED
      BY <1>12, <2>1, <2>2, CallingTyped DEF Recheck, RestOK, client
  <1>13. ASSUME AttentionDiscard(w) PROVE Typed'
    <2>1. WorkerOK'
      BY <1>13, GoTyped DEF AttentionDiscard, AttentionExit, Places, Deciding
    <2>2. job' \in [Attempts -> JobStates]
      BY <1>0, <1>13, JobDiscardedTyped DEF AttentionDiscard, RestOK
    <2>3. faults' \in 0..MaxFaults
      BY <1>13, FaultTyped DEF AttentionDiscard, RestOK
    <2> QED
      BY <1>13, <2>1, <2>2, <2>3, CallingTyped DEF AttentionDiscard, RestOK
  <1>14. ASSUME AttentionSettles(w) PROVE Typed'
    <2>1. row[At(w)] \in Rows /\ row[At(w)].error \in ErrorCodes
      BY <1>0, <1>14 DEF AttentionSettles, Rows
    <2>2. Requeued(row[At(w)]) \in Rows /\ Deferred(row[At(w)], row[At(w)].error) \in Rows
      BY <2>1, RowTypes, RowTypesOf
    <2> QED
      BY <1>14, <2>2, CasLeaveTyped, WritingTyped DEF AttentionSettles
  <1>15. ASSUME CallFails(w) PROVE Typed'
    <2>1. WorkerOK'
      BY <1>15, GoTyped DEF CallFails, Places
    <2> QED
      BY <1>15, <2>1, FaultTyped, CallingTyped DEF CallFails, RestOK, client
  <1>16. ASSUME Refused(w) PROVE Typed'
    <2>1. WorkerOK'
      BY <1>16, GoUnsafeTyped DEF Refused, ErrorCodes
    <2> QED
      BY <1>16, <2>1, FaultTyped, CallingTyped DEF Refused, RestOK, client
  <1>17. ASSUME Reread(w) PROVE Typed'
    <2>1. WorkerOK'
      BY <1>17, GoTyped DEF Reread, Places
    <2>2. JournalOK'
      BY <1>0, <1>17 DEF Reread, JournalOK
    <2> QED
      BY <1>17, <2>1, <2>2, WritingTyped DEF Reread
  <1>18. ASSUME Record(w) PROVE Typed'
    <2>1. At(w) \in Attempts /\ row[At(w)] \in Rows /\ worker[w].error \in ErrorCodes
      BY <1>0, <1>18 DEF Record, WorkerStates
    <2>2. Attention(row[At(w)], worker[w].error) \in Rows /\ Failed(row[At(w)], "failed") \in Rows
      BY <2>1, RowTypesOf DEF ErrorCodes
    <2>3. WorkerOK' /\ view' \in [Workers -> [Attempts -> Rows]]
      BY <1>18, LeaveTyped DEF Record
    <2>4. row' \in [Attempts -> Rows] /\ seen' \in [Attempts -> SUBSET Workers]
      BY <1>18, <2>1, <2>2, WriteTyped DEF Record, JournalOK
    <2> QED
      BY <1>18, <2>3, <2>4, WritingTyped DEF Record, JournalOK
  <1> QED
    BY <1>1, <1>2, <1>3, <1>4, <1>5, <1>6, <1>7, <1>8, <1>9, <1>10, <1>11, <1>12, <1>13,
       <1>14, <1>15, <1>16, <1>17, <1>18 DEF WorkerStep

\* The same for the download's side.
LEMMA ScheduleTyped ==
  ASSUME JournalOK, NEW a \in Attempts, NEW d \in {"discard", "preserve"},
         NEW B \in SUBSET Plans, Schedule(a, d, B)
  PROVE  row' \in [Attempts -> Rows] /\ seen' \in [Attempts -> SUBSET Workers]
  <1>1. Scheduled(row[a], d, B) \in Rows
    BY RowTypesOf DEF JournalOK
  <1>2. (IF CanSchedule(row[a]) THEN {} ELSE seen[a]) \in SUBSET Workers
    BY DEF JournalOK
  <1> QED
    BY <1>1, <1>2, WriteTyped DEF Schedule

\* A step of the download that leaves the journal alone, or types it.
LEMMA OwningTyped ==
  ASSUME Typed, row' \in [Attempts -> Rows], seen' \in [Attempts -> SUBSET Workers],
         owner' \in [Attempts -> OwnerStates], task' \in [Attempts -> TaskStates],
         tried' \in [Attempts -> SUBSET Plans], UNCHANGED <<bundle, client>>, DownloadFrame
  PROVE  Typed'
  BY DEF Typed, JournalOK, WorkerOK, RestOK, client, DownloadFrame

LEMMA WorldTyped ==
  ASSUME Typed, UNCHANGED <<row, seen, download>>, DownloadFrame,
         bundle' \in [Attempts -> [Plans -> BundleStates]],
         disk' \in [Attempts -> {"empty", "files"}], job' \in [Attempts -> JobStates]
  PROVE  Typed'
  BY DEF Typed, JournalOK, WorkerOK, RestOK, download, DownloadFrame

LEMMA AttemptTyped ==
  ASSUME Typed, NEW a \in Attempts, DownloadStep(a) \/ Request(a)
  PROVE  Typed'
  <1> USE DEF Typed
  <1>0. row[a] \in Rows
    BY DEF JournalOK
  <1>1. ASSUME Acquire(a) PROVE Typed'
    BY <1>0, <1>1, RowTypes, WriteTyped, OwningTyped
       DEF Acquire, Becomes, RestOK, OwnerStates
  <1>2. ASSUME HandOff(a) PROVE Typed'
    BY <1>2, WorldTyped DEF HandOff, RestOK, JobStates
  <1>3. ASSUME HandleKnown(a) PROVE Typed'
    <2>1. WithHandle(row[a]) \in Rows
      BY <1>0, RowTypes
    <2>2. row' \in [Attempts -> Rows] /\ seen' \in [Attempts -> SUBSET Workers]
      BY <1>3, <2>1, WriteTyped DEF HandleKnown
    <2> QED
      BY <1>3, <2>2, OwningTyped DEF HandleKnown, Becomes, RestOK, OwnerStates
  <1>4. ASSUME JobMoves(a) PROVE Typed'
    BY <1>4, WorldTyped DEF JobMoves, RestOK, JobStates
  <1>5. ASSUME JobForgotten(a) PROVE Typed'
    BY <1>5, FaultTyped DEF JobForgotten, JournalOK, WorkerOK, RestOK, JobStates, download
  <1>6. ASSUME StartImport(a) PROVE Typed'
    BY <1>6, OwningTyped DEF StartImport, Becomes, RestOK, OwnerStates, JournalOK
  <1>7. ASSUME NEW p \in Plans, Publish(a, p) PROVE Typed'
    BY <1>7 DEF Publish, RestOK, BundleStates, JournalOK, WorkerOK, DownloadFrame, client
  <1>8. ASSUME NEW p \in Plans, BundleMoves(a, p) PROVE Typed'
    BY <1>8, WorldTyped DEF BundleMoves, RestOK
  <1>9. ASSUME NEW p \in Plans, ResolveBundle(a, p) PROVE Typed'
    BY <1>9, WorldTyped DEF ResolveBundle, RestOK, BundleStates, client
  <1>10. ASSUME FinishImport(a) PROVE Typed'
    <2>1. row' \in [Attempts -> Rows] /\ seen' \in [Attempts -> SUBSET Workers]
      <3>1. PICK B \in SUBSET Plans, d \in {"discard", "preserve"}: Schedule(a, d, B)
        BY <1>10 DEF FinishImport, RestOK
      <3> QED
        BY <3>1, ScheduleTyped
    <2>2. owner' \in [Attempts -> OwnerStates] /\ task' \in [Attempts -> TaskStates]
      BY <1>10 DEF FinishImport, Becomes, TaskBecomes, RestOK, OwnerStates, TaskStates
    <2> QED
      BY <1>10, <2>1, <2>2, OwningTyped DEF FinishImport, RestOK
  <1>11. ASSUME Abandon(a) PROVE Typed'
    <2>1. row' \in [Attempts -> Rows] /\ seen' \in [Attempts -> SUBSET Workers]
      BY <1>11, ScheduleTyped DEF Abandon
    <2>2. owner' \in [Attempts -> OwnerStates] /\ task' \in [Attempts -> TaskStates]
      BY <1>11 DEF Abandon, Becomes, TaskBecomes, RestOK, OwnerStates, TaskStates
    <2> QED
      BY <1>11, <2>1, <2>2, OwningTyped DEF Abandon, RestOK
  <1>12. ASSUME Link(a) PROVE Typed'
    BY <1>12, OwningTyped
       DEF Link, Becomes, TaskBecomes, RestOK, OwnerStates, TaskStates, JournalOK
  <1>13. ASSUME OtherCandidateEnds(a) PROVE Typed'
    BY <1>13, OwningTyped DEF OtherCandidateEnds, TaskBecomes, RestOK, TaskStates, JournalOK
  <1>14. ASSUME Cancel(a) PROVE Typed'
    <2>1. row' \in [Attempts -> Rows] /\ seen' \in [Attempts -> SUBSET Workers]
      BY <1>14, ScheduleTyped DEF Cancel
    <2>2. owner' \in [Attempts -> OwnerStates] /\ task' \in [Attempts -> TaskStates]
      BY <1>14 DEF Cancel, Becomes, TaskBecomes, RestOK, OwnerStates, TaskStates
    <2> QED
      BY <1>14, <2>1, <2>2, OwningTyped DEF Cancel, RestOK
  <1>15. ASSUME Reacquire(a) PROVE Typed'
    <2>1. Reacquired(row[a]) \in Rows
      BY <1>0, RowTypes
    <2>2. row' \in [Attempts -> Rows] /\ seen' \in [Attempts -> SUBSET Workers]
      BY <1>15, <2>1, WriteTyped DEF Reacquire
    <2> QED
      BY <1>15, <2>2, OwningTyped DEF Reacquire, Becomes, RestOK, OwnerStates
  <1>16. ASSUME Reimport(a) PROVE Typed'
    BY <1>16, OwningTyped
       DEF Reimport, Becomes, TaskBecomes, RestOK, OwnerStates, TaskStates, JournalOK
  <1>17. ASSUME Resume(a) PROVE Typed'
    BY <1>17, OwningTyped DEF Resume, Becomes, RestOK, OwnerStates, JournalOK
  <1> QED
    BY <1>1, <1>2, <1>3, <1>4, <1>5, <1>6, <1>7, <1>8, <1>9, <1>10, <1>11, <1>12, <1>13,
       <1>14, <1>15, <1>16, <1>17 DEF DownloadStep, Request

LEMMA TypedNext == Typed /\ [Next]_vars => Typed'
  <1> SUFFICES ASSUME Typed, [Next]_vars PROVE Typed'
    OBVIOUS
  <1> USE DEF Typed
  <1>1. ASSUME NEW w \in Workers, WorkerStep(w) PROVE Typed'
    BY <1>1, WorkerTyped
  <1>2. ASSUME NEW a \in Attempts, DownloadStep(a) \/ Request(a) PROVE Typed'
    BY <1>2, AttemptTyped
  <1>3. ASSUME NEW a \in Attempts, OrphanChoose(a) PROVE Typed'
    BY <1>3 DEF OrphanChoose, JournalOK, WorkerOK, RestOK, journal, download, client
  <1>4. ASSUME NEW a \in Attempts, LeaseExpires(a) PROVE Typed'
    <2>1. [row[a] EXCEPT !.live = FALSE] \in Rows
      BY RowTypes DEF JournalOK
    <2>2. row' = [row EXCEPT ![a] = [row[a] EXCEPT !.live = FALSE]]
      BY <1>4 DEF LeaseExpires
    <2>3. lapses' \in 0..MaxLapses
      BY <1>4, BoundsAssumption DEF LeaseExpires, RestOK
    <2> QED
      BY <1>4, <2>1, <2>2, <2>3 DEF LeaseExpires, JournalOK, WorkerOK, RestOK, download, client
  <1>5. ASSUME NEW a \in Attempts, DueElapses(a) PROVE Typed'
    <2>1. [row[a] EXCEPT !.due = TRUE] \in Rows
      BY RowTypes DEF JournalOK
    <2>2. row' = [row EXCEPT ![a] = [row[a] EXCEPT !.due = TRUE]]
      BY <1>5 DEF DueElapses
    <2> QED
      BY <1>5, <2>1, <2>2
         DEF DueElapses, CleanupFrame, JournalOK, WorkerOK, RestOK, download, client
  <1>6. ASSUME OrphanRemove PROVE Typed'
    <2>1. orphan \in Attempts
      BY <1>6 DEF OrphanRemove, RestOK
    <2>2. job' \in [Attempts -> JobStates] /\ disk' \in [Attempts -> {"empty", "files"}]
      BY <1>6, <2>1, JobDiscardedTyped DEF OrphanRemove, RestOK, client
    <2> QED
      BY <1>6, <2>2 DEF OrphanRemove, JournalOK, WorkerOK, RestOK, journal, download
  <1>7. ASSUME Crash PROVE Typed'
    <2>1. AbsentRow \in Rows
      BY RetriesAssumption DEF AbsentRow, Rows, AttemptStates, Dispositions, ErrorCodes
    <2>2. JournalOK'
      BY <1>7, <2>1 DEF Crash, JournalOK
    <2>3. WorkerOK'
      BY <1>7, IdleType, NoAttemptAssumption DEF Crash, WorkerOK, Idle
    <2>4. crashes' \in 0..MaxCrashes
      BY <1>7, BoundsAssumption DEF Crash, Interrupted, RestOK
    <2>5. RestOK'
      BY <1>7, <2>4 DEF Crash, RestOK, OwnerStates, client
    <2> QED
      BY <2>2, <2>3, <2>5
  <1>8. ASSUME NEW w \in Workers, Killed(w) PROVE Typed'
    <2>1. AbsentRow \in Rows
      BY RetriesAssumption DEF AbsentRow, Rows, AttemptStates, Dispositions, ErrorCodes
    <2>2. JournalOK'
      BY <1>8, <2>1 DEF Killed, JournalOK
    <2>3. WorkerOK'
      BY <1>8, IdleType, NoAttemptAssumption DEF Killed, WorkerOK, Idle
    <2>4. crashes' \in 0..MaxCrashes
      BY <1>8, BoundsAssumption DEF Killed, Interrupted, RestOK
    <2>5. RestOK'
      BY <1>8, <2>4 DEF Killed, RestOK, client, download
    <2> QED
      BY <2>2, <2>3, <2>5
  <1>9. ASSUME UNCHANGED vars PROVE Typed'
    BY <1>9 DEF vars, JournalOK, WorkerOK, RestOK
  <1> QED
    BY <1>1, <1>2, <1>3, <1>4, <1>5, <1>6, <1>7, <1>8, <1>9 DEF Next

\* Every variable keeps the type its column, record or client report has, for any
\* number of rows, workers and plans.
THEOREM TypeCorrect == Spec => []TypeOK
  <1>1. Spec => []Typed
    BY TypedInit, TypedNext, PTL DEF Spec
  <1> QED
    BY <1>1, TypedIsTypeOK, PTL
-----------------------------------------------------------------------------
(* The inductive invariant.                                                 *)

Safe == CurrentView /\ HolderIsCurrent /\ DecidedOnCleared /\ SettledMeansCleared
IInv == Typed /\ Safe

Settled == {"workspace_removed", "complete"}

LEMMA ContentFields ==
  ASSUME NEW r \in Rows, NEW s \in Rows
  PROVE  /\ Content(r) = Content(s) => r.bundles = s.bundles /\ r.state = s.state
         /\ Content([r EXCEPT !.live = FALSE]) = Content(r)
         /\ Content([r EXCEPT !.due = TRUE]) = Content(r)
  BY DEF Content, Rows

\* A worker moves on inside an attempt.
LEMMA MoveSafe ==
  ASSUME IInv, NEW w \in Workers, NEW x \in WorkerStates,
         worker' = [worker EXCEPT ![w] = x],
         x.at = At(w), x.claimed = worker[w].claimed,
         x.place \in Deciding => worker[w].place \in Deciding,
         x.place \in PastBarriers => AllCleared(w),
         UNCHANGED <<journal, bundle>>
  PROVE  Safe'
  <1> USE DEF IInv, Safe, Typed, WorkerOK, At
  <1>1. /\ worker'[w] = x
        /\ \A v \in Workers: v # w => worker'[v] = worker[v]
    BY DEF WorkerOK
  <1>2. CurrentView'
    BY DEF CurrentView, Content, journal
  <1>3. HolderIsCurrent'
    BY <1>1 DEF HolderIsCurrent, ActsOn, journal
  <1>4. DecidedOnCleared'
    BY <1>1 DEF DecidedOnCleared, AllCleared, View, journal
  <1>5. SettledMeansCleared'
    BY DEF SettledMeansCleared, journal
  <1> QED
    BY <1>2, <1>3, <1>4, <1>5

LEMMA GoSafe ==
  ASSUME IInv, NEW w \in Workers, NEW p \in Places, Go(w, p),
         p \in Deciding => worker[w].place \in Deciding,
         p \in PastBarriers => AllCleared(w),
         UNCHANGED <<journal, bundle>>
  PROVE  Safe'
  <1> DEFINE x == [worker[w] EXCEPT !.place = p]
  <1>1. x \in WorkerStates /\ x.at = At(w) /\ x.claimed = worker[w].claimed /\ x.place = p
    BY DEF IInv, Typed, WorkerOK, WorkerStates, At
  <1>2. worker' = [worker EXCEPT ![w] = x]
    BY DEF Go
  <1> QED
    BY <1>1, <1>2, MoveSafe

LEMMA GoUnsafeSafe ==
  ASSUME IInv, NEW w \in Workers, NEW e \in ErrorCodes, GoUnsafe(w, e),
         UNCHANGED <<journal, bundle>>
  PROVE  Safe'
  <1> DEFINE x == [worker[w] EXCEPT !.place = "unsafe", !.error = e]
  <1>1. /\ x \in WorkerStates /\ x.at = At(w) /\ x.claimed = worker[w].claimed
        /\ x.place = "unsafe"
    BY DEF IInv, Typed, WorkerOK, WorkerStates, At, Places
  <1>2. worker' = [worker EXCEPT ![w] = x]
    BY DEF GoUnsafe
  <1>3. x.place \notin Deciding /\ x.place \notin PastBarriers
    BY <1>1 DEF Deciding, PastBarriers
  <1> QED
    BY <1>1, <1>2, <1>3, MoveSafe

\* A compare-and-set past the barriers that goes on with the lease.
LEMMA CasThenSafe ==
  ASSUME IInv, NEW w \in Workers, worker[w].place \in PastBarriers,
         NEW r \in Rows, NEW p \in Places, CasThen(w, r, p),
         r.lease = row[At(w)].lease, r.bundles = row[At(w)].bundles,
         UNCHANGED bundle
  PROVE  Safe'
  <1> USE DEF IInv, Safe, Typed
  <1>0. At(w) \in Attempts /\ AllCleared(w) /\ worker[w].place \in Deciding
    BY DEF WorkerOK, At, PastBarriers, DecidedOnCleared, Deciding
  <1>1. CASE w \notin seen[At(w)]
    <2>1. Go(w, "retry") /\ UNCHANGED journal
      BY <1>1 DEF CasThen
    <2>2. "retry" \in Places /\ "retry" \notin PastBarriers /\ "retry" \notin Deciding
      BY DEF Places, PastBarriers, Deciding
    <2> QED
      BY <2>1, <2>2, GoSafe
  <1>2. CASE w \in seen[At(w)]
    <2> DEFINE a == At(w)
    <2>1. /\ row' = [row EXCEPT ![a] = r]
          /\ seen' = [seen EXCEPT ![a] = {w}]
          /\ view' = [view EXCEPT ![w][a] = r]
          /\ worker' = [worker EXCEPT ![w].place = p]
      BY <1>2 DEF CasThen, Write, Go
    <2>2. /\ \A b \in Attempts: b # a => row'[b] = row[b] /\ seen'[b] = seen[b]
          /\ row'[a] = r /\ seen'[a] = {w} /\ view'[w][a] = r
          /\ \A v \in Workers, b \in Attempts: (v # w \/ b # a) => view'[v][b] = view[v][b]
      BY <1>0, <2>1 DEF JournalOK
    <2>3. /\ worker'[w].at = a /\ worker'[w].claimed = worker[w].claimed
          /\ \A v \in Workers: v # w => worker'[v] = worker[v]
      BY <2>1 DEF WorkerOK, WorkerStates, At
    <2>4. row[a].bundles = view[w][a].bundles /\ row[a].lease = w
      BY ZenonT(60), <1>0, <1>2, ContentFields
         DEF CurrentView, HolderIsCurrent, ActsOn, JournalOK, At
    <2>5. CurrentView'
      <3> SUFFICES ASSUME NEW v \in Workers, NEW b \in Attempts, v \in seen'[b]
                   PROVE  Content(view'[v][b]) = Content(row'[b])
        BY DEF CurrentView
      <3>1. CASE b = a
        BY <2>2, <3>1
      <3>2. CASE b # a
        BY <2>2, <3>2 DEF CurrentView
      <3> QED
        BY <3>1, <3>2
    <2>6. HolderIsCurrent'
      BY <1>0, <2>2, <2>3, <2>4 DEF HolderIsCurrent, ActsOn, At
    <2>7. DecidedOnCleared'
      <3>1. \A q \in r.bundles: Cleared(bundle[a][q])
        BY <1>0, <2>4 DEF AllCleared, View
      <3>2. AllCleared(w)'
        BY <2>2, <2>3, <3>1 DEF AllCleared, View, At
      <3>3. \A v \in Workers: v # w => AllCleared(v)' = AllCleared(v)
        <4> TAKE v \in Workers
        <4> HAVE v # w
        <4>1. worker'[v] = worker[v] /\ view'[v] = view[v]
          BY <2>1, <2>3 DEF JournalOK
        <4> QED
          BY <4>1 DEF AllCleared, View, At
      <3> QED
        BY <2>3, <3>2, <3>3 DEF DecidedOnCleared
    <2>8. SettledMeansCleared'
      <3>1. \A q \in r.bundles: Cleared(bundle[a][q])
        BY <1>0, <2>4 DEF AllCleared, View
      <3> QED
        BY <2>2, <3>1 DEF SettledMeansCleared
    <2> QED
      BY <2>5, <2>6, <2>7, <2>8
  <1> QED
    BY <1>1, <1>2

\* A write that leaves no copy current, by a worker that is done with the attempt.
LEMMA LeaveSafe ==
  ASSUME IInv, NEW w \in Workers, NEW a \in Attempts, a = At(w), NEW r \in Rows,
         Write(a, r, {}), Leave(w),
         r.state \in Settled => \A q \in r.bundles: Cleared(bundle[a][q]),
         UNCHANGED bundle
  PROVE  Safe'
  <1> USE DEF IInv, Safe, Typed
  <1>1. /\ \A b \in Attempts: b # a => row'[b] = row[b] /\ seen'[b] = seen[b]
        /\ row'[a] = r /\ seen'[a] = {}
    BY DEF Write, JournalOK
  <1>2. /\ \A v \in Workers, b \in Attempts: (v # w \/ b # a) => view'[v][b] = view[v][b]
        /\ \A v \in Workers: v # w => view'[v] = view[v] /\ worker'[v] = worker[v]
        /\ worker'[w].place = "idle" /\ worker'[w].at = NoAttempt
        /\ worker'[w].claimed = worker[w].claimed
    BY DEF Leave, JournalOK, WorkerOK, Idle, At
  <1>3. CurrentView'
    <2> SUFFICES ASSUME NEW v \in Workers, NEW b \in Attempts, v \in seen'[b]
                 PROVE  Content(view'[v][b]) = Content(row'[b])
      BY DEF CurrentView
    <2> QED
      BY <1>1, <1>2 DEF CurrentView
  <1>4. HolderIsCurrent'
    BY <1>1, <1>2, NoAttemptAssumption DEF HolderIsCurrent, ActsOn, At
  <1>5. DecidedOnCleared'
    <2>1. \A v \in Workers: v # w => AllCleared(v)' = AllCleared(v)
      BY <1>2 DEF AllCleared, View, At
    <2> QED
      BY <1>2, <2>1 DEF DecidedOnCleared, PastBarriers
  <1>6. SettledMeansCleared'
    BY <1>1 DEF SettledMeansCleared, Settled
  <1> QED
    BY <1>3, <1>4, <1>5, <1>6

\* A compare-and-set that gives the lease back.
LEMMA CasLeaveSafe ==
  ASSUME IInv, NEW w \in Workers, worker[w].place \in Deciding,
         NEW r \in Rows, CasLeave(w, r), r.bundles = row[At(w)].bundles,
         r.state \in Settled =>
           worker[w].place \in PastBarriers \/ row[At(w)].state \in Settled,
         UNCHANGED bundle
  PROVE  Safe'
  <1> USE DEF IInv, Safe, Typed
  <1>0. At(w) \in Attempts
    BY DEF WorkerOK, At, Deciding
  <1>1. CASE w \notin seen[At(w)]
    <2>1. Go(w, "retry") /\ UNCHANGED journal
      BY <1>1 DEF CasLeave
    <2>2. "retry" \in Places /\ "retry" \notin PastBarriers /\ "retry" \notin Deciding
      BY DEF Places, PastBarriers, Deciding
    <2> QED
      BY <2>1, <2>2, GoSafe
  <1>2. CASE w \in seen[At(w)]
    <2> DEFINE a == At(w)
    <2>1. Write(a, r, {}) /\ Leave(w)
      BY <1>2 DEF CasLeave
    <2>2. r.state \in Settled => \A q \in r.bundles: Cleared(bundle[a][q])
      <3>1. CASE worker[w].place \in PastBarriers
        <4>1. row[a].bundles = view[w][a].bundles
          BY ZenonT(60), <1>0, <1>2, ContentFields DEF CurrentView, JournalOK, At
        <4> QED
          BY <3>1, <4>1 DEF DecidedOnCleared, AllCleared, View
      <3>2. CASE row[a].state \in Settled
        BY <1>0, <3>2 DEF SettledMeansCleared, Settled
      <3> QED
        BY <3>1, <3>2
    <2> QED
      BY <1>0, <2>1, <2>2, LeaveSafe
  <1> QED
    BY <1>1, <1>2

LEMMA WorkerSafe ==
  ASSUME IInv, NEW w \in Workers, WorkerStep(w)
  PROVE  Safe'
  <1> USE DEF IInv, Safe, Typed
  <1>a. /\ worker[w] \in WorkerStates
        /\ worker[w].place # "idle" => At(w) \in Attempts /\ row[At(w)] \in Rows
        /\ worker[w].place \in PastBarriers => AllCleared(w)
    BY DEF WorkerOK, JournalOK, At, DecidedOnCleared
  <1>1. ASSUME Claim(w) PROVE Safe'
    <2>1. PICK A \in SUBSET {a \in Attempts: Claimable(row[a])}:
            /\ row' = [a \in Attempts |-> IF a \in A THEN Leased(row[a], w) ELSE row[a]]
            /\ seen' = [a \in Attempts |-> IF a \in A THEN {w} ELSE seen[a]]
            /\ view' = [view EXCEPT ![w] =
                          [a \in Attempts |-> IF a \in A THEN Leased(row[a], w) ELSE @[a]]]
            /\ worker' = [worker EXCEPT ![w].claimed = A]
      BY <1>1 DEF Claim
    <2>2. worker[w] = Idle /\ UNCHANGED bundle
      BY <1>1 DEF Claim, CleanupFrame
    <2>3. /\ worker'[w].place = "idle" /\ worker'[w].at = NoAttempt /\ worker'[w].claimed = A
          /\ \A v \in Workers: v # w => worker'[v] = worker[v] /\ view'[v] = view[v]
          /\ \A a \in Attempts: a \notin A =>
               view'[w][a] = view[w][a] /\ row'[a] = row[a] /\ seen'[a] = seen[a]
          /\ \A a \in A: view'[w][a] = row'[a] /\ row'[a] = Leased(row[a], w) /\ seen'[a] = {w}
      BY <2>1, <2>2 DEF WorkerOK, JournalOK, Idle
    <2>4. \A a \in A: /\ row'[a].lease = w /\ row'[a].state = row[a].state
                      /\ row'[a].bundles = row[a].bundles
      BY <2>3, RowFields DEF JournalOK
    <2>5. CurrentView'
      <3> SUFFICES ASSUME NEW v \in Workers, NEW a \in Attempts, v \in seen'[a]
                   PROVE  Content(view'[v][a]) = Content(row'[a])
        BY DEF CurrentView
      <3> QED
        BY <2>3 DEF CurrentView
    <2>6. HolderIsCurrent'
      BY <2>2, <2>3, <2>4, NoAttemptAssumption DEF HolderIsCurrent, ActsOn, At, Idle
    <2>7. DecidedOnCleared'
      <3>1. \A v \in Workers: v # w => AllCleared(v)' = AllCleared(v)
        BY <2>2, <2>3 DEF AllCleared, View, At
      <3> QED
        BY <2>3, <3>1 DEF DecidedOnCleared, PastBarriers
    <2>8. SettledMeansCleared'
      BY <2>2, <2>3, <2>4 DEF SettledMeansCleared
    <2> QED
      BY <2>5, <2>6, <2>7, <2>8
  <1>2. ASSUME Begin(w) PROVE Safe'
    <2>1. PICK a \in worker[w].claimed:
            worker' = [worker EXCEPT ![w] = [@ EXCEPT
              !.at = a, !.claimed = worker[w].claimed \ {a},
              !.place = IF view[w][a].state = "needs_attention" THEN "recheck"
                        ELSE "barrier"]]
      BY <1>2 DEF Begin
    <2>2. UNCHANGED <<row, seen, view, bundle>>
      BY <1>2 DEF Begin, CleanupFrame, journal
    <2>3. /\ worker'[w].place \in {"recheck", "barrier"} /\ worker'[w].at = a
          /\ worker'[w].claimed = worker[w].claimed \ {a}
          /\ \A v \in Workers: v # w => worker'[v] = worker[v]
      BY <2>1, <1>a DEF WorkerOK, WorkerStates
    <2>4. HolderIsCurrent'
      BY <2>2, <2>3 DEF HolderIsCurrent, ActsOn, At
    <2>5. DecidedOnCleared'
      <3>1. \A v \in Workers: v # w => AllCleared(v)' = AllCleared(v)
        BY <2>2, <2>3 DEF AllCleared, View, At
      <3> QED
        BY <2>3, <3>1 DEF DecidedOnCleared, PastBarriers
    <2> QED
      BY <2>2, <2>4, <2>5 DEF CurrentView, SettledMeansCleared
  <1>3. ASSUME Barrier(w) PROVE Safe'
    <2>0. UNCHANGED bundle /\ worker[w].place \in Deciding
      BY <1>3 DEF Barrier, CleanupFrame, Deciding
    <2>1. ASSUME GoUnsafe(w, "barrier"), UNCHANGED journal PROVE Safe'
      BY <2>0, <2>1, GoUnsafeSafe DEF ErrorCodes
    <2>2. ASSUME CasLeave(w, Deferred(row[At(w)], "deferred")) PROVE Safe'
      <3> DEFINE r == Deferred(row[At(w)], "deferred")
      <3>1. r \in Rows /\ r.bundles = row[At(w)].bundles /\ r.state = row[At(w)].state
        BY <1>a, <1>3, RowTypesOf, RowFields DEF Barrier, ErrorCodes
      <3> HIDE DEF r
      <3> QED
        BY <2>0, <2>2, <3>1, CasLeaveSafe DEF r
    <2>3. ASSUME AllCleared(w), UNCHANGED journal,
                 Go(w, IF View(w).state = "workspace_removed" THEN "discard" ELSE "inspect")
          PROVE  Safe'
      BY <2>0, <2>3, GoSafe DEF Places, Deciding
    <2> QED
      BY <1>3, <2>1, <2>2, <2>3 DEF Barrier
  <1>4. ASSUME Inspect(w) PROVE Safe'
    <2> DEFINE x == [worker[w] EXCEPT !.place = "evidence", !.seen_as = ClientView(At(w)),
                                      !.found = Located(At(w))]
    <2>1. ClientView(At(w)) \in Materializations /\ Located(At(w)) \in BOOLEAN
      BY <1>a, <1>4 DEF Inspect, ClientView, Located, Materializations, RestOK, JobStates
    <2>2. /\ x \in WorkerStates /\ x.at = At(w) /\ x.claimed = worker[w].claimed
          /\ x.place = "evidence"
      BY <1>a, <2>1 DEF WorkerStates, Places, Deciding, At
    <2>3. worker' = [worker EXCEPT ![w] = x] /\ UNCHANGED <<journal, bundle>>
      BY <1>4 DEF Inspect, CleanupFrame
    <2>4. worker[w].place \in Deciding /\ AllCleared(w)
      BY <1>4, <1>a DEF Inspect, Deciding, PastBarriers
    <2> QED
      BY <2>2, <2>3, <2>4, MoveSafe
  <1>5. ASSUME Evidence(w) PROVE Safe'
    <2> DEFINE r == [row[At(w)] EXCEPT !.evidence = @ \/ worker[w].found,
                                       !.job_known = @ \/ worker[w].seen_as # "missing"]
               p == AfterEvidence(At(w), r, worker[w].seen_as)
    <2>1. r \in Rows /\ r.lease = row[At(w)].lease /\ r.bundles = row[At(w)].bundles
      BY <1>a, <1>5 DEF Evidence, Rows, WorkerStates
    <2>2. p \in Places
      BY <1>a, <1>5
         DEF Evidence, AfterEvidence, Places, Deciding, WorkerStates, Materializations
    <2>3. worker[w].place \in PastBarriers /\ UNCHANGED bundle /\ CasThen(w, r, p)
      BY <1>5 DEF Evidence, PastBarriers, CleanupFrame
    <2> HIDE DEF r, p
    <2> QED
      BY <2>1, <2>2, <2>3, CasThenSafe
  <1>6. ASSUME Abort(w) \/ Absence(w) \/ Remove(w) \/ Discard(w) PROVE Safe'
    <2>1. worker[w].place \in PastBarriers \intersect Deciding /\ UNCHANGED <<journal, bundle>>
      BY <1>6 DEF Abort, Absence, Remove, Discard, PastBarriers, Deciding, CleanupFrame
    <2>2. (\E p \in Places: Go(w, p)) \/ GoUnsafe(w, "unsafe")
      BY <1>6 DEF Abort, Absence, Remove, Discard, Places, Deciding
    <2> QED
      BY <1>a, <2>1, <2>2, GoSafe, GoUnsafeSafe DEF ErrorCodes
  <1>7. ASSUME Removed(w) PROVE Safe'
    <2> DEFINE r == WorkspaceRemoved(row[At(w)])
    <2>1. r \in Rows /\ r.lease = row[At(w)].lease /\ r.bundles = row[At(w)].bundles
      BY <1>a, <1>7, RowTypes DEF Removed, WorkspaceRemoved, Rows
    <2>2. /\ worker[w].place \in PastBarriers /\ UNCHANGED bundle /\ CasThen(w, r, "discard")
          /\ "discard" \in Places
      BY <1>7 DEF Removed, PastBarriers, CleanupFrame, Places, Deciding
    <2> HIDE DEF r
    <2> QED
      BY <2>1, <2>2, CasThenSafe
  <1>8. ASSUME Complete(w) PROVE Safe'
    <2> DEFINE r == Completed(row[At(w)])
    <2>1. r \in Rows /\ r.bundles = row[At(w)].bundles
      BY <1>a, <1>8, RowTypes DEF Complete, Completed, Unlease, Rows
    <2>2. /\ worker[w].place \in PastBarriers \intersect Deciding
          /\ UNCHANGED bundle /\ CasLeave(w, r)
      BY <1>8 DEF Complete, PastBarriers, Deciding, CleanupFrame
    <2> HIDE DEF r
    <2> QED
      BY <2>1, <2>2, CasLeaveSafe
  <1>9. ASSUME Recheck(w) \/ AttentionDiscard(w) PROVE Safe'
    <2>1. worker[w].place \in Deciding /\ UNCHANGED <<journal, bundle>>
      BY <1>9 DEF Recheck, AttentionDiscard, Deciding, CleanupFrame, client
    <2>2. PICK p \in Places: Go(w, p) /\ (p \in PastBarriers => AllCleared(w))
      BY <1>9, <1>a
         DEF Recheck, AttentionDiscard, AttentionExit, Places, Deciding, PastBarriers
    <2> QED
      BY <2>1, <2>2, GoSafe
  <1>10. ASSUME AttentionSettles(w) PROVE Safe'
    <2>1. PICK r \in {Requeued(row[At(w)]), Deferred(row[At(w)], row[At(w)].error)}:
            CasLeave(w, r)
      BY <1>10 DEF AttentionSettles
    <2>a. r = Requeued(row[At(w)]) \/ r = Deferred(row[At(w)], row[At(w)].error)
      OBVIOUS
    <2>2. worker[w].place \in Deciding /\ UNCHANGED bundle
      BY <1>10 DEF AttentionSettles, Deciding, CleanupFrame
    <2>3. row[At(w)] \in Rows /\ row[At(w)].error \in ErrorCodes
      BY <1>a, <1>10 DEF AttentionSettles, Rows
    <2>4. /\ r \in Rows /\ r.bundles = row[At(w)].bundles
          /\ r.state \in {"cleanup_pending", row[At(w)].state}
      <3> DEFINE s == row[At(w)]
      <3>1. Requeued(s) \in Rows /\ Deferred(s, s.error) \in Rows
        BY <2>3, RowTypes, RowTypesOf
      <3>2. /\ Requeued(s).bundles = s.bundles /\ Requeued(s).state = "cleanup_pending"
            /\ Deferred(s, s.error).bundles = s.bundles /\ Deferred(s, s.error).state = s.state
        BY <2>3, RowFields
      <3> QED
        BY <2>a, <3>1, <3>2
    <2> QED
      BY <2>1, <2>2, <2>4, CasLeaveSafe DEF Settled
  <1>11. ASSUME CallFails(w) \/ Refused(w) PROVE Safe'
    <2>1. UNCHANGED <<journal, bundle>> /\ (Go(w, "retry") \/ GoUnsafe(w, "unsafe"))
      BY <1>11 DEF CallFails, Refused, CleanupFrame
    <2>2. /\ "retry" \in Places /\ "retry" \notin PastBarriers /\ "retry" \notin Deciding
          /\ "unsafe" \in ErrorCodes
      BY DEF Places, PastBarriers, Deciding, ErrorCodes
    <2> QED
      BY <2>1, <2>2, GoSafe, GoUnsafeSafe
  <1>12. ASSUME Reread(w) PROVE Safe'
    <2> DEFINE a == At(w)
    <2>1. a \in Attempts /\ a \notin worker[w].claimed
      BY <1>a, <1>12 DEF Reread, WorkerOK, At
    <2>2. /\ row' = row /\ bundle' = bundle
          /\ view'[w][a] = row[a] /\ seen'[a] = seen[a] \union {w}
          /\ \A v \in Workers, b \in Attempts: (v # w \/ b # a) => view'[v][b] = view[v][b]
          /\ \A b \in Attempts: b # a => seen'[b] = seen[b]
          /\ \A v \in Workers: v # w => worker'[v] = worker[v] /\ view'[v] = view[v]
          /\ worker'[w].place \in {"record_unsafe", "record_retry"}
          /\ worker'[w].at = a /\ worker'[w].claimed = worker[w].claimed
      BY <1>a, <1>12, <2>1 DEF Reread, CleanupFrame, JournalOK, WorkerOK, WorkerStates, Go, At
    <2>3. CurrentView'
      <3> SUFFICES ASSUME NEW v \in Workers, NEW b \in Attempts, v \in seen'[b]
                   PROVE  Content(view'[v][b]) = Content(row'[b])
        BY DEF CurrentView
      <3> QED
        BY <2>2 DEF CurrentView
    <2>4. HolderIsCurrent'
      BY <2>1, <2>2 DEF HolderIsCurrent, ActsOn, At, Deciding
    <2>5. DecidedOnCleared'
      <3>1. \A v \in Workers: v # w => AllCleared(v)' = AllCleared(v)
        BY <2>2 DEF AllCleared, View, At
      <3> QED
        BY <2>2, <3>1 DEF DecidedOnCleared, PastBarriers
    <2> QED
      BY <2>2, <2>3, <2>4, <2>5 DEF SettledMeansCleared
  <1>13. ASSUME Record(w) PROVE Safe'
    <2> DEFINE a == At(w)
               r == IF worker[w].place = "record_unsafe" THEN Attention(row[a], worker[w].error)
                    ELSE Failed(row[a], "failed")
    <2>0. /\ a \in Attempts /\ row[a] \in Rows /\ worker[w].error \in ErrorCodes
          /\ UNCHANGED bundle /\ Leave(w)
      BY <1>a, <1>13 DEF Record, WorkerStates, CleanupFrame
    <2>1. CASE w \in seen[a]
      <3>1. Write(a, r, {})
        BY <1>13, <2>1 DEF Record
      <3>2. /\ r \in Rows /\ r.bundles = row[a].bundles
            /\ r.state \in {"needs_attention", row[a].state}
        BY <2>0, RowTypesOf, RowFields DEF ErrorCodes
      <3>3. r.state \in Settled => \A q \in r.bundles: Cleared(bundle[a][q])
        BY <2>0, <3>2 DEF SettledMeansCleared, Settled
      <3> HIDE DEF r
      <3> QED
        BY <2>0, <3>1, <3>2, <3>3, LeaveSafe
    <2>2. CASE w \notin seen[a]
      <3>1. UNCHANGED <<row, seen>>
        BY <1>13, <2>2 DEF Record
      <3>2. /\ \A v \in Workers, b \in Attempts: (v # w \/ b # a) => view'[v][b] = view[v][b]
            /\ \A v \in Workers: v # w => view'[v] = view[v] /\ worker'[v] = worker[v]
            /\ worker'[w].place = "idle" /\ worker'[w].at = NoAttempt
            /\ worker'[w].claimed = worker[w].claimed
        BY <2>0 DEF Leave, JournalOK, WorkerOK, Idle, At
      <3>3. CurrentView'
        <4> SUFFICES ASSUME NEW v \in Workers, NEW b \in Attempts, v \in seen'[b]
                     PROVE  Content(view'[v][b]) = Content(row'[b])
          BY DEF CurrentView
        <4> QED
          BY <2>2, <3>1, <3>2 DEF CurrentView
      <3>4. HolderIsCurrent'
        BY <3>1, <3>2, NoAttemptAssumption DEF HolderIsCurrent, ActsOn, At
      <3>5. DecidedOnCleared'
        <4>1. \A v \in Workers: v # w => AllCleared(v)' = AllCleared(v)
          BY <2>0, <3>2 DEF AllCleared, View, At
        <4> QED
          BY <3>2, <4>1 DEF DecidedOnCleared, PastBarriers
      <3> QED
        BY <2>0, <3>1, <3>3, <3>4, <3>5 DEF SettledMeansCleared
    <2> QED
      BY <2>1, <2>2
  <1> QED
    BY <1>1, <1>2, <1>3, <1>4, <1>5, <1>6, <1>7, <1>8, <1>9, <1>10, <1>11, <1>12, <1>13
       DEF WorkerStep
-----------------------------------------------------------------------------
(* What the others do to the journal and to the bundles.                    *)

\* A download's write: no copy is current afterwards, and the row is not settled,
\* or nothing is written (a settled row that somebody tries to schedule).
LEMMA OwnerWriteSafe ==
  ASSUME IInv, NEW a \in Attempts, NEW r \in Rows, NEW W \in SUBSET Workers,
         Write(a, r, W), UNCHANGED <<view, worker, bundle>>,
         (W = {} /\ r.state \notin Settled) \/ (W = seen[a] /\ r = row[a])
  PROVE  Safe'
  <1> USE DEF IInv, Safe, Typed
  <1>1. /\ \A b \in Attempts: b # a => row'[b] = row[b] /\ seen'[b] = seen[b]
        /\ row'[a] = r /\ seen'[a] = W
    BY DEF Write, JournalOK
  <1>2. CurrentView'
    <2> SUFFICES ASSUME NEW v \in Workers, NEW b \in Attempts, v \in seen'[b]
                 PROVE  Content(view'[v][b]) = Content(row'[b])
      BY DEF CurrentView
    <2> QED
      BY <1>1 DEF CurrentView
  <1>3. HolderIsCurrent'
    BY <1>1 DEF HolderIsCurrent, ActsOn, At
  <1>4. DecidedOnCleared'
    BY DEF DecidedOnCleared, AllCleared, View, At
  <1>5. SettledMeansCleared'
    BY <1>1 DEF SettledMeansCleared, Settled
  <1> QED
    BY <1>2, <1>3, <1>4, <1>5

LEMMA ScheduleSafe ==
  ASSUME IInv, NEW a \in Attempts, NEW d \in {"discard", "preserve"},
         NEW B \in SUBSET Plans, Schedule(a, d, B), UNCHANGED <<view, worker, bundle>>
  PROVE  Safe'
  <1> DEFINE r == Scheduled(row[a], d, B)
             W == IF CanSchedule(row[a]) THEN {} ELSE seen[a]
  <1>1. row[a] \in Rows /\ seen[a] \in SUBSET Workers
    BY DEF IInv, Typed, JournalOK
  <1>2. r \in Rows /\ W \in SUBSET Workers /\ Write(a, r, W)
    BY <1>1, RowTypesOf DEF Schedule
  <1>3. (W = {} /\ r.state \notin Settled) \/ (W = seen[a] /\ r = row[a])
    BY <1>1, ScheduledFields DEF Settled
  <1> HIDE DEF r, W
  <1> QED
    BY <1>2, <1>3, OwnerWriteSafe

\* The world moves, the bundles at most towards cleared, the journal not at all.
LEMMA WorldSafe ==
  ASSUME IInv, UNCHANGED <<row, seen, view, worker>>,
         \A a \in Attempts, p \in Plans: Cleared(bundle[a][p]) => Cleared(bundle'[a][p])
  PROVE  Safe'
  <1> USE DEF IInv, Safe, Typed
  <1>1. CurrentView' /\ HolderIsCurrent'
    BY DEF CurrentView, Content, HolderIsCurrent, ActsOn, At
  <1>2. DecidedOnCleared'
    <2> SUFFICES ASSUME NEW w \in Workers, worker[w].place \in PastBarriers
                 PROVE  \A p \in view[w][At(w)].bundles: Cleared(bundle'[At(w)][p])
      BY DEF DecidedOnCleared, AllCleared, View, At
    <2>1. At(w) \in Attempts /\ view[w][At(w)].bundles \subseteq Plans
      BY DEF WorkerOK, At, PastBarriers, JournalOK, Rows
    <2> QED
      BY <2>1 DEF DecidedOnCleared, AllCleared, View
  <1>3. SettledMeansCleared'
    <2> SUFFICES ASSUME NEW a \in Attempts, row[a].state \in Settled
                 PROVE  \A p \in row[a].bundles: Cleared(bundle'[a][p])
      BY DEF SettledMeansCleared, Settled
    <2>1. row[a].bundles \subseteq Plans
      BY DEF JournalOK, Rows
    <2> QED
      BY <2>1 DEF SettledMeansCleared, Settled
  <1> QED
    BY ZenonT(30), <1>1, <1>2, <1>3

\* Time passes for one row.
LEMMA ClockSafe ==
  ASSUME IInv, NEW a \in Attempts, LeaseExpires(a) \/ DueElapses(a)
  PROVE  Safe'
  <1> USE DEF IInv, Safe, Typed
  <1>1. UNCHANGED <<seen, view, worker, bundle>>
    BY DEF LeaseExpires, DueElapses, CleanupFrame
  <1>2. \A b \in Attempts: Content(row'[b]) = Content(row[b]) /\ row'[b].lease = row[b].lease
                         /\ row'[b].state = row[b].state /\ row'[b].bundles = row[b].bundles
    <2> DEFINE r == row[a]
               l == [r EXCEPT !.live = FALSE]
               d == [r EXCEPT !.due = TRUE]
    <2>1. r \in Rows
      BY DEF JournalOK
    <2>2. /\ Content(l) = Content(r) /\ Content(d) = Content(r)
          /\ l.lease = r.lease /\ l.state = r.state /\ l.bundles = r.bundles
          /\ d.lease = r.lease /\ d.state = r.state /\ d.bundles = r.bundles
      BY <2>1, ContentFields DEF Rows
    <2>3. row' = [row EXCEPT ![a] = l] \/ row' = [row EXCEPT ![a] = d]
      BY DEF LeaseExpires, DueElapses
    <2> HIDE DEF r, l, d
    <2>4. \A b \in Attempts: b # a => row'[b] = row[b]
      BY <2>3 DEF JournalOK
    <2>5. row'[a] = l \/ row'[a] = d
      BY <2>3 DEF JournalOK
    <2> QED
      BY <2>2, <2>4, <2>5 DEF r
  <1>3. CurrentView'
    <2> SUFFICES ASSUME NEW v \in Workers, NEW b \in Attempts, v \in seen'[b]
                 PROVE  Content(view'[v][b]) = Content(row'[b])
      BY DEF CurrentView
    <2> QED
      BY <1>1, <1>2 DEF CurrentView
  <1>4. HolderIsCurrent'
    BY <1>1, <1>2 DEF HolderIsCurrent, ActsOn, At
  <1>5. DecidedOnCleared'
    BY <1>1 DEF DecidedOnCleared, AllCleared, View, At
  <1>6. SettledMeansCleared'
    BY <1>1, <1>2 DEF SettledMeansCleared
  <1> QED
    BY <1>3, <1>4, <1>5, <1>6

LEMMA AttemptSafe ==
  ASSUME IInv, NEW a \in Attempts, DownloadStep(a) \/ Request(a)
  PROVE  Safe'
  <1>0. row[a] \in Rows /\ bundle \in [Attempts -> [Plans -> BundleStates]]
        /\ tried[a] \subseteq Plans
    BY DEF IInv, Typed, JournalOK, RestOK
  <1>1. ASSUME Acquire(a) \/ HandleKnown(a) \/ Reacquire(a) PROVE Safe'
    <2>1. PICK r \in {CreatedRow, WithHandle(row[a]), Reacquired(row[a])}: Write(a, r, {})
      BY <1>1 DEF Acquire, HandleKnown, Reacquire
    <2>2. r \in Rows /\ r.state \notin Settled
      <3>1. /\ CreatedRow \in Rows /\ WithHandle(row[a]) \in Rows /\ Reacquired(row[a]) \in Rows
            /\ CreatedRow.state = "acquiring" /\ WithHandle(row[a]).state = "in_use"
            /\ Reacquired(row[a]).state = "in_use"
        BY <1>0, RowTypes, RowFields
      <3>2. r = CreatedRow \/ r = WithHandle(row[a]) \/ r = Reacquired(row[a])
        OBVIOUS
      <3> QED
        BY <3>1, <3>2 DEF Settled
    <2>3. UNCHANGED <<view, worker, bundle>>
      BY <1>1 DEF Acquire, HandleKnown, Reacquire, DownloadFrame
    <2> QED
      BY <2>1, <2>2, <2>3, OwnerWriteSafe
  <1>2. ASSUME FinishImport(a) PROVE Safe'
    <2>1. PICK B \in SUBSET Plans, d \in {"discard", "preserve"}: Schedule(a, d, B)
      BY <1>0, <1>2 DEF FinishImport
    <2>2. UNCHANGED <<view, worker, bundle>>
      BY <1>2 DEF FinishImport, DownloadFrame
    <2> QED
      BY <2>1, <2>2, ScheduleSafe
  <1>3. ASSUME Abandon(a) PROVE Safe'
    <2>1. PICK d \in {"discard", "preserve"}: Schedule(a, d, {})
      BY <1>3 DEF Abandon
    <2>2. UNCHANGED <<view, worker, bundle>>
      BY <1>3 DEF Abandon, DownloadFrame
    <2> QED
      BY <2>1, <2>2, ScheduleSafe
  <1>4. ASSUME Cancel(a) PROVE Safe'
    <2>1. PICK B \in SUBSET Plans, d \in {"discard", "preserve"}: Schedule(a, d, B)
      BY <1>4 DEF Cancel
    <2>2. UNCHANGED <<view, worker, bundle>>
      BY <1>4 DEF Cancel, DownloadFrame
    <2> QED
      BY <2>1, <2>2, ScheduleSafe
  <1>5. ASSUME HandOff(a) \/ JobMoves(a) \/ StartImport(a) \/ Link(a) \/ OtherCandidateEnds(a)
               \/ Reimport(a) \/ Resume(a) \/ JobForgotten(a)
        PROVE  Safe'
    <2>1. UNCHANGED <<row, seen, view, worker, bundle>>
      BY <1>5 DEF HandOff, JobMoves, StartImport, Link, OtherCandidateEnds, Reimport, Resume,
                  JobForgotten, DownloadFrame
    <2> QED
      BY <2>1, WorldSafe
  <1>6. ASSUME NEW p \in Plans, Publish(a, p) \/ BundleMoves(a, p) \/ ResolveBundle(a, p)
        PROVE  Safe'
    <2>1. UNCHANGED <<row, seen, view, worker>>
      BY <1>6 DEF Publish, BundleMoves, ResolveBundle, DownloadFrame, download
    <2>2. bundle' = bundle
          \/ (~Cleared(bundle[a][p]) /\ \E end \in BundleStates: bundle' = [bundle EXCEPT ![a][p] = end])
      BY <1>6 DEF Publish, BundleMoves, ResolveBundle, Cleared, BundleStates
    <2>3. \A b \in Attempts, q \in Plans: Cleared(bundle[b][q]) => Cleared(bundle'[b][q])
      BY <1>0, <2>2
    <2> QED
      BY <2>1, <2>3, WorldSafe
  <1> QED
    BY <1>1, <1>2, <1>3, <1>4, <1>5, <1>6 DEF DownloadStep, Request

LEMMA SafeInit == Init => Safe
  <1> SUFFICES ASSUME Init PROVE Safe
    OBVIOUS
  <1>1. CurrentView /\ HolderIsCurrent
    BY DEF Init, CurrentView, HolderIsCurrent, ActsOn
  <1>2. DecidedOnCleared
    BY DEF Init, DecidedOnCleared, PastBarriers, Idle
  <1>3. SettledMeansCleared
    BY DEF Init, SettledMeansCleared, AbsentRow
  <1> QED
    BY <1>1, <1>2, <1>3 DEF Safe

LEMMA SafeNext == IInv /\ [Next]_vars => Safe'
  <1> SUFFICES ASSUME IInv, [Next]_vars PROVE Safe'
    OBVIOUS
  <1>1. ASSUME NEW w \in Workers, WorkerStep(w) PROVE Safe'
    BY <1>1, WorkerSafe
  <1>2. ASSUME NEW a \in Attempts, DownloadStep(a) \/ Request(a) PROVE Safe'
    BY <1>2, AttemptSafe
  <1>3. ASSUME NEW a \in Attempts, OrphanChoose(a) PROVE Safe'
    BY <1>3, WorldSafe DEF OrphanChoose, journal
  <1>4. ASSUME NEW a \in Attempts, LeaseExpires(a) \/ DueElapses(a) PROVE Safe'
    BY <1>4, ClockSafe
  <1>5. ASSUME OrphanRemove PROVE Safe'
    BY <1>5, WorldSafe DEF OrphanRemove, journal
  <1>6. ASSUME Crash PROVE Safe'
    <2>1. \A a \in Attempts: seen'[a] = {}
      BY <1>6 DEF Crash
    <2>2. \A w \in Workers: worker'[w].place = "idle"
      BY <1>6 DEF Crash, Idle
    <2>3. UNCHANGED <<row, bundle>>
      BY <1>6 DEF Crash
    <2> QED
      BY <2>1, <2>2, <2>3
         DEF IInv, Safe, CurrentView, HolderIsCurrent, ActsOn, DecidedOnCleared, PastBarriers,
             SettledMeansCleared
  <1>7. ASSUME NEW w \in Workers, Killed(w) PROVE Safe'
    <2>1. \A a \in Attempts: seen'[a] = seen[a] \ {w}
      BY <1>7 DEF Killed
    <2>2. /\ worker'[w].place = "idle"
          /\ \A v \in Workers: v # w => worker'[v] = worker[v] /\ view'[v] = view[v]
      BY <1>7 DEF Killed, IInv, Typed, JournalOK, WorkerOK, Idle
    <2>3. UNCHANGED <<row, bundle>>
      BY <1>7 DEF Killed
    <2>4. CurrentView' /\ HolderIsCurrent'
      <3>1. \A v \in Workers, a \in Attempts: v \in seen'[a] => v # w /\ v \in seen[a]
        BY <2>1
      <3>2. CurrentView'
        BY <2>2, <2>3, <3>1 DEF IInv, Safe, CurrentView
      <3>3. HolderIsCurrent'
        BY <2>2, <2>3, <3>1 DEF IInv, Safe, HolderIsCurrent, ActsOn, At
      <3> QED
        BY <3>2, <3>3
    <2>5. DecidedOnCleared'
      BY <2>2, <2>3 DEF IInv, Safe, DecidedOnCleared, AllCleared, View, At, PastBarriers
    <2>6. SettledMeansCleared'
      BY <2>3 DEF IInv, Safe, SettledMeansCleared
    <2> QED
      BY <2>4, <2>5, <2>6 DEF Safe
  <1>8. ASSUME UNCHANGED vars PROVE Safe'
    BY <1>8, WorldSafe DEF vars
  <1> QED
    BY <1>1, <1>2, <1>3, <1>4, <1>5, <1>6, <1>7, <1>8 DEF Next

LEMMA Inductive == Spec => []IInv
  <1>1. Init => IInv
    BY TypedInit, SafeInit DEF IInv
  <1>2. IInv /\ [Next]_vars => IInv'
    BY TypedNext, SafeNext DEF IInv
  <1> QED
    BY <1>1, <1>2, PTL DEF Spec

\* Two workers never both hold a decision about one attempt that they could still
\* commit, whatever leases lapse, workers are killed or processes restart.
THEOREM Exclusive == Spec => []CommitExclusive
  <1>1. IInv => CommitExclusive
    BY DEF IInv, Safe, HolderIsCurrent, CommitExclusive
  <1> QED
    BY <1>1, Inductive, PTL

\* A copy whose revision is still the row's tells what the row says.
THEOREM RevisionsFaithful == Spec => []CurrentView
  <1>1. IInv => CurrentView
    BY DEF IInv, Safe
  <1> QED
    BY <1>1, Inductive, PTL

\* No source is recorded as removed or settled while a publication bundle that its
\* row names still needs it.
THEOREM SettledCleared == Spec => []SettledMeansCleared
  <1>1. IInv => SettledMeansCleared
    BY DEF IInv, Safe
  <1> QED
    BY <1>1, Inductive, PTL
-----------------------------------------------------------------------------
(* The source bytes under a publication.                                    *)

\* Worker w is at the attempt, or has it on its page.
Works(w, a) == At(w) = a \/ a \in worker[w].claimed
\* What an owner does while it needs the row, and while it needs the bytes.
Owing == {"enqueuing", "polling", "importing", "reacquired", "reimporting"}
Importing == {"importing", "reimporting"}

\* An attempt on the side of its download: bytes come when the client has ended, a publication
\* belongs to the import that is under way, and an owner has its row in force.
Downloaded(a) ==
  /\ job[a] \in {"none", "active", "between"} => disk[a] = "empty"
  /\ \A p \in Plans: bundle[a][p] = "publishing" => p \in tried[a]
  /\ tried[a] # {} => owner[a] \in Importing
  /\ owner[a] \in Owing => row[a].state \in {"acquiring", "in_use"}
  /\ task[a] = "cancelled" => owner[a] = "idle"
  /\ owner[a] = "idle" /\ row[a].state # "absent" => task[a] # "active"
\* On the side of the cleanup: who works on it holds its lease or it is cancelled for good, so
\* no re-import takes it back; the same goes for the folder that the sweep has chosen.
Attended(a) ==
  /\ row[a].state = "complete" => ~row[a].live
  /\ \A w \in Workers: Works(w, a) =>
       /\ owner[a] \in {"idle", "switching"} /\ row[a].state # "absent"
       /\ (row[a].lease = w /\ row[a].live) \/ task[a] = "cancelled"
  /\ orphan = a => row[a].state = "complete" \/ task[a] = "cancelled"
\* Both, for all attempts.
Undisturbed == \A a \in Attempts: Downloaded(a) /\ Attended(a)

\* What the transactions do to the lease.
LEMMA RowLeases ==
  ASSUME NEW r \in Rows
  PROVE  /\ \A w \in Workers: Leased(r, w).live
         /\ \A error \in ErrorCodes: /\ ~Deferred(r, error).live
                                     /\ ~Attention(r, error).live
                                     /\ ~Failed(r, error).live
         /\ ~Requeued(r).live /\ ~Completed(r).live
         /\ WorkspaceRemoved(r).lease = r.lease /\ WorkspaceRemoved(r).live = r.live
         /\ WorkspaceRemoved(r).state = "workspace_removed"
         /\ WithHandle(r).live = r.live
  <1>0. \A error \in ErrorCodes: Deferred(r, error) \in Rows
    BY DEF Rows, Deferred, Unlease
  <1> DEFINE u == Unlease(r)
  <1>1. u \in Rows /\ u.live = FALSE
    <2>1. u.live = FALSE
      BY DEF Unlease, Rows
    <2> QED
      BY <2>1, UnleaseType
  <1>2. /\ \A w \in Workers: Leased(r, w).live = TRUE
        /\ WorkspaceRemoved(r).lease = r.lease /\ WorkspaceRemoved(r).live = r.live
        /\ WorkspaceRemoved(r).state = "workspace_removed"
        /\ WithHandle(r).live = r.live
    BY DEF Leased, WorkspaceRemoved, WithHandle, Rows
  <1>3. \A error \in ErrorCodes: Deferred(r, error).live = FALSE
    <2> HIDE DEF u
    <2>1. \A error \in ErrorCodes: [u EXCEPT !.due = FALSE, !.error = error].live = FALSE
      BY <1>1 DEF Rows
    <2> QED
      BY <2>1 DEF Deferred, u
  <1>4. \A error \in ErrorCodes: Attention(r, error).live = FALSE
    <2> TAKE error \in ErrorCodes
    <2> DEFINE d == Deferred(r, error)
    <2>1. d \in Rows /\ d.live = FALSE
      BY <1>0, <1>3
    <2>2. [d EXCEPT !.state = "needs_attention", !.disposition = "preserve"].live = FALSE
      <3> HIDE DEF d
      <3> QED
        BY <2>1 DEF Rows
    <2> QED
      BY <2>2 DEF Attention
  <1>5. \A error \in ErrorCodes: Failed(r, error).live = FALSE
    <2> TAKE error \in ErrorCodes
    <2> DEFINE n == IF u.failures < UnresolvedJobRetries THEN u.failures + 1 ELSE u.failures
    <2>1. [u EXCEPT !.due = FALSE, !.error = error, !.failures = n].live = FALSE
      <3> HIDE DEF u, n
      <3> QED
        BY <1>1 DEF Rows
    <2> QED
      BY <2>1 DEF Failed
  <1>6. Requeued(r).live = FALSE /\ Completed(r).live = FALSE
    <2> HIDE DEF u
    <2>1. /\ [u EXCEPT !.state = "cleanup_pending", !.disposition = "discard",
                       !.due = TRUE, !.error = "none"].live = FALSE
          /\ [u EXCEPT !.state = "complete", !.error = "none"].live = FALSE
      BY <1>1 DEF Rows
    <2> QED
      BY <2>1 DEF Requeued, Completed, u
  <1> QED
    BY <1>2, <1>3, <1>4, <1>5, <1>6

\* Scheduling takes the lease away.
LEMMA ScheduledLease ==
  ASSUME NEW r \in Rows, CanSchedule(r), NEW d \in {"discard", "preserve"}, NEW B \in SUBSET Plans
  PROVE  Scheduled(r, d, B).live = FALSE
  <1> DEFINE u == Unlease(r)
             s == IF d = "discard" THEN "cleanup_pending" ELSE "preserved"
  <1>1. u \in Rows /\ u.live = FALSE
    BY UnleaseType DEF Unlease, Rows
  <1>2. [u EXCEPT !.state = s, !.disposition = d, !.bundles = B,
                  !.due = TRUE, !.error = "none"].live = FALSE
    <2> HIDE DEF u, s
    <2> QED
      BY <1>1 DEF Rows
  <1> QED
    BY <1>2 DEF Scheduled

\* How a step of w changes the row of a: it claims it, writes it and keeps the lease, or writes
\* it, gives the lease back and is done with it.
Takes(w, a) == /\ Claimable(row[a]) /\ row'[a].lease = w /\ row'[a].live
               /\ row'[a].state = row[a].state
Retains(w, a) == /\ Works(w, a)' => Works(w, a)
                 /\ row'[a].lease = row[a].lease /\ row'[a].live = row[a].live
                 /\ \/ row'[a].state = row[a].state
                    \/ At(w) = a /\ row'[a].state = "workspace_removed"
Frees(w, a) == /\ At(w) = a /\ ~Works(w, a)' /\ ~row'[a].live
               /\ row'[a].state \in {row[a].state, "cleanup_pending", "needs_attention", "complete"}
Attends(w, a) == Takes(w, a) \/ Retains(w, a) \/ Frees(w, a)
\* The whole of what such a step does to the journal and to the workers.
Journals(w) == /\ \A v \in Workers \ {w}: worker'[v] = worker[v]
               /\ \A a \in Attempts: Attends(w, a)

\* A worker that moves on, with the journal as it is.
LEMMA MoveJournals ==
  ASSUME Typed, NEW w \in Workers, UNCHANGED row, NEW x \in WorkerStates,
         worker' = [worker EXCEPT ![w] = x], x.at = At(w), x.claimed = worker[w].claimed
  PROVE  Journals(w)
  <1>1. worker'[w] = x /\ \A v \in Workers \ {w}: worker'[v] = worker[v]
    BY DEF Typed, WorkerOK
  <1> QED
    BY <1>1 DEF Journals, Attends, Retains, Works, At

\* It moves on to the place p.
LEMMA GoJournals ==
  ASSUME Typed, NEW w \in Workers, UNCHANGED row, NEW p \in Places, Go(w, p)
  PROVE  Journals(w)
  <1> DEFINE x == [worker[w] EXCEPT !.place = p]
  <1>1. x \in WorkerStates /\ x.at = At(w) /\ x.claimed = worker[w].claimed
    BY DEF Typed, WorkerOK, WorkerStates, At
  <1>2. worker' = [worker EXCEPT ![w] = x]
    BY DEF Go
  <1> QED
    BY <1>1, <1>2, MoveJournals

\* It moves on with the exception it caught.
LEMMA UnsafeJournals ==
  ASSUME Typed, NEW w \in Workers, UNCHANGED row, NEW e \in ErrorCodes, GoUnsafe(w, e)
  PROVE  Journals(w)
  <1> DEFINE x == [worker[w] EXCEPT !.place = "unsafe", !.error = e]
  <1>1. x \in WorkerStates /\ x.at = At(w) /\ x.claimed = worker[w].claimed
    BY DEF Typed, WorkerOK, WorkerStates, At, Places
  <1>2. worker' = [worker EXCEPT ![w] = x]
    BY DEF GoUnsafe
  <1> QED
    BY <1>1, <1>2, MoveJournals

\* A compare-and-set that goes on with the lease.
LEMMA CasThenJournals ==
  ASSUME Typed, NEW w \in Workers, worker[w].place # "idle", NEW r \in Rows, NEW p \in Places,
         CasThen(w, r, p), r.lease = row[At(w)].lease, r.live = row[At(w)].live,
         r.state \in {row[At(w)].state, "workspace_removed"}
  PROVE  Journals(w)
  <1>1. CASE w \in seen[At(w)]
    <2>1. worker' = [worker EXCEPT ![w].place = p] /\ row' = [row EXCEPT ![At(w)] = r]
      BY <1>1 DEF CasThen, Write, Go
    <2>2. /\ worker'[w].at = At(w) /\ worker'[w].claimed = worker[w].claimed
          /\ \A v \in Workers \ {w}: worker'[v] = worker[v]
      BY <2>1 DEF Typed, WorkerOK, WorkerStates, At
    <2>3. /\ \A a \in Attempts: a # At(w) => row'[a] = row[a]
          /\ At(w) \in Attempts /\ row'[At(w)] = r
      BY <2>1 DEF Typed, JournalOK, WorkerOK, At
    <2> QED
      BY <2>2, <2>3 DEF Journals, Attends, Retains, Works, At
  <1>2. CASE w \notin seen[At(w)]
    BY <1>2, GoJournals DEF CasThen, Places, journal
  <1> QED
    BY <1>1, <1>2

\* A write that gives the lease back and leaves.
LEMMA LeaveJournals ==
  ASSUME Typed, NEW w \in Workers, worker[w].place # "idle", Leave(w),
         UNCHANGED row \/ (\E r \in Rows: /\ row' = [row EXCEPT ![At(w)] = r] /\ ~r.live
                                          /\ r.state \in {row[At(w)].state, "cleanup_pending",
                                                          "needs_attention", "complete"})
  PROVE  Journals(w)
  <1>1. /\ worker'[w].at = NoAttempt /\ worker'[w].claimed = worker[w].claimed
        /\ \A v \in Workers \ {w}: worker'[v] = worker[v]
        /\ At(w) \in Attempts /\ At(w) \notin worker[w].claimed
    BY DEF Leave, Idle, Typed, WorkerOK, At
  <1>2. \A a \in Attempts: Works(w, a)' => Works(w, a) /\ a # At(w)
    BY <1>1, NoAttemptAssumption DEF Works, At
  <1>3. CASE UNCHANGED row
    BY <1>1, <1>2, <1>3 DEF Journals, Attends, Retains
  <1>4. CASE ~UNCHANGED row
    <2>1. PICK r \in Rows: /\ row' = [row EXCEPT ![At(w)] = r] /\ ~r.live
                           /\ r.state \in {row[At(w)].state, "cleanup_pending",
                                           "needs_attention", "complete"}
      BY <1>4
    <2>2. row'[At(w)] = r /\ \A a \in Attempts: a # At(w) => row'[a] = row[a]
      BY <1>1, <2>1 DEF Typed, JournalOK
    <2> QED
      BY <1>1, <1>2, <2>1, <2>2 DEF Journals, Attends, Retains, Frees
  <1> QED
    BY <1>3, <1>4

\* The compare-and-set among them.
LEMMA CasLeaveJournals ==
  ASSUME Typed, NEW w \in Workers, worker[w].place # "idle", NEW r \in Rows, CasLeave(w, r), ~r.live,
         r.state \in {row[At(w)].state, "cleanup_pending", "needs_attention", "complete"}
  PROVE  Journals(w)
  <1>1. CASE w \in seen[At(w)]
    BY <1>1, LeaveJournals DEF CasLeave, Write
  <1>2. CASE w \notin seen[At(w)]
    BY <1>2, GoJournals DEF CasLeave, Places, journal
  <1> QED
    BY <1>1, <1>2

\* Every step of a worker changes the journal like that.
LEMMA WorkerJournals ==
  ASSUME Typed, NEW w \in Workers, WorkerStep(w)
  PROVE  Journals(w)
  <1>a. /\ worker[w] \in WorkerStates
        /\ worker[w].place # "idle" => At(w) \in Attempts /\ row[At(w)] \in Rows
    BY DEF Typed, WorkerOK, JournalOK, At
  <1>1. ASSUME Claim(w) PROVE Journals(w)
    <2>1. PICK A \in SUBSET {a \in Attempts: Claimable(row[a])}:
            /\ row' = [a \in Attempts |-> IF a \in A THEN Leased(row[a], w) ELSE row[a]]
            /\ worker' = [worker EXCEPT ![w].claimed = A]
      BY <1>1 DEF Claim
    <2>2. /\ At(w)' = NoAttempt /\ worker'[w].claimed = A
          /\ \A v \in Workers \ {w}: worker'[v] = worker[v]
      BY <1>1, <1>a, <2>1 DEF Claim, Idle, At, Typed, WorkerOK
    <2>3. ASSUME NEW a \in A PROVE Takes(w, a)
      <3>1. row[a] \in Rows /\ Claimable(row[a]) /\ row'[a] = Leased(row[a], w)
        BY <2>1 DEF Typed, JournalOK
      <3>2. /\ Leased(row[a], w).lease = w /\ Leased(row[a], w).live
            /\ Leased(row[a], w).state = row[a].state
        BY <3>1, RowFields, RowLeases
      <3> QED
        BY <3>1, <3>2 DEF Takes
    <2>4. \A a \in Attempts \ A: Retains(w, a)
      BY <2>1, <2>2, NoAttemptAssumption DEF Retains, Works
    <2> QED
      BY <2>2, <2>3, <2>4 DEF Journals, Attends
  <1>2. ASSUME Begin(w) PROVE Journals(w)
    <2>1. PICK a \in worker[w].claimed:
            worker' = [worker EXCEPT ![w] = [@ EXCEPT
              !.at = a, !.claimed = worker[w].claimed \ {a},
              !.place = IF view[w][a].state = "needs_attention" THEN "recheck"
                        ELSE "barrier"]]
      BY <1>2 DEF Begin
    <2>2. /\ worker'[w].at = a /\ worker'[w].claimed = worker[w].claimed \ {a}
          /\ \A v \in Workers \ {w}: worker'[v] = worker[v]
      BY <2>1, <1>a DEF Typed, WorkerOK, WorkerStates
    <2>3. UNCHANGED row
      BY <1>2 DEF Begin, journal
    <2> QED
      BY <2>2, <2>3 DEF Journals, Attends, Retains, Works, At
  <1>3. ASSUME Barrier(w) PROVE Journals(w)
    <2>1. ASSUME GoUnsafe(w, "barrier"), UNCHANGED journal PROVE Journals(w)
      BY <2>1, UnsafeJournals DEF ErrorCodes, journal
    <2>2. ASSUME CasLeave(w, Deferred(row[At(w)], "deferred")) PROVE Journals(w)
      <3> DEFINE r == Deferred(row[At(w)], "deferred")
      <3>1. worker[w].place # "idle" /\ At(w) \in Attempts /\ row[At(w)] \in Rows
        BY <1>3, <1>a DEF Barrier
      <3>2. r \in Rows /\ ~r.live /\ r.state = row[At(w)].state
        BY <3>1, RowTypesOf, RowFields, RowLeases DEF ErrorCodes
      <3> HIDE DEF r
      <3> QED
        BY <2>2, <3>1, <3>2, CasLeaveJournals DEF r
    <2>3. ASSUME NEW p \in {"discard", "inspect"}, Go(w, p), UNCHANGED journal
          PROVE  Journals(w)
      BY <2>3, GoJournals DEF Places, Deciding, journal
    <2> QED
      BY <1>3, <2>1, <2>2, <2>3 DEF Barrier
  <1>4. ASSUME Inspect(w) PROVE Journals(w)
    <2> DEFINE x == [worker[w] EXCEPT
                 !.place = "evidence", !.seen_as = ClientView(At(w)), !.found = Located(At(w))]
    <2>1. worker' = [worker EXCEPT ![w] = x] /\ UNCHANGED row
      BY <1>4 DEF Inspect, journal
    <2>2. x.at = At(w) /\ x.claimed = worker[w].claimed
      BY <1>a DEF WorkerStates, At
    <2>3. worker'[w] = x /\ \A v \in Workers \ {w}: worker'[v] = worker[v]
      BY <2>1 DEF Typed, WorkerOK
    <2> HIDE DEF x
    <2> QED
      BY <2>1, <2>2, <2>3 DEF Journals, Attends, Retains, Works, At
  <1>5. ASSUME Evidence(w) PROVE Journals(w)
    <2> DEFINE r == [row[At(w)] EXCEPT !.evidence = @ \/ worker[w].found,
                                       !.job_known = @ \/ worker[w].seen_as # "missing"]
               p == AfterEvidence(At(w), r, worker[w].seen_as)
    <2>1. /\ r \in Rows /\ r.lease = row[At(w)].lease /\ r.live = row[At(w)].live
          /\ r.state = row[At(w)].state
      BY <1>a, <1>5 DEF Evidence, Rows, WorkerStates
    <2>2. p \in Places
      BY <1>a, <1>5
         DEF Evidence, AfterEvidence, Places, Deciding, WorkerStates, Materializations
    <2>3. worker[w].place # "idle" /\ CasThen(w, r, p)
      BY <1>5 DEF Evidence
    <2> HIDE DEF r, p
    <2> QED
      BY <2>1, <2>2, <2>3, CasThenJournals
  <1>6. ASSUME Abort(w) \/ Absence(w) \/ Remove(w) \/ Discard(w) PROVE Journals(w)
    <2>1. UNCHANGED row
      BY <1>6 DEF Abort, Absence, Remove, Discard, journal
    <2>2. (\E p \in Places: Go(w, p)) \/ GoUnsafe(w, "unsafe")
      BY <1>6 DEF Abort, Absence, Remove, Discard, Places, Deciding
    <2> QED
      BY <2>1, <2>2, GoJournals, UnsafeJournals DEF ErrorCodes
  <1>7. ASSUME Removed(w) PROVE Journals(w)
    <2> DEFINE r == WorkspaceRemoved(row[At(w)])
    <2>1. /\ r \in Rows /\ r.lease = row[At(w)].lease /\ r.live = row[At(w)].live
          /\ r.state = "workspace_removed"
      BY <1>a, <1>7, RowTypes, RowLeases DEF Removed
    <2>2. worker[w].place # "idle" /\ CasThen(w, r, "discard") /\ "discard" \in Places
      BY <1>7 DEF Removed, Places, Deciding
    <2> HIDE DEF r
    <2> QED
      BY <2>1, <2>2, CasThenJournals
  <1>8. ASSUME Complete(w) PROVE Journals(w)
    <2> DEFINE r == Completed(row[At(w)])
    <2>1. r \in Rows /\ r.state = "complete" /\ ~r.live
      BY <1>a, <1>8, RowTypes, RowFields, RowLeases DEF Complete
    <2>2. worker[w].place # "idle" /\ CasLeave(w, r)
      BY <1>8 DEF Complete
    <2> HIDE DEF r
    <2> QED
      BY <2>1, <2>2, CasLeaveJournals
  <1>9. ASSUME Recheck(w) \/ AttentionDiscard(w) PROVE Journals(w)
    <2>1. UNCHANGED row
      BY <1>9 DEF Recheck, AttentionDiscard, journal
    <2>2. PICK p \in Places: Go(w, p)
      BY <1>9 DEF Recheck, AttentionDiscard, AttentionExit, Places, Deciding
    <2> QED
      BY <2>1, <2>2, GoJournals
  <1>10. ASSUME AttentionSettles(w) PROVE Journals(w)
    <2>1. PICK r \in {Requeued(row[At(w)]), Deferred(row[At(w)], row[At(w)].error)}:
            CasLeave(w, r)
      BY <1>10 DEF AttentionSettles
    <2>a. r = Requeued(row[At(w)]) \/ r = Deferred(row[At(w)], row[At(w)].error)
      OBVIOUS
    <2>2. worker[w].place # "idle"
      BY <1>10 DEF AttentionSettles
    <2>3. row[At(w)] \in Rows /\ row[At(w)].error \in ErrorCodes
      BY <1>a, <2>2 DEF Rows
    <2>4. r \in Rows /\ ~r.live /\ r.state \in {row[At(w)].state, "cleanup_pending"}
      <3> DEFINE s == row[At(w)]
      <3>1. Requeued(s) \in Rows /\ Deferred(s, s.error) \in Rows
        BY <2>3, RowTypes, RowTypesOf
      <3>2. /\ ~Requeued(s).live /\ Requeued(s).state = "cleanup_pending"
            /\ ~Deferred(s, s.error).live /\ Deferred(s, s.error).state = s.state
        BY <2>3, RowFields, RowLeases
      <3> QED
        BY <2>a, <3>1, <3>2
    <2> QED
      BY <2>1, <2>2, <2>4, CasLeaveJournals
  <1>11. ASSUME CallFails(w) \/ Refused(w) PROVE Journals(w)
    <2>1. UNCHANGED row /\ (Go(w, "retry") \/ GoUnsafe(w, "unsafe"))
      BY <1>11 DEF CallFails, Refused, journal
    <2> QED
      BY <2>1, GoJournals, UnsafeJournals DEF Places, ErrorCodes
  <1>12. ASSUME Reread(w) PROVE Journals(w)
    <2>1. UNCHANGED row
      BY <1>12 DEF Reread
    <2>2. \E p \in Places: Go(w, p)
      BY <1>12 DEF Reread, Places
    <2> QED
      BY <2>1, <2>2, GoJournals
  <1>13. ASSUME Record(w) PROVE Journals(w)
    <2> DEFINE a == At(w)
               r == IF worker[w].place = "record_unsafe" THEN Attention(row[a], worker[w].error)
                    ELSE Failed(row[a], "failed")
    <2>0. /\ a \in Attempts /\ row[a] \in Rows /\ worker[w].error \in ErrorCodes
          /\ worker[w].place # "idle" /\ Leave(w)
      BY <1>a, <1>13 DEF Record, WorkerStates
    <2>1. UNCHANGED row \/ row' = [row EXCEPT ![a] = r]
      BY <1>13 DEF Record, Write
    <2>2. r \in Rows /\ ~r.live /\ r.state \in {"needs_attention", row[a].state}
      <3> DEFINE s == row[a]
                 e == worker[w].error
      <3>1. Attention(s, e) \in Rows /\ Failed(s, "failed") \in Rows
        BY <2>0, RowTypesOf DEF ErrorCodes
      <3>2. /\ ~Attention(s, e).live /\ Attention(s, e).state = "needs_attention"
            /\ ~Failed(s, "failed").live /\ Failed(s, "failed").state = s.state
        BY SMTT(30), <2>0, RowFields, RowLeases DEF ErrorCodes
      <3> QED
        BY <3>1, <3>2
    <2> HIDE DEF r
    <2> QED
      BY <2>0, <2>1, <2>2, LeaveJournals
  <1> QED
    BY <1>1, <1>2, <1>3, <1>4, <1>5, <1>6, <1>7, <1>8, <1>9, <1>10, <1>11, <1>12, <1>13
       DEF WorkerStep

\* What it reaches beyond the journal: bytes go, a client's record goes, of the attempt it is at.
Reaches(w) ==
  /\ UNCHANGED <<owner, task, tried, bundle, orphan, crashes, lapses>>
  /\ \A a \in Attempts: /\ disk'[a] = disk[a] \/ (At(w) = a /\ disk'[a] = "empty")
                        /\ job'[a] = job[a] \/ job'[a] = "gone"

\* No step of a worker reaches farther.
LEMMA WorkerReaches ==
  ASSUME Typed, NEW w \in Workers, WorkerStep(w)
  PROVE  Reaches(w)
  <1>a. disk \in [Attempts -> {"empty", "files"}] /\ job \in [Attempts -> JobStates]
    BY ZenonT(30) DEF Typed, RestOK
  <1>1. CleanupFrame
    BY DEF WorkerStep, Claim, Begin, Barrier, Inspect, Evidence, Abort, Absence, Remove, Removed,
           Discard, Complete, Recheck, AttentionDiscard, AttentionSettles, CallFails, Refused,
           Reread, Record
  <1>2. ASSUME UNCHANGED client PROVE Reaches(w)
    BY <1>1, <1>2 DEF Reaches, client, CleanupFrame, download
  <1>3. ASSUME Remove(w) PROVE Reaches(w)
    BY <1>1, <1>3, <1>a DEF Reaches, Remove, CleanupFrame, download
  <1>4. ASSUME Abort(w) \/ Discard(w) \/ AttentionDiscard(w) PROVE Reaches(w)
    <2>1. UNCHANGED disk
      BY <1>4 DEF Abort, Discard, AttentionDiscard
    <2>2. job' = job \/ job' = [job EXCEPT ![At(w)] = "gone"]
      BY <1>4 DEF Abort, Discard, AttentionDiscard, JobDiscarded
    <2> QED
      BY <1>1, <1>a, <2>1, <2>2 DEF Reaches, CleanupFrame, download
  <1> QED
    BY <1>2, <1>3, <1>4
       DEF WorkerStep, Claim, Begin, Barrier, Inspect, Evidence, Absence, Removed, Complete,
           Recheck, AttentionSettles, CallFails, Refused, Reread, Record

\* A worker takes up only attempts that nobody else is at, and keeps to those it has.
LEMMA WorkerUndisturbed ==
  ASSUME Typed, Undisturbed, NEW w \in Workers, WorkerStep(w)
  PROVE  Undisturbed'
  <1>1. Journals(w) /\ Reaches(w)
    BY WorkerJournals, WorkerReaches
  <1> SUFFICES ASSUME NEW a \in Attempts PROVE Downloaded(a)' /\ Attended(a)'
    BY DEF Undisturbed
  <1>2. Attends(w, a) /\ Downloaded(a) /\ Attended(a)
    BY <1>1 DEF Undisturbed, Journals
  <1>3. UNCHANGED <<owner, task, tried, bundle, orphan>>
    BY <1>1 DEF Reaches
  <1>4. Works(w, a) => owner[a] \in {"idle", "switching"} /\ row[a].state # "absent"
    BY <1>2 DEF Attended
  <1>5. /\ row'[a].state = row[a].state \/ Works(w, a)
        /\ row'[a].state = "absent" => row[a].state = "absent"
    BY <1>2, <1>4 DEF Attends, Takes, Retains, Frees, Works
  <1>6. Downloaded(a)'
    <2>1. job'[a] \in {"none", "active", "between"} => disk'[a] = "empty"
      BY <1>1, <1>2 DEF Reaches, Downloaded
    <2>2. owner[a] \in Owing => row'[a].state = row[a].state
      BY <1>4, <1>5 DEF Owing
    <2>3. row'[a].state # "absent" => row[a].state # "absent"
      BY <1>4, <1>5
    <2> QED
      BY <1>2, <1>3, <2>1, <2>2, <2>3 DEF Downloaded
  <1>7. ASSUME NEW v \in Workers, Works(v, a)'
        PROVE  /\ owner[a] \in {"idle", "switching"} /\ row'[a].state # "absent"
               /\ (row'[a].lease = v /\ row'[a].live) \/ task[a] = "cancelled"
    <2>1. v # w => Works(v, a)
      BY <1>1, <1>7 DEF Journals, Works, At
    <2>2. CASE Takes(w, a)
      BY <1>2, <1>7, <2>1, <2>2, NoWorkerAssumption
         DEF Takes, Claimable, LeaseFree, Attended, Downloaded, Owing, Typed, RestOK, OwnerStates
    <2>3. CASE Retains(w, a)
      BY <1>2, <1>5, <1>7, <2>1, <2>3 DEF Retains, Attended
    <2>4. CASE Frees(w, a)
      <3>1. v # w /\ Works(w, a) /\ Works(v, a)
        BY <1>7, <2>1, <2>4 DEF Frees, Works
      <3> QED
        BY <1>2, <1>5, <3>1 DEF Attended
    <2> QED
      BY <1>2, <2>2, <2>3, <2>4 DEF Attends
  <1>8. row'[a].state = "complete" => ~row'[a].live
    BY <1>2 DEF Attends, Takes, Retains, Frees, Claimable, Attended
  <1>9. orphan = a => row'[a].state = "complete" \/ task[a] = "cancelled"
    BY <1>2, <1>4, NoWorkerAssumption
       DEF Attends, Takes, Retains, Frees, Claimable, Attended, Works
  <1> QED
    BY <1>3, <1>6, <1>7, <1>8, <1>9 DEF Attended

\* A step of one download is about one attempt.
LEMMA OnlyOneMoves ==
  ASSUME Typed, NEW a \in Attempts, DownloadStep(a) \/ Request(a), NEW b \in Attempts, b # a
  PROVE  /\ row'[b] = row[b] /\ bundle'[b] = bundle[b]
         /\ owner'[b] = owner[b] /\ task'[b] = task[b] /\ tried'[b] = tried[b]
         /\ disk'[b] = disk[b] /\ job'[b] = job[b]
  <1>1. owner'[b] = owner[b] /\ task'[b] = task[b] /\ tried'[b] = tried[b]
    BY DEF DownloadStep, Request, HandOff, HandleKnown, JobMoves, StartImport, FinishImport, Abandon,
           Link, OtherCandidateEnds, Reimport, Resume, BundleMoves, Acquire, Cancel, Reacquire,
           JobForgotten, Publish, ResolveBundle, download, Becomes, TaskBecomes, Typed, RestOK
  <1>2. disk'[b] = disk[b] /\ job'[b] = job[b]
    BY DEF DownloadStep, Request, HandOff, HandleKnown, JobMoves, StartImport, FinishImport, Abandon,
           Link, OtherCandidateEnds, Reimport, Resume, BundleMoves, Acquire, Cancel, Reacquire,
           JobForgotten, Publish, ResolveBundle, client, Typed, RestOK
  <1>3. bundle'[b] = bundle[b]
    BY DEF DownloadStep, Request, HandOff, HandleKnown, JobMoves, StartImport, FinishImport, Abandon,
           Link, OtherCandidateEnds, Reimport, Resume, BundleMoves, Acquire, Cancel, Reacquire,
           JobForgotten, Publish, ResolveBundle, Typed, RestOK
  <1>4. row'[b] = row[b]
    BY DEF DownloadStep, Request, HandOff, HandleKnown, JobMoves, StartImport, FinishImport, Abandon,
           Link, OtherCandidateEnds, Reimport, Resume, BundleMoves, Acquire, Cancel, Reacquire,
           JobForgotten, Publish, ResolveBundle, Schedule, Write, Typed, JournalOK
  <1> QED
    BY <1>1, <1>2, <1>3, <1>4

\* A step on the side of the download of a leaves everything of another attempt alone.
LEMMA OnlyOneDisturbed ==
  ASSUME Typed, Undisturbed, NEW a \in Attempts, DownloadStep(a) \/ Request(a),
         Downloaded(a)', Attended(a)'
  PROVE  Undisturbed'
  <1>1. UNCHANGED <<worker, orphan>>
    BY DEF DownloadStep, Request, HandOff, HandleKnown, JobMoves, StartImport, FinishImport, Abandon,
           Link, OtherCandidateEnds, Reimport, Resume, BundleMoves, Acquire, Cancel, Reacquire,
           JobForgotten, Publish, ResolveBundle, DownloadFrame
  <1> SUFFICES ASSUME NEW b \in Attempts, b # a PROVE Downloaded(b)' /\ Attended(b)'
    BY DEF Undisturbed
  <1> QED
    BY <1>1, OnlyOneMoves DEF Undisturbed, Downloaded, Attended, Works, At

\* What scheduling makes of a row.
LEMMA ScheduleLease ==
  ASSUME Typed, NEW a \in Attempts, NEW d \in {"discard", "preserve"}, NEW B \in SUBSET Plans,
         Schedule(a, d, B), row[a].state = "complete" => ~row[a].live
  PROVE  /\ row'[a].state = "complete" => ~row'[a].live
         /\ row'[a].state = "absent" <=> row[a].state = "absent"
         /\ row[a].state = "complete" => row'[a].state = "complete"
  <1>1. row[a] \in Rows /\ row'[a] = Scheduled(row[a], d, B)
    BY DEF Schedule, Write, Typed, JournalOK
  <1>2. CASE CanSchedule(row[a])
    BY <1>1, <1>2, ScheduledFields, ScheduledLease DEF CanSchedule
  <1>3. CASE ~CanSchedule(row[a])
    BY <1>1, <1>3 DEF Scheduled
  <1> QED
    BY <1>2, <1>3

\* The download's own steps keep its side, and wake no worker.
LEMMA DownloadUndisturbed ==
  ASSUME Typed, Undisturbed, NEW a \in Attempts, DownloadStep(a) \/ Request(a)
  PROVE  Downloaded(a)' /\ Attended(a)'
  <1>0. Downloaded(a) /\ Attended(a)
    BY DEF Undisturbed
  <1>a. /\ owner[a] \in Owing => \A w \in Workers: ~Works(w, a)
        /\ owner[a] \in Owing => orphan # a
    BY <1>0 DEF Downloaded, Attended, Owing
  <1>b. row[a] \in Rows
    BY DEF Typed, JournalOK
  <1>1. ASSUME Acquire(a) PROVE Downloaded(a)' /\ Attended(a)'
    <2>1. /\ row'[a].state = "acquiring" /\ owner'[a] = "enqueuing" /\ tried[a] = {}
          /\ \A w \in Workers: ~Works(w, a)
          /\ orphan # a /\ task[a] = "active"
      BY <1>0, <1>1, <1>b, RowFields
         DEF Acquire, Write, Becomes, Downloaded, Attended, Importing, Typed, RestOK, JournalOK
    <2>2. UNCHANGED <<task, tried, bundle, client, worker, orphan>>
      BY <1>1 DEF Acquire, DownloadFrame
    <2> QED
      BY <1>0, <2>1, <2>2 DEF Downloaded, Attended, Works, At, client, Owing
  <1>2. ASSUME HandOff(a) \/ JobMoves(a) \/ JobForgotten(a) PROVE Downloaded(a)' /\ Attended(a)'
    <2>1. UNCHANGED <<row, owner, task, tried, bundle, worker, orphan>>
      BY <1>2 DEF HandOff, JobMoves, JobForgotten, DownloadFrame, download
    <2>2. job'[a] \in {"none", "active", "between"} => disk'[a] = "empty"
      BY <1>0, <1>2 DEF HandOff, JobMoves, JobForgotten, Downloaded, Typed, RestOK
    <2> QED
      BY <1>0, <2>1, <2>2 DEF Downloaded, Attended, Works, At
  <1>3. ASSUME HandleKnown(a) PROVE Downloaded(a)' /\ Attended(a)'
    <2>1. row'[a].state = "in_use" /\ owner'[a] = "polling" /\ owner[a] = "enqueuing"
      BY <1>3, <1>b, RowFields
         DEF HandleKnown, Write, Becomes, Typed, RestOK, JournalOK
    <2>2. UNCHANGED <<task, tried, bundle, client, worker, orphan>>
      BY <1>3 DEF HandleKnown, DownloadFrame
    <2> QED
      BY <1>0, <1>a, <2>1, <2>2 DEF Downloaded, Attended, Works, At, client, Owing, Importing
  <1>4. ASSUME StartImport(a) \/ Reimport(a) PROVE Downloaded(a)' /\ Attended(a)'
    <2>1. /\ owner[a] \in Owing \ {"idle"} /\ owner'[a] \in Importing \intersect Owing
          /\ task'[a] = task[a] \/ task'[a] = "active"
      BY <1>4 DEF StartImport, Reimport, Becomes, TaskBecomes, Typed, RestOK, Owing, Importing
    <2>2. UNCHANGED <<row, tried, bundle, client, worker, orphan>>
      BY <1>4 DEF StartImport, Reimport, DownloadFrame
    <2> QED
      BY <1>0, <1>a, <2>1, <2>2 DEF Downloaded, Attended, Works, At, client, Owing, Importing
  <1>5. ASSUME NEW p \in Plans, Publish(a, p) PROVE Downloaded(a)' /\ Attended(a)'
    <2>1. /\ tried[a] = {} /\ tried'[a] = {p} /\ owner[a] \in Importing
          /\ \A q \in Plans: q # p => bundle'[a][q] = bundle[a][q]
      BY <1>5 DEF Publish, Typed, RestOK, Importing
    <2>2. UNCHANGED <<row, owner, task, client, worker, orphan>>
      BY <1>5 DEF Publish, DownloadFrame
    <2> QED
      BY <1>0, <2>1, <2>2 DEF Downloaded, Attended, Works, At, client
  <1>6. ASSUME NEW p \in Plans, BundleMoves(a, p) \/ ResolveBundle(a, p)
        PROVE  Downloaded(a)' /\ Attended(a)'
    <2>1. /\ \A q \in Plans: bundle'[a][q] = "publishing" => bundle[a][q] = "publishing"
          /\ disk'[a] = disk[a] \/ disk'[a] = "empty"
      BY <1>6 DEF BundleMoves, ResolveBundle, client, Typed, RestOK
    <2>2. UNCHANGED <<row, owner, task, tried, job, worker, orphan>>
      BY <1>6 DEF BundleMoves, ResolveBundle, DownloadFrame, download, client
    <2> QED
      BY <1>0, <2>1, <2>2 DEF Downloaded, Attended, Works, At
  <1>7. ASSUME FinishImport(a) PROVE Downloaded(a)' /\ Attended(a)'
    <2>1. PICK B \in SUBSET Plans, d \in {"discard", "preserve"}: Schedule(a, d, B)
      BY <1>7 DEF FinishImport, Typed, RestOK
    <2>2. /\ owner[a] \in Owing /\ tried'[a] = {}
          /\ \A p \in Plans: bundle[a][p] # "publishing"
          /\ \/ owner'[a] = "idle" /\ task'[a] \in {"failed", "completed"}
             \/ owner'[a] = "switching" /\ task'[a] = task[a]
      BY <1>0, <1>7
         DEF FinishImport, Becomes, TaskBecomes, Typed, RestOK, Owing, Downloaded
    <2>3. UNCHANGED <<bundle, client, worker, orphan>>
      BY <1>7 DEF FinishImport, DownloadFrame
    <2> QED
      BY <1>0, <1>a, <2>1, <2>2, <2>3, ScheduleLease
         DEF Downloaded, Attended, Works, At, client, Owing
  <1>8. ASSUME Abandon(a) PROVE Downloaded(a)' /\ Attended(a)'
    <2>1. PICK d \in {"discard", "preserve"}: Schedule(a, d, {})
      BY <1>8 DEF Abandon
    <2>2. /\ owner[a] \in Owing \ Importing
          /\ \/ owner'[a] = "idle" /\ task'[a] = "failed"
             \/ owner'[a] = "switching" /\ task'[a] = task[a]
      BY <1>8 DEF Abandon, Becomes, TaskBecomes, Typed, RestOK, Owing, Importing
    <2>3. UNCHANGED <<tried, bundle, client, worker, orphan>>
      BY <1>8 DEF Abandon, DownloadFrame
    <2> QED
      BY <1>0, <1>a, <2>1, <2>2, <2>3, ScheduleLease
         DEF Downloaded, Attended, Works, At, client, Owing
  <1>9. ASSUME Link(a) \/ OtherCandidateEnds(a) PROVE Downloaded(a)' /\ Attended(a)'
    <2>1. /\ \/ owner[a] = "switching" /\ owner'[a] = "idle"
             \/ owner'[a] = owner[a] /\ task[a] = "moved"
          /\ task'[a] \in {"moved", "failed", "completed"}
      BY <1>9 DEF Link, OtherCandidateEnds, Becomes, TaskBecomes, Typed, RestOK
    <2>2. UNCHANGED <<row, tried, bundle, client, worker, orphan>>
      BY <1>9 DEF Link, OtherCandidateEnds, DownloadFrame
    <2> QED
      BY <1>0, <2>1, <2>2 DEF Downloaded, Attended, Works, At, client, Owing, Importing
  <1>10. ASSUME Cancel(a) PROVE Downloaded(a)' /\ Attended(a)'
    <2>1. PICK B \in SUBSET Plans, d \in {"discard", "preserve"}: Schedule(a, d, B)
      BY <1>10 DEF Cancel
    <2>2. /\ task'[a] = "cancelled" /\ owner'[a] = "idle" /\ tried'[a] = {}
          /\ \A p \in Plans: bundle[a][p] # "publishing"
      BY <1>0, <1>10 DEF Cancel, Becomes, TaskBecomes, Typed, RestOK, Downloaded
    <2>3. UNCHANGED <<bundle, client, worker, orphan>>
      BY <1>10 DEF Cancel, DownloadFrame
    <2> QED
      BY <1>0, <2>1, <2>2, <2>3, ScheduleLease
         DEF Downloaded, Attended, Works, At, client, Owing
  <1>11. ASSUME Reacquire(a) PROVE Downloaded(a)' /\ Attended(a)'
    <2>1. /\ row'[a].state = "in_use" /\ owner'[a] = "reacquired" /\ owner[a] = "idle"
          /\ task[a] = "failed"
      BY <1>11, <1>b, RowFields
         DEF Reacquire, Write, Becomes, Typed, RestOK, JournalOK
    <2>2. UNCHANGED <<task, tried, bundle, client, worker, orphan>>
      BY <1>11 DEF Reacquire, DownloadFrame
    <2>3. (\A w \in Workers: ~Works(w, a)) /\ orphan # a
      BY <1>0, <1>11, NoWorkerAssumption DEF Reacquire, CanReacquire, LeaseFree, Attended
    <2> QED
      BY <1>0, <2>1, <2>2, <2>3 DEF Downloaded, Attended, Works, At, client, Owing, Importing
  <1>12. ASSUME Resume(a) PROVE FALSE
    BY <1>0, <1>12 DEF Resume, Downloaded
  <1> QED
    BY <1>1, <1>2, <1>3, <1>4, <1>5, <1>6, <1>7, <1>8, <1>9, <1>10, <1>11, <1>12
       DEF DownloadStep, Request

\* Time: a lease does not run out under a worker that has its attempt in hand.
LEMMA ClockUndisturbed ==
  ASSUME MaxLapses = 0, Typed, Undisturbed, NEW a \in Attempts, LeaseExpires(a) \/ DueElapses(a)
  PROVE  Undisturbed'
  <1>1. UNCHANGED <<owner, task, tried, bundle, disk, job, worker, orphan>>
    BY DEF LeaseExpires, DueElapses, CleanupFrame, download, client
  <1>2. /\ \A b \in Attempts: b # a => row'[b] = row[b]
        /\ row'[a].state = row[a].state /\ row'[a].lease = row[a].lease
        /\ \/ row'[a].live = row[a].live
           \/ ~row'[a].live /\ row[a].live /\ ~Works(row[a].lease, a)
    <2>1. row[a] \in Rows /\ row \in [Attempts -> Rows] /\ lapses \in 0..0
      BY DEF Typed, JournalOK, RestOK
    <2>2. CASE LeaseExpires(a)
      <3>1. ~Works(row[a].lease, a) /\ row[a].live
        BY <2>1, <2>2 DEF LeaseExpires, Works
      <3>2. row' = [row EXCEPT ![a] = [row[a] EXCEPT !.live = FALSE]]
        BY <2>1, <2>2 DEF LeaseExpires
      <3> QED
        BY <2>1, <3>1, <3>2 DEF Rows
    <2>3. CASE DueElapses(a)
      <3> DEFINE r == row[a]
                 d == [r EXCEPT !.due = TRUE]
      <3>1. row' = [row EXCEPT ![a] = d]
        BY <2>1, <2>3 DEF DueElapses
      <3>2. d.state = r.state /\ d.lease = r.lease /\ d.live = r.live
        BY <2>1 DEF Rows
      <3> HIDE DEF d
      <3> QED
        BY <2>1, <3>1, <3>2
    <2> QED
      BY <2>2, <2>3
  <1> SUFFICES ASSUME NEW b \in Attempts PROVE Downloaded(b)' /\ Attended(b)'
    BY DEF Undisturbed
  <1>3. Downloaded(b) /\ Attended(b) /\ row'[b].state = row[b].state
    BY <1>2 DEF Undisturbed
  <1>4. Downloaded(b)'
    BY <1>1, <1>3 DEF Downloaded
  <1>5. Attended(b)'
    BY <1>1, <1>2, <1>3 DEF Attended, Works, At
  <1> QED
    BY <1>4, <1>5

\* The sweep keeps to folders whose attempt nobody will take up again.
LEMMA SweepUndisturbed ==
  ASSUME Typed, Undisturbed, (\E a \in Attempts: OrphanChoose(a)) \/ OrphanRemove
  PROVE  Undisturbed'
  <1>1. UNCHANGED <<owner, task, tried, bundle, row, worker>>
    BY DEF OrphanChoose, OrphanRemove, journal, download
  <1>2. \A b \in Attempts: /\ disk'[b] = disk[b] \/ disk'[b] = "empty"
                           /\ job'[b] = job[b] \/ job'[b] = "gone"
    BY DEF OrphanChoose, OrphanRemove, JobDiscarded, client, Typed, RestOK
  <1>3. \A b \in Attempts: orphan' = b => row[b].state = "complete"
    BY NoAttemptAssumption DEF OrphanChoose, OrphanRemove
  <1> SUFFICES ASSUME NEW b \in Attempts PROVE Downloaded(b)' /\ Attended(b)'
    BY DEF Undisturbed
  <1> QED
    BY <1>1, <1>2, <1>3 DEF Undisturbed, Downloaded, Attended, Works, At

\* At the start no attempt has been made.
LEMMA UndisturbedInit == Init => Undisturbed
  <1> SUFFICES ASSUME Init, NEW a \in Attempts PROVE Downloaded(a) /\ Attended(a)
    BY DEF Undisturbed
  <1>1. \A w \in Workers: ~Works(w, a)
    BY NoAttemptAssumption DEF Init, Works, At, Idle
  <1>2. row[a].state = "absent" /\ ~row[a].live
    BY DEF Init, AbsentRow
  <1> QED
    BY <1>1, <1>2, NoAttemptAssumption DEF Init, Downloaded, Attended, Owing

\* Together: Undisturbed is inductive, given the types.
LEMMA UndisturbedNext ==
  ASSUME MaxCrashes = 0, MaxLapses = 0, Typed, Undisturbed, [Next]_vars
  PROVE  Undisturbed'
  <1>1. ~Interrupted
    BY DEF Interrupted, Typed, RestOK
  <1>2. ASSUME NEW w \in Workers, WorkerStep(w) PROVE Undisturbed'
    BY <1>2, WorkerUndisturbed
  <1>3. ASSUME NEW a \in Attempts, DownloadStep(a) \/ Request(a) PROVE Undisturbed'
    BY <1>3, DownloadUndisturbed, OnlyOneDisturbed
  <1>4. ASSUME NEW a \in Attempts, LeaseExpires(a) \/ DueElapses(a) PROVE Undisturbed'
    BY <1>4, ClockUndisturbed
  <1>5. ASSUME (\E a \in Attempts: OrphanChoose(a)) \/ OrphanRemove PROVE Undisturbed'
    BY <1>5, SweepUndisturbed
  <1>6. ASSUME Crash \/ \E w \in Workers: Killed(w) PROVE FALSE
    BY <1>1, <1>6 DEF Crash, Killed
  <1>7. ASSUME UNCHANGED vars PROVE Undisturbed'
    BY <1>7 DEF vars, Undisturbed, Downloaded, Attended, Works, At
  <1> QED
    BY <1>2, <1>3, <1>4, <1>5, <1>6, <1>7 DEF Next

\* Who takes bytes away finds no publication of them, or is the publisher.
LEMMA NothingPublishedIsLost ==
  ASSUME MaxCrashes = 0, Typed, Undisturbed, [Next]_vars, NEW a \in Attempts, Lost(a)
  PROVE  \A p \in Plans: bundle[a][p] # "publishing"
  <1>0. Downloaded(a) /\ Attended(a)
    BY DEF Undisturbed
  <1>1. SUFFICES owner[a] \notin Importing
    BY <1>0, <1>1 DEF Downloaded
  <1>2. ASSUME NEW w \in Workers, WorkerStep(w) PROVE owner[a] \notin Importing
    <2>1. At(w) = a
      BY <1>2, WorkerReaches DEF Reaches, Lost
    <2> QED
      BY <1>0, <1>2, <2>1 DEF Attended, Works, Importing
  <1>3. ASSUME OrphanRemove PROVE owner[a] \notin Importing
    <2>1. orphan = a
      BY <1>3 DEF OrphanRemove, Lost, client, Typed, RestOK
    <2> QED
      BY <1>0, <2>1 DEF Downloaded, Attended, Owing, Importing
  <1>4. ASSUME NEW b \in Attempts, JobMoves(b) PROVE FALSE
    <2>1. b = a /\ job[a] \in {"active", "between"}
      BY <1>4 DEF JobMoves, Lost, Typed, RestOK
    <2> QED
      BY <1>0, <2>1 DEF Downloaded, Lost
  <1>5. ASSUME NEW b \in Attempts, NEW p \in Plans, BundleMoves(b, p) PROVE FALSE
    <2>1. bundle'[b][p] # bundle[b][p]
      BY <1>5 DEF BundleMoves, Typed, RestOK
    <2> QED
      BY <2>1 DEF Lost
  <1>6. UNCHANGED disk => FALSE
    BY DEF Lost
  <1>7. ASSUME NEW b \in Attempts, (DownloadStep(b) \/ Request(b)), ~JobMoves(b),
               \A p \in Plans: ~BundleMoves(b, p)
        PROVE  UNCHANGED disk
    BY <1>7
       DEF DownloadStep, Request, HandOff, HandleKnown, StartImport, FinishImport, Abandon, Link,
           OtherCandidateEnds, Reimport, Resume, Acquire, Cancel, Reacquire, JobForgotten, Publish,
           ResolveBundle, client
  <1>8. ASSUME \/ (\E b \in Attempts: OrphanChoose(b) \/ LeaseExpires(b) \/ DueElapses(b))
               \/ Crash
               \/ (\E w \in Workers: Killed(w))
               \/ UNCHANGED vars
        PROVE  UNCHANGED disk
    BY <1>8 DEF OrphanChoose, LeaseExpires, DueElapses, CleanupFrame, Crash, Killed, client, vars
  <1> QED
    BY <1>2, <1>3, <1>4, <1>5, <1>6, <1>7, <1>8 DEF Next

\* Neither a cleanup nor the sweep takes the source bytes from under a publication that is being
\* prepared from them, as long as the process is not restarted and no lease runs out under the
\* worker that holds it: with either, a worker or a bundle outlives what protected it.
THEOREM SourceStays ==
  ASSUME MaxCrashes = 0, MaxLapses = 0
  PROVE  Spec => SourceStaysWhilePublishing
  <1>1. Init => Typed /\ Undisturbed
    BY TypedInit, UndisturbedInit
  <1>2. Typed /\ Undisturbed /\ [Next]_vars => (Typed /\ Undisturbed)'
    BY TypedNext, UndisturbedNext
  <1>3. Typed /\ Undisturbed /\ [Next]_vars =>
          [\A a \in Attempts: Lost(a) => \A p \in Plans: bundle[a][p] # "publishing"]_vars
    BY NothingPublishedIsLost
  <1> QED
    BY <1>1, <1>2, <1>3, PTL DEF Spec, SourceStaysWhilePublishing
-----------------------------------------------------------------------------
(* The rows that say that live work holds the attempt.                      *)

\* A row in force has an owner that is to settle it.
Held(a) == row[a].state \in {"acquiring", "in_use"} => owner[a] \in Owing

\* Scheduling puts the row out of force, or finds it so.
LEMMA ScheduleLetsGo ==
  ASSUME Typed, NEW a \in Attempts, NEW d \in {"discard", "preserve"}, NEW B \in SUBSET Plans,
         Schedule(a, d, B)
  PROVE  row'[a].state \notin {"acquiring", "in_use"}
  <1>1. row[a] \in Rows /\ row'[a] = Scheduled(row[a], d, B)
    BY DEF Schedule, Write, Typed, JournalOK
  <1>2. CASE CanSchedule(row[a])
    BY <1>1, <1>2, ScheduledFields
  <1>3. CASE ~CanSchedule(row[a])
    BY <1>1, <1>3 DEF Scheduled, CanSchedule
  <1> QED
    BY <1>2, <1>3

\* What the download does to its own attempt: whoever lets go of it has scheduled it.
LEMMA DownloadHolds ==
  ASSUME Typed, NEW a \in Attempts, Held(a), DownloadStep(a) \/ Request(a)
  PROVE  Held(a)'
  <1>1. ASSUME Acquire(a) \/ HandleKnown(a) \/ Reacquire(a) PROVE Held(a)'
    <2>1. owner'[a] \in {"enqueuing", "polling", "reacquired"}
      BY <1>1 DEF Acquire, HandleKnown, Reacquire, Becomes, Typed, RestOK
    <2> QED
      BY <2>1 DEF Held, Owing
  <1>2. ASSUME StartImport(a) \/ Reimport(a) \/ Resume(a) PROVE Held(a)'
    <2>1. owner'[a] \in {"importing", "reimporting", "polling"}
      BY <1>2 DEF StartImport, Reimport, Resume, Becomes, Typed, RestOK
    <2> QED
      BY <2>1 DEF Held, Owing
  <1>3. ASSUME FinishImport(a) \/ Abandon(a) \/ Cancel(a) PROVE Held(a)'
    <2>1. \E d \in {"discard", "preserve"}, B \in SUBSET Plans: Schedule(a, d, B)
      BY <1>3 DEF FinishImport, Abandon, Cancel, Typed, RestOK
    <2> QED
      BY <2>1, ScheduleLetsGo DEF Held
  <1>4. ASSUME Link(a) PROVE Held(a)'
    BY <1>4 DEF Link, Held, Owing
  <1>5. ASSUME \/ HandOff(a) \/ JobMoves(a) \/ JobForgotten(a) \/ OtherCandidateEnds(a)
               \/ \E p \in Plans: Publish(a, p) \/ BundleMoves(a, p) \/ ResolveBundle(a, p)
        PROVE  Held(a)'
    <2>1. UNCHANGED <<row, owner>>
      BY <1>5 DEF HandOff, JobMoves, JobForgotten, OtherCandidateEnds, Publish, BundleMoves,
                  ResolveBundle, download
    <2> QED
      BY <2>1 DEF Held
  <1> QED
    BY <1>1, <1>2, <1>3, <1>4, <1>5 DEF DownloadStep, Request

\* Any step that is not a restart.
LEMMA HeldNext ==
  ASSUME MaxCrashes = 0, Typed, [Next]_vars, NEW a \in Attempts, Held(a)
  PROVE  Held(a)'
  <1>1. ~Interrupted
    BY DEF Interrupted, Typed, RestOK
  <1>2. ASSUME NEW w \in Workers, WorkerStep(w) PROVE Held(a)'
    <2>1. Attends(w, a) /\ UNCHANGED owner
      BY <1>2, WorkerJournals, WorkerReaches DEF Journals, Reaches
    <2> QED
      BY <2>1 DEF Attends, Takes, Retains, Frees, Held
  <1>3. ASSUME NEW b \in Attempts, DownloadStep(b) \/ Request(b) PROVE Held(a)'
    <2>1. CASE b = a
      BY <1>3, <2>1, DownloadHolds
    <2>2. CASE b # a
      BY <1>3, <2>2, OnlyOneMoves DEF Held
    <2> QED
      BY <2>1, <2>2
  <1>4. ASSUME NEW b \in Attempts, LeaseExpires(b) \/ DueElapses(b) PROVE Held(a)'
    <2> DEFINE r == row[b]
    <2>a. r \in Rows
      BY DEF Typed, JournalOK
    <2>1. row'[b] \in {[r EXCEPT !.live = FALSE], [r EXCEPT !.due = TRUE]}
          /\ (a # b => row'[a] = row[a])
      BY <1>4 DEF LeaseExpires, DueElapses, Typed, JournalOK
    <2>2. [r EXCEPT !.live = FALSE].state = r.state /\ [r EXCEPT !.due = TRUE].state = r.state
      <3> HIDE DEF r
      <3> QED
        BY <2>a DEF Rows
    <2>3. row'[a].state = row[a].state
      BY <2>1, <2>2
    <2> QED
      BY <1>4, <2>3 DEF LeaseExpires, DueElapses, CleanupFrame, download, Held
  <1>5. ASSUME (\E b \in Attempts: OrphanChoose(b)) \/ OrphanRemove \/ UNCHANGED vars
        PROVE  Held(a)'
    BY <1>5 DEF OrphanChoose, OrphanRemove, journal, download, vars, Held
  <1>6. ASSUME Crash \/ \E w \in Workers: Killed(w) PROVE FALSE
    BY <1>1, <1>6 DEF Crash, Killed
  <1> QED
    BY <1>2, <1>3, <1>4, <1>5, <1>6 DEF Next

\* "acquiring/in_use mean live work" (has_download_cleanup_debt) is what the code keeps between
\* two restarts: a row that says so has its enqueue, its runner or its re-import at it, whatever
\* the client, the cleanup and the leases do meanwhile.  A restart is what breaks it.
THEOREM LiveRowsAreHeld ==
  ASSUME MaxCrashes = 0
  PROVE  Spec => []InUseMeansLiveWork
  <1> DEFINE AllHeld == \A a \in Attempts: Held(a)
  <1>1. Init => Typed /\ AllHeld
    <2>1. ASSUME Init, NEW a \in Attempts PROVE Held(a)
      BY <2>1 DEF Init, AbsentRow, Held
    <2> QED
      BY <2>1, TypedInit
  <1>2. Typed /\ AllHeld /\ [Next]_vars => (Typed /\ AllHeld)'
    BY TypedNext, HeldNext
  <1>3. AllHeld => InUseMeansLiveWork
    BY DEF Held, Owing, InUseMeansLiveWork
  <1> HIDE DEF AllHeld
  <1> QED
    BY <1>1, <1>2, <1>3, PTL DEF Spec
=============================================================================
