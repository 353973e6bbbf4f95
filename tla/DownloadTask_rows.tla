-------------------------- MODULE DownloadTask_rows ---------------------------
(***************************************************************************)
(* How many live rows a download leaves in its journal, what a single      *)
(* request about it may be, which ends are final, and when somebody is     *)
(* left to drive it: proofs about DownloadTask on top of those of          *)
(* DownloadTask_proof.                                                     *)
(***************************************************************************)
EXTENDS DownloadTask_proof, FiniteSetTheorems

\* A live row more than the one that is worked on is owed to a client call that went wrong or
\* to a restart, at most one row to each.
StrayRowsCounted == Cardinality(LiveRows) <= 1 + faults + crashes
-----------------------------------------------------------------------------
(* Counting the live rows.                                                  *)

\* How many there are.
Count == Cardinality(LiveRows)

\* There are finitely many.
LEMMA RowsCount ==
  ASSUME Typed
  PROVE  IsFiniteSet(LiveRows) /\ Count \in Nat
  <1>1. Len(attempts) \in Nat /\ IsFiniteSet(1..Len(attempts))
    BY TypedParts, FS_Interval
  <1>2. LiveRows \in SUBSET (1..Len(attempts))
    BY DEF LiveRows
  <1> QED
    BY <1>1, <1>2, FS_Subset, FS_CardinalityType DEF Count

\* While no row comes to life there are no more of them, ...
LEMMA RowsFewer ==
  ASSUME Typed, Len(attempts') = Len(attempts),
         \A i \in 1..Len(attempts): attempts'[i].state \in Live => attempts[i].state \in Live
  PROVE  Count' \in Nat /\ Count' <= Count
  <1>1. LiveRows' \in SUBSET LiveRows
    BY DEF LiveRows
  <1> QED
    BY <1>1, RowsCount, FS_Subset, FS_CardinalityType DEF Count

\* ... and one less when one goes.
LEMMA RowGone ==
  ASSUME Typed, Len(attempts') = Len(attempts),
         \A i \in 1..Len(attempts): attempts'[i].state \in Live => attempts[i].state \in Live,
         NEW i \in 1..Len(attempts), attempts[i].state \in Live, attempts'[i].state \notin Live
  PROVE  Count' \in Nat /\ Count' + 1 <= Count
  <1>1. LiveRows' \in SUBSET (LiveRows \ {i}) /\ i \in LiveRows
    BY DEF LiveRows
  <1>2. /\ IsFiniteSet(LiveRows \ {i}) /\ Cardinality(LiveRows \ {i}) = Count - 1
    BY <1>1, RowsCount, FS_RemoveElement DEF Count
  <1>3. Count' \in Nat /\ Count' <= Cardinality(LiveRows \ {i})
    BY <1>1, <1>2, FS_Subset, FS_CardinalityType DEF Count
  <1> QED
    BY <1>2, <1>3, RowsCount

\* One row that is added or comes to life is one row more.
LEMMA RowMore ==
  ASSUME Typed, NEW i,
         \A j \in 1..Len(attempts'): j # i /\ attempts'[j].state \in Live =>
           j \in 1..Len(attempts) /\ attempts[j].state \in Live
  PROVE  Count' \in Nat /\ Count' <= Count + 1
  <1>1. LiveRows' \in SUBSET (LiveRows \union {i})
    BY DEF LiveRows
  <1>2. /\ IsFiniteSet(LiveRows \union {i}) /\ Cardinality(LiveRows \union {i}) \in {Count, Count + 1}
    BY RowsCount, FS_AddElement DEF Count
  <1>3. Count' \in Nat /\ Count' <= Cardinality(LiveRows \union {i})
    BY <1>1, <1>2, FS_Subset, FS_CardinalityType DEF Count
  <1> QED
    BY <1>2, <1>3, RowsCount

\* Without a live row there are none to count.
LEMMA RowsNone ==
  ASSUME \A i \in 1..Len(attempts): attempts[i].state \notin Live
  PROVE  Count = 0
  <1>1. LiveRows = {}
    BY DEF LiveRows
  <1> QED
    BY <1>1, FS_EmptySet DEF Count

\* A row that is scheduled for the cleanup is live no more.
LEMMA ScheduleCounts ==
  ASSUME Typed, NEW i \in 0..Len(attempts), NEW disposition \in {"discard", "preserve", "leave"},
         ScheduleRow(i, disposition)
  PROVE  /\ Count' \in Nat /\ Count' <= Count
         /\ i # 0 /\ disposition # "leave" /\ attempts[i].state \in Live => Count' + 1 <= Count
  <1>1. /\ attempts' \in Seq(AttemptRows) /\ Len(attempts') = Len(attempts)
        /\ \A j \in 1..Len(attempts):
              /\ attempts'[j].cand = attempts[j].cand
              /\ j # i \/ disposition = "leave" \/ attempts[j].state = "settled"
                   => attempts'[j] = attempts[j]
              /\ j = i /\ disposition # "leave" /\ attempts[j].state # "settled"
                   => attempts'[j].state = disposition
    BY ScheduleActs, TypedParts
  <1>2. \A j \in 1..Len(attempts): attempts'[j].state \in Live => attempts[j].state \in Live
    <2> TAKE j \in 1..Len(attempts)
    <2>1. CASE j # i \/ disposition = "leave" \/ attempts[j].state = "settled"
      BY <1>1, <2>1
    <2>2. CASE j = i /\ disposition # "leave" /\ attempts[j].state # "settled"
      BY <1>1, <2>2 DEF Live
    <2> QED
      BY <2>1, <2>2
  <1>3. ASSUME i # 0, disposition # "leave", attempts[i].state \in Live PROVE Count' + 1 <= Count
    <2>1. i \in 1..Len(attempts) /\ attempts'[i].state \notin Live
      BY <1>1, <1>3 DEF Live
    <2> QED
      BY <1>1, <1>3, <2>1, RowGone
  <1> QED
    BY <1>1, <1>2, <1>3, RowsFewer

\* The newest live row is preserved when the task is failed.
LEMMA FailTaskCounts ==
  ASSUME Typed, FailTask
  PROVE  Count' \in Nat /\ (Count' = 0 \/ Count' + 1 <= Count)
  <1>1. ScheduleRow(LiveRow, "preserve")
    BY DEF FailTask
  <1>2. /\ LiveRow \in 0..Len(attempts)
        /\ LiveRow # 0 => attempts[LiveRow].state \in Live
        /\ LiveRow = 0 => \A i \in 1..Len(attempts): attempts[i].state \notin Live
    BY RowsFound, TypedParts
  <1>3. /\ Count' \in Nat /\ Count' <= Count /\ (LiveRow # 0 => Count' + 1 <= Count)
    BY <1>1, <1>2, ScheduleCounts
  <1>4. LiveRow = 0 => Count = 0
    BY <1>2, RowsNone
  <1> QED
    BY <1>3, <1>4
-----------------------------------------------------------------------------
(* Who a live row belongs to.                                               *)

\* At most as many live rows as calls went wrong and restarts happened.
Few == Count <= faults + crashes
\* One more than that at most.
Enough == Count <= faults + crashes + 1
\* Sums that both are compared with.
LEMMA Sums ==
  ASSUME NEW n \in Nat, NEW m \in Nat, NEW f \in Nat, NEW g \in Nat, NEW c \in Nat, f <= g
  PROVE  /\ m <= n /\ n <= f + c + 1 => m <= g + c + 1
         /\ m <= n /\ n <= f + c => m <= g + c
         /\ m + 1 <= n /\ n <= f + c + 1 => m <= g + c
         /\ m = 0 => m <= g + c
         /\ m <= n + 1 /\ n <= f + c => m <= g + c + 1
         /\ m <= g + c => m <= g + c + 1
  OBVIOUS

\* The newest row is live, and of that candidate.
Own(c) ==
  Len(attempts) > 0 /\ attempts[Len(attempts)].state \in Live /\ Peer(Len(attempts)) = c

\* The places of a runner that has sent.
Owning == {"handle", "poll", "recheck", "prefer", "process", "import", "decide", "abort",
           "schedule", "finalize"}
\* Those of one that has no attempt.
Bare == {"start", "resume", "search", "prepare", "open", "journal", "outage", "link", "reset"}
\* Those of one that does not rely on the candidate it has read.
Aside == {"idle", "start", "resume", "search", "tidy", "fail"}

\* The row that is one too many is the newest, and the runner's: it has journaled it, the
\* manifest names it if there is one, and its candidate is the task's.
Owned(r) ==
  /\ runner[r].place \in Owning =>
       Few \/ (Own(runner[r].cand) /\ manifest \in {0, Len(attempts)})
  /\ runner[r].place \in {"send", "handle"} =>
       Few \/ (Own(runner[r].cand) /\ runner[r].attempt = Len(attempts))
  /\ runner[r].place \in Bare => Few
  /\ runner[r].place \notin Aside => runner[r].cand = task.cand
  /\ runner[r].disposition = "leave" => runner[r].place \in {"finalize", "tidy"}
  /\ runner[r].place = "finalize" /\ runner[r].disposition = "leave" =>
       runner[r].verdict = "completed"

\* Only what is covered by now is left as it is, and then the download is complete.
LEMMA DecideConcludes ==
  ASSUME Typed, NEW r \in Runners, Decide(r), runner[r].disposition # "leave",
         runner'[r].disposition = "leave"
  PROVE  runner'[r].verdict = "completed"
  <1>1. runner[r] \in RunnerStates /\ runner \in [Runners -> RunnerStates]
    BY TypedParts
  <1>2. CASE landed /\ Concludes(r, "completed", "leave")
    BY <1>2 DEF Concludes
  <1>3. CASE /\ ~landed
             /\ \E verdict \in {"failed", "partial"}: Concludes(r, verdict, runner[r].disposition)
    BY <1>3 DEF Concludes
  <1>4. CASE /\ ~landed /\ MaySwitch
             /\ \E n \in Behind(runner[r].cand):
                  runner' = [runner EXCEPT ![r] = [@ EXCEPT !.next = n,
                    !.place = IF runner[r].outcome = "timeout" THEN "abort" ELSE "schedule"]]
    BY <1>1, <1>4 DEF RunnerStates
  <1> QED
    BY <1>2, <1>3, <1>4 DEF Decide

\* A client call that goes wrong is counted.
LEMMA RunnerStepFaults ==
  ASSUME Typed, NEW r \in Runners, RunnerStep(r)
  PROVE  /\ faults' \in Nat /\ faults <= faults'
         /\ runner[r].place = "send" /\ runner'[r].place = "outage" => faults' = faults + 1
  <1>t. faults \in Nat /\ runner[r] \in RunnerStates /\ runner \in [Runners -> RunnerStates]
    BY SMTT(30), TypedParts
  <1>1. UNCHANGED faults \/ Fault
    BY ZenonT(30) DEF RunnerStep, ProcessTask, ResumeTask, Search, Prepare, Open, Journal, Send, Outage, Handle,
           PollStops, PollGoesOn, PollEnds, PollBreaks, Recheck, Prefer, Process, Import, Decide,
           Abort, Schedule, Link, Reset, Finalize, Tidy, Fail
  <1>2. ASSUME runner[r].place = "send", runner'[r].place = "outage" PROVE Fault
    <2>1. Send(r)
      <3>1. /\ ~ProcessTask(r) /\ ~ResumeTask(r) /\ ~Search(r) /\ ~Prepare(r) /\ ~Open(r)
            /\ ~Journal(r) /\ ~Tidy(r) /\ ~Outage(r) /\ ~Handle(r) /\ ~PollStops(r)
            /\ ~PollGoesOn(r) /\ ~PollEnds(r)
        BY <1>2 DEF ProcessTask, ResumeTask, Search, Prepare, Open, Journal, Outage, Handle,
                    PollStops, PollGoesOn, PollEnds, Tidy
      <3>2. /\ ~PollBreaks(r) /\ ~Recheck(r) /\ ~Prefer(r) /\ ~Process(r) /\ ~Import(r) /\ ~Decide(r)
            /\ ~Abort(r) /\ ~Schedule(r) /\ ~Link(r) /\ ~Reset(r) /\ ~Finalize(r) /\ ~Fail(r)
        BY <1>2 DEF PollBreaks, Recheck, Prefer, Process, Import, Decide, Abort, Schedule, Link,
                    Reset, Finalize, Fail
      <3> QED
        BY <3>1, <3>2 DEF RunnerStep
    <2> DEFINE declined == [runner EXCEPT ![r] = [@ EXCEPT !.place = "decide", !.outcome = "none",
                                                           !.disposition = "discard"]]
    <2>2. runner' = declined \/ Goto(r, "handle") \/ Fault
      BY <2>1 DEF Send
    <2>3. runner' = declined => runner'[r].place = "decide"
      BY <1>t DEF RunnerStates
    <2>4. Goto(r, "handle") => runner'[r].place = "handle"
      BY <1>t DEF Goto, RunnerStates
    <2> QED
      BY <1>2, <2>2, <2>3, <2>4
  <1> QED
    BY <1>t, <1>1, <1>2 DEF Fault

\* The newest row of a candidate is the last one if that is of the candidate.
LEMMA RowOfLast ==
  ASSUME Len(attempts) \in Nat, NEW c, Len(attempts) > 0, attempts[Len(attempts)].cand = c
  PROVE  RowOf(c) = Len(attempts)
  <1> DEFINE S == {i \in 1..Len(attempts): attempts[i].cand = c}
  <1>1. Len(attempts) \in S /\ S \in SUBSET (1..Len(attempts)) /\ S # {}
    OBVIOUS
  <1>2. Newest(S) \in S /\ \A j \in S: j <= Newest(S)
    BY <1>1, NewestIsIn
  <1>3. RowOf(c) = Newest(S)
    BY <1>1 DEF RowOf, NewestOrNone
  <1> QED
    BY <1>1, <1>2, <1>3

\* A runner keeps that, and ends the download only when no row is left over.
LEMMA RunnerStepCounts ==
  ASSUME Typed, NEW r \in Runners, Owned(r), Enough, RunnerStep(r)
  PROVE  /\ Owned(r)' /\ Enough'
         /\ task'.status \in Ended => Few' \/ task.status \in Ended \/ runner[r].status \in Ended
  <1> DEFINE P ==
         /\ Owned(r)' /\ Enough'
         /\ task'.status \in Ended => Few' \/ task.status \in Ended \/ runner[r].status \in Ended
  <1>f. /\ faults \in Nat /\ crashes \in Nat /\ Count \in Nat /\ crashes' = crashes
        /\ faults' \in Nat /\ faults <= faults'
    BY TypedParts, RowsCount, RunnerStepFaults, RunnerStepLives
  <1>g. runner[r].place = "send" /\ runner'[r].place = "outage" => faults' = faults + 1
    BY RunnerStepFaults
  <1>t. Len(attempts) \in Nat
    BY TypedParts
  <1>u. ASSUME UNCHANGED attempts
        PROVE  /\ Count' = Count /\ Enough' /\ (Few => Few') /\ \A i: Peer(i)' = Peer(i)
               /\ runner[r].place = "send" /\ runner'[r].place = "outage" => Few'
    BY <1>f, <1>g, <1>u DEF Count, LiveRows, Few, Enough, Peer
  <1>s. ASSUME Count' \in Nat
        PROVE  /\ Count' <= Count => Enough' /\ (Few => Few')
               /\ Count' + 1 <= Count \/ Count' = 0 => Few'
               /\ Count' <= Count + 1 /\ Few => Enough'
               /\ Few' => Enough'
    <2>1. \A n, m, f, g, c \in Nat:
            f <= g =>
              /\ m <= n /\ n <= f + c + 1 => m <= g + c + 1
              /\ m <= n /\ n <= f + c => m <= g + c
              /\ m + 1 <= n /\ n <= f + c + 1 => m <= g + c
              /\ m = 0 => m <= g + c
              /\ m <= n + 1 /\ n <= f + c => m <= g + c + 1
              /\ m <= g + c => m <= g + c + 1
      BY Sums
    <2>2. /\ Few <=> Count <= faults + crashes
          /\ Few' <=> Count' <= faults' + crashes
          /\ Enough <=> Count <= faults + crashes + 1
          /\ Enough' <=> Count' <= faults' + crashes + 1
      BY <1>f DEF Few, Enough
    <2> QED
      BY <1>f, <1>s, <2>1, <2>2, ZenonT(60)
  <1>1. ASSUME ProcessTask(r) PROVE P
    <2>1. UNCHANGED attempts
      BY <1>1, ProcessTaskActs
    <2>2. /\ runner[r].place = "start" /\ UNCHANGED <<task, manifest, faults>>
          /\ runner'[r].place \in {"prepare", "search", "fail"}
          /\ runner'[r].disposition = runner[r].disposition
          /\ runner'[r].place # "fail" => runner'[r].cand = task.cand
      BY <1>1, ProcessTaskActs DEF Sits, Walks
    <2> QED
      BY <1>u, <2>1, <2>2 DEF Owned, Owning, Bare, Aside
  <1>2. ASSUME ResumeTask(r) PROVE P
    <2>1. UNCHANGED attempts
      BY <1>2, ResumeTaskActs
    <2> QED
      BY ZenonT(60), <1>2, <1>u, <2>1, ResumeTaskActs
         DEF Owned, Own, Owning, Bare, Aside, Sits, Walks
  <1>3. ASSUME Search(r) PROVE P
    <2>1. UNCHANGED attempts
      BY <1>3, SearchActs
    <2> QED
      BY ZenonT(60), <1>3, <1>u, <2>1, SearchActs
         DEF Owned, Own, Owning, Bare, Aside, Ended, Sits, Reads, Ends, Tasked
  <1>4. ASSUME Prepare(r) PROVE P
    <2>1. UNCHANGED attempts
      BY <1>4, PrepareActs
    <2> QED
      BY <1>4, <1>u, <2>1, PrepareActs DEF Owned, Bare, Aside, Sits, Walks, Reads, Polls, Tasked
  <1>5. ASSUME Open(r) PROVE P
    <2>1. UNCHANGED attempts
      BY <1>5, OpenActs
    <2> QED
      BY <1>5, <1>u, OpenActs DEF Owned, Bare, Aside, Sits, Walks, Refused, Tasked
  <1>6. ASSUME Journal(r) PROVE P
    <2>0. /\ runner[r].place = "journal" /\ task' = task /\ Len(attempts') = Len(attempts) + 1
          /\ attempts'[Len(attempts) + 1] = [cand |-> runner[r].cand, state |-> "acquiring"]
          /\ \A i \in 1..Len(attempts): attempts'[i] = attempts[i]
          /\ Sits(r, "send", runner[r].status, runner[r].cand, Len(attempts) + 1,
                  runner[r].outcome, runner[r].next, runner[r].disposition, runner[r].resuming)
      BY <1>6, JournalActs
    <2>6. \A j \in 1..Len(attempts'): j # Len(attempts) + 1 /\ attempts'[j].state \in Live =>
            j \in 1..Len(attempts) /\ attempts[j].state \in Live
      BY <1>t, <2>0
    <2>1. Count' \in Nat /\ Count' <= Count + 1
      BY <2>6, RowMore
    <2>2. Few
      BY <2>0 DEF Owned, Bare
    <2>3. Enough'
      BY <1>s, <2>1, <2>2
    <2>4. /\ runner'[r].attempt = Len(attempts') /\ attempts'[Len(attempts')].state \in Live
          /\ attempts'[Len(attempts')].cand = runner'[r].cand /\ Len(attempts') > 0
      BY <2>0 DEF Sits, Live
    <2>5. /\ runner'[r].place = "send" /\ runner'[r].cand = runner[r].cand
          /\ runner'[r].disposition = runner[r].disposition
      BY <2>0 DEF Sits
    <2> QED
      BY <2>0, <2>3, <2>4, <2>5 DEF Owned, Own, Peer, Owning, Bare, Aside
  <1>7. ASSUME Send(r) PROVE P
    <2>1. UNCHANGED attempts
      BY <1>7, SendActs
    <2> QED
      BY <1>7, <1>u, SendActs DEF Owned, Own, Bare, Aside, Sits, Walks, Refused
  <1>8. ASSUME Outage(r) PROVE P
    <2>1. UNCHANGED attempts
      BY <1>8, OutageActs
    <2> QED
      BY <1>8, <1>u, <2>1, OutageActs
         DEF Owned, Own, Owning, Bare, Aside, Sits, Walks, Ends
  <1>9. ASSUME Handle(r) PROVE P
    <2>0. /\ runner[r].place = "handle" /\ UNCHANGED task
          /\ manifest' \in {manifest, runner[r].attempt} /\ Len(attempts') = Len(attempts)
          /\ \A i \in 1..Len(attempts):
               /\ attempts'[i].cand = attempts[i].cand
               /\ i # runner[r].attempt => attempts'[i] = attempts[i]
          /\ \/ /\ attempts[runner[r].attempt].state \in Live
                /\ attempts'[runner[r].attempt].state = "in_use"
             \/ UNCHANGED attempts
      BY <1>9, HandleActs
    <2>1. /\ runner'[r].place \in {"poll", "fail"} /\ runner'[r].cand = runner[r].cand
          /\ runner'[r].disposition = runner[r].disposition
      BY <1>9, HandleActs DEF Walks, Sits
    <2>2. Count' \in Nat /\ Count' <= Count
      BY <2>0, RowsFewer
    <2>3. Own(runner[r].cand) => Own(runner[r].cand)'
      BY <2>0, <2>1 DEF Own, Peer, Live
    <2> QED
      BY <1>s, <2>0, <2>1, <2>2, <2>3 DEF Owned, Owning, Bare, Aside
  <1>10. ASSUME PollStops(r) PROVE P
    <2>1. UNCHANGED attempts
      BY <1>10, PollStopsActs
    <2> QED
      BY <1>10, <1>u, <2>1, PollStopsActs
         DEF Owned, Own, Owning, Bare, Aside, Sits, Ends
  <1>11. ASSUME PollGoesOn(r) PROVE P
    <2>1. UNCHANGED attempts
      BY <1>11, PollGoesOnActs
    <2> QED
      BY <1>11, <1>u, PollGoesOnActs DEF Owned, Own, Tasked
  <1>12. ASSUME PollEnds(r) PROVE P
    <2>1. UNCHANGED attempts
      BY <1>12, PollEndsActs
    <2> QED
      BY <1>12, <1>u, PollEndsActs DEF Owned, Own, Owning, Bare, Aside, Sits, Tasked
  <1>13. ASSUME PollBreaks(r) PROVE P
    <2>1. UNCHANGED attempts
      BY <1>13, PollBreaksActs
    <2> QED
      BY <1>13, <1>u, PollBreaksActs DEF Owned, Owning, Bare, Aside, Sits, Walks
  <1>14. ASSUME Recheck(r) PROVE P
    <2>1. UNCHANGED attempts
      BY <1>14, RecheckActs
    <2> QED
      BY ZenonT(60), <1>14, <1>u, <2>1, RecheckActs
         DEF Owned, Own, Owning, Bare, Aside, Sits, Walks, Ends
  <1>15. ASSUME Prefer(r) PROVE P
    <2>1. UNCHANGED attempts
      BY <1>15, PreferActs
    <2> QED
      BY <1>15, <1>u, PreferActs
         DEF Owned, Own, Owning, Bare, Aside, Ended, Sits, Walks, Polls, Tasked
  <1>16. ASSUME Process(r) PROVE P
    <2>1. UNCHANGED attempts
      BY <1>16, ProcessActs
    <2> QED
      BY <1>16, <1>u, ProcessActs DEF Owned, Own, Owning, Bare, Aside, Ended, Sits, Walks, Tasked
  <1>17. ASSUME Import(r) PROVE P
    <2>1. UNCHANGED attempts
      BY <1>17, ImportActs
    <2> QED
      BY <1>17, <1>u, <2>1, ImportActs DEF Owned, Own, Owning, Bare, Aside, Sits, Walks, Finishes
  <1>18. ASSUME Decide(r) PROVE P
    <2>1. UNCHANGED attempts /\ UNCHANGED task /\ UNCHANGED manifest
      BY <1>18, DecideActs
    <2>2. /\ runner[r].place = "decide" /\ runner'[r].cand = runner[r].cand
          /\ runner'[r].place \in {"finalize", "abort", "schedule"}
          /\ \/ runner'[r].disposition = runner[r].disposition
             \/ runner'[r].disposition = "leave" /\ runner'[r].place = "finalize"
      BY <1>18, DecideActs DEF Finishes, Sits
    <2>3. runner[r].disposition # "leave"
      BY <2>2 DEF Owned
    <2>4. runner'[r].disposition = "leave" =>
            runner'[r].place = "finalize" /\ runner'[r].verdict = "completed"
      BY <1>18, <2>2, <2>3, DecideConcludes
    <2> QED
      BY <1>u, <2>1, <2>2, <2>4 DEF Owned, Own, Owning, Bare, Aside
  <1>19. ASSUME Abort(r) PROVE P
    <2>1. UNCHANGED attempts
      BY <1>19, AbortActs
    <2> QED
      BY ZenonT(120), <1>19, <1>u, <2>1, AbortActs
         DEF Owned, Own, Owning, Bare, Aside, Sits, Walks, Ends
  <1>20. ASSUME Schedule(r) PROVE P
    <2>1. /\ runner[r].place = "schedule" /\ runner'[r].place = "link"
          /\ runner'[r].cand = runner[r].cand /\ runner'[r].disposition = runner[r].disposition
          /\ ScheduleRow(ManifestRow, runner[r].disposition) /\ ManifestRow \in 0..Len(attempts)
          /\ runner[r].disposition \in {"discard", "preserve", "leave"}
          /\ task' = task
      BY <1>20, ScheduleStepActs, Fields DEF Walks, Sits
    <2>2. /\ Count' \in Nat /\ Count' <= Count
          /\ ManifestRow # 0 /\ runner[r].disposition # "leave" /\ attempts[ManifestRow].state \in Live =>
               Count' + 1 <= Count
      BY <2>1, ScheduleCounts
    <2>3. Few \/ (Own(runner[r].cand) /\ manifest \in {0, Len(attempts)})
      BY <2>1 DEF Owned, Owning
    <2>4. ASSUME ~Few PROVE ManifestRow # 0 /\ attempts[ManifestRow].state \in Live
      <3>1. /\ Len(attempts) > 0 /\ attempts[Len(attempts)].state \in Live
            /\ attempts[Len(attempts)].cand = runner[r].cand /\ manifest \in {0, Len(attempts)}
        BY <2>3, <2>4 DEF Own, Peer
      <3>2. LiveRow # 0 /\ attempts[LiveRow].state \in Live
        BY <3>1, RowsFound, TypedParts
      <3> QED
        BY <3>1, <3>2 DEF ManifestRow
    <2>5. runner[r].disposition # "leave"
      BY <2>1 DEF Owned
    <2>6. Few'
      <3>1. CASE Few
        BY <1>s, <2>2, <3>1
      <3>2. CASE ~Few
        BY <1>s, <2>2, <2>4, <2>5
      <3> QED
        BY <3>1, <3>2
    <2> QED
      BY <1>s, <2>1, <2>2, <2>6 DEF Owned, Aside
  <1>21. ASSUME Link(r) PROVE P
    <2>1. UNCHANGED attempts
      BY <1>21, LinkActs
    <2> QED
      BY <1>21, <1>u, <2>1, LinkActs
         DEF Owned, Own, Owning, Bare, Aside, Ended, Sits, Reads, Tasked
  <1>22. ASSUME Reset(r) PROVE P
    <2>1. UNCHANGED attempts
      BY <1>22, ResetActs
    <2> QED
      BY <1>22, <1>u, ResetActs DEF Owned, Bare, Sits, Reads, Tasked
  <1>23. ASSUME Finalize(r) PROVE P
    <2>1. /\ runner[r].place = "finalize" /\ runner'[r].place = "tidy"
          /\ runner'[r].cand = runner[r].cand /\ runner'[r].disposition = runner[r].disposition
          /\ ScheduleRow(FinalRow(r), runner[r].disposition) /\ FinalRow(r) \in 0..Len(attempts)
          /\ runner[r].disposition \in {"discard", "preserve", "leave"}
          /\ task'.cand = task.cand /\ task'.status = runner[r].verdict
      BY <1>23, FinalizeActs, Fields DEF Walks, Sits, Tasked
    <2>2. /\ Count' \in Nat /\ Count' <= Count
          /\ FinalRow(r) # 0 /\ runner[r].disposition # "leave" /\ attempts[FinalRow(r)].state \in Live =>
               Count' + 1 <= Count
      BY <2>1, ScheduleCounts
    <2>3. Few \/ (Own(runner[r].cand) /\ manifest \in {0, Len(attempts)})
      BY <2>1 DEF Owned, Owning
    <2>4. ASSUME ~Few PROVE FinalRow(r) # 0 /\ attempts[FinalRow(r)].state \in Live
      <3>1. /\ Len(attempts) > 0 /\ attempts[Len(attempts)].state \in Live
            /\ attempts[Len(attempts)].cand = runner[r].cand /\ manifest \in {0, Len(attempts)}
        BY <2>3, <2>4 DEF Own, Peer
      <3>2. RowOf(runner[r].cand) = Len(attempts)
        BY <1>t, <3>1, RowOfLast
      <3> QED
        BY <3>1, <3>2 DEF FinalRow
    <2>5. CASE runner[r].disposition = "leave"
      <3>1. runner[r].verdict = "completed"
        BY <2>1, <2>5 DEF Owned
      <3> QED
        BY <1>s, <2>1, <2>2, <3>1 DEF Owned, Owning, Bare, Aside, Ended
    <2>6. CASE runner[r].disposition # "leave"
      <3>3. Few'
        <4>1. CASE Few
          BY <1>s, <2>2, <4>1
        <4>2. CASE ~Few
          BY <1>s, <2>2, <2>4, <2>6
        <4> QED
          BY <4>1, <4>2
      <3> QED
        BY <1>s, <2>1, <2>2, <3>3 DEF Owned, Aside
    <2> QED
      BY <2>5, <2>6
  <1>24. ASSUME Tidy(r) PROVE P
    <2>1. UNCHANGED attempts
      BY <1>24, TidyActs
    <2> QED
      BY <1>24, <1>u, <2>1, TidyActs
         DEF Owned, Own, Owning, Bare, Aside, Sits, Ends
  <1>25. ASSUME Fail(r) PROVE P
    <2>1. FailTask /\ runner'[r].place = "idle" /\ runner'[r].disposition = "discard"
      BY <1>25, FailActs DEF Fail, Ends, Sits
    <2>2. Few'
      BY <1>s, <2>1, FailTaskCounts
    <2>3. Enough'
      BY <1>s, <2>1, FailTaskCounts
    <2> QED
      BY <2>1, <2>2, <2>3 DEF Owned, Aside
  <1> HIDE DEF P
  <1>p. P
    BY <1>1, <1>2, <1>3, <1>4, <1>5, <1>6, <1>7, <1>8, <1>9, <1>10, <1>11, <1>12, <1>13,
       <1>14, <1>15, <1>16, <1>17, <1>18, <1>19, <1>20, <1>21, <1>22, <1>23, <1>24, <1>25 DEF RunnerStep
  <1> QED
    BY <1>p DEF P
\* The places where a re-import has its row.
Redoing == {"reimport_start", "reimport_import"}

\* A re-import begins when no row is left over, and has the one that is if there is one;
\* without a re-import none is left over once the download has failed or fallen short.
OpsCounted ==
  /\ \A k \in Callers: op[k].place = "reimport" => Few
  /\ \A k \in Callers: op[k].place \in Redoing => Few \/ attempts[op[k].attempt].state \in Live
  /\ (\A k \in Callers: op[k].place \notin Redoing) =>
       /\ task.status \in Ended => Few
       /\ \A k \in Callers: op[k].place = "settle" /\ op[k].status \in Ended => Few

\* All that is counted.
Counted == Enough /\ (\A r \in Runners: Owned(r)) /\ OpsCounted

\* What is enough for whoever has no attempt.
LEMMA AsideOwned ==
  ASSUME NEW r \in Runners, runner'[r].place \in {"idle", "start", "resume", "tidy"},
         runner'[r].place # "tidy" => runner'[r].disposition # "leave",
         runner'[r].place \in {"start", "resume"} => Few'
  PROVE  Owned(r)'
  BY DEF Owned, Owning, Bare, Aside

\* A runner that nobody disturbs.
LEMMA OwnedKept ==
  ASSUME NEW r \in Runners, Owned(r), runner'[r] = runner[r], task'.cand = task.cand,
         manifest' \in {0, manifest}, Few => Few', Own(runner[r].cand) => Own(runner[r].cand)',
         Len(attempts') = Len(attempts)
  PROVE  Owned(r)'
  BY DEF Owned, Aside

\* Nothing is counted anew while the journal and the count of faults stay.
LEMMA SameCount ==
  ASSUME Typed, UNCHANGED <<attempts, faults, crashes>>
  PROVE  (Few' <=> Few) /\ (Enough' <=> Enough) /\ \A c: Own(c)' = Own(c)
  BY DEF Few, Enough, Own, Count, LiveRows, Peer

\* A request keeps the count, but for a re-import that brings a row back to life.
LEMMA RequestStepCounts ==
  ASSUME "pick" \notin Actors, "next" \notin Actors, Typed, Locked, Driven, Quiet, Counted,
         NEW k \in Callers, RequestStep(k) \/ Request(k)
  PROVE  Counted'
  <1>f. /\ crashes' = crashes /\ \A q \in Callers \ {k}: op'[q] = op[q]
    BY RequestStepLives
  <1>t. /\ Len(attempts) \in Nat /\ faults \in Nat /\ crashes \in Nat /\ Count \in Nat
        /\ \A q \in Callers: op[q].place \in Asking => op[q].attempt \in 1..Len(attempts)
    BY TypedParts, RowsCount
  <1>o. Off.place = "idle" /\ Off.disposition = "discard"
    BY DEF Off
  \* Steps that leave journal and runners as they are.
  <1>k. ASSUME UNCHANGED <<attempts, faults, runner>>, task'.cand = task.cand,
               manifest' \in {0, manifest}
        PROVE  /\ Enough' /\ (\A r \in Runners: Owned(r)') /\ (Few' <=> Few)
               /\ \A i: attempts'[i] = attempts[i]
    <2>1. (Few' <=> Few) /\ (Enough' <=> Enough) /\ \A c: Own(c)' = Own(c)
      BY <1>f, <1>k, SameCount
    <2>2. ASSUME NEW r \in Runners PROVE Owned(r)'
      <3>1. Owned(r) /\ runner'[r] = runner[r] /\ Len(attempts') = Len(attempts)
        BY <1>k DEF Counted
      <3> QED
        BY <1>k, <2>1, <3>1, OwnedKept
    <2> QED
      BY <1>k, <2>1, <2>2 DEF Counted
  \* Steps after which no row is left over.
  <1>n. ASSUME Few', Enough', \A r \in Runners: Owned(r)' PROVE Counted'
    BY <1>n DEF Counted, OpsCounted
  <1>1. ASSUME CancelAsk(k) PROVE Counted'
    <2>1. /\ UNCHANGED <<task, attempts, manifest, lock, faults>> /\ Stops
          /\ op'[k].place = "cancel" /\ op[k].place = "idle"
      BY <1>1, CancelAskActs DEF Steps, Stands
    <2>2. (Few' <=> Few) /\ (Enough' <=> Enough) /\ \A c: Own(c)' = Own(c)
      BY <1>f, <2>1, SameCount
    <2>3. ASSUME NEW r \in Runners PROVE Owned(r)'
      <3>1. CASE runner'[r] = runner[r]
        BY <2>1, <2>2, <3>1, OwnedKept DEF Counted
      <3>2. CASE runner'[r] = Off
        BY <1>o, <3>2, AsideOwned
      <3> QED
        BY <2>1, <3>1, <3>2 DEF Stops
    <2> QED
      BY <1>f, <2>1, <2>2, <2>3 DEF Counted, OpsCounted, Redoing
  <1>2. ASSUME CancelCommit(k) PROVE Counted'
    <2>1. /\ UNCHANGED <<runner, manifest>> /\ task'.cand = task.cand /\ Len(attempts') = Len(attempts)
          /\ faults' \in Nat
          /\ \A i \in 1..Len(attempts):
                /\ attempts[i].state = "settled" => attempts'[i] = attempts[i]
                /\ attempts[i].state # "settled" => attempts'[i].state \in {"discard", "preserve"}
      BY <1>2, CancelCommitActs DEF Tasked
    <2>2. LiveRows' = {}
      BY <2>1 DEF LiveRows, Live
    <2>3. Count' = 0
      BY <2>2, FS_EmptySet DEF Count
    <2>4. Few' /\ Enough'
      <3>1. Few' <=> 0 <= faults' + crashes
        BY <1>f, <2>3 DEF Few
      <3>2. Enough' <=> 0 <= faults' + crashes + 1
        BY <1>f, <2>3 DEF Enough
      <3> QED
        BY <1>t, <2>1, <3>1, <3>2
    <2>5. ASSUME NEW r \in Runners PROVE Owned(r)'
      BY <2>1, <2>4 DEF Counted, Owned
    <2> QED
      BY <1>n, <2>4, <2>5
  <1>3. ASSUME CancelTidy(k) \/ RetryAsk(k) PROVE Counted'
    <2>1. /\ UNCHANGED <<task, attempts, runner, faults>> /\ manifest' \in {0, manifest}
          /\ op[k].place \notin Redoing /\ op'[k].place \in {"done", "retry"}
      BY <1>3, CancelTidyActs, RetryAskActs DEF Done, Steps, Stands, Redoing
    <2>2. Enough' /\ (\A r \in Runners: Owned(r)') /\ (Few' <=> Few) /\ \A i: attempts'[i] = attempts[i]
      BY <1>k, <2>1
    <2> QED
      BY <1>f, <2>1, <2>2 DEF Counted, OpsCounted, Redoing
  <1>4. ASSUME ReimportAsk(k) PROVE Counted'
    <2>1. /\ UNCHANGED <<task, attempts, manifest, runner, faults>> /\ task.status \in Ended
          /\ op'[k].place = "reimport" /\ lock = NoCaller
      BY <1>4, ReimportAskActs DEF Stands, Ended
    <2>2. \A q \in Callers: op[q].place \notin Redoing
      BY <2>1, NoCallerAssumption DEF Locked, Locking, Redoing
    <2>3. Few
      BY <2>1, <2>2 DEF Counted, OpsCounted
    <2> QED
      BY <1>k, <1>n, <2>1, <2>3
  <1>5. ASSUME ReimportAcquire(k) \/ ReimportStart(k) \/ ReimportFinish(k) PROVE Counted'
    <2>0. /\ op[k].place \in Reimporting /\ faults' = faults /\ task'.cand = task.cand /\ runner' = runner
      BY <1>5, ReimportAcquireActs, ReimportStartActs, ReimportFinishActs DEF Reimporting, Tasked
    <2>1. \A r \in Runners: runner[r].place \in {"idle", "tidy"}
      BY <2>0 DEF Quiet
    <2>2. \A r \in Runners: Owned(r)'
      BY <2>0, <2>1, AsideOwned DEF Counted, Owned
    <2>3. \A q \in Callers \ {k}: op'[q].place \notin Reimporting
      BY <1>f, <2>0 DEF Locked, Locking, Reimporting
    <2>a. CASE Done(k) /\ UNCHANGED attempts /\ op[k].place = "reimport"
      <3>1. Few'
        BY <1>f, <2>0, <2>a, SameCount DEF Counted, OpsCounted
      <3>2. Enough'
        BY <1>f, <2>0, <2>a, SameCount DEF Counted
      <3> QED
        BY <1>n, <2>2, <3>1, <3>2
    <2>b. CASE /\ op[k].place = "reimport"
               /\ \E i \in 1..Len(attempts'):
                 /\ Stands(k, "reimport_start", op[k].status, op[k].cand, op[k].next, i)
                 /\ attempts'[i].state = "in_use"
                 /\ \A j \in 1..Len(attempts): j # i => attempts'[j] = attempts[j]
                 /\ \A j \in 1..Len(attempts'): j # i => j \in 1..Len(attempts)
      <3>1. PICK i \in 1..Len(attempts'):
                 /\ Stands(k, "reimport_start", op[k].status, op[k].cand, op[k].next, i)
                 /\ attempts'[i].state = "in_use"
                 /\ \A j \in 1..Len(attempts): j # i => attempts'[j] = attempts[j]
                 /\ \A j \in 1..Len(attempts'): j # i => j \in 1..Len(attempts)
        BY <2>b
      <3>2. \A j \in 1..Len(attempts'): j # i /\ attempts'[j].state \in Live =>
              j \in 1..Len(attempts) /\ attempts[j].state \in Live
        BY <3>1
      <3>3. Count' \in Nat /\ Count' <= Count + 1
        BY <3>2, RowMore
      <3>4. Few
        BY <2>b DEF Counted, OpsCounted
      <3>5. Enough'
        <4>1. Count <= faults + crashes
          BY <3>4 DEF Few
        <4>2. Enough' <=> Count' <= faults + crashes + 1
          BY <1>f, <2>0 DEF Enough
        <4>3. Count' <= faults + crashes + 1
          BY <1>t, <3>3, <4>1
        <4> QED
          BY <4>2, <4>3
      <3>6. op'[k].place = "reimport_start" /\ attempts'[op'[k].attempt].state \in Live
        BY <3>1 DEF Stands, Live
      <3> QED
        BY <2>2, <2>3, <3>5, <3>6 DEF Counted, OpsCounted, Redoing, Reimporting
    <2>c. CASE ReimportStart(k)
      <3>1. /\ op'[k].place = "reimport_import" /\ op'[k].attempt = op[k].attempt
            /\ op[k].place = "reimport_start" /\ UNCHANGED attempts
        BY <2>c, ReimportStartActs DEF Steps, Stands
      <3>2. (Few' <=> Few) /\ (Enough' <=> Enough)
        BY <1>f, <2>0, <3>1, SameCount
      <3>3. Few' \/ attempts'[op'[k].attempt].state \in Live
        BY <3>1, <3>2 DEF Counted, OpsCounted, Redoing
      <3> QED
        BY <2>2, <2>3, <3>1, <3>2 DEF Counted, OpsCounted, Redoing, Reimporting
    <2>d. CASE ReimportFinish(k)
      <3>1. /\ op[k].place = "reimport_import"
            /\ \E disposition \in {"discard", "preserve"}: ScheduleRow(op[k].attempt, disposition)
        BY <2>d, ReimportFinishActs
      <3>2. op[k].attempt \in 1..Len(attempts)
        BY <1>t, <3>1 DEF Asking
      <3>3. /\ Count' \in Nat /\ Count' <= Count
            /\ attempts[op[k].attempt].state \in Live => Count' + 1 <= Count
        BY <3>1, <3>2, ScheduleCounts
      <3>4. Few \/ attempts[op[k].attempt].state \in Live
        BY <3>1 DEF Counted, OpsCounted, Redoing
      <3>5. /\ Few => Count <= faults + crashes
            /\ Count <= faults + crashes + 1
            /\ Few' <=> Count' <= faults + crashes
            /\ Enough' <=> Count' <= faults + crashes + 1
        BY <1>f, <2>0 DEF Counted, Few, Enough
      <3>6. Count' <= faults + crashes
        <4>1. CASE Few
          BY <1>t, <3>3, <3>5, <4>1
        <4>2. CASE ~Few
          <5>1. Count' + 1 <= Count /\ Count <= faults + crashes + 1
            BY <3>3, <3>4, <3>5, <4>2
          <5>2. \A n, m, f, c \in Nat: m + 1 <= n /\ n <= f + c + 1 => m <= f + c
            OBVIOUS
          <5> QED
            BY <1>t, <3>3, <5>1, <5>2
        <4> QED
          BY <4>1, <4>2
      <3>7. Count' <= faults + crashes + 1
        BY <1>t, <3>3, <3>6
      <3> QED
        BY <1>n, <2>2, <3>5, <3>6, <3>7
    <2> QED
      BY <1>5, <2>a, <2>b, <2>c, <2>d, ReimportAcquireActs
  <1>6. ASSUME SettleAsk(k) PROVE Counted'
    <2>1. /\ UNCHANGED <<task, attempts, manifest, runner, faults>> /\ op[k].place \notin Redoing
          /\ op'[k].place = "settle" /\ op'[k].status = task.status
      BY <1>6, SettleAskActs DEF Stands, Redoing
    <2>2. Enough' /\ (\A r \in Runners: Owned(r)') /\ (Few' <=> Few) /\ \A i: attempts'[i] = attempts[i]
      BY <1>k, <2>1
    <2> QED
      BY <1>f, <2>1, <2>2 DEF Counted, OpsCounted, Redoing
  <1>7. ASSUME SettleWrite(k) \/ RetryWrite(k) PROVE Counted'
    <2>1. /\ UNCHANGED <<attempts, runner, faults>> /\ manifest' \in {0, manifest}
          /\ task'.cand = task.cand /\ op[k].place \notin Redoing /\ op'[k].place = "done"
          /\ task'.status = "completed" \/ (op[k].place = "settle" /\ task'.status = op[k].status)
      BY <1>7, SettleWriteActs, RetryWriteActs DEF Stands, Done, Tasked, Redoing
    <2>2. Enough' /\ (\A r \in Runners: Owned(r)') /\ (Few' <=> Few) /\ \A i: attempts'[i] = attempts[i]
      BY <1>k, <2>1
    <2> QED
      BY <1>f, <2>1, <2>2 DEF Counted, OpsCounted, Redoing, Ended
  <1>8. \/ CancelAsk(k) \/ CancelCommit(k) \/ CancelTidy(k) \/ ReimportAsk(k) \/ ReimportAcquire(k)
        \/ ReimportStart(k) \/ ReimportFinish(k) \/ SettleAsk(k) \/ SettleWrite(k)
        \/ RetryAsk(k) \/ RetryWrite(k)
    <2>1. ~NextAsk(k) /\ ~PickAsk(k)
      BY DEF NextAsk, PickAsk, Asks
    <2>2. /\ ~NextLook(k) /\ ~NextStop(k) /\ ~NextVerify(k) /\ ~NextAbort(k) /\ ~NextSchedule(k)
          /\ ~NextLink(k) /\ ~NextDispatch(k) /\ ~PickLink(k)
      BY DEF Quiet, Stopping, NextLook, NextStop, NextVerify, NextAbort, NextSchedule, NextLink,
             NextDispatch, PickLink
    <2> QED
      BY ZenonT(30), <2>1, <2>2 DEF RequestStep, Request
  <1> QED
    BY <1>1, <1>2, <1>3, <1>4, <1>5, <1>6, <1>7, <1>8

\* A runner keeps it, too.
LEMMA RunnerKeepsCount ==
  ASSUME Typed, Driven, Quiet, Counted, NEW r \in Runners, RunnerStep(r)
  PROVE  Counted'
  <1>l. /\ IsLive(r) /\ \A q \in Runners \ {r}: runner'[q] = runner[q]
        /\ UNCHANGED <<op, crashes>>
    BY RunnerStepLives
  <1>1. /\ Owned(r)' /\ Enough'
        /\ task'.status \in Ended => Few' \/ task.status \in Ended \/ runner[r].status \in Ended
    BY RunnerStepCounts DEF Counted
  <1>2. ASSUME NEW q \in Runners \ {r} PROVE Owned(q)'
    <2>1. runner'[q] = runner[q] /\ runner[q].place = "idle" /\ Owned(q)
      BY <1>l DEF Driven, IsLive, Counted
    <2>2. runner'[q].disposition # "leave"
      BY <2>1 DEF Owned
    <2> QED
      BY <2>1, <2>2, AsideOwned
  <1>3. CASE runner[r].place = "tidy"
    <2>1. UNCHANGED <<task, attempts, faults>>
      BY <1>3, TidyOnly, TidyActs
    <2>2. Few' <=> Few
      BY <1>l, <2>1, SameCount
    <2>3. OpsCounted'
      BY <1>l, <2>1, <2>2 DEF Counted, OpsCounted
    <2> QED
      BY <1>1, <1>2, <2>3 DEF Counted
  <1>4. CASE runner[r].place # "tidy"
    <2>1. /\ task.status \notin Ended /\ runner[r].status \notin Ended
          /\ \A k \in Callers: /\ op[k].place \notin Reimporting
                               /\ op[k].place = "settle" => op[k].status \notin Ended
      BY <1>l, <1>4 DEF Quiet, IsLive
    <2>2. OpsCounted'
      BY <1>l, <1>1, <2>1 DEF OpsCounted, Redoing, Reimporting
    <2> QED
      BY <1>1, <1>2, <2>2 DEF Counted
  <1> QED
    BY <1>3, <1>4

\* The other steps bring no row to life.
LEMMA OtherStepCounts ==
  ASSUME Typed, Quiet, Counted, OtherStep
  PROVE  Counted'
  <1>l. UNCHANGED <<runner, op, lock, faults, crashes>>
    BY OtherStepLives DEF bounds
  <1>t. /\ Len(attempts) \in Nat /\ faults \in Nat /\ crashes \in Nat /\ Count \in Nat
    BY TypedParts, RowsCount
  <1>1. ASSUME ReapFail PROVE Counted'
    <2>1. reaping /\ FailTask
      BY <1>1 DEF ReapFail
    <2>2. \A r \in Runners: runner[r].place = "idle"
      BY <2>1 DEF Quiet, IsLive
    <2>3. \A r \in Runners: Owned(r)'
      BY <1>l, <2>2, AsideOwned DEF Counted, Owned
    <2>4. Count' \in Nat /\ (Count' = 0 \/ Count' + 1 <= Count)
      BY <2>1, FailTaskCounts
    <2>5. /\ Count <= faults + crashes + 1
          /\ Few' <=> Count' <= faults + crashes
          /\ Enough' <=> Count' <= faults + crashes + 1
      BY <1>l DEF Counted, Few, Enough
    <2>6. \A n, m, f, c \in Nat: m = 0 \/ (m + 1 <= n /\ n <= f + c + 1) => m <= f + c /\ m <= f + c + 1
      OBVIOUS
    <2>7. Few' /\ Enough'
      BY <1>t, <2>4, <2>5, <2>6
    <2> QED
      BY <2>3, <2>7 DEF Counted, OpsCounted
  <1>2. ASSUME UNCHANGED <<attempts, manifest>>, task'.status = task.status, task'.cand = task.cand
        PROVE  Counted'
    <2>1. (Few' <=> Few) /\ (Enough' <=> Enough) /\ \A c: Own(c)' = Own(c)
      BY <1>l, <1>2, SameCount
    <2>2. ASSUME NEW r \in Runners PROVE Owned(r)'
      BY <1>l, <1>2, <2>1, OwnedKept DEF Counted
    <2> QED
      BY <1>l, <1>2, <2>1, <2>2 DEF Counted, OpsCounted
  <1>3. ASSUME NEW i \in 1..Len(attempts), CleanupSettles(i) PROVE Counted'
    <2>1. /\ attempts[i].state = "discard" /\ attempts'[i].state = "settled"
          /\ Len(attempts') = Len(attempts) /\ UNCHANGED <<task, manifest>>
          /\ \A j \in 1..Len(attempts): j # i => attempts'[j] = attempts[j]
      BY <1>3, CleanupSettlesActs
    <2>2. \A j \in 1..Len(attempts): /\ attempts[j].state \in Live => attempts'[j] = attempts[j]
                                     /\ attempts'[j].state \in Live => attempts[j].state \in Live
      BY <2>1 DEF Live
    <2>3. Count' \in Nat /\ Count' <= Count
      BY <2>1, <2>2, RowsFewer
    <2>4. /\ Few <=> Count <= faults + crashes
          /\ Count <= faults + crashes + 1
          /\ Few' <=> Count' <= faults + crashes
          /\ Enough' <=> Count' <= faults + crashes + 1
      BY <1>l DEF Counted, Few, Enough
    <2>5. \A n, m, f, c \in Nat: m <= n => /\ n <= f + c => m <= f + c
                                           /\ n <= f + c + 1 => m <= f + c + 1
      OBVIOUS
    <2>6. (Few => Few') /\ Enough'
      BY <1>t, <2>3, <2>4
    <2>7. \A c: Own(c) => Own(c)'
      BY <2>1, <2>2 DEF Own, Peer
    <2>8. ASSUME NEW r \in Runners PROVE Owned(r)'
      BY <1>l, <2>1, <2>6, <2>7, OwnedKept DEF Counted
    <2>9. ASSUME NEW k \in Callers, op[k].place \in Redoing
          PROVE  Few' \/ attempts'[op[k].attempt].state \in Live
      <3>1. op[k].attempt \in 1..Len(attempts)
        BY <2>9, TypedParts DEF Redoing, Asking
      <3>2. Few \/ attempts[op[k].attempt].state \in Live
        BY <2>9 DEF Counted, OpsCounted
      <3> QED
        BY <2>2, <2>6, <3>1, <3>2
    <2> QED
      BY <1>l, <2>1, <2>6, <2>8, <2>9 DEF Counted, OpsCounted
  <1>4. ASSUME NEW c \in 1..Peers, TransferMoves(c) PROVE Counted'
    BY <1>2, <1>4, TransferMovesActs
  <1>5. ASSUME ReapFind \/ OtherImport PROVE Counted'
    BY <1>2, <1>5 DEF ReapFind, OtherImport, rows
  <1>6. ASSUME Ages PROVE Counted'
    BY <1>2, <1>6, AgesActs DEF Tasked
  <1> QED
    BY <1>1, <1>3, <1>4, <1>5, <1>6 DEF OtherStep

\* A restart may leave the row that was worked on behind: it is counted.
LEMMA CrashCounts ==
  ASSUME Typed, Counted, CrashAndResume
  PROVE  Counted'
  <1>1. UNCHANGED <<attempts, faults>> /\ crashes' = crashes + 1
    BY DEF CrashAndResume, rows
  <1>2. Count' = Count
    BY <1>1 DEF Count, LiveRows
  <1>3. Count \in Nat /\ faults \in Nat /\ crashes \in Nat /\ Count <= faults + crashes + 1
    BY RowsCount, TypedParts DEF Counted, Enough
  <1>4. /\ Few' <=> Count <= faults + (crashes + 1)
        /\ Enough' <=> Count <= faults + (crashes + 1) + 1
    BY <1>1, <1>2 DEF Few, Enough
  <1>5. \A n, f, c \in Nat: n <= f + c + 1 => n <= f + (c + 1) /\ n <= f + (c + 1) + 1
    OBVIOUS
  <1>6. Few' /\ Enough'
    BY <1>3, <1>4, <1>5
  <1>7. \A r \in Runners: Owned(r)'
    BY <1>6, CrashActs, AsideOwned
  <1> QED
    BY <1>6, <1>7 DEF Counted, OpsCounted

\* Every step.
LEMMA NextCounts ==
  ASSUME "pick" \notin Actors, "next" \notin Actors, Typed, Locked, Driven, Quiet, Counted, [Next]_vars
  PROVE  Counted'
  <1>1. CASE UNCHANGED vars
    <2>1. UNCHANGED <<task, attempts, manifest, runner, op, faults, crashes>>
      BY <1>1 DEF vars
    <2>2. (Few' <=> Few) /\ (Enough' <=> Enough) /\ \A c: Own(c)' = Own(c)
      BY <2>1, SameCount
    <2>3. ASSUME NEW r \in Runners PROVE Owned(r)'
      BY <2>1, <2>2, OwnedKept DEF Counted
    <2> QED
      BY <2>1, <2>2, <2>3 DEF Counted, OpsCounted
  <1> QED
    BY <1>1, NextCases, RunnerKeepsCount, RequestStepCounts, OtherStepCounts, CrashCounts

\* A download begins without rows.
LEMMA InitCounted ==
  ASSUME Init
  PROVE  Counted
  <1>1. /\ Typed /\ Len(attempts) = 0 /\ faults = 0 /\ crashes = 0
        /\ \A r \in Runners: runner[r].place \in {"idle", "start"} /\ runner[r].disposition = "discard"
        /\ \A k \in Callers: op[k].place = "idle"
    BY InitTyped DEF Init, Off
  <1>2. Count = 0
    BY <1>1, RowsNone
  <1>3. Few /\ Enough
    BY <1>1, <1>2 DEF Few, Enough
  <1>4. \A r \in Runners: Owned(r)
    BY <1>1, <1>3 DEF Owned, Aside
  <1> QED
    BY <1>3, <1>4 DEF Counted, OpsCounted

\* A download that no manual switch and no pick interferes with leaves at most one live row
\* for each client call that went wrong and for each restart, beside the one it works on,
\* whatever is cancelled, settled, retried, imported again or reaped in between: a request
\* whose answer is lost is retried under a row of its own (_enqueue), and a runner that a
\* restart ended is resumed without the row it had just journaled.
THEOREM StraysAreOwed ==
  ASSUME "pick" \notin Actors, "next" \notin Actors
  PROVE  Spec => []StrayRowsCounted
  <1> DEFINE Inv == Typed /\ Locked /\ Driven /\ Unpicked /\ Quiet /\ Counted
  <1>1. Init => Inv
    <2> SUFFICES ASSUME Init PROVE Inv
      OBVIOUS
    <2>1. task.status = "queued" /\ reaping = FALSE
      BY DEF Init
    <2>2. Quiet
      BY <2>1, InitTyped DEF Quiet, Ended, Stopping, Reimporting
    <2> QED
      BY <2>2, InitTyped, InitDriven, InitCounted
  <1>2. Inv /\ [Next]_vars => Inv'
    BY NextTyped, NextLocked, NextDriven, NextQuiet, NextCounts
  <1>3. Inv => StrayRowsCounted
    <2> SUFFICES ASSUME Inv PROVE StrayRowsCounted
      OBVIOUS
    <2>1. Count <= faults + crashes + 1
      BY DEF Counted, Enough
    <2> QED
      BY <2>1, TypedParts DEF StrayRowsCounted, Count
  <1> QED
    BY <1>1, <1>2, <1>3, PTL DEF Spec

\* Where no client call goes wrong and nothing restarts, a download has one live attempt at
\* most, so the newest live row that _fail_task_preserving_attempt and
\* _schedule_attempt_cleanup fall back on is its own.
THEOREM OneRowLives ==
  ASSUME "pick" \notin Actors, "next" \notin Actors, MaxFaults = 0, MaxCrashes = 0
  PROVE  Spec => []OneLiveRow
  <1>1. TypeOK /\ StrayRowsCounted => OneLiveRow
    <2> SUFFICES ASSUME TypeOK, StrayRowsCounted PROVE OneLiveRow
      OBVIOUS
    <2>1. faults = 0 /\ crashes = 0
      BY DEF TypeOK
    <2> QED
      BY <2>1 DEF StrayRowsCounted, OneLiveRow
  <1> QED
    BY <1>1, TypeCorrect, StraysAreOwed, PTL
-----------------------------------------------------------------------------
(* A download about which a single request is made.                         *)

\* Where a runner may be without a candidate.
Seeking == {"idle", "start", "resume", "search", "fail"}
\* Where a request is that found the download with a candidate.
Linked == Stopping \union Reimporting \union {"next_look", "next_stop"}

\* Who works on a candidate has one, and so has a download with rows.
Fed ==
  /\ Len(attempts) > 0 => task.cand # 0
  /\ \A r \in Runners: /\ runner[r].place \notin Seeking => task.cand # 0
                       /\ runner[r].place \in Switching => runner[r].next # 0
  /\ \A k \in Callers: /\ op[k].place \in Linked => task.cand # 0
                       /\ op[k].place \in Moving => op[k].next # 0

\* A download with a runner is not parked: it has a candidate, or no search yet.
Unparked == \A r \in Runners: IsLive(r) => task.cand # 0 \/ ~task.job

\* How a runner comes by a candidate.
Feeds(r) ==
  /\ Len(attempts') > 0 => Len(attempts) > 0 \/ runner[r].place = "journal"
  /\ \/ task'.cand = task.cand /\ task'.job = task.job
     \/ runner[r].place = "search" /\ (task'.cand # 0 \/ runner'[r].place = "idle")
     \/ runner[r].place = "link" /\ task'.cand = runner[r].next
  /\ \/ runner'[r].place \in Seeking \/ runner[r].place \notin Seeking
     \/ task'.cand # 0 \/ manifest # 0
  /\ \/ runner'[r].place \notin Switching \/ runner'[r].next # 0
     \/ runner[r].place \in Switching /\ runner'[r].next = runner[r].next

\* So does every step of a runner.
LEMMA RunnerStepFeeds ==
  ASSUME Typed, NEW r \in Runners, RunnerStep(r)
  PROVE  Feeds(r)
  <1>0. Peers \in Nat /\ \A c \in 0..Peers: \A n \in Behind(c): n # 0
    BY PeersAssumption DEF Behind
  <1>t. runner[r].cand \in 0..Peers
    BY Fields
  <1>1. CASE ProcessTask(r)
    BY <1>1, ProcessTaskActs
       DEF Feeds, Seeking, Switching, Sits, Walks, Reads, Ends, Polls, Finishes, Refused, Tasked
  <1>2. CASE ResumeTask(r)
    BY <1>2, ResumeTaskActs
       DEF Feeds, Seeking, Switching, Sits, Walks, Reads, Ends, Polls, Finishes, Refused, Tasked
  <1>3. CASE Search(r)
    <2>1. /\ runner[r].place = "search" /\ attempts' = attempts
          /\ \/ task'.cand \in 1..Peers /\ Reads(r, "prepare", task.status, task'.cand)
             \/ Ends(r)
      BY <1>3, SearchActs DEF Tasked
    <2>2. CASE Ends(r)
      BY <2>1, <2>2 DEF Feeds, Seeking, Switching, Ends, Sits
    <2>3. CASE task'.cand \in 1..Peers /\ Reads(r, "prepare", task.status, task'.cand)
      BY <1>0, <2>1, <2>3 DEF Feeds, Seeking, Switching, Reads, Sits
    <2> QED
      BY <2>1, <2>2, <2>3
  <1>4. CASE Prepare(r)
    BY <1>4, PrepareActs
       DEF Feeds, Seeking, Switching, Sits, Walks, Reads, Ends, Polls, Finishes, Refused, Tasked
  <1>5. CASE Open(r)
    BY <1>5, OpenActs
       DEF Feeds, Seeking, Switching, Sits, Walks, Reads, Ends, Polls, Finishes, Refused, Tasked
  <1>6. CASE Journal(r)
    BY <1>6, JournalActs
       DEF Feeds, Seeking, Switching, Sits, Walks, Reads, Ends, Polls, Finishes, Refused, Tasked
  <1>7. CASE Send(r)
    BY <1>7, SendActs
       DEF Feeds, Seeking, Switching, Sits, Walks, Reads, Ends, Polls, Finishes, Refused, Tasked
  <1>8. CASE Outage(r)
    BY <1>8, OutageActs
       DEF Feeds, Seeking, Switching, Sits, Walks, Reads, Ends, Polls, Finishes, Refused, Tasked
  <1>9. CASE Handle(r)
    BY <1>9, HandleActs
       DEF Feeds, Seeking, Switching, Sits, Walks, Reads, Ends, Polls, Finishes, Refused, Tasked
  <1>10. CASE PollStops(r)
    BY <1>10, PollStopsActs
       DEF Feeds, Seeking, Switching, Sits, Walks, Reads, Ends, Polls, Finishes, Refused, Tasked
  <1>11. CASE PollGoesOn(r)
    BY <1>11, PollGoesOnActs
       DEF Feeds, Seeking, Switching, Sits, Walks, Reads, Ends, Polls, Finishes, Refused, Tasked
  <1>12. CASE PollEnds(r)
    BY <1>12, PollEndsActs
       DEF Feeds, Seeking, Switching, Sits, Walks, Reads, Ends, Polls, Finishes, Refused, Tasked
  <1>13. CASE PollBreaks(r)
    BY <1>13, PollBreaksActs
       DEF Feeds, Seeking, Switching, Sits, Walks, Reads, Ends, Polls, Finishes, Refused, Tasked
  <1>14. CASE Recheck(r)
    BY <1>14, RecheckActs
       DEF Feeds, Seeking, Switching, Sits, Walks, Reads, Ends, Polls, Finishes, Refused, Tasked
  <1>15. CASE Prefer(r)
    BY <1>15, <1>0, <1>t, PreferActs
       DEF Feeds, Seeking, Switching, Sits, Walks, Reads, Ends, Polls, Finishes, Refused, Tasked
  <1>16. CASE Process(r)
    BY <1>16, ProcessActs
       DEF Feeds, Seeking, Switching, Sits, Walks, Reads, Ends, Polls, Finishes, Refused, Tasked
  <1>17. CASE Import(r)
    BY <1>17, ImportActs
       DEF Feeds, Seeking, Switching, Sits, Walks, Reads, Ends, Polls, Finishes, Refused, Tasked
  <1>18. CASE Decide(r)
    BY <1>18, <1>0, <1>t, DecideActs
       DEF Feeds, Seeking, Switching, Sits, Walks, Reads, Ends, Polls, Finishes, Refused, Tasked
  <1>19. CASE Abort(r)
    BY <1>19, AbortActs
       DEF Feeds, Seeking, Switching, Sits, Walks, Reads, Ends, Polls, Finishes, Refused, Tasked
  <1>20. CASE Schedule(r)
    <2>1. Len(attempts') = Len(attempts)
      <3>1. /\ ScheduleRow(ManifestRow, runner[r].disposition) /\ ManifestRow \in 0..Len(attempts)
            /\ runner[r].disposition \in {"discard", "preserve", "leave"}
        BY <1>20, ScheduleStepActs, Fields
      <3> QED
        BY <3>1, ScheduleActs, TypedParts
    <2> QED
      BY <1>20, <2>1, ScheduleStepActs DEF Feeds, Seeking, Switching, Walks, Sits, Tasked
  <1>21. CASE Link(r)
    BY <1>21, LinkActs
       DEF Feeds, Seeking, Switching, Sits, Walks, Reads, Ends, Polls, Finishes, Refused, Tasked
  <1>22. CASE Reset(r)
    BY <1>22, ResetActs
       DEF Feeds, Seeking, Switching, Sits, Walks, Reads, Ends, Polls, Finishes, Refused, Tasked
  <1>23. CASE Finalize(r)
    <2>1. Len(attempts') = Len(attempts)
      <3>1. /\ ScheduleRow(FinalRow(r), runner[r].disposition) /\ FinalRow(r) \in 0..Len(attempts)
            /\ runner[r].disposition \in {"discard", "preserve", "leave"}
        BY <1>23, FinalizeActs, Fields
      <3> QED
        BY <3>1, ScheduleActs, TypedParts
    <2> QED
      BY <1>23, <2>1, FinalizeActs DEF Feeds, Seeking, Switching, Walks, Sits, Tasked
  <1>24. CASE Tidy(r)
    BY <1>24, TidyActs
       DEF Feeds, Seeking, Switching, Sits, Walks, Reads, Ends, Polls, Finishes, Refused, Tasked
  <1>25. CASE Fail(r)
    BY <1>25, FailActs DEF Feeds, Seeking, Switching, Sits, Ends, Tasked
  <1> QED
    BY <1>1, <1>2, <1>3, <1>4, <1>5, <1>6, <1>7, <1>8, <1>9, <1>10, <1>11, <1>12, <1>13,
       <1>14, <1>15, <1>16, <1>17, <1>18, <1>19, <1>20, <1>21, <1>22, <1>23, <1>24,
       <1>25 DEF RunnerStep

\* How a request does.
Nourishes(k) ==
  /\ Len(attempts') > 0 => Len(attempts) > 0 \/ op[k].place \in Reimporting
  /\ \/ task'.cand = task.cand /\ task'.job = task.job /\ op[k].place # "pick"
     \/ op[k].place = "next_link" /\ task'.cand = op[k].next
     \/ op[k].place = "pick" /\ task'.cand # 0
  /\ \/ op'[k].place \notin Linked \/ op[k].place \in Linked
     \/ task' = task /\ (task.cand # 0 \/ manifest # 0)
  /\ \/ op'[k].place \notin Moving \/ op'[k].next # 0
     \/ op[k].place \in Moving /\ op'[k].next = op[k].next

\* So does every step of a request.
LEMMA RequestStepNourishes ==
  ASSUME Typed, NEW k \in Callers, RequestStep(k) \/ Request(k)
  PROVE  Nourishes(k)
  <1> USE DEF Nourishes, Linked, Stopping, Reimporting, Moving
  <1>0. Peers \in Nat /\ \A c \in 0..Peers: \A n \in Behind(c): n # 0
    BY PeersAssumption DEF Behind
  <1>t. op[k].cand \in 0..Peers
    BY Fields
  <1>1. CASE CancelAsk(k)
    BY <1>1, CancelAskActs DEF Stands, Steps, Done, Tasked
  <1>2. CASE CancelCommit(k)
    BY <1>2, CancelCommitActs DEF Stands, Steps, Done, Tasked
  <1>3. CASE CancelTidy(k)
    BY <1>3, CancelTidyActs DEF Stands, Steps, Done, Tasked
  <1>4. CASE NextAsk(k)
    BY <1>4, NextAskActs DEF Stands, Steps, Done, Tasked
  <1>5. CASE NextLook(k)
    BY <1>5, NextLookActs DEF Stands, Steps, Done, Tasked
  <1>6. CASE NextStop(k)
    BY <1>6, NextStopActs DEF Stands, Steps, Done, Tasked
  <1>7. CASE NextVerify(k)
    BY <1>7, <1>0, <1>t, NextVerifyActs DEF Stands, Steps, Done, Tasked
  <1>8. CASE NextAbort(k)
    BY <1>8, NextAbortActs DEF Stands, Steps, Done, Tasked
  <1>9. CASE NextSchedule(k)
    <2>1. Len(attempts') = Len(attempts)
      BY <1>9, NextScheduleActs, ScheduleActs, TypedParts
    <2> QED
      BY <1>9, <2>1, NextScheduleActs DEF Stands, Steps, Done, Tasked
  <1>10. CASE NextLink(k)
    BY <1>10, NextLinkActs DEF Stands, Steps, Done, Tasked
  <1>11. CASE NextDispatch(k)
    BY <1>11, NextDispatchActs DEF Stands, Steps, Done, Tasked
  <1>12. CASE ReimportAsk(k)
    BY <1>12, ReimportAskActs DEF Stands, Steps, Done, Tasked
  <1>13. CASE ReimportAcquire(k)
    BY <1>13, ReimportAcquireActs DEF Stands, Steps, Done, Tasked
  <1>14. CASE ReimportStart(k)
    BY <1>14, ReimportStartActs DEF Stands, Steps, Done, Tasked
  <1>15. CASE ReimportFinish(k)
    BY <1>15, ReimportFinishActs DEF Stands, Steps, Done, Tasked
  <1>16. CASE SettleAsk(k)
    BY <1>16, SettleAskActs DEF Stands, Steps, Done, Tasked
  <1>17. CASE SettleWrite(k)
    BY <1>17, SettleWriteActs DEF Stands, Steps, Done, Tasked
  <1>18. CASE RetryAsk(k)
    BY <1>18, RetryAskActs DEF Stands, Steps, Done, Tasked
  <1>19. CASE RetryWrite(k)
    BY <1>19, RetryWriteActs DEF Stands, Steps, Done, Tasked
  <1>20. CASE PickAsk(k)
    BY <1>20, PickAskActs DEF Stands, Steps, Done, Tasked
  <1>21. CASE PickLink(k)
    <2>1. /\ op[k].place = "pick" /\ task'.cand \in 1..Peers /\ attempts' = attempts
          /\ op'[k].place = "done"
      BY <1>21, PickLinkActs DEF Stands, Done, Tasked
    <2> QED
      BY <1>0, <2>1
  <1> QED
    BY <1>1, <1>2, <1>3, <1>4, <1>5, <1>6, <1>7, <1>8, <1>9, <1>10, <1>11, <1>12, <1>13,
       <1>14, <1>15, <1>16, <1>17, <1>18, <1>19, <1>20, <1>21 DEF RequestStep, Request

\* Where requests are that the runner's work must not meet, and where they come from.
LEMMA RequestPlaces ==
  ASSUME Typed, NEW k \in Callers, RequestStep(k) \/ Request(k)
  PROVE  /\ op'[k].place # "idle"
         /\ op'[k].place = "cancel" => Stops
         /\ op'[k].place \in Reimporting =>
              /\ UNCHANGED runner
              /\ op[k].place \in Reimporting \/ (op[k].place = "idle" /\ task.status \in Ended)
         /\ op'[k].place = "pick" =>
              Parked /\ "pick" \in Actors /\ UNCHANGED <<task, runner>>
  <1> USE DEF Reimporting, Ended
  <1>1. CASE CancelAsk(k)
    BY <1>1, CancelAskActs DEF Stands, Steps, Done
  <1>2. CASE CancelCommit(k)
    BY <1>2, CancelCommitActs DEF Stands, Steps, Done
  <1>3. CASE CancelTidy(k)
    BY <1>3, CancelTidyActs DEF Stands, Steps, Done
  <1>4. CASE NextAsk(k)
    BY <1>4, NextAskActs DEF Stands, Steps, Done
  <1>5. CASE NextLook(k)
    BY <1>5, NextLookActs DEF Stands, Steps, Done
  <1>6. CASE NextStop(k)
    BY <1>6, NextStopActs DEF Stands, Steps, Done
  <1>7. CASE NextVerify(k)
    BY <1>7, NextVerifyActs DEF Stands, Steps, Done
  <1>8. CASE NextAbort(k)
    BY <1>8, NextAbortActs DEF Stands, Steps, Done
  <1>9. CASE NextSchedule(k)
    BY <1>9, NextScheduleActs DEF Stands, Steps, Done
  <1>10. CASE NextLink(k)
    BY <1>10, NextLinkActs DEF Stands, Steps, Done
  <1>11. CASE NextDispatch(k)
    BY <1>11, NextDispatchActs DEF Stands, Steps, Done
  <1>12. CASE ReimportAsk(k)
    BY <1>12, ReimportAskActs DEF Stands, Steps, Done
  <1>13. CASE ReimportAcquire(k)
    BY <1>13, ReimportAcquireActs DEF Stands, Steps, Done
  <1>14. CASE ReimportStart(k)
    BY <1>14, ReimportStartActs DEF Stands, Steps, Done
  <1>15. CASE ReimportFinish(k)
    BY <1>15, ReimportFinishActs DEF Stands, Steps, Done
  <1>16. CASE SettleAsk(k)
    BY <1>16, SettleAskActs DEF Stands, Steps, Done
  <1>17. CASE SettleWrite(k)
    BY <1>17, SettleWriteActs DEF Stands, Steps, Done
  <1>18. CASE RetryAsk(k)
    BY <1>18, RetryAskActs DEF Stands, Steps, Done
  <1>19. CASE RetryWrite(k)
    BY <1>19, RetryWriteActs DEF Stands, Steps, Done
  <1>20. CASE PickAsk(k)
    BY <1>20, PickAskActs DEF Stands, Steps, PickAsk
  <1>21. CASE PickLink(k)
    BY <1>21, PickLinkActs DEF Stands, Steps, Done
  <1> QED
    BY <1>1, <1>2, <1>3, <1>4, <1>5, <1>6, <1>7, <1>8, <1>9, <1>10, <1>11, <1>12, <1>13,
       <1>14, <1>15, <1>16, <1>17, <1>18, <1>19, <1>20, <1>21 DEF RequestStep, Request

\* Nobody makes a second request.
OneRequest == \A j, k \in Callers: j = k

\* Until it is made the runner works alone; then a cancel and a re-import find it stopped, and
\* a pick finds none.
Single ==
  /\ (\A k \in Callers: op[k].place = "idle") => Quiet
  /\ \A k \in Callers: op[k].place \in Reimporting \union {"cancel"} =>
       \A r \in Runners: runner[r].place \in {"idle", "tidy"}
  /\ \A k \in Callers: op[k].place = "pick" =>
       task.cand = 0 /\ \A r \in Runners: ~IsLive(r)

\* That is what the runner's own proofs ask of the requests.
LEMMA SingleApart ==
  ASSUME OneRequest, Single
  PROVE  Undisturbed /\ Unmixed /\ Picked
  BY DEF OneRequest, Single, Undisturbed, Unmixed, Picked, Reimporting, Moving, Stopping

\* A runner keeps the candidate it has, or changes it for another one.
LEMMA RunnerKeepsCandidate ==
  ASSUME Typed, WithinBudget, Fed, NEW r \in Runners, RunnerStep(r)
  PROVE  task.cand # 0 => task'.cand # 0
  BY RunnerStepFeeds DEF Feeds, Fed, WithinBudget, Switching

\* So who works on one has one.
LEMMA RunnerStepFed ==
  ASSUME Typed, Driven, WithinBudget, Fed, NEW r \in Runners, RunnerStep(r)
  PROVE  Fed' /\ (Unparked => Unparked')
  <1>1. /\ UNCHANGED op /\ \A q \in Runners \ {r}: runner'[q].place = "idle"
        /\ IsLive(r) /\ Feeds(r)
    BY RunnerStepLives, RunnerStepFeeds DEF Driven, IsLive
  <1>2. manifest # 0 => Len(attempts) > 0
    BY TypedParts
  <1>3. task.cand # 0 => task'.cand # 0
    BY RunnerKeepsCandidate
  <1>4. Len(attempts') > 0 => task'.cand # 0
    BY <1>1, <1>3 DEF Feeds, Fed, Seeking
  <1>5. Unparked /\ runner'[r].place # "idle" => task'.cand # 0 \/ ~task'.job
    BY <1>1, <1>3 DEF Feeds, Unparked, Fed, Switching
  <1>6. runner'[r].place \notin Seeking => task'.cand # 0
    BY <1>1, <1>2, <1>3 DEF Feeds, Fed
  <1>7. runner'[r].place \in Switching => runner'[r].next # 0
    BY <1>1 DEF Feeds, Fed
  <1>8. "idle" \in Seeking /\ "idle" \notin Switching
    BY DEF Seeking, Switching
  <1>9. Unparked => Unparked'
    BY <1>1, <1>5 DEF Unparked, IsLive
  <1> QED
    BY <1>1, <1>3, <1>4, <1>6, <1>7, <1>8, <1>9 DEF Fed

\* A request leaves it to him.
LEMMA RequestStepFed ==
  ASSUME Typed, Driven, Fed, NEW k \in Callers, RequestStep(k) \/ Request(k)
  PROVE  Fed' /\ (Unparked => Unparked')
  <1>1. Nourishes(k) /\ \A q \in Callers \ {k}: op'[q] = op[q]
    BY RequestStepNourishes, RequestStepLives
  <1>2. manifest # 0 => Len(attempts) > 0
    BY TypedParts
  <1>3. task.cand # 0 => task'.cand # 0
    BY <1>1 DEF Nourishes, Fed, Moving
  <1>4. Len(attempts') > 0 => task'.cand # 0
    BY <1>1, <1>3 DEF Nourishes, Fed, Linked
  <1>5. ASSUME NEW r \in Runners
        PROVE  /\ Unparked /\ IsLive(r)' => task'.cand # 0 \/ ~task'.job
               /\ runner'[r].place \notin Seeking => task'.cand # 0
               /\ runner'[r].place \in Switching => runner'[r].next # 0
    <2>1. runner'[r] = runner[r] \/ runner'[r] = Off
          \/ (runner'[r].place \in {"start", "resume"} /\ op[k].place \in Stopping \union {"pick"})
      BY RequestStepLives DEF Stops, Begins, Sits
    <2>2. CASE runner'[r] = runner[r]
      <3>1. Unparked /\ IsLive(r)' => task'.cand # 0 \/ ~task'.job
        BY <1>1, <1>3, <2>2 DEF Nourishes, Unparked, Fed, IsLive, Moving
      <3> QED
        BY <1>3, <2>2, <3>1 DEF Fed
    <2>3. CASE runner'[r] = Off
      BY <2>3 DEF Off, IsLive, Seeking, Switching
    <2>4. CASE runner'[r].place \in {"start", "resume"} /\ op[k].place \in Stopping \union {"pick"}
      <3>1. task'.cand # 0
        BY <1>1, <1>3, <2>4 DEF Nourishes, Fed, Linked
      <3> QED
        BY <2>4, <3>1 DEF Seeking, Switching
    <2> QED
      BY <2>1, <2>2, <2>3, <2>4
  <1>6. op'[k].place \in Linked => task'.cand # 0
    BY <1>1, <1>2, <1>3 DEF Nourishes, Fed
  <1>7. op'[k].place \in Moving => op'[k].next # 0
    BY <1>1 DEF Nourishes, Fed
  <1>8. Unparked => Unparked'
    BY <1>5 DEF Unparked
  <1> QED
    BY <1>1, <1>3, <1>4, <1>5, <1>6, <1>7, <1>8 DEF Fed

\* Every step keeps that; but a restart starts a runner for a download that is parked.
LEMMA NextFed ==
  ASSUME Typed, Driven, WithinBudget, Fed, [Next]_vars
  PROVE  Fed' /\ (MaxCrashes = 0 /\ Unparked => Unparked')
  <1>1. CASE OtherStep
    BY <1>1, OtherStepLinks, OtherStepLives DEF Fed, Unparked, IsLive
  <1>2. CASE CrashAndResume
    <2>1. MaxCrashes # 0
      BY <1>2, TypedParts, CrashActs
    <2>2. \A r \in Runners: runner'[r].place \in Seeking /\ runner'[r].place \notin Switching
      BY <1>2, CrashActs DEF Seeking, Switching
    <2>3. \A k \in Callers: op'[k].place \notin Linked \union Moving
      BY <1>2, CrashActs DEF Linked, Stopping, Reimporting, Moving
    <2> QED
      BY <1>2, <2>1, <2>2, <2>3, CrashActs DEF Fed
  <1>3. CASE UNCHANGED vars
    BY <1>3 DEF vars, Fed, Unparked, IsLive
  <1> QED
    BY <1>1, <1>2, <1>3, NextCases, RunnerStepFed, RequestStepFed

\* A download begins without a candidate, and without rows.
LEMMA InitFed ==
  ASSUME Init
  PROVE  Fed /\ Unparked
  <1>1. /\ ~task.job /\ Len(attempts) = 0
        /\ \A r \in Runners: runner[r].place \in {"idle", "start"}
        /\ \A k \in Callers: op[k].place = "idle"
    BY InitTyped DEF Init
  <1> QED
    BY <1>1 DEF Fed, Unparked, Seeking, Switching, Linked, Moving, Stopping, Reimporting

\* The one request finds the runner that way.
LEMMA NextSingle ==
  ASSUME OneRequest, Typed, Driven, Single, "pick" \in Actors => Unparked, [Next]_vars
  PROVE  Single'
  <1>1. ASSUME NEW r \in Runners, RunnerStep(r) PROVE Single'
    <2>1. /\ UNCHANGED op /\ IsLive(r) /\ \A q \in Runners \ {r}: runner'[q] = runner[q]
      BY <1>1, RunnerStepLives
    <2>2. (\A k \in Callers: op[k].place = "idle") => Quiet'
      BY <1>1, RunnerStepQuiet DEF Single
    <2>3. runner[r].place = "tidy" => runner'[r].place = "idle"
      BY <1>1, TidyOnly, TidyActs DEF Ends, Sits
    <2> QED
      BY <2>1, <2>2, <2>3 DEF Single, IsLive
  <1>2. ASSUME NEW k \in Callers, RequestStep(k) \/ Request(k) PROVE Single'
    <2>1. \A q \in Callers: q = k
      BY DEF OneRequest
    <2>2. op'[k].place # "idle"
      BY <1>2, RequestPlaces
    <2>3. ASSUME op'[k].place = "cancel", NEW r \in Runners PROVE runner'[r].place = "idle"
      BY <1>2, <2>3, RequestPlaces DEF Stops, Off, Driven, IsLive
    <2>4. ASSUME op'[k].place \in Reimporting, NEW r \in Runners
          PROVE  runner'[r].place \in {"idle", "tidy"}
      BY <1>2, <2>1, <2>4, RequestPlaces DEF Single, Quiet
    <2>5. ASSUME op'[k].place = "pick"
          PROVE  task'.cand = 0 /\ \A r \in Runners: ~IsLive(r)'
      BY <1>2, <2>5, RequestPlaces DEF Parked, Unparked, IsLive
    <2> QED
      BY <2>1, <2>2, <2>3, <2>4, <2>5 DEF Single
  <1>3. CASE OtherStep
    <2>1. UNCHANGED <<runner, op>> /\ task'.cand = task.cand
      BY <1>3, OtherStepLives, OtherStepLinks
    <2>2. (\A k \in Callers: op[k].place = "idle") => Quiet'
      BY <1>3, OtherStepQuiet DEF Single
    <2> QED
      BY <2>1, <2>2 DEF Single, IsLive
  <1>4. CASE CrashAndResume
    BY <1>4, CrashQuiets, CrashActs DEF Single, Reimporting
  <1>5. CASE UNCHANGED vars
    BY <1>5 DEF vars, Single, Quiet, IsLive
  <1> QED
    BY <1>1, <1>2, <1>3, <1>4, <1>5, NextCases

\* All of that.
Sole ==
  /\ Typed /\ Locked /\ Driven /\ WithinBudget /\ Journaled /\ Single
  /\ Fed /\ ("pick" \in Actors => Unparked)

\* A download begins so, ...
LEMMA InitSole ==
  ASSUME Init
  PROVE  Sole
  <1>1. /\ task.status = "queued" /\ task.cand = 0 /\ ~task.job /\ ~reaping /\ Len(attempts) = 0
        /\ \A r \in Runners: runner[r].place \in {"idle", "start"}
        /\ \A k \in Callers: op[k].place = "idle"
    BY InitTyped DEF Init
  <1>2. WithinBudget
    BY <1>1 DEF WithinBudget, Switching, Moving, Reimporting
  <1>3. Single
    BY <1>1, InitTyped DEF Single, Quiet, Stopping, Reimporting, Ended, IsLive
  <1>4. Fed /\ Unparked
    BY InitFed
  <1> QED
    BY <1>2, <1>3, <1>4, InitTyped, InitDriven, InitJournaled DEF Sole

\* ... and stays so.
LEMMA NextSole ==
  ASSUME OneRequest, "pick" \notin Actors \/ MaxCrashes = 0, Sole, [Next]_vars
  PROVE  Sole' /\ (task.cand # 0 /\ task'.cand # task.cand => MaySwitch)
  <1>1. Undisturbed /\ Unmixed /\ Picked
    BY SingleApart DEF Sole
  <1>2. Typed' /\ Locked' /\ Driven' /\ Journaled'
    BY <1>1, NextTyped, NextLocked, StepDriven, NextJournals DEF Sole
  <1>3. WithinBudget' /\ (task.cand # 0 /\ task'.cand # task.cand => MaySwitch)
    BY <1>1, NextWithin DEF Sole
  <1>4. Single'
    BY NextSingle DEF Sole
  <1>5. Fed' /\ ("pick" \in Actors => Unparked')
    BY NextFed DEF Sole
  <1> QED
    BY <1>2, <1>3, <1>4, <1>5 DEF Sole

\* Where nothing restarts, the one request there is never leads to a second runner, not even
\* when it is a pick, which _dispatch starts without a look at who runs: a parked search has
\* no runner, and a download with a runner or with rows has a candidate, or is not parked yet.
THEOREM OneRequestIsReached ==
  ASSUME OneRequest, MaxCrashes = 0
  PROVE  Spec => []CancelReachesRunner
  <1>1. Sole /\ [Next]_vars => Sole'
    BY NextSole
  <1>2. Sole => CancelReachesRunner
    BY DEF Sole, Driven, CancelReachesRunner
  <1> QED
    BY <1>1, <1>2, InitSole, PTL DEF Spec

\* What a peer has queued or sends is covered by an attempt that is not settled, also when
\* the one request is a cancel, a re-import or a manual switch, in whatever state it finds the
\* runner, or a pick where nothing restarts.  Of two requests this is not so: see
\* NothingRunsUnseen.
THEOREM OneRequestIsSeen ==
  ASSUME OneRequest, "pick" \notin Actors \/ MaxCrashes = 0
  PROVE  Spec => []TransfersJournaled
  <1>1. Sole /\ [Next]_vars => Sole'
    BY NextSole
  <1>2. Sole => TransfersJournaled
    BY DEF Sole, Journaled, Covered, TransfersJournaled, Sending, Asked, Peer
  <1> QED
    BY <1>1, <1>2, InitSole, PTL DEF Spec

\* The switches stay within the failover limit, the manual one and those of the runner it
\* dispatches included: the limit that a request looks at is used before a runner adds a row.
THEOREM OneRequestInBudget ==
  ASSUME OneRequest, "pick" \notin Actors \/ MaxCrashes = 0
  PROVE  Spec => SwitchesInBudget
  <1>1. Sole /\ [Next]_vars => Sole'
    BY NextSole
  <1>2. Sole /\ [Next]_vars =>
          [task.cand # 0 /\ task'.cand # task.cand => Len(attempts) < MaxFailover]_vars
    BY NextSole DEF MaySwitch
  <1> QED
    BY <1>1, <1>2, InitSole, PTL DEF Spec, SwitchesInBudget
-----------------------------------------------------------------------------
(* Ends that are final.                                                     *)

\* Re-imports, settlements and retries are all the requests there are.
Sorting == Reimporting \union {"settle", "retry"}
Sorted == \A k \in Callers: op[k].place \in Sorting \union {"idle", "done"}

\* Their steps.
LEMMA SortedSteps ==
  ASSUME Actors \subseteq {"reimport", "settle", "retry", "reap", "import"}, Sorted,
         NEW k \in Callers, RequestStep(k) \/ Request(k)
  PROVE  \/ ReimportAsk(k) \/ ReimportAcquire(k) \/ ReimportStart(k) \/ ReimportFinish(k)
         \/ SettleAsk(k) \/ SettleWrite(k) \/ RetryAsk(k) \/ RetryWrite(k)
  <1>1. "cancel" \notin Actors /\ "next" \notin Actors /\ "pick" \notin Actors
    OBVIOUS
  <1>2. ~CancelAsk(k) /\ ~NextAsk(k) /\ ~PickAsk(k)
    BY <1>1 DEF CancelAsk, NextAsk, PickAsk, Asks
  <1>3. op[k].place \in {"reimport", "reimport_start", "reimport_import", "settle", "retry", "idle",
                         "done"}
    BY DEF Sorted, Sorting, Reimporting
  <1>4. /\ ~CancelCommit(k) /\ ~CancelTidy(k) /\ ~NextLook(k) /\ ~NextStop(k) /\ ~NextVerify(k)
        /\ ~NextAbort(k) /\ ~NextSchedule(k) /\ ~NextLink(k) /\ ~NextDispatch(k) /\ ~PickLink(k)
    BY <1>3 DEF CancelCommit, CancelTidy, NextLook, NextStop, NextVerify, NextAbort, NextSchedule,
                NextLink, NextDispatch, PickLink
  <1> QED
    BY <1>2, <1>4 DEF RequestStep, Request

\* What they do, and which actor asks for them.
LEMMA SortedActs ==
  ASSUME Actors \subseteq {"reimport", "settle", "retry", "reap", "import"}, Typed, Sorted,
         NEW k \in Callers, RequestStep(k) \/ Request(k)
  PROVE  /\ UNCHANGED <<runner, reaping>> /\ \A q \in Callers \ {k}: op'[q] = op[q]
         /\ op'[k].place \in Sorting \union {"done"}
         /\ op'[k].place \in Reimporting =>
              \/ op[k].place \in Reimporting
              \/ "reimport" \in Actors /\ task.status \in Ended /\ task' = task
         /\ op'[k].place = "settle" => "settle" \in Actors
         /\ op'[k].place = "retry" =>
              "retry" \in Actors /\ task.status \in Terminal /\ task' = task
         /\ \/ task'.status = task.status
            \/ op[k].place = "retry" /\ task'.status = "completed"
            \/ op[k].place = "settle"
            \/ op[k].place \in Reimporting /\ task'.status = "processing"
            \/ op[k].place \in Reimporting /\ op'[k].place = "done"
         /\ op[k].place \notin Reimporting /\ op'[k].place \notin Reimporting => lock' = lock
  <1> USE DEF Sorting, Reimporting, Ended
  <1>f. UNCHANGED reaping /\ \A q \in Callers \ {k}: op'[q] = op[q]
    BY RequestStepLives
  <1>1. CASE ReimportAsk(k)
    BY <1>1, <1>f, ReimportAskActs DEF Stands
  <1>2. CASE ReimportAcquire(k)
    BY <1>2, <1>f, ReimportAcquireActs DEF Stands, Done
  <1>3. CASE ReimportStart(k)
    BY <1>3, <1>f, ReimportStartActs DEF Stands, Steps, Tasked
  <1>4. CASE ReimportFinish(k)
    BY <1>4, <1>f, ReimportFinishActs DEF Stands, Done
  <1>5. CASE SettleAsk(k)
    BY <1>5, <1>f, SettleAskActs DEF Stands
  <1>6. CASE SettleWrite(k)
    BY <1>6, <1>f, SettleWriteActs DEF Stands, Done
  <1>7. CASE RetryAsk(k)
    <2>1. task.status \in Terminal
      BY <1>7 DEF RetryAsk, Terminal
    <2> QED
      BY <1>7, <1>f, <2>1, RetryAskActs DEF Stands, Steps
  <1>8. CASE RetryWrite(k)
    BY <1>8, <1>f, RetryWriteActs DEF Stands, Done, Tasked
  <1> QED
    BY <1>1, <1>2, <1>3, <1>4, <1>5, <1>6, <1>7, <1>8, SortedSteps

\* Either the reaper is about, and retries, or re-imports are; and nothing else that writes.
OneSort == Actors \subseteq {"reap", "retry", "import"} \/ Actors \subseteq {"reimport", "import"}

\* A runner that is at work has a download that goes on, and knows no other; the reaper has
\* found one that goes on and that nobody works on; a retry comes to one that has ended, and a
\* re-import to one that is not complete.
Concluding ==
  /\ \A r \in Runners: runner[r].place \notin {"idle", "tidy"} =>
       task.status \notin Terminal /\ runner[r].status \notin Terminal
  /\ reaping => /\ "reap" \in Actors /\ task.status \in {"downloading", "processing"}
                /\ \A r \in Runners: ~IsLive(r)
  /\ \A k \in Callers:
       /\ op[k].place \in Reimporting \union {"idle", "done", "retry"}
       /\ op[k].place = "retry" => "retry" \in Actors /\ task.status \in Terminal
       /\ op[k].place \in Reimporting =>
            /\ "reimport" \in Actors /\ task.status # "completed"
            /\ \A r \in Runners: runner[r].place \in {"idle", "tidy"}

\* How the status may change then.
Lasting ==
  /\ task.status = "completed" => task'.status = "completed"
  /\ task.status \in Ended => task'.status = task.status \/ "retry" \in Actors \/ "reimport" \in Actors

\* A runner keeps that: it writes a verdict on its way out only.
LEMMA RunnerStepConcludes ==
  ASSUME Typed, Driven, Concluding, NEW r \in Runners, RunnerStep(r)
  PROVE  Concluding' /\ Lasting
  <1>l. /\ IsLive(r) /\ UNCHANGED <<op, reaping>> /\ \A q \in Runners \ {r}: runner'[q].place = "idle"
    BY RunnerStepLives DEF Driven, IsLive
  <1>r. ~reaping
    BY <1>l DEF Concluding
  <1>1. CASE runner[r].place = "tidy"
    <2>1. runner'[r].place = "idle" /\ UNCHANGED task
      BY <1>1, TidyOnly, TidyActs DEF Ends, Sits
    <2>2. \A q \in Runners: runner'[q].place = "idle"
      BY <1>l, <2>1
    <2> QED
      BY <1>l, <1>r, <2>1, <2>2 DEF Concluding, Lasting
  <1>2. CASE runner[r].place # "tidy"
    <2>1. /\ task.status \notin Terminal /\ runner[r].status \notin Terminal
          /\ \A k \in Callers: op[k].place \in {"idle", "done"}
      BY <1>l, <1>2 DEF Concluding, IsLive
    <2>2. runner'[r].status \notin Terminal
          /\ (runner'[r].place \notin {"idle", "tidy"} => task'.status \notin Terminal)
      BY <2>1, RunnerStepStatus DEF Terminal
    <2>3. Lasting
      BY <2>1 DEF Lasting, Terminal, Ended
    <2> QED
      BY <1>l, <1>r, <2>1, <2>2, <2>3 DEF Concluding, Reimporting
  <1> QED
    BY <1>1, <1>2

\* A request does: a re-import holds the lock to its end.
LEMMA RequestStepConcludes ==
  ASSUME OneSort, Typed, Locked, Concluding, NEW k \in Callers, RequestStep(k) \/ Request(k)
  PROVE  Concluding' /\ Lasting
  <1>a. /\ Actors \subseteq {"reimport", "settle", "retry", "reap", "import"}
        /\ "settle" \notin Actors /\ ("reimport" \in Actors => "retry" \notin Actors /\ "reap" \notin Actors)
    BY DEF OneSort
  <1>b. Sorted
    BY DEF Concluding, Sorted, Sorting
  <1>c. op[k].place # "settle"
    BY DEF Concluding, Reimporting
  <1>1. /\ UNCHANGED <<runner, reaping>> /\ \A q \in Callers \ {k}: op'[q] = op[q]
        /\ op'[k].place \in Reimporting \union {"retry", "done"}
    BY <1>a, <1>b, SortedActs DEF Sorting
  <1>2. CASE op[k].place \in Reimporting
    <2>1. /\ "reimport" \in Actors /\ task.status # "completed" /\ ~reaping
          /\ \A r \in Runners: runner[r].place \in {"idle", "tidy"}
          /\ \A q \in Callers: op[q].place # "retry"
      BY <1>2, <1>a DEF Concluding
    <2>2. \A q \in Callers \ {k}: op[q].place \notin Reimporting
      BY <1>2 DEF Locked, Locking, Reimporting
    <2>3. op'[k].place \in Reimporting => task'.status # "completed"
      BY <1>2, <1>a, <1>b, <2>1, SortedActs DEF Reimporting
    <2>4. op'[k].place # "retry"
      BY <1>a, <1>b, <2>1, SortedActs
    <2>5. Lasting
      BY <2>1 DEF Lasting
    <2> QED
      BY <1>1, <2>1, <2>2, <2>3, <2>4, <2>5 DEF Concluding
  <1>3. CASE op[k].place = "retry"
    <2>1. /\ task.status \in Terminal /\ "retry" \in Actors /\ "reimport" \notin Actors
          /\ \A r \in Runners: runner[r].place \in {"idle", "tidy"}
      BY <1>3, <1>a DEF Concluding
    <2>2. task'.status \in {task.status, "completed"} /\ "completed" \in Terminal
      BY <1>3, <1>a, <1>b, SortedActs DEF Reimporting, Terminal
    <2>3. ~reaping
      BY <2>1 DEF Concluding, Terminal
    <2>4. op'[k].place \notin Reimporting
      BY <1>3, <1>a, <1>b, <2>1, SortedActs DEF Reimporting
    <2>5. \A q \in Callers: op[q].place \notin Reimporting
      BY <2>1 DEF Concluding
    <2>6. task'.status \in Terminal /\ Lasting
      BY <2>1, <2>2 DEF Lasting
    <2> QED
      BY <1>1, <2>1, <2>3, <2>4, <2>5, <2>6 DEF Concluding
  <1>4. CASE op[k].place \in {"idle", "done"}
    <2>1. task'.status = task.status
      BY <1>4, <1>a, <1>b, SortedActs DEF Reimporting
    <2>2. op'[k].place \in Reimporting => "reimport" \in Actors /\ task.status \in Ended
      BY <1>4, <1>a, <1>b, SortedActs DEF Reimporting
    <2>3. task.status \in Ended => /\ task.status # "completed"
                                   /\ \A r \in Runners: runner[r].place \in {"idle", "tidy"}
      BY DEF Concluding, Ended, Terminal
    <2>4. op'[k].place = "retry" => "retry" \in Actors /\ task.status \in Terminal
      BY <1>a, <1>b, SortedActs
    <2> QED
      BY <1>1, <2>1, <2>2, <2>3, <2>4 DEF Concluding, Lasting, IsLive
  <1> QED
    BY <1>2, <1>3, <1>4, <1>c DEF Concluding

\* So do the reaper, who fails what he has found, and whatever else happens.
LEMMA OtherStepConcludes ==
  ASSUME OneSort, Typed, Driven, Concluding, OtherStep
  PROVE  Concluding' /\ Lasting
  <1>1. UNCHANGED <<runner, op, tracked>>
    BY OtherStepLives
  <1>2. CASE ReapFind
    <2>1. /\ tracked = NoRunner /\ task' = task /\ "reap" \in Actors
          /\ task.status \in {"downloading", "processing"}
      BY <1>2, ReapFindActs
    <2>2. \A r \in Runners: ~IsLive(r)
      BY <2>1, NoRunnerAssumption DEF Driven
    <2> QED
      BY <1>1, <2>1, <2>2 DEF Concluding, Lasting, IsLive
  <1>3. CASE ReapFail
    <2>1. reaping /\ ~reaping' /\ task'.status = "failed"
      BY <1>3, ReapFailActs DEF Tasked
    <2>2. /\ \A r \in Runners: runner[r].place = "idle"
          /\ "reap" \in Actors /\ task.status \in {"downloading", "processing"}
      BY <2>1 DEF Concluding, IsLive
    <2>3. \A k \in Callers: op[k].place \in {"idle", "done"}
      BY <2>2 DEF Concluding, OneSort, Terminal
    <2> QED
      BY <1>1, <2>1, <2>2, <2>3 DEF Concluding, Lasting, Ended, Reimporting
  <1>4. ASSUME task'.status = task.status, UNCHANGED reaping PROVE Concluding' /\ Lasting
    BY <1>1, <1>4 DEF Concluding, Lasting, IsLive
  <1>5. ASSUME NEW c \in 1..Peers, TransferMoves(c) PROVE Concluding' /\ Lasting
    BY <1>4, <1>5, TransferMovesActs
  <1>6. ASSUME NEW i \in 1..Len(attempts), CleanupSettles(i) PROVE Concluding' /\ Lasting
    BY <1>4, <1>6, CleanupSettlesActs
  <1>7. ASSUME Ages PROVE Concluding' /\ Lasting
    BY <1>4, <1>7, AgesActs DEF Tasked
  <1>8. ASSUME OtherImport PROVE Concluding' /\ Lasting
    BY <1>4, <1>8 DEF OtherImport, rows
  <1> QED
    BY <1>2, <1>3, <1>5, <1>6, <1>7, <1>8 DEF OtherStep

\* Every step does.
LEMMA NextConcludes ==
  ASSUME OneSort, Typed, Locked, Driven, Concluding, [Next]_vars
  PROVE  Concluding' /\ Lasting
  <1>1. CASE CrashAndResume
    <2>1. /\ UNCHANGED task /\ ~reaping' /\ \A k \in Callers: op'[k].place \in {"idle", "done"}
          /\ \A r \in Runners: runner'[r].place # "idle" =>
               task.status \notin Terminal /\ runner'[r].status = "queued"
      BY <1>1, CrashActs
    <2> QED
      BY <2>1 DEF Concluding, Lasting, Reimporting, Terminal
  <1>2. CASE UNCHANGED vars
    BY <1>2 DEF vars, Concluding, Lasting, IsLive
  <1> QED
    BY <1>1, <1>2, NextCases, RunnerStepConcludes, RequestStepConcludes, OtherStepConcludes

\* A download begins unfinished.
LEMMA InitConcluding ==
  ASSUME Init
  PROVE  Concluding
  <1>1. task.status = "queued" /\ ~reaping
    BY DEF Init
  <1> QED
    BY <1>1, InitTyped DEF Concluding, Reimporting, Terminal

\* All that is kept, where nothing switches by hand.
LEMMA ConcludingKept ==
  ASSUME OneSort
  PROVE  /\ Init => Typed /\ Locked /\ Driven /\ Unpicked /\ Concluding
         /\ Typed /\ Locked /\ Driven /\ Unpicked /\ Concluding /\ [Next]_vars =>
              (Typed /\ Locked /\ Driven /\ Unpicked /\ Concluding)' /\ Lasting
  <1>1. "pick" \notin Actors
    BY DEF OneSort
  <1> QED
    BY <1>1, InitTyped, InitDriven, InitConcluding, NextTyped, NextLocked, NextDriven, NextConcludes

\* A completed download is final (status.py: "no further automatic transition") whatever the
\* runner, the reaper and restarts do, and whether it is retried or imported again: it takes a
\* cancel, a settlement, a pick or a manual switch to write over a completed download, or the
\* reaper or a retry that meets a re-import.
THEOREM CompletedStays ==
  ASSUME OneSort
  PROVE  Spec => CompletedIsFinal
  <1> DEFINE Inv == Typed /\ Locked /\ Driven /\ Unpicked /\ Concluding
  <1>1. Init => Inv
    BY ConcludingKept
  <1>2. Inv /\ [Next]_vars => Inv'
    BY ConcludingKept
  <1>3. Inv /\ [Next]_vars => [task.status = "completed" => task'.status = "completed"]_vars
    BY ConcludingKept DEF Lasting
  <1> QED
    BY <1>1, <1>2, <1>3, PTL DEF Spec, CompletedIsFinal

\* So is one that failed or fell short, until it is retried or imported again: neither the
\* runner nor the reaper, who failed it or found it a moment before, touches it any more.
THEOREM EndedStays ==
  ASSUME Actors \subseteq {"reap", "import"}
  PROVE  Spec => EndedStaysEnded
  <1> DEFINE Inv == Typed /\ Locked /\ Driven /\ Unpicked /\ Concluding
  <1>0. OneSort /\ "retry" \notin Actors /\ "reimport" \notin Actors
    BY DEF OneSort
  <1>1. Init => Inv
    BY <1>0, ConcludingKept
  <1>2. Inv /\ [Next]_vars => Inv'
    BY <1>0, ConcludingKept
  <1>3. Inv /\ [Next]_vars =>
          [task.status \in {"failed", "partial"} => task'.status = task.status]_vars
    BY <1>0, ConcludingKept DEF Lasting, Ended
  <1> QED
    BY <1>1, <1>2, <1>3, PTL DEF Spec, EndedStaysEnded

\* Nobody has the lock, and nobody is about to take it.
Unlocked == lock = NoCaller /\ \A k \in Callers: op[k].place \in {"idle", "done", "settle", "retry"}

\* That stays so where only downloads are settled and retried.
LEMMA NextUnlocked ==
  ASSUME Actors \subseteq {"settle", "retry", "reap", "import"}, Typed, Unlocked, [Next]_vars
  PROVE  Unlocked'
  <1>1. ASSUME NEW r \in Runners, RunnerStep(r) PROVE Unlocked'
    BY <1>1, RunnerStepLives DEF Unlocked
  <1>2. ASSUME NEW k \in Callers, RequestStep(k) \/ Request(k) PROVE Unlocked'
    <2>1. Sorted /\ Actors \subseteq {"reimport", "settle", "retry", "reap", "import"}
      BY DEF Unlocked, Sorted, Sorting
    <2>2. /\ \A q \in Callers \ {k}: op'[q] = op[q]
          /\ op'[k].place \in Sorting \union {"done"}
          /\ op'[k].place \in Reimporting => op[k].place \in Reimporting \/ "reimport" \in Actors
          /\ op[k].place \notin Reimporting /\ op'[k].place \notin Reimporting => lock' = lock
      BY <1>2, <2>1, SortedActs
    <2>3. op[k].place \notin Reimporting /\ op'[k].place \notin Reimporting
      BY <2>2 DEF Unlocked, Reimporting
    <2> QED
      BY <2>2, <2>3 DEF Unlocked, Sorting
  <1>3. CASE OtherStep
    BY <1>3, OtherStepLives DEF Unlocked
  <1>4. CASE CrashAndResume
    BY <1>4, CrashActs DEF Unlocked
  <1>5. CASE UNCHANGED vars
    BY <1>5 DEF vars, Unlocked
  <1> QED
    BY <1>1, <1>2, <1>3, <1>4, <1>5, NextCases

\* The reaper fails only what nobody works on (reap_stale_tasks: "Only a genuinely unowned,
\* unpolled task (stale last_polled_at) is aged out"), though it decides from what it has
\* found a step before, while runners, settlements, retries and restarts go on: it takes a
\* request that holds the operation lock, a re-import, a switch or a cancel, or a pick, to
\* come in between.
THEOREM ReaperIsAlone ==
  ASSUME Actors \subseteq {"settle", "retry", "reap", "import"}
  PROVE  Spec => ReapsOnlyUnowned
  <1> DEFINE Inv == Typed /\ Locked /\ Driven /\ Unpicked /\ Quiet /\ Unlocked
  <1>0. "pick" \notin Actors /\ "next" \notin Actors
    OBVIOUS
  <1>1. Init => Inv
    <2> SUFFICES ASSUME Init PROVE Inv
      OBVIOUS
    <2>1. task.status = "queued" /\ reaping = FALSE /\ lock = NoCaller
      BY DEF Init
    <2>2. Quiet /\ Unlocked
      BY <2>1, InitTyped DEF Quiet, Unlocked, Ended, Stopping, Reimporting
    <2> QED
      BY <2>2, InitTyped, InitDriven
  <1>2. Inv /\ [Next]_vars => Inv'
    BY <1>0, NextTyped, NextLocked, NextDriven, NextQuiet, NextUnlocked
  <1>3. Inv => [reaping /\ ~reaping' /\ task' # task =>
                  lock = NoCaller /\ \A r \in Runners: ~IsLive(r)]_vars
    BY DEF Quiet, Unlocked
  <1> QED
    BY <1>1, <1>2, <1>3, PTL DEF Spec, ReapsOnlyUnowned
-----------------------------------------------------------------------------
(* A download that nobody drives.                                           *)

\* How a runner leaves a download, and what it does before it has a candidate.
Rests(r) ==
  /\ runner[r].place # "tidy" /\ runner'[r].place \in {"idle", "tidy"} =>
       \/ task'.status \in Terminal
       \/ /\ runner[r].place = "search"
          /\ task'.status = task.status /\ task'.cand = 0 /\ task'.job = TRUE
  /\ runner[r].place \in Seeking => task'.status \in {task.status, "failed"}

\* It concludes, or parks what it has searched.
LEMMA RunnerStepRests ==
  ASSUME Typed, NEW r \in Runners, RunnerStep(r)
  PROVE  Rests(r)
  <1>1. ASSUME ProcessTask(r) PROVE Rests(r)
    BY <1>1, ProcessTaskActs
       DEF Rests, Seeking, Terminal, Cancelled, Sits, Walks, Reads, Ends, Polls, Finishes, Refused,
           Tasked
  <1>2. ASSUME ResumeTask(r) PROVE Rests(r)
    BY <1>2, ResumeTaskActs
       DEF Rests, Seeking, Terminal, Cancelled, Sits, Walks, Reads, Ends, Polls, Finishes, Refused,
           Tasked
  <1>3. ASSUME Search(r) PROVE Rests(r)
    BY <1>3, SearchActs
       DEF Rests, Seeking, Terminal, Cancelled, Sits, Walks, Reads, Ends, Polls, Finishes, Refused,
           Tasked
  <1>4. ASSUME Prepare(r) PROVE Rests(r)
    BY <1>4, PrepareActs
       DEF Rests, Seeking, Terminal, Cancelled, Sits, Walks, Reads, Ends, Polls, Finishes, Refused,
           Tasked
  <1>5. ASSUME Open(r) PROVE Rests(r)
    BY <1>5, OpenActs
       DEF Rests, Seeking, Terminal, Cancelled, Sits, Walks, Reads, Ends, Polls, Finishes, Refused,
           Tasked
  <1>6. ASSUME Journal(r) PROVE Rests(r)
    BY <1>6, JournalActs
       DEF Rests, Seeking, Terminal, Cancelled, Sits, Walks, Reads, Ends, Polls, Finishes, Refused,
           Tasked
  <1>7. ASSUME Send(r) PROVE Rests(r)
    BY <1>7, SendActs
       DEF Rests, Seeking, Terminal, Cancelled, Sits, Walks, Reads, Ends, Polls, Finishes, Refused,
           Tasked
  <1>8. ASSUME Outage(r) PROVE Rests(r)
    BY <1>8, OutageActs
       DEF Rests, Seeking, Terminal, Cancelled, Sits, Walks, Reads, Ends, Polls, Finishes, Refused,
           Tasked
  <1>9. ASSUME Handle(r) PROVE Rests(r)
    BY <1>9, HandleActs
       DEF Rests, Seeking, Terminal, Cancelled, Sits, Walks, Reads, Ends, Polls, Finishes, Refused,
           Tasked
  <1>10. ASSUME PollStops(r) PROVE Rests(r)
    BY <1>10, PollStopsActs
       DEF Rests, Seeking, Terminal, Cancelled, Sits, Walks, Reads, Ends, Polls, Finishes, Refused,
           Tasked
  <1>11. ASSUME PollGoesOn(r) PROVE Rests(r)
    BY <1>11, PollGoesOnActs
       DEF Rests, Seeking, Terminal, Cancelled, Sits, Walks, Reads, Ends, Polls, Finishes, Refused,
           Tasked
  <1>12. ASSUME PollEnds(r) PROVE Rests(r)
    BY <1>12, PollEndsActs
       DEF Rests, Seeking, Terminal, Cancelled, Sits, Walks, Reads, Ends, Polls, Finishes, Refused,
           Tasked
  <1>13. ASSUME PollBreaks(r) PROVE Rests(r)
    BY <1>13, PollBreaksActs
       DEF Rests, Seeking, Terminal, Cancelled, Sits, Walks, Reads, Ends, Polls, Finishes, Refused,
           Tasked
  <1>14. ASSUME Recheck(r) PROVE Rests(r)
    BY <1>14, RecheckActs
       DEF Rests, Seeking, Terminal, Cancelled, Sits, Walks, Reads, Ends, Polls, Finishes, Refused,
           Tasked
  <1>15. ASSUME Prefer(r) PROVE Rests(r)
    BY <1>15, PreferActs
       DEF Rests, Seeking, Terminal, Cancelled, Sits, Walks, Reads, Ends, Polls, Finishes, Refused,
           Tasked
  <1>16. ASSUME Process(r) PROVE Rests(r)
    BY <1>16, ProcessActs
       DEF Rests, Seeking, Terminal, Cancelled, Sits, Walks, Reads, Ends, Polls, Finishes, Refused,
           Tasked
  <1>17. ASSUME Import(r) PROVE Rests(r)
    BY <1>17, ImportActs
       DEF Rests, Seeking, Terminal, Cancelled, Sits, Walks, Reads, Ends, Polls, Finishes, Refused,
           Tasked
  <1>18. ASSUME Decide(r) PROVE Rests(r)
    BY <1>18, DecideActs
       DEF Rests, Seeking, Terminal, Cancelled, Sits, Walks, Reads, Ends, Polls, Finishes, Refused,
           Tasked
  <1>19. ASSUME Abort(r) PROVE Rests(r)
    BY <1>19, AbortActs
       DEF Rests, Seeking, Terminal, Cancelled, Sits, Walks, Reads, Ends, Polls, Finishes, Refused,
           Tasked
  <1>20. ASSUME Schedule(r) PROVE Rests(r)
    BY <1>20, ScheduleStepActs
       DEF Rests, Seeking, Terminal, Cancelled, Sits, Walks, Reads, Ends, Polls, Finishes, Refused,
           Tasked
  <1>21. ASSUME Link(r) PROVE Rests(r)
    BY <1>21, LinkActs
       DEF Rests, Seeking, Terminal, Cancelled, Sits, Walks, Reads, Ends, Polls, Finishes, Refused,
           Tasked
  <1>22. ASSUME Reset(r) PROVE Rests(r)
    BY <1>22, ResetActs
       DEF Rests, Seeking, Terminal, Cancelled, Sits, Walks, Reads, Ends, Polls, Finishes, Refused,
           Tasked
  <1>23. ASSUME Finalize(r) PROVE Rests(r)
    <2>1. runner[r].verdict \in {"completed", "partial", "failed"}
      BY Fields DEF Verdicts
    <2> QED
      BY <1>23, <2>1, FinalizeActs DEF Rests, Seeking, Terminal, Walks, Sits, Tasked
  <1>24. ASSUME Tidy(r) PROVE Rests(r)
    BY <1>24, TidyActs
       DEF Rests, Seeking, Terminal, Cancelled, Sits, Walks, Reads, Ends, Polls, Finishes, Refused,
           Tasked
  <1>25. ASSUME Fail(r) PROVE Rests(r)
    BY <1>25, FailActs
       DEF Rests, Seeking, Terminal, Cancelled, Sits, Walks, Reads, Ends, Polls, Finishes, Refused,
           Tasked
  <1> QED
    BY <1>1, <1>2, <1>3, <1>4, <1>5, <1>6, <1>7, <1>8, <1>9, <1>10, <1>11, <1>12, <1>13,
       <1>14, <1>15, <1>16, <1>17, <1>18, <1>19, <1>20, <1>21, <1>22, <1>23, <1>24,
       <1>25 DEF RunnerStep

\* Who sees to it that a download goes on.
Minded ==
  \/ reaping
  \/ \E r \in Runners: runner[r].place \notin {"idle", "tidy"}
  \/ \E k \in Callers: op[k].place \in Reimporting \union {"cancel"}

\* A download that goes on has one of those, or is parked; one that is fetched or imported has
\* a candidate; and a re-import that has not begun finds it ended.
Cared ==
  /\ task.status \in Active => Parked \/ Minded
  /\ task.status \in {"downloading", "processing"} => task.cand # 0
  /\ \A k \in Callers:
       /\ op[k].place \in Reimporting \union {"idle", "done", "cancel", "cancel_tidy", "retry"}
       /\ op[k].place = "reimport" => task.status \in Terminal

\* A runner keeps that.
LEMMA RunnerStepCares ==
  ASSUME Typed, Driven, Quiet, WithinBudget, Fed, Cared, NEW r \in Runners, RunnerStep(r)
  PROVE  Cared'
  <1>l. /\ IsLive(r) /\ UNCHANGED <<op, reaping>> /\ Active \cap Terminal = {}
    BY RunnerStepLives DEF Active, Terminal
  <1>1. CASE runner[r].place = "tidy"
    <2>1. /\ UNCHANGED task /\ runner'[r].place = "idle"
          /\ \A q \in Runners \ {r}: runner'[q] = runner[q]
      BY <1>1, TidyOnly, TidyActs, RunnerStepLives DEF Ends, Sits
    <2>2. Minded => Minded'
      BY <1>1, <1>l, <2>1 DEF Minded
    <2> QED
      BY <1>l, <2>1, <2>2 DEF Cared, Parked
  <1>2. CASE runner[r].place # "tidy"
    <2>1. \A k \in Callers: op[k].place \notin Reimporting
      BY <1>2, <1>l DEF Quiet, IsLive
    <2>2. ASSUME task'.status \in {"downloading", "processing"} PROVE task'.cand # 0
      <3>1. task.cand # 0 => task'.cand # 0
        BY RunnerKeepsCandidate
      <3>2. CASE runner[r].place \notin Seeking
        BY <3>1, <3>2 DEF Fed
      <3>3. CASE runner[r].place \in Seeking
        BY <2>2, <3>1, <3>3, RunnerStepRests DEF Rests, Cared
      <3> QED
        BY <3>2, <3>3
    <2>3. ASSUME task'.status \in Active PROVE Parked' \/ Minded'
      <3>1. CASE runner'[r].place \notin {"idle", "tidy"}
        BY <3>1 DEF Minded
      <3>2. CASE runner'[r].place \in {"idle", "tidy"}
        <4>1. /\ runner[r].place = "search" /\ task'.status = task.status
              /\ task'.cand = 0 /\ task'.job = TRUE
          BY <1>2, <1>l, <2>3, <3>2, RunnerStepRests DEF Rests
        <4>2. task.cand = 0
          BY <4>1 DEF WithinBudget
        <4>3. task.status = "queued"
          BY <2>3, <4>1, <4>2 DEF Cared, Active
        <4> QED
          BY <4>1, <4>3 DEF Parked
      <3> QED
        BY <3>1, <3>2
    <2> QED
      BY <1>l, <2>1, <2>2, <2>3 DEF Cared, Reimporting
  <1> QED
    BY <1>1, <1>2

\* A request does: a cancel that has stopped the runner goes on until it has written, and a
\* re-import holds the lock until the verdict.
LEMMA RequestStepCares ==
  ASSUME Actors \subseteq {"cancel", "reimport", "retry", "reap", "import"}, Typed, Locked, Driven,
         Fed, Cared, NEW k \in Callers, RequestStep(k) \/ Request(k)
  PROVE  Cared'
  <1> USE DEF Reimporting
  <1>f. UNCHANGED reaping /\ \A q \in Callers \ {k}: op'[q] = op[q]
    BY RequestStepLives
  <1>d. Active \cap Terminal = {} /\ {"completed", "partial", "failed", "cancelled"} = Terminal
    BY DEF Active, Terminal
  \* Steps that end the download.
  <1>e. ASSUME task'.status \in Terminal, op'[k].place \in {"done", "cancel_tidy"} PROVE Cared'
    BY <1>d, <1>e, <1>f DEF Cared, Terminal
  \* Steps that leave it as it is.
  <1>s. ASSUME UNCHANGED <<task, runner>>,
               op[k].place \notin {"cancel", "reimport", "reimport_start", "reimport_import"},
               op'[k].place \in {"done", "retry"}
        PROVE  Cared'
    <2>1. Minded => Minded'
      BY <1>f, <1>s DEF Minded
    <2> QED
      BY <1>f, <1>s, <2>1 DEF Cared, Parked
  <1>1. CASE CancelAsk(k)
    <2>1. task' = task /\ op'[k].place = "cancel"
      BY <1>1, CancelAskActs DEF Steps, Stands
    <2>2. Minded'
      BY <2>1 DEF Minded
    <2> QED
      BY <1>f, <2>1, <2>2 DEF Cared
  <1>2. CASE CancelCommit(k)
    BY <1>2, <1>d, <1>e, CancelCommitActs DEF Steps, Stands, Tasked
  <1>3. CASE CancelTidy(k)
    BY <1>3, <1>s, CancelTidyActs DEF Done, Stands
  <1>4. CASE ReimportAsk(k)
    <2>1. task' = task /\ op'[k].place = "reimport" /\ task.status \in Terminal
      BY <1>4, <1>d, ReimportAskActs DEF Stands
    <2> QED
      BY <1>d, <1>f, <2>1 DEF Cared
  <1>5. CASE ReimportAcquire(k)
    <2>1. /\ task' = task /\ task.status \in Terminal /\ op'[k].place \in {"done", "reimport_start"}
      BY <1>5, ReimportAcquireActs DEF Stands, Done, Cared
    <2> QED
      BY <1>d, <1>f, <2>1 DEF Cared
  <1>6. CASE ReimportStart(k)
    <2>1. /\ op[k].place = "reimport_start" /\ op'[k].place = "reimport_import"
          /\ task'.cand = task.cand
      BY <1>6, ReimportStartActs DEF Steps, Stands, Tasked
    <2>2. task'.cand # 0 /\ Minded'
      BY <2>1 DEF Fed, Linked, Minded
    <2>3. \A q \in Callers \ {k}: op[q].place # "reimport"
      BY <2>1 DEF Locked, Locking
    <2> QED
      BY <1>f, <2>1, <2>2, <2>3 DEF Cared
  <1>7. CASE ReimportFinish(k)
    BY <1>7, <1>d, <1>e, ReimportFinishActs DEF Done, Stands, Tasked
  <1>8. CASE RetryAsk(k)
    BY <1>8, <1>s, RetryAskActs DEF Steps, Stands
  <1>9. CASE RetryWrite(k)
    BY <1>9, <1>d, <1>e, RetryWriteActs DEF Done, Stands, Tasked
  <1>10. \/ CancelAsk(k) \/ CancelCommit(k) \/ CancelTidy(k) \/ ReimportAsk(k) \/ ReimportAcquire(k)
         \/ ReimportStart(k) \/ ReimportFinish(k) \/ RetryAsk(k) \/ RetryWrite(k)
    <2>1. "next" \notin Actors /\ "pick" \notin Actors /\ "settle" \notin Actors
      OBVIOUS
    <2>2. ~NextAsk(k) /\ ~PickAsk(k) /\ ~SettleAsk(k)
      BY <2>1 DEF NextAsk, PickAsk, SettleAsk, Asks
    <2>3. op[k].place \in {"reimport", "reimport_start", "reimport_import", "idle", "done", "cancel",
                           "cancel_tidy", "retry"}
      BY DEF Cared
    <2>4. /\ ~NextLook(k) /\ ~NextStop(k) /\ ~NextVerify(k) /\ ~NextAbort(k) /\ ~NextSchedule(k)
          /\ ~NextLink(k) /\ ~NextDispatch(k) /\ ~PickLink(k) /\ ~SettleWrite(k)
      BY <2>3 DEF NextLook, NextStop, NextVerify, NextAbort, NextSchedule, NextLink, NextDispatch,
                  PickLink, SettleWrite
    <2> QED
      BY <2>2, <2>4 DEF RequestStep, Request
  <1> QED
    BY <1>1, <1>2, <1>3, <1>4, <1>5, <1>6, <1>7, <1>8, <1>9, <1>10

\* So do the reaper and a restart, which resumes what goes on.
LEMMA NextCares ==
  ASSUME Actors \subseteq {"cancel", "reimport", "retry", "reap", "import"}, Typed, Locked, Driven,
         Quiet, WithinBudget, Fed, Cared, [Next]_vars
  PROVE  Cared'
  <1>1. CASE OtherStep
    <2>0. UNCHANGED <<runner, op>> /\ task'.cand = task.cand /\ task'.job = task.job
      BY <1>1, OtherStepLives, OtherStepLinks
    <2>1. ASSUME task'.status = task.status, reaping => reaping' PROVE Cared'
      <3>1. Minded => Minded'
        BY <2>0, <2>1 DEF Minded
      <3> QED
        BY <2>0, <2>1, <3>1 DEF Cared, Parked
    <2>2. ASSUME ReapFail PROVE Cared'
      <3>1. task'.status = "failed"
        BY <2>2, ReapFailActs DEF Tasked
      <3> QED
        BY <2>0, <3>1 DEF Cared, Active, Terminal
    <2>3. ASSUME NEW c \in 1..Peers, TransferMoves(c) PROVE Cared'
      BY <2>1, <2>3, TransferMovesActs
    <2>4. ASSUME NEW i \in 1..Len(attempts), CleanupSettles(i) PROVE Cared'
      BY <2>1, <2>4, CleanupSettlesActs
    <2>5. ASSUME ReapFind PROVE Cared'
      BY <2>1, <2>5, ReapFindActs
    <2>6. ASSUME Ages PROVE Cared'
      BY <2>1, <2>6, AgesActs DEF Tasked
    <2>7. ASSUME OtherImport PROVE Cared'
      BY <2>1, <2>7 DEF OtherImport, rows
    <2> QED
      BY <1>1, <2>2, <2>3, <2>4, <2>5, <2>6, <2>7 DEF OtherStep
  <1>2. CASE CrashAndResume
    <2>1. /\ UNCHANGED task /\ \A k \in Callers: op'[k].place \in {"idle", "done"}
      BY <1>2, CrashActs
    <2>2. ASSUME task.status \in Active PROVE Minded'
      <3>1. /\ tracked' \in Runners
            /\ runner' = [r \in Runners |->
                 IF r # tracked' THEN Off
                 ELSE IF task.status = "queued" THEN [Off EXCEPT !.place = "start", !.listed = TRUE]
                 ELSE [Off EXCEPT !.place = "resume", !.name = "resume", !.listed = TRUE]]
        BY <1>2, <2>2 DEF CrashAndResume, Active, Terminal
      <3>2. runner'[tracked'].place \in {"start", "resume"}
        BY <3>1 DEF Off
      <3> QED
        BY <3>1, <3>2 DEF Minded
    <2> QED
      BY <2>1, <2>2 DEF Cared, Reimporting
  <1>3. CASE UNCHANGED vars
    <2>1. UNCHANGED <<task, runner, op, reaping>>
      BY <1>3 DEF vars
    <2>2. Minded => Minded'
      BY <2>1 DEF Minded
    <2> QED
      BY <2>1, <2>2 DEF Cared, Parked
  <1> QED
    BY <1>1, <1>2, <1>3, NextCases, RunnerStepCares, RequestStepCares

\* A download that counts as active has somebody who drives it, unless it is parked for a
\* person, whatever is cancelled, imported again, retried, reaped or restarted at the same
\* time: a runner ends with a verdict or with the search parked, a cancel goes on to its write,
\* and a restart resumes.  It takes a manual switch, which stops a runner and may give up, a
\* settlement, which writes the status it has read, or a pick to leave one behind.
THEOREM NoneIsLeft ==
  ASSUME Actors \subseteq {"cancel", "reimport", "retry", "reap", "import"}
  PROVE  Spec => []ActiveIsDriven
  <1> DEFINE Inv == Typed /\ Locked /\ Driven /\ Unpicked /\ Quiet /\ WithinBudget /\ Fed /\ Cared
  <1>0. "pick" \notin Actors /\ "next" \notin Actors
    OBVIOUS
  <1>1. Init => Inv
    <2> SUFFICES ASSUME Init PROVE Inv
      OBVIOUS
    <2>1. task.status = "queued" /\ task.cand = 0 /\ ~reaping
      BY DEF Init
    <2>2. WithinBudget
      BY <2>1, InitTyped DEF WithinBudget, Switching, Moving, Reimporting
    <2>3. Quiet
      BY <2>1, InitTyped DEF Quiet, Stopping, Reimporting, Ended, IsLive
    <2>4. Minded
      <3>1. /\ tracked \in Runners
            /\ runner = [r \in Runners |->
                 IF r = tracked THEN [Off EXCEPT !.place = "start", !.listed = TRUE] ELSE Off]
        BY DEF Init
      <3>2. runner[tracked].place = "start"
        BY <3>1 DEF Off
      <3> QED
        BY <3>1, <3>2 DEF Minded
    <2>5. Cared
      BY <2>1, <2>4, InitTyped DEF Cared, Reimporting
    <2> QED
      BY <2>2, <2>3, <2>5, InitTyped, InitDriven, InitFed
  <1>2. Inv /\ [Next]_vars => Inv'
    <2> SUFFICES ASSUME Inv, [Next]_vars PROVE Inv'
      OBVIOUS
    <2>1. Unmixed /\ Picked
      BY DEF Unmixed, Quiet, Stopping, Moving, Unpicked, Picked
    <2>2. Typed' /\ Locked' /\ Driven' /\ Unpicked' /\ Quiet' /\ WithinBudget'
      BY <1>0, <2>1, NextTyped, NextLocked, NextDriven, NextQuiet, NextWithin
    <2> QED
      BY <2>2, NextFed, NextCares
  <1>3. Inv => ActiveIsDriven
    BY DEF Cared, Minded, ActiveIsDriven, IsLive, Reimporting
  <1> QED
    BY <1>1, <1>2, <1>3, PTL DEF Spec
=============================================================================
