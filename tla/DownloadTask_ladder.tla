-------------------------- MODULE DownloadTask_ladder -------------------------
(***************************************************************************)
(* Failover implements the ladder of sources: the proof that a download,   *)
(* on top of what DownloadTask_proof shows of it, refines SourceLadder;    *)
(* and, with the ladder for as long as nobody has disturbed the runner,    *)
(* that one request leaves it one live row.                                *)
(***************************************************************************)
EXTENDS DownloadTask_rows

\* Nobody is asked.
Still == \A c \in 1..Peers: transfer[c] \notin Asked
\* The manifest names an attempt on the task's candidate.
Told == manifest # 0 /\ attempts[manifest].cand = task.cand

\* Only the task's candidate is asked, and while the download goes on the manifest tells a
\* runner that resumes it.
Base ==
  /\ \A c \in 1..Peers: transfer[c] \in Asked =>
       c = task.cand /\ (task.status \in Terminal \/ (task.status # "queued" /\ Told))
  /\ task.cand # 0 => task.job
  /\ manifest # 0 => task.cand # 0

\* The places of a runner that has nobody asked.
Calm == {"start", "search", "open", "journal", "send", "schedule", "link", "reset"}
\* Those of one whose candidate has been asked.
Telling == {"handle", "poll", "recheck", "prefer", "process", "import", "abort"}
\* Those of one that has no candidate yet.
Fresh == {"start", "resume", "search"}
\* Those of one that has the end of a transfer to deal with.
Ending == {"recheck", "process", "import", "decide"}

\* What a runner knows wherever it is: the download is going on, its candidate is the task's,
\* and nobody is asked before the next one is.
Rung(r) ==
  /\ runner[r].place \notin {"idle", "tidy"} =>
       task.status \notin Terminal /\ runner[r].status \notin Terminal
  /\ runner[r].place = "tidy" => task.status \in Terminal
  /\ runner[r].place # "outage"
  /\ runner[r].place \notin Fresh \union {"idle", "tidy", "fail"} => runner[r].cand = task.cand
  /\ runner[r].place \in Calm => Still
  /\ runner[r].place \in Fresh => ~runner[r].resuming
  /\ runner[r].place = "search" => task.cand = 0
  /\ runner[r].place = "prepare" =>
       IF runner[r].resuming THEN Told /\ (runner[r].status = "queued" => Still) ELSE Still
  /\ runner[r].place \in Telling => Told
  /\ runner[r].place = "poll" => attempts[runner[r].attempt].cand = task.cand
  /\ runner[r].place \in Ending /\ runner[r].outcome \notin {"timeout", "preferred"} => Still
  /\ runner[r].place \in {"process", "import", "decide"} => runner[r].outcome # "preferred"
  /\ runner[r].place = "decide" /\ runner[r].outcome = "timeout" => Told
  /\ runner[r].place \in {"abort", "schedule", "link"} => runner[r].next > task.cand
  /\ runner[r].place \in {"journal", "send"} => runner[r].cand # 0 /\ task.status # "queued"
  /\ runner[r].place \in {"send", "handle"} => attempts[runner[r].attempt].cand = task.cand

\* No request but a cancel or a retry is about, and none while a runner works.
Alone ==
  /\ \A k \in Callers: op[k].place \in {"idle", "done", "cancel", "cancel_tidy", "retry"}
  /\ \A r \in Runners: runner[r].place \notin {"idle", "tidy"} =>
       \A k \in Callers: op[k].place \in {"idle", "done"}
  /\ \A k \in Callers: op[k].place = "cancel_tidy" => task.status \in Terminal

\* A download on the ladder.
Laddered == Base /\ Alone /\ \A r \in Runners: Rung(r)

\* How a step moves on the ladder: transfers end, the task's candidate is asked, or the next
\* one is chosen.
Climbs ==
  \/ /\ task'.cand = task.cand
     /\ \A c \in 1..Peers: transfer'[c] \in Asked => transfer[c] \in Asked
  \/ /\ Still /\ task.cand # 0 /\ task'.cand = task.cand
     /\ \A c \in 1..Peers: transfer'[c] \in Asked => c = task.cand
  \/ Still /\ transfer' = transfer /\ task'.cand \in 1..Peers /\ task'.cand > task.cand
-----------------------------------------------------------------------------
\* Each of these is a step of the ladder.
LEMMA ClimbsLadder ==
  ASSUME Typed, Base, Climbs
  PROVE  [Ladder!Next]_<<task.cand, Sending>>
  <1>t. transfer \in [1..Peers -> TransferStates] /\ task.cand \in 0..Peers
    BY TypedParts, Fields
  <1>s. Sending \in SUBSET {task.cand}
    BY DEF Base, Sending, Asked
  <1>1. CASE /\ task'.cand = task.cand
             /\ \A c \in 1..Peers: transfer'[c] \in Asked => transfer[c] \in Asked
    <2>1. Sending' \in SUBSET Sending
      BY <1>1 DEF Sending, Asked
    <2>2. Sending' = {} \/ Sending' = Sending
      BY <2>1, <1>s
    <2> QED
      BY <2>2, <1>1 DEF Ladder!Next, Ladder!Ends
  <1>2. CASE /\ Still /\ task.cand # 0 /\ task'.cand = task.cand
             /\ \A c \in 1..Peers: transfer'[c] \in Asked => c = task.cand
    <2>1. Sending = {} /\ Sending' \in SUBSET {task.cand}
      BY <1>2 DEF Still, Sending, Asked
    <2>2. Sending' = {} \/ Sending' = {task.cand}
      BY <2>1
    <2> QED
      BY <2>1, <1>2 DEF Ladder!Next, Ladder!Ask
  <1>3. CASE Still /\ transfer' = transfer /\ task'.cand \in 1..Peers /\ task'.cand > task.cand
    <2>1. Sending = {} /\ Sending' = {}
      BY <1>3 DEF Still, Sending, Asked
    <2> QED
      BY <2>1, <1>3 DEF Ladder!Next, Ladder!Choose
  <1> QED
    BY <1>1, <1>2, <1>3 DEF Climbs

\* Without client calls that go wrong a peer is asked and answers, or is not asked.
LEMMA SendAnswers ==
  ASSUME Typed, MaxFaults = 0, NEW r \in Runners, Send(r)
  PROVE  Walks(r, "handle") \/ (Refused(r) /\ transfer' = transfer)
  <1>1. ~Fault
    BY TypedParts DEF Fault
  <1>2. CASE Goto(r, "handle")
    BY <1>2, Moves DEF Places
  <1>3. CASE /\ transfer' = transfer
             /\ runner' = [runner EXCEPT ![r] = [@ EXCEPT !.place = "decide", !.outcome = "none",
                                                           !.disposition = "discard"]]
    BY <1>3, RefusedMoves
  <1> QED
    BY <1>1, <1>2, <1>3 DEF Send

\* The rows keep their candidates.
Named == \A i \in 1..Len(attempts): attempts'[i].cand = attempts[i].cand

\* While the rows keep their candidates and the manifest its attempt, the same is told.
LEMMA SameTold ==
  ASSUME Typed, UNCHANGED manifest, task'.cand = task.cand, Named
  PROVE  Told' = Told
  <1>1. manifest = 0 \/ manifest \in 1..Len(attempts)
    BY TypedParts
  <1> QED
    BY <1>1 DEF Told, Named
\* Nothing is asked and the task keeps its candidate: then the same is still and told, and the
\* task keeps what Base says unless it goes back to the queue while its peer is asked.
LEMMA StaysOnRung ==
  ASSUME Typed, Base, Named, UNCHANGED <<transfer, manifest>>, task'.cand = task.cand,
         task'.job = task.job, task.status \notin Terminal \/ task'.status \in Terminal,
         task'.status = "queued" => Still \/ task.status = "queued"
  PROVE  Base' /\ Climbs /\ Still' = Still /\ Told' = Told
  <1>1. Told' = Told
    BY SameTold
  <1>2. Still' = Still
    BY DEF Still
  <1>3. Climbs
    BY DEF Climbs
  <1>4. ASSUME NEW c \in 1..Peers, transfer'[c] \in Asked
        PROVE  c = task'.cand /\ (task'.status \in Terminal \/ (task'.status # "queued" /\ Told'))
    <2>1. transfer[c] \in Asked /\ ~Still
      BY <1>4 DEF Still
    <2> QED
      BY <1>1, <2>1 DEF Base
  <1>5. (task'.cand # 0 => task'.job) /\ (manifest' # 0 => task'.cand # 0)
    BY DEF Base
  <1> QED
    BY <1>1, <1>2, <1>3, <1>4 DEF Base

\* A runner that steps stays on the ladder.
LEMMA RunnerStepLadders ==
  ASSUME Typed, MaxFaults = 0, Base, NEW r \in Runners, Rung(r), RunnerStep(r)
  PROVE  Base' /\ Rung(r)' /\ Climbs
  <1> DEFINE P == Base' /\ Rung(r)' /\ Climbs
  <1>g. Named
    BY RunnerStepGrows DEF Named, Grows
  <1>t. /\ Len(attempts) \in Nat /\ manifest \in 0..Len(attempts) /\ task.cand \in 0..Peers
        /\ task.status \in Statuses /\ runner[r].status \in Statuses
        /\ runner[r].resuming \in BOOLEAN /\ runner[r].next \in 0..Peers
        /\ runner[r].outcome \in {"none", "completed", "terminal", "timeout", "preferred"}
        /\ runner[r].place \in Attempting => runner[r].attempt \in 1..Len(attempts)
    BY TypedParts, Fields
  <1>s. ASSUME UNCHANGED <<transfer, manifest>>, task'.cand = task.cand,
               task'.job = task.job, task.status \notin Terminal \/ task'.status \in Terminal,
               task'.status = "queued" => Still \/ task.status = "queued"
        PROVE  Base' /\ Climbs /\ Still' = Still /\ Told' = Told
    BY <1>g, <1>s, StaysOnRung
  <1>b. task.status \notin Terminal /\ (task.status = "queued" \/ ~Told) => Still
    BY DEF Base, Still
  <1>c. Told => manifest # 0 /\ attempts[manifest].cand = task.cand /\ task.cand # 0
    BY DEF Base, Told
  <1>1. ASSUME ProcessTask(r) PROVE P
    <2>0. Base' /\ Climbs /\ Still' = Still /\ Told' = Told
      BY <1>s, <1>1, ProcessTaskActs
    <2>1. task.cand # 0 => task.job
      BY DEF Base
    <2> QED
      BY <2>0, <1>1, ProcessTaskActs, <2>1 DEF Rung, Fresh, Calm, Telling, Ending, Sits, Walks
  <1>2. ASSUME ResumeTask(r) PROVE P
    <2>0. Base' /\ Climbs /\ Still' = Still /\ Told' = Told
      BY <1>s, <1>2, ResumeTaskActs
    <2>a. /\ runner[r].place = "resume" /\ task.status \notin Terminal /\ ~runner[r].resuming
          /\ runner[r].status \notin Terminal /\ UNCHANGED task
      BY <1>2, ResumeTaskActs DEF Rung, Fresh
    <2>1. CASE manifest = 0 \/ (task.cand # 0 /\ Peer(manifest) # task.cand)
      <3>1. Goto(r, "start") /\ Still
        BY <1>2, <1>b, <2>1, <2>a DEF ResumeTask, Told, Peer
      <3>2. Walks(r, "start")
        BY <3>1, Moves DEF Places
      <3> QED
        BY <2>0, <2>a, <3>1, <3>2 DEF Rung, Fresh, Telling, Walks, Sits
    <2>2. CASE ~(manifest = 0 \/ (task.cand # 0 /\ Peer(manifest) # task.cand))
      <3>1. Told /\ (task.status = "queued" => Still)
        BY <1>b, <2>2, <2>a DEF Base, Told, Peer
      <3>2. runner'[r].place = "prepare"
        BY ZenonT(60), <1>2, <2>2, TypedParts DEF ResumeTask, RunnerStates
      <3> QED
        BY <1>2, <2>0, <2>a, <3>1, <3>2, ResumeTaskActs
           DEF Rung, Fresh, Calm, Telling, Ending, Walks, Sits
    <2> QED
      BY <2>1, <2>2
  <1>4. ASSUME Prepare(r) PROVE P
    <2>0. Base' /\ Climbs /\ Still' = Still /\ Told' = Told
      BY <1>s, <1>4, PrepareActs DEF Rung, Tasked
    <2> QED
      BY <1>c, <2>0, <1>4, PrepareActs
         DEF Rung, Fresh, Calm, Telling, Ending, Terminal, Sits, Walks, Reads, Polls, Tasked
  <1>5. ASSUME Open(r) PROVE P
    <2>0. Base' /\ Climbs /\ Still' = Still /\ Told' = Told
      BY <1>s, <1>5, OpenActs DEF Rung, Tasked
    <2> QED
      BY <2>0, <1>5, OpenActs
         DEF Rung, Fresh, Calm, Telling, Ending, Terminal, Sits, Walks, Refused, Tasked
  <1>6. ASSUME Journal(r) PROVE P
    <2>0. Base' /\ Climbs /\ Still' = Still /\ Told' = Told
      BY <1>s, <1>6, JournalActs
    <2>1. /\ runner'[r].attempt = Len(attempts) + 1 /\ runner'[r].place = "send"
          /\ runner'[r].cand = runner[r].cand /\ runner'[r].status = runner[r].status
      BY <1>6, JournalActs DEF Sits
    <2>2. attempts'[Len(attempts) + 1].cand = runner[r].cand
      <3>1. attempts'[Len(attempts) + 1] = [cand |-> runner[r].cand, state |-> "acquiring"]
        BY <1>6, JournalActs
      <3> QED
        BY <3>1
    <2> QED
      BY ZenonT(60), <1>t, <2>0, <1>6, JournalActs, <2>1, <2>2
         DEF Rung, Fresh, Calm, Telling, Ending, Terminal, Sits
  <1>9. ASSUME Handle(r) PROVE P
    <2>0. /\ runner[r].place = "handle" /\ UNCHANGED <<task, transfer>>
          /\ runner[r].attempt \in 1..Len(attempts) /\ manifest' \in {manifest, runner[r].attempt}
          /\ Walks(r, "poll") \/ Walks(r, "fail")
      BY <1>9, HandleActs
    <2>1. Told /\ attempts'[runner[r].attempt].cand = task.cand
      BY <1>g, <2>0 DEF Rung, Telling, Named
    <2>2. Told'
      BY <1>c, <1>g, <1>t, <2>0, <2>1 DEF Told, Named
    <2>3. Base' /\ Climbs /\ Still' = Still
      BY <1>c, <2>0, <2>1, <2>2 DEF Base, Climbs, Still
    <2> QED
      BY <2>0, <2>1, <2>2, <2>3 DEF Rung, Fresh, Calm, Telling, Ending, Sits, Walks
  <1>10. ASSUME PollStops(r) PROVE P
    <2>0. Base' /\ Climbs /\ Still' = Still /\ Told' = Told
      BY <1>s, <1>10, PollStopsActs
    <2> QED
      BY <1>10, PollStopsActs DEF Rung, Terminal, Cancelled
  <1>11. ASSUME PollGoesOn(r) PROVE P
    <2>0. Base' /\ Climbs /\ Still' = Still /\ Told' = Told
      BY <1>s, <1>11, PollGoesOnActs DEF Tasked
    <2> QED
      BY <2>0, <1>11, PollGoesOnActs DEF Rung, Tasked
  <1>12. ASSUME PollEnds(r) PROVE P
    <2>0. Base' /\ Climbs /\ Still' = Still /\ Told' = Told
      BY <1>s, <1>12, PollEndsActs DEF Tasked
    <2>1. runner[r].place = "poll" /\ attempts[runner[r].attempt].cand = task.cand
      BY <1>12, PollEndsActs DEF Rung
    <2>2. runner'[r].outcome \notin {"timeout", "preferred"} => Still
      <3>1. runner'[r].outcome \notin {"timeout", "preferred"} 
              => transfer[task.cand] \in {"done", "failed"}
        BY <1>12, <2>1, PollEndsActs DEF Sits, Peer
      <3> QED
        BY <3>1 DEF Base, Still, Asked
    <2> QED
      BY <2>0, <1>12, PollEndsActs, <2>2
         DEF Rung, Fresh, Calm, Telling, Ending, Terminal, Sits, Tasked
  <1>13. ASSUME PollBreaks(r) PROVE P
    <2>0. Base' /\ Climbs /\ Still' = Still /\ Told' = Told
      BY <1>s, <1>13, PollBreaksActs
    <2> QED
      BY <2>0, <1>13, PollBreaksActs DEF Rung, Fresh, Calm, Telling, Ending, Sits, Walks
  <1>14. ASSUME Recheck(r) PROVE P
    <2>0. Base' /\ Climbs /\ Still' = Still /\ Told' = Told
      BY <1>s, <1>14, RecheckActs
    <2> QED
      BY ZenonT(60), <1>t, <2>0, <1>14, RecheckActs
         DEF Rung, Fresh, Calm, Telling, Ending, Terminal, Sits, Walks, Ends
  <1>15. ASSUME Prefer(r) PROVE P
    <2>0. Base' /\ Climbs /\ Still' = Still /\ Told' = Told
      BY <1>s, <1>15, PreferActs DEF Rung, Tasked
    <2> QED
      BY <2>0, <1>15, PreferActs, <1>c
         DEF Rung, Fresh, Calm, Telling, Ending, Terminal, Sits, Walks, Polls, Tasked, Behind
  <1>16. ASSUME Process(r) PROVE P
    <2>0. Base' /\ Climbs /\ Still' = Still /\ Told' = Told
      BY <1>s, <1>16, ProcessActs DEF Rung, Tasked
    <2> QED
      BY <2>0, <1>16, ProcessActs
         DEF Rung, Fresh, Calm, Telling, Ending, Terminal, Sits, Walks, Tasked
  <1>17. ASSUME Import(r) PROVE P
    <2>0. Base' /\ Climbs /\ Still' = Still /\ Told' = Told
      BY <1>s, <1>17, ImportActs
    <2> QED
      BY <2>0, <1>17, ImportActs
         DEF Rung, Fresh, Calm, Telling, Ending, Terminal, Sits, Walks, Finishes
  <1>18. ASSUME Decide(r) PROVE P
    <2>0. Base' /\ Climbs /\ Still' = Still /\ Told' = Told
      BY <1>s, <1>18, DecideActs
    <2> QED
      BY <2>0, <1>18, DecideActs DEF Rung, Fresh, Calm, Telling, Ending, Sits, Finishes, Behind
  <1>20. ASSUME Schedule(r) PROVE P
    <2>0. Base' /\ Climbs /\ Still' = Still /\ Told' = Told
      BY <1>s, <1>20, ScheduleStepActs
    <2> QED
      BY <2>0, <1>20, ScheduleStepActs DEF Rung, Fresh, Calm, Telling, Ending, Sits, Walks
  <1>22. ASSUME Reset(r) PROVE P
    <2>0. Base' /\ Climbs /\ Still' = Still /\ Told' = Told
      BY <1>s, <1>22, ResetActs DEF Rung, Calm, Tasked
    <2> QED
      BY <1>t, <2>0, <1>22, ResetActs DEF Rung, Fresh, Calm, Telling, Terminal, Sits, Reads, Tasked
  <1>23. ASSUME Finalize(r) PROVE P
    <2>0. Base' /\ Climbs /\ Still' = Still /\ Told' = Told
      BY <1>s, <1>23, FinalizeActs, Fields DEF Verdicts, Tasked, Terminal
    <2> QED
      BY <1>t, <2>0, <1>23, FinalizeActs, Fields
         DEF Rung, Fresh, Calm, Telling, Ending, Terminal, Sits, Walks, Tasked, Verdicts
  <1>25. ASSUME Fail(r) PROVE P
    <2>0. Base' /\ Climbs /\ Still' = Still /\ Told' = Told
      BY <1>s, <1>25, FailActs DEF Tasked, Terminal
    <2> QED
      BY <1>t, <2>0, <1>25, FailActs
         DEF Rung, Fresh, Calm, Telling, Ending, Terminal, Sits, Ends, Tasked
  <1>3. ASSUME Search(r) PROVE P
    <2>0. runner[r].place = "search" /\ Still /\ task.cand = 0 /\ UNCHANGED <<transfer, manifest>>
      BY <1>3, SearchActs DEF Rung, Calm
    <2>1. Still' /\ manifest' = 0
      BY <2>0 DEF Still, Base
    <2>a. \/ task'.cand = task.cand
          \/ task'.cand \in 1..Peers /\ task'.job = TRUE
      BY <1>3, <2>0, SearchActs DEF Tasked
    <2>2. Base' /\ Climbs
      BY <2>0, <2>a DEF Base, Climbs
    <2>3. CASE runner'[r].place = "idle"
      BY <2>2, <2>3 DEF Rung, Fresh, Calm, Telling, Ending
    <2>4. CASE runner'[r].place # "idle"
      <3>1. PICK c \in 1..Peers: Tasked(task.status, c, TRUE) /\ Reads(r, "prepare", task.status, c)
        BY <1>3, <2>4, SearchActs DEF Ends, Sits
      <3>2. /\ runner'[r].place = "prepare" /\ runner'[r].cand = c /\ task'.cand = c
            /\ runner'[r].status = task.status /\ task'.status = task.status
            /\ runner'[r].resuming = runner[r].resuming
        BY <3>1 DEF Tasked, Reads, Sits
      <3>3. task.status \notin Terminal /\ ~runner[r].resuming
        BY <2>0 DEF Rung, Fresh
      <3> QED
        BY <2>1, <2>2, <3>2, <3>3 DEF Rung, Telling
    <2> QED
      BY <2>3, <2>4
  <1>7. ASSUME Send(r) PROVE P
    <2>0. /\ runner[r].place = "send" /\ Still /\ task.cand # 0 /\ task.status \notin Terminal
          /\ task.status # "queued" /\ attempts[runner[r].attempt].cand = task.cand
          /\ runner[r].status \notin Terminal /\ runner[r].cand = task.cand
      BY <1>7, SendActs DEF Rung, Calm, Fresh
    <2>1. UNCHANGED <<task, attempts>> /\ manifest' = runner[r].attempt
      BY <1>7, SendActs
    <2>2. Told'
      BY <1>t, <2>0, <2>1 DEF Told, Attempting
    <2>3. \A c \in 1..Peers: transfer'[c] \in Asked => c = task.cand
      BY <1>7, <2>0, SendActs DEF Still, Peer
    <2>4. Base' /\ Climbs
      BY <2>0, <2>1, <2>2, <2>3 DEF Base, Climbs
    <2>5. CASE Walks(r, "handle")
      BY <2>0, <2>1, <2>2, <2>4, <2>5 DEF Walks, Sits, Rung, Fresh, Calm, Ending
    <2>6. CASE Refused(r) /\ transfer' = transfer
      <3>1. Still'
        BY <2>0, <2>6 DEF Still
      <3> QED
        BY <2>0, <2>1, <2>4, <2>6, <3>1 DEF Refused, Sits, Rung, Fresh, Telling
    <2> QED
      BY <1>7, <2>5, <2>6, SendAnswers
  <1>8. ASSUME Outage(r) PROVE P
    BY <1>8, OutageActs DEF Rung
  <1>19. ASSUME Abort(r) PROVE P
    <2>0. /\ runner[r].place = "abort" /\ Told /\ task.status \notin Terminal
          /\ runner[r].status \notin Terminal /\ runner[r].cand = task.cand
          /\ runner[r].next > task.cand /\ UNCHANGED <<task, attempts, manifest>>
      BY <1>19, AbortActs DEF Rung, Telling, Fresh
    <2>1. CASE UNCHANGED transfer
      <3>1. Base' /\ Climbs /\ Still' = Still /\ Told' = Told
        BY <1>s, <2>0, <2>1
      <3>2. manifest # 0 /\ runner'[r].place = "schedule" => Still
        <4> SUFFICES ASSUME manifest # 0, runner'[r].place = "schedule" PROVE Still
          OBVIOUS
        <4>1. transfer' = [transfer EXCEPT ![Peer(manifest)] = "none"]
          BY <1>19, AbortActs DEF Walks, Ends, Sits
        <4> QED
          BY <2>0, <2>1, <4>1, TypedParts DEF Base, Still, Told, Peer, Asked
      <3> QED
        BY <1>19, <2>0, <3>1, <3>2, AbortActs
           DEF Rung, Fresh, Calm, Telling, Ending, Walks, Ends, Sits, Told
    <2>2. CASE transfer' # transfer
      <3>1. transfer' = [transfer EXCEPT ![Peer(manifest)] = "none"] /\ Walks(r, "schedule")
        BY <1>19, <2>2, AbortActs
      <3>2. Still'
        BY <2>0, <3>1, TypedParts DEF Base, Still, Told, Peer, Asked
      <3>3. Base' /\ Climbs
        BY <2>0, <3>2 DEF Base, Climbs, Still
      <3> QED
        BY <2>0, <3>1, <3>2, <3>3 DEF Rung, Fresh, Telling, Walks, Sits
    <2> QED
      BY <2>1, <2>2
  <1>21. ASSUME Link(r) PROVE P
    <2>0. /\ runner[r].place = "link" /\ Still /\ task.status \notin Terminal
          /\ runner[r].next > task.cand /\ UNCHANGED <<transfer, manifest>>
      BY <1>21, LinkActs DEF Rung, Calm
    <2>a. runner[r].next \in 1..Peers
      BY <1>t, <2>0
    <2>1. /\ task'.status = task.status /\ task'.cand = runner[r].next /\ task'.job = TRUE
          /\ runner'[r].place = "reset" /\ runner'[r].status = task.status
          /\ runner'[r].cand = runner[r].next
      BY <1>21, LinkActs DEF Tasked, Reads, Sits
    <2>2. Still'
      BY <2>0 DEF Still
    <2>3. Base' /\ Climbs
      BY <2>0, <2>a, <2>1 DEF Base, Still, Climbs
    <2> QED
      BY <2>0, <2>1, <2>2, <2>3 DEF Rung, Fresh, Telling
  <1>24. ASSUME Tidy(r) PROVE P
    <2>0. task.status \in Terminal /\ UNCHANGED <<task, transfer>> /\ manifest' = 0
      BY <1>24, TidyActs DEF Rung
    <2>1. Base' /\ Climbs
      BY <2>0 DEF Base, Climbs
    <2> QED
      BY <1>24, <2>1, TidyActs DEF Rung, Calm, Telling, Ending, Ends, Sits
  <1> HIDE DEF P
  <1>p. P
    BY <1>1, <1>2, <1>3, <1>4, <1>5, <1>6, <1>7, <1>8, <1>9, <1>10, <1>11, <1>12, <1>13, <1>14,
       <1>15, <1>16, <1>17, <1>18, <1>19, <1>20, <1>21, <1>22, <1>23, <1>24, <1>25
       DEF RunnerStep
  <1> QED
    BY <1>p DEF P
-----------------------------------------------------------------------------
\* A runner that is idle, and one that only tidies up after the end, owe nothing.
LEMMA AsleepRung ==
  ASSUME NEW r \in Runners, runner'[r].place \in {"idle", "tidy"},
         runner'[r].place = "tidy" => task'.status \in Terminal
  PROVE  Rung(r)'
  BY DEF Rung, Fresh, Calm, Telling, Ending

\* Once the download has ended, Base asks only that nobody but its candidate is asked.
LEMMA EndedBase ==
  ASSUME Base, task'.status \in Terminal, task'.cand = task.cand, task'.job = task.job,
         manifest' \in {0, manifest}, UNCHANGED transfer
  PROVE  Base' /\ Climbs
  BY DEF Base, Climbs

\* A runner that stands by while transfers end stays where it is on the ladder.
LEMMA StandsOnRung ==
  ASSUME Typed, Base, Named, UNCHANGED <<runner, manifest>>, task'.status = task.status,
         task'.cand = task.cand, task'.job = task.job,
         \A c \in 1..Peers: transfer'[c] \in Asked => transfer[c] \in Asked
  PROVE  Base' /\ Climbs /\ \A r \in Runners: Rung(r) => Rung(r)'
  <1>1. Told' = Told
    BY SameTold
  <1>2. Still => Still'
    BY DEF Still
  <1>3. Base' /\ Climbs
    BY <1>1 DEF Base, Climbs
  <1>4. ASSUME NEW r \in Runners, Rung(r) PROVE Rung(r)'
    <2>1. runner[r].place \in {"poll", "send", "handle"} =>
               attempts'[runner[r].attempt].cand = attempts[runner[r].attempt].cand
      BY TypedParts DEF Attempting, Named
    <2> QED
      BY <1>1, <1>2, <1>4, <2>1 DEF Rung
  <1> QED
    BY <1>3, <1>4

\* Cancels and retries come when the runner has stopped or the download has ended.
LEMMA RequestStepLadders ==
  ASSUME Actors \subseteq {"cancel", "reap", "retry", "import"}, Typed, Driven, Laddered,
         NEW k \in Callers, RequestStep(k) \/ Request(k)
  PROVE  Laddered' /\ Climbs
  <1>a. op[k].place \in {"idle", "done", "cancel", "cancel_tidy", "retry"}
    BY DEF Laddered, Alone
  <1>1. CASE CancelAsk(k)
    <2>1. /\ UNCHANGED <<task, attempts, manifest, transfer>> /\ Stops /\ Steps(k, "cancel")
      BY <1>1, CancelAskActs
    <2>2. \A r \in Runners: runner'[r].place = "idle"
      BY <2>1 DEF Stops, Driven, IsLive, Off
    <2>3. \A r \in Runners: Rung(r)'
      BY <2>2, AsleepRung
    <2>4. Base' /\ Climbs
      BY <2>1 DEF Laddered, Base, Told, Climbs
    <2>5. Alone'
      BY <2>1, <2>2 DEF Laddered, Alone, Steps, Stands
    <2> QED
      BY <2>3, <2>4, <2>5 DEF Laddered
  <1>2. ASSUME \A r \in Runners: runner[r].place \in {"idle", "tidy"}, task'.status \in Terminal,
               task'.cand = task.cand, task'.job = task.job,
               manifest' \in {0, manifest}, UNCHANGED <<transfer, runner>>,
               op'[k].place \in {"done", "cancel_tidy", "retry"},
               \A q \in Callers \ {k}: op'[q] = op[q]
        PROVE  Laddered' /\ Climbs
    <2>1. Base' /\ Climbs
      BY <1>2, EndedBase DEF Laddered
    <2>2. \A r \in Runners: Rung(r)'
      BY <1>2, AsleepRung
    <2>3. Alone'
      BY <1>2 DEF Laddered, Alone
    <2> QED
      BY <2>1, <2>2, <2>3 DEF Laddered
  <1>3. op[k].place \in {"cancel", "cancel_tidy", "retry"} =>
          \A r \in Runners: runner[r].place \in {"idle", "tidy"}
    BY DEF Laddered, Alone
  <1>4. CASE CancelCommit(k)
    BY SMTT(30), <1>2, <1>3, <1>4, CancelCommitActs DEF Tasked, Steps, Stands, Terminal
  <1>5. CASE CancelTidy(k)
    <2>1. task.status \in Terminal
      BY <1>5, CancelTidyActs DEF Laddered, Alone
    <2> QED
      BY <1>2, <1>3, <1>5, <2>1, CancelTidyActs DEF Done, Stands
  <1>6. CASE RetryAsk(k)
    <2>1. task.status \in Terminal
      BY <1>6 DEF RetryAsk, Terminal
    <2>2. \A r \in Runners: runner[r].place \in {"idle", "tidy"}
      BY <2>1 DEF Laddered, Rung
    <2> QED
      BY <1>2, <1>6, <2>1, <2>2, RetryAskActs DEF Steps, Stands
  <1>7. CASE RetryWrite(k)
    BY SMTT(30), <1>2, <1>3, <1>7, RetryWriteActs DEF Tasked, Done, Stands, Terminal
  <1>8. /\ ~NextLook(k) /\ ~NextStop(k) /\ ~NextVerify(k) /\ ~NextAbort(k) /\ ~NextSchedule(k)
        /\ ~NextLink(k) /\ ~NextDispatch(k) /\ ~ReimportAcquire(k) /\ ~ReimportStart(k)
        /\ ~ReimportFinish(k) /\ ~SettleWrite(k) /\ ~PickLink(k)
    BY <1>a DEF NextLook, NextStop, NextVerify, NextAbort, NextSchedule, NextLink, NextDispatch,
                ReimportAcquire, ReimportStart, ReimportFinish, SettleWrite, PickLink
  <1>9. ~NextAsk(k) /\ ~ReimportAsk(k) /\ ~SettleAsk(k) /\ ~PickAsk(k)
    BY DEF NextAsk, ReimportAsk, SettleAsk, PickAsk, Asks
  <1> QED
    BY <1>1, <1>4, <1>5, <1>6, <1>7, <1>8, <1>9 DEF RequestStep, Request

\* Peers, the cleanup, the reaper, time and other imports.
LEMMA OtherStepLadders ==
  ASSUME Typed, Quiet, Laddered, OtherStep
  PROVE  Laddered' /\ Climbs
  <1>o. UNCHANGED <<runner, op>>
    BY OtherStepLives
  <1>1. ASSUME Named, UNCHANGED manifest, task'.status = task.status, task'.cand = task.cand,
               task'.job = task.job,
               \A c \in 1..Peers: transfer'[c] \in Asked => transfer[c] \in Asked
        PROVE  Laddered' /\ Climbs
    <2>1. Base' /\ Climbs /\ \A r \in Runners: Rung(r)'
      BY <1>o, <1>1, StandsOnRung DEF Laddered
    <2>2. Alone'
      BY <1>o, <1>1 DEF Laddered, Alone
    <2> QED
      BY <2>1, <2>2 DEF Laddered
  <1>2. UNCHANGED attempts => Named
    BY DEF Named
  <1>3. ASSUME NEW c \in 1..Peers, TransferMoves(c) PROVE Laddered' /\ Climbs
    <2>1. UNCHANGED <<task, attempts, manifest>> /\ transfer[c] \in {"queued", "active"}
          /\ \A b \in 1..Peers: b # c => transfer'[b] = transfer[b]
      BY <1>3, TransferMovesActs
    <2> QED
      BY <1>1, <1>2, <2>1 DEF Asked
  <1>4. ASSUME NEW i \in 1..Len(attempts), CleanupSettles(i) PROVE Laddered' /\ Climbs
    <2>1. UNCHANGED <<task, manifest>> /\ attempts[i].state = "discard"
      BY <1>4, CleanupSettlesActs
    <2>2. \A c \in 1..Peers: transfer'[c] \in Asked => transfer[c] \in Asked
      BY <1>4, CleanupSettlesActs DEF Asked
    <2>3. Named
      BY <1>4, CleanupSettlesActs DEF Named
    <2> QED
      BY <1>1, <2>1, <2>2, <2>3
  <1>5. CASE ReapFind
    <2>1. UNCHANGED <<task, attempts, manifest, transfer>>
      BY <1>5, ReapFindActs
    <2> QED
      BY <1>1, <1>2, <2>1
  <1>6. CASE ReapFail
    <2>1. \A r \in Runners: runner[r].place = "idle"
      BY <1>6, ReapFailActs DEF Quiet, IsLive
    <2>2. /\ task'.status = "failed" /\ task'.cand = task.cand /\ task'.job = task.job
          /\ UNCHANGED <<manifest, transfer>>
      BY <1>6, ReapFailActs DEF Tasked
    <2>3. Base' /\ Climbs
      BY <2>2, EndedBase DEF Laddered, Terminal
    <2>4. \A r \in Runners: Rung(r)'
      BY <1>o, <2>1, AsleepRung
    <2>5. Alone'
      BY <1>o, <2>2 DEF Laddered, Alone, Terminal
    <2> QED
      BY <2>3, <2>4, <2>5 DEF Laddered
  <1>7. CASE Ages
    <2>1. /\ task'.status = task.status /\ task'.cand = task.cand /\ task'.job = task.job
          /\ UNCHANGED <<attempts, manifest, transfer>>
      BY <1>7, AgesActs DEF Tasked
    <2> QED
      BY <1>1, <1>2, <2>1
  <1>8. CASE OtherImport
    <2>1. UNCHANGED <<task, attempts, manifest, transfer>>
      BY <1>8 DEF OtherImport, rows
    <2> QED
      BY <1>1, <1>2, <2>1
  <1> QED
    BY <1>3, <1>4, <1>5, <1>6, <1>7, <1>8 DEF OtherStep
\* A restart goes on with the candidate that has been asked.
LEMMA CrashLadders ==
  ASSUME Typed, Laddered, CrashAndResume
  PROVE  Laddered' /\ Climbs
  <1>1. UNCHANGED <<task, attempts, manifest, transfer>>
    BY CrashActs
  <1>2. Base' /\ Climbs /\ Still' = Still
    BY <1>1 DEF Laddered, Base, Told, Climbs, Still
  <1>3. Alone'
    BY CrashActs DEF Alone
  <1>4. ASSUME NEW r \in Runners PROVE Rung(r)'
    <2>1. CASE runner'[r].place = "idle"
      BY <2>1, AsleepRung
    <2>2. CASE runner'[r].place # "idle"
      <3>1. /\ task.status \notin Terminal /\ runner'[r].place \in {"start", "resume"}
            /\ runner'[r].status = "queued" /\ ~runner'[r].resuming
        BY <2>2, CrashActs
      <3>2. runner'[r].place = "start" => task.status = "queued"
        <4> SUFFICES ASSUME task.status # "queued" PROVE runner'[r].place # "start"
          OBVIOUS
        <4>1. runner' = [q \in Runners |->
                IF q # tracked' THEN Off
                ELSE [Off EXCEPT !.place = "resume", !.name = "resume", !.listed = TRUE]]
          BY <3>1 DEF CrashAndResume
        <4> QED
          BY <4>1 DEF Off
      <3>3. runner'[r].place = "start" => Still
        BY <3>1, <3>2 DEF Laddered, Base, Still
      <3> QED
        BY <1>1, <1>2, <3>1, <3>3 DEF Rung, Fresh, Calm, Telling, Ending, Terminal
    <2> QED
      BY <2>1, <2>2
  <1> QED
    BY <1>2, <1>3, <1>4 DEF Laddered

\* Only one runner is live, so its step is the only one on the ladder.
LEMMA RunnerKeepsLadder ==
  ASSUME MaxFaults = 0, Typed, Driven, Laddered, NEW r \in Runners, RunnerStep(r)
  PROVE  Laddered' /\ Climbs
  <1>1. /\ IsLive(r) /\ UNCHANGED op /\ \A q \in Runners \ {r}: runner'[q] = runner[q]
    BY RunnerStepLives
  <1>2. Base' /\ Rung(r)' /\ Climbs
    BY RunnerStepLadders DEF Laddered
  <1>3. \A q \in Runners \ {r}: runner'[q].place = "idle"
    BY <1>1 DEF Driven, IsLive
  <1>4. \A q \in Runners: Rung(q)'
    BY <1>2, <1>3, AsleepRung
  <1>5. Alone'
    <2>1. CASE runner[r].place = "tidy"
      <3>1. runner'[r].place = "idle" /\ UNCHANGED task
        BY <2>1, TidyOnly, TidyActs DEF Ends, Sits
      <3> QED
        BY <1>1, <3>1 DEF Laddered, Alone
    <2>2. CASE runner[r].place # "tidy"
      <3>1. \A k \in Callers: op[k].place \in {"idle", "done"}
        BY <1>1, <2>2 DEF Laddered, Alone, IsLive
      <3> QED
        BY <1>1, <3>1 DEF Alone
    <2> QED
      BY <2>1, <2>2
  <1> QED
    BY <1>2, <1>4, <1>5 DEF Laddered

\* Every step keeps the download on the ladder, and moves it along.
LEMMA NextLadders ==
  ASSUME Actors \subseteq {"cancel", "reap", "retry", "import"}, MaxFaults = 0, Typed, Driven, Quiet,
         Laddered, [Next]_vars
  PROVE  Laddered' /\ Climbs
  <1>1. CASE UNCHANGED vars
    <2>1. UNCHANGED <<task, attempts, manifest, transfer, runner, op>>
      BY <1>1 DEF vars
    <2>2. Base' /\ Climbs /\ Alone'
      BY <2>1 DEF Laddered, Base, Told, Climbs, Alone
    <2>3. \A r \in Runners: Rung(r)'
      BY <2>1 DEF Laddered, Rung, Told, Still
    <2> QED
      BY <2>2, <2>3 DEF Laddered
  <1> QED
    BY <1>1, NextCases, RunnerKeepsLadder, RequestStepLadders, OtherStepLadders, CrashLadders

\* A download begins at the foot of the ladder.
LEMMA InitLaddered ==
  ASSUME Init
  PROVE  Laddered /\ task.cand = 0 /\ Sending = {}
  <1>1. /\ task.status = "queued" /\ task.cand = 0 /\ manifest = 0
        /\ \A c \in 1..Peers: transfer[c] = "none"
        /\ \A k \in Callers: op[k].place = "idle"
    BY InitTyped DEF Init
  <1>2. Still /\ Sending = {}
    BY <1>1 DEF Still, Sending, Asked
  <1>3. ASSUME NEW r \in Runners PROVE Rung(r)
    <2>1. /\ runner[r].place \in {"idle", "start"} /\ runner[r].status = "queued"
          /\ ~runner[r].resuming
      BY DEF Init, Off
    <2> QED
      BY <1>1, <1>2, <2>1 DEF Rung, Fresh, Telling, Terminal
  <1>4. Base /\ Alone
    BY <1>1, <1>2 DEF Base, Alone, Still
  <1> QED
    BY <1>1, <1>2, <1>3, <1>4 DEF Laddered

\* A download that climbs the ladder.
Climbing == Typed /\ Locked /\ Driven /\ Unpicked /\ Quiet /\ Laddered

\* It starts on the lowest rung, ...
LEMMA InitClimbing ==
  ASSUME Init
  PROVE  Climbing /\ Ladder!Init
  <1>1. task.status = "queued" /\ reaping = FALSE
    BY DEF Init
  <1>2. Quiet
    BY <1>1, InitTyped DEF Quiet, Ended, Stopping, Reimporting
  <1> QED
    BY <1>2, InitTyped, InitDriven, InitLaddered DEF Climbing, Ladder!Init

\* ... and goes on climbing.
LEMMA NextClimbing ==
  ASSUME Actors \subseteq {"cancel", "reap", "retry", "import"}, MaxFaults = 0,
         Climbing, [Next]_vars
  PROVE  Climbing' /\ Climbs
  <1>1. "pick" \notin Actors /\ "next" \notin Actors
    OBVIOUS
  <1> QED
    BY <1>1, NextTyped, NextLocked, NextDriven, NextQuiet, NextLadders DEF Climbing

\* Failover implements the ladder of sources (_run_with_failover), whatever is cancelled,
\* retried, reaped, imported from elsewhere or restarted in between: the candidates are asked in
\* the order of their rank, each is given up before the next is chosen, and only the chosen one
\* is ever asked to send.  Where a client call goes wrong, the download is settled or imported
\* again by hand, or moved to another source by hand, a peer may go on sending when the next
\* one is asked.
THEOREM ClimbsTheLadder ==
  ASSUME Actors \subseteq {"cancel", "reap", "retry", "import"}, MaxFaults = 0
  PROVE  Spec => LadderSpec
  <1>1. Init => Climbing /\ Ladder!Init
    BY InitClimbing
  <1>2. Climbing /\ [Next]_vars => Climbing' /\ [Ladder!Next]_<<task.cand, Sending>>
    BY NextClimbing, ClimbsLadder DEF Climbing, Laddered
  <1> QED
    BY <1>1, <1>2, PTL DEF Spec, LadderSpec, Ladder!Spec

\* In the same worlds two peers never send the same acquisition (_abort_abandoned_transfer):
\* the source that is left has been told to stop before the next one is asked, also when the
\* runner that asked it was cancelled or went down with the program in between.
THEOREM OnePeerSends ==
  ASSUME Actors \subseteq {"cancel", "reap", "retry", "import"}, MaxFaults = 0
  PROVE  Spec => []OneSender
  <1>1. Init => Climbing
    BY InitClimbing
  <1>2. Climbing /\ [Next]_vars => Climbing'
    BY NextClimbing
  <1>3. Climbing => OneSender
    <2> SUFFICES ASSUME Climbing PROVE OneSender
      OBVIOUS
    <2>1. Sending \in SUBSET {task.cand}
      BY DEF Climbing, Laddered, Base, Sending, Asked
    <2>2. Cardinality(Sending) <= Cardinality({task.cand})
      BY <2>1, FS_Singleton, FS_Subset
    <2> QED
      BY <2>2, FS_Singleton DEF OneSender
  <1> QED
    BY <1>1, <1>2, <1>3, PTL DEF Spec
-----------------------------------------------------------------------------
(* The one live row of a download about which a single request is made.     *)

\* No row is live.
Clear == Count = 0
\* The manifest names the live row, which is of the task's candidate.
Firm == Told /\ attempts[manifest].state \in Live
\* A request that is done with has taken the manifest away.
Taken == manifest = 0 /\ \E k \in Callers: op[k].place = "done"

\* The places of a runner that has no row.
Unclaimed == {"start", "search", "open", "journal", "link", "reset"}

\* Who works on a candidate has the live row in its hands: it has just journaled it, or finds it
\* through the manifest, which it resumes with, too.
Claims(r) ==
  /\ runner[r].place # "outage"
  /\ runner[r].place \notin Aside => runner[r].cand = task.cand
  /\ runner[r].disposition = "leave" => runner[r].place \in {"finalize", "tidy"}
  /\ runner[r].place \in Unclaimed => Clear
  /\ runner[r].place = "resume" => Clear \/ Firm
  /\ runner[r].place = "prepare" => Clear \/ (runner[r].resuming /\ Firm)
  /\ runner[r].place \in {"send", "handle"} =>
       /\ attempts[runner[r].attempt].cand = task.cand
       /\ Clear \/ attempts[runner[r].attempt].state \in Live
  /\ runner[r].place \in Owning \union {"fail"} => Clear \/ Firm \/ Taken

\* It was not resumed, or found no manifest to resume with.
Unresumed(r) == runner[r].place # "resume" /\ ~runner[r].resuming

\* What is firm and clear stays so while the journal, the manifest and the candidate do.
LEMMA SameClaims ==
  ASSUME Typed, UNCHANGED <<attempts, manifest>>, task'.cand = task.cand
  PROVE  Count' = Count /\ (Clear' <=> Clear) /\ (Firm' <=> Firm)
  BY DEF Count, LiveRows, Clear, Firm, Told

\* A runner that nobody disturbs keeps its claim.
LEMMA ClaimKept ==
  ASSUME Typed, NEW r \in Runners, Claims(r), runner'[r] = runner[r], task'.cand = task.cand,
         Clear => Clear', Firm => Clear' \/ Firm' \/ (Taken' /\ Unresumed(r)),
         Taken => Taken' \/ Clear', Len(attempts') = Len(attempts), Named,
         \A i \in 1..Len(attempts): attempts[i].state \in Live => Clear' \/ attempts'[i].state \in Live
  PROVE  Claims(r)'
  <1>1. runner[r].place \in {"send", "handle"} => runner[r].attempt \in 1..Len(attempts)
    BY TypedParts DEF Attempting
  <1> QED
    BY <1>1 DEF Claims, Owning, Unclaimed, Unresumed, Named

\* One that rests or begins anew has none.
LEMMA ClaimNone ==
  ASSUME NEW r \in Runners, runner'[r].place \in {"idle", "start", "tidy"},
         runner'[r].place # "tidy" => runner'[r].disposition # "leave",
         runner'[r].place = "start" => Clear'
  PROVE  Claims(r)'
  BY DEF Claims, Owning, Unclaimed, Aside

\* The row of the manifest, or the newest live one, is the live row.
LEMMA ManifestLive ==
  ASSUME Typed, Firm \/ (manifest = 0 /\ ~Clear)
  PROVE  ManifestRow \in 1..Len(attempts) /\ attempts[ManifestRow].state \in Live
  <1>1. CASE Firm
    BY <1>1, TypedParts DEF Firm, Told, ManifestRow
  <1>2. CASE manifest = 0 /\ ~Clear
    <2>1. ~(\A i \in 1..Len(attempts): attempts[i].state \notin Live)
      BY <1>2, RowsNone DEF Clear
    <2>2. LiveRow \in 1..Len(attempts) /\ attempts[LiveRow].state \in Live
      BY <2>1, RowsFound, TypedParts
    <2> QED
      BY <1>2, <2>2 DEF ManifestRow
  <1> QED
    BY <1>1, <1>2

\* Of one at most, one less is none.
LEMMA NoneLeft ==
  ASSUME NEW n \in Nat, NEW m \in Nat, n <= 1, m + 1 <= n \/ (m <= n /\ n = 0)
  PROVE  m = 0
  OBVIOUS

\* So when it is scheduled no row is live any more.
LEMMA ScheduleClears ==
  ASSUME Typed, Count <= 1, Clear \/ Firm \/ manifest = 0, NEW disposition \in {"discard", "preserve"},
         ScheduleRow(ManifestRow, disposition)
  PROVE  Clear'
  <1>t. Count \in Nat /\ ManifestRow \in 0..Len(attempts)
    BY RowsCount, RowsFound, TypedParts DEF ManifestRow
  <1>1. /\ Count' \in Nat /\ Count' <= Count
        /\ ManifestRow # 0 /\ attempts[ManifestRow].state \in Live => Count' + 1 <= Count
    BY <1>t, ScheduleCounts
  <1>2. CASE Clear
    BY Zenon, <1>t, <1>1, <1>2, NoneLeft DEF Clear
  <1>3. CASE ~Clear
    <2>1. Count' + 1 <= Count
      BY <1>1, <1>3, ManifestLive
    <2> QED
      BY Zenon, <1>t, <1>1, <2>1, NoneLeft DEF Clear
  <1> QED
    BY <1>2, <1>3

\* Neither is any when the task is failed.
LEMMA FailClears ==
  ASSUME Typed, Count <= 1, FailTask
  PROVE  Clear'
  <1>1. Count \in Nat /\ Count' \in Nat /\ (Count' = 0 \/ Count' + 1 <= Count)
    BY RowsCount, FailTaskCounts
  <1> QED
    BY Zenon, <1>1, NoneLeft DEF Clear

\* A runner keeps its claim, and brings no second row to life.
LEMMA RunnerStepClaims ==
  ASSUME Typed, MaxFaults = 0, Count <= 1, NEW r \in Runners, Claims(r), RunnerStep(r)
  PROVE  Claims(r)' /\ Count' <= 1 /\ (Unresumed(r) => Unresumed(r)')
  <1> DEFINE P == Claims(r)' /\ Count' <= 1 /\ (Unresumed(r) => Unresumed(r)')
  <1>t. /\ Len(attempts) \in Nat /\ manifest \in 0..Len(attempts) /\ Count \in Nat
        /\ runner[r].resuming \in BOOLEAN
        /\ runner[r].disposition \in {"discard", "preserve", "leave"}
        /\ runner[r].place \in Attempting => runner[r].attempt \in 1..Len(attempts)
    BY TypedParts, Fields, RowsCount
  <1>o. op' = op
    BY RunnerStepLives
  <1>u. ASSUME UNCHANGED <<attempts, manifest>>, task'.cand = task.cand
        PROVE  Count' <= 1 /\ (Clear' <=> Clear) /\ (Firm' <=> Firm) /\ (Taken' <=> Taken)
    <2>1. Count' = Count /\ (Clear' <=> Clear) /\ (Firm' <=> Firm)
      BY <1>u, SameClaims
    <2>2. Taken' <=> Taken
      BY <1>o, <1>u DEF Taken
    <2> QED
      BY <2>1, <2>2
  <1>1. ASSUME ProcessTask(r) PROVE P
    <2>0. Count' <= 1 /\ (Clear' <=> Clear) /\ (Firm' <=> Firm) /\ (Taken' <=> Taken)
      BY <1>u, <1>1, ProcessTaskActs
    <2> QED
      BY ZenonT(60), <1>t, <2>0, <1>1, ProcessTaskActs
         DEF Claims, Unresumed, Owning, Unclaimed, Aside, Sits, Walks
  <1>2. ASSUME ResumeTask(r) PROVE P
    <2>0. Count' <= 1 /\ (Clear' <=> Clear) /\ (Firm' <=> Firm) /\ (Taken' <=> Taken)
      BY <1>u, <1>2, ResumeTaskActs
    <2>1. CASE manifest = 0 \/ (task.cand # 0 /\ Peer(manifest) # task.cand)
      <3>1. runner[r].place = "resume" /\ Goto(r, "start") /\ ~Told
        BY <1>2, <2>1 DEF ResumeTask, Told, Peer
      <3>2. Walks(r, "start") /\ Clear
        BY <3>1, Moves DEF Places, Claims, Firm
      <3> QED
        BY <2>0, <3>1, <3>2 DEF Claims, Unresumed, Owning, Unclaimed, Aside, Walks, Sits
    <2>2. CASE ~(manifest = 0 \/ (task.cand # 0 /\ Peer(manifest) # task.cand))
      <3>2. runner'[r].place = "prepare"
        BY ZenonT(60), <1>2, <2>2, TypedParts DEF ResumeTask, RunnerStates
      <3>3. /\ runner[r].place = "resume" /\ UNCHANGED task
            /\ Sits(r, "prepare", task.status, task.cand, runner[r].attempt, runner[r].outcome,
                    runner[r].next, runner[r].disposition, TRUE)
        BY <1>2, <3>2, ResumeTaskActs DEF Walks, Sits
      <3> QED
        BY <2>0, <3>3 DEF Claims, Unresumed, Owning, Unclaimed, Aside, Sits
    <2> QED
      BY <2>1, <2>2
  <1>3. ASSUME Search(r) PROVE P
    <2>1. runner[r].place = "search" /\ Clear /\ UNCHANGED <<attempts, manifest>>
      BY <1>3, SearchActs DEF Claims, Unclaimed
    <2>2. Count' = Count /\ Clear'
      BY <2>1 DEF Count, LiveRows, Clear
    <2> QED
      BY ZenonT(60), <2>1, <2>2, <1>3, SearchActs
         DEF Claims, Unresumed, Owning, Unclaimed, Aside, Sits, Reads, Ends, Tasked
  <1>4. ASSUME Prepare(r) PROVE P
    <2>0. Count' <= 1 /\ (Clear' <=> Clear) /\ (Firm' <=> Firm) /\ (Taken' <=> Taken)
      BY <1>u, <1>4, PrepareActs DEF Tasked
    <2>1. /\ runner[r].place = "prepare" /\ runner[r].cand = task.cand
          /\ runner[r].disposition # "leave"
          /\ Clear \/ (runner[r].resuming /\ Firm)
      BY <1>4, PrepareActs DEF Claims, Aside
    <2>2. /\ task'.cand = task.cand /\ runner'[r].resuming = runner[r].resuming
          /\ runner'[r].disposition = runner[r].disposition
      BY <1>4, PrepareActs DEF Sits, Walks, Reads, Polls, Tasked
    <2>3. /\ runner'[r].cand = task.cand
          /\ IF runner[r].resuming THEN runner'[r].place \in {"fail", "poll"}
                                   ELSE runner'[r].place = "open"
      BY <1>4, <2>1, PrepareActs DEF Sits, Walks, Reads, Polls
    <2> QED
      BY <2>0, <2>1, <2>2, <2>3 DEF Claims, Unresumed, Owning, Unclaimed, Aside
  <1>5. ASSUME Open(r) PROVE P
    <2>0. Count' <= 1 /\ (Clear' <=> Clear) /\ (Firm' <=> Firm) /\ (Taken' <=> Taken)
      BY <1>u, <1>5, OpenActs DEF Tasked
    <2> QED
      BY ZenonT(60), <1>t, <2>0, <1>5, OpenActs
         DEF Claims, Unresumed, Owning, Unclaimed, Aside, Sits, Walks, Refused, Tasked
  <1>6. ASSUME Journal(r) PROVE P
    <2>0. /\ runner[r].place = "journal" /\ task' = task /\ Len(attempts') = Len(attempts) + 1
          /\ attempts'[Len(attempts) + 1] = [cand |-> runner[r].cand, state |-> "acquiring"]
          /\ \A i \in 1..Len(attempts): attempts'[i] = attempts[i]
          /\ Sits(r, "send", runner[r].status, runner[r].cand, Len(attempts) + 1,
                  runner[r].outcome, runner[r].next, runner[r].disposition, runner[r].resuming)
      BY <1>6, JournalActs
    <2>1. Clear /\ runner[r].cand = task.cand /\ runner[r].disposition # "leave"
      BY <2>0 DEF Claims, Unclaimed, Aside
    <2>2. \A j \in 1..Len(attempts'): j # Len(attempts) + 1 /\ attempts'[j].state \in Live =>
            j \in 1..Len(attempts) /\ attempts[j].state \in Live
      BY <1>t, <2>0
    <2>3. Count' \in Nat /\ Count' <= Count + 1
      BY <2>2, RowMore
    <2>4. Count' <= 1
      BY <2>1, <2>3 DEF Clear
    <2>5. /\ runner'[r].place = "send" /\ runner'[r].cand = task'.cand
          /\ runner'[r].disposition # "leave"
          /\ runner'[r].resuming = runner[r].resuming
          /\ attempts'[runner'[r].attempt].cand = task'.cand
          /\ attempts'[runner'[r].attempt].state \in Live
      BY <2>0, <2>1 DEF Sits, Live
    <2> QED
      BY <2>4, <2>5 DEF Claims, Unresumed, Owning, Unclaimed, Aside
  <1>7. ASSUME Send(r) PROVE P
    <2>0. /\ runner[r].place = "send" /\ UNCHANGED <<task, attempts>>
          /\ manifest' = runner[r].attempt /\ (Walks(r, "handle") \/ Refused(r))
      BY <1>7, SendActs, SendAnswers
    <2>1. /\ attempts[runner[r].attempt].cand = task.cand /\ runner[r].cand = task.cand
          /\ Clear \/ attempts[runner[r].attempt].state \in Live
          /\ runner[r].disposition # "leave" /\ runner[r].attempt # 0
      BY <1>t, <2>0 DEF Claims, Aside, Attempting
    <2>2. Count' = Count /\ (Clear' <=> Clear)
      BY <2>0 DEF Count, LiveRows, Clear
    <2>3. Clear' \/ Firm'
      <3>1. manifest' # 0 /\ attempts'[manifest'] = attempts[runner[r].attempt] /\ task'.cand = task.cand
        BY <2>0, <2>1
      <3> QED
        BY Zenon, <2>1, <2>2, <3>1 DEF Firm, Told
    <2>4. /\ runner'[r].place \in {"handle", "decide"} /\ runner'[r].cand = runner[r].cand
          /\ runner'[r].resuming = runner[r].resuming /\ runner'[r].attempt = runner[r].attempt
          /\ runner'[r].disposition # "leave"
      BY <2>0, <2>1 DEF Walks, Refused, Sits
    <2> QED
      BY <2>0, <2>1, <2>2, <2>3, <2>4 DEF Claims, Unresumed, Owning, Unclaimed, Aside
  <1>8. ASSUME Outage(r) PROVE P
    BY <1>8, OutageActs DEF Claims
  <1>9. ASSUME Handle(r) PROVE P
    <2>0. /\ runner[r].place = "handle" /\ UNCHANGED task /\ runner[r].attempt \in 1..Len(attempts)
          /\ \/ manifest' = runner[r].attempt /\ attempts'[runner[r].attempt].state \in Live
             \/ UNCHANGED manifest
          /\ runner'[r].place \in {"poll", "fail"} /\ runner'[r].cand = runner[r].cand
          /\ runner'[r].disposition = runner[r].disposition /\ Len(attempts') = Len(attempts)
          /\ runner'[r].resuming = runner[r].resuming
          /\ \A i \in 1..Len(attempts): /\ attempts'[i].cand = attempts[i].cand
                                        /\ attempts'[i].state \in Live <=> attempts[i].state \in Live
      BY <1>9, HandleActs DEF Walks, Sits, Live
    <2>1. LiveRows' = LiveRows
      BY <1>t, <2>0 DEF LiveRows
    <2>2. Count' = Count /\ (Clear' <=> Clear)
      BY <2>1 DEF Count, Clear
    <2>3. Clear' \/ Firm' \/ Taken'
      <3>1. Clear \/ Firm \/ Taken
        BY <2>0 DEF Claims, Owning
      <3>2. attempts'[runner[r].attempt].cand = task'.cand
        BY <2>0 DEF Claims
      <3> QED
        BY <1>t, <1>o, <2>0, <2>2, <3>1, <3>2 DEF Firm, Told, Taken
    <2> QED
      BY <2>0, <2>2, <2>3 DEF Claims, Unresumed, Owning, Unclaimed, Aside
  <1>10. ASSUME PollStops(r) PROVE P
    <2>0. Count' <= 1 /\ (Clear' <=> Clear) /\ (Firm' <=> Firm) /\ (Taken' <=> Taken)
      BY <1>u, <1>10, PollStopsActs
    <2> QED
      BY ZenonT(60), <1>t, <2>0, <1>10, PollStopsActs
         DEF Claims, Unresumed, Owning, Unclaimed, Aside, Sits, Ends
  <1>11. ASSUME PollGoesOn(r) PROVE P
    <2>0. Count' <= 1 /\ (Clear' <=> Clear) /\ (Firm' <=> Firm) /\ (Taken' <=> Taken)
      BY <1>u, <1>11, PollGoesOnActs DEF Tasked
    <2> QED
      BY ZenonT(60), <1>t, <2>0, <1>11, PollGoesOnActs
         DEF Claims, Unresumed, Owning, Unclaimed, Aside, Sits, Tasked
  <1>12. ASSUME PollEnds(r) PROVE P
    <2>0. Count' <= 1 /\ (Clear' <=> Clear) /\ (Firm' <=> Firm) /\ (Taken' <=> Taken)
      BY <1>u, <1>12, PollEndsActs DEF Tasked
    <2> QED
      BY ZenonT(60), <1>t, <2>0, <1>12, PollEndsActs
         DEF Claims, Unresumed, Owning, Unclaimed, Aside, Sits, Tasked
  <1>13. ASSUME PollBreaks(r) PROVE P
    <2>0. Count' <= 1 /\ (Clear' <=> Clear) /\ (Firm' <=> Firm) /\ (Taken' <=> Taken)
      BY <1>u, <1>13, PollBreaksActs
    <2> QED
      BY ZenonT(60), <1>t, <2>0, <1>13, PollBreaksActs
         DEF Claims, Unresumed, Owning, Unclaimed, Aside, Sits, Walks
  <1>14. ASSUME Recheck(r) PROVE P
    <2>0. Count' <= 1 /\ (Clear' <=> Clear) /\ (Firm' <=> Firm) /\ (Taken' <=> Taken)
      BY <1>u, <1>14, RecheckActs
    <2> QED
      BY ZenonT(60), <1>t, <2>0, <1>14, RecheckActs
         DEF Claims, Unresumed, Owning, Unclaimed, Aside, Sits, Walks, Ends
  <1>15. ASSUME Prefer(r) PROVE P
    <2>0. Count' <= 1 /\ (Clear' <=> Clear) /\ (Firm' <=> Firm) /\ (Taken' <=> Taken)
      BY <1>u, <1>15, PreferActs DEF Tasked
    <2> QED
      BY ZenonT(60), <1>t, <2>0, <1>15, PreferActs
         DEF Claims, Unresumed, Owning, Unclaimed, Aside, Sits, Walks, Polls, Tasked
  <1>16. ASSUME Process(r) PROVE P
    <2>0. Count' <= 1 /\ (Clear' <=> Clear) /\ (Firm' <=> Firm) /\ (Taken' <=> Taken)
      BY <1>u, <1>16, ProcessActs DEF Tasked
    <2> QED
      BY ZenonT(60), <1>t, <2>0, <1>16, ProcessActs
         DEF Claims, Unresumed, Owning, Unclaimed, Aside, Sits, Walks, Tasked
  <1>17. ASSUME Import(r) PROVE P
    <2>0. Count' <= 1 /\ (Clear' <=> Clear) /\ (Firm' <=> Firm) /\ (Taken' <=> Taken)
      BY <1>u, <1>17, ImportActs
    <2> QED
      BY ZenonT(60), <1>t, <2>0, <1>17, ImportActs
         DEF Claims, Unresumed, Owning, Unclaimed, Aside, Sits, Walks, Finishes
  <1>18. ASSUME Decide(r) PROVE P
    <2>0. Count' <= 1 /\ (Clear' <=> Clear) /\ (Firm' <=> Firm) /\ (Taken' <=> Taken)
      BY <1>u, <1>18, DecideActs
    <2> QED
      BY ZenonT(60), <1>t, <2>0, <1>18, DecideActs
         DEF Claims, Unresumed, Owning, Unclaimed, Aside, Sits, Finishes
  <1>19. ASSUME Abort(r) PROVE P
    <2>0. Count' <= 1 /\ (Clear' <=> Clear) /\ (Firm' <=> Firm) /\ (Taken' <=> Taken)
      BY <1>u, <1>19, AbortActs
    <2> QED
      BY ZenonT(60), <1>t, <2>0, <1>19, AbortActs
         DEF Claims, Unresumed, Owning, Unclaimed, Aside, Sits, Walks, Ends
  <1>20. ASSUME Schedule(r) PROVE P
    <2>0. /\ runner[r].place = "schedule" /\ Walks(r, "link") /\ UNCHANGED <<task, manifest>>
          /\ ScheduleRow(ManifestRow, runner[r].disposition)
      BY <1>20, ScheduleStepActs
    <2>1. /\ Clear \/ Firm \/ manifest = 0
          /\ runner[r].disposition \in {"discard", "preserve"} /\ runner[r].cand = task.cand
      BY <1>t, <2>0 DEF Claims, Unresumed, Owning, Aside, Taken
    <2>2. Clear'
      BY <2>0, <2>1, ScheduleClears
    <2>3. Count' <= 1
      BY <2>2 DEF Clear
    <2> QED
      BY <2>0, <2>1, <2>2, <2>3 DEF Claims, Unresumed, Owning, Unclaimed, Aside, Walks, Sits
  <1>21. ASSUME Link(r) PROVE P
    <2>0. /\ runner[r].place = "link" /\ UNCHANGED attempts /\ Reads(r, "reset", task.status, runner[r].next)
          /\ task'.cand = runner[r].next
      BY <1>21, LinkActs DEF Tasked
    <2>1. Clear /\ runner[r].disposition # "leave"
      BY <2>0 DEF Claims, Unclaimed
    <2>2. Count' = Count /\ Clear'
      BY <2>0, <2>1 DEF Count, LiveRows, Clear
    <2> QED
      BY <2>0, <2>1, <2>2 DEF Claims, Unresumed, Owning, Unclaimed, Aside, Reads, Sits
  <1>22. ASSUME Reset(r) PROVE P
    <2>0. Count' <= 1 /\ (Clear' <=> Clear) /\ (Firm' <=> Firm) /\ (Taken' <=> Taken)
      BY <1>u, <1>22, ResetActs DEF Tasked
    <2> QED
      BY ZenonT(60), <1>t, <2>0, <1>22, ResetActs
         DEF Claims, Unresumed, Owning, Unclaimed, Aside, Sits, Reads, Tasked
  <1>23. ASSUME Finalize(r) PROVE P
    <2>1. ScheduleRow(FinalRow(r), runner[r].disposition) /\ FinalRow(r) \in 0..Len(attempts)
      BY <1>23, FinalizeActs
    <2>2. Count' \in Nat /\ Count' <= Count
      BY <1>t, <2>1, ScheduleCounts
    <2>3. runner'[r].place = "tidy" /\ runner'[r].resuming = runner[r].resuming
      BY <1>23, FinalizeActs DEF Walks, Sits
    <2> QED
      BY <1>t, <2>2, <2>3 DEF Claims, Unresumed, Owning, Unclaimed, Aside
  <1>24. ASSUME Tidy(r) PROVE P
    <2>1. Ends(r) /\ UNCHANGED attempts
      BY <1>24, TidyActs
    <2>2. Count' = Count
      BY <2>1 DEF Count, LiveRows
    <2> QED
      BY <2>1, <2>2 DEF Claims, Unresumed, Owning, Unclaimed, Aside, Ends, Sits
  <1>25. ASSUME Fail(r) PROVE P
    <2>1. Ends(r) /\ Count' = 0
      BY <1>25, FailActs, FailClears DEF Fail, Clear
    <2> QED
      BY <2>1 DEF Claims, Unresumed, Owning, Unclaimed, Aside, Ends, Sits
  <1> HIDE DEF P
  <1>p. P
    BY <1>1, <1>2, <1>3, <1>4, <1>5, <1>6, <1>7, <1>8, <1>9, <1>10, <1>11, <1>12, <1>13, <1>14,
       <1>15, <1>16, <1>17, <1>18, <1>19, <1>20, <1>21, <1>22, <1>23, <1>24, <1>25
       DEF RunnerStep
  <1> QED
    BY <1>p DEF P

\* As long as nobody has stopped it a runner is on the ladder, asks nobody while the manifest tells
\* of the candidate, and is through when the album is there.
Untelling == {"start", "search", "prepare", "open", "journal", "send", "reset"}
Attends(r) ==
  /\ Rung(r) /\ Unresumed(r)
  /\ runner[r].place \in Untelling => ~Told
  /\ runner[r].disposition # "leave"
  /\ landed => runner[r].place \in {"idle", "finalize", "tidy"}
  /\ runner[r].place = "tidy" => Clear
\* The manifest names a candidate, and is not ahead of the task.
Below == manifest # 0 => attempts[manifest].cand \in 1..task.cand

\* So a runner leaves no row behind when it ends, and moves on to candidates that come later.
LEMMA RunnerStepAttends ==
  ASSUME Typed, MaxFaults = 0, Count <= 1, ~Taken, Base, Below,
         NEW r \in Runners, Claims(r), Attends(r), RunnerStep(r)
  PROVE  /\ Attends(r)' /\ Base' /\ Below' /\ task.cand <= task'.cand
         /\ runner'[r].place = "idle" => Clear'
         /\ task'.cand = task.cand /\ Told => Told' \/ runner'[r].place = "idle"
  <1> DEFINE P == /\ runner'[r].place \in Untelling => ~Told'
                  /\ runner'[r].disposition # "leave"
                  /\ landed' => runner'[r].place \in {"idle", "finalize", "tidy"}
                  /\ runner'[r].place \in {"idle", "tidy"} => Clear'
                  /\ Below' /\ task.cand <= task'.cand
                  /\ task'.cand = task.cand /\ Told => Told' \/ runner'[r].place = "idle"
  <1>t. /\ Len(attempts) \in Nat /\ manifest \in 0..Len(attempts) /\ task.cand \in Nat
        /\ Count \in Nat /\ task.cand \in 0..Peers
        /\ runner[r].resuming \in BOOLEAN /\ runner[r].next \in Nat /\ runner[r].next \in 0..Peers
        /\ runner[r].disposition \in {"discard", "preserve", "leave"}
        /\ runner[r].place \in Attempting => runner[r].attempt \in 1..Len(attempts)
        /\ \A i \in 1..Len(attempts): attempts[i].cand \in Nat
    <2>1. Peers \in Nat /\ \A n \in 0..Peers: n \in Nat
      BY PeersAssumption
    <2>2. \A i \in 1..Len(attempts): attempts[i].cand \in 0..Peers
      BY RowsTyped, TypedParts DEF AttemptRows
    <2>3. task.cand \in 0..Peers /\ runner[r].next \in 0..Peers
      BY Fields
    <2> QED
      BY <2>1, <2>2, <2>3, TypedParts, Fields, RowsCount
  <1>a. /\ Rung(r) /\ Unresumed(r) /\ runner[r].disposition # "leave"
        /\ runner[r].place \in Untelling => ~Told
        /\ landed => runner[r].place \in {"idle", "finalize", "tidy"}
    BY DEF Attends
  <1>k. Base' /\ Rung(r)' /\ Claims(r)' /\ Count' <= 1 /\ Unresumed(r)'
    BY <1>a, RunnerStepLadders, RunnerStepClaims
  <1>u. ASSUME UNCHANGED <<attempts, manifest>>, task'.cand = task.cand
        PROVE  (Told' <=> Told) /\ (Clear' <=> Clear) /\ Below' /\ task.cand <= task'.cand
    BY <1>t, <1>u DEF Told, Clear, Count, LiveRows, Below
  <1>n. ASSUME UNCHANGED manifest, task'.cand = task.cand,
               \A i \in 1..Len(attempts): attempts'[i].cand = attempts[i].cand
        PROVE  (Told' <=> Told) /\ Below' /\ task.cand <= task'.cand
    BY <1>t, <1>n DEF Told, Below
  <1>1. ASSUME ProcessTask(r) PROVE P
    <2>0. (Told' <=> Told) /\ (Clear' <=> Clear) /\ Below' /\ task.cand <= task'.cand
      BY <1>u, <1>1, ProcessTaskActs
    <2> QED
      BY ZenonT(60), <1>a, <2>0, <1>1, ProcessTaskActs
         DEF Rung, Unresumed, Untelling, Sits, Walks
  <1>2. ASSUME ResumeTask(r) PROVE P
    BY <1>2, <1>a, ResumeTaskActs DEF Unresumed
  <1>3. ASSUME Search(r) PROVE P
    <2>1. /\ runner[r].place = "search" /\ Clear /\ UNCHANGED <<attempts, manifest, landed>>
          /\ task.cand = 0 /\ manifest = 0 /\ ~landed
      BY <1>3, <1>a, SearchActs DEF Claims, Unclaimed, Rung, Base
    <2>2. Clear' /\ ~Told' /\ Below' /\ ~Told
      BY <2>1 DEF Count, LiveRows, Clear, Told, Below
    <2>3. task'.cand \in 0..Peers /\ task'.cand \in Nat
      <3>1. task' \in Tasks \/ task'.cand = task.cand
        BY <1>3, SearchActs DEF Tasked
      <3>2. task'.cand \in 0..Peers
        BY <1>t, <3>1 DEF Tasks
      <3> QED
        BY <3>2, PeersAssumption
    <2>4. runner'[r].disposition # "leave"
      BY <1>3, <1>a, SearchActs DEF Sits, Reads, Ends
    <2> QED
      BY <2>1, <2>2, <2>3, <2>4
  <1>4. ASSUME Prepare(r) PROVE P
    <2>0. (Told' <=> Told) /\ (Clear' <=> Clear) /\ Below' /\ task.cand <= task'.cand
      BY <1>u, <1>4, PrepareActs DEF Tasked
    <2> QED
      BY ZenonT(60), <1>a, <2>0, <1>4, PrepareActs
         DEF Rung, Unresumed, Untelling, Sits, Walks, Reads, Polls, Tasked
  <1>5. ASSUME Open(r) PROVE P
    <2>0. (Told' <=> Told) /\ (Clear' <=> Clear) /\ Below' /\ task.cand <= task'.cand
      BY <1>u, <1>5, OpenActs DEF Tasked
    <2> QED
      BY ZenonT(60), <1>a, <2>0, <1>5, OpenActs
         DEF Rung, Unresumed, Untelling, Sits, Walks, Refused, Tasked
  <1>6. ASSUME Journal(r) PROVE P
    <2>0. /\ runner[r].place = "journal" /\ UNCHANGED <<task, manifest, landed>>
          /\ \A i \in 1..Len(attempts): attempts'[i] = attempts[i]
          /\ runner'[r].place = "send" /\ runner'[r].disposition = runner[r].disposition
      BY <1>6, JournalActs DEF Sits
    <2>1. (Told' <=> Told) /\ Below' /\ task.cand <= task'.cand
      BY <1>n, <2>0
    <2> QED
      BY <1>a, <2>0, <2>1 DEF Untelling
  <1>7. ASSUME Send(r) PROVE P
    <2>0. /\ runner[r].place = "send" /\ UNCHANGED <<task, attempts, landed>>
          /\ manifest' = runner[r].attempt /\ (Walks(r, "handle") \/ Refused(r))
      BY <1>7, SendActs, SendAnswers
    <2>1. attempts[runner[r].attempt].cand = task.cand /\ runner[r].attempt # 0 /\ task.cand # 0
      BY <1>t, <1>a, <2>0 DEF Claims, Attempting, Rung, Aside
    <2>2. manifest' # 0 /\ attempts'[manifest'] = attempts[runner[r].attempt] /\ task'.cand = task.cand
      BY <2>0, <2>1
    <2>3. Told' /\ Below' /\ task.cand <= task'.cand
      BY <1>t, <2>1, <2>2 DEF Told, Below
    <2>4. /\ runner'[r].place \in {"handle", "decide"} /\ runner'[r].disposition # "leave"
      BY <1>a, <2>0 DEF Walks, Refused, Sits
    <2> QED
      BY <1>a, <2>0, <2>3, <2>4 DEF Untelling
  <1>8. ASSUME Outage(r) PROVE P
    BY <1>8, OutageActs DEF Claims
  <1>9. ASSUME Handle(r) PROVE P
    <2>0. /\ runner[r].place = "handle" /\ UNCHANGED <<task, landed>>
          /\ runner[r].attempt \in 1..Len(attempts) /\ manifest' \in {manifest, runner[r].attempt}
          /\ runner'[r].place \in {"poll", "fail"}
          /\ runner'[r].disposition = runner[r].disposition
          /\ \A i \in 1..Len(attempts): attempts'[i].cand = attempts[i].cand
      BY <1>9, HandleActs DEF Walks, Sits
    <2>1. attempts[runner[r].attempt].cand = task.cand /\ task.cand # 0
      BY <1>a, <2>0 DEF Claims, Rung, Telling, Told, Base
    <2>2. (Told => Told') /\ Below' /\ task.cand <= task'.cand
      BY <1>t, <2>0, <2>1 DEF Told, Below
    <2> QED
      BY <1>a, <2>0, <2>2 DEF Untelling
  <1>10. ASSUME PollStops(r) PROVE P
    <2>0. (Told' <=> Told) /\ (Clear' <=> Clear) /\ Below' /\ task.cand <= task'.cand
      BY <1>u, <1>10, PollStopsActs
    <2> QED
      BY ZenonT(60), <1>a, <2>0, <1>10, PollStopsActs
         DEF Rung, Unresumed, Untelling, Sits, Ends, Terminal, Cancelled
  <1>11. ASSUME PollGoesOn(r) PROVE P
    <2>0. (Told' <=> Told) /\ (Clear' <=> Clear) /\ Below' /\ task.cand <= task'.cand
      BY <1>u, <1>11, PollGoesOnActs DEF Tasked
    <2> QED
      BY ZenonT(60), <1>a, <2>0, <1>11, PollGoesOnActs
         DEF Rung, Unresumed, Untelling, Sits, Tasked
  <1>12. ASSUME PollEnds(r) PROVE P
    <2>0. (Told' <=> Told) /\ (Clear' <=> Clear) /\ Below' /\ task.cand <= task'.cand
      BY <1>u, <1>12, PollEndsActs DEF Tasked
    <2> QED
      BY ZenonT(60), <1>a, <2>0, <1>12, PollEndsActs
         DEF Rung, Unresumed, Untelling, Sits, Tasked
  <1>13. ASSUME PollBreaks(r) PROVE P
    <2>0. (Told' <=> Told) /\ (Clear' <=> Clear) /\ Below' /\ task.cand <= task'.cand
      BY <1>u, <1>13, PollBreaksActs
    <2> QED
      BY ZenonT(60), <1>a, <2>0, <1>13, PollBreaksActs
         DEF Rung, Unresumed, Untelling, Sits, Walks
  <1>14. ASSUME Recheck(r) PROVE P
    <2>0. (Told' <=> Told) /\ (Clear' <=> Clear) /\ Below' /\ task.cand <= task'.cand
      BY <1>u, <1>14, RecheckActs
    <2> QED
      BY ZenonT(60), <1>a, <2>0, <1>14, RecheckActs
         DEF Rung, Unresumed, Untelling, Sits, Walks, Ends, Terminal, Cancelled
  <1>15. ASSUME Prefer(r) PROVE P
    <2>0. (Told' <=> Told) /\ (Clear' <=> Clear) /\ Below' /\ task.cand <= task'.cand
      BY <1>u, <1>15, PreferActs DEF Tasked
    <2> QED
      BY ZenonT(60), <1>a, <2>0, <1>15, PreferActs
         DEF Rung, Unresumed, Untelling, Sits, Walks, Polls, Tasked
  <1>16. ASSUME Process(r) PROVE P
    <2>0. (Told' <=> Told) /\ (Clear' <=> Clear) /\ Below' /\ task.cand <= task'.cand
      BY <1>u, <1>16, ProcessActs DEF Tasked
    <2> QED
      BY ZenonT(60), <1>a, <2>0, <1>16, ProcessActs
         DEF Rung, Unresumed, Untelling, Sits, Walks, Tasked
  <1>17. ASSUME Import(r) PROVE P
    <2>0. (Told' <=> Told) /\ (Clear' <=> Clear) /\ Below' /\ task.cand <= task'.cand
      BY <1>u, <1>17, ImportActs
    <2>1. /\ runner'[r].place \in {"fail", "finalize", "decide"} /\ runner'[r].disposition # "leave"
          /\ runner[r].place = "import"
      BY <1>17, <1>a, ImportActs DEF Walks, Finishes, Sits
    <2>2. ~landed
      BY <1>a, <2>1
    <2>3. CASE landed' = landed
      BY <2>0, <2>1, <2>2, <2>3 DEF Untelling
    <2>4. CASE landed' # landed
      <3>1. \E disposition \in {"discard", "preserve"}: Concludes(r, "completed", disposition)
        BY <1>17, <2>4 DEF Import, music
      <3>2. runner'[r].place = "finalize"
        BY <3>1, ConcludesMoves DEF Finishes, Sits, Verdicts
      <3> QED
        BY <2>0, <2>1, <3>2 DEF Untelling
    <2> QED
      BY <2>3, <2>4
  <1>18. ASSUME Decide(r) PROVE P
    <2>0. (Told' <=> Told) /\ (Clear' <=> Clear) /\ Below' /\ task.cand <= task'.cand
      BY <1>u, <1>18, DecideActs
    <2> QED
      BY ZenonT(60), <1>a, <2>0, <1>18, DecideActs
         DEF Rung, Unresumed, Untelling, Sits, Finishes
  <1>19. ASSUME Abort(r) PROVE P
    <2>0. (Told' <=> Told) /\ (Clear' <=> Clear) /\ Below' /\ task.cand <= task'.cand
      BY <1>u, <1>19, AbortActs
    <2> QED
      BY ZenonT(60), <1>a, <2>0, <1>19, AbortActs
         DEF Rung, Unresumed, Untelling, Sits, Walks, Ends, Terminal, Cancelled
  <1>20. ASSUME Schedule(r) PROVE P
    <2>0. /\ runner[r].place = "schedule" /\ UNCHANGED <<task, manifest, landed>>
          /\ ScheduleRow(ManifestRow, runner[r].disposition) /\ ManifestRow \in 0..Len(attempts)
          /\ runner'[r].place = "link" /\ runner'[r].disposition = runner[r].disposition
      BY <1>20, ScheduleStepActs DEF Walks, Sits
    <2>1. \A i \in 1..Len(attempts): attempts'[i].cand = attempts[i].cand
      BY <1>t, <2>0, ScheduleActs, TypedParts
    <2>2. (Told' <=> Told) /\ Below' /\ task.cand <= task'.cand
      BY <1>n, <2>0, <2>1
    <2> QED
      BY <1>a, <2>0, <2>2 DEF Untelling
  <1>21. ASSUME Link(r) PROVE P
    <2>0. /\ runner[r].place = "link" /\ UNCHANGED <<attempts, manifest, landed>>
          /\ task'.cand = runner[r].next /\ runner'[r].place = "reset"
          /\ runner'[r].disposition = runner[r].disposition
      BY <1>21, LinkActs DEF Tasked, Reads, Sits
    <2>1. task'.cand \in Nat /\ task.cand < task'.cand
      BY <1>t, <1>a, <2>0 DEF Rung
    <2>2. Below' /\ ~Told'
      BY <1>t, <2>0, <2>1 DEF Below, Told
    <2> QED
      BY <1>t, <1>a, <2>0, <2>1, <2>2 DEF Untelling
  <1>22. ASSUME Reset(r) PROVE P
    <2>0. (Told' <=> Told) /\ (Clear' <=> Clear) /\ Below' /\ task.cand <= task'.cand
      BY <1>u, <1>22, ResetActs DEF Tasked
    <2> QED
      BY ZenonT(60), <1>a, <2>0, <1>22, ResetActs
         DEF Rung, Unresumed, Untelling, Sits, Reads, Tasked
  <1>23. ASSUME Finalize(r) PROVE P
    <2>0. /\ runner[r].place = "finalize" /\ UNCHANGED <<manifest, landed>>
          /\ ScheduleRow(FinalRow(r), runner[r].disposition) /\ FinalRow(r) \in 0..Len(attempts)
          /\ runner'[r].place = "tidy" /\ runner'[r].disposition = runner[r].disposition
          /\ task'.cand = task.cand
      BY <1>23, FinalizeActs DEF Walks, Sits, Tasked
    <2>1. \A i \in 1..Len(attempts): attempts'[i].cand = attempts[i].cand
      BY <1>t, <2>0, ScheduleActs, TypedParts
    <2>2. (Told' <=> Told) /\ Below' /\ task.cand <= task'.cand
      BY <1>n, <2>0, <2>1
    <2>3. Clear \/ Firm
      BY <2>0 DEF Claims, Owning
    <2>4. /\ Count' \in Nat /\ Count' <= Count
          /\ FinalRow(r) # 0 /\ attempts[FinalRow(r)].state \in Live => Count' + 1 <= Count
      BY <1>t, <1>a, <2>0, ScheduleCounts
    <2>5. Clear'
      <3>1. CASE Clear
        BY Zenon, <1>t, <2>4, <3>1, NoneLeft DEF Clear
      <3>2. CASE Firm
        <4>1. Count' + 1 <= Count
          BY <2>4, <3>2 DEF FinalRow, Firm, Told
        <4> QED
          BY Zenon, <1>t, <2>4, <4>1, NoneLeft DEF Clear
      <3> QED
        BY <2>3, <3>1, <3>2
    <2> QED
      BY <1>a, <2>0, <2>2, <2>5 DEF Untelling
  <1>24. ASSUME Tidy(r) PROVE P
    <2>1. /\ runner[r].place = "tidy" /\ runner'[r].place = "idle" /\ UNCHANGED <<task, attempts>>
          /\ runner'[r].disposition # "leave" /\ manifest' = 0
      BY <1>24, TidyActs DEF Ends, Sits
    <2>2. Clear' /\ Below' /\ task.cand <= task'.cand
      BY <1>t, <2>1 DEF Attends, Clear, Count, LiveRows, Below
    <2> QED
      BY <2>1, <2>2 DEF Untelling
  <1>25. ASSUME Fail(r) PROVE P
    <2>0. /\ runner'[r].place = "idle" /\ UNCHANGED manifest /\ task'.cand = task.cand
          /\ runner'[r].disposition # "leave"
          /\ \A i \in 1..Len(attempts): attempts'[i].cand = attempts[i].cand
      BY <1>25, FailActs DEF Ends, Sits, Tasked
    <2>1. (Told' <=> Told) /\ Below' /\ task.cand <= task'.cand
      BY <1>n, <2>0
    <2>2. Clear'
      BY <1>25, FailClears DEF Fail
    <2> QED
      BY <2>0, <2>1, <2>2 DEF Untelling
  <1> HIDE DEF P
  <1>p. P
    BY <1>1, <1>2, <1>3, <1>4, <1>5, <1>6, <1>7, <1>8, <1>9, <1>10, <1>11, <1>12, <1>13, <1>14,
       <1>15, <1>16, <1>17, <1>18, <1>19, <1>20, <1>21, <1>22, <1>23, <1>24, <1>25
       DEF RunnerStep
  <1> QED
    BY <1>k, <1>p DEF P, Attends

\* Nobody has disturbed the runner yet: there is no request, or one that only looks.
Waiting == \A k \in Callers: op[k].place \in {"idle", "next_look", "next_stop"}
\* Then the reaper, too, finds nobody at work, and who has ended has left no row.
Waits ==
  /\ Base /\ Below /\ \A r \in Runners: Attends(r)
  /\ reaping => \A r \in Runners: ~IsLive(r)
  /\ (\A r \in Runners: runner[r].place \in {"idle", "tidy"}) => Clear

\* A switch that finds the candidate it began with has its row by the manifest, or finds nobody at
\* work; no row is live when it links the next candidate, nor when a re-import begins.
Alert(k) ==
  /\ op[k].place \in {"next_look", "next_stop"} =>
       /\ op[k].cand <= task.cand /\ Peer(op[k].attempt) # 0
       /\ task.cand = op[k].cand /\ Peer(op[k].attempt) = op[k].cand =>
            Told \/ \A r \in Runners: ~IsLive(r)
  /\ op[k].place = "next_stop" => Peer(op[k].attempt) = op[k].cand \/ task.cand # op[k].cand
  /\ op[k].place = "next_verify" /\ task.cand = op[k].cand => Clear \/ Firm
  /\ op[k].place \in {"next_abort", "next_schedule"} => Clear \/ Firm
  /\ op[k].place \in {"next_link", "next_dispatch", "reimport"} => Clear
  /\ op[k].place # "done" => \A r \in Runners: Unresumed(r)

\* A download with one live row at most.
Lone ==
  /\ Count <= 1 /\ (\A r \in Runners: Claims(r)) /\ \A k \in Callers: Alert(k)
  /\ Waiting => Waits

\* Only one runner is live, and keeps that.
LEMMA RunnerKeepsLone ==
  ASSUME OneRequest, MaxFaults = 0, Sole, Lone, NEW r \in Runners, RunnerStep(r)
  PROVE  Lone'
  <1>s. Typed /\ Driven /\ Single
    BY DEF Sole
  <1>1. /\ IsLive(r) /\ UNCHANGED <<op, reaping>> /\ \A q \in Runners \ {r}: runner'[q] = runner[q]
    BY <1>s, RunnerStepLives
  <1>2. Claims(r)' /\ Count' <= 1 /\ (Unresumed(r) => Unresumed(r)')
    BY <1>s, RunnerStepClaims DEF Lone
  <1>3. \A q \in Runners \ {r}: runner[q].place = "idle"
    BY <1>s, <1>1 DEF Driven, IsLive
  <1>4. ASSUME NEW q \in Runners PROVE Claims(q)'
    <2>1. CASE q = r
      BY <1>2, <2>1
    <2>2. CASE q # r
      <3>1. runner'[q] = runner[q] /\ runner[q].place = "idle" /\ runner[q].disposition # "leave"
        BY <1>1, <1>3, <2>2 DEF Lone, Claims
      <3> QED
        BY <3>1, ClaimNone
    <2> QED
      BY <2>1, <2>2
  <1>5. Waiting =>
          /\ Attends(r)' /\ Base' /\ Below' /\ task.cand <= task'.cand
          /\ runner'[r].place = "idle" => Clear'
          /\ task'.cand = task.cand /\ Told => Told' \/ runner'[r].place = "idle"
    <2> SUFFICES ASSUME Waiting
                 PROVE  /\ Attends(r)' /\ Base' /\ Below' /\ task.cand <= task'.cand
                        /\ runner'[r].place = "idle" => Clear'
                        /\ task'.cand = task.cand /\ Told => Told' \/ runner'[r].place = "idle"
      OBVIOUS
    <2>1. ~Taken
      BY DEF Waiting, Taken
    <2> QED
      BY <1>s, <2>1, RunnerStepAttends DEF Lone, Waits
  <1>6. Waiting => Waits'
    <2> SUFFICES ASSUME Waiting PROVE Waits'
      OBVIOUS
    <2>1. ~reaping
      BY <1>1 DEF Lone, Waits
    <2>2. ASSUME NEW q \in Runners PROVE Attends(q)'
      <3>1. CASE q = r
        BY <1>5, <3>1
      <3>2. CASE q # r
        <4>1. /\ runner'[q] = runner[q] /\ runner[q].place = "idle" /\ Unresumed(q)
              /\ runner[q].disposition # "leave"
          BY <1>1, <1>3, <3>2 DEF Lone, Waits, Attends
        <4>2. Rung(q)'
          BY <4>1, AsleepRung
        <4> QED
          BY <4>1, <4>2 DEF Attends, Unresumed, Untelling
      <3> QED
        BY <3>1, <3>2
    <2>3. runner'[r].place \in {"idle", "tidy"} => Clear'
      BY <1>5 DEF Attends
    <2> QED
      BY <1>1, <1>5, <2>1, <2>2, <2>3 DEF Waits
  <1>7. ASSUME NEW k \in Callers PROVE Alert(k)'
    <2>a. Alert(k) /\ op'[k] = op[k]
      BY <1>1 DEF Lone
    <2>0. op[k].place # "done" => \A q \in Runners: Unresumed(q)'
      BY <1>1, <1>2, <2>a DEF Alert, Unresumed
    <2>1. CASE op[k].place \in {"next_look", "next_stop"}
      <3>1. Waiting
        BY <2>1 DEF OneRequest, Waiting
      <3>2. op[k].attempt \in 1..Len(attempts) /\ Named /\ task.cand \in Nat /\ task'.cand \in Nat
            /\ op[k].cand \in Nat
        <4>1. Typed'
          BY <1>s, NextTyped DEF Next
        <4>2. \A n \in 0..Peers: n \in Nat
          BY PeersAssumption
        <4>3. task.cand \in 0..Peers /\ op[k].cand \in 0..Peers
          BY <1>s, Fields
        <4>4. task'.cand \in 0..Peers
          BY <4>1 DEF Typed, TypeOK, Tasks
        <4>5. op[k].attempt \in 1..Len(attempts)
          BY <1>s, <2>1 DEF Typed, Asking
        <4>6. Named
          BY <1>s, RunnerStepGrows DEF Named, Grows
        <4> QED
          BY <4>2, <4>3, <4>4, <4>5, <4>6
      <3>3. Peer(op[k].attempt)' = Peer(op[k].attempt)
        BY <2>a, <3>2 DEF Named, Peer
      <3>4. task.cand <= task'.cand /\ op[k].cand <= task.cand
        BY <1>5, <2>1, <2>a, <3>1 DEF Alert
      <3>5. /\ op[k].cand <= task'.cand
            /\ task'.cand = op[k].cand => task'.cand = task.cand
        BY <3>2, <3>4
      <3>6. task'.cand = op[k].cand /\ Peer(op[k].attempt) = op[k].cand =>
              Told' \/ \A q \in Runners: runner'[q].place = "idle"
        BY <1>1, <1>3, <1>5, <2>1, <2>a, <3>1, <3>5 DEF Alert
      <3> QED
        BY <2>0, <2>1, <2>a, <3>3, <3>5, <3>6 DEF Alert, IsLive
    <2>2. CASE op[k].place \in Stopping
      BY <1>s, <1>1, <2>2 DEF Driven
    <2>3. CASE op[k].place \in Reimporting
      <3>1. Tidy(r)
        BY <1>s, <1>1, <2>3, TidyOnly DEF Single, IsLive
      <3>2. UNCHANGED attempts
        BY <1>s, <3>1, TidyActs
      <3>3. Clear' <=> Clear
        BY <3>2 DEF Clear, Count, LiveRows
      <3> QED
        BY <2>0, <2>3, <2>a, <3>2, <3>3 DEF Alert, Reimporting
    <2>4. CASE op[k].place \notin Stopping \union Reimporting \union {"next_look", "next_stop"}
      BY <2>0, <2>4, <2>a DEF Alert, Stopping, Reimporting
    <2> QED
      BY <2>1, <2>2, <2>3, <2>4
  <1>8. Waiting' <=> Waiting
    BY <1>1 DEF Waiting
  <1> QED
    BY <1>2, <1>4, <1>6, <1>7, <1>8 DEF Lone

\* Runners that are stopped have no claim, ...
LEMMA StopsClaims ==
  ASSUME Driven, Stops, \A r \in Runners: Claims(r) /\ Unresumed(r)
  PROVE  \A r \in Runners: runner'[r].place = "idle" /\ Claims(r)' /\ Unresumed(r)'
  <1> TAKE r \in Runners
  <1>1. CASE runner'[r] = Off
    BY <1>1 DEF Claims, Unresumed, Off, Aside, Unclaimed, Owning
  <1>2. CASE runner'[r] # Off
    <2>1. runner'[r] = runner[r] /\ runner[r].place = "idle"
      BY <1>2 DEF Stops, Driven, IsLive
    <2>2. runner[r].disposition # "leave" /\ ~runner[r].resuming
      BY <2>1 DEF Claims, Unresumed
    <2> QED
      BY <2>1, <2>2 DEF Claims, Unresumed, Aside, Unclaimed, Owning
  <1> QED
    BY <1>1, <1>2

\* ... and one that a request starts where nobody works finds no live row, or the manifest's.
LEMMA BeginsClaims ==
  ASSUME \A q \in Runners: ~IsLive(q) /\ Claims(q), NEW r \in Runners,
         (Begins(r, "start") /\ Clear') \/ (Begins(r, "resume") /\ (Clear' \/ Firm'))
  PROVE  \A q \in Runners: Claims(q)'
  <1> TAKE q \in Runners
  <1>1. CASE q = r
    BY <1>1 DEF Claims, Begins, Sits, Aside, Unclaimed, Owning
  <1>2. CASE q # r
    <2>1. runner'[q] = runner[q] /\ runner[q].place = "idle" /\ runner[q].disposition # "leave"
      BY <1>2 DEF Begins, Sits, IsLive, Claims
    <2> QED
      BY <2>1, ClaimNone
  <1> QED
    BY <1>1, <1>2

\* A request that stops nobody leaves Waits as it is while it has changed nothing.
LEMMA SameWaits ==
  ASSUME Typed, Waits, UNCHANGED <<task, attempts, manifest, transfer, runner, landed, reaping>>
  PROVE  Waits'
  <1>1. Named
    BY DEF Named
  <1>2. Base' /\ \A r \in Runners: Rung(r) => Rung(r)'
    BY <1>1, StandsOnRung DEF Waits
  <1>3. Told' = Told /\ Clear' = Clear
    BY DEF Told, Clear, Count, LiveRows
  <1>4. \A r \in Runners: Attends(r)'
    BY <1>2, <1>3 DEF Waits, Attends, Unresumed
  <1> QED
    BY <1>2, <1>3, <1>4 DEF Waits, Below, IsLive

\* The one request does, too.
LEMMA RequestKeepsLone ==
  ASSUME OneRequest, MaxFaults = 0, Sole, Lone, NEW k \in Callers, RequestStep(k) \/ Request(k)
  PROVE  Lone'
  <1>s. Typed /\ Driven /\ Single /\ Fed
    BY DEF Sole
  <1>t. /\ Count \in Nat /\ Count <= 1 /\ task.cand \in Nat /\ Len(attempts) \in Nat
        /\ manifest \in 0..Len(attempts)
    <2>1. task.cand \in 0..Peers /\ \A n \in 0..Peers: n \in Nat
      BY <1>s, Fields, PeersAssumption
    <2> QED
      BY <1>s, <2>1, RowsCount, TypedParts DEF Lone
  <1>o. (\A q \in Callers: q = k) /\ UNCHANGED <<reaping, crashes>>
    BY <1>s, RequestStepLives DEF OneRequest
  <1>l. Alert(k) /\ \A r \in Runners: Claims(r)
    BY DEF Lone
  <1>w. op[k].place \in {"idle", "next_look", "next_stop"} => Waits
    BY <1>o DEF Lone, Waiting
  <1>i. ASSUME NEW r \in Runners, runner[r].place = "idle"
        PROVE  runner[r].disposition # "leave"
    BY <1>i, <1>l DEF Claims
  \* What is left to show when a request goes on, ends or only looks.
  <1>q. ASSUME Count' <= 1, \A r \in Runners: Claims(r)', Alert(k)',
               op'[k].place \in {"idle", "next_look", "next_stop"} => Waits'
        PROVE  Lone'
    BY <1>o, <1>q DEF Lone, Waiting
  <1>d. ASSUME op'[k].place = "done" PROVE Alert(k)'
    BY <1>d DEF Alert
  <1>k. ASSUME op[k].place # "done", UNCHANGED <<attempts, runner>>, task'.cand = task.cand,
               manifest' = manifest \/ (manifest' = 0 /\ op'[k].place = "done")
        PROVE  /\ \A r \in Runners: Claims(r)' /\ Unresumed(r)'
               /\ Count' <= 1 /\ Clear' = Clear
               /\ manifest' = manifest => Firm' = Firm
    <2>1. Clear' = Clear /\ Count' = Count /\ Named
      BY <1>k DEF Clear, Count, LiveRows, Named
    <2>2. manifest' = manifest => Firm' = Firm
      BY <1>k DEF Firm, Told
    <2>3. ~Taken
      BY <1>k, <1>o DEF Taken
    <2>4. \A r \in Runners: Unresumed(r) /\ Unresumed(r)'
      BY <1>k, <1>l DEF Alert, Unresumed
    <2>5. manifest' # manifest => Taken'
      BY <1>k DEF Taken
    <2>6. ASSUME NEW r \in Runners PROVE Claims(r)'
      BY <1>k, <1>s, <1>l, <2>1, <2>2, <2>3, <2>4, <2>5, ClaimKept
    <2> QED
      BY <1>t, <2>1, <2>2, <2>4, <2>6
  \* Where nobody works there is no claim to keep.
  <1>n. ASSUME UNCHANGED runner, \A r \in Runners: runner[r].place \in {"idle", "tidy"}
        PROVE  \A r \in Runners: Claims(r)'
    <2> TAKE r \in Runners
    <2>1. runner'[r].place \in {"idle", "tidy"} /\ (runner'[r].place # "tidy" => runner'[r].disposition # "leave")
      BY <1>n, <1>i
    <2> QED
      BY <2>1, ClaimNone
  <1>z. Clear' => Count' <= 1
    <2>1. 0 <= 1
      OBVIOUS
    <2> QED
      BY Zenon, <2>1 DEF Clear
  <1>1. CASE CancelAsk(k)
    <2>1. /\ op[k].place = "idle" /\ Stops /\ op'[k].place = "cancel"
          /\ UNCHANGED <<task, attempts, manifest>>
      BY <1>1, <1>s, CancelAskActs DEF Steps, Stands
    <2>2. \A r \in Runners: Unresumed(r)
      BY <1>l, <2>1 DEF Alert
    <2>3. \A r \in Runners: Claims(r)' /\ Unresumed(r)'
      BY <1>s, <1>l, <2>1, <2>2, StopsClaims
    <2>4. Count' <= 1
      BY <1>t, <2>1 DEF Count, LiveRows
    <2>5. Alert(k)'
      BY <2>1, <2>3 DEF Alert
    <2> QED
      BY <1>q, <2>1, <2>3, <2>4, <2>5
  <1>2. CASE CancelCommit(k)
    <2>1. /\ op[k].place = "cancel" /\ op'[k].place = "cancel_tidy" /\ UNCHANGED runner
          /\ Len(attempts') = Len(attempts)
          /\ \A i \in 1..Len(attempts):
               \/ attempts[i].state = "settled" /\ attempts'[i] = attempts[i]
               \/ attempts'[i].state \in {"discard", "preserve"}
      BY <1>2, <1>s, CancelCommitActs DEF Steps, Stands
    <2>2. \A i \in 1..Len(attempts'): attempts'[i].state \notin Live
      BY <2>1 DEF Live
    <2>3. Clear'
      <3>1. LiveRows' = {}
        BY <2>2 DEF LiveRows
      <3> QED
        BY <3>1, FS_EmptySet DEF Clear, Count
    <2>4. \A r \in Runners: Unresumed(r)'
      BY <1>l, <2>1 DEF Alert, Unresumed
    <2>5. \A r \in Runners: Claims(r)'
      BY <1>s, <1>n, <2>1 DEF Single
    <2>6. Alert(k)'
      BY <2>1, <2>4 DEF Alert
    <2> QED
      BY <1>q, <1>z, <2>1, <2>3, <2>5, <2>6
  <1>3. CASE CancelTidy(k)
    <2>1. /\ op[k].place = "cancel_tidy" /\ op'[k].place = "done" /\ manifest' = 0
          /\ UNCHANGED <<task, attempts, runner>>
      BY <1>3, <1>s, CancelTidyActs DEF Done, Stands
    <2> QED
      BY <1>q, <1>d, <1>k, <2>1
  <1>4. CASE NextAsk(k)
    <2>1. /\ op[k].place = "idle" /\ manifest # 0 /\ op'[k].place = "next_look"
          /\ op'[k].cand = task.cand /\ op'[k].attempt = manifest
          /\ UNCHANGED <<task, attempts, manifest, transfer, runner, landed>>
      BY <1>4, <1>s, NextAskActs DEF Stands
    <2>2. Waits /\ Waits'
      BY <1>w, <1>s, <1>o, <2>1, SameWaits
    <2>3. attempts[manifest].cand # 0
      BY <1>t, <2>1, <2>2 DEF Waits, Below
    <2>4. op'[k].cand <= task'.cand /\ Peer(op[k].attempt)' = attempts[manifest].cand
      BY <1>t, <2>1 DEF Peer
    <2>5. task'.cand = op'[k].cand /\ Peer(op[k].attempt)' = op'[k].cand => Told'
      BY <2>1, <2>4 DEF Told
    <2>6. \A r \in Runners: Claims(r)' /\ Unresumed(r)'
      BY <1>k, <2>1
    <2>7. Alert(k)'
      BY <2>1, <2>3, <2>4, <2>5, <2>6 DEF Alert
    <2>8. Count' <= 1
      BY <1>k, <2>1
    <2> QED
      BY <1>q, <2>2, <2>6, <2>7, <2>8
  <1>5. CASE NextLook(k)
    <2>1. /\ op[k].place = "next_look" /\ UNCHANGED <<task, attempts, manifest, transfer, runner, landed>>
      BY <1>5, <1>s, NextLookActs
    <2>2. Waits /\ Waits'
      BY <1>w, <1>s, <1>o, <2>1, SameWaits
    <2>3. /\ \A r \in Runners: Claims(r)' /\ Unresumed(r)'
          /\ Count' <= 1
      BY <1>k, <2>1
    <2>4. CASE transfer[Peer(op[k].attempt)] # "queued"
      <3>1. op'[k].place = "done"
        BY <1>5, <1>s, <2>4, RequestMoves DEF NextLook, Done, Stands
      <3> QED
        BY <1>q, <1>d, <2>3, <3>1
    <2>5. CASE transfer[Peer(op[k].attempt)] = "queued"
      <3>1. Steps(k, "next_stop")
        BY <1>5, <1>s, <2>5, RequestMoves DEF NextLook, OpPlaces
      <3>2. /\ op'[k].place = "next_stop" /\ op'[k].cand = op[k].cand
            /\ op'[k].attempt = op[k].attempt
        BY <3>1 DEF Steps, Stands
      <3>3. /\ op[k].cand <= task.cand /\ Peer(op[k].attempt) # 0
            /\ task.cand = op[k].cand /\ Peer(op[k].attempt) = op[k].cand =>
                 Told \/ \A r \in Runners: ~IsLive(r)
        BY <1>l, <2>1 DEF Alert
      <3>4. Peer(op[k].attempt) \in 1..Peers
        <4>1. op[k].attempt \in 1..Len(attempts)
          BY <1>s, <2>1, TypedParts DEF Asking
        <4>2. Peer(op[k].attempt) \in 0..Peers
          BY <1>s, <4>1, Fields
        <4> QED
          BY <3>3, <4>2, PeersAssumption
      <3>5. Peer(op[k].attempt) = task.cand
        BY <2>2, <2>5, <3>4 DEF Waits, Base, Asked
      <3>6. Peer(op[k].attempt)' = Peer(op[k].attempt) /\ (Told' <=> Told)
        BY <2>1, <3>2 DEF Peer, Told
      <3>7. Alert(k)'
        BY <2>1, <2>3, <3>2, <3>3, <3>5, <3>6 DEF Alert, IsLive
      <3> QED
        BY <1>q, <2>2, <2>3, <3>7
    <2> QED
      BY <2>4, <2>5
  <1>6. CASE NextStop(k)
    <2>1. /\ op[k].place = "next_stop" /\ op'[k].place = "next_verify" /\ op'[k].cand = op[k].cand
          /\ Stops /\ UNCHANGED <<task, attempts, manifest>>
      BY <1>6, <1>s, NextStopActs DEF Steps, Stands
    <2>2. Waits /\ ~Taken
      BY <1>w, <1>o, <2>1 DEF Taken
    <2>3. \A r \in Runners: Claims(r)' /\ Unresumed(r)'
      BY <1>s, <1>l, <2>1, StopsClaims DEF Alert
    <2>4. Clear' = Clear /\ Firm' = Firm /\ Count' = Count
      BY <2>1 DEF Clear, Count, LiveRows, Firm, Told
    <2>5. ASSUME NEW r \in Runners, Told, IsLive(r) PROVE Clear \/ Firm
      <3>1. runner[r].place \in Places \ {"idle", "resume", "outage"}
        BY <1>s, <1>l, <2>2, <2>5, Fields DEF IsLive, Claims, Waits, Attends, Unresumed
      <3>2. runner[r].place \notin Untelling /\ (runner[r].place = "tidy" => Clear)
        BY <2>2, <2>5 DEF Waits, Attends
      <3>3. /\ runner[r].place = "link" => Clear
            /\ runner[r].place \in Owning \union {"fail"} => Clear \/ Firm
        BY <1>l, <2>2 DEF Claims, Unclaimed
      <3> QED
        BY <3>1, <3>2, <3>3 DEF Places, Untelling, Owning
    <2>6. ASSUME \A r \in Runners: ~IsLive(r) PROVE Clear
      BY <2>2, <2>6 DEF Waits, IsLive
    <2>7. task.cand = op[k].cand => Clear \/ Firm
      BY <1>l, <2>1, <2>5, <2>6 DEF Alert
    <2>8. Alert(k)'
      BY <2>1, <2>3, <2>4, <2>7 DEF Alert
    <2>9. Count' <= 1
      BY <1>t, <2>4
    <2> QED
      BY <1>q, <2>1, <2>3, <2>8, <2>9
  \* A runner that a switch starts again.
  <1>b. ASSUME op[k].place \in Stopping, op'[k].place = "done", UNCHANGED <<attempts, manifest>>,
               task'.cand = task.cand, NEW r \in Runners,
               (Begins(r, "start") /\ Clear) \/ (Begins(r, "resume") /\ (Clear \/ Firm))
        PROVE  Lone'
    <2>1. Clear' = Clear /\ Firm' = Firm /\ Count' = Count
      BY <1>b DEF Clear, Count, LiveRows, Firm, Told
    <2>2. \A q \in Runners: ~IsLive(q) /\ Claims(q)
      BY <1>s, <1>l, <1>b DEF Driven
    <2>3. \A q \in Runners: Claims(q)'
      BY <1>b, <2>1, <2>2, BeginsClaims
    <2>4. Count' <= 1
      BY <1>t, <2>1
    <2> QED
      BY <1>b, <1>q, <1>d, <2>3, <2>4
  <1>7. CASE NextVerify(k)
    <2>1. op[k].place = "next_verify" /\ UNCHANGED <<attempts, manifest>> /\ op[k].place \in Stopping
      BY <1>7, <1>s, NextVerifyActs DEF Stopping
    <2>2. task.cand = op[k].cand => Clear \/ Firm
      BY <1>l, <2>1 DEF Alert
    <2>a. (Releases(k) /\ UNCHANGED <<task, runner>>) \/ task.cand = op[k].cand
      BY <1>7 DEF NextVerify
    <2>b. \/ Done(k) /\ UNCHANGED <<task, runner>>
          \/ Done(k) /\ task'.cand = task.cand /\ \E r \in Runners: Begins(r, "resume")
          \/ \E n \in Behind(op[k].cand):
               /\ Stands(k, "next_abort", op[k].status, op[k].cand, n, op[k].attempt)
               /\ UNCHANGED <<task, runner>>
      BY Zenon, <1>7, <1>s, NextVerifyActs DEF Tasked
    <2>3. CASE op'[k].place = "done" /\ UNCHANGED <<task, runner>>
      BY <1>k, <1>q, <1>d, <2>1, <2>3
    <2>4. CASE /\ task.cand = op[k].cand /\ op'[k].place = "done" /\ task'.cand = task.cand
               /\ \E r \in Runners: Begins(r, "resume")
      BY <1>b, <2>1, <2>2, <2>4
    <2>5. CASE op'[k].place = "next_abort" /\ task.cand = op[k].cand /\ UNCHANGED <<task, runner>>
      <3>1. /\ \A r \in Runners: Claims(r)' /\ Unresumed(r)'
            /\ Count' <= 1 /\ Clear' = Clear /\ Firm' = Firm
        BY <1>k, <2>1, <2>5
      <3>2. Alert(k)'
        BY <2>2, <2>5, <3>1 DEF Alert
      <3> QED
        BY <1>q, <2>5, <3>1, <3>2
    <2>6. Releases(k) => op'[k].place = "done"
      BY <1>s, RequestMoves DEF Done, Stands
    <2> QED
      BY <2>a, <2>b, <2>3, <2>4, <2>5, <2>6 DEF Done, Stands
  <1>8. CASE NextAbort(k)
    <2>1. /\ op[k].place = "next_abort" /\ UNCHANGED <<task, attempts, manifest>>
          /\ \/ op'[k].place = "next_schedule" /\ UNCHANGED runner
             \/ op'[k].place = "done" /\ \E r \in Runners: Begins(r, "resume")
      BY <1>8, <1>s, NextAbortActs DEF Done, Steps, Stands
    <2>2. Clear \/ Firm
      BY <1>l, <2>1 DEF Alert
    <2>3. CASE op'[k].place = "next_schedule" /\ UNCHANGED runner
      <3>1. /\ \A r \in Runners: Claims(r)' /\ Unresumed(r)'
            /\ Count' <= 1 /\ Clear' = Clear /\ Firm' = Firm
        BY <1>k, <2>1, <2>3
      <3>2. Alert(k)'
        BY <2>2, <2>3, <3>1 DEF Alert
      <3> QED
        BY <1>q, <2>3, <3>1, <3>2
    <2>4. CASE op'[k].place = "done" /\ \E r \in Runners: Begins(r, "resume")
      BY <1>b, <2>1, <2>2, <2>4 DEF Stopping
    <2> QED
      BY <2>1, <2>3, <2>4
  <1>9. CASE NextSchedule(k)
    <2>1. /\ op[k].place = "next_schedule" /\ op'[k].place = "next_link"
          /\ ScheduleRow(ManifestRow, "discard") /\ UNCHANGED runner
      BY <1>9, <1>s, NextScheduleActs DEF Steps, Stands
    <2>2. Clear \/ Firm
      BY <1>l, <2>1 DEF Alert
    <2>3. Clear'
      BY <1>s, <1>t, <2>1, <2>2, ScheduleClears
    <2>4. \A r \in Runners: Claims(r)'
      BY <1>s, <1>n, <2>1 DEF Driven, Stopping, IsLive
    <2>5. \A r \in Runners: Unresumed(r)'
      BY <1>l, <2>1 DEF Alert, Unresumed
    <2>6. Alert(k)'
      BY <2>1, <2>3, <2>5 DEF Alert
    <2> QED
      BY <1>q, <1>z, <2>1, <2>3, <2>4, <2>6
  <1>10. CASE NextLink(k)
    <2>1. /\ op[k].place = "next_link" /\ op'[k].place = "next_dispatch"
          /\ UNCHANGED <<attempts, runner>>
      BY <1>10, <1>s, NextLinkActs DEF Steps, Stands
    <2>2. Clear'
      BY <1>l, <2>1 DEF Alert, Clear, Count, LiveRows
    <2>4. \A r \in Runners: Claims(r)'
      BY <1>s, <1>n, <2>1 DEF Driven, Stopping, IsLive
    <2>5. \A r \in Runners: Unresumed(r)'
      BY <1>l, <2>1 DEF Alert, Unresumed
    <2>6. Alert(k)'
      BY <2>1, <2>2, <2>5 DEF Alert
    <2> QED
      BY <1>q, <1>z, <2>1, <2>2, <2>4, <2>6
  <1>11. CASE NextDispatch(k)
    <2>1. /\ op[k].place = "next_dispatch" /\ op'[k].place = "done" /\ task'.cand = task.cand
          /\ UNCHANGED <<attempts, manifest>> /\ \E r \in Runners: Begins(r, "start")
      BY <1>11, <1>s, NextDispatchActs DEF Done, Stands, Tasked
    <2>2. Clear
      BY <1>l, <2>1 DEF Alert
    <2> QED
      BY <1>b, <2>1, <2>2 DEF Stopping
  <1>12. CASE ReimportAsk(k)
    <2>1. /\ op[k].place = "idle" /\ op'[k].place = "reimport"
          /\ task.status \in {"failed", "partial"}
          /\ UNCHANGED <<task, attempts, manifest, runner>>
      BY <1>12, <1>s, ReimportAskActs DEF Stands
    <2>2. Clear
      <3>1. Waits
        BY <1>w, <2>1
      <3>2. \A r \in Runners: runner[r].place \in {"idle", "tidy"}
        BY <2>1, <3>1 DEF Waits, Attends, Rung, Terminal
      <3> QED
        BY <3>1, <3>2 DEF Waits
    <2>3. /\ \A r \in Runners: Claims(r)' /\ Unresumed(r)'
          /\ Count' <= 1 /\ Clear' = Clear
      BY <1>k, <2>1
    <2>4. Alert(k)'
      BY <2>1, <2>2, <2>3 DEF Alert
    <2> QED
      BY <1>q, <2>1, <2>3, <2>4
  <1>13. CASE ReimportAcquire(k)
    <2>1. op[k].place = "reimport" /\ UNCHANGED <<task, manifest, runner>>
      BY <1>13, <1>s, ReimportAcquireActs
    <2>2. Clear
      BY <1>l, <2>1 DEF Alert
    <2>3. \A r \in Runners: Claims(r)'
      BY <1>s, <1>n, <2>1 DEF Single, Reimporting
    <2>4. CASE op'[k].place = "done" /\ UNCHANGED attempts
      BY <1>k, <1>q, <1>d, <2>1, <2>4
    <2>5. ASSUME NEW i \in 1..Len(attempts'), op'[k].place = "reimport_start",
                 \A j \in 1..Len(attempts): j # i => attempts'[j] = attempts[j],
                 \A j \in 1..Len(attempts'): j # i => j \in 1..Len(attempts)
          PROVE  Lone'
      <3>1. Count' \in Nat /\ Count' <= Count + 1
        BY <1>s, <2>5, RowMore
      <3>2. Count' <= 1
        BY <2>2, <3>1 DEF Clear
      <3>3. \A r \in Runners: Unresumed(r)'
        BY <1>l, <2>1 DEF Alert, Unresumed
      <3>4. Alert(k)'
        BY <2>5, <3>3 DEF Alert
      <3> QED
        BY <1>q, <2>3, <2>5, <3>2, <3>4
    <2> QED
      BY <1>13, <1>s, <2>4, <2>5, ReimportAcquireActs DEF Done, Stands
  <1>14. CASE ReimportStart(k)
    <2>1. /\ op[k].place = "reimport_start" /\ op'[k].place = "reimport_import"
          /\ task'.cand = task.cand /\ UNCHANGED <<attempts, manifest, runner>>
      BY <1>14, <1>s, ReimportStartActs DEF Steps, Stands, Tasked
    <2>2. /\ \A r \in Runners: Claims(r)' /\ Unresumed(r)'
          /\ Count' <= 1
      BY <1>k, <2>1
    <2>3. Alert(k)'
      BY <2>1, <2>2 DEF Alert
    <2> QED
      BY <1>q, <2>1, <2>2, <2>3
  <1>15. CASE ReimportFinish(k)
    <2>1. /\ op[k].place = "reimport_import" /\ op'[k].place = "done" /\ UNCHANGED runner
          /\ \E disposition \in {"discard", "preserve"}: ScheduleRow(op[k].attempt, disposition)
      BY <1>15, <1>s, ReimportFinishActs DEF Done, Stands
    <2>2. op[k].attempt \in 0..Len(attempts)
      BY <1>s, <2>1, TypedParts DEF Asking
    <2>3. Count' \in Nat /\ Count' <= Count
      BY <1>s, <2>1, <2>2, ScheduleCounts
    <2>4. Count' <= 1
      BY <1>t, <2>3
    <2>5. \A r \in Runners: Claims(r)'
      BY <1>s, <1>n, <2>1 DEF Single, Reimporting
    <2> QED
      BY <1>q, <1>d, <2>1, <2>4, <2>5
  <1>16. CASE SettleAsk(k)
    <2>1. /\ op[k].place = "idle" /\ op'[k].place = "settle"
          /\ UNCHANGED <<task, attempts, manifest, runner>>
      BY <1>16, <1>s, SettleAskActs DEF Stands
    <2>2. /\ \A r \in Runners: Claims(r)' /\ Unresumed(r)'
          /\ Count' <= 1
      BY <1>k, <2>1
    <2>3. Alert(k)'
      BY <2>1, <2>2 DEF Alert
    <2> QED
      BY <1>q, <2>1, <2>2, <2>3
  <1>17. CASE SettleWrite(k)
    <2>1. /\ op[k].place = "settle" /\ op'[k].place = "done" /\ (manifest' = 0 \/ manifest' = manifest)
          /\ task'.cand = task.cand /\ UNCHANGED <<attempts, runner>>
      BY <1>17, <1>s, SettleWriteActs DEF Done, Stands, Tasked
    <2> QED
      BY <1>q, <1>d, <1>k, <2>1
  <1>18. CASE RetryAsk(k)
    <2>1. /\ op[k].place = "idle" /\ op'[k].place = "retry"
          /\ UNCHANGED <<task, attempts, manifest, runner>>
      BY <1>18, <1>s, RetryAskActs DEF Steps, Stands
    <2>2. /\ \A r \in Runners: Claims(r)' /\ Unresumed(r)'
          /\ Count' <= 1
      BY <1>k, <2>1
    <2>3. Alert(k)'
      BY <2>1, <2>2 DEF Alert
    <2> QED
      BY <1>q, <2>1, <2>2, <2>3
  <1>19. CASE RetryWrite(k)
    <2>1. /\ op[k].place = "retry" /\ op'[k].place = "done" /\ manifest' = 0
          /\ task'.cand = task.cand /\ UNCHANGED <<attempts, runner>>
      BY <1>19, <1>s, RetryWriteActs DEF Done, Stands, Tasked
    <2> QED
      BY <1>q, <1>d, <1>k, <2>1
  <1>20. CASE PickAsk(k)
    <2>1. /\ op[k].place = "idle" /\ op'[k].place = "pick"
          /\ UNCHANGED <<task, attempts, manifest, runner>>
      BY <1>20, <1>s, PickAskActs DEF Steps, Stands
    <2>2. /\ \A r \in Runners: Claims(r)' /\ Unresumed(r)'
          /\ Count' <= 1
      BY <1>k, <2>1
    <2>3. Alert(k)'
      BY <2>1, <2>2 DEF Alert
    <2> QED
      BY <1>q, <2>1, <2>2, <2>3
  <1>21. CASE PickLink(k)
    <2>1. /\ op[k].place = "pick" /\ op'[k].place = "done" /\ UNCHANGED attempts
          /\ \E r \in Runners: Begins(r, "start")
      BY <1>21, <1>s, PickLinkActs DEF Done, Stands
    <2>2. task.cand = 0 /\ \A r \in Runners: ~IsLive(r)
      BY <1>s, <2>1 DEF Single
    <2>3. Len(attempts) = 0
      BY <1>s, <1>t, <2>2 DEF Fed
    <2>4. Clear'
      <3>1. LiveRows' = {}
        BY <2>1, <2>3 DEF LiveRows
      <3> QED
        BY <3>1, FS_EmptySet DEF Clear, Count
    <2>5. \A r \in Runners: Claims(r)'
      BY <1>l, <2>1, <2>2, <2>4, BeginsClaims
    <2> QED
      BY <1>q, <1>d, <1>z, <2>1, <2>4, <2>5
  <1> QED
    BY <1>1, <1>2, <1>3, <1>4, <1>5, <1>6, <1>7, <1>8, <1>9, <1>10, <1>11, <1>12, <1>13, <1>14,
       <1>15, <1>16, <1>17, <1>18, <1>19, <1>20, <1>21 DEF RequestStep, Request

\* So do the peers, the cleanup, the reaper and time.
LEMMA OtherKeepsLone ==
  ASSUME "import" \notin Actors, Sole, Lone, OtherStep
  PROVE  Lone'
  <1>s. Typed /\ Driven
    BY DEF Sole
  <1>o. UNCHANGED <<runner, op>>
    BY OtherStepLives
  <1>c. Count \in Nat /\ Count <= 1
    BY <1>s, RowsCount DEF Lone
  \* What is left to show of a step that names the same rows and, but for their end, keeps them alive.
  <1>q. ASSUME Named, Len(attempts') = Len(attempts), UNCHANGED manifest, task'.cand = task.cand,
               Count' <= 1, Clear => Clear',
               \A i \in 1..Len(attempts): attempts[i].state \in Live => Clear' \/ attempts'[i].state \in Live,
               Waiting => Waits'
        PROVE  Lone'
    <2>1. Told' = Told
      BY <1>q, <1>s, SameTold
    <2>2. Firm => Clear' \/ Firm'
      BY <1>q, <1>s, <2>1, TypedParts DEF Firm, Told
    <2>3. Taken' <=> Taken
      BY <1>o, <1>q DEF Taken
    <2>4. \A r \in Runners: Claims(r)'
      BY <1>o, <1>q, <1>s, <2>2, <2>3, ClaimKept DEF Lone
    <2>5. ASSUME NEW k \in Callers PROVE Alert(k)'
      <3>1. Alert(k) /\ op'[k] = op[k]
        BY <1>o DEF Lone
      <3>2. op[k].place \in Asking => Peer(op[k].attempt)' = Peer(op[k].attempt)
        BY <1>q, <1>s, <3>1, TypedParts DEF Named, Peer
      <3>3. /\ "next_look" \in Asking /\ "next_stop" \in Asking
        BY DEF Asking
      <3> QED
        BY <1>o, <1>q, <2>1, <2>2, <3>1, <3>2, <3>3 DEF Alert, Unresumed, IsLive
    <2>6. Waiting' <=> Waiting
      BY <1>o DEF Waiting
    <2> QED
      BY <1>q, <2>4, <2>5, <2>6 DEF Lone
  \* What is left where the task stays, too, and the same rows are live.
  <1>w. ASSUME Named, Len(attempts') = Len(attempts), UNCHANGED <<manifest, landed>>,
               task'.status = task.status, task'.cand = task.cand, task'.job = task.job,
               \A c \in 1..Peers: transfer'[c] \in Asked => transfer[c] \in Asked,
               \A i \in 1..Len(attempts): attempts'[i].state \in Live <=> attempts[i].state \in Live,
               reaping' => reaping \/ \A r \in Runners: ~IsLive(r)
        PROVE  Lone'
    <2>1. LiveRows' = LiveRows
      BY <1>w DEF LiveRows
    <2>2. Count' = Count /\ Clear' = Clear
      BY <2>1 DEF Count, Clear
    <2>3. ASSUME Waiting PROVE Waits'
      <3>1. Waits
        BY <2>3 DEF Lone
      <3>2. Base' /\ \A r \in Runners: Rung(r) => Rung(r)'
        BY <1>o, <1>s, <1>w, <3>1, StandsOnRung DEF Waits
      <3>3. Told' = Told
        BY <1>s, <1>w, SameTold
      <3>4. \A r \in Runners: Attends(r)'
        BY <1>o, <1>w, <2>2, <3>1, <3>2, <3>3 DEF Waits, Attends, Unresumed
      <3>5. Below'
        BY <1>s, <1>w, <3>1, TypedParts DEF Waits, Below, Named
      <3> QED
        BY <1>o, <1>w, <2>2, <3>1, <3>2, <3>4, <3>5 DEF Waits, IsLive
    <2>4. Count' <= 1
      BY <1>c, <2>2
    <2> QED
      BY <1>q, <1>w, <2>2, <2>3, <2>4
  <1>u. UNCHANGED attempts => Named
    BY DEF Named
  <1>1. ASSUME NEW c \in 1..Peers, TransferMoves(c) PROVE Lone'
    <2>1. /\ UNCHANGED <<task, attempts, manifest, landed, reaping>>
          /\ transfer[c] \in {"queued", "active"}
          /\ \A b \in 1..Peers: b # c => transfer'[b] = transfer[b]
      BY <1>1, <1>s, TransferMovesActs
    <2> QED
      BY <1>u, <1>w, <2>1 DEF Asked
  <1>2. ASSUME NEW i \in 1..Len(attempts), CleanupSettles(i) PROVE Lone'
    <2>1. /\ UNCHANGED <<task, manifest, landed, reaping>> /\ Len(attempts') = Len(attempts)
          /\ \A c \in 1..Peers: transfer'[c] \in Asked => transfer[c] \in Asked
      BY <1>2, <1>s, CleanupSettlesActs DEF Asked
    <2>2. /\ Named
          /\ \A j \in 1..Len(attempts): attempts'[j].state \in Live <=> attempts[j].state \in Live
      BY <1>2, <1>s, CleanupSettlesActs DEF Named, Live
    <2> QED
      BY <1>w, <2>1, <2>2
  <1>3. CASE ReapFind
    <2>1. /\ UNCHANGED <<task, attempts, manifest, transfer, landed>> /\ tracked = NoRunner
      BY <1>3, ReapFindActs
    <2>2. \A r \in Runners: ~IsLive(r)
      BY <1>s, <2>1, NoRunnerAssumption DEF Driven
    <2> QED
      BY <1>u, <1>w, <2>1, <2>2
  <1>4. CASE ReapFail
    <2>1. /\ task'.status = "failed" /\ task'.cand = task.cand /\ task'.job = task.job
          /\ UNCHANGED <<manifest, transfer, landed>> /\ reaping /\ reaping' = FALSE
          /\ Len(attempts') = Len(attempts) /\ Named
      BY <1>4, <1>s, ReapFailActs DEF Tasked, Named
    <2>2. Clear'
      BY <1>4, <1>s, <1>c, FailClears DEF ReapFail
    <2>3. ASSUME Waiting PROVE Waits'
      <3>1. Waits /\ \A r \in Runners: runner[r].place = "idle"
        BY <2>1, <2>3 DEF Lone, Waits, IsLive
      <3>2. Base'
        BY <2>1, <3>1, EndedBase DEF Waits, Terminal
      <3>3. \A r \in Runners: Rung(r)'
        BY <1>o, <3>1, AsleepRung
      <3>4. \A r \in Runners: Attends(r)'
        BY <1>o, <2>1, <2>2, <3>1, <3>3 DEF Waits, Attends, Unresumed, Untelling
      <3>5. Below'
        BY <1>s, <2>1, <3>1, TypedParts DEF Waits, Below, Named
      <3> QED
        BY <2>1, <2>2, <3>2, <3>4, <3>5 DEF Waits
    <2>4. 0 <= 1
      OBVIOUS
    <2>5. Count' <= 1
      BY Zenon, <2>2, <2>4 DEF Clear
    <2> QED
      BY <1>q, <2>1, <2>2, <2>3, <2>5
  <1>5. CASE Ages
    <2>1. /\ task'.status = task.status /\ task'.cand = task.cand /\ task'.job = task.job
          /\ UNCHANGED <<attempts, manifest, transfer, landed, reaping>>
      BY <1>5, <1>s, AgesActs DEF Tasked
    <2> QED
      BY <1>u, <1>w, <2>1
  <1>6. ~OtherImport
    BY DEF OtherImport
  <1> QED
    BY <1>1, <1>2, <1>3, <1>4, <1>5, <1>6 DEF OtherStep

\* A download begins with no row.
LEMMA InitLone ==
  ASSUME Init
  PROVE  Lone
  <1>1. /\ attempts = <<>> /\ manifest = 0 /\ task.cand = 0 /\ ~reaping /\ ~landed
        /\ \A k \in Callers: op[k].place = "idle"
        /\ tracked \in Runners
        /\ \A r \in Runners:
             /\ runner[r].place = IF r = tracked THEN "start" ELSE "idle"
             /\ runner[r].disposition = "discard" /\ runner[r].resuming = FALSE
    BY DEF Init, Off, NoOp
  <1>2. Clear
    <2>1. LiveRows = {}
      BY <1>1 DEF LiveRows
    <2> QED
      BY <2>1, FS_EmptySet DEF Clear, Count
  <1>3. 0 <= 1
    OBVIOUS
  <1>4. Count <= 1
    BY Zenon, <1>2, <1>3 DEF Clear
  <1>5. \A r \in Runners: Claims(r) /\ Unresumed(r)
    BY <1>1, <1>2 DEF Claims, Unresumed, Aside, Unclaimed, Owning
  <1>6. \A k \in Callers: Alert(k)
    BY <1>1, <1>5 DEF Alert
  <1>7. Base /\ \A r \in Runners: Rung(r)
    BY InitLaddered DEF Laddered
  <1>8. \A r \in Runners: Attends(r)
    BY <1>1, <1>5, <1>7 DEF Attends, Told
  <1>9. Waits
    BY <1>1, <1>2, <1>7, <1>8 DEF Waits, Below
  <1> QED
    BY <1>4, <1>5, <1>6, <1>9 DEF Lone

\* No step brings a second row to life.
LEMMA NextLone ==
  ASSUME OneRequest, "import" \notin Actors, MaxFaults = 0, MaxCrashes = 0, Sole, Lone, [Next]_vars
  PROVE  Lone'
  <1>1. ~CrashAndResume
    BY TypedParts DEF CrashAndResume, Sole
  <1>2. CASE UNCHANGED vars
    <2>1. /\ Clear' = Clear /\ Firm' = Firm /\ Count' = Count /\ Told' = Told /\ Taken' = Taken
      BY <1>2 DEF vars, Clear, Firm, Count, LiveRows, Told, Taken
    <2>2. \A r \in Runners: /\ Claims(r)' <=> Claims(r)
                            /\ Unresumed(r)' <=> Unresumed(r)
      BY <1>2, <2>1 DEF vars, Claims, Unresumed
    <2>3. \A k \in Callers: Alert(k)' <=> Alert(k)
      BY <1>2, <2>1, <2>2 DEF vars, Alert, IsLive, Peer
    <2>4. (Waiting' <=> Waiting) /\ (Waits => Waits')
      BY <1>2, SameWaits DEF vars, Waiting, Sole
    <2> QED
      BY <2>1, <2>2, <2>3, <2>4 DEF Lone
  <1> QED
    BY <1>1, <1>2, RunnerKeepsLone, RequestKeepsLone, OtherKeepsLone, NextCases

\* A download about which one request is made, whatever it is and wherever it finds the runner,
\* has one live row at most, so the newest live row, which _fail_task_preserving_attempt and
\* _schedule_attempt_cleanup fall back on without a manifest, is its own.  No client call goes
\* wrong and nothing restarts (StraysAreOwed counts the rows that these leave behind), and no
\* album comes from elsewhere: a runner whose album does leaves its row live when it concludes,
\* and a switch that was looking on then starts another runner, which adds a second one.
THEOREM OneRequestOneRow ==
  ASSUME OneRequest, "import" \notin Actors, MaxFaults = 0, MaxCrashes = 0
  PROVE  Spec => []OneLiveRow
  <1>1. Sole /\ Lone /\ [Next]_vars => Sole' /\ Lone'
    BY NextSole, NextLone
  <1>2. Sole /\ Lone => OneLiveRow
    BY DEF Lone, OneLiveRow, Count
  <1>3. Init => Sole /\ Lone
    BY InitSole, InitLone
  <1> QED
    BY <1>1, <1>2, <1>3, PTL DEF Spec
=============================================================================
