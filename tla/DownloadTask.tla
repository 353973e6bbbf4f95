----------------------------- MODULE DownloadTask -----------------------------
(***************************************************************************)
(* One album download from Soulseek, from its request to its end           *)
(* (services/native/download_orchestrator.py, the Soulseek strategy and    *)
(* the download_tasks half of infrastructure/persistence/                  *)
(* download_store.py): the coroutines that run it, the requests that       *)
(* interfere with it, the reaper of stale tasks and a restart.             *)
(*                                                                         *)
(* A step is what happens between two awaits whose order can matter.  The  *)
(* attempt rows are kept as far as the orchestrator asks about them; what  *)
(* cleans them up is AcquisitionCleanup, here the one step CleanupSettles. *)
(***************************************************************************)
EXTENDS Integers, Sequences, FiniteSets

CONSTANTS
  Peers,        \* the candidates of the search, by rank: 1..Peers
  Runners,      \* coroutines of process_task and _resume_single_task
  NoRunner,
  Callers,      \* the requests about the task, one coroutine each
  NoCaller,
  Actors,       \* who interferes in this instance
  MaxFailover,  \* _max_failover
  MaxAttempts,  \* bound: rows of the journal
  MaxFaults,    \* bound: client calls that go wrong
  MaxCrashes    \* bound: restarts of the process

ASSUME PeersAssumption == Peers \in Nat /\ MaxFailover \in Nat /\ MaxAttempts \in Nat
ASSUME NoRunnerAssumption == NoRunner \notin Runners
ASSUME NoCallerAssumption == NoCaller \notin Callers
ASSUME ActorsAssumption ==
  Actors \subseteq {"cancel", "next", "reimport", "settle", "retry", "pick", "reap", "import"}
ASSUME FaultsAssumption == MaxFaults \in Nat /\ MaxCrashes \in Nat

VARIABLES
  task,      \* the row of download_tasks
  attempts,  \* its rows of download_attempts, oldest first
  manifest,  \* the attempt that staging/<task>/manifest.json names, 0 without a file
  transfer,  \* transfer[c]: slskd's transfers from candidate c
  runner,    \* runner[r]: where r is, and what it has read
  tracked,   \* _active_tasks[task]
  op,        \* op[k]: where request k is, and what it has read
  lock,      \* who holds the task's operation lock
  reaping,   \* the reaper has found the task stale
  held,      \* a file of the task waits for review
  landed,    \* the library has every track of the album
  faults, crashes

rows == <<task, attempts>>
requests == <<op, lock, reaping>>
music == <<held, landed>>
bounds == <<faults, crashes>>
vars == <<task, attempts, manifest, transfer, runner, tracked, op, lock, reaping,
          held, landed, faults, crashes>>

Active == {"queued", "downloading", "processing"}
Terminal == {"completed", "partial", "failed", "cancelled"}
Statuses == Active \union Terminal
Verdicts == {"completed", "partial", "failed"}  \* of a runner that concludes

\* cand is 0 before a candidate is picked; job says that a search job is linked;
\* fallback stands for preferred_quality_fallback_at, polled for a last_polled_at
\* of the last 30 minutes.
Tasks == [status: Statuses, cand: 0..Peers, job: BOOLEAN, bytes: BOOLEAN,
          fallback: BOOLEAN, polled: BOOLEAN]

\* "discard" and "preserve" are rows that wait for the cleanup or for a person.
Live == {"acquiring", "in_use"}
AttemptRows == [cand: 0..Peers, state: Live \union {"discard", "preserve", "settled"}]

TransferStates == {"none", "queued", "active", "done", "failed"}

Places == {"idle", "start", "resume", "search", "prepare", "open", "journal", "send",
           "outage", "handle", "poll", "recheck", "process", "import", "decide",
           "prefer", "abort", "schedule", "link", "reset", "finalize", "tidy", "fail"}
RunnerStates ==
  [place: Places, name: {"download", "resume"}, listed: BOOLEAN,
   status: Statuses, cand: 0..Peers,       \* of the task, as r last read it
   resuming: BOOLEAN, attempt: 0..MaxAttempts,
   outcome: {"none", "completed", "terminal", "timeout", "preferred"},
   next: 0..Peers, verdict: Verdicts, disposition: {"discard", "preserve", "leave"}]
Off == [place |-> "idle", name |-> "download", listed |-> FALSE,
        status |-> "queued", cand |-> 0, resuming |-> FALSE, attempt |-> 0,
        outcome |-> "none", next |-> 0, verdict |-> "failed", disposition |-> "discard"]

OpStates ==
  [place: {"idle", "cancel", "cancel_tidy", "next_look", "next_stop", "next_verify", "next_abort",
           "next_schedule", "next_link", "next_dispatch", "reimport", "reimport_start",
           "reimport_import", "settle", "retry", "pick", "done"},
   status: Statuses, cand: 0..Peers, next: 0..Peers, attempt: 0..MaxAttempts]
NoOp == [place |-> "idle", status |-> "queued", cand |-> 0, next |-> 0, attempt |-> 0]

TypeOK ==
  /\ task \in Tasks
  /\ attempts \in Seq(AttemptRows) /\ Len(attempts) <= MaxAttempts
  /\ manifest \in 0..Len(attempts)
  /\ transfer \in [1..Peers -> TransferStates]
  /\ runner \in [Runners -> RunnerStates]
  /\ tracked \in Runners \union {NoRunner}
  /\ op \in [Callers -> OpStates]
  /\ lock \in Callers \union {NoCaller}
  /\ reaping \in BOOLEAN /\ held \in BOOLEAN /\ landed \in BOOLEAN
  /\ faults \in 0..MaxFaults
  /\ crashes \in 0..MaxCrashes

\* A request has created the task and dispatched it.
Init ==
  /\ task = [status |-> "queued", cand |-> 0, job |-> FALSE, bytes |-> FALSE,
             fallback |-> FALSE, polled |-> FALSE]
  /\ attempts = <<>>
  /\ manifest = 0
  /\ transfer = [c \in 1..Peers |-> "none"]
  /\ tracked \in Runners
  /\ runner = [r \in Runners |->
                 IF r = tracked THEN [Off EXCEPT !.place = "start", !.listed = TRUE] ELSE Off]
  /\ op = [k \in Callers |-> NoOp]
  /\ lock = NoCaller
  /\ reaping = FALSE /\ held = FALSE /\ landed = FALSE
  /\ faults = 0
  /\ crashes = 0
-----------------------------------------------------------------------------
Fault == faults < MaxFaults /\ faults' = faults + 1 /\ UNCHANGED crashes

IsLive(r) == runner[r].place # "idle"
IsRunning(name) == \E r \in Runners: IsLive(r) /\ runner[r].listed /\ runner[r].name = name
Cancelled == task.status = "cancelled"
\* get_parked_task_for_search_job
Parked == task.status = "queued" /\ task.job /\ task.cand = 0

Newest(S) == CHOOSE i \in S: \A j \in S: j <= i
NewestOrNone(S) == IF S = {} THEN 0 ELSE Newest(S)
LiveRow == NewestOrNone({i \in 1..Len(attempts): attempts[i].state \in Live})
\* _attempt_for_manifest
ManifestRow == IF manifest # 0 THEN manifest ELSE LiveRow
\* get_download_attempt_for_candidate
RowOf(c) == NewestOrNone({i \in 1..Len(attempts): attempts[i].cand = c})

\* schedule_download_attempt_cleanup and the attempt's half of
\* finalize_task_and_attempt; 0 is no row.
ScheduleRowInUse(i, disposition) ==
  attempts' = IF i = 0 \/ disposition = "leave" \/ attempts[i].state \in {"settled", "acquiring"}
              THEN attempts ELSE [attempts EXCEPT ![i].state = disposition]
ScheduleRow(i, disposition) ==
  attempts' = IF i = 0 \/ disposition = "leave" \/ attempts[i].state = "settled"
              THEN attempts ELSE [attempts EXCEPT ![i].state = disposition]

SetStatus(status) == task' = [task EXCEPT !.status = status]

Goto(r, place) == runner' = [runner EXCEPT ![r].place = place]
\* The coroutine ends, and its done callback runs.
End(r) ==
  /\ runner' = [runner EXCEPT ![r] = Off]
  /\ tracked' = IF tracked = r THEN NoRunner ELSE tracked
\* get_task
Read(r, place, t) ==
  runner' = [runner EXCEPT ![r] = [@ EXCEPT !.place = place, !.status = t.status,
                                            !.cand = t.cand]]
\* _poll_until_done starts with _read_manifest; t is the task as it was read.
StartPolling(r, t) ==
  runner' = [runner EXCEPT ![r] =
    [@ EXCEPT !.place = IF manifest = 0 THEN "fail" ELSE "poll",
              !.attempt = manifest, !.status = t.status, !.cand = t.cand]]
Concludes(r, verdict, disposition) ==
  runner' = [runner EXCEPT ![r] = [@ EXCEPT !.place = "finalize", !.verdict = verdict,
                                            !.disposition = disposition]]

\* dispatch and _dispatch_resume: a name that is taken makes register raise, but
\* the coroutine has been created and tracked by then.
Dispatch(name, place) ==
  \E r \in Runners:
    /\ ~IsLive(r)
    /\ runner' = [runner EXCEPT ![r] =
                    [Off EXCEPT !.place = place, !.name = name, !.listed = ~IsRunning(name)]]
    /\ tracked' = r
Redispatch == Dispatch("resume", "resume")

\* Candidates _next_candidate_entry may return, which starts behind the first one if the
\* task has none; a policy may leave out any.
BehindPastEnd(c) == {n \in 2..(Peers + 1): n > c}
Behind(c) == {n \in 2..Peers: n > c}
MaySwitchAgain == Len(attempts) <= MaxFailover
MaySwitch == Len(attempts) < MaxFailover

Peer(i) == attempts[i].cand
AbortOf(c) == transfer' = [transfer EXCEPT ![c] = "none"]
\* link_picked_candidate
LinkTo(c) == task' = [task EXCEPT !.cand = c, !.job = TRUE]
\* _prepare_candidate_state with reset_transfer_state
FreshTask(fallback) ==
  [task EXCEPT !.status = "queued", !.bytes = FALSE, !.fallback = fallback]

RunnerFrame == UNCHANGED <<requests, crashes>>
-----------------------------------------------------------------------------
(* The runner: process_task, _resume_single_task, _run_with_failover.       *)

ProcessTask(r) ==
  /\ runner[r].place = "start"
  /\ \/ Read(r, IF task.job /\ task.cand # 0 THEN "prepare" ELSE "search", task)
     \/ Goto(r, "fail")  \* no source is enabled
  /\ UNCHANGED <<rows, manifest, transfer, tracked, music, faults>> /\ RunnerFrame

\* The manifest of a candidate the task has left is not resumed.
ResumeTask(r) ==
  /\ runner[r].place = "resume"
  /\ IF manifest = 0 \/ (task.cand # 0 /\ Peer(manifest) # task.cand)
     THEN Goto(r, "start")
     ELSE runner' = [runner EXCEPT ![r] =
            [@ EXCEPT !.place = "prepare", !.resuming = TRUE,
                      !.status = task.status, !.cand = task.cand]]
  /\ UNCHANGED <<rows, manifest, transfer, tracked, music, faults>> /\ RunnerFrame

\* _search_score_autopick links a candidate, parks the task for review, or finds none.
Search(r) ==
  /\ runner[r].place = "search"
  /\ \/ \E c \in 1..Peers:
          LinkTo(c) /\ Read(r, "prepare", task') /\ UNCHANGED tracked
     \/ task' = [task EXCEPT !.cand = 0, !.job = TRUE] /\ End(r)
     \/ SetStatus("failed") /\ End(r)
  /\ UNCHANGED <<attempts, manifest, transfer, music, faults>> /\ RunnerFrame

\* _prepare_candidate_state writes back the status it was given; without a candidate it
\* returns the task as it was given.
Prepare(r) ==
  /\ runner[r].place = "prepare"
  /\ \/ /\ runner[r].cand = 0 /\ UNCHANGED task
        /\ IF runner[r].resuming THEN StartPolling(r, runner[r]) ELSE Goto(r, "open")
     \/ /\ runner[r].cand # 0
        /\ \E fallback \in BOOLEAN:
             /\ fallback => ~task.bytes
             /\ task' = [task EXCEPT !.status = runner[r].status, !.fallback = fallback]
        /\ IF runner[r].resuming THEN StartPolling(r, task') ELSE Read(r, "open", task')
  /\ UNCHANGED <<attempts, manifest, transfer, tracked, music, faults>> /\ RunnerFrame

\* _enqueue refuses a task without a candidate; SoulseekStrategy.enqueue refuses the
\* candidate, or opens the attempt ...
Open(r) ==
  /\ runner[r].place = "open"
  /\ \/ /\ runner' = [runner EXCEPT ![r] = [@ EXCEPT !.place = "decide", !.outcome = "none",
                                                     !.disposition = "discard"]]
        /\ UNCHANGED task
     \/ runner[r].cand # 0 /\ SetStatus("downloading") /\ Goto(r, "journal")
  /\ UNCHANGED <<attempts, manifest, transfer, tracked, music, faults>> /\ RunnerFrame

\* ... journals it before anything is sent ...
Journal(r) ==
  /\ runner[r].place = "journal"
  /\ Len(attempts) < MaxAttempts
  /\ attempts' = Append(attempts, [cand |-> runner[r].cand, state |-> "acquiring"])
  /\ runner' = [runner EXCEPT ![r] = [@ EXCEPT !.place = "send",
                                               !.attempt = Len(attempts) + 1]]
  /\ UNCHANGED <<task, manifest, transfer, tracked, music, faults>> /\ RunnerFrame

\* ... writes the manifest and asks the peer.  A reply may be lost, after a timeout
\* as an outage, after a broken connection as a refusal.
Send(r) ==
  /\ runner[r].place = "send"
  /\ manifest' = runner[r].attempt
  /\ LET asked == [transfer EXCEPT ![Peer(runner[r].attempt)] =
                      IF @ = "active" THEN @ ELSE "queued"]
         declined == [runner EXCEPT ![r] = [@ EXCEPT !.place = "decide", !.outcome = "none",
                                                     !.disposition = "discard"]]
     IN  \/ transfer' = asked /\ Goto(r, "handle") /\ UNCHANGED faults
         \/ transfer' = transfer /\ runner' = declined /\ UNCHANGED faults
         \/ transfer' = asked /\ runner' = declined /\ Fault
         \/ transfer' \in {transfer, asked} /\ Goto(r, "outage") /\ Fault
  /\ UNCHANGED <<rows, tracked, music>> /\ RunnerFrame

\* _enqueue waits through an outage and opens another attempt.
Outage(r) ==
  /\ runner[r].place = "outage"
  /\ IF Cancelled THEN End(r) ELSE Goto(r, "open") /\ UNCHANGED tracked
  /\ UNCHANGED <<rows, manifest, transfer, music, faults>> /\ RunnerFrame

\* update_download_attempt_handle raises when the row is no longer the download's; the
\* manifest is written again, with the handle, and read.
Handle(r) ==
  /\ runner[r].place = "handle"
  /\ IF attempts[runner[r].attempt].state \in Live
     THEN /\ attempts' = [attempts EXCEPT ![runner[r].attempt].state = "in_use"]
          /\ manifest' = runner[r].attempt /\ Goto(r, "poll")
     ELSE Goto(r, "fail") /\ UNCHANGED <<attempts, manifest>>
  /\ UNCHANGED <<task, transfer, tracked, music, faults>> /\ RunnerFrame

Polled(c) == [task EXCEPT !.polled = TRUE, !.bytes = transfer[c] \in {"active", "done"},
                          !.fallback = @ /\ transfer[c] \notin {"active", "done"}]
PollStops(r) ==
  /\ runner[r].place = "poll" /\ Cancelled
  /\ End(r)
  /\ UNCHANGED <<rows, manifest, transfer, music, faults>> /\ RunnerFrame
PollGoesOn(r) ==
  /\ runner[r].place = "poll" /\ ~Cancelled
  /\ task' = Polled(Peer(runner[r].attempt))
  /\ UNCHANGED <<attempts, manifest, transfer, runner, tracked, music, faults>> /\ RunnerFrame
PollEnds(r) ==
  /\ runner[r].place = "poll" /\ ~Cancelled
  /\ LET c == Peer(runner[r].attempt) IN
     /\ task' = Polled(c)
     /\ \E outcome \in {"completed", "terminal", "timeout", "preferred"}:
          /\ outcome = "completed" <=> transfer[c] = "done"
          /\ outcome = "terminal" <=> transfer[c] = "failed"
          /\ outcome = "preferred" => transfer[c] = "queued" /\ task.fallback
          /\ runner' = [runner EXCEPT ![r] = [@ EXCEPT !.place = "recheck",
                                                       !.outcome = outcome]]
  /\ UNCHANGED <<attempts, manifest, transfer, tracked, music, faults>> /\ RunnerFrame
PollBreaks(r) ==
  /\ runner[r].place = "poll" /\ Fault
  /\ Goto(r, "fail")
  /\ UNCHANGED <<rows, manifest, transfer, tracked, music>> /\ RunnerFrame

\* Cancelled out of band?
Recheck(r) ==
  /\ runner[r].place = "recheck"
  /\ IF Cancelled THEN End(r)
     ELSE /\ Goto(r, IF runner[r].outcome = "preferred" THEN "prefer" ELSE "process")
          /\ UNCHANGED tracked
  /\ UNCHANGED <<rows, manifest, transfer, music, faults>> /\ RunnerFrame

\* The preferred quality did not start in time.
Prefer(r) ==
  /\ runner[r].place = "prefer"
  /\ \/ /\ task' = [task EXCEPT !.status = "downloading", !.fallback = FALSE]
        /\ StartPolling(r, task')
     \/ /\ MaySwitch /\ manifest = 0
        /\ Goto(r, "fail") /\ UNCHANGED task
     \/ /\ MaySwitch /\ manifest # 0
        /\ \E n \in Behind(runner[r].cand):
             IF transfer[Peer(manifest)] \in {"active", "done", "failed"}
             THEN task' = Polled(Peer(manifest)) /\ StartPolling(r, task')
             ELSE /\ runner' = [runner EXCEPT ![r] = [@ EXCEPT
                       !.place = "abort", !.next = n, !.disposition = "discard"]]
                  /\ UNCHANGED task
  /\ UNCHANGED <<attempts, manifest, transfer, tracked, music, faults>> /\ RunnerFrame

Process(r) ==
  /\ runner[r].place = "process"
  /\ SetStatus("processing") /\ Goto(r, "import")
  /\ UNCHANGED <<attempts, manifest, transfer, tracked, music, faults>> /\ RunnerFrame

\* _import_files: complete, stopped by a local fault or a hold, or short.
Import(r) ==
  /\ runner[r].place = "import"
  /\ \/ manifest = 0 /\ Goto(r, "fail") /\ UNCHANGED music
     \/ /\ manifest # 0
        /\ landed \/ transfer[Peer(runner[r].attempt)] \notin {"none", "queued"}
        /\ \E disposition \in {"discard", "preserve"}:
             Concludes(r, "completed", disposition)
        /\ landed' = TRUE /\ UNCHANGED held
     \/ /\ manifest # 0
        /\ \E disposition \in {"discard", "preserve"}: Concludes(r, "failed", disposition)
        /\ held' \in {held, TRUE} /\ UNCHANGED landed
     \/ /\ manifest # 0
        /\ \E disposition \in {"discard", "preserve"}:
             runner' = [runner EXCEPT ![r] = [@ EXCEPT !.place = "decide",
                                                       !.disposition = disposition]]
        /\ held' \in {held, TRUE} /\ UNCHANGED landed
  /\ UNCHANGED <<rows, manifest, transfer, tracked, faults>> /\ RunnerFrame

\* Incomplete, or never sent: the album is covered by now, there is nobody left to
\* ask, or the next candidate is asked.
DecideLeavesQueue(r) ==
  /\ runner[r].place = "decide"
  /\ \/ landed /\ Concludes(r, "completed", "leave")
     \/ /\ ~landed
        /\ \E verdict \in {"failed", "partial"}:
             Concludes(r, verdict, runner[r].disposition)
     \/ /\ ~landed /\ MaySwitch
        /\ \E n \in Behind(runner[r].cand):
             runner' = [runner EXCEPT ![r] = [@ EXCEPT !.next = n, !.place = "schedule"]]
  /\ UNCHANGED <<rows, manifest, transfer, tracked, music, faults>> /\ RunnerFrame
Decide(r) ==
  /\ runner[r].place = "decide"
  /\ \/ landed /\ Concludes(r, "completed", "leave")
     \/ /\ ~landed
        /\ \E verdict \in {"failed", "partial"}:
             Concludes(r, verdict, runner[r].disposition)
     \/ /\ ~landed /\ MaySwitch
        /\ \E n \in Behind(runner[r].cand):
             runner' = [runner EXCEPT ![r] = [@ EXCEPT !.next = n,
               !.place = IF runner[r].outcome = "timeout" THEN "abort" ELSE "schedule"]]
  /\ UNCHANGED <<rows, manifest, transfer, tracked, music, faults>> /\ RunnerFrame

\* _abort_abandoned_transfer: refused, done, or waiting through an outage.
Abort(r) ==
  /\ runner[r].place = "abort"
  /\ \/ /\ manifest = 0
        /\ Goto(r, "fail") /\ UNCHANGED <<transfer, tracked, faults>>
     \/ /\ manifest # 0
        /\ AbortOf(Peer(manifest)) /\ Goto(r, "schedule") /\ UNCHANGED <<tracked, faults>>
     \/ /\ manifest # 0 /\ Fault
        /\ Goto(r, "fail") /\ UNCHANGED <<transfer, tracked>>
     \/ /\ manifest # 0 /\ Fault /\ Cancelled
        /\ End(r) /\ UNCHANGED transfer
  /\ UNCHANGED <<rows, manifest, music>> /\ RunnerFrame

\* _schedule_attempt_cleanup
Schedule(r) ==
  /\ runner[r].place = "schedule"
  /\ ScheduleRow(ManifestRow, runner[r].disposition)
  /\ Goto(r, "link")
  /\ UNCHANGED <<task, manifest, transfer, tracked, music, faults>> /\ RunnerFrame

\* _link_candidate_entry
Link(r) ==
  /\ runner[r].place = "link"
  /\ LinkTo(runner[r].next)
  /\ Read(r, "reset", task')
  /\ UNCHANGED <<attempts, manifest, transfer, tracked, music, faults>> /\ RunnerFrame
Reset(r) ==
  /\ runner[r].place = "reset"
  /\ \E fallback \in BOOLEAN: task' = FreshTask(fallback)
  /\ Read(r, "open", task')
  /\ UNCHANGED <<attempts, manifest, transfer, tracked, music, faults>> /\ RunnerFrame

\* _finalize writes over whatever the status is, cleans up at once and then removes
\* the staging directory.
Finalize(r) ==
  /\ runner[r].place = "finalize"
  /\ SetStatus(runner[r].verdict)
  /\ ScheduleRow(IF manifest # 0 THEN manifest ELSE RowOf(runner[r].cand),
                 runner[r].disposition)
  /\ Goto(r, "tidy")
  /\ UNCHANGED <<manifest, transfer, tracked, music, faults>> /\ RunnerFrame
Tidy(r) ==
  /\ runner[r].place = "tidy"
  /\ manifest' = 0
  /\ End(r)
  /\ UNCHANGED <<rows, transfer, music, faults>> /\ RunnerFrame

\* _fail_task_preserving_attempt
FailTask == SetStatus("failed") /\ ScheduleRow(LiveRow, "preserve")
Fail(r) ==
  /\ runner[r].place = "fail"
  /\ FailTask
  /\ End(r)
  /\ UNCHANGED <<manifest, transfer, music, faults>> /\ RunnerFrame
-----------------------------------------------------------------------------
(* Requests.  Those that take the operation lock keep it to their end.      *)

OpGoto(k, place) == op' = [op EXCEPT ![k].place = place]
OpEnds(k) == op' = [op EXCEPT ![k] = [NoOp EXCEPT !.place = "done"]]
Asks(k, actor) == actor \in Actors /\ op[k] = NoOp
Takes(k) == lock = NoCaller /\ lock' = k
Releases(k) == lock' = NoCaller /\ OpEnds(k)
OpFrame == UNCHANGED <<reaping, crashes>>

\* handle.cancel() and the wait for it
StopTracked ==
  /\ runner' = IF tracked = NoRunner THEN runner ELSE [runner EXCEPT ![tracked] = Off]
  /\ tracked' = NoRunner

\* cancel_task stops the runner first and only then takes the lock.
CancelAskUnstopped(k) ==
  /\ Asks(k, "cancel")
  /\ OpGoto(k, "cancel")
  /\ UNCHANGED <<rows, manifest, transfer, runner, tracked, lock, music, faults>> /\ OpFrame
CancelAsk(k) ==
  /\ Asks(k, "cancel")
  /\ StopTracked
  /\ OpGoto(k, "cancel")
  /\ UNCHANGED <<rows, manifest, transfer, lock, music, faults>> /\ OpFrame

\* cancel_task_and_schedule_attempts; without the barriers the bytes are preserved.
CancelWrites(k) ==
  /\ SetStatus("cancelled")
  /\ \/ /\ attempts' = [i \in DOMAIN attempts |->
             IF attempts[i].state = "settled" THEN attempts[i]
             ELSE [attempts[i] EXCEPT !.state = "discard"]]
        /\ UNCHANGED faults
     \/ /\ attempts' = [i \in DOMAIN attempts |->
             IF attempts[i].state = "settled" THEN attempts[i]
             ELSE [attempts[i] EXCEPT !.state = "preserve"]]
        /\ Fault
  /\ OpGoto(k, "cancel_tidy")
CancelCommitUnlocked(k) ==
  /\ op[k].place = "cancel"
  /\ CancelWrites(k)
  /\ UNCHANGED <<manifest, transfer, runner, tracked, lock, music>> /\ OpFrame
CancelCommit(k) ==
  /\ op[k].place = "cancel"
  /\ Takes(k)
  /\ CancelWrites(k)
  /\ UNCHANGED <<manifest, transfer, runner, tracked, music>> /\ OpFrame
CancelTidy(k) ==
  /\ op[k].place = "cancel_tidy"
  /\ manifest' = 0
  /\ Releases(k)
  /\ UNCHANGED <<rows, transfer, runner, tracked, music, faults>> /\ OpFrame

\* try_next_source, for a transfer that waits in a peer's queue ...
NextAsk(k) ==
  /\ Asks(k, "next") /\ Takes(k)
  /\ task.status = "downloading" /\ manifest # 0
  /\ op' = [op EXCEPT ![k] = [NoOp EXCEPT !.place = "next_look", !.cand = task.cand,
                                          !.attempt = manifest]]
  /\ UNCHANGED <<rows, manifest, transfer, runner, tracked, music, faults>> /\ OpFrame

\* ... asks the client ...
NextLook(k) ==
  /\ op[k].place = "next_look"
  /\ IF transfer[Peer(op[k].attempt)] = "queued"
     THEN OpGoto(k, "next_stop") /\ UNCHANGED lock
     ELSE Releases(k)
  /\ UNCHANGED <<rows, manifest, transfer, runner, tracked, music, faults>> /\ OpFrame

\* ... stops the runner ...
NextStop(k) ==
  /\ op[k].place = "next_stop"
  /\ OpGoto(k, "next_verify")
  /\ IF tracked # NoRunner THEN StopTracked
     ELSE /\ runner' = [r \in Runners |-> IF runner[r].listed THEN Off ELSE runner[r]]
          /\ UNCHANGED tracked
  /\ UNCHANGED <<rows, manifest, transfer, lock, music, faults>> /\ OpFrame

\* ... and looks again.  A conflict that the task row shows leaves the runner
\* stopped; one that the client or the candidates show resumes it.
NextVerify(k) ==
  /\ op[k].place = "next_verify"
  /\ LET c == Peer(op[k].attempt)
         moved == task.cand # op[k].cand \/ task.bytes
     IN  \/ moved /\ Releases(k) /\ UNCHANGED <<task, runner, tracked>>
         \/ /\ ~moved /\ transfer[c] # "queued"
            /\ task' = [task EXCEPT !.bytes = transfer[c] \in {"active", "done"}]
            /\ Redispatch /\ Releases(k)
         \/ /\ ~moved /\ transfer[c] = "queued"
            /\ Redispatch /\ Releases(k) /\ UNCHANGED task
         \/ /\ ~moved /\ transfer[c] = "queued" /\ MaySwitch
            /\ \E n \in Behind(op[k].cand):
                 op' = [op EXCEPT ![k] = [@ EXCEPT !.place = "next_abort", !.next = n]]
            /\ UNCHANGED <<task, runner, tracked, lock>>
  /\ UNCHANGED <<attempts, manifest, transfer, music, faults>> /\ OpFrame

NextAbort(k) ==
  /\ op[k].place = "next_abort"
  /\ \/ /\ manifest # 0
        /\ AbortOf(Peer(manifest)) /\ OpGoto(k, "next_schedule")
        /\ UNCHANGED <<runner, tracked, lock, faults>>
     \/ /\ manifest = 0 /\ UNCHANGED <<transfer, faults>>
        /\ Redispatch /\ Releases(k)
     \/ /\ manifest # 0 /\ Fault /\ UNCHANGED transfer
        /\ Redispatch /\ Releases(k)
  /\ UNCHANGED <<rows, manifest, music>> /\ OpFrame
NextSchedule(k) ==
  /\ op[k].place = "next_schedule"
  /\ ScheduleRow(ManifestRow, "discard")
  /\ OpGoto(k, "next_link")
  /\ UNCHANGED <<task, manifest, transfer, runner, tracked, lock, music, faults>> /\ OpFrame
NextLink(k) ==
  /\ op[k].place = "next_link"
  /\ LinkTo(op[k].next)
  /\ OpGoto(k, "next_dispatch")
  /\ UNCHANGED <<attempts, manifest, transfer, runner, tracked, lock, music, faults>> /\ OpFrame
NextDispatch(k) ==
  /\ op[k].place = "next_dispatch"
  /\ \E fallback \in BOOLEAN: task' = FreshTask(fallback)
  /\ Dispatch("download", "start")
  /\ Releases(k)
  /\ UNCHANGED <<attempts, manifest, transfer, music, faults>> /\ OpFrame

\* reimport_task: the files of the candidate, fetched by hand, are imported again.
ReimportAsk(k) ==
  /\ Asks(k, "reimport") /\ Takes(k)
  /\ task.status \in {"failed", "partial"} /\ task.cand # 0
  /\ op' = [op EXCEPT ![k] = [NoOp EXCEPT !.place = "reimport", !.cand = task.cand]]
  /\ UNCHANGED <<rows, manifest, transfer, runner, tracked, music, faults>> /\ OpFrame
ReimportAcquire(k) ==
  /\ op[k].place = "reimport"
  /\ LET i == RowOf(op[k].cand)
         starts(n) == op' = [op EXCEPT ![k] = [@ EXCEPT !.place = "reimport_start",
                                                        !.attempt = n]]
     IN  \/ /\ i = 0 /\ Len(attempts) < MaxAttempts
            /\ attempts' = Append(attempts, [cand |-> op[k].cand, state |-> "in_use"])
            /\ starts(Len(attempts) + 1) /\ UNCHANGED lock
         \/ /\ i # 0 /\ attempts[i].state \in {"discard", "preserve"}
            /\ attempts' = [attempts EXCEPT ![i].state = "in_use"]
            /\ starts(i) /\ UNCHANGED lock
         \/ /\ i # 0 /\ attempts[i].state \notin {"discard", "preserve"}
            /\ Releases(k) /\ UNCHANGED attempts
  /\ UNCHANGED <<task, manifest, transfer, runner, tracked, music, faults>> /\ OpFrame
ReimportStart(k) ==
  /\ op[k].place = "reimport_start"
  /\ SetStatus("processing")
  /\ OpGoto(k, "reimport_import")
  /\ UNCHANGED <<attempts, manifest, transfer, runner, tracked, lock, music, faults>> /\ OpFrame
ReimportFinish(k) ==
  /\ op[k].place = "reimport_import"
  /\ \E verdict \in {"completed", "partial", "failed"}, disposition \in {"discard", "preserve"}:
       /\ SetStatus(verdict)
       /\ ScheduleRow(op[k].attempt, disposition)
       /\ landed' = (landed \/ verdict = "completed")
  /\ held' \in {held, TRUE}
  /\ manifest' = 0
  /\ Releases(k)
  /\ UNCHANGED <<transfer, runner, tracked, faults>> /\ OpFrame

\* settle_after_manual_import: the task as it was read decides what is written.
SettleAsk(k) ==
  /\ Asks(k, "settle") /\ held
  /\ task.status \notin {"completed", "cancelled"}
  /\ op' = [op EXCEPT ![k] = [NoOp EXCEPT !.place = "settle", !.status = task.status]]
  /\ UNCHANGED <<rows, manifest, transfer, runner, tracked, lock, music, faults>> /\ OpFrame
SettleWrite(k) ==
  /\ op[k].place = "settle"
  /\ \/ /\ SetStatus("completed") /\ manifest' = 0 /\ landed' = TRUE
     \/ /\ SetStatus(op[k].status) /\ UNCHANGED <<manifest, landed>>
  /\ OpEnds(k)
  /\ UNCHANGED <<attempts, transfer, runner, tracked, lock, held, faults>> /\ OpFrame

\* retry_task of an album that the library has by now.  Any other retry is a new task.
RetryAsk(k) ==
  /\ Asks(k, "retry") /\ landed
  /\ task.status \in {"failed", "cancelled", "partial"}
  /\ OpGoto(k, "retry")
  /\ UNCHANGED <<rows, manifest, transfer, runner, tracked, lock, music, faults>> /\ OpFrame
RetryWrite(k) ==
  /\ op[k].place = "retry"
  /\ SetStatus("completed") /\ manifest' = 0
  /\ OpEnds(k)
  /\ UNCHANGED <<attempts, transfer, runner, tracked, lock, music, faults>> /\ OpFrame

\* pick_candidate of DownloadService, for a task that is parked for review.
PickAsk(k) ==
  /\ Asks(k, "pick") /\ Parked
  /\ OpGoto(k, "pick")
  /\ UNCHANGED <<rows, manifest, transfer, runner, tracked, lock, music, faults>> /\ OpFrame
PickLink(k) ==
  /\ op[k].place = "pick"
  /\ \E c \in 1..Peers: LinkTo(c)
  /\ Dispatch("download", "start")
  /\ OpEnds(k)
  /\ UNCHANGED <<attempts, manifest, transfer, lock, music, faults>> /\ OpFrame
-----------------------------------------------------------------------------
(* The reaper, the peers, the cleanup, other imports, time and restarts.    *)

OthersFrame == UNCHANGED <<op, lock, bounds>>

\* reap_stale_tasks, in two steps: what it finds and what it writes.
ReapFindQueued ==
  /\ "reap" \in Actors /\ ~reaping
  /\ task.status = "queued" /\ tracked = NoRunner /\ ~task.polled
  /\ ~IsRunning("download") /\ ~IsRunning("resume")
  /\ reaping' = TRUE
  /\ UNCHANGED <<rows, manifest, transfer, runner, tracked, music>> /\ OthersFrame
ReapFind ==
  /\ "reap" \in Actors /\ ~reaping
  /\ task.status \in {"downloading", "processing"}
  /\ tracked = NoRunner /\ ~IsRunning("download") /\ ~IsRunning("resume")
  /\ ~task.polled
  /\ reaping' = TRUE
  /\ UNCHANGED <<rows, manifest, transfer, runner, tracked, music>> /\ OthersFrame
ReapFail ==
  /\ reaping
  /\ FailTask
  /\ reaping' = FALSE
  /\ UNCHANGED <<manifest, transfer, runner, tracked, music>> /\ OthersFrame

\* Thirty minutes without a poll.
Ages ==
  /\ task.polled
  /\ task' = [task EXCEPT !.polled = FALSE]
  /\ UNCHANGED <<attempts, manifest, transfer, runner, tracked, reaping, music>> /\ OthersFrame

TransferMoves(c) ==
  /\ \E state \in TransferStates:
       /\ <<transfer[c], state>> \in {<<"queued", "active">>, <<"queued", "failed">>,
                                      <<"active", "done">>, <<"active", "failed">>}
       /\ transfer' = [transfer EXCEPT ![c] = state]
  /\ UNCHANGED <<rows, manifest, runner, tracked, reaping, music>> /\ OthersFrame

\* The cleanup of a discarded attempt also ends its transfers.
CleanupKeepsTransfer(i) ==
  /\ attempts[i].state = "discard"
  /\ attempts' = [attempts EXCEPT ![i].state = "settled"]
  /\ UNCHANGED <<task, manifest, transfer, runner, tracked, reaping, music>> /\ OthersFrame
CleanupSettles(i) ==
  /\ attempts[i].state = "discard"
  /\ attempts' = [attempts EXCEPT ![i].state = "settled"]
  /\ AbortOf(Peer(i))
  /\ UNCHANGED <<task, manifest, runner, tracked, reaping, music>> /\ OthersFrame

\* Another download, or the user, brings the album into the library.
OtherImport ==
  /\ "import" \in Actors /\ ~landed
  /\ landed' = TRUE
  /\ UNCHANGED <<rows, manifest, transfer, runner, tracked, reaping, held>> /\ OthersFrame

\* The process dies; startup_resume dispatches what the rows call active.
CrashForgetsQueued ==
  /\ crashes < MaxCrashes /\ crashes' = crashes + 1
  /\ IF task.status \in Terminal \union {"queued"}
     THEN runner' = [r \in Runners |-> Off] /\ tracked' = NoRunner
     ELSE /\ tracked' \in Runners
          /\ runner' = [r \in Runners |->
               IF r # tracked' THEN Off
               ELSE IF task.status = "queued" THEN [Off EXCEPT !.place = "start", !.listed = TRUE]
               ELSE [Off EXCEPT !.place = "resume", !.name = "resume", !.listed = TRUE]]
  /\ op' = [k \in Callers |-> IF op[k] = NoOp THEN NoOp ELSE [NoOp EXCEPT !.place = "done"]]
  /\ lock' = NoCaller
  /\ reaping' = FALSE
  /\ UNCHANGED <<rows, manifest, transfer, music, faults>>
CrashAndResume ==
  /\ crashes < MaxCrashes /\ crashes' = crashes + 1
  /\ IF task.status \in Terminal
     THEN runner' = [r \in Runners |-> Off] /\ tracked' = NoRunner
     ELSE /\ tracked' \in Runners
          /\ runner' = [r \in Runners |->
               IF r # tracked' THEN Off
               ELSE IF task.status = "queued" THEN [Off EXCEPT !.place = "start", !.listed = TRUE]
               ELSE [Off EXCEPT !.place = "resume", !.name = "resume", !.listed = TRUE]]
  /\ op' = [k \in Callers |-> IF op[k] = NoOp THEN NoOp ELSE [NoOp EXCEPT !.place = "done"]]
  /\ lock' = NoCaller
  /\ reaping' = FALSE
  /\ UNCHANGED <<rows, manifest, transfer, music, faults>>
-----------------------------------------------------------------------------
RunnerStep(r) ==
  \/ ProcessTask(r) \/ ResumeTask(r) \/ Search(r) \/ Prepare(r) \/ Open(r) \/ Journal(r)
  \/ Send(r) \/ Outage(r) \/ Handle(r) \/ PollStops(r) \/ PollGoesOn(r) \/ PollEnds(r)
  \/ PollBreaks(r) \/ Recheck(r) \/ Prefer(r) \/ Process(r) \/ Import(r) \/ Decide(r)
  \/ Abort(r) \/ Schedule(r) \/ Link(r) \/ Reset(r) \/ Finalize(r) \/ Tidy(r)
  \/ Fail(r)

RequestStep(k) ==
  \/ CancelCommit(k) \/ CancelTidy(k)
  \/ NextLook(k) \/ NextStop(k) \/ NextVerify(k) \/ NextAbort(k) \/ NextSchedule(k) \/ NextLink(k)
  \/ NextDispatch(k)
  \/ ReimportAcquire(k) \/ ReimportStart(k) \/ ReimportFinish(k)
  \/ SettleWrite(k) \/ RetryWrite(k) \/ PickLink(k)

Request(k) ==
  CancelAsk(k) \/ NextAsk(k) \/ ReimportAsk(k) \/ SettleAsk(k) \/ RetryAsk(k) \/ PickAsk(k)

Next ==
  \/ \E r \in Runners: RunnerStep(r)
  \/ \E k \in Callers: RequestStep(k) \/ Request(k)
  \/ \E c \in 1..Peers: TransferMoves(c)
  \/ \E i \in 1..Len(attempts): CleanupSettles(i)
  \/ ReapFind \/ ReapFail \/ Ages \/ OtherImport \/ CrashAndResume

Spec == Init /\ [][Next]_vars

\* asyncio runs every coroutine that can go on, a poll ends at its deadline if not
\* before, the reaper looks every five minutes and time passes.  Requests, peers,
\* the cleanup and restarts owe nothing.
FairSpec ==
  /\ Spec
  /\ \A r \in Runners: WF_vars(RunnerStep(r)) /\ WF_vars(PollEnds(r))
  /\ \A k \in Callers: WF_vars(RequestStep(k))
  /\ WF_vars(ReapFind) /\ WF_vars(ReapFail) /\ WF_vars(Ages)
-----------------------------------------------------------------------------
Sending == {c \in 1..Peers: transfer[c] \in {"queued", "active"}}
LiveRows == {i \in 1..Len(attempts): attempts[i].state \in Live}

\* Failover implements the ladder of sources (_run_with_failover, try_next_source),
\* with cancels, manual switches and restarts in between.
Ladder == INSTANCE SourceLadder WITH
            Sources <- Peers, chosen <- task.cand, sending <- Sending
LadderSpec == Ladder!Spec

\* A transfer that a peer has in its queue or sends is covered by an attempt that the
\* cleanup has not settled yet: nothing runs on that nobody will ever abort.
TransfersJournaled ==
  \A c \in Sending: \E i \in 1..Len(attempts):
    Peer(i) = c /\ attempts[i].state # "settled"

\* A download has one live attempt at most, so the newest live row that
\* _fail_task_preserving_attempt and _schedule_attempt_cleanup fall back on is its own.
OneLiveRow == Cardinality(LiveRows) <= 1

\* Automatic and manual switches together stay within the failover limit: a download
\* that has used it up is not moved to another source.
SwitchesInBudget ==
  [][task.cand # 0 /\ task'.cand # task.cand => Len(attempts) < MaxFailover]_vars

\* A cancelled download stays cancelled (process_task: "cancel_task already set
\* status='cancelled'; don't overwrite").
CancelSticks == [][Cancelled => task'.status = "cancelled"]_vars

\* While a re-import works on the files of an attempt, nobody else gives them away.
ReimportKeepsRow ==
  \A k \in Callers:
    op[k].place \in {"reimport_start", "reimport_import"} =>
      attempts[op[k].attempt].state = "in_use"

\* Every download comes to an end, or waits for a person to pick a candidate.
TaskEnds == task.status \in Active ~> (task.status \in Terminal \/ Parked)

\* No download sits in the client's queue or in the import for ever (reap_stale_tasks:
\* "so they don't sit 'downloading' forever").
StaleIsReaped ==
  task.status \in {"downloading", "processing"} ~>
    task.status \notin {"downloading", "processing"}

-----------------------------------------------------------------------------
(* What documents say and this code does not keep (README, section 3.5).     *)

\* A download that counts as active, and is not parked, has somebody who drives it: a
\* runner, a request or a pending reap (_dispatch_resume: "Resume an existing manifest
\* after a manual action lost its zero-byte race").
ActiveIsDriven ==
  task.status \in Active =>
    \/ Parked \/ reaping
    \/ \E r \in Runners: IsLive(r)
    \/ \E k \in Callers: op[k].place \notin {"idle", "done"}

\* A running coroutine is the one that a cancel stops (dispatch: "tracked in
\* _active_tasks so cancel_task can stop the live poll loop").
CancelReachesRunner == \A r \in Runners: IsLive(r) => tracked = r

\* The reaper fails only what nobody works on (reap_stale_tasks: "Only a genuinely
\* unowned, unpolled task (stale last_polled_at) is aged out").
ReapsOnlyUnowned ==
  [][reaping /\ ~reaping' /\ task' # task =>
       lock = NoCaller /\ \A r \in Runners: ~IsLive(r)]_vars

\* A download that failed or fell short stays that way without a retry or a
\* re-import (status.py: "no further automatic transition; a retry creates a NEW task").
EndedStaysEnded ==
  [][task.status \in {"failed", "partial"} => task'.status = task.status]_vars

\* A completed download is final (status.py: "no further automatic transition").
CompletedIsFinal == [][task.status = "completed" => task'.status = "completed"]_vars

\* The failover budget is spent on sources: without restarts a download may switch until
\* that many have been asked (_enqueue: "wait through a client outage and retry the SAME
\* candidate instead of failing or failing over").
BudgetCountsSources ==
  ~MaySwitch => Cardinality({Peer(i): i \in 1..Len(attempts)}) >= MaxFailover

\* Two peers never send the same acquisition (_abort_abandoned_transfer: "prevents two
\* peers from continuing to send the same acquisition at once").
OneSender == Cardinality(Sending) <= 1

\* The live rows of a download that has ended are scheduled with it (download_store.py:
\* "acquiring/in_use mean live work").
LiveRowsLiveTask == task.status \in Terminal => LiveRows = {}
=============================================================================
