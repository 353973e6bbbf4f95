-------------------------- MODULE DownloadTask_proof --------------------------
(***************************************************************************)
(* Proofs about DownloadTask, for any number of candidates, coroutines and *)
(* requests and any bounds.                                                *)
(***************************************************************************)
EXTENDS DownloadTask, SequenceTheorems, WellFoundedInduction, TLAPS

USE PeersAssumption, NoRunnerAssumption, NoCallerAssumption, ActorsAssumption, FaultsAssumption
-----------------------------------------------------------------------------
(* The rows of the journal.                                                 *)

\* Every set of row numbers has a newest one.
LEMMA NewestIsIn ==
  ASSUME NEW n \in Nat, NEW S \in SUBSET (1..n), S # {}
  PROVE  Newest(S) \in S /\ \A j \in S: j <= Newest(S)
  <1> DEFINE B == {n - i: i \in S}
  <1>a. PICK s \in S: TRUE
    OBVIOUS
  <1>b. n - s \in B
    BY <1>a
  <1>1. B \in SUBSET Nat /\ B # {}
    BY <1>b
  <1>2. \E m \in B: \A k \in B: ~(<<k, m>> \in OpToRel(<, Nat))
    BY <1>1, NatLessThanWellFounded, WFMin
  <1>3. PICK m \in B: \A k \in B: ~(<<k, m>> \in OpToRel(<, Nat))
    BY <1>2
  <1>4. PICK i \in S: m = n - i
    OBVIOUS
  <1>5. \A j \in S: j <= i
    <2> TAKE j \in S
    <2>1. n - j \in Nat /\ m \in Nat /\ n - j \in B
      BY <1>1
    <2>2. ~(n - j < m)
      BY <1>3, <2>1 DEF OpToRel
    <2> QED
      BY <1>4, <2>1, <2>2
  <1> QED
    BY <1>5 DEF Newest

\* The row an operator looks for is one, or 0.
LEMMA RowsFound ==
  ASSUME attempts \in Seq(AttemptRows), manifest \in 0..Len(attempts)
  PROVE  /\ LiveRow \in 0..Len(attempts)
         /\ LiveRow # 0 => attempts[LiveRow].state \in Live
         /\ LiveRow = 0 => \A i \in 1..Len(attempts): attempts[i].state \notin Live
         /\ ManifestRow \in 0..Len(attempts)
         /\ \A c: /\ RowOf(c) \in 0..Len(attempts)
                  /\ RowOf(c) # 0 => attempts[RowOf(c)].cand = c
                  /\ RowOf(c) = 0 => \A i \in 1..Len(attempts): attempts[i].cand # c
  <1>1. Len(attempts) \in Nat
    BY LenProperties
  <1>2. ASSUME NEW S \in SUBSET (1..Len(attempts))
        PROVE  /\ S # {} => NewestOrNone(S) \in S
               /\ S = {} => NewestOrNone(S) = 0
    BY <1>1, NewestIsIn DEF NewestOrNone
  <1>5. /\ LiveRow \in 0..Len(attempts)
        /\ LiveRow # 0 => attempts[LiveRow].state \in Live
        /\ LiveRow = 0 => \A i \in 1..Len(attempts): attempts[i].state \notin Live
    <2> DEFINE S == {i \in 1..Len(attempts): attempts[i].state \in Live}
    <2>1. S \in SUBSET (1..Len(attempts)) /\ LiveRow = NewestOrNone(S)
      BY DEF LiveRow
    <2>2. (S # {} => NewestOrNone(S) \in S) /\ (S = {} => NewestOrNone(S) = 0)
      BY <1>2, <2>1
    <2> QED
      BY <1>1, <2>1, <2>2
  <1>6. ASSUME NEW c
        PROVE  /\ RowOf(c) \in 0..Len(attempts)
               /\ RowOf(c) # 0 => attempts[RowOf(c)].cand = c
               /\ RowOf(c) = 0 => \A i \in 1..Len(attempts): attempts[i].cand # c
    <2> DEFINE S == {i \in 1..Len(attempts): attempts[i].cand = c}
    <2>1. S \in SUBSET (1..Len(attempts)) /\ RowOf(c) = NewestOrNone(S)
      BY DEF RowOf
    <2>2. (S # {} => NewestOrNone(S) \in S) /\ (S = {} => NewestOrNone(S) = 0)
      BY <1>2, <2>1
    <2> QED
      BY <1>1, <2>1, <2>2
  <1> QED
    BY <1>5, <1>6 DEF ManifestRow

\* What the journal is after a row is added, and after one is written.
LEMMA RowsTyped ==
  ASSUME attempts \in Seq(AttemptRows)
  PROVE  Len(attempts) \in Nat /\ \A i \in 1..Len(attempts): attempts[i] \in AttemptRows
  BY LenProperties, ElementOfSeq

\* A row is added at the end.
LEMMA RowAdded ==
  ASSUME attempts \in Seq(AttemptRows), NEW row \in AttemptRows, attempts' = Append(attempts, row)
  PROVE  /\ attempts' \in Seq(AttemptRows) /\ Len(attempts') = Len(attempts) + 1
         /\ attempts'[Len(attempts) + 1] = row
         /\ \A i \in 1..Len(attempts): attempts'[i] = attempts[i]
  BY AppendProperties

\* A row keeps its candidate when its state is written, and the others stay.
LEMMA RowWritten ==
  ASSUME attempts \in Seq(AttemptRows), NEW i \in 1..Len(attempts),
         NEW state \in Live \union {"discard", "preserve", "settled"},
         attempts' = [attempts EXCEPT ![i].state = state]
  PROVE  /\ attempts' \in Seq(AttemptRows) /\ Len(attempts') = Len(attempts)
         /\ attempts'[i].state = state /\ attempts'[i].cand = attempts[i].cand
         /\ \A j \in 1..Len(attempts): j # i => attempts'[j] = attempts[j]
  <1> DEFINE row == [attempts[i] EXCEPT !.state = state]
  <1>1. row \in AttemptRows /\ row.state = state /\ row.cand = attempts[i].cand
    BY RowsTyped DEF AttemptRows
  <1>2. attempts' = [attempts EXCEPT ![i] = row]
    OBVIOUS
  <1> HIDE DEF row
  <1>3. /\ attempts' \in Seq(AttemptRows) /\ Len(attempts') = Len(attempts)
        /\ \A j \in 1..Len(attempts): attempts'[j] = IF j = i THEN row ELSE attempts[j]
    BY SMTT(30), <1>1, <1>2, ExceptSeq
  <1> QED
    BY <1>1, <1>3

\* What scheduling a row does to the journal.
LEMMA ScheduleActs ==
  ASSUME attempts \in Seq(AttemptRows), NEW i \in 0..Len(attempts),
         NEW disposition \in {"discard", "preserve", "leave"}, ScheduleRow(i, disposition)
  PROVE  /\ attempts' \in Seq(AttemptRows) /\ Len(attempts') = Len(attempts)
         /\ \A j \in 1..Len(attempts):
              /\ attempts'[j].cand = attempts[j].cand
              /\ j # i \/ disposition = "leave" \/ attempts[j].state = "settled"
                   => attempts'[j] = attempts[j]
              /\ j = i /\ disposition # "leave" /\ attempts[j].state # "settled"
                   => attempts'[j].state = disposition
  <1>1. CASE i = 0 \/ disposition = "leave" \/ attempts[i].state = "settled"
    BY <1>1 DEF ScheduleRow
  <1>2. CASE i # 0 /\ disposition # "leave" /\ attempts[i].state # "settled"
    <2>1. attempts' = [attempts EXCEPT ![i].state = disposition]
      BY <1>2 DEF ScheduleRow
    <2>2. i \in 1..Len(attempts) /\ disposition \in Live \union {"discard", "preserve", "settled"}
      BY <1>2, RowsTyped
    <2>3. /\ attempts' \in Seq(AttemptRows) /\ Len(attempts') = Len(attempts)
          /\ attempts'[i].state = disposition /\ attempts'[i].cand = attempts[i].cand
          /\ \A j \in 1..Len(attempts): j # i => attempts'[j] = attempts[j]
      BY <2>1, <2>2, RowWritten
    <2> QED
      BY <1>2, <2>2, <2>3
  <1> QED
    BY <1>1, <1>2
-----------------------------------------------------------------------------
(* Types.                                                                   *)

\* The places where a runner works on a row.
Attempting == {"send", "handle", "poll", "recheck", "prefer", "process", "import"}
\* The places where a request does.
Asking == {"next_look", "next_stop", "next_verify", "reimport_start", "reimport_import"}
\* The variables have their types, and who works on a row has the number of one.
Typed ==
  /\ TypeOK
  /\ \A r \in Runners: runner[r].place \in Attempting => runner[r].attempt \in 1..Len(attempts)
  /\ \A k \in Callers: op[k].place \in Asking => op[k].attempt \in 1..Len(attempts)

\* What the fields of a runner, a request and the task are.
LEMMA Fields ==
  ASSUME Typed
  PROVE  /\ \A r \in Runners:
              /\ runner[r] \in RunnerStates /\ runner[r].place \in Places
              /\ runner[r].name \in {"download", "resume"} /\ runner[r].listed \in BOOLEAN
              /\ runner[r].status \in Statuses /\ runner[r].cand \in 0..Peers
              /\ runner[r].resuming \in BOOLEAN /\ runner[r].attempt \in 0..MaxAttempts
              /\ runner[r].outcome \in {"none", "completed", "terminal", "timeout", "preferred"}
              /\ runner[r].next \in 0..Peers /\ runner[r].verdict \in Verdicts
              /\ runner[r].disposition \in {"discard", "preserve", "leave"}
         /\ \A k \in Callers:
              /\ op[k] \in OpStates /\ op[k].status \in Statuses /\ op[k].cand \in 0..Peers
              /\ op[k].next \in 0..Peers /\ op[k].attempt \in 0..MaxAttempts
         /\ task.status \in Statuses /\ task.cand \in 0..Peers /\ task.job \in BOOLEAN
         /\ task.bytes \in BOOLEAN /\ task.fallback \in BOOLEAN /\ task.polled \in BOOLEAN
         /\ Len(attempts) \in Nat /\ manifest \in Nat
         /\ \A i \in 1..Len(attempts): Peer(i) \in 0..Peers
  <1>1. \A r \in Runners:
              /\ runner[r] \in RunnerStates /\ runner[r].place \in Places
              /\ runner[r].name \in {"download", "resume"} /\ runner[r].listed \in BOOLEAN
              /\ runner[r].status \in Statuses /\ runner[r].cand \in 0..Peers
              /\ runner[r].resuming \in BOOLEAN /\ runner[r].attempt \in 0..MaxAttempts
              /\ runner[r].outcome \in {"none", "completed", "terminal", "timeout", "preferred"}
              /\ runner[r].next \in 0..Peers /\ runner[r].verdict \in Verdicts
              /\ runner[r].disposition \in {"discard", "preserve", "leave"}
    BY DEF Typed, TypeOK, RunnerStates
  <1>2. \A k \in Callers:
              /\ op[k] \in OpStates /\ op[k].status \in Statuses /\ op[k].cand \in 0..Peers
              /\ op[k].next \in 0..Peers /\ op[k].attempt \in 0..MaxAttempts
    BY DEF Typed, TypeOK, OpStates
  <1>3. /\ task.status \in Statuses /\ task.cand \in 0..Peers /\ task.job \in BOOLEAN
        /\ task.bytes \in BOOLEAN /\ task.fallback \in BOOLEAN /\ task.polled \in BOOLEAN
    BY DEF Typed, TypeOK, Tasks
  <1>4. Len(attempts) \in Nat /\ \A i \in 1..Len(attempts): attempts[i] \in AttemptRows
    BY RowsTyped DEF Typed, TypeOK
  <1>5. manifest \in Nat /\ \A i \in 1..Len(attempts): Peer(i) \in 0..Peers
    BY SMTT(30), <1>4 DEF Typed, TypeOK, AttemptRows, Peer
  <1> QED
    BY <1>1, <1>2, <1>3, <1>4, <1>5

\* A runner after a step, in the fields that the proofs ask about; the others stay as they are.
Sits(r, place, status, cand, attempt, outcome, next, disposition, resuming) ==
  /\ runner'[r].place = place /\ runner'[r].status = status /\ runner'[r].cand = cand
  /\ runner'[r].attempt = attempt /\ runner'[r].outcome = outcome /\ runner'[r].next = next
  /\ runner'[r].disposition = disposition /\ runner'[r].resuming = resuming
  /\ \A q \in Runners \ {r}: runner'[q] = runner[q]
\* It only goes to another place.
Walks(r, place) ==
  Sits(r, place, runner[r].status, runner[r].cand, runner[r].attempt, runner[r].outcome,
       runner[r].next, runner[r].disposition, runner[r].resuming)

\* A runner with these fields.
Shaped(b, place, status, cand, attempt, outcome, next, disposition, resuming) ==
  /\ b \in RunnerStates /\ b.place = place /\ b.status = status /\ b.cand = cand
  /\ b.attempt = attempt /\ b.outcome = outcome /\ b.next = next
  /\ b.disposition = disposition /\ b.resuming = resuming

\* A runner whose fields are written stays one, and has what was written.
LEMMA RunnerShapes ==
  ASSUME NEW a \in RunnerStates, NEW place \in Places
  PROVE
         /\ Shaped([a EXCEPT !.place = place],
                   place, a.status, a.cand, a.attempt, a.outcome, a.next, a.disposition, a.resuming)
         /\ \A status \in Statuses, cand \in 0..Peers:
              Shaped([a EXCEPT !.place = place, !.status = status, !.cand = cand],
                     place, status, cand, a.attempt, a.outcome, a.next, a.disposition, a.resuming)
         /\ \A attempt \in 0..MaxAttempts, status \in Statuses, cand \in 0..Peers:
              Shaped([a EXCEPT !.place = place, !.attempt = attempt, !.status = status, !.cand = cand],
                     place, status, cand, attempt, a.outcome, a.next, a.disposition, a.resuming)
         /\ \A verdict \in Verdicts, disposition \in {"discard", "preserve", "leave"}:
              Shaped([a EXCEPT !.place = place, !.verdict = verdict, !.disposition = disposition],
                     place, a.status, a.cand, a.attempt, a.outcome, a.next, disposition, a.resuming)
         /\ \A resuming \in BOOLEAN, status \in Statuses, cand \in 0..Peers:
              Shaped([a EXCEPT !.place = place, !.resuming = resuming, !.status = status,
                !.cand = cand],
                     place, status, cand, a.attempt, a.outcome, a.next, a.disposition, resuming)
         /\ \A outcome \in {"none", "completed", "terminal", "timeout", "preferred"},
              disposition \in {"discard", "preserve", "leave"}:
              Shaped([a EXCEPT !.place = place, !.outcome = outcome, !.disposition = disposition],
                     place, a.status, a.cand, a.attempt, outcome, a.next, disposition, a.resuming)
         /\ \A attempt \in 0..MaxAttempts:
              Shaped([a EXCEPT !.place = place, !.attempt = attempt],
                     place, a.status, a.cand, attempt, a.outcome, a.next, a.disposition, a.resuming)
         /\ \A outcome \in {"none", "completed", "terminal", "timeout", "preferred"}:
              Shaped([a EXCEPT !.place = place, !.outcome = outcome],
                     place, a.status, a.cand, a.attempt, outcome, a.next, a.disposition, a.resuming)
         /\ \A next \in 0..Peers, disposition \in {"discard", "preserve", "leave"}:
              Shaped([a EXCEPT !.place = place, !.next = next, !.disposition = disposition],
                     place, a.status, a.cand, a.attempt, a.outcome, next, disposition, a.resuming)
         /\ \A disposition \in {"discard", "preserve", "leave"}:
              Shaped([a EXCEPT !.place = place, !.disposition = disposition],
                     place, a.status, a.cand, a.attempt, a.outcome, a.next, disposition, a.resuming)
         /\ \A next \in 0..Peers:
              Shaped([a EXCEPT !.next = next, !.place = place],
                     place, a.status, a.cand, a.attempt, a.outcome, next, a.disposition, a.resuming)
  <1>1. Shaped([a EXCEPT !.place = place],
               place, a.status, a.cand, a.attempt, a.outcome, a.next, a.disposition, a.resuming)
    <2>1. [a EXCEPT !.place = place] \in RunnerStates
      BY DEF RunnerStates
    <2> QED
      BY <2>1 DEF Shaped, RunnerStates
  <1>2. ASSUME NEW status \in Statuses, NEW cand \in 0..Peers
        PROVE  Shaped([a EXCEPT !.place = place, !.status = status, !.cand = cand],
               place, status, cand, a.attempt, a.outcome, a.next, a.disposition, a.resuming)
    <2>1. [a EXCEPT !.place = place, !.status = status, !.cand = cand] \in RunnerStates
      BY DEF RunnerStates
    <2> QED
      BY <2>1 DEF Shaped, RunnerStates
  <1>3. ASSUME NEW attempt \in 0..MaxAttempts, NEW status \in Statuses, NEW cand \in 0..Peers
        PROVE  Shaped([a EXCEPT !.place = place, !.attempt = attempt, !.status = status, !.cand = cand],
               place, status, cand, attempt, a.outcome, a.next, a.disposition, a.resuming)
    <2>1. [a EXCEPT !.place = place, !.attempt = attempt, !.status = status,
            !.cand = cand] \in RunnerStates
      BY DEF RunnerStates
    <2> QED
      BY <2>1 DEF Shaped, RunnerStates
  <1>4. ASSUME NEW verdict \in Verdicts, NEW disposition \in {"discard", "preserve", "leave"}
        PROVE  Shaped([a EXCEPT !.place = place, !.verdict = verdict, !.disposition = disposition],
               place, a.status, a.cand, a.attempt, a.outcome, a.next, disposition, a.resuming)
    <2>1. [a EXCEPT !.place = place, !.verdict = verdict, !.disposition = disposition] \in RunnerStates
      BY DEF RunnerStates
    <2> QED
      BY <2>1 DEF Shaped, RunnerStates
  <1>5. ASSUME NEW resuming \in BOOLEAN, NEW status \in Statuses, NEW cand \in 0..Peers
        PROVE  Shaped([a EXCEPT !.place = place, !.resuming = resuming, !.status = status,
          !.cand = cand],
               place, status, cand, a.attempt, a.outcome, a.next, a.disposition, resuming)
    <2>1. [a EXCEPT !.place = place, !.resuming = resuming, !.status = status,
            !.cand = cand] \in RunnerStates
      BY DEF RunnerStates
    <2> QED
      BY <2>1 DEF Shaped, RunnerStates
  <1>6. ASSUME NEW outcome \in {"none", "completed", "terminal", "timeout", "preferred"},
          NEW disposition \in {"discard", "preserve", "leave"}
        PROVE  Shaped([a EXCEPT !.place = place, !.outcome = outcome, !.disposition = disposition],
               place, a.status, a.cand, a.attempt, outcome, a.next, disposition, a.resuming)
    <2>1. [a EXCEPT !.place = place, !.outcome = outcome, !.disposition = disposition] \in RunnerStates
      BY DEF RunnerStates
    <2> QED
      BY <2>1 DEF Shaped, RunnerStates
  <1>7. ASSUME NEW attempt \in 0..MaxAttempts
        PROVE  Shaped([a EXCEPT !.place = place, !.attempt = attempt],
               place, a.status, a.cand, attempt, a.outcome, a.next, a.disposition, a.resuming)
    <2>1. [a EXCEPT !.place = place, !.attempt = attempt] \in RunnerStates
      BY DEF RunnerStates
    <2> QED
      BY <2>1 DEF Shaped, RunnerStates
  <1>8. ASSUME NEW outcome \in {"none", "completed", "terminal", "timeout", "preferred"}
        PROVE  Shaped([a EXCEPT !.place = place, !.outcome = outcome],
               place, a.status, a.cand, a.attempt, outcome, a.next, a.disposition, a.resuming)
    <2>1. [a EXCEPT !.place = place, !.outcome = outcome] \in RunnerStates
      BY DEF RunnerStates
    <2> QED
      BY <2>1 DEF Shaped, RunnerStates
  <1>9. ASSUME NEW next \in 0..Peers, NEW disposition \in {"discard", "preserve", "leave"}
        PROVE  Shaped([a EXCEPT !.place = place, !.next = next, !.disposition = disposition],
               place, a.status, a.cand, a.attempt, a.outcome, next, disposition, a.resuming)
    <2>1. [a EXCEPT !.place = place, !.next = next, !.disposition = disposition] \in RunnerStates
      BY DEF RunnerStates
    <2> QED
      BY <2>1 DEF Shaped, RunnerStates
  <1>10. ASSUME NEW disposition \in {"discard", "preserve", "leave"}
        PROVE  Shaped([a EXCEPT !.place = place, !.disposition = disposition],
               place, a.status, a.cand, a.attempt, a.outcome, a.next, disposition, a.resuming)
    <2>1. [a EXCEPT !.place = place, !.disposition = disposition] \in RunnerStates
      BY DEF RunnerStates
    <2> QED
      BY <2>1 DEF Shaped, RunnerStates
  <1>11. ASSUME NEW next \in 0..Peers
        PROVE  Shaped([a EXCEPT !.next = next, !.place = place],
               place, a.status, a.cand, a.attempt, a.outcome, next, a.disposition, a.resuming)
    <2>1. [a EXCEPT !.next = next, !.place = place] \in RunnerStates
      BY DEF RunnerStates
    <2> QED
      BY <2>1 DEF Shaped, RunnerStates
  <1> QED
    BY ZenonT(30), <1>1, <1>2, <1>3, <1>4, <1>5, <1>6, <1>7, <1>8, <1>9, <1>10, <1>11

\* A coroutine that is not there is a runner too, and so is one that begins.
LEMMA OffShaped ==
  /\ Shaped(Off, "idle", "queued", 0, 0, "none", 0, "discard", FALSE)
  /\ \A place \in Places, name \in {"download", "resume"}, listed \in BOOLEAN:
       Shaped([Off EXCEPT !.place = place, !.name = name, !.listed = listed],
              place, "queued", 0, 0, "none", 0, "discard", FALSE)
  /\ \A place \in Places:
       Shaped([Off EXCEPT !.place = place, !.listed = TRUE], place, "queued", 0, 0, "none", 0,
         "discard", FALSE)
  <1>1. Off \in RunnerStates
    BY DEF Off, RunnerStates, Places, Statuses, Active, Verdicts
  <1>2. /\ Off.place = "idle" /\ Off.status = "queued" /\ Off.cand = 0
        /\ Off.attempt = 0 /\ Off.outcome = "none" /\ Off.next = 0
        /\ Off.disposition = "discard" /\ Off.resuming = FALSE
    BY DEF Off
  <1>3. ASSUME NEW a \in RunnerStates, NEW place \in Places, NEW name \in {"download", "resume"},
               NEW listed \in BOOLEAN
        PROVE  Shaped([a EXCEPT !.place = place, !.name = name, !.listed = listed],
                      place, a.status, a.cand, a.attempt, a.outcome, a.next, a.disposition, a.resuming)
    <2>1. [a EXCEPT !.place = place, !.name = name, !.listed = listed] \in RunnerStates
      BY DEF RunnerStates
    <2> QED
      BY <2>1 DEF Shaped, RunnerStates
  <1>4. ASSUME NEW a \in RunnerStates, NEW place \in Places
        PROVE  Shaped([a EXCEPT !.place = place, !.listed = TRUE],
                      place, a.status, a.cand, a.attempt, a.outcome, a.next, a.disposition, a.resuming)
    <2>1. [a EXCEPT !.place = place, !.listed = TRUE] \in RunnerStates
      BY DEF RunnerStates
    <2> QED
      BY <2>1 DEF Shaped, RunnerStates
  <1>5. Shaped(Off, "idle", "queued", 0, 0, "none", 0, "discard", FALSE)
    BY <1>1, <1>2 DEF Shaped
  <1>6. ASSUME NEW place \in Places, NEW name \in {"download", "resume"}, NEW listed \in BOOLEAN
        PROVE  Shaped([Off EXCEPT !.place = place, !.name = name, !.listed = listed],
                      place, "queued", 0, 0, "none", 0, "discard", FALSE)
    BY <1>1, <1>2, <1>3
  <1>7. ASSUME NEW place \in Places
        PROVE  Shaped([Off EXCEPT !.place = place, !.listed = TRUE], place, "queued", 0, 0, "none",
          0, "discard", FALSE)
    BY <1>1, <1>2, <1>4
  <1> QED
    BY <1>5, <1>6, <1>7

\* Writing one runner leaves the others alone.
LEMMA RunnerPlaced ==
  ASSUME Typed, NEW r \in Runners, NEW b, NEW place, NEW status, NEW cand, NEW attempt, NEW outcome,
         NEW next, NEW disposition, NEW resuming,
         Shaped(b, place, status, cand, attempt, outcome, next, disposition, resuming),
         runner' = [runner EXCEPT ![r] = b]
  PROVE  /\ runner' \in [Runners -> RunnerStates]
         /\ Sits(r, place, status, cand, attempt, outcome, next, disposition, resuming)
  BY DEF Typed, TypeOK, Shaped, Sits

\* The ways in which the steps write a runner.
LEMMA GotoMoves ==
  ASSUME Typed, NEW r \in Runners, NEW place \in Places, Goto(r, place)
  PROVE  runner' \in [Runners -> RunnerStates] /\ Walks(r, place)
  <1>1. Shaped([runner[r] EXCEPT !.place = place], place, runner[r].status, runner[r].cand,
               runner[r].attempt, runner[r].outcome, runner[r].next,
               runner[r].disposition, runner[r].resuming)
    BY ZenonT(30), Fields, RunnerShapes
  <1>2. runner' = [runner EXCEPT ![r] = [runner[r] EXCEPT !.place = place]]
    BY DEF Goto
  <1> QED
    BY ZenonT(30), <1>1, <1>2, RunnerPlaced DEF Walks

\* A runner that reads the task has its status and its candidate.
LEMMA ReadMoves ==
  ASSUME Typed, NEW r \in Runners, NEW place \in Places, NEW t, t.status \in Statuses,
    t.cand \in 0..Peers,
         Read(r, place, t)
  PROVE  /\ runner' \in [Runners -> RunnerStates]
         /\ Sits(r, place, t.status, t.cand, runner[r].attempt, runner[r].outcome, runner[r].next,
               runner[r].disposition, runner[r].resuming)
  <1>1. Shaped([runner[r] EXCEPT !.place = place, !.status = t.status, !.cand = t.cand],
               place, t.status, t.cand, runner[r].attempt, runner[r].outcome, runner[r].next,
               runner[r].disposition, runner[r].resuming)
    BY ZenonT(30), Fields, RunnerShapes
  <1>2. runner' = [runner EXCEPT ![r] =
                     [runner[r] EXCEPT !.place = place, !.status = t.status, !.cand = t.cand]]
    BY DEF Read
  <1> QED
    BY ZenonT(30), <1>1, <1>2, RunnerPlaced

\* A runner that starts to poll works on the attempt that the manifest names.
LEMMA StartPollingMoves ==
  ASSUME Typed, NEW r \in Runners, NEW t, t.status \in Statuses, t.cand \in 0..Peers, StartPolling(r, t)
  PROVE  /\ runner' \in [Runners -> RunnerStates]
         /\ Sits(r, IF manifest = 0 THEN "fail" ELSE "poll", t.status, t.cand, manifest,
                 runner[r].outcome, runner[r].next,
               runner[r].disposition, runner[r].resuming)
  <1> DEFINE place == IF manifest = 0 THEN "fail" ELSE "poll"
  <1>a. place \in Places /\ manifest \in 0..MaxAttempts
    BY DEF Typed, TypeOK, Places
  <1>1. Shaped([runner[r] EXCEPT !.place = place, !.attempt = manifest, !.status = t.status,
          !.cand = t.cand],
               place, t.status, t.cand, manifest, runner[r].outcome, runner[r].next,
               runner[r].disposition, runner[r].resuming)
    BY ZenonT(60), <1>a, Fields, RunnerShapes
  <1>2. runner' = [runner EXCEPT ![r] = [runner[r] EXCEPT !.place = place, !.attempt = manifest,
                                                          !.status = t.status, !.cand = t.cand]]
    BY DEF StartPolling
  <1> HIDE DEF place
  <1>3. /\ runner' \in [Runners -> RunnerStates]
        /\ Sits(r, place, t.status, t.cand, manifest, runner[r].outcome, runner[r].next,
               runner[r].disposition, runner[r].resuming)
    BY <1>1, <1>2, RunnerPlaced
  <1> QED
    BY <1>3 DEF place

\* A runner that concludes has the disposition of its attempt.
LEMMA ConcludesMoves ==
  ASSUME Typed, NEW r \in Runners, NEW verdict \in Verdicts,
         NEW disposition \in {"discard", "preserve", "leave"}, Concludes(r, verdict, disposition)
  PROVE  /\ runner' \in [Runners -> RunnerStates]
         /\ Sits(r, "finalize", runner[r].status, runner[r].cand, runner[r].attempt,
                 runner[r].outcome, runner[r].next, disposition, runner[r].resuming)
  <1>a. runner[r] \in RunnerStates /\ "finalize" \in Places
    BY SMTT(30), Fields DEF Places
  <1>1. Shaped([runner[r] EXCEPT !.place = "finalize", !.verdict = verdict,
          !.disposition = disposition],
               "finalize", runner[r].status, runner[r].cand, runner[r].attempt, runner[r].outcome,
                 runner[r].next,
               disposition, runner[r].resuming)
    BY ZenonT(60), <1>a, RunnerShapes
  <1>2. runner' = [runner EXCEPT ![r] =
           [runner[r] EXCEPT !.place = "finalize", !.verdict = verdict, !.disposition = disposition]]
    BY DEF Concludes
  <1> QED
    BY <1>1, <1>2, RunnerPlaced

\* A coroutine that has ended is off, and is not tracked any more.
LEMMA EndMoves ==
  ASSUME Typed, NEW r \in Runners, End(r)
  PROVE  /\ runner' \in [Runners -> RunnerStates]
         /\ Sits(r, "idle", "queued", 0, 0, "none", 0, "discard", FALSE)
         /\ tracked' \in Runners \union {NoRunner}
         /\ tracked' = IF tracked = r THEN NoRunner ELSE tracked
  BY OffShaped, RunnerPlaced DEF End, Typed, TypeOK
\* The task after a step.
Tasked(status, cand, job) ==
  task' \in Tasks /\ task'.status = status /\ task'.cand = cand /\ task'.job = job

\* The ways in which the steps write the task.
LEMMA TaskMoves ==
  ASSUME task \in Tasks
  PROVE  /\ \A status \in Statuses: SetStatus(status) => Tasked(status, task.cand, task.job)
         /\ \A cand \in 0..Peers: LinkTo(cand) => Tasked(task.status, cand, TRUE)
         /\ \A fallback \in BOOLEAN: task' = FreshTask(fallback) 
              => Tasked("queued", task.cand, task.job)
         /\ \A c: task' = Polled(c) => Tasked(task.status, task.cand, task.job)
         /\ \A status \in Statuses, fallback \in BOOLEAN:
              task' = [task EXCEPT !.status = status, !.fallback = fallback]
                => Tasked(status, task.cand, task.job)
         /\ \A bytes \in BOOLEAN:
              task' = [task EXCEPT !.bytes = bytes] => Tasked(task.status, task.cand, task.job)
         /\ \A polled \in BOOLEAN:
              task' = [task EXCEPT !.polled = polled] => Tasked(task.status, task.cand, task.job)
  <1> USE DEF Tasked, Tasks
  <1>1. ASSUME NEW status \in Statuses, SetStatus(status) PROVE Tasked(status, task.cand, task.job)
    BY <1>1 DEF SetStatus
  <1>2. ASSUME NEW cand \in 0..Peers, LinkTo(cand) PROVE Tasked(task.status, cand, TRUE)
    BY <1>2 DEF LinkTo
  <1>3. ASSUME NEW fallback \in BOOLEAN, task' = FreshTask(fallback)
        PROVE  Tasked("queued", task.cand, task.job)
    BY <1>3 DEF FreshTask, Statuses, Active
  <1>4. ASSUME NEW c, task' = Polled(c) PROVE Tasked(task.status, task.cand, task.job)
    <2> DEFINE bytes == transfer[c] \in {"active", "done"}
               fallback == task.fallback /\ transfer[c] \notin {"active", "done"}
    <2>1. bytes \in BOOLEAN /\ fallback \in BOOLEAN
      OBVIOUS
    <2>2. task' = [task EXCEPT !.polled = TRUE, !.bytes = bytes, !.fallback = fallback]
      BY <1>4 DEF Polled
    <2> HIDE DEF bytes, fallback
    <2> QED
      BY <2>1, <2>2
  <1>5. ASSUME NEW status \in Statuses, NEW fallback \in BOOLEAN,
               task' = [task EXCEPT !.status = status, !.fallback = fallback]
        PROVE  Tasked(status, task.cand, task.job)
    BY <1>5
  <1>6. ASSUME NEW bytes \in BOOLEAN, task' = [task EXCEPT !.bytes = bytes]
        PROVE  Tasked(task.status, task.cand, task.job)
    BY <1>6
  <1>7. ASSUME NEW polled \in BOOLEAN, task' = [task EXCEPT !.polled = polled]
        PROVE  Tasked(task.status, task.cand, task.job)
    BY <1>7
  <1> QED
    BY <1>1, <1>2, <1>3, <1>4, <1>5, <1>6, <1>7

\* A request after a step; the others stay as they are.
Stands(k, place, status, cand, next, attempt) ==
  /\ op' \in [Callers -> OpStates]
  /\ op'[k].place = place /\ op'[k].status = status /\ op'[k].cand = cand
  /\ op'[k].next = next /\ op'[k].attempt = attempt
  /\ \A q \in Callers \ {k}: op'[q] = op[q]

\* The ways in which the steps write a request.
LEMMA OpMoves ==
  ASSUME Typed, NEW k \in Callers
  PROVE  /\ \A place: [op[k] EXCEPT !.place = place] \in OpStates /\ OpGoto(k, place)
              => Stands(k, place, op[k].status, op[k].cand, op[k].next, op[k].attempt)
         /\ OpEnds(k) => Stands(k, "done", "queued", 0, 0, 0)
  <1>1. ASSUME NEW place, [op[k] EXCEPT !.place = place] \in OpStates, OpGoto(k, place)
        PROVE  Stands(k, place, op[k].status, op[k].cand, op[k].next, op[k].attempt)
    <2>1. op[k] \in OpStates
      BY Fields
    <2>2. /\ [op[k] EXCEPT !.place = place].place = place
          /\ [op[k] EXCEPT !.place = place].status = op[k].status
          /\ [op[k] EXCEPT !.place = place].cand = op[k].cand
          /\ [op[k] EXCEPT !.place = place].next = op[k].next
          /\ [op[k] EXCEPT !.place = place].attempt = op[k].attempt
      BY <2>1 DEF OpStates
    <2>3. op' = [op EXCEPT ![k] = [op[k] EXCEPT !.place = place]] /\ op \in [Callers -> OpStates]
      BY <1>1 DEF OpGoto, Typed, TypeOK
    <2> QED
      BY <1>1, <2>3 DEF Stands
  <1>2. ASSUME OpEnds(k) PROVE Stands(k, "done", "queued", 0, 0, 0)
    <2>1. [NoOp EXCEPT !.place = "done"] \in OpStates
      BY DEF NoOp, OpStates, Statuses, Active
    <2>2. /\ [NoOp EXCEPT !.place = "done"].place = "done" /\ [NoOp EXCEPT !.place = "done"].status = "queued"
          /\ [NoOp EXCEPT !.place = "done"].cand = 0 /\ [NoOp EXCEPT !.place = "done"].next = 0
          /\ [NoOp EXCEPT !.place = "done"].attempt = 0
      BY DEF NoOp
    <2>3. op' = [op EXCEPT ![k] = [NoOp EXCEPT !.place = "done"]] /\ op \in [Callers -> OpStates]
      BY <1>2 DEF OpEnds, Typed, TypeOK
    <2> QED
      BY <2>1, <2>2, <2>3 DEF Stands
  <1> QED
    BY <1>1, <1>2
-----------------------------------------------------------------------------
(* What the steps of a runner do.                                           *)

\* After a step the runners have their type.
RunnersTyped == runner' \in [Runners -> RunnerStates]

\* ProcessTask goes to the candidate of the task, or searches one, or fails.
LEMMA ProcessTaskActs ==
  ASSUME Typed, NEW r \in Runners, ProcessTask(r)
  PROVE  /\ runner[r].place = "start" /\ RunnersTyped
         /\ \/ Sits(r, IF task.job /\ task.cand # 0 THEN "prepare" ELSE "search", task.status,
                    task.cand, runner[r].attempt, runner[r].outcome, runner[r].next,
                    runner[r].disposition, runner[r].resuming)
            \/ Walks(r, "fail")
         /\ UNCHANGED <<task, attempts, manifest, transfer, tracked, held, landed, faults>>
  <1> DEFINE place == IF task.job /\ task.cand # 0 THEN "prepare" ELSE "search"
  <1>1. place \in Places /\ task.status \in Statuses /\ task.cand \in 0..Peers
    BY Fields DEF Places
  <1>2. Read(r, place, task) \/ Goto(r, "fail")
    BY DEF ProcessTask
  <1> HIDE DEF place
  <1>3. ASSUME Read(r, place, task)
        PROVE  RunnersTyped /\ Sits(r, place, task.status, task.cand,
                 runner[r].attempt, runner[r].outcome, runner[r].next, runner[r].disposition,
                 runner[r].resuming)
    BY <1>1, <1>3, ReadMoves DEF RunnersTyped
  <1>4. ASSUME Goto(r, "fail") PROVE RunnersTyped /\ Walks(r, "fail")
    BY <1>4, GotoMoves DEF RunnersTyped, Places
  <1> QED
    BY <1>2, <1>3, <1>4 DEF place, ProcessTask, rows, music

\* ResumeTask polls the manifest of the task's candidate, or begins again.
LEMMA ResumeTaskActs ==
  ASSUME Typed, NEW r \in Runners, ResumeTask(r)
  PROVE  /\ runner[r].place = "resume" /\ RunnersTyped
         /\ \/ Walks(r, "start")
            \/ /\ manifest # 0 /\ (task.cand = 0 \/ Peer(manifest) = task.cand)
               /\ Sits(r, "prepare", task.status, task.cand, runner[r].attempt, runner[r].outcome,
                       runner[r].next, runner[r].disposition, TRUE)
         /\ UNCHANGED <<task, attempts, manifest, transfer, tracked, held, landed, faults>>
  <1>1. /\ runner[r].place = "resume"
        /\ UNCHANGED <<task, attempts, manifest, transfer, tracked, held, landed, faults>>
    BY DEF ResumeTask, rows, music
  <1>2. CASE manifest = 0 \/ (task.cand # 0 /\ Peer(manifest) # task.cand)
    <2>1. Goto(r, "start") /\ "start" \in Places
      BY <1>2 DEF ResumeTask, Places
    <2> QED
      BY <1>1, <2>1, GotoMoves DEF RunnersTyped
  <1>3. CASE ~(manifest = 0 \/ (task.cand # 0 /\ Peer(manifest) # task.cand))
    <2>1. runner' = [runner EXCEPT ![r] = [runner[r] EXCEPT !.place = "prepare", !.resuming = TRUE,
                                              !.status = task.status, !.cand = task.cand]]
      BY <1>3 DEF ResumeTask
    <2>2. runner[r] \in RunnerStates /\ "prepare" \in Places /\ TRUE \in BOOLEAN
          /\ task.status \in Statuses /\ task.cand \in 0..Peers
      BY SMTT(30), Fields DEF Places
    <2>3. Shaped([runner[r] EXCEPT !.place = "prepare", !.resuming = TRUE,
                                   !.status = task.status, !.cand = task.cand],
                 "prepare", task.status, task.cand, runner[r].attempt, runner[r].outcome,
                 runner[r].next, runner[r].disposition, TRUE)
      BY ZenonT(30), <2>2, RunnerShapes
    <2>4. RunnersTyped /\ Sits(r, "prepare", task.status, task.cand, runner[r].attempt,
                               runner[r].outcome, runner[r].next, runner[r].disposition, TRUE)
      BY <2>1, <2>3, RunnerPlaced DEF RunnersTyped
    <2> QED
      BY <1>1, <1>3, <2>4
  <1> QED
    BY <1>2, <1>3
\* A runner reads the task, and goes to another place.
Reads(r, place, status, cand) ==
  Sits(r, place, status, cand, runner[r].attempt, runner[r].outcome, runner[r].next,
       runner[r].disposition, runner[r].resuming)
\* A runner ends.
Ends(r) ==
  /\ Sits(r, "idle", "queued", 0, 0, "none", 0, "discard", FALSE)
  /\ tracked' \in Runners \union {NoRunner}
  /\ tracked' = IF tracked = r THEN NoRunner ELSE tracked
\* A runner begins to poll the task with this status and candidate.
Polls(r, status, cand) ==
  Sits(r, IF manifest = 0 THEN "fail" ELSE "poll", status, cand, manifest, runner[r].outcome,
       runner[r].next, runner[r].disposition, runner[r].resuming)
\* A runner concludes with this disposition of the attempt.
Finishes(r, disposition) ==
  Sits(r, "finalize", runner[r].status, runner[r].cand, runner[r].attempt, runner[r].outcome,
       runner[r].next, disposition, runner[r].resuming)

\* The same, in the words of the definitions above.
LEMMA Moves ==
  ASSUME Typed, NEW r \in Runners
  PROVE  /\ \A place \in Places: Goto(r, place) => RunnersTyped /\ Walks(r, place)
         /\ End(r) => RunnersTyped /\ Ends(r)
         /\ \A place \in Places: \A t:
              t.status \in Statuses /\ t.cand \in 0..Peers /\ Read(r, place, t)
                => RunnersTyped /\ Reads(r, place, t.status, t.cand)
         /\ \A t: t.status \in Statuses /\ t.cand \in 0..Peers /\ StartPolling(r, t)
                => RunnersTyped /\ Polls(r, t.status, t.cand)
         /\ \A verdict \in Verdicts, disposition \in {"discard", "preserve", "leave"}:
              Concludes(r, verdict, disposition) => RunnersTyped /\ Finishes(r, disposition)
  <1>1. ASSUME NEW place \in Places, Goto(r, place) PROVE RunnersTyped /\ Walks(r, place)
    BY <1>1, GotoMoves DEF RunnersTyped
  <1>2. ASSUME End(r) PROVE RunnersTyped /\ Ends(r)
    BY <1>2, EndMoves DEF RunnersTyped, Ends
  <1>3. ASSUME NEW place \in Places, NEW t, t.status \in Statuses, t.cand \in 0..Peers,
               Read(r, place, t)
        PROVE  RunnersTyped /\ Reads(r, place, t.status, t.cand)
    BY <1>3, ReadMoves DEF RunnersTyped, Reads
  <1>4. ASSUME NEW t, t.status \in Statuses, t.cand \in 0..Peers, StartPolling(r, t)
        PROVE  RunnersTyped /\ Polls(r, t.status, t.cand)
    BY <1>4, StartPollingMoves DEF RunnersTyped, Polls
  <1>5. ASSUME NEW verdict \in Verdicts, NEW disposition \in {"discard", "preserve", "leave"},
               Concludes(r, verdict, disposition)
        PROVE  RunnersTyped /\ Finishes(r, disposition)
    BY <1>5, ConcludesMoves DEF RunnersTyped, Finishes
  <1> QED
    BY <1>1, <1>2, <1>3, <1>4, <1>5

\* Search links a candidate, parks the task or fails it.
LEMMA SearchActs ==
  ASSUME Typed, NEW r \in Runners, Search(r)
  PROVE  /\ runner[r].place = "search" /\ RunnersTyped
         /\ \/ \E c \in 1..Peers:
                 /\ Tasked(task.status, c, TRUE) /\ Reads(r, "prepare", task.status, c)
                 /\ UNCHANGED tracked
            \/ Tasked(task.status, 0, TRUE) /\ Ends(r)
            \/ Tasked("failed", task.cand, task.job) /\ Ends(r)
         /\ UNCHANGED <<attempts, manifest, transfer, held, landed, faults>>
  <1>a. /\ runner[r].place = "search"
        /\ UNCHANGED <<attempts, manifest, transfer, held, landed, faults>>
    BY DEF Search, music
  <1>b. task \in Tasks /\ "prepare" \in Places /\ task.status \in Statuses /\ "failed" \in Statuses
    BY Fields DEF Typed, TypeOK, Places, Statuses, Terminal
  <1>1. ASSUME NEW c \in 1..Peers, LinkTo(c), Read(r, "prepare", task'), UNCHANGED tracked
        PROVE  RunnersTyped /\ Tasked(task.status, c, TRUE) /\ Reads(r, "prepare", task.status, c)
    <2>a. c \in 0..Peers
      OBVIOUS
    <2>1. Tasked(task.status, c, TRUE)
      BY <1>1, <1>b, <2>a, TaskMoves
    <2>2. RunnersTyped /\ Reads(r, "prepare", task'.status, task'.cand)
      BY <1>1, <1>b, <2>1, Moves DEF Tasked
    <2> QED
      BY <2>1, <2>2 DEF Tasked
  <1>2. ASSUME task' = [task EXCEPT !.cand = 0, !.job = TRUE], End(r)
        PROVE  RunnersTyped /\ Tasked(task.status, 0, TRUE) /\ Ends(r)
    <2>1. LinkTo(0) /\ 0 \in 0..Peers
      BY <1>2 DEF LinkTo
    <2>2. Tasked(task.status, 0, TRUE)
      BY <2>1, <1>b, TaskMoves
    <2> QED
      BY <1>2, <2>2, Moves
  <1>3. ASSUME SetStatus("failed"), End(r)
        PROVE  RunnersTyped /\ Tasked("failed", task.cand, task.job) /\ Ends(r)
    BY <1>3, <1>b, TaskMoves, Moves
  <1> QED
    BY <1>a, <1>1, <1>2, <1>3 DEF Search

\* Prepare writes the status it was given, and goes on to poll or to send.
LEMMA PrepareActs ==
  ASSUME Typed, NEW r \in Runners, Prepare(r)
  PROVE  /\ runner[r].place = "prepare" /\ RunnersTyped
         /\ \/ /\ runner[r].cand = 0 /\ UNCHANGED task
               /\ \/ runner[r].resuming /\ Polls(r, runner[r].status, 0)
                  \/ ~runner[r].resuming /\ Walks(r, "open")
            \/ /\ runner[r].cand # 0 /\ Tasked(runner[r].status, task.cand, task.job)
               /\ \/ runner[r].resuming /\ Polls(r, runner[r].status, task.cand)
                  \/ ~runner[r].resuming /\ Reads(r, "open", runner[r].status, task.cand)
         /\ UNCHANGED <<attempts, manifest, transfer, tracked, held, landed, faults>>
  <1>a. /\ runner[r].place = "prepare"
        /\ UNCHANGED <<attempts, manifest, transfer, tracked, held, landed, faults>>
    BY DEF Prepare, music
  <1>b. /\ task \in Tasks /\ "open" \in Places /\ task.cand \in 0..Peers
        /\ runner[r].status \in Statuses /\ runner[r].cand \in 0..Peers
    BY Fields DEF Typed, TypeOK, Places
  <1>1. CASE runner[r].cand = 0 /\ UNCHANGED task
             /\ IF runner[r].resuming THEN StartPolling(r, runner[r]) ELSE Goto(r, "open")
    BY <1>1, <1>a, <1>b, Moves
  <1>2. ASSUME runner[r].cand # 0, NEW fallback \in BOOLEAN,
               task' = [task EXCEPT !.status = runner[r].status, !.fallback = fallback],
               IF runner[r].resuming THEN StartPolling(r, task') ELSE Read(r, "open", task')
        PROVE  /\ RunnersTyped /\ Tasked(runner[r].status, task.cand, task.job)
               /\ \/ runner[r].resuming /\ Polls(r, runner[r].status, task.cand)
                  \/ ~runner[r].resuming /\ Reads(r, "open", runner[r].status, task.cand)
    <2>1. Tasked(runner[r].status, task.cand, task.job)
      BY <1>2, <1>b, TaskMoves
    <2>2. task'.status = runner[r].status /\ task'.cand = task.cand
      BY <2>1 DEF Tasked
    <2>3. CASE runner[r].resuming
      BY <1>2, <1>b, <2>1, <2>2, Moves
    <2>4. CASE ~runner[r].resuming
      BY <1>2, <1>b, <2>1, <2>2, Moves
    <2> QED
      BY <2>3, <2>4
  <1>3. \/ runner[r].cand = 0 /\ UNCHANGED task
             /\ IF runner[r].resuming THEN StartPolling(r, runner[r]) ELSE Goto(r, "open")
        \/ /\ runner[r].cand # 0
           /\ \E fallback \in BOOLEAN:
                /\ task' = [task EXCEPT !.status = runner[r].status, !.fallback = fallback]
                /\ IF runner[r].resuming THEN StartPolling(r, task') ELSE Read(r, "open", task')
    BY DEF Prepare
  <1> QED
    BY <1>a, <1>1, <1>2, <1>3

\* A runner is refused.
Refused(r) ==
  Sits(r, "decide", runner[r].status, runner[r].cand, runner[r].attempt, "none", runner[r].next,
       "discard", runner[r].resuming)

\* A runner whose request is refused does.
LEMMA RefusedMoves ==
  ASSUME Typed, NEW r \in Runners,
         runner' = [runner EXCEPT ![r] = [@ EXCEPT !.place = "decide", !.outcome = "none",
                                                   !.disposition = "discard"]]
  PROVE  RunnersTyped /\ Refused(r)
  <1>1. runner[r] \in RunnerStates /\ "decide" \in Places
    BY Fields DEF Places
  <1>2. Shaped([runner[r] EXCEPT !.place = "decide", !.outcome = "none", !.disposition = "discard"],
               "decide", runner[r].status, runner[r].cand, runner[r].attempt, "none",
               runner[r].next, "discard", runner[r].resuming)
    BY ZenonT(30), <1>1, RunnerShapes
  <1>3. runner' = [runner EXCEPT ![r] = [runner[r] EXCEPT !.place = "decide", !.outcome = "none",
                                                          !.disposition = "discard"]]
    OBVIOUS
  <1> QED
    BY ZenonT(30), <1>2, RunnerPlaced DEF RunnersTyped, Refused

\* Open is refused, or opens an attempt with the task's candidate.
LEMMA OpenActs ==
  ASSUME Typed, NEW r \in Runners, Open(r)
  PROVE  /\ runner[r].place = "open" /\ RunnersTyped
         /\ \/ Refused(r) /\ UNCHANGED task
            \/ /\ runner[r].cand # 0 /\ Tasked("downloading", task.cand, task.job)
               /\ Walks(r, "journal")
         /\ UNCHANGED <<attempts, manifest, transfer, tracked, held, landed, faults>>
  <1>a. /\ runner[r].place = "open"
        /\ UNCHANGED <<attempts, manifest, transfer, tracked, held, landed, faults>>
    BY DEF Open, music
  <1>b. task \in Tasks /\ "journal" \in Places /\ "downloading" \in Statuses
    BY DEF Typed, TypeOK, Places, Statuses, Active
  <1>1. CASE /\ runner' = [runner EXCEPT ![r] = [@ EXCEPT !.place = "decide", !.outcome = "none",
                                                          !.disposition = "discard"]]
             /\ UNCHANGED task
    BY <1>1, <1>a, RefusedMoves
  <1>2. CASE runner[r].cand # 0 /\ SetStatus("downloading") /\ Goto(r, "journal")
    BY <1>2, <1>a, <1>b, TaskMoves, Moves
  <1> QED
    BY <1>1, <1>2 DEF Open

\* Journal adds a row for the candidate, which the runner works on.
LEMMA JournalActs ==
  ASSUME Typed, NEW r \in Runners, Journal(r)
  PROVE  /\ runner[r].place = "journal" /\ RunnersTyped
         /\ Sits(r, "send", runner[r].status, runner[r].cand, Len(attempts) + 1, runner[r].outcome,
                 runner[r].next, runner[r].disposition, runner[r].resuming)
         /\ Len(attempts) < MaxAttempts
         /\ attempts' \in Seq(AttemptRows) /\ Len(attempts') = Len(attempts) + 1
         /\ attempts'[Len(attempts) + 1] = [cand |-> runner[r].cand, state |-> "acquiring"]
         /\ \A i \in 1..Len(attempts): attempts'[i] = attempts[i]
         /\ UNCHANGED <<task, manifest, transfer, tracked, held, landed, faults>>
  <1>a. /\ runner[r].place = "journal" /\ Len(attempts) < MaxAttempts
        /\ UNCHANGED <<task, manifest, transfer, tracked, held, landed, faults>>
    BY DEF Journal, music
  <1> DEFINE row == [cand |-> runner[r].cand, state |-> "acquiring"]
  <1>1. row \in AttemptRows /\ attempts \in Seq(AttemptRows) /\ attempts' = Append(attempts, row)
    BY ZenonT(30), Fields DEF AttemptRows, Live, Typed, TypeOK, Journal
  <1> HIDE DEF row
  <1>2. /\ attempts' \in Seq(AttemptRows) /\ Len(attempts') = Len(attempts) + 1
        /\ attempts'[Len(attempts) + 1] = row
        /\ \A i \in 1..Len(attempts): attempts'[i] = attempts[i]
    BY <1>1, RowAdded
  <1>3. runner[r] \in RunnerStates /\ "send" \in Places /\ Len(attempts) + 1 \in 0..MaxAttempts
    BY <1>a, Fields DEF Places
  <1>4. Shaped([runner[r] EXCEPT !.place = "send", !.attempt = Len(attempts) + 1],
               "send", runner[r].status, runner[r].cand, Len(attempts) + 1, runner[r].outcome,
                 runner[r].next, runner[r].disposition, runner[r].resuming)
    BY ZenonT(30), <1>3, RunnerShapes
  <1>5. runner' = [runner EXCEPT ![r] = [runner[r] EXCEPT !.place = "send",
                                                          !.attempt = Len(attempts) + 1]]
    BY DEF Journal
  <1>6. RunnersTyped /\ Sits(r, "send", runner[r].status, runner[r].cand, Len(attempts) + 1,
                 runner[r].outcome, runner[r].next, runner[r].disposition, runner[r].resuming)
    BY <1>4, <1>5, RunnerPlaced DEF RunnersTyped
  <1> QED
    BY <1>a, <1>2, <1>6 DEF row

\* Send makes the manifest name the attempt; the peer may have the request by then.
LEMMA SendActs ==
  ASSUME Typed, NEW r \in Runners, Send(r)
  PROVE  /\ runner[r].place = "send" /\ RunnersTyped
         /\ Walks(r, "handle") \/ Refused(r) \/ Walks(r, "outage")
         /\ manifest' = runner[r].attempt
         /\ transfer' \in [1..Peers -> TransferStates]
         /\ \A c \in 1..Peers:
              transfer'[c] # transfer[c] => c = Peer(runner[r].attempt) /\ transfer'[c] = "queued"
         /\ faults' \in 0..MaxFaults
         /\ UNCHANGED <<task, attempts, tracked, held, landed>>
  <1>a. /\ runner[r].place = "send" /\ manifest' = runner[r].attempt
        /\ UNCHANGED <<task, attempts, tracked, held, landed>>
    BY DEF Send, music, rows
  <1> DEFINE asked == [transfer EXCEPT ![Peer(runner[r].attempt)] =
                         IF @ = "active" THEN @ ELSE "queued"]
             declined == [runner EXCEPT ![r] = [@ EXCEPT !.place = "decide", !.outcome = "none",
                                                         !.disposition = "discard"]]
  <1>1. transfer \in [1..Peers -> TransferStates] /\ "queued" \in TransferStates
    BY DEF Typed, TypeOK, TransferStates
  <1>2. /\ asked \in [1..Peers -> TransferStates]
        /\ \A c \in 1..Peers:
             asked[c] # transfer[c] => c = Peer(runner[r].attempt) /\ asked[c] = "queued"
    BY <1>1
  <1>3. /\ transfer' = transfer \/ transfer' = asked
        /\ Goto(r, "handle") \/ runner' = declined \/ Goto(r, "outage")
        /\ UNCHANGED faults \/ Fault
    <2> HIDE DEF asked, declined
    <2>1. \/ transfer' = asked /\ Goto(r, "handle") /\ UNCHANGED faults
          \/ transfer' = transfer /\ runner' = declined /\ UNCHANGED faults
          \/ transfer' = asked /\ runner' = declined /\ Fault
          \/ transfer' \in {transfer, asked} /\ Goto(r, "outage") /\ Fault
      BY DEF Send, asked, declined
    <2> QED
      BY <2>1
  <1>4. faults' \in 0..MaxFaults
    BY <1>3 DEF Fault, Typed, TypeOK
  <1>5. RunnersTyped /\ (Walks(r, "handle") \/ Refused(r) \/ Walks(r, "outage"))
    <2>1. CASE runner' = declined
      BY <2>1, RefusedMoves
    <2>2. CASE Goto(r, "handle") \/ Goto(r, "outage")
      BY <2>2, Moves DEF Places
    <2> QED
      BY <1>3, <2>1, <2>2
  <1> HIDE DEF asked, declined
  <1>6. /\ transfer' \in [1..Peers -> TransferStates]
        /\ \A c \in 1..Peers:
             transfer'[c] # transfer[c] => c = Peer(runner[r].attempt) /\ transfer'[c] = "queued"
    BY <1>1, <1>2, <1>3
  <1> QED
    BY <1>a, <1>4, <1>5, <1>6

\* Outage ends a cancelled download, and opens another attempt of any other.
LEMMA OutageActs ==
  ASSUME Typed, NEW r \in Runners, Outage(r)
  PROVE  /\ runner[r].place = "outage" /\ RunnersTyped
         /\ \/ Cancelled /\ Ends(r)
            \/ ~Cancelled /\ Walks(r, "open") /\ UNCHANGED tracked
         /\ UNCHANGED <<task, attempts, manifest, transfer, held, landed, faults>>
  <1>1. /\ runner[r].place = "outage" /\ "open" \in Places
        /\ UNCHANGED <<task, attempts, manifest, transfer, held, landed, faults>>
    BY DEF Outage, music, rows, Places
  <1>2. CASE Cancelled
    <2>1. End(r)
      BY <1>2 DEF Outage
    <2> QED
      BY <1>1, <1>2, <2>1, Moves
  <1>3. CASE ~Cancelled
    <2>1. Goto(r, "open") /\ UNCHANGED tracked
      BY <1>3 DEF Outage
    <2> QED
      BY <1>1, <1>3, <2>1, Moves
  <1> QED
    BY <1>2, <1>3

\* Handle polls the transfer of a live row; any other row fails the download.
LEMMA HandleActs ==
  ASSUME Typed, NEW r \in Runners, Handle(r)
  PROVE  /\ runner[r].place = "handle" /\ RunnersTyped
         /\ runner[r].attempt \in 1..Len(attempts)
         /\ \/ /\ attempts[runner[r].attempt].state \in Live
               /\ Walks(r, "poll") /\ manifest' = runner[r].attempt
               /\ attempts'[runner[r].attempt].state = "in_use"
            \/ /\ attempts[runner[r].attempt].state \notin Live
               /\ Walks(r, "fail") /\ UNCHANGED <<attempts, manifest>>
         /\ attempts' \in Seq(AttemptRows) /\ Len(attempts') = Len(attempts)
         /\ \A i \in 1..Len(attempts):
              /\ attempts'[i].cand = attempts[i].cand
              /\ i # runner[r].attempt => attempts'[i] = attempts[i]
         /\ UNCHANGED <<task, transfer, tracked, held, landed, faults>>
  <1>1. /\ runner[r].place = "handle"
        /\ UNCHANGED <<task, transfer, tracked, held, landed, faults>>
    BY DEF Handle, music
  <1>2. runner[r].attempt \in 1..Len(attempts) /\ attempts \in Seq(AttemptRows)
    BY <1>1 DEF Typed, TypeOK, Attempting
  <1>3. CASE attempts[runner[r].attempt].state \in Live
    <2>1. /\ attempts' = [attempts EXCEPT ![runner[r].attempt].state = "in_use"]
          /\ manifest' = runner[r].attempt /\ Goto(r, "poll") /\ "poll" \in Places
      BY <1>3 DEF Handle, Places
    <2>3. RunnersTyped /\ Walks(r, "poll")
      BY <2>1, Moves
    <2>4. /\ attempts' \in Seq(AttemptRows) /\ Len(attempts') = Len(attempts)
          /\ attempts'[runner[r].attempt].state = "in_use"
          /\ attempts'[runner[r].attempt].cand = attempts[runner[r].attempt].cand
          /\ \A j \in 1..Len(attempts): j # runner[r].attempt => attempts'[j] = attempts[j]
      BY <1>2, <2>1, RowWritten DEF Live
    <2> QED
      BY <1>1, <1>2, <1>3, <2>1, <2>3, <2>4
  <1>4. CASE attempts[runner[r].attempt].state \notin Live
    <2>1. Goto(r, "fail") /\ UNCHANGED <<attempts, manifest>> /\ "fail" \in Places
      BY <1>4 DEF Handle, Places
    <2> QED
      BY <1>1, <1>2, <1>4, <2>1, Moves
  <1> QED
    BY <1>3, <1>4

\* A poll stops for a cancelled download, ...
LEMMA PollStopsActs ==
  ASSUME Typed, NEW r \in Runners, PollStops(r)
  PROVE  /\ runner[r].place = "poll" /\ RunnersTyped /\ Cancelled /\ Ends(r)
         /\ UNCHANGED <<task, attempts, manifest, transfer, held, landed, faults>>
  BY Moves DEF PollStops, rows, music

\* ... goes on, ...
LEMMA PollGoesOnActs ==
  ASSUME Typed, NEW r \in Runners, PollGoesOn(r)
  PROVE  /\ runner[r].place = "poll" /\ ~Cancelled /\ Tasked(task.status, task.cand, task.job)
         /\ UNCHANGED <<runner, attempts, manifest, transfer, tracked, held, landed, faults>>
  <1>1. task \in Tasks /\ task' = Polled(Peer(runner[r].attempt))
    BY DEF Typed, TypeOK, PollGoesOn
  <1>2. Tasked(task.status, task.cand, task.job)
    BY <1>1, TaskMoves
  <1> QED
    BY <1>2 DEF PollGoesOn, music

\* ... comes to an end ...
LEMMA PollEndsActs ==
  ASSUME Typed, NEW r \in Runners, PollEnds(r)
  PROVE  /\ runner[r].place = "poll" /\ RunnersTyped /\ ~Cancelled
         /\ Tasked(task.status, task.cand, task.job)
         /\ \E outcome \in {"completed", "terminal", "timeout", "preferred"}:
              /\ outcome = "completed" <=> transfer[Peer(runner[r].attempt)] = "done"
              /\ outcome = "terminal" <=> transfer[Peer(runner[r].attempt)] = "failed"
              /\ Sits(r, "recheck", runner[r].status, runner[r].cand, runner[r].attempt, outcome,
                      runner[r].next, runner[r].disposition, runner[r].resuming)
         /\ UNCHANGED <<attempts, manifest, transfer, tracked, held, landed, faults>>
  <1>1. task \in Tasks /\ task' = Polled(Peer(runner[r].attempt))
    BY DEF Typed, TypeOK, PollEnds
  <1>2. Tasked(task.status, task.cand, task.job)
    BY <1>1, TaskMoves
  <1>3. PICK outcome \in {"completed", "terminal", "timeout", "preferred"}:
          /\ outcome = "completed" <=> transfer[Peer(runner[r].attempt)] = "done"
          /\ outcome = "terminal" <=> transfer[Peer(runner[r].attempt)] = "failed"
          /\ runner' = [runner EXCEPT ![r] = [@ EXCEPT !.place = "recheck", !.outcome = outcome]]
    BY ZenonT(30) DEF PollEnds
  <1>4. /\ runner[r] \in RunnerStates /\ "recheck" \in Places
        /\ outcome \in {"none", "completed", "terminal", "timeout", "preferred"}
    BY Fields DEF Places
  <1>5. Shaped([runner[r] EXCEPT !.place = "recheck", !.outcome = outcome],
               "recheck", runner[r].status, runner[r].cand, runner[r].attempt, outcome,
               runner[r].next, runner[r].disposition, runner[r].resuming)
    BY ZenonT(30), <1>4, RunnerShapes
  <1>6. runner' = [runner EXCEPT ![r] = [runner[r] EXCEPT !.place = "recheck", !.outcome = outcome]]
    BY <1>3
  <1>7. RunnersTyped /\ Sits(r, "recheck", runner[r].status, runner[r].cand, runner[r].attempt,
                             outcome, runner[r].next, runner[r].disposition, runner[r].resuming)
    BY <1>5, <1>6, RunnerPlaced DEF RunnersTyped
  <1> QED
    BY <1>2, <1>3, <1>7 DEF PollEnds, music

\* ... or fails the download.
LEMMA PollBreaksActs ==
  ASSUME Typed, NEW r \in Runners, PollBreaks(r)
  PROVE  /\ runner[r].place = "poll" /\ RunnersTyped /\ Walks(r, "fail") /\ faults' \in 0..MaxFaults
         /\ UNCHANGED <<task, attempts, manifest, transfer, tracked, held, landed>>
  <1>1. runner[r].place = "poll" /\ Goto(r, "fail") /\ Fault
        /\ UNCHANGED <<task, attempts, manifest, transfer, tracked, held, landed>>
    BY DEF PollBreaks, rows, music
  <1>2. faults' \in 0..MaxFaults
    BY <1>1 DEF Fault, Typed, TypeOK
  <1> QED
    BY <1>1, <1>2, Moves DEF Places

\* Recheck ends a cancelled download; a preferred quality that did not start is another
\* thing than a transfer that has come to an end.
LEMMA RecheckActs ==
  ASSUME Typed, NEW r \in Runners, Recheck(r)
  PROVE  /\ runner[r].place = "recheck" /\ RunnersTyped
         /\ \/ Cancelled /\ Ends(r)
            \/ /\ ~Cancelled /\ runner[r].outcome = "preferred"
               /\ Walks(r, "prefer") /\ UNCHANGED tracked
            \/ /\ ~Cancelled /\ runner[r].outcome # "preferred"
               /\ Walks(r, "process") /\ UNCHANGED tracked
         /\ UNCHANGED <<task, attempts, manifest, transfer, held, landed, faults>>
  <1>1. /\ runner[r].place = "recheck" /\ "prefer" \in Places /\ "process" \in Places
        /\ UNCHANGED <<task, attempts, manifest, transfer, held, landed, faults>>
    BY DEF Recheck, music, rows, Places
  <1>2. CASE Cancelled
    <2>1. End(r)
      BY <1>2 DEF Recheck
    <2> QED
      BY <1>1, <1>2, <2>1, Moves
  <1>3. CASE ~Cancelled /\ runner[r].outcome = "preferred"
    <2>1. Goto(r, "prefer") /\ UNCHANGED tracked
      BY <1>3 DEF Recheck
    <2> QED
      BY <1>1, <1>3, <2>1, Moves
  <1>4. CASE ~Cancelled /\ runner[r].outcome # "preferred"
    <2>1. Goto(r, "process") /\ UNCHANGED tracked
      BY SMTT(30), <1>4 DEF Recheck
    <2> QED
      BY <1>1, <1>4, <2>1, Moves
  <1> QED
    BY <1>2, <1>3, <1>4

\* The two writes of a runner that chooses another candidate.
LEMMA SwitchMoves ==
  ASSUME Typed, NEW r \in Runners, NEW n \in 0..Peers
  PROVE  /\ runner' = [runner EXCEPT ![r] = [@ EXCEPT !.place = "abort", !.next = n,
                                                      !.disposition = "discard"]]
              => /\ RunnersTyped
                 /\ Sits(r, "abort", runner[r].status, runner[r].cand, runner[r].attempt,
                         runner[r].outcome, n, "discard", runner[r].resuming)
         /\ \A place \in Places:
              runner' = [runner EXCEPT ![r] = [@ EXCEPT !.next = n, !.place = place]]
              => /\ RunnersTyped
                 /\ Sits(r, place, runner[r].status, runner[r].cand, runner[r].attempt,
                         runner[r].outcome, n, runner[r].disposition, runner[r].resuming)
  <1>a. runner[r] \in RunnerStates /\ "abort" \in Places
    BY Fields DEF Places
  <1>1. ASSUME runner' = [runner EXCEPT ![r] = [@ EXCEPT !.place = "abort", !.next = n,
                                                         !.disposition = "discard"]]
        PROVE  /\ RunnersTyped
               /\ Sits(r, "abort", runner[r].status, runner[r].cand, runner[r].attempt,
                       runner[r].outcome, n, "discard", runner[r].resuming)
    <2>1. Shaped([runner[r] EXCEPT !.place = "abort", !.next = n, !.disposition = "discard"],
                 "abort", runner[r].status, runner[r].cand, runner[r].attempt, runner[r].outcome,
                 n, "discard", runner[r].resuming)
      BY ZenonT(30), <1>a, RunnerShapes
    <2>2. runner' = [runner EXCEPT ![r] = [runner[r] EXCEPT !.place = "abort", !.next = n,
                                                            !.disposition = "discard"]]
      BY <1>1
    <2> QED
      BY ZenonT(30), <2>1, <2>2, RunnerPlaced DEF RunnersTyped
  <1>2. ASSUME NEW place \in Places,
               runner' = [runner EXCEPT ![r] = [@ EXCEPT !.next = n, !.place = place]]
        PROVE  /\ RunnersTyped
               /\ Sits(r, place, runner[r].status, runner[r].cand, runner[r].attempt,
                       runner[r].outcome, n, runner[r].disposition, runner[r].resuming)
    <2>1. Shaped([runner[r] EXCEPT !.next = n, !.place = place],
                 place, runner[r].status, runner[r].cand, runner[r].attempt, runner[r].outcome,
                 n, runner[r].disposition, runner[r].resuming)
      BY ZenonT(30), <1>a, RunnerShapes
    <2>2. runner' = [runner EXCEPT ![r] = [runner[r] EXCEPT !.next = n, !.place = place]]
      BY SMTT(30), <1>2
    <2> QED
      BY ZenonT(30), <2>1, <2>2, RunnerPlaced DEF RunnersTyped
  <1> QED
    BY <1>1, <1>2

\* Prefer goes on with the candidate, or leaves it within the failover limit.
LEMMA PreferActs ==
  ASSUME Typed, NEW r \in Runners, Prefer(r)
  PROVE  /\ runner[r].place = "prefer" /\ RunnersTyped
         /\ \/ Tasked("downloading", task.cand, task.job) /\ Polls(r, "downloading", task.cand)
            \/ MaySwitch /\ manifest = 0 /\ Walks(r, "fail") /\ UNCHANGED task
            \/ /\ MaySwitch /\ manifest # 0
               /\ Tasked(task.status, task.cand, task.job) /\ Polls(r, task.status, task.cand)
            \/ /\ MaySwitch /\ manifest # 0 /\ UNCHANGED task
               /\ transfer[Peer(manifest)] \notin {"active", "done", "failed"}
               /\ \E n \in Behind(runner[r].cand):
                    Sits(r, "abort", runner[r].status, runner[r].cand, runner[r].attempt,
                         runner[r].outcome, n, "discard", runner[r].resuming)
         /\ UNCHANGED <<attempts, manifest, transfer, tracked, held, landed, faults>>
  <1>a. /\ runner[r].place = "prefer" /\ task \in Tasks /\ "fail" \in Places
        /\ "downloading" \in Statuses /\ task.cand \in 0..Peers /\ task.status \in Statuses
        /\ UNCHANGED <<attempts, manifest, transfer, tracked, held, landed, faults>>
    BY Fields DEF Prefer, music, Typed, TypeOK, Statuses, Active, Places
  <1>1. CASE task' = [task EXCEPT !.status = "downloading", !.fallback = FALSE]
             /\ StartPolling(r, task')
    <2>1. Tasked("downloading", task.cand, task.job)
      BY <1>1, <1>a, TaskMoves
    <2>2. RunnersTyped /\ Polls(r, "downloading", task.cand)
      BY <1>1, <1>a, <2>1, Moves DEF Tasked
    <2> QED
      BY <1>a, <2>1, <2>2
  <1>2. CASE MaySwitch /\ manifest = 0 /\ Goto(r, "fail") /\ UNCHANGED task
    BY <1>2, <1>a, Moves
  <1>3. ASSUME MaySwitch, manifest # 0, task' = Polled(Peer(manifest)), StartPolling(r, task')
        PROVE  /\ RunnersTyped /\ Tasked(task.status, task.cand, task.job)
               /\ Polls(r, task.status, task.cand)
    <2>1. Tasked(task.status, task.cand, task.job)
      BY <1>3, <1>a, TaskMoves
    <2> QED
      BY <1>3, <1>a, <2>1, Moves DEF Tasked
  <1>4. ASSUME NEW n \in Behind(runner[r].cand),
               runner' = [runner EXCEPT ![r] = [@ EXCEPT
                            !.place = "abort", !.next = n, !.disposition = "discard"]]
        PROVE  /\ RunnersTyped
               /\ Sits(r, "abort", runner[r].status, runner[r].cand, runner[r].attempt,
                       runner[r].outcome, n, "discard", runner[r].resuming)
    <2>1. n \in 0..Peers
      BY DEF Behind
    <2> QED
      BY <1>4, <2>1, SwitchMoves
  <1>5. \/ task' = [task EXCEPT !.status = "downloading", !.fallback = FALSE] /\ StartPolling(r, task')
        \/ MaySwitch /\ manifest = 0 /\ Goto(r, "fail") /\ UNCHANGED task
        \/ MaySwitch /\ manifest # 0 /\ task' = Polled(Peer(manifest)) /\ StartPolling(r, task')
        \/ /\ MaySwitch /\ manifest # 0 /\ UNCHANGED task
           /\ transfer[Peer(manifest)] \notin {"active", "done", "failed"}
           /\ \E n \in Behind(runner[r].cand):
                runner' = [runner EXCEPT ![r] = [@ EXCEPT
                            !.place = "abort", !.next = n, !.disposition = "discard"]]
    BY DEF Prefer
  <1>6. CASE /\ MaySwitch /\ manifest # 0 /\ UNCHANGED task
             /\ transfer[Peer(manifest)] \notin {"active", "done", "failed"}
             /\ \E n \in Behind(runner[r].cand):
                runner' = [runner EXCEPT ![r] = [@ EXCEPT
                            !.place = "abort", !.next = n, !.disposition = "discard"]]
    BY <1>a, <1>4, <1>6
  <1>7. CASE MaySwitch /\ manifest # 0 /\ task' = Polled(Peer(manifest)) /\ StartPolling(r, task')
    BY <1>a, <1>3, <1>7
  <1> QED
    BY <1>1, <1>2, <1>5, <1>6, <1>7

\* Process makes the task one that is being processed.
LEMMA ProcessActs ==
  ASSUME Typed, NEW r \in Runners, Process(r)
  PROVE  /\ runner[r].place = "process" /\ RunnersTyped /\ Walks(r, "import")
         /\ Tasked("processing", task.cand, task.job)
         /\ UNCHANGED <<attempts, manifest, transfer, tracked, held, landed, faults>>
  <1>1. /\ task \in Tasks /\ "processing" \in Statuses /\ "import" \in Places
        /\ SetStatus("processing") /\ Goto(r, "import")
    BY DEF Process, Typed, TypeOK, Statuses, Active, Places
  <1>2. Tasked("processing", task.cand, task.job) /\ RunnersTyped /\ Walks(r, "import")
    BY <1>1, TaskMoves, Moves
  <1> QED
    BY <1>2 DEF Process, music

\* Import concludes, or leaves the decision open.
LEMMA ImportActs ==
  ASSUME Typed, NEW r \in Runners, Import(r)
  PROVE  /\ runner[r].place = "import" /\ RunnersTyped
         /\ \/ Walks(r, "fail")
            \/ \E disposition \in {"discard", "preserve"}:
                 \/ Finishes(r, disposition)
                 \/ Sits(r, "decide", runner[r].status, runner[r].cand, runner[r].attempt,
                         runner[r].outcome, runner[r].next, disposition, runner[r].resuming)
         /\ held' \in BOOLEAN /\ landed' \in BOOLEAN /\ (landed => landed')
         /\ UNCHANGED <<task, attempts, manifest, transfer, tracked, faults>>
  <1>a. /\ runner[r].place = "import" /\ "fail" \in Places /\ "decide" \in Places
        /\ "completed" \in Verdicts /\ "failed" \in Verdicts /\ runner[r] \in RunnerStates
        /\ UNCHANGED <<task, attempts, manifest, transfer, tracked, faults>>
    BY Fields DEF Import, rows, Places, Verdicts
  <1>b. held' \in BOOLEAN /\ landed' \in BOOLEAN /\ (landed => landed')
    <2>1. held \in BOOLEAN /\ landed \in BOOLEAN
      BY DEF Typed, TypeOK
    <2>2. \/ UNCHANGED music
          \/ landed' = TRUE /\ UNCHANGED held
          \/ held' \in {held, TRUE} /\ UNCHANGED landed
      BY DEF Import
    <2> QED
      BY <2>1, <2>2, Zenon DEF music
  <1>1. \/ Goto(r, "fail")
        \/ \E disposition \in {"discard", "preserve"}:
             \/ Concludes(r, "completed", disposition) \/ Concludes(r, "failed", disposition)
             \/ runner' = [runner EXCEPT ![r] = [@ EXCEPT !.place = "decide",
                                                          !.disposition = disposition]]
    BY DEF Import
  <1>2. ASSUME NEW disposition \in {"discard", "preserve"},
               runner' = [runner EXCEPT ![r] = [@ EXCEPT !.place = "decide",
                                                         !.disposition = disposition]]
        PROVE  RunnersTyped
               /\ Sits(r, "decide", runner[r].status, runner[r].cand, runner[r].attempt,
                       runner[r].outcome, runner[r].next, disposition, runner[r].resuming)
    <2>1. Shaped([runner[r] EXCEPT !.place = "decide", !.disposition = disposition],
                 "decide", runner[r].status, runner[r].cand, runner[r].attempt,
                 runner[r].outcome, runner[r].next, disposition, runner[r].resuming)
      BY ZenonT(60), <1>a, RunnerShapes
    <2>2. runner' = [runner EXCEPT ![r] = [runner[r] EXCEPT !.place = "decide",
                                                            !.disposition = disposition]]
      BY <1>2
    <2> QED
      BY ZenonT(30), <2>1, <2>2, RunnerPlaced DEF RunnersTyped
  <1>3. ASSUME NEW disposition \in {"discard", "preserve"},
               Concludes(r, "completed", disposition) \/ Concludes(r, "failed", disposition)
        PROVE  RunnersTyped /\ Finishes(r, disposition)
    BY <1>3, <1>a, Moves
  <1>4. CASE Goto(r, "fail")
    BY <1>a, <1>b, <1>4, Moves
  <1> QED
    BY <1>a, <1>b, <1>1, <1>2, <1>3, <1>4

\* Decide concludes, or leaves the candidate within the failover limit.
LEMMA DecideActs ==
  ASSUME Typed, NEW r \in Runners, Decide(r)
  PROVE  /\ runner[r].place = "decide" /\ RunnersTyped
         /\ \/ landed /\ Finishes(r, "leave")
            \/ ~landed /\ Finishes(r, runner[r].disposition)
            \/ /\ ~landed /\ MaySwitch
               /\ \E n \in Behind(runner[r].cand):
                    Sits(r, IF runner[r].outcome = "timeout" THEN "abort" ELSE "schedule",
                         runner[r].status, runner[r].cand, runner[r].attempt, runner[r].outcome,
                         n, runner[r].disposition, runner[r].resuming)
         /\ UNCHANGED <<task, attempts, manifest, transfer, tracked, held, landed, faults>>
  <1> DEFINE place == IF runner[r].outcome = "timeout" THEN "abort" ELSE "schedule"
  <1>a. /\ runner[r].place = "decide" /\ place \in Places
        /\ "completed" \in Verdicts /\ "failed" \in Verdicts /\ "partial" \in Verdicts
        /\ runner[r].disposition \in {"discard", "preserve", "leave"}
        /\ UNCHANGED <<task, attempts, manifest, transfer, tracked, held, landed, faults>>
    BY Fields DEF Decide, rows, music, Places, Verdicts
  <1>1. \/ landed /\ Concludes(r, "completed", "leave")
        \/ /\ ~landed
           /\ \E verdict \in {"failed", "partial"}: Concludes(r, verdict, runner[r].disposition)
        \/ /\ ~landed /\ MaySwitch
           /\ \E n \in Behind(runner[r].cand):
                runner' = [runner EXCEPT ![r] = [@ EXCEPT !.next = n, !.place = place]]
    BY DEF Decide
  <1> HIDE DEF place
  <1>2. ASSUME NEW n \in Behind(runner[r].cand),
               runner' = [runner EXCEPT ![r] = [@ EXCEPT !.next = n, !.place = place]]
        PROVE  RunnersTyped
               /\ Sits(r, place, runner[r].status, runner[r].cand, runner[r].attempt,
                       runner[r].outcome, n, runner[r].disposition, runner[r].resuming)
    <2>1. n \in 0..Peers
      BY DEF Behind
    <2> QED
      BY <1>2, <1>a, <2>1, SwitchMoves
  <1>3. CASE landed /\ Concludes(r, "completed", "leave")
    BY <1>3, <1>a, Moves
  <1>4. CASE /\ ~landed
             /\ \E verdict \in {"failed", "partial"}: Concludes(r, verdict, runner[r].disposition)
    BY <1>4, <1>a, Moves
  <1>5. CASE /\ ~landed /\ MaySwitch
             /\ \E n \in Behind(runner[r].cand):
                  runner' = [runner EXCEPT ![r] = [@ EXCEPT !.next = n, !.place = place]]
    BY <1>5, <1>a, <1>2 DEF place
  <1> QED
    BY <1>1, <1>3, <1>4, <1>5

\* Abort ends the transfer of the manifest, or fails, or ends for a cancelled download.
LEMMA AbortActs ==
  ASSUME Typed, NEW r \in Runners, Abort(r)
  PROVE  /\ runner[r].place = "abort" /\ RunnersTyped
         /\ \/ Walks(r, "fail") /\ UNCHANGED <<transfer, tracked>>
            \/ /\ manifest # 0 /\ Walks(r, "schedule") /\ UNCHANGED tracked
               /\ transfer' = [transfer EXCEPT ![Peer(manifest)] = "none"]
            \/ Cancelled /\ Ends(r) /\ UNCHANGED transfer
         /\ transfer' \in [1..Peers -> TransferStates]
         /\ faults' \in 0..MaxFaults
         /\ UNCHANGED <<task, attempts, manifest, held, landed>>
  <1>a. /\ runner[r].place = "abort" /\ "fail" \in Places /\ "schedule" \in Places
        /\ UNCHANGED <<task, attempts, manifest, held, landed>>
        /\ transfer \in [1..Peers -> TransferStates] /\ "none" \in TransferStates
    BY DEF Abort, rows, music, Places, Typed, TypeOK, TransferStates
  <1>1. \/ Goto(r, "fail") /\ UNCHANGED <<transfer, tracked>>
        \/ /\ manifest # 0 /\ AbortOf(Peer(manifest)) /\ Goto(r, "schedule") /\ UNCHANGED tracked
        \/ Cancelled /\ End(r) /\ UNCHANGED transfer
    BY DEF Abort
  <1>2. faults' \in 0..MaxFaults
    <2>1. UNCHANGED faults \/ Fault
      BY DEF Abort
    <2> QED
      BY <2>1 DEF Fault, Typed, TypeOK
  <1>3. CASE Goto(r, "fail") /\ UNCHANGED <<transfer, tracked>>
    BY <1>3, <1>a, <1>2, Moves
  <1>4. CASE manifest # 0 /\ AbortOf(Peer(manifest)) /\ Goto(r, "schedule") /\ UNCHANGED tracked
    BY <1>4, <1>a, <1>2, Moves DEF AbortOf
  <1>5. CASE Cancelled /\ End(r) /\ UNCHANGED transfer
    BY <1>5, <1>a, <1>2, Moves
  <1> QED
    BY <1>1, <1>3, <1>4, <1>5

\* Schedule gives the row of the manifest away, without one the newest live row.
LEMMA ScheduleStepActs ==
  ASSUME Typed, NEW r \in Runners, Schedule(r)
  PROVE  /\ runner[r].place = "schedule" /\ RunnersTyped /\ Walks(r, "link")
         /\ ScheduleRow(ManifestRow, runner[r].disposition) /\ ManifestRow \in 0..Len(attempts)
         /\ UNCHANGED <<task, manifest, transfer, tracked, held, landed, faults>>
  <1>1. ManifestRow \in 0..Len(attempts) /\ "link" \in Places
    BY RowsFound DEF Typed, TypeOK, Places
  <1> QED
    BY <1>1, Moves DEF Schedule, music

\* Link links the candidate that was chosen, whose number is not 0.
LEMMA LinkActs ==
  ASSUME Typed, NEW r \in Runners, Link(r)
  PROVE  /\ runner[r].place = "link" /\ RunnersTyped
         /\ Tasked(task.status, runner[r].next, TRUE)
         /\ Reads(r, "reset", task.status, runner[r].next)
         /\ UNCHANGED <<attempts, manifest, transfer, tracked, held, landed, faults>>
  <1>1. /\ runner[r].next \in 0..Peers /\ task \in Tasks /\ task.status \in Statuses
        /\ "reset" \in Places
    BY Fields DEF Typed, TypeOK, Places
  <1>2. Tasked(task.status, runner[r].next, TRUE)
    BY <1>1, TaskMoves DEF Link
  <1>3. Read(r, "reset", task')
    BY DEF Link
  <1>4. RunnersTyped /\ Reads(r, "reset", task.status, runner[r].next)
    BY <1>1, <1>2, <1>3, Moves DEF Tasked
  <1> QED
    BY <1>2, <1>4 DEF Link, music

\* Reset makes the task as good as new.
LEMMA ResetActs ==
  ASSUME Typed, NEW r \in Runners, Reset(r)
  PROVE  /\ runner[r].place = "reset" /\ RunnersTyped
         /\ Tasked("queued", task.cand, task.job) /\ Reads(r, "open", "queued", task.cand)
         /\ UNCHANGED <<attempts, manifest, transfer, tracked, held, landed, faults>>
  <1>1. /\ task.cand \in 0..Peers /\ task \in Tasks /\ "queued" \in Statuses
        /\ "open" \in Places
    BY Fields DEF Typed, TypeOK, Places, Statuses, Active
  <1>2. Tasked("queued", task.cand, task.job)
    <2>1. \E fallback \in BOOLEAN: task' = FreshTask(fallback)
      BY DEF Reset
    <2> QED
      BY <1>1, <2>1, TaskMoves
  <1>3. Read(r, "open", task')
    BY DEF Reset
  <1>4. RunnersTyped /\ Reads(r, "open", "queued", task.cand)
    BY <1>1, <1>2, <1>3, Moves DEF Tasked
  <1> QED
    BY <1>2, <1>4 DEF Reset, music

\* Finalize writes the verdict, and schedules the row of the manifest or the candidate.
FinalRow(r) == IF manifest # 0 THEN manifest ELSE RowOf(runner[r].cand)

\* Finalize writes the verdict and schedules that row.
LEMMA FinalizeActs ==
  ASSUME Typed, NEW r \in Runners, Finalize(r)
  PROVE  /\ runner[r].place = "finalize" /\ RunnersTyped /\ Walks(r, "tidy")
         /\ Tasked(runner[r].verdict, task.cand, task.job)
         /\ ScheduleRow(FinalRow(r), runner[r].disposition) /\ FinalRow(r) \in 0..Len(attempts)
         /\ UNCHANGED <<manifest, transfer, tracked, held, landed, faults>>
  <1>1. FinalRow(r) \in 0..Len(attempts)
    BY RowsFound DEF FinalRow, Typed, TypeOK
  <1>2. "tidy" \in Places /\ task \in Tasks /\ runner[r].verdict \in Statuses
    BY Fields DEF Places, Typed, TypeOK, Verdicts, Statuses, Terminal
  <1>3. Tasked(runner[r].verdict, task.cand, task.job)
    BY <1>2, TaskMoves DEF Finalize
  <1>4. RunnersTyped /\ Walks(r, "tidy")
    BY <1>2, Moves DEF Finalize
  <1> QED
    BY <1>1, <1>3, <1>4 DEF Finalize, music, FinalRow

\* Tidy removes the manifest and ends.
LEMMA TidyActs ==
  ASSUME Typed, NEW r \in Runners, Tidy(r)
  PROVE  /\ runner[r].place = "tidy" /\ RunnersTyped /\ Ends(r) /\ manifest' = 0
         /\ UNCHANGED <<task, attempts, transfer, held, landed, faults>>
  BY Moves DEF Tidy, rows, music

\* A failed task keeps the bytes of its newest live row.
LEMMA FailTaskActs ==
  ASSUME Typed, FailTask
  PROVE  /\ Tasked("failed", task.cand, task.job) /\ attempts' \in Seq(AttemptRows)
         /\ Len(attempts') = Len(attempts)
         /\ \A i \in 1..Len(attempts):
              /\ attempts'[i].cand = attempts[i].cand
              /\ \/ attempts'[i] = attempts[i]
                 \/ attempts[i].state \in Live /\ attempts'[i].state = "preserve"
  <1>1. /\ attempts \in Seq(AttemptRows) /\ task \in Tasks /\ "failed" \in Statuses
        /\ LiveRow \in 0..Len(attempts) /\ (LiveRow # 0 => attempts[LiveRow].state \in Live)
    BY RowsFound DEF Typed, TypeOK, Statuses, Terminal
  <1>2. Tasked("failed", task.cand, task.job)
    BY <1>1, TaskMoves DEF FailTask
  <1>3. /\ attempts' \in Seq(AttemptRows) /\ Len(attempts') = Len(attempts)
        /\ \A j \in 1..Len(attempts):
              /\ attempts'[j].cand = attempts[j].cand
              /\ j # LiveRow \/ attempts[j].state = "settled" => attempts'[j] = attempts[j]
              /\ j = LiveRow /\ attempts[j].state # "settled" => attempts'[j].state = "preserve"
    <2>1. ScheduleRow(LiveRow, "preserve")
      BY DEF FailTask
    <2> QED
      BY <1>1, <2>1, ScheduleActs
  <1> QED
    BY <1>1, <1>2, <1>3

\* Fail does that, and ends.
LEMMA FailActs ==
  ASSUME Typed, NEW r \in Runners, Fail(r)
  PROVE  /\ runner[r].place = "fail" /\ RunnersTyped /\ Ends(r)
         /\ Tasked("failed", task.cand, task.job) /\ attempts' \in Seq(AttemptRows)
         /\ Len(attempts') = Len(attempts)
         /\ \A i \in 1..Len(attempts):
              /\ attempts'[i].cand = attempts[i].cand
              /\ \/ attempts'[i] = attempts[i]
                 \/ attempts[i].state \in Live /\ attempts'[i].state = "preserve"
         /\ UNCHANGED <<manifest, transfer, held, landed, faults>>
  <1>1. FailTask /\ End(r) /\ runner[r].place = "fail"
        /\ UNCHANGED <<manifest, transfer, held, landed, faults>>
    BY DEF Fail, music
  <1>2. RunnersTyped /\ Ends(r)
    BY <1>1, Moves
  <1> QED
    BY <1>1, <1>2, FailTaskActs
-----------------------------------------------------------------------------
(* What the steps of a request do.                                          *)

\* Where a request can be.
OpPlaces ==
  {"idle", "cancel", "cancel_tidy", "next_look", "next_stop", "next_verify", "next_abort",
   "next_schedule", "next_link", "next_dispatch", "reimport", "reimport_start",
   "reimport_import", "settle", "retry", "pick", "done"}

\* A request goes to another place.
Steps(k, place) == Stands(k, place, op[k].status, op[k].cand, op[k].next, op[k].attempt)
\* It ends.
Done(k) == Stands(k, "done", "queued", 0, 0, 0)
\* A runner begins, and is tracked.
Begins(r, place) ==
  /\ RunnersTyped /\ ~IsLive(r) /\ tracked' = r
  /\ Sits(r, place, "queued", 0, 0, "none", 0, "discard", FALSE)
\* The tracked runner is stopped, and maybe others are.
Stops ==
  /\ RunnersTyped /\ tracked' = NoRunner
  /\ \A q \in Runners: runner'[q] \in {runner[q], Off} /\ (q = tracked => runner'[q] = Off)

\* The ways in which requests move.
LEMMA RequestMoves ==
  ASSUME Typed, NEW k \in Callers
  PROVE  /\ \A place \in OpPlaces: OpGoto(k, place) => Steps(k, place)
         /\ OpEnds(k) => Done(k)
         /\ Releases(k) => Done(k) /\ lock' = NoCaller
  <1>1. ASSUME NEW place \in OpPlaces, OpGoto(k, place) PROVE Steps(k, place)
    <2>1. [op[k] EXCEPT !.place = place] \in OpStates
      BY SMTT(30), Fields DEF OpStates, OpPlaces
    <2> QED
      BY <1>1, <2>1, OpMoves DEF Steps
  <1>2. OpEnds(k) => Done(k)
    BY OpMoves DEF Done
  <1> QED
    BY <1>1, <1>2 DEF Releases

\* A request that begins, with what it has read.
LEMMA RequestBegins ==
  ASSUME Typed, NEW k \in Callers, NEW place \in OpPlaces
  PROVE  /\ \A cand \in 0..Peers, attempt \in 0..MaxAttempts:
              op' = [op EXCEPT ![k] = [NoOp EXCEPT !.place = place, !.cand = cand, !.attempt = attempt]]
              => Stands(k, place, "queued", cand, 0, attempt)
         /\ \A cand \in 0..Peers:
              op' = [op EXCEPT ![k] = [NoOp EXCEPT !.place = place, !.cand = cand]]
              => Stands(k, place, "queued", cand, 0, 0)
         /\ \A status \in Statuses:
              op' = [op EXCEPT ![k] = [NoOp EXCEPT !.place = place, !.status = status]]
              => Stands(k, place, status, 0, 0, 0)
         /\ \A attempt \in 0..MaxAttempts:
              op' = [op EXCEPT ![k] = [@ EXCEPT !.place = place, !.attempt = attempt]]
              => Stands(k, place, op[k].status, op[k].cand, op[k].next, attempt)
         /\ \A next \in 0..Peers:
              op' = [op EXCEPT ![k] = [@ EXCEPT !.place = place, !.next = next]]
              => Stands(k, place, op[k].status, op[k].cand, next, op[k].attempt)
  <1>a. NoOp \in OpStates /\ op[k] \in OpStates /\ op \in [Callers -> OpStates]
    BY DEF NoOp, OpStates, Statuses, Active, Typed, TypeOK
  <1>b. NoOp.status = "queued" /\ NoOp.cand = 0 /\ NoOp.next = 0 /\ NoOp.attempt = 0
    BY DEF NoOp
  <1>c. ASSUME NEW b \in OpStates, NEW status, NEW cand, NEW next, NEW attempt, b.place = place,
               b.status = status, b.cand = cand, b.next = next, b.attempt = attempt,
               op' = [op EXCEPT ![k] = b]
        PROVE  Stands(k, place, status, cand, next, attempt)
    BY <1>a, <1>c DEF Stands
  <1>1. ASSUME NEW a \in OpStates, NEW cand \in 0..Peers, NEW attempt \in 0..MaxAttempts,
               op' = [op EXCEPT ![k] = [a EXCEPT !.place = place, !.cand = cand, !.attempt = attempt]]
        PROVE  Stands(k, place, a.status, cand, a.next, attempt)
    <2> DEFINE b == [a EXCEPT !.place = place, !.cand = cand, !.attempt = attempt]
    <2>1. /\ b \in OpStates /\ b.place = place /\ b.status = a.status /\ b.cand = cand
          /\ b.next = a.next /\ b.attempt = attempt
      BY DEF OpStates, OpPlaces
    <2>2. op' = [op EXCEPT ![k] = b]
      BY <1>1
    <2> HIDE DEF b
    <2> QED
      BY <1>c, <2>1, <2>2
  <1>2. ASSUME NEW a \in OpStates, NEW cand \in 0..Peers,
               op' = [op EXCEPT ![k] = [a EXCEPT !.place = place, !.cand = cand]]
        PROVE  Stands(k, place, a.status, cand, a.next, a.attempt)
    <2> DEFINE b == [a EXCEPT !.place = place, !.cand = cand]
    <2>1. /\ b \in OpStates /\ b.place = place /\ b.status = a.status /\ b.cand = cand
          /\ b.next = a.next /\ b.attempt = a.attempt
      BY DEF OpStates, OpPlaces
    <2>2. op' = [op EXCEPT ![k] = b]
      BY <1>2
    <2> HIDE DEF b
    <2> QED
      BY <1>c, <2>1, <2>2
  <1>3. ASSUME NEW a \in OpStates, NEW status \in Statuses,
               op' = [op EXCEPT ![k] = [a EXCEPT !.place = place, !.status = status]]
        PROVE  Stands(k, place, status, a.cand, a.next, a.attempt)
    <2> DEFINE b == [a EXCEPT !.place = place, !.status = status]
    <2>1. /\ b \in OpStates /\ b.place = place /\ b.status = status /\ b.cand = a.cand
          /\ b.next = a.next /\ b.attempt = a.attempt
      BY DEF OpStates, OpPlaces
    <2>2. op' = [op EXCEPT ![k] = b]
      BY <1>3
    <2> HIDE DEF b
    <2> QED
      BY <1>c, <2>1, <2>2
  <1>4. ASSUME NEW a \in OpStates, NEW attempt \in 0..MaxAttempts,
               op' = [op EXCEPT ![k] = [a EXCEPT !.place = place, !.attempt = attempt]]
        PROVE  Stands(k, place, a.status, a.cand, a.next, attempt)
    <2> DEFINE b == [a EXCEPT !.place = place, !.attempt = attempt]
    <2>1. /\ b \in OpStates /\ b.place = place /\ b.status = a.status /\ b.cand = a.cand
          /\ b.next = a.next /\ b.attempt = attempt
      BY DEF OpStates, OpPlaces
    <2>2. op' = [op EXCEPT ![k] = b]
      BY <1>4
    <2> HIDE DEF b
    <2> QED
      BY <1>c, <2>1, <2>2
  <1>5. ASSUME NEW a \in OpStates, NEW next \in 0..Peers,
               op' = [op EXCEPT ![k] = [a EXCEPT !.place = place, !.next = next]]
        PROVE  Stands(k, place, a.status, a.cand, next, a.attempt)
    <2> DEFINE b == [a EXCEPT !.place = place, !.next = next]
    <2>1. /\ b \in OpStates /\ b.place = place /\ b.status = a.status /\ b.cand = a.cand
          /\ b.next = next /\ b.attempt = a.attempt
      BY DEF OpStates, OpPlaces
    <2>2. op' = [op EXCEPT ![k] = b]
      BY <1>5
    <2> HIDE DEF b
    <2> QED
      BY <1>c, <2>1, <2>2
  <1>6. ASSUME NEW cand \in 0..Peers, NEW attempt \in 0..MaxAttempts,
               op' = [op EXCEPT ![k] = [NoOp EXCEPT !.place = place, !.cand = cand,
                 !.attempt = attempt]]
        PROVE  Stands(k, place, "queued", cand, 0, attempt)
    BY <1>a, <1>b, <1>1, <1>6
  <1>7. ASSUME NEW cand \in 0..Peers,
               op' = [op EXCEPT ![k] = [NoOp EXCEPT !.place = place, !.cand = cand]]
        PROVE  Stands(k, place, "queued", cand, 0, 0)
    BY <1>a, <1>b, <1>2, <1>7
  <1>8. ASSUME NEW status \in Statuses,
               op' = [op EXCEPT ![k] = [NoOp EXCEPT !.place = place, !.status = status]]
        PROVE  Stands(k, place, status, 0, 0, 0)
    BY <1>a, <1>b, <1>3, <1>8
  <1>9. ASSUME NEW attempt \in 0..MaxAttempts,
               op' = [op EXCEPT ![k] = [@ EXCEPT !.place = place, !.attempt = attempt]]
        PROVE  Stands(k, place, op[k].status, op[k].cand, op[k].next, attempt)
    <2>1. op' = [op EXCEPT ![k] = [op[k] EXCEPT !.place = place, !.attempt = attempt]]
      BY <1>9
    <2> QED
      BY <1>a, <1>4, <2>1
  <1>10. ASSUME NEW next \in 0..Peers,
                op' = [op EXCEPT ![k] = [@ EXCEPT !.place = place, !.next = next]]
         PROVE  Stands(k, place, op[k].status, op[k].cand, next, op[k].attempt)
    <2>1. op' = [op EXCEPT ![k] = [op[k] EXCEPT !.place = place, !.next = next]]
      BY <1>10
    <2> QED
      BY <1>a, <1>5, <2>1
  <1> QED
    BY <1>6, <1>7, <1>8, <1>9, <1>10

\* The ways in which requests dispatch and stop runners.
LEMMA RunnersMove ==
  ASSUME Typed
  PROVE  /\ \A name \in {"download", "resume"}, place \in Places:
              Dispatch(name, place) => \E r \in Runners: Begins(r, place)
         /\ StopTracked => Stops
  <1>1. ASSUME NEW name \in {"download", "resume"}, NEW place \in Places, Dispatch(name, place)
        PROVE  \E r \in Runners: Begins(r, place)
    <2>1. PICK r \in Runners:
            /\ ~IsLive(r) /\ tracked' = r
            /\ runner' = [runner EXCEPT ![r] =
                 [Off EXCEPT !.place = place, !.name = name, !.listed = ~IsRunning(name)]]
      BY <1>1 DEF Dispatch
    <2> DEFINE listed == ~IsRunning(name)
    <2>2. listed \in BOOLEAN
      OBVIOUS
    <2> HIDE DEF listed
    <2>3. Shaped([Off EXCEPT !.place = place, !.name = name, !.listed = listed],
                 place, "queued", 0, 0, "none", 0, "discard", FALSE)
      BY <2>2, OffShaped
    <2>4. runner' = [runner EXCEPT ![r] =
                 [Off EXCEPT !.place = place, !.name = name, !.listed = listed]]
      BY <2>1 DEF listed
    <2> QED
      BY <2>1, <2>3, <2>4, RunnerPlaced DEF RunnersTyped, Begins
  <1>2. ASSUME StopTracked PROVE Stops
    <2>1. /\ runner \in [Runners -> RunnerStates] /\ Off \in RunnerStates
          /\ tracked \in Runners \union {NoRunner}
      BY OffShaped DEF Typed, TypeOK, Shaped
    <2> QED
      BY SMTT(30), <1>2, <2>1 DEF StopTracked, Stops, RunnersTyped
  <1> QED
    BY <1>1, <1>2

\* CancelAsk stops the tracked runner.
LEMMA CancelAskActs ==
  ASSUME Typed, NEW k \in Callers, CancelAsk(k)
  PROVE  /\ "cancel" \in Actors /\ op[k].place = "idle" /\ Stops /\ Steps(k, "cancel")
         /\ UNCHANGED <<task, attempts, manifest, transfer, lock, held, landed, faults>>
  <1>1. Stops /\ Steps(k, "cancel")
    BY RunnersMove, RequestMoves DEF CancelAsk, OpPlaces
  <1> QED
    BY <1>1 DEF CancelAsk, Asks, NoOp, rows, music

\* What a cancel writes into the journal.
LEMMA AllWritten ==
  ASSUME attempts \in Seq(AttemptRows), NEW state \in {"discard", "preserve"},
         attempts' = [i \in DOMAIN attempts |->
             IF attempts[i].state = "settled" THEN attempts[i]
             ELSE [attempts[i] EXCEPT !.state = state]]
  PROVE  /\ attempts' \in Seq(AttemptRows) /\ Len(attempts') = Len(attempts)
         /\ \A i \in 1..Len(attempts):
              /\ attempts'[i].cand = attempts[i].cand
              /\ attempts[i].state = "settled" => attempts'[i] = attempts[i]
              /\ attempts[i].state # "settled" => attempts'[i].state = state
  <1> DEFINE row(i) == IF attempts[i].state = "settled" THEN attempts[i]
                       ELSE [attempts[i] EXCEPT !.state = state]
  <1>1. \A i \in 1..Len(attempts): attempts[i] \in AttemptRows
    BY RowsTyped
  <1>2. \A i \in 1..Len(attempts):
          /\ row(i) \in AttemptRows /\ row(i).cand = attempts[i].cand
          /\ attempts[i].state = "settled" => row(i) = attempts[i]
          /\ attempts[i].state # "settled" => row(i).state = state
    BY <1>1 DEF AttemptRows
  <1>3. DOMAIN attempts = 1..Len(attempts) /\ Len(attempts) \in Nat
    BY LenProperties
  <1>4. attempts' = [i \in 1..Len(attempts) |-> row(i)]
    BY <1>3
  <1> HIDE DEF row
  <1>5. attempts' \in [1..Len(attempts) -> AttemptRows] /\ \A i \in 1..Len(attempts): attempts'[i] = row(i)
    BY SMTT(30), <1>2, <1>4
  <1>6. attempts' \in Seq(AttemptRows) /\ Len(attempts') = Len(attempts)
    BY <1>5
  <1> QED
    BY <1>2, <1>5, <1>6

\* CancelCommit takes the lock, cancels the task and gives away every row.
LEMMA CancelCommitActs ==
  ASSUME Typed, NEW k \in Callers, CancelCommit(k)
  PROVE  /\ op[k].place = "cancel" /\ lock = NoCaller /\ lock' = k
         /\ Tasked("cancelled", task.cand, task.job) /\ Steps(k, "cancel_tidy")
         /\ attempts' \in Seq(AttemptRows) /\ Len(attempts') = Len(attempts)
         /\ \A i \in 1..Len(attempts):
              /\ attempts'[i].cand = attempts[i].cand
              /\ attempts[i].state = "settled" => attempts'[i] = attempts[i]
              /\ attempts[i].state # "settled" => attempts'[i].state \in {"discard", "preserve"}
         /\ faults' \in 0..MaxFaults
         /\ UNCHANGED <<manifest, transfer, runner, tracked, held, landed>>
  <1>1. /\ op[k].place = "cancel" /\ lock = NoCaller /\ lock' = k
        /\ SetStatus("cancelled") /\ OpGoto(k, "cancel_tidy")
        /\ UNCHANGED <<manifest, transfer, runner, tracked, held, landed>>
    BY DEF CancelCommit, CancelWrites, Takes, music
  <1>2. /\ attempts \in Seq(AttemptRows) /\ task \in Tasks /\ "cancelled" \in Statuses
        /\ "cancel_tidy" \in OpPlaces
    BY DEF Typed, TypeOK, Statuses, Terminal, OpPlaces
  <1>3. Tasked("cancelled", task.cand, task.job) /\ Steps(k, "cancel_tidy")
    BY <1>1, <1>2, TaskMoves, RequestMoves
  <1>4. /\ UNCHANGED faults \/ Fault
        /\ \E state \in {"discard", "preserve"}:
             attempts' = [i \in DOMAIN attempts |->
               IF attempts[i].state = "settled" THEN attempts[i]
               ELSE [attempts[i] EXCEPT !.state = state]]
    BY DEF CancelCommit, CancelWrites
  <1>5. faults' \in 0..MaxFaults
    BY <1>4 DEF Fault, Typed, TypeOK
  <1>6. PICK state \in {"discard", "preserve"}:
             attempts' = [i \in DOMAIN attempts |->
               IF attempts[i].state = "settled" THEN attempts[i]
               ELSE [attempts[i] EXCEPT !.state = state]]
    BY <1>4
  <1>7. /\ attempts' \in Seq(AttemptRows) /\ Len(attempts') = Len(attempts)
        /\ \A i \in 1..Len(attempts):
              /\ attempts'[i].cand = attempts[i].cand
              /\ attempts[i].state = "settled" => attempts'[i] = attempts[i]
              /\ attempts[i].state # "settled" => attempts'[i].state = state
    BY <1>2, <1>6, AllWritten
  <1> QED
    BY <1>1, <1>3, <1>5, <1>7

\* CancelTidy removes the manifest.
LEMMA CancelTidyActs ==
  ASSUME Typed, NEW k \in Callers, CancelTidy(k)
  PROVE  /\ op[k].place = "cancel_tidy" /\ lock' = NoCaller /\ Done(k) /\ manifest' = 0
         /\ UNCHANGED <<task, attempts, transfer, runner, tracked, held, landed, faults>>
  BY RequestMoves DEF CancelTidy, rows, music

\* NextAsk takes the lock, and knows the candidate and the attempt of the manifest.
LEMMA NextAskActs ==
  ASSUME Typed, NEW k \in Callers, NextAsk(k)
  PROVE  /\ "next" \in Actors /\ op[k].place = "idle" /\ lock = NoCaller /\ lock' = k
         /\ manifest # 0 /\ Stands(k, "next_look", "queued", task.cand, 0, manifest)
         /\ UNCHANGED <<task, attempts, manifest, transfer, runner, tracked, held, landed, faults>>
  <1>1. /\ task.cand \in 0..Peers /\ manifest \in 0..MaxAttempts /\ "next_look" \in OpPlaces
        /\ op' = [op EXCEPT ![k] = [NoOp EXCEPT !.place = "next_look", !.cand = task.cand,
                                                !.attempt = manifest]]
    BY Fields DEF NextAsk, OpPlaces, Typed, TypeOK
  <1>2. Stands(k, "next_look", "queued", task.cand, 0, manifest)
    BY <1>1, RequestBegins
  <1> QED
    BY <1>2 DEF NextAsk, Asks, Takes, NoOp, rows, music

\* NextLook goes on with a transfer that waits.
LEMMA NextLookActs ==
  ASSUME Typed, NEW k \in Callers, NextLook(k)
  PROVE  /\ op[k].place = "next_look"
         /\ \/ Steps(k, "next_stop") /\ UNCHANGED lock
            \/ Done(k) /\ lock' = NoCaller
         /\ UNCHANGED <<task, attempts, manifest, transfer, runner, tracked, held, landed, faults>>
  <1>1. /\ op[k].place = "next_look" /\ "next_stop" \in OpPlaces
        /\ (OpGoto(k, "next_stop") /\ UNCHANGED lock) \/ Releases(k)
        /\ UNCHANGED <<task, attempts, manifest, transfer, runner, tracked, held, landed, faults>>
    BY ZenonT(30) DEF NextLook, rows, music, OpPlaces
  <1> QED
    BY <1>1, RequestMoves

\* NextStop stops the tracked runner, or those that are listed.
LEMMA NextStopActs ==
  ASSUME Typed, NEW k \in Callers, NextStop(k)
  PROVE  /\ op[k].place = "next_stop" /\ Steps(k, "next_verify") /\ Stops
         /\ UNCHANGED <<task, attempts, manifest, transfer, lock, held, landed, faults>>
  <1>1. Steps(k, "next_verify")
    BY RequestMoves DEF NextStop, OpPlaces
  <1>2. CASE tracked # NoRunner
    <2>1. StopTracked
      BY <1>2 DEF NextStop
    <2> QED
      BY <1>1, <2>1, RunnersMove DEF NextStop, rows, music
  <1>3. CASE tracked = NoRunner
    <2>1. /\ runner' = [r \in Runners |-> IF runner[r].listed THEN Off ELSE runner[r]]
          /\ UNCHANGED tracked
      BY SMTT(30), <1>3 DEF NextStop
    <2>2. /\ runner \in [Runners -> RunnerStates] /\ Off \in RunnerStates
      BY OffShaped DEF Typed, TypeOK, Shaped
    <2>3. Stops
      BY SMTT(30), <1>3, <2>1, <2>2 DEF Stops, RunnersTyped
    <2> QED
      BY <1>1, <2>3 DEF NextStop, rows, music
  <1> QED
    BY <1>2, <1>3

\* NextVerify gives up, resumes the download or goes on within the failover limit.
LEMMA NextVerifyActs ==
  ASSUME Typed, NEW k \in Callers, NextVerify(k)
  PROVE  /\ op[k].place = "next_verify"
         /\ \/ Done(k) /\ lock' = NoCaller /\ UNCHANGED <<task, runner, tracked>>
            \/ /\ Done(k) /\ lock' = NoCaller /\ Tasked(task.status, task.cand, task.job)
               /\ \E r \in Runners: Begins(r, "resume")
            \/ /\ MaySwitch /\ UNCHANGED <<task, runner, tracked, lock>>
               /\ task.cand = op[k].cand
               /\ transfer[Peer(op[k].attempt)] = "queued"
               /\ \E n \in Behind(op[k].cand):
                    Stands(k, "next_abort", op[k].status, op[k].cand, n, op[k].attempt)
         /\ UNCHANGED <<attempts, manifest, transfer, held, landed, faults>>
  <1>a. /\ op[k].place = "next_verify" /\ task \in Tasks /\ "resume" \in Places
        /\ task.status \in Statuses
        /\ UNCHANGED <<attempts, manifest, transfer, held, landed, faults>>
    BY Fields DEF NextVerify, music, Typed, TypeOK, Places
  <1> DEFINE c == Peer(op[k].attempt)
             bytes == transfer[c] \in {"active", "done"}
  <1>1. bytes \in BOOLEAN
    OBVIOUS
  <1>2. \/ Releases(k) /\ UNCHANGED <<task, runner, tracked>>
        \/ /\ task' = [task EXCEPT !.bytes = bytes] \/ UNCHANGED task
           /\ Dispatch("resume", "resume") /\ Releases(k)
        \/ /\ MaySwitch /\ UNCHANGED <<task, runner, tracked, lock>>
           /\ task.cand = op[k].cand /\ transfer[c] = "queued"
           /\ \E n \in Behind(op[k].cand):
                 op' = [op EXCEPT ![k] = [@ EXCEPT !.place = "next_abort", !.next = n]]
    BY DEF NextVerify, Redispatch
  <1> HIDE DEF bytes
  <1>3. ASSUME task' = [task EXCEPT !.bytes = bytes] \/ UNCHANGED task
        PROVE  Tasked(task.status, task.cand, task.job)
    <2>1. CASE task' = [task EXCEPT !.bytes = bytes]
      BY <1>a, <1>1, <2>1, TaskMoves
    <2>2. CASE UNCHANGED task
      BY <1>a, <2>2 DEF Tasked
    <2> QED
      BY <1>3, <2>1, <2>2
  <1>4. ASSUME NEW n \in Behind(op[k].cand),
               op' = [op EXCEPT ![k] = [@ EXCEPT !.place = "next_abort", !.next = n]]
        PROVE  Stands(k, "next_abort", op[k].status, op[k].cand, n, op[k].attempt)
    <2>1. n \in 0..Peers /\ "next_abort" \in OpPlaces
      BY DEF Behind, OpPlaces
    <2> QED
      BY <1>4, <2>1, RequestBegins
  <1>5. CASE Releases(k) /\ UNCHANGED <<task, runner, tracked>>
    BY <1>a, <1>5, RequestMoves
  <1>6. CASE /\ task' = [task EXCEPT !.bytes = bytes] \/ UNCHANGED task
             /\ Dispatch("resume", "resume") /\ Releases(k)
    <2>1. (\E r \in Runners: Begins(r, "resume")) /\ Done(k) /\ lock' = NoCaller
      BY <1>a, <1>6, RequestMoves, RunnersMove
    <2> QED
      BY <1>a, <1>3, <1>6, <2>1
  <1>7. CASE /\ MaySwitch /\ UNCHANGED <<task, runner, tracked, lock>>
             /\ task.cand = op[k].cand /\ transfer[c] = "queued"
             /\ \E n \in Behind(op[k].cand):
                 op' = [op EXCEPT ![k] = [@ EXCEPT !.place = "next_abort", !.next = n]]
    BY <1>a, <1>4, <1>7
  <1> QED
    BY <1>2, <1>5, <1>6, <1>7

\* NextAbort ends the transfer of the manifest, or resumes the download.
LEMMA NextAbortActs ==
  ASSUME Typed, NEW k \in Callers, NextAbort(k)
  PROVE  /\ op[k].place = "next_abort"
         /\ \/ /\ manifest # 0 /\ transfer' = [transfer EXCEPT ![Peer(manifest)] = "none"]
               /\ Steps(k, "next_schedule") /\ UNCHANGED <<runner, tracked, lock>>
            \/ /\ UNCHANGED transfer /\ Done(k) /\ lock' = NoCaller
               /\ \E r \in Runners: Begins(r, "resume")
         /\ transfer' \in [1..Peers -> TransferStates] /\ faults' \in 0..MaxFaults
         /\ UNCHANGED <<task, attempts, manifest, held, landed>>
  <1>a. /\ op[k].place = "next_abort" /\ "next_schedule" \in OpPlaces /\ "resume" \in Places
        /\ transfer \in [1..Peers -> TransferStates] /\ "none" \in TransferStates
        /\ UNCHANGED <<task, attempts, manifest, held, landed>>
    BY DEF NextAbort, rows, music, Places, OpPlaces, Typed, TypeOK, TransferStates
  <1>1. /\ \/ /\ manifest # 0 /\ AbortOf(Peer(manifest)) /\ OpGoto(k, "next_schedule")
              /\ UNCHANGED <<runner, tracked, lock>>
           \/ UNCHANGED transfer /\ Dispatch("resume", "resume") /\ Releases(k)
        /\ UNCHANGED faults \/ Fault
    BY DEF NextAbort, Redispatch
  <1>2. faults' \in 0..MaxFaults
    BY <1>1 DEF Fault, Typed, TypeOK
  <1>3. CASE /\ manifest # 0 /\ AbortOf(Peer(manifest)) /\ OpGoto(k, "next_schedule")
             /\ UNCHANGED <<runner, tracked, lock>>
    BY <1>a, <1>2, <1>3, RequestMoves DEF AbortOf
  <1>4. CASE UNCHANGED transfer /\ Dispatch("resume", "resume") /\ Releases(k)
    <2>1. (\E r \in Runners: Begins(r, "resume")) /\ Done(k) /\ lock' = NoCaller
      BY <1>a, <1>4, RequestMoves, RunnersMove
    <2> QED
      BY <1>a, <1>2, <1>4, <2>1
  <1> QED
    BY <1>1, <1>3, <1>4

\* NextSchedule discards the row of the manifest, without one the newest live row.
LEMMA NextScheduleActs ==
  ASSUME Typed, NEW k \in Callers, NextSchedule(k)
  PROVE  /\ op[k].place = "next_schedule" /\ Steps(k, "next_link")
         /\ ScheduleRow(ManifestRow, "discard") /\ ManifestRow \in 0..Len(attempts)
         /\ UNCHANGED <<task, manifest, transfer, runner, tracked, lock, held, landed, faults>>
  <1>1. ManifestRow \in 0..Len(attempts) /\ "next_link" \in OpPlaces
    BY RowsFound DEF Typed, TypeOK, OpPlaces
  <1> QED
    BY <1>1, RequestMoves DEF NextSchedule, music

\* NextLink links the candidate that was chosen.
LEMMA NextLinkActs ==
  ASSUME Typed, NEW k \in Callers, NextLink(k)
  PROVE  /\ op[k].place = "next_link" /\ Steps(k, "next_dispatch")
         /\ Tasked(task.status, op[k].next, TRUE)
         /\ UNCHANGED <<attempts, manifest, transfer, runner, tracked, lock, held, landed, faults>>
  <1>1. /\ task \in Tasks /\ op[k].next \in 0..Peers /\ "next_dispatch" \in OpPlaces
        /\ LinkTo(op[k].next)
    BY Fields DEF NextLink, Typed, TypeOK, OpPlaces
  <1>2. Tasked(task.status, op[k].next, TRUE)
    BY <1>1, TaskMoves
  <1> QED
    BY <1>1, <1>2, RequestMoves DEF NextLink, music

\* NextDispatch makes the task as good as new, and dispatches it.
LEMMA NextDispatchActs ==
  ASSUME Typed, NEW k \in Callers, NextDispatch(k)
  PROVE  /\ op[k].place = "next_dispatch" /\ Done(k) /\ lock' = NoCaller
         /\ Tasked("queued", task.cand, task.job) /\ \E r \in Runners: Begins(r, "start")
         /\ UNCHANGED <<attempts, manifest, transfer, held, landed, faults>>
  <1>1. /\ task \in Tasks /\ "start" \in Places /\ \E fallback \in BOOLEAN: task' = FreshTask(fallback)
        /\ Dispatch("download", "start") /\ Releases(k)
    BY DEF NextDispatch, Typed, TypeOK, Places
  <1>2. Tasked("queued", task.cand, task.job)
    BY <1>1, TaskMoves
  <1>3. (\E r \in Runners: Begins(r, "start")) /\ Done(k) /\ lock' = NoCaller
    BY <1>1, RequestMoves, RunnersMove
  <1> QED
    BY <1>2, <1>3 DEF NextDispatch, music

\* ReimportAsk takes the lock of a download that failed or fell short.
LEMMA ReimportAskActs ==
  ASSUME Typed, NEW k \in Callers, ReimportAsk(k)
  PROVE  /\ "reimport" \in Actors /\ op[k].place = "idle" /\ lock = NoCaller /\ lock' = k
         /\ task.status \in {"failed", "partial"} /\ task.cand # 0
         /\ Stands(k, "reimport", "queued", task.cand, 0, 0)
         /\ UNCHANGED <<task, attempts, manifest, transfer, runner, tracked, held, landed, faults>>
  <1>1. /\ task.cand \in 0..Peers /\ "reimport" \in OpPlaces
        /\ op' = [op EXCEPT ![k] = [NoOp EXCEPT !.place = "reimport", !.cand = task.cand]]
    BY Fields DEF ReimportAsk, OpPlaces
  <1>2. Stands(k, "reimport", "queued", task.cand, 0, 0)
    BY <1>1, RequestBegins
  <1> QED
    BY <1>2 DEF ReimportAsk, Asks, Takes, NoOp, rows, music

\* ReimportAcquire takes a row that waits, or a new one.
LEMMA ReimportAcquireActs ==
  ASSUME Typed, NEW k \in Callers, ReimportAcquire(k)
  PROVE  /\ op[k].place = "reimport"
         /\ \/ Done(k) /\ lock' = NoCaller /\ UNCHANGED attempts
            \/ \E i \in 1..Len(attempts'):
                 /\ Stands(k, "reimport_start", op[k].status, op[k].cand, op[k].next, i)
                 /\ UNCHANGED lock
                 /\ attempts' \in Seq(AttemptRows) /\ Len(attempts') <= MaxAttempts
                 /\ Len(attempts') \in Nat /\ Len(attempts) <= Len(attempts')
                 /\ attempts'[i].state = "in_use" /\ attempts'[i].cand = op[k].cand
                 /\ i <= Len(attempts) => attempts[i].state \in {"discard", "preserve"}
                 /\ \A j \in 1..Len(attempts):
                      /\ attempts'[j].cand = attempts[j].cand
                      /\ j # i => attempts'[j] = attempts[j]
                 /\ \A j \in 1..Len(attempts'): j # i => j \in 1..Len(attempts)
         /\ UNCHANGED <<task, manifest, transfer, runner, tracked, held, landed, faults>>
  <1> DEFINE i == RowOf(op[k].cand)
             starts(n) == op' = [op EXCEPT ![k] = [@ EXCEPT !.place = "reimport_start",
                                                            !.attempt = n]]
  <1>a. /\ op[k].place = "reimport"
        /\ UNCHANGED <<task, manifest, transfer, runner, tracked, held, landed, faults>>
    BY DEF ReimportAcquire, music
  <1>b. /\ attempts \in Seq(AttemptRows) /\ Len(attempts) \in Nat /\ Len(attempts) <= MaxAttempts
        /\ op[k].cand \in 0..Peers /\ "reimport_start" \in OpPlaces
    BY Fields DEF Typed, TypeOK, OpPlaces
  <1>c. /\ i \in 0..Len(attempts) /\ (i # 0 => attempts[i].cand = op[k].cand)
    BY RowsFound DEF Typed, TypeOK
  <1>1. \/ /\ i = 0 /\ Len(attempts) < MaxAttempts
           /\ attempts' = Append(attempts, [cand |-> op[k].cand, state |-> "in_use"])
           /\ starts(Len(attempts) + 1) /\ UNCHANGED lock
        \/ /\ i # 0 /\ attempts[i].state \in {"discard", "preserve"}
           /\ attempts' = [attempts EXCEPT ![i].state = "in_use"]
           /\ starts(i) /\ UNCHANGED lock
        \/ /\ i # 0 /\ attempts[i].state \notin {"discard", "preserve"}
           /\ Releases(k) /\ UNCHANGED attempts
    BY DEF ReimportAcquire
  <1>2. ASSUME NEW n \in 0..MaxAttempts, starts(n)
        PROVE  Stands(k, "reimport_start", op[k].status, op[k].cand, op[k].next, n)
    BY <1>2, <1>b, RequestBegins
  <1> HIDE DEF i, starts
  <1>3. CASE /\ i = 0 /\ Len(attempts) < MaxAttempts
             /\ attempts' = Append(attempts, [cand |-> op[k].cand, state |-> "in_use"])
             /\ starts(Len(attempts) + 1) /\ UNCHANGED lock
    <2> DEFINE row == [cand |-> op[k].cand, state |-> "in_use"]
    <2>1. row \in AttemptRows /\ row.cand = op[k].cand /\ row.state = "in_use"
      BY <1>b DEF AttemptRows, Live
    <2>2. attempts' = Append(attempts, row)
      BY <1>3
    <2> HIDE DEF row
    <2>3. /\ attempts' \in Seq(AttemptRows) /\ Len(attempts') = Len(attempts) + 1
          /\ attempts'[Len(attempts) + 1] = row
          /\ \A j \in 1..Len(attempts): attempts'[j] = attempts[j]
      BY <1>b, <2>1, <2>2, RowAdded
    <2>4. Stands(k, "reimport_start", op[k].status, op[k].cand, op[k].next, Len(attempts) + 1)
      BY <1>b, <1>2, <1>3
    <2> DEFINE n == Len(attempts) + 1
    <2>5. /\ n \in 1..Len(attempts') /\ Len(attempts) <= Len(attempts')
          /\ Len(attempts') \in Nat /\ Len(attempts') <= MaxAttempts /\ ~(n <= Len(attempts))
          /\ attempts'[n].state = "in_use" /\ attempts'[n].cand = op[k].cand
          /\ \A j \in 1..Len(attempts'): j # n => j \in 1..Len(attempts)
      BY <1>b, <1>3, <2>1, <2>3
    <2>6. \A j \in 1..Len(attempts): attempts'[j] = attempts[j] /\ attempts'[j].cand = attempts[j].cand
      BY <2>3
    <2>7. Stands(k, "reimport_start", op[k].status, op[k].cand, op[k].next, n)
      BY <2>4
    <2> HIDE DEF n
    <2> QED
      BY SMTT(30), <1>a, <1>3, <2>3, <2>5, <2>6, <2>7
  <1>4. CASE /\ i # 0 /\ attempts[i].state \in {"discard", "preserve"}
             /\ attempts' = [attempts EXCEPT ![i].state = "in_use"]
             /\ starts(i) /\ UNCHANGED lock
    <2>1. i \in 1..Len(attempts)
      BY <1>b, <1>c, <1>4
    <2>2. /\ attempts' \in Seq(AttemptRows) /\ Len(attempts') = Len(attempts)
          /\ attempts'[i].state = "in_use" /\ attempts'[i].cand = attempts[i].cand
          /\ \A j \in 1..Len(attempts): j # i => attempts'[j] = attempts[j]
      BY <1>b, <1>4, <2>1, RowWritten DEF Live
    <2>3. Stands(k, "reimport_start", op[k].status, op[k].cand, op[k].next, i)
      BY <1>b, <1>2, <1>4, <2>1
    <2> QED
      BY <1>a, <1>b, <1>c, <1>4, <2>1, <2>2, <2>3
  <1>5. CASE Releases(k) /\ UNCHANGED attempts
    BY <1>a, <1>5, RequestMoves
  <1> QED
    BY <1>1, <1>3, <1>4, <1>5

\* ReimportStart makes the task one that is being processed.
LEMMA ReimportStartActs ==
  ASSUME Typed, NEW k \in Callers, ReimportStart(k)
  PROVE  /\ op[k].place = "reimport_start" /\ Steps(k, "reimport_import")
         /\ Tasked("processing", task.cand, task.job)
         /\ UNCHANGED <<attempts, manifest, transfer, runner, tracked, lock, held, landed, faults>>
  <1>1. /\ task \in Tasks /\ "processing" \in Statuses /\ SetStatus("processing")
        /\ "reimport_import" \in OpPlaces
    BY DEF ReimportStart, Typed, TypeOK, OpPlaces, Statuses, Active
  <1>2. Tasked("processing", task.cand, task.job)
    BY <1>1, TaskMoves
  <1> QED
    BY <1>1, <1>2, RequestMoves DEF ReimportStart, music

\* ReimportFinish writes a verdict and gives the row away.
LEMMA ReimportFinishActs ==
  ASSUME Typed, NEW k \in Callers, ReimportFinish(k)
  PROVE  /\ op[k].place = "reimport_import" /\ Done(k) /\ lock' = NoCaller /\ manifest' = 0
         /\ \E verdict \in {"completed", "partial", "failed"}: Tasked(verdict, task.cand, task.job)
         /\ \E disposition \in {"discard", "preserve"}: ScheduleRow(op[k].attempt, disposition)
         /\ held' \in BOOLEAN /\ landed' \in BOOLEAN
         /\ UNCHANGED <<transfer, runner, tracked, faults>>
  <1>1. /\ op[k].place = "reimport_import" /\ Releases(k) /\ manifest' = 0
        /\ UNCHANGED <<transfer, runner, tracked, faults>>
    BY DEF ReimportFinish
  <1>2. PICK verdict \in {"completed", "partial", "failed"}, disposition \in {"discard", "preserve"}:
          /\ SetStatus(verdict) /\ ScheduleRow(op[k].attempt, disposition)
          /\ landed' = (landed \/ verdict = "completed")
    BY DEF ReimportFinish
  <1>3. task \in Tasks /\ verdict \in Statuses
    BY DEF Typed, TypeOK, Statuses, Terminal
  <1>4. Tasked(verdict, task.cand, task.job)
    BY <1>2, <1>3, TaskMoves
  <1>5. held' \in BOOLEAN
    BY DEF ReimportFinish, Typed, TypeOK
  <1>6. landed' \in BOOLEAN
    BY <1>2
  <1> QED
    BY <1>1, <1>2, <1>4, <1>5, <1>6, RequestMoves

\* SettleAsk knows the status as it was read.
LEMMA SettleAskActs ==
  ASSUME Typed, NEW k \in Callers, SettleAsk(k)
  PROVE  /\ "settle" \in Actors /\ op[k].place = "idle" /\ ~Cancelled
         /\ Stands(k, "settle", task.status, 0, 0, 0)
         /\ UNCHANGED <<task, attempts, manifest, transfer, runner, tracked, lock, held, landed,
              faults>>
  <1>1. /\ task.status \in Statuses /\ "settle" \in OpPlaces
        /\ op' = [op EXCEPT ![k] = [NoOp EXCEPT !.place = "settle", !.status = task.status]]
    BY Fields DEF SettleAsk, OpPlaces
  <1>2. Stands(k, "settle", task.status, 0, 0, 0)
    BY <1>1, RequestBegins
  <1> QED
    BY <1>2 DEF SettleAsk, Asks, NoOp, rows, music, Cancelled

\* SettleWrite completes the task, or writes that status.
LEMMA SettleWriteActs ==
  ASSUME Typed, NEW k \in Callers, SettleWrite(k)
  PROVE  /\ op[k].place = "settle" /\ Done(k)
         /\ \/ Tasked("completed", task.cand, task.job) /\ manifest' = 0 /\ landed' = TRUE
            \/ Tasked(op[k].status, task.cand, task.job) /\ UNCHANGED <<manifest, landed>>
         /\ UNCHANGED <<attempts, transfer, runner, tracked, lock, held, faults>>
  <1>1. /\ task \in Tasks /\ op[k].status \in Statuses /\ "completed" \in Statuses
    BY Fields DEF Typed, TypeOK, Statuses, Terminal
  <1>2. \/ SetStatus("completed") /\ manifest' = 0 /\ landed' = TRUE
        \/ SetStatus(op[k].status) /\ UNCHANGED <<manifest, landed>>
    BY DEF SettleWrite
  <1>3. \/ Tasked("completed", task.cand, task.job) /\ manifest' = 0 /\ landed' = TRUE
        \/ Tasked(op[k].status, task.cand, task.job) /\ UNCHANGED <<manifest, landed>>
    BY <1>1, <1>2, TaskMoves
  <1> QED
    BY <1>3, RequestMoves DEF SettleWrite

\* RetryAsk only looks, ...
LEMMA RetryAskActs ==
  ASSUME Typed, NEW k \in Callers, RetryAsk(k)
  PROVE  /\ "retry" \in Actors /\ op[k].place = "idle" /\ Steps(k, "retry")
         /\ UNCHANGED <<task, attempts, manifest, transfer, runner, tracked, lock, held, landed,
              faults>>
  <1>1. Steps(k, "retry")
    BY RequestMoves DEF RetryAsk, OpPlaces
  <1> QED
    BY <1>1 DEF RetryAsk, Asks, NoOp, rows, music

\* ... and RetryWrite completes the task.
LEMMA RetryWriteActs ==
  ASSUME Typed, NEW k \in Callers, RetryWrite(k)
  PROVE  /\ op[k].place = "retry" /\ Done(k) /\ manifest' = 0
         /\ Tasked("completed", task.cand, task.job)
         /\ UNCHANGED <<attempts, transfer, runner, tracked, lock, held, landed, faults>>
  <1>1. task \in Tasks /\ "completed" \in Statuses /\ SetStatus("completed")
    BY DEF RetryWrite, Typed, TypeOK, Statuses, Terminal
  <1>2. Tasked("completed", task.cand, task.job)
    BY <1>1, TaskMoves
  <1> QED
    BY <1>2, RequestMoves DEF RetryWrite, music

\* PickAsk only looks, ...
LEMMA PickAskActs ==
  ASSUME Typed, NEW k \in Callers, PickAsk(k)
  PROVE  /\ "pick" \in Actors /\ op[k].place = "idle" /\ Steps(k, "pick")
         /\ UNCHANGED <<task, attempts, manifest, transfer, runner, tracked, lock, held, landed,
              faults>>
  <1>1. Steps(k, "pick")
    BY RequestMoves DEF PickAsk, OpPlaces
  <1> QED
    BY <1>1 DEF PickAsk, Asks, NoOp, rows, music

\* ... and PickLink links a candidate and dispatches the task.
LEMMA PickLinkActs ==
  ASSUME Typed, NEW k \in Callers, PickLink(k)
  PROVE  /\ op[k].place = "pick" /\ Done(k) /\ \E c \in 1..Peers: Tasked(task.status, c, TRUE)
         /\ \E r \in Runners: Begins(r, "start")
         /\ UNCHANGED <<attempts, manifest, transfer, lock, held, landed, faults>>
  <1>1. PICK c \in 1..Peers: LinkTo(c)
    BY DEF PickLink
  <1>a. c \in 0..Peers /\ task \in Tasks
    BY DEF Typed, TypeOK
  <1>2. Tasked(task.status, c, TRUE)
    BY <1>1, <1>a, TaskMoves
  <1>3. \E r \in Runners: Begins(r, "start")
    <2>1. Dispatch("download", "start") /\ "start" \in Places
      BY DEF PickLink, Places
    <2> QED
      BY <2>1, RunnersMove
  <1> QED
    BY <1>2, <1>3, RequestMoves DEF PickLink, music
-----------------------------------------------------------------------------
(* What the other steps do.                                                 *)

\* The reaper looks, ...
LEMMA ReapFindActs ==
  ASSUME ReapFind
  PROVE  /\ "reap" \in Actors /\ tracked = NoRunner /\ reaping' = TRUE
         /\ task.status \in {"downloading", "processing"}
         /\ UNCHANGED <<task, attempts, manifest, transfer, runner, tracked, op, lock, held,
              landed, bounds>>
  BY DEF ReapFind, OthersFrame, rows, music

\* ... and fails the task.
LEMMA ReapFailActs ==
  ASSUME Typed, ReapFail
  PROVE  /\ reaping /\ reaping' = FALSE
         /\ Tasked("failed", task.cand, task.job) /\ attempts' \in Seq(AttemptRows)
         /\ Len(attempts') = Len(attempts)
         /\ \A i \in 1..Len(attempts):
              /\ attempts'[i].cand = attempts[i].cand
              /\ \/ attempts'[i] = attempts[i]
                 \/ attempts[i].state \in Live /\ attempts'[i].state = "preserve"
         /\ UNCHANGED <<manifest, transfer, runner, tracked, op, lock, held, landed, bounds>>
  <1>1. FailTask /\ reaping /\ reaping' = FALSE
        /\ UNCHANGED <<manifest, transfer, runner, tracked, op, lock, held, landed, bounds>>
    BY DEF ReapFail, OthersFrame, music
  <1> QED
    BY <1>1, FailTaskActs

\* Time passes.
LEMMA AgesActs ==
  ASSUME Typed, Ages
  PROVE  /\ Tasked(task.status, task.cand, task.job)
         /\ UNCHANGED <<attempts, manifest, transfer, runner, tracked, op, lock, reaping, held,
              landed, bounds>>
  <1>1. task \in Tasks /\ task' = [task EXCEPT !.polled = FALSE]
    BY DEF Ages, Typed, TypeOK
  <1>2. Tasked(task.status, task.cand, task.job)
    BY <1>1, TaskMoves
  <1> QED
    BY <1>2 DEF Ages, OthersFrame, music

\* A transfer that waits or runs moves on.
LEMMA TransferMovesActs ==
  ASSUME Typed, NEW c \in 1..Peers, TransferMoves(c)
  PROVE  /\ transfer[c] \in {"queued", "active"} /\ transfer'[c] \in {"active", "done", "failed"}
         /\ transfer' \in [1..Peers -> TransferStates]
         /\ \A b \in 1..Peers: b # c => transfer'[b] = transfer[b]
         /\ UNCHANGED <<task, attempts, manifest, runner, tracked, op, lock, reaping, held, landed,
              bounds>>
  <1>1. PICK state \in TransferStates:
          /\ <<transfer[c], state>> \in {<<"queued", "active">>, <<"queued", "failed">>,
                                         <<"active", "done">>, <<"active", "failed">>}
          /\ transfer' = [transfer EXCEPT ![c] = state]
    BY DEF TransferMoves
  <1>2. transfer[c] \in {"queued", "active"} /\ state \in {"active", "done", "failed"}
    BY <1>1
  <1>3. transfer \in [1..Peers -> TransferStates]
    BY DEF Typed, TypeOK
  <1> QED
    BY <1>1, <1>2, <1>3 DEF TransferMoves, OthersFrame, rows, music

\* The cleanup settles a discarded row and ends the transfer of its candidate.
LEMMA CleanupSettlesActs ==
  ASSUME Typed, NEW i \in 1..Len(attempts), CleanupSettles(i)
  PROVE  /\ attempts[i].state = "discard" /\ attempts'[i].state = "settled"
         /\ attempts' \in Seq(AttemptRows) /\ Len(attempts') = Len(attempts)
         /\ attempts'[i].cand = attempts[i].cand
         /\ \A j \in 1..Len(attempts): j # i => attempts'[j] = attempts[j]
         /\ transfer' \in [1..Peers -> TransferStates]
         /\ \A c \in 1..Peers: transfer'[c] = IF c = attempts[i].cand THEN "none" ELSE transfer[c]
         /\ UNCHANGED <<task, manifest, runner, tracked, op, lock, reaping, held, landed, bounds>>
  <1>1. /\ attempts[i].state = "discard" /\ attempts' = [attempts EXCEPT ![i].state = "settled"]
        /\ transfer' = [transfer EXCEPT ![attempts[i].cand] = "none"]
    BY DEF CleanupSettles, AbortOf, Peer
  <1>2. /\ attempts \in Seq(AttemptRows) /\ transfer \in [1..Peers -> TransferStates]
        /\ "none" \in TransferStates
    BY DEF Typed, TypeOK, TransferStates
  <1>3. /\ attempts' \in Seq(AttemptRows) /\ Len(attempts') = Len(attempts)
        /\ attempts'[i].state = "settled" /\ attempts'[i].cand = attempts[i].cand
        /\ \A j \in 1..Len(attempts): j # i => attempts'[j] = attempts[j]
    BY <1>1, <1>2, RowWritten
  <1>4. /\ transfer' \in [1..Peers -> TransferStates]
        /\ \A c \in 1..Peers: transfer'[c] = IF c = attempts[i].cand THEN "none" ELSE transfer[c]
    BY <1>1, <1>2
  <1> QED
    BY <1>1, <1>3, <1>4 DEF CleanupSettles, OthersFrame, music

\* A restart forgets everything but the rows, the manifest and the transfers; what the
\* rows call active begins again.
LEMMA CrashActs ==
  ASSUME Typed, CrashAndResume
  PROVE  /\ RunnersTyped /\ tracked' \in Runners \union {NoRunner}
         /\ \A r \in Runners:
              /\ \/ runner'[r].place = "idle"
                 \/ /\ r = tracked' /\ task.status \notin Terminal
                    /\ runner'[r].place \in {"start", "resume"}
              /\ runner'[r].status = "queued" /\ runner'[r].cand = 0 /\ runner'[r].attempt = 0
              /\ runner'[r].outcome = "none" /\ runner'[r].next = 0
              /\ runner'[r].disposition = "discard" /\ runner'[r].resuming = FALSE
         /\ op' \in [Callers -> OpStates] /\ \A k \in Callers: op'[k].place \in {"idle", "done"}
         /\ lock' = NoCaller /\ reaping' = FALSE
         /\ crashes < MaxCrashes /\ crashes' \in 0..MaxCrashes
         /\ UNCHANGED <<task, attempts, manifest, transfer, held, landed, faults>>
  <1> DEFINE A == [Off EXCEPT !.place = "start", !.listed = TRUE]
             B == [Off EXCEPT !.place = "resume", !.name = "resume", !.listed = TRUE]
             Fresh(b, place) == Shaped(b, place, "queued", 0, 0, "none", 0, "discard", FALSE)
  <1>1. Fresh(Off, "idle") /\ Fresh(A, "start") /\ Fresh(B, "resume")
    <2>1. "start" \in Places /\ "resume" \in Places /\ "resume" \in {"download", "resume"}
          /\ TRUE \in BOOLEAN
      BY DEF Places
    <2>2. Fresh(A, "start")
      BY <2>1, OffShaped
    <2>3. Fresh(B, "resume")
      BY <2>1, OffShaped
    <2> QED
      BY <2>2, <2>3, OffShaped
  <1>2. \/ runner' = [r \in Runners |-> Off] /\ tracked' = NoRunner
        \/ /\ task.status \notin Terminal /\ tracked' \in Runners
           /\ runner' = [r \in Runners |-> IF r # tracked' THEN Off
                                           ELSE IF task.status = "queued" THEN A ELSE B]
    BY DEF CrashAndResume
  <1> HIDE DEF A, B, Fresh
  <1>3. \A r \in Runners: \/ runner'[r] = Off
                          \/ /\ r = tracked' /\ task.status \notin Terminal
                             /\ runner'[r] = A \/ runner'[r] = B
    BY <1>2
  <1>4. /\ tracked' \in Runners \union {NoRunner} /\ DOMAIN runner' = Runners
        /\ runner' = [r \in Runners |-> runner'[r]]
    BY <1>2
  <1>5. ASSUME NEW r \in Runners
        PROVE  /\ runner'[r] \in RunnerStates
               /\ \/ runner'[r].place = "idle"
                  \/ /\ r = tracked' /\ task.status \notin Terminal
                     /\ runner'[r].place \in {"start", "resume"}
               /\ runner'[r].status = "queued" /\ runner'[r].cand = 0 /\ runner'[r].attempt = 0
               /\ runner'[r].outcome = "none" /\ runner'[r].next = 0
               /\ runner'[r].disposition = "discard" /\ runner'[r].resuming = FALSE
    BY <1>1, <1>3 DEF Fresh, Shaped
  <1>6. RunnersTyped
    BY <1>4, <1>5 DEF RunnersTyped
  <1>7. op' \in [Callers -> OpStates] /\ \A k \in Callers: op'[k].place \in {"idle", "done"}
    <2>1. NoOp \in OpStates /\ [NoOp EXCEPT !.place = "done"] \in OpStates
      BY DEF NoOp, OpStates, Statuses, Active
    <2>2. NoOp.place = "idle" /\ [NoOp EXCEPT !.place = "done"].place = "done"
      BY DEF NoOp
    <2>3. op' = [k \in Callers |-> IF op[k] = NoOp THEN NoOp ELSE [NoOp EXCEPT !.place = "done"]]
      BY DEF CrashAndResume
    <2> QED
      BY <2>1, <2>2, <2>3
  <1>8. /\ lock' = NoCaller /\ reaping' = FALSE /\ crashes' \in 0..MaxCrashes /\ crashes < MaxCrashes
        /\ UNCHANGED <<task, attempts, manifest, transfer, held, landed, faults>>
    BY DEF CrashAndResume, rows, music, Typed, TypeOK
  <1> QED
    BY ZenonT(60), <1>4, <1>5, <1>6, <1>7, <1>8
-----------------------------------------------------------------------------
(* The variables keep their types.                                          *)

\* What is left to show of the types, but for the runners and the requests.
RestTyped ==
  /\ task' \in Tasks /\ attempts' \in Seq(AttemptRows) /\ Len(attempts') \in Nat
  /\ Len(attempts) <= Len(attempts') /\ Len(attempts') <= MaxAttempts
  /\ manifest' \in 0..Len(attempts')
  /\ transfer' \in [1..Peers -> TransferStates] /\ tracked' \in Runners \union {NoRunner}
  /\ held' \in BOOLEAN /\ landed' \in BOOLEAN /\ faults' \in 0..MaxFaults
\* A runner has moved, and works on a row if it has to.
RunnerTyped(r) ==
  /\ RunnersTyped /\ \A q \in Runners \ {r}: runner'[q] = runner[q]
  /\ runner'[r].place \in Attempting => runner'[r].attempt \in 1..Len(attempts')
\* A request has.
RequestTyped(k) ==
  /\ op' \in [Callers -> OpStates] /\ \A q \in Callers \ {k}: op'[q] = op[q]
  /\ op'[k].place \in Asking => op'[k].attempt \in 1..Len(attempts')
  /\ lock' \in Callers \union {NoCaller}

\* Everything that Typed says, in parts.
LEMMA TypedParts ==
  ASSUME Typed
  PROVE  /\ task \in Tasks /\ attempts \in Seq(AttemptRows) /\ Len(attempts) \in Nat
         /\ Len(attempts) <= MaxAttempts /\ manifest \in 0..Len(attempts)
         /\ transfer \in [1..Peers -> TransferStates] /\ tracked \in Runners \union {NoRunner}
         /\ held \in BOOLEAN /\ landed \in BOOLEAN /\ faults \in 0..MaxFaults
         /\ crashes \in 0..MaxCrashes /\ reaping \in BOOLEAN
         /\ runner \in [Runners -> RunnerStates] /\ op \in [Callers -> OpStates]
         /\ lock \in Callers \union {NoCaller}
         /\ \A r \in Runners: runner[r].place \in Attempting => runner[r].attempt \in 1..Len(attempts)
         /\ \A k \in Callers: op[k].place \in Asking => op[k].attempt \in 1..Len(attempts)
  BY RowsTyped DEF Typed, TypeOK

\* Most steps write the task and stop or begin a runner at most.
LEMMA RestKept ==
  ASSUME Typed, task' \in Tasks, tracked' \in Runners \union {NoRunner},
         UNCHANGED <<attempts, manifest, transfer, held, landed, faults>>
  PROVE  RestTyped
  BY TypedParts DEF RestTyped

\* A step of a runner keeps the types.
LEMMA RunnerTypedAgain ==
  ASSUME Typed, NEW r \in Runners, RunnerTyped(r), RestTyped, UNCHANGED <<op, lock, reaping, crashes>>
  PROVE  Typed'
  BY TypedParts DEF RunnerTyped, RestTyped, RunnersTyped, Typed, TypeOK

\* A step of a request does, whatever it does to the runners.
LEMMA RequestTypedAgain ==
  ASSUME Typed, NEW k \in Callers, RequestTyped(k), RestTyped, UNCHANGED <<reaping, crashes>>,
         RunnersTyped, \A r \in Runners: runner'[r] = runner[r] \/ runner'[r].place \notin Attempting
  PROVE  Typed'
  <1>1. TypeOK'
    BY TypedParts DEF RequestTyped, RestTyped, RunnersTyped, TypeOK
  <1>2. \A q \in Runners: runner'[q].place \in Attempting => runner'[q].attempt \in 1..Len(attempts')
    BY SMTT(30), TypedParts DEF RestTyped
  <1>3. \A q \in Callers: op'[q].place \in Asking => op'[q].attempt \in 1..Len(attempts')
    BY SMTT(30), TypedParts DEF RestTyped, RequestTyped
  <1> QED
    BY <1>1, <1>2, <1>3 DEF Typed

\* Every step of a runner keeps the types.
LEMMA RunnerStepTyped ==
  ASSUME Typed, NEW r \in Runners, RunnerStep(r)
  PROVE  Typed'
  <1>f. UNCHANGED <<op, lock, reaping, crashes>>
    BY ZenonT(30) DEF RunnerStep, ProcessTask, ResumeTask, Search, Prepare, Open, Journal, Send, Outage, Handle,
           PollStops, PollGoesOn, PollEnds, PollBreaks, Recheck, Prefer, Process, Import, Decide,
           Abort, Schedule, Link, Reset, Finalize, Tidy, Fail, RunnerFrame, requests, Fault
  <1>1. CASE ProcessTask(r)
    <2>1. RunnerTyped(r)
      BY <1>1, ProcessTaskActs DEF RunnerTyped, Sits, Walks, Attempting
    <2>3. RestTyped
      BY <1>1, ProcessTaskActs, TypedParts DEF RestTyped
    <2> QED
      BY <1>f, <2>1, <2>3, RunnerTypedAgain
  <1>2. CASE ResumeTask(r)
    <2>1. RunnerTyped(r)
      BY <1>2, ResumeTaskActs DEF RunnerTyped, Sits, Walks, Attempting
    <2>3. RestTyped
      <3>1. task' \in Tasks /\ tracked' \in Runners \union {NoRunner}
        BY <1>2, ResumeTaskActs, TypedParts
      <3>2. UNCHANGED <<attempts, manifest, transfer, held, landed, faults>>
        BY <1>2, ResumeTaskActs
      <3> QED
        BY <3>1, <3>2, RestKept
    <2> QED
      BY <1>f, <2>1, <2>3, RunnerTypedAgain
  <1>3. CASE Search(r)
    <2>1. RunnerTyped(r)
      BY <1>3, SearchActs DEF RunnerTyped, Sits, Reads, Ends, Attempting
    <2>3. RestTyped
      <3>1. task' \in Tasks /\ tracked' \in Runners \union {NoRunner}
        BY <1>3, SearchActs, TypedParts DEF Tasked, Ends
      <3>2. UNCHANGED <<attempts, manifest, transfer, held, landed, faults>>
        BY <1>3, SearchActs
      <3> QED
        BY <3>1, <3>2, RestKept
    <2> QED
      BY <1>f, <2>1, <2>3, RunnerTypedAgain
  <1>4. CASE Prepare(r)
    <2>1. RunnerTyped(r)
      BY <1>4, PrepareActs, TypedParts DEF RunnerTyped, Sits, Walks, Reads, Polls, Attempting
    <2>3. RestTyped
      BY <1>4, PrepareActs, TypedParts DEF RestTyped, Tasked
    <2> QED
      BY <1>f, <2>1, <2>3, RunnerTypedAgain
  <1>5. CASE Open(r)
    <2>1. RunnerTyped(r)
      BY <1>5, OpenActs DEF RunnerTyped, Sits, Walks, Refused, Attempting
    <2>3. RestTyped
      BY <1>5, OpenActs, TypedParts DEF RestTyped, Tasked
    <2> QED
      BY <1>f, <2>1, <2>3, RunnerTypedAgain
  <1>6. CASE Outage(r)
    <2>1. RunnerTyped(r)
      BY <1>6, OutageActs DEF RunnerTyped, Sits, Walks, Ends, Attempting
    <2>3. RestTyped
      <3>1. task' \in Tasks /\ tracked' \in Runners \union {NoRunner}
        BY <1>6, OutageActs, TypedParts DEF Ends
      <3>2. UNCHANGED <<attempts, manifest, transfer, held, landed, faults>>
        BY <1>6, OutageActs
      <3> QED
        BY <3>1, <3>2, RestKept
    <2> QED
      BY <1>f, <2>1, <2>3, RunnerTypedAgain
  <1>7. CASE PollStops(r)
    <2>1. RunnerTyped(r)
      BY <1>7, PollStopsActs DEF RunnerTyped, Sits, Ends, Attempting
    <2>3. RestTyped
      <3>1. task' \in Tasks /\ tracked' \in Runners \union {NoRunner}
        BY <1>7, PollStopsActs, TypedParts DEF Ends
      <3>2. UNCHANGED <<attempts, manifest, transfer, held, landed, faults>>
        BY <1>7, PollStopsActs
      <3> QED
        BY <3>1, <3>2, RestKept
    <2> QED
      BY <1>f, <2>1, <2>3, RunnerTypedAgain
  <1>8. CASE PollEnds(r)
    <2>1. RunnerTyped(r)
      BY <1>8, PollEndsActs, TypedParts DEF RunnerTyped, Sits, Attempting
    <2>3. RestTyped
      BY <1>8, PollEndsActs, TypedParts DEF RestTyped, Tasked
    <2> QED
      BY <1>f, <2>1, <2>3, RunnerTypedAgain
  <1>9. CASE PollBreaks(r)
    <2>1. RunnerTyped(r)
      BY <1>9, PollBreaksActs DEF RunnerTyped, Sits, Walks, Attempting
    <2>3. RestTyped
      BY <1>9, PollBreaksActs, TypedParts DEF RestTyped
    <2> QED
      BY <1>f, <2>1, <2>3, RunnerTypedAgain
  <1>10. CASE Recheck(r)
    <2>1. RunnerTyped(r)
      BY <1>10, RecheckActs, TypedParts DEF RunnerTyped, Sits, Walks, Ends, Attempting
    <2>3. RestTyped
      <3>1. task' \in Tasks /\ tracked' \in Runners \union {NoRunner}
        BY <1>10, RecheckActs, TypedParts DEF Ends
      <3>2. UNCHANGED <<attempts, manifest, transfer, held, landed, faults>>
        BY <1>10, RecheckActs
      <3> QED
        BY <3>1, <3>2, RestKept
    <2> QED
      BY <1>f, <2>1, <2>3, RunnerTypedAgain
  <1>11. CASE Prefer(r)
    <2>1. RunnerTyped(r)
      BY <1>11, PreferActs, TypedParts DEF RunnerTyped, Sits, Walks, Polls, Attempting
    <2>3. RestTyped
      BY <1>11, PreferActs, TypedParts DEF RestTyped, Tasked
    <2> QED
      BY <1>f, <2>1, <2>3, RunnerTypedAgain
  <1>12. CASE Process(r)
    <2>1. RunnerTyped(r)
      BY <1>12, ProcessActs, TypedParts DEF RunnerTyped, Sits, Walks, Attempting
    <2>3. RestTyped
      BY <1>12, ProcessActs, TypedParts DEF RestTyped, Tasked
    <2> QED
      BY <1>f, <2>1, <2>3, RunnerTypedAgain
  <1>13. CASE Import(r)
    <2>1. RunnerTyped(r)
      BY <1>13, ImportActs DEF RunnerTyped, Sits, Walks, Finishes, Attempting
    <2>3. RestTyped
      BY <1>13, ImportActs, TypedParts DEF RestTyped
    <2> QED
      BY <1>f, <2>1, <2>3, RunnerTypedAgain
  <1>14. CASE Decide(r)
    <2>1. RunnerTyped(r)
      BY <1>14, DecideActs DEF RunnerTyped, Sits, Finishes, Attempting
    <2>3. RestTyped
      BY <1>14, DecideActs, TypedParts DEF RestTyped
    <2> QED
      BY <1>f, <2>1, <2>3, RunnerTypedAgain
  <1>15. CASE Abort(r)
    <2>1. RunnerTyped(r)
      BY <1>15, AbortActs DEF RunnerTyped, Sits, Walks, Ends, Attempting
    <2>3. RestTyped
      <3>1. task' \in Tasks /\ tracked' \in Runners \union {NoRunner}
        BY <1>15, AbortActs, TypedParts DEF Ends
      <3>2. /\ attempts' \in Seq(AttemptRows) /\ Len(attempts') \in Nat
            /\ Len(attempts) <= Len(attempts') /\ Len(attempts') <= MaxAttempts
            /\ manifest' \in 0..Len(attempts')
        BY <1>15, AbortActs, TypedParts
      <3>3. /\ transfer' \in [1..Peers -> TransferStates]
            /\ held' \in BOOLEAN /\ landed' \in BOOLEAN /\ faults' \in 0..MaxFaults
        BY <1>15, AbortActs, TypedParts
      <3> QED
        BY <3>1, <3>2, <3>3 DEF RestTyped
    <2> QED
      BY <1>f, <2>1, <2>3, RunnerTypedAgain
  <1>16. CASE Link(r)
    <2>1. RunnerTyped(r)
      BY <1>16, LinkActs DEF RunnerTyped, Sits, Reads, Attempting
    <2>3. RestTyped
      <3>1. task' \in Tasks /\ tracked' \in Runners \union {NoRunner}
        BY <1>16, LinkActs, TypedParts DEF Tasked
      <3>2. UNCHANGED <<attempts, manifest, transfer, held, landed, faults>>
        BY <1>16, LinkActs
      <3> QED
        BY <3>1, <3>2, RestKept
    <2> QED
      BY <1>f, <2>1, <2>3, RunnerTypedAgain
  <1>17. CASE Reset(r)
    <2>1. RunnerTyped(r)
      BY <1>17, ResetActs DEF RunnerTyped, Sits, Reads, Attempting
    <2>3. RestTyped
      BY <1>17, ResetActs, TypedParts DEF RestTyped, Tasked
    <2> QED
      BY <1>f, <2>1, <2>3, RunnerTypedAgain
  <1>18. CASE Journal(r)
    <2>a. /\ runner'[r].attempt = Len(attempts) + 1 /\ Len(attempts') = Len(attempts) + 1
          /\ Len(attempts) < MaxAttempts /\ manifest' = manifest /\ RunnersTyped
          /\ attempts' \in Seq(AttemptRows) /\ \A q \in Runners \ {r}: runner'[q] = runner[q]
      BY <1>18, JournalActs DEF Sits
    <2>1. RunnerTyped(r)
      BY <2>a DEF RunnerTyped
    <2>3. RestTyped
      <3>1. task' \in Tasks /\ tracked' \in Runners \union {NoRunner}
        BY <1>18, JournalActs, TypedParts
      <3>2. /\ attempts' \in Seq(AttemptRows) /\ Len(attempts') \in Nat
            /\ Len(attempts) <= Len(attempts') /\ Len(attempts') <= MaxAttempts
            /\ manifest' \in 0..Len(attempts')
        BY <2>a, TypedParts
      <3>3. /\ transfer' \in [1..Peers -> TransferStates]
            /\ held' \in BOOLEAN /\ landed' \in BOOLEAN /\ faults' \in 0..MaxFaults
        BY <1>18, JournalActs, TypedParts
      <3> QED
        BY <3>1, <3>2, <3>3 DEF RestTyped
    <2> QED
      BY <1>f, <2>1, <2>3, RunnerTypedAgain
  <1>19. CASE Send(r)
    <2>1. RunnerTyped(r)
      BY <1>19, SendActs, TypedParts DEF RunnerTyped, Sits, Walks, Refused, Attempting
    <2>3. RestTyped
      <3>1. task' \in Tasks /\ tracked' \in Runners \union {NoRunner}
        BY <1>19, SendActs, TypedParts
      <3>2. /\ attempts' \in Seq(AttemptRows) /\ Len(attempts') \in Nat
            /\ Len(attempts) <= Len(attempts') /\ Len(attempts') <= MaxAttempts
            /\ manifest' \in 0..Len(attempts')
        BY <1>19, SendActs, TypedParts DEF Attempting
      <3>3. /\ transfer' \in [1..Peers -> TransferStates]
            /\ held' \in BOOLEAN /\ landed' \in BOOLEAN /\ faults' \in 0..MaxFaults
        BY <1>19, SendActs, TypedParts
      <3> QED
        BY <3>1, <3>2, <3>3 DEF RestTyped
    <2> QED
      BY <1>f, <2>1, <2>3, RunnerTypedAgain
  <1>20. CASE Handle(r)
    <2>1. RunnerTyped(r)
      BY <1>20, HandleActs, TypedParts DEF RunnerTyped, Sits, Walks, Polls, Attempting
    <2>3. RestTyped
      BY <1>20, HandleActs, TypedParts DEF RestTyped
    <2> QED
      BY <1>f, <2>1, <2>3, RunnerTypedAgain
  <1>21. CASE Fail(r)
    <2>1. RunnerTyped(r)
      BY <1>21, FailActs DEF RunnerTyped, Sits, Ends, Attempting
    <2>3. RestTyped
      <3>1. task' \in Tasks /\ tracked' \in Runners \union {NoRunner}
        BY <1>21, FailActs DEF Tasked, Ends
      <3>2. /\ attempts' \in Seq(AttemptRows) /\ Len(attempts') \in Nat
            /\ Len(attempts) <= Len(attempts') /\ Len(attempts') <= MaxAttempts
            /\ manifest' \in 0..Len(attempts')
        BY <1>21, FailActs, TypedParts
      <3>3. /\ transfer' \in [1..Peers -> TransferStates]
            /\ held' \in BOOLEAN /\ landed' \in BOOLEAN /\ faults' \in 0..MaxFaults
        BY <1>21, FailActs, TypedParts
      <3> QED
        BY <3>1, <3>2, <3>3 DEF RestTyped
    <2> QED
      BY <1>f, <2>1, <2>3, RunnerTypedAgain
  <1>22. CASE Tidy(r)
    <2>1. RunnerTyped(r)
      BY <1>22, TidyActs DEF RunnerTyped, Sits, Ends, Attempting
    <2>3. RestTyped
      <3>1. task' \in Tasks /\ tracked' \in Runners \union {NoRunner}
        BY <1>22, TidyActs, TypedParts DEF Ends
      <3>2. /\ attempts' \in Seq(AttemptRows) /\ Len(attempts') \in Nat
            /\ Len(attempts) <= Len(attempts') /\ Len(attempts') <= MaxAttempts
            /\ manifest' \in 0..Len(attempts')
        BY <1>22, TidyActs, TypedParts
      <3>3. /\ transfer' \in [1..Peers -> TransferStates]
            /\ held' \in BOOLEAN /\ landed' \in BOOLEAN /\ faults' \in 0..MaxFaults
        BY <1>22, TidyActs, TypedParts
      <3> QED
        BY <3>1, <3>2, <3>3 DEF RestTyped
    <2> QED
      BY <1>f, <2>1, <2>3, RunnerTypedAgain
  <1>23. CASE PollGoesOn(r)
    <2>1. RunnerTyped(r) /\ RestTyped
      BY <1>23, PollGoesOnActs, TypedParts DEF RunnerTyped, RestTyped, RunnersTyped, Tasked
    <2> QED
      BY <1>f, <2>1, RunnerTypedAgain
  <1>24. CASE Schedule(r)
    <2>2. attempts' \in Seq(AttemptRows) /\ Len(attempts') = Len(attempts)
      <3>1. /\ ScheduleRow(ManifestRow, runner[r].disposition) /\ ManifestRow \in 0..Len(attempts)
            /\ runner[r].disposition \in {"discard", "preserve", "leave"}
        BY <1>24, ScheduleStepActs, Fields
      <3> QED
        BY <3>1, ScheduleActs, TypedParts
    <2>1. RunnerTyped(r)
      BY <1>24, ScheduleStepActs DEF RunnerTyped, Sits, Walks, Attempting
    <2>3. RestTyped
      BY <1>24, <2>2, ScheduleStepActs, TypedParts DEF RestTyped
    <2> QED
      BY <1>f, <2>1, <2>3, RunnerTypedAgain
  <1>25. CASE Finalize(r)
    <2>2. attempts' \in Seq(AttemptRows) /\ Len(attempts') = Len(attempts)
      <3>1. /\ ScheduleRow(FinalRow(r), runner[r].disposition) /\ FinalRow(r) \in 0..Len(attempts)
            /\ runner[r].disposition \in {"discard", "preserve", "leave"}
        BY <1>25, FinalizeActs, Fields
      <3> QED
        BY <3>1, ScheduleActs, TypedParts
    <2>1. RunnerTyped(r)
      BY <1>25, FinalizeActs DEF RunnerTyped, Sits, Walks, Attempting
    <2>3. RestTyped
      BY <1>25, <2>2, FinalizeActs, TypedParts DEF RestTyped, Tasked
    <2> QED
      BY <1>f, <2>1, <2>3, RunnerTypedAgain
  <1> QED
    BY SMTT(30), <1>1, <1>2, <1>3, <1>4, <1>5, <1>6, <1>7, <1>8, <1>9, <1>10, <1>11, <1>12, <1>13, <1>14,
       <1>15, <1>16, <1>17, <1>18, <1>19, <1>20, <1>21, <1>22, <1>23, <1>24, <1>25 DEF RunnerStep

\* Every step of a request keeps the types.
LEMMA RequestStepTyped ==
  ASSUME Typed, NEW k \in Callers, RequestStep(k) \/ Request(k)
  PROVE  Typed'
  <1>f. UNCHANGED <<reaping, crashes>>
    BY DEF RequestStep, Request, CancelAsk, CancelCommit, CancelWrites, CancelTidy, NextAsk, NextLook,
           NextStop, NextVerify, NextAbort, NextSchedule, NextLink, NextDispatch, ReimportAsk,
           ReimportAcquire, ReimportStart, ReimportFinish, SettleAsk, SettleWrite, RetryAsk,
           RetryWrite, PickAsk, PickLink, OpFrame, Fault
  <1>o. Off.place \notin Attempting
    BY DEF Off, Attempting
  <1>1. CASE CancelAsk(k)
    <2>1. RequestTyped(k)
      BY <1>1, CancelAskActs, TypedParts DEF RequestTyped, Stands, Steps, Done, Asking
    <2>2. RestTyped
      <3>1. task' \in Tasks /\ tracked' \in Runners \union {NoRunner}
        BY <1>1, CancelAskActs, TypedParts DEF Tasked, Begins, Stops
      <3>2. UNCHANGED <<attempts, manifest, transfer, held, landed, faults>>
        BY <1>1, CancelAskActs
      <3> QED
        BY <3>1, <3>2, RestKept
    <2>3. RunnersTyped /\ \A r \in Runners: runner'[r] = runner[r] \/ runner'[r].place \notin Attempting
      BY <1>1, <1>o, CancelAskActs DEF Stops
    <2> QED
      BY <1>f, <2>1, <2>2, <2>3, RequestTypedAgain
  <1>2. CASE CancelCommit(k)
    <2>1. RequestTyped(k)
      BY <1>2, CancelCommitActs, TypedParts DEF RequestTyped, Stands, Steps, Done, Asking
    <2>2. RestTyped
      <3>1. task' \in Tasks /\ tracked' \in Runners \union {NoRunner}
        BY <1>2, CancelCommitActs, TypedParts DEF Tasked, Begins, Stops
      <3>2. /\ attempts' \in Seq(AttemptRows) /\ Len(attempts') \in Nat
            /\ Len(attempts) <= Len(attempts') /\ Len(attempts') <= MaxAttempts
            /\ manifest' \in 0..Len(attempts')
        BY <1>2, CancelCommitActs, TypedParts
      <3>3. /\ transfer' \in [1..Peers -> TransferStates]
            /\ held' \in BOOLEAN /\ landed' \in BOOLEAN /\ faults' \in 0..MaxFaults
        BY <1>2, CancelCommitActs, TypedParts
      <3> QED
        BY <3>1, <3>2, <3>3 DEF RestTyped
    <2>3. RunnersTyped /\ \A r \in Runners: runner'[r] = runner[r]
      BY <1>2, CancelCommitActs, TypedParts DEF RunnersTyped
    <2> QED
      BY <1>f, <2>1, <2>2, <2>3, RequestTypedAgain
  <1>3. CASE CancelTidy(k)
    <2>1. RequestTyped(k)
      BY <1>3, CancelTidyActs, TypedParts DEF RequestTyped, Stands, Steps, Done, Asking
    <2>2. RestTyped
      <3>1. task' \in Tasks /\ tracked' \in Runners \union {NoRunner}
        BY <1>3, CancelTidyActs, TypedParts DEF Tasked, Begins, Stops
      <3>2. /\ attempts' \in Seq(AttemptRows) /\ Len(attempts') \in Nat
            /\ Len(attempts) <= Len(attempts') /\ Len(attempts') <= MaxAttempts
            /\ manifest' \in 0..Len(attempts')
        BY <1>3, CancelTidyActs, TypedParts
      <3>3. /\ transfer' \in [1..Peers -> TransferStates]
            /\ held' \in BOOLEAN /\ landed' \in BOOLEAN /\ faults' \in 0..MaxFaults
        BY <1>3, CancelTidyActs, TypedParts
      <3> QED
        BY <3>1, <3>2, <3>3 DEF RestTyped
    <2>3. RunnersTyped /\ \A r \in Runners: runner'[r] = runner[r]
      BY <1>3, CancelTidyActs, TypedParts DEF RunnersTyped
    <2> QED
      BY <1>f, <2>1, <2>2, <2>3, RequestTypedAgain
  <1>4. CASE NextAsk(k)
    <2>1. RequestTyped(k)
      BY <1>4, NextAskActs, TypedParts DEF RequestTyped, Stands, Steps, Done, Asking
    <2>2. RestTyped
      <3>1. task' \in Tasks /\ tracked' \in Runners \union {NoRunner}
        BY <1>4, NextAskActs, TypedParts DEF Tasked, Begins, Stops
      <3>2. UNCHANGED <<attempts, manifest, transfer, held, landed, faults>>
        BY <1>4, NextAskActs
      <3> QED
        BY <3>1, <3>2, RestKept
    <2>3. RunnersTyped /\ \A r \in Runners: runner'[r] = runner[r]
      BY <1>4, NextAskActs, TypedParts DEF RunnersTyped
    <2> QED
      BY <1>f, <2>1, <2>2, <2>3, RequestTypedAgain
  <1>5. CASE NextLook(k)
    <2>1. RequestTyped(k)
      BY <1>5, NextLookActs, TypedParts DEF RequestTyped, Stands, Steps, Done, Asking
    <2>2. RestTyped
      <3>1. task' \in Tasks /\ tracked' \in Runners \union {NoRunner}
        BY <1>5, NextLookActs, TypedParts DEF Tasked, Begins, Stops
      <3>2. UNCHANGED <<attempts, manifest, transfer, held, landed, faults>>
        BY <1>5, NextLookActs
      <3> QED
        BY <3>1, <3>2, RestKept
    <2>3. RunnersTyped /\ \A r \in Runners: runner'[r] = runner[r]
      BY <1>5, NextLookActs, TypedParts DEF RunnersTyped
    <2> QED
      BY <1>f, <2>1, <2>2, <2>3, RequestTypedAgain
  <1>6. CASE NextStop(k)
    <2>1. RequestTyped(k)
      BY <1>6, NextStopActs, TypedParts DEF RequestTyped, Stands, Steps, Done, Asking
    <2>2. RestTyped
      <3>1. task' \in Tasks /\ tracked' \in Runners \union {NoRunner}
        BY <1>6, NextStopActs, TypedParts DEF Tasked, Begins, Stops
      <3>2. UNCHANGED <<attempts, manifest, transfer, held, landed, faults>>
        BY <1>6, NextStopActs
      <3> QED
        BY <3>1, <3>2, RestKept
    <2>3. RunnersTyped /\ \A r \in Runners: runner'[r] = runner[r] \/ runner'[r].place \notin Attempting
      BY <1>6, <1>o, NextStopActs DEF Stops
    <2> QED
      BY <1>f, <2>1, <2>2, <2>3, RequestTypedAgain
  <1>7. CASE NextVerify(k)
    <2>1. RequestTyped(k)
      BY <1>7, NextVerifyActs, TypedParts DEF RequestTyped, Stands, Steps, Done, Asking
    <2>2. RestTyped
      <3>1. task' \in Tasks /\ tracked' \in Runners \union {NoRunner}
        BY <1>7, NextVerifyActs, TypedParts DEF Tasked, Begins, Stops
      <3>2. UNCHANGED <<attempts, manifest, transfer, held, landed, faults>>
        BY <1>7, NextVerifyActs
      <3> QED
        BY <3>1, <3>2, RestKept
    <2>3. RunnersTyped /\ \A r \in Runners: runner'[r] = runner[r] \/ runner'[r].place \notin Attempting
      BY <1>7, NextVerifyActs, TypedParts DEF Begins, Sits, RunnersTyped, Attempting
    <2> QED
      BY <1>f, <2>1, <2>2, <2>3, RequestTypedAgain
  <1>8. CASE NextAbort(k)
    <2>1. RequestTyped(k)
      BY <1>8, NextAbortActs, TypedParts DEF RequestTyped, Stands, Steps, Done, Asking
    <2>2. RestTyped
      <3>1. task' \in Tasks /\ tracked' \in Runners \union {NoRunner}
        BY <1>8, NextAbortActs, TypedParts DEF Tasked, Begins, Stops
      <3>2. /\ attempts' \in Seq(AttemptRows) /\ Len(attempts') \in Nat
            /\ Len(attempts) <= Len(attempts') /\ Len(attempts') <= MaxAttempts
            /\ manifest' \in 0..Len(attempts')
        BY <1>8, NextAbortActs, TypedParts
      <3>3. /\ transfer' \in [1..Peers -> TransferStates]
            /\ held' \in BOOLEAN /\ landed' \in BOOLEAN /\ faults' \in 0..MaxFaults
        BY <1>8, NextAbortActs, TypedParts
      <3> QED
        BY <3>1, <3>2, <3>3 DEF RestTyped
    <2>3. RunnersTyped /\ \A r \in Runners: runner'[r] = runner[r] \/ runner'[r].place \notin Attempting
      BY <1>8, NextAbortActs, TypedParts DEF Begins, Sits, RunnersTyped, Attempting
    <2> QED
      BY <1>f, <2>1, <2>2, <2>3, RequestTypedAgain
  <1>9. CASE NextSchedule(k)
    <2>4. attempts' \in Seq(AttemptRows) /\ Len(attempts') = Len(attempts)
      BY <1>9, NextScheduleActs, ScheduleActs, TypedParts
    <2>1. RequestTyped(k)
      BY <1>9, <2>4, NextScheduleActs, TypedParts DEF RequestTyped, Stands, Steps, Done, Asking
    <2>2. RestTyped
      <3>1. task' \in Tasks /\ tracked' \in Runners \union {NoRunner}
        BY <1>9, NextScheduleActs, TypedParts DEF Tasked, Begins, Stops
      <3>2. /\ attempts' \in Seq(AttemptRows) /\ Len(attempts') \in Nat
            /\ Len(attempts) <= Len(attempts') /\ Len(attempts') <= MaxAttempts
            /\ manifest' \in 0..Len(attempts')
        BY <1>9, <2>4, NextScheduleActs, TypedParts
      <3>3. /\ transfer' \in [1..Peers -> TransferStates]
            /\ held' \in BOOLEAN /\ landed' \in BOOLEAN /\ faults' \in 0..MaxFaults
        BY <1>9, NextScheduleActs, TypedParts
      <3> QED
        BY <3>1, <3>2, <3>3 DEF RestTyped
    <2>3. RunnersTyped /\ \A r \in Runners: runner'[r] = runner[r]
      BY <1>9, NextScheduleActs, TypedParts DEF RunnersTyped
    <2> QED
      BY <1>f, <2>1, <2>2, <2>3, RequestTypedAgain
  <1>10. CASE NextLink(k)
    <2>1. RequestTyped(k)
      BY ZenonT(60), <1>10, NextLinkActs, TypedParts DEF RequestTyped, Stands, Steps, Done, Asking
    <2>2. RestTyped
      <3>1. task' \in Tasks /\ tracked' \in Runners \union {NoRunner}
        BY <1>10, NextLinkActs, TypedParts DEF Tasked, Begins, Stops
      <3>2. UNCHANGED <<attempts, manifest, transfer, held, landed, faults>>
        BY <1>10, NextLinkActs
      <3> QED
        BY <3>1, <3>2, RestKept
    <2>3. RunnersTyped /\ \A r \in Runners: runner'[r] = runner[r]
      BY <1>10, NextLinkActs, TypedParts DEF RunnersTyped
    <2> QED
      BY <1>f, <2>1, <2>2, <2>3, RequestTypedAgain
  <1>11. CASE NextDispatch(k)
    <2>1. RequestTyped(k)
      BY <1>11, NextDispatchActs, TypedParts DEF RequestTyped, Stands, Steps, Done, Asking
    <2>2. RestTyped
      <3>1. task' \in Tasks /\ tracked' \in Runners \union {NoRunner}
        BY <1>11, NextDispatchActs, TypedParts DEF Tasked, Begins, Stops
      <3>2. UNCHANGED <<attempts, manifest, transfer, held, landed, faults>>
        BY <1>11, NextDispatchActs
      <3> QED
        BY <3>1, <3>2, RestKept
    <2>3. RunnersTyped /\ \A r \in Runners: runner'[r] = runner[r] \/ runner'[r].place \notin Attempting
      BY <1>11, NextDispatchActs, TypedParts DEF Begins, Sits, RunnersTyped, Attempting
    <2> QED
      BY <1>f, <2>1, <2>2, <2>3, RequestTypedAgain
  <1>12. CASE ReimportAsk(k)
    <2>1. RequestTyped(k)
      BY <1>12, ReimportAskActs, TypedParts DEF RequestTyped, Stands, Steps, Done, Asking
    <2>2. RestTyped
      <3>1. task' \in Tasks /\ tracked' \in Runners \union {NoRunner}
        BY <1>12, ReimportAskActs, TypedParts DEF Tasked, Begins, Stops
      <3>2. UNCHANGED <<attempts, manifest, transfer, held, landed, faults>>
        BY <1>12, ReimportAskActs
      <3> QED
        BY <3>1, <3>2, RestKept
    <2>3. RunnersTyped /\ \A r \in Runners: runner'[r] = runner[r]
      BY <1>12, ReimportAskActs, TypedParts DEF RunnersTyped
    <2> QED
      BY <1>f, <2>1, <2>2, <2>3, RequestTypedAgain
  <1>13. CASE ReimportAcquire(k)
    <2>1. RequestTyped(k)
      BY <1>13, ReimportAcquireActs, TypedParts DEF RequestTyped, Stands, Steps, Done, Asking
    <2>2. RestTyped
      <3>1. task' \in Tasks /\ tracked' \in Runners \union {NoRunner}
        BY <1>13, ReimportAcquireActs, TypedParts DEF Tasked, Begins, Stops
      <3>2. /\ attempts' \in Seq(AttemptRows) /\ Len(attempts') \in Nat
            /\ Len(attempts) <= Len(attempts') /\ Len(attempts') <= MaxAttempts
            /\ manifest' \in 0..Len(attempts')
        BY <1>13, ReimportAcquireActs, TypedParts
      <3>3. /\ transfer' \in [1..Peers -> TransferStates]
            /\ held' \in BOOLEAN /\ landed' \in BOOLEAN /\ faults' \in 0..MaxFaults
        BY <1>13, ReimportAcquireActs, TypedParts
      <3> QED
        BY <3>1, <3>2, <3>3 DEF RestTyped
    <2>3. RunnersTyped /\ \A r \in Runners: runner'[r] = runner[r]
      BY <1>13, ReimportAcquireActs, TypedParts DEF RunnersTyped
    <2> QED
      BY <1>f, <2>1, <2>2, <2>3, RequestTypedAgain
  <1>14. CASE ReimportStart(k)
    <2>1. RequestTyped(k)
      BY <1>14, ReimportStartActs, TypedParts DEF RequestTyped, Stands, Steps, Done, Asking
    <2>2. RestTyped
      <3>1. task' \in Tasks /\ tracked' \in Runners \union {NoRunner}
        BY <1>14, ReimportStartActs, TypedParts DEF Tasked, Begins, Stops
      <3>2. UNCHANGED <<attempts, manifest, transfer, held, landed, faults>>
        BY <1>14, ReimportStartActs
      <3> QED
        BY <3>1, <3>2, RestKept
    <2>3. RunnersTyped /\ \A r \in Runners: runner'[r] = runner[r]
      BY <1>14, ReimportStartActs, TypedParts DEF RunnersTyped
    <2> QED
      BY <1>f, <2>1, <2>2, <2>3, RequestTypedAgain
  <1>15. CASE ReimportFinish(k)
    <2>4. attempts' \in Seq(AttemptRows) /\ Len(attempts') = Len(attempts)
      <3>1. op[k].attempt \in 0..Len(attempts)
        BY <1>15, ReimportFinishActs, TypedParts DEF Asking
      <3> QED
        BY <1>15, <3>1, ReimportFinishActs, ScheduleActs, TypedParts
    <2>1. RequestTyped(k)
      BY <1>15, <2>4, ReimportFinishActs, TypedParts DEF RequestTyped, Stands, Steps, Done, Asking
    <2>2. RestTyped
      <3>1. task' \in Tasks /\ tracked' \in Runners \union {NoRunner}
        BY <1>15, ReimportFinishActs, TypedParts DEF Tasked, Begins, Stops
      <3>2. /\ attempts' \in Seq(AttemptRows) /\ Len(attempts') \in Nat
            /\ Len(attempts) <= Len(attempts') /\ Len(attempts') <= MaxAttempts
            /\ manifest' \in 0..Len(attempts')
        BY <1>15, <2>4, ReimportFinishActs, TypedParts
      <3>3. /\ transfer' \in [1..Peers -> TransferStates]
            /\ held' \in BOOLEAN /\ landed' \in BOOLEAN /\ faults' \in 0..MaxFaults
        BY <1>15, ReimportFinishActs, TypedParts
      <3> QED
        BY <3>1, <3>2, <3>3 DEF RestTyped
    <2>3. RunnersTyped /\ \A r \in Runners: runner'[r] = runner[r]
      BY <1>15, ReimportFinishActs, TypedParts DEF RunnersTyped
    <2> QED
      BY <1>f, <2>1, <2>2, <2>3, RequestTypedAgain
  <1>16. CASE SettleAsk(k)
    <2>1. RequestTyped(k)
      BY <1>16, SettleAskActs, TypedParts DEF RequestTyped, Stands, Steps, Done, Asking
    <2>2. RestTyped
      <3>1. task' \in Tasks /\ tracked' \in Runners \union {NoRunner}
        BY <1>16, SettleAskActs, TypedParts DEF Tasked, Begins, Stops
      <3>2. UNCHANGED <<attempts, manifest, transfer, held, landed, faults>>
        BY <1>16, SettleAskActs
      <3> QED
        BY <3>1, <3>2, RestKept
    <2>3. RunnersTyped /\ \A r \in Runners: runner'[r] = runner[r]
      BY <1>16, SettleAskActs, TypedParts DEF RunnersTyped
    <2> QED
      BY <1>f, <2>1, <2>2, <2>3, RequestTypedAgain
  <1>17. CASE SettleWrite(k)
    <2>1. RequestTyped(k)
      BY <1>17, SettleWriteActs, TypedParts DEF RequestTyped, Stands, Steps, Done, Asking
    <2>2. RestTyped
      <3>1. task' \in Tasks /\ tracked' \in Runners \union {NoRunner}
        BY <1>17, SettleWriteActs, TypedParts DEF Tasked, Begins, Stops
      <3>a. UNCHANGED attempts /\ (manifest' = 0 \/ UNCHANGED manifest)
        BY <1>17, SettleWriteActs
      <3>2. /\ attempts' \in Seq(AttemptRows) /\ Len(attempts') \in Nat
            /\ Len(attempts) <= Len(attempts') /\ Len(attempts') <= MaxAttempts
            /\ manifest' \in 0..Len(attempts')
        BY <3>a, TypedParts
      <3>3. /\ transfer' \in [1..Peers -> TransferStates]
            /\ held' \in BOOLEAN /\ landed' \in BOOLEAN /\ faults' \in 0..MaxFaults
        BY <1>17, SettleWriteActs, TypedParts
      <3> QED
        BY <3>1, <3>2, <3>3 DEF RestTyped
    <2>3. RunnersTyped /\ \A r \in Runners: runner'[r] = runner[r]
      BY <1>17, SettleWriteActs, TypedParts DEF RunnersTyped
    <2> QED
      BY <1>f, <2>1, <2>2, <2>3, RequestTypedAgain
  <1>18. CASE RetryAsk(k)
    <2>1. RequestTyped(k)
      BY <1>18, RetryAskActs, TypedParts DEF RequestTyped, Stands, Steps, Done, Asking
    <2>2. RestTyped
      <3>1. task' \in Tasks /\ tracked' \in Runners \union {NoRunner}
        BY <1>18, RetryAskActs, TypedParts DEF Tasked, Begins, Stops
      <3>2. UNCHANGED <<attempts, manifest, transfer, held, landed, faults>>
        BY <1>18, RetryAskActs
      <3> QED
        BY <3>1, <3>2, RestKept
    <2>3. RunnersTyped /\ \A r \in Runners: runner'[r] = runner[r]
      BY <1>18, RetryAskActs, TypedParts DEF RunnersTyped
    <2> QED
      BY <1>f, <2>1, <2>2, <2>3, RequestTypedAgain
  <1>19. CASE RetryWrite(k)
    <2>1. RequestTyped(k)
      BY <1>19, RetryWriteActs, TypedParts DEF RequestTyped, Stands, Steps, Done, Asking
    <2>2. RestTyped
      <3>1. task' \in Tasks /\ tracked' \in Runners \union {NoRunner}
        BY <1>19, RetryWriteActs, TypedParts DEF Tasked, Begins, Stops
      <3>2. /\ attempts' \in Seq(AttemptRows) /\ Len(attempts') \in Nat
            /\ Len(attempts) <= Len(attempts') /\ Len(attempts') <= MaxAttempts
            /\ manifest' \in 0..Len(attempts')
        BY <1>19, RetryWriteActs, TypedParts
      <3>3. /\ transfer' \in [1..Peers -> TransferStates]
            /\ held' \in BOOLEAN /\ landed' \in BOOLEAN /\ faults' \in 0..MaxFaults
        BY <1>19, RetryWriteActs, TypedParts
      <3> QED
        BY <3>1, <3>2, <3>3 DEF RestTyped
    <2>3. RunnersTyped /\ \A r \in Runners: runner'[r] = runner[r]
      BY <1>19, RetryWriteActs, TypedParts DEF RunnersTyped
    <2> QED
      BY <1>f, <2>1, <2>2, <2>3, RequestTypedAgain
  <1>20. CASE PickAsk(k)
    <2>1. RequestTyped(k)
      BY <1>20, PickAskActs, TypedParts DEF RequestTyped, Stands, Steps, Done, Asking
    <2>2. RestTyped
      <3>1. task' \in Tasks /\ tracked' \in Runners \union {NoRunner}
        BY <1>20, PickAskActs, TypedParts DEF Tasked, Begins, Stops
      <3>2. UNCHANGED <<attempts, manifest, transfer, held, landed, faults>>
        BY <1>20, PickAskActs
      <3> QED
        BY <3>1, <3>2, RestKept
    <2>3. RunnersTyped /\ \A r \in Runners: runner'[r] = runner[r]
      BY <1>20, PickAskActs, TypedParts DEF RunnersTyped
    <2> QED
      BY <1>f, <2>1, <2>2, <2>3, RequestTypedAgain
  <1>21. CASE PickLink(k)
    <2>1. RequestTyped(k)
      BY <1>21, PickLinkActs, TypedParts DEF RequestTyped, Stands, Steps, Done, Asking
    <2>2. RestTyped
      <3>1. task' \in Tasks /\ tracked' \in Runners \union {NoRunner}
        BY <1>21, PickLinkActs, TypedParts DEF Tasked, Begins, Stops
      <3>2. UNCHANGED <<attempts, manifest, transfer, held, landed, faults>>
        BY <1>21, PickLinkActs
      <3> QED
        BY <3>1, <3>2, RestKept
    <2>3. RunnersTyped /\ \A r \in Runners: runner'[r] = runner[r] \/ runner'[r].place \notin Attempting
      BY <1>21, PickLinkActs, TypedParts DEF Begins, Sits, RunnersTyped, Attempting
    <2> QED
      BY <1>f, <2>1, <2>2, <2>3, RequestTypedAgain
  <1> QED
    BY <1>1, <1>2, <1>3, <1>4, <1>5, <1>6, <1>7, <1>8, <1>9, <1>10, <1>11, <1>12, <1>13, <1>14,
       <1>15, <1>16, <1>17, <1>18, <1>19, <1>20, <1>21 DEF RequestStep, Request

\* The other steps do.
LEMMA OtherStepTyped ==
  ASSUME Typed,
         \/ \E c \in 1..Peers: TransferMoves(c)
         \/ \E i \in 1..Len(attempts): CleanupSettles(i)
         \/ ReapFind \/ ReapFail \/ Ages \/ OtherImport \/ CrashAndResume
  PROVE  Typed'
  <1>a. ASSUME RestTyped, UNCHANGED <<runner, op, lock, crashes>>, reaping' \in BOOLEAN
        PROVE  Typed'
    BY <1>a, TypedParts DEF RestTyped, Typed, TypeOK
  <1>1. ASSUME NEW c \in 1..Peers, TransferMoves(c) PROVE Typed'
    <2>1. RestTyped /\ UNCHANGED <<runner, op, lock, crashes>> /\ reaping' \in BOOLEAN
      BY <1>1, TransferMovesActs, TypedParts DEF RestTyped, bounds
    <2> QED
      BY <1>a, <2>1
  <1>2. ASSUME NEW i \in 1..Len(attempts), CleanupSettles(i) PROVE Typed'
    <2>1. RestTyped /\ UNCHANGED <<runner, op, lock, crashes>> /\ reaping' \in BOOLEAN
      BY <1>2, CleanupSettlesActs, TypedParts DEF RestTyped, bounds
    <2> QED
      BY <1>a, <2>1
  <1>3. CASE ReapFind
    <2>1. RestTyped /\ UNCHANGED <<runner, op, lock, crashes>> /\ reaping' \in BOOLEAN
      BY <1>3, ReapFindActs, TypedParts DEF RestTyped, bounds
    <2> QED
      BY <1>a, <2>1
  <1>4. CASE ReapFail
    <2>1. RestTyped /\ UNCHANGED <<runner, op, lock, crashes>> /\ reaping' \in BOOLEAN
      BY <1>4, ReapFailActs, TypedParts DEF RestTyped, bounds, Tasked
    <2> QED
      BY <1>a, <2>1
  <1>5. CASE Ages
    <2>1. RestTyped /\ UNCHANGED <<runner, op, lock, crashes>> /\ reaping' \in BOOLEAN
      BY <1>5, AgesActs, TypedParts DEF RestTyped, bounds, Tasked
    <2> QED
      BY <1>a, <2>1
  <1>6. CASE OtherImport
    <2>1. RestTyped /\ UNCHANGED <<runner, op, lock, crashes>> /\ reaping' \in BOOLEAN
      BY <1>6, TypedParts DEF RestTyped, OtherImport, OthersFrame, rows, bounds
    <2> QED
      BY <1>a, <2>1
  <1>7. CASE CrashAndResume
    <2>1. RestTyped
      BY <1>7, CrashActs, TypedParts DEF RestTyped
    <2>2. \A r \in Runners: runner'[r].place \notin Attempting
      BY <1>7, CrashActs DEF Attempting
    <2>3. \A k \in Callers: op'[k].place \notin Asking
      BY <1>7, CrashActs DEF Asking
    <2>4. /\ RunnersTyped /\ op' \in [Callers -> OpStates] /\ lock' = NoCaller /\ reaping' = FALSE
          /\ crashes' \in 0..MaxCrashes
      BY <1>7, CrashActs
    <2> QED
      BY <2>1, <2>2, <2>3, <2>4 DEF RestTyped, RunnersTyped, Typed, TypeOK
  <1> QED
    BY <1>1, <1>2, <1>3, <1>4, <1>5, <1>6, <1>7

\* A download begins with its types.
LEMMA InitTyped ==
  ASSUME Init
  PROVE  /\ Typed /\ attempts = <<>> /\ Len(attempts) = 0
         /\ \A r \in Runners: /\ runner[r].place = IF r = tracked THEN "start" ELSE "idle"
                              /\ runner[r].status = "queued" /\ runner[r].cand = 0
         /\ \A k \in Callers: op[k].place = "idle"
         /\ \A c \in 1..Peers: transfer[c] = "none"
  <1>1. task \in Tasks
    BY DEF Init, Tasks, Statuses, Active
  <1>2. attempts = <<>> /\ attempts \in Seq(AttemptRows) /\ Len(attempts) = 0 /\ manifest = 0
    BY EmptySeq DEF Init
  <1>3. transfer \in [1..Peers -> TransferStates] /\ \A c \in 1..Peers: transfer[c] = "none"
    BY DEF Init, TransferStates
  <1> DEFINE A == [Off EXCEPT !.place = "start", !.listed = TRUE]
  <1>4. /\ Shaped(Off, "idle", "queued", 0, 0, "none", 0, "discard", FALSE)
        /\ Shaped(A, "start", "queued", 0, 0, "none", 0, "discard", FALSE)
    <2>1. "start" \in Places
      BY DEF Places
    <2> QED
      BY <2>1, OffShaped
  <1>5. runner = [r \in Runners |-> IF r = tracked THEN A ELSE Off]
    BY DEF Init
  <1> HIDE DEF A
  <1>6. /\ runner \in [Runners -> RunnerStates]
        /\ \A r \in Runners: /\ runner[r].place = IF r = tracked THEN "start" ELSE "idle"
                             /\ runner[r].status = "queued" /\ runner[r].cand = 0
    BY <1>4, <1>5 DEF Shaped
  <1>7. op \in [Callers -> OpStates] /\ \A k \in Callers: op[k].place = "idle"
    <2>1. NoOp \in OpStates /\ NoOp.place = "idle"
      BY DEF NoOp, OpStates, Statuses, Active
    <2> QED
      BY <2>1 DEF Init
  <1>8. TypeOK
    <2>1. /\ tracked \in Runners \union {NoRunner} /\ lock \in Callers \union {NoCaller}
          /\ reaping \in BOOLEAN /\ held \in BOOLEAN /\ landed \in BOOLEAN
          /\ faults \in 0..MaxFaults /\ crashes \in 0..MaxCrashes
      <3>1. /\ tracked \in Runners /\ lock = NoCaller /\ reaping = FALSE /\ held = FALSE
            /\ landed = FALSE /\ faults = 0 /\ crashes = 0
        BY DEF Init
      <3>2. reaping \in BOOLEAN /\ held \in BOOLEAN /\ landed \in BOOLEAN
        BY <3>1, Zenon
      <3>3. tracked \in Runners /\ lock = NoCaller /\ faults = 0 /\ crashes = 0
        BY DEF Init
      <3> QED
        BY <3>2, <3>3
    <2>2. Len(attempts) <= MaxAttempts /\ manifest \in 0..Len(attempts)
      BY <1>2
    <2> QED
      BY <1>1, <1>2, <1>3, <1>6, <1>7, <2>1, <2>2 DEF TypeOK
  <1>9. (\A r \in Runners: runner[r].place \notin Attempting) /\ \A k \in Callers: op[k].place \notin Asking
    BY <1>6, <1>7 DEF Attempting, Asking
  <1> QED
    BY <1>2, <1>3, <1>6, <1>7, <1>8, <1>9 DEF Typed

\* Every step keeps the types.
LEMMA NextTyped ==
  ASSUME Typed, [Next]_vars
  PROVE  Typed'
  <1>1. CASE UNCHANGED vars
    BY <1>1 DEF vars, Typed, TypeOK
  <1>2. CASE Next
    BY <1>2, RunnerStepTyped, RequestStepTyped, OtherStepTyped DEF Next
  <1> QED
    BY <1>1, <1>2

\* The variables keep their types, whoever interferes (the rows of download_tasks and
\* download_attempts, _active_tasks and the state of every coroutine); a coroutine that
\* works on an attempt knows the number of a row of the journal.
THEOREM TypeCorrect == Spec => []TypeOK
  <1>1. Init => Typed
    BY InitTyped
  <1>2. Typed /\ [Next]_vars => Typed'
    BY NextTyped
  <1>3. Typed => TypeOK
    BY DEF Typed
  <1> QED
    BY <1>1, <1>2, <1>3, PTL DEF Spec
-----------------------------------------------------------------------------
(* One coroutine drives the download.                                       *)

\* The places where a request holds the operation lock, and those where it has stopped
\* the runner.
Locking == {"cancel_tidy", "next_look", "next_stop", "next_verify", "next_abort", "next_schedule",
            "next_link", "next_dispatch", "reimport", "reimport_start", "reimport_import"}
\* Those of a manual switch after it has stopped the runner.
Stopping == {"next_verify", "next_abort", "next_schedule", "next_link", "next_dispatch"}

\* A runner that steps is live, stays the tracked one if it goes on, and leaves the others
\* and the requests alone.
LEMMA RunnerStepLives ==
  ASSUME Typed, NEW r \in Runners, RunnerStep(r)
  PROVE  /\ IsLive(r) /\ RunnersTyped /\ \A q \in Runners \ {r}: runner'[q] = runner[q]
         /\ \/ UNCHANGED tracked
            \/ /\ runner'[r].place = "idle" /\ tracked' = IF tracked = r THEN NoRunner ELSE tracked
         /\ UNCHANGED <<op, lock, reaping, crashes>>
  <1>f. UNCHANGED <<op, lock, reaping, crashes>>
    BY DEF RunnerStep, ProcessTask, ResumeTask, Search, Prepare, Open, Journal, Send, Outage, Handle,
           PollStops, PollGoesOn, PollEnds, PollBreaks, Recheck, Prefer, Process, Import, Decide,
           Abort, Schedule, Link, Reset, Finalize, Tidy, Fail, RunnerFrame, requests, Fault
  <1> DEFINE P == /\ IsLive(r) /\ RunnersTyped /\ \A q \in Runners \ {r}: runner'[q] = runner[q]
                  /\ \/ UNCHANGED tracked
                     \/ /\ runner'[r].place = "idle"
                        /\ tracked' = IF tracked = r THEN NoRunner ELSE tracked
  <1>1. ASSUME ProcessTask(r) PROVE P
    BY <1>1, ProcessTaskActs
       DEF Sits, Walks, Reads, Ends, Polls, Finishes, Refused, IsLive
  <1>2. ASSUME ResumeTask(r) PROVE P
    BY <1>2, ResumeTaskActs
       DEF Sits, Walks, Reads, Ends, Polls, Finishes, Refused, IsLive
  <1>3. ASSUME Search(r) PROVE P
    BY <1>3, SearchActs
       DEF Sits, Walks, Reads, Ends, Polls, Finishes, Refused, IsLive
  <1>4. ASSUME Prepare(r) PROVE P
    BY <1>4, PrepareActs
       DEF Sits, Walks, Reads, Ends, Polls, Finishes, Refused, IsLive
  <1>5. ASSUME Open(r) PROVE P
    BY <1>5, OpenActs
       DEF Sits, Walks, Reads, Ends, Polls, Finishes, Refused, IsLive
  <1>6. ASSUME Journal(r) PROVE P
    BY <1>6, JournalActs
       DEF Sits, Walks, Reads, Ends, Polls, Finishes, Refused, IsLive
  <1>7. ASSUME Send(r) PROVE P
    BY <1>7, SendActs
       DEF Sits, Walks, Reads, Ends, Polls, Finishes, Refused, IsLive
  <1>8. ASSUME Outage(r) PROVE P
    BY <1>8, OutageActs
       DEF Sits, Walks, Reads, Ends, Polls, Finishes, Refused, IsLive
  <1>9. ASSUME Handle(r) PROVE P
    BY <1>9, HandleActs
       DEF Sits, Walks, Reads, Ends, Polls, Finishes, Refused, IsLive
  <1>10. ASSUME PollStops(r) PROVE P
    BY <1>10, PollStopsActs
       DEF Sits, Walks, Reads, Ends, Polls, Finishes, Refused, IsLive
  <1>11. ASSUME PollGoesOn(r) PROVE P
    BY <1>11, PollGoesOnActs, TypedParts
       DEF Sits, Walks, Reads, Ends, Polls, Finishes, Refused, IsLive, RunnersTyped
  <1>12. ASSUME PollEnds(r) PROVE P
    BY <1>12, PollEndsActs
       DEF Sits, Walks, Reads, Ends, Polls, Finishes, Refused, IsLive
  <1>13. ASSUME PollBreaks(r) PROVE P
    BY <1>13, PollBreaksActs
       DEF Sits, Walks, Reads, Ends, Polls, Finishes, Refused, IsLive
  <1>14. ASSUME Recheck(r) PROVE P
    BY <1>14, RecheckActs
       DEF Sits, Walks, Reads, Ends, Polls, Finishes, Refused, IsLive
  <1>15. ASSUME Prefer(r) PROVE P
    BY <1>15, PreferActs
       DEF Sits, Walks, Reads, Ends, Polls, Finishes, Refused, IsLive
  <1>16. ASSUME Process(r) PROVE P
    BY <1>16, ProcessActs
       DEF Sits, Walks, Reads, Ends, Polls, Finishes, Refused, IsLive
  <1>17. ASSUME Import(r) PROVE P
    BY <1>17, ImportActs
       DEF Sits, Walks, Reads, Ends, Polls, Finishes, Refused, IsLive
  <1>18. ASSUME Decide(r) PROVE P
    BY <1>18, DecideActs
       DEF Sits, Walks, Reads, Ends, Polls, Finishes, Refused, IsLive
  <1>19. ASSUME Abort(r) PROVE P
    BY <1>19, AbortActs
       DEF Sits, Walks, Reads, Ends, Polls, Finishes, Refused, IsLive
  <1>20. ASSUME Schedule(r) PROVE P
    BY <1>20, ScheduleStepActs
       DEF Sits, Walks, Reads, Ends, Polls, Finishes, Refused, IsLive
  <1>21. ASSUME Link(r) PROVE P
    BY <1>21, LinkActs
       DEF Sits, Walks, Reads, Ends, Polls, Finishes, Refused, IsLive
  <1>22. ASSUME Reset(r) PROVE P
    BY <1>22, ResetActs
       DEF Sits, Walks, Reads, Ends, Polls, Finishes, Refused, IsLive
  <1>23. ASSUME Finalize(r) PROVE P
    BY <1>23, FinalizeActs
       DEF Sits, Walks, Reads, Ends, Polls, Finishes, Refused, IsLive
  <1>24. ASSUME Tidy(r) PROVE P
    BY <1>24, TidyActs
       DEF Sits, Walks, Reads, Ends, Polls, Finishes, Refused, IsLive
  <1>25. ASSUME Fail(r) PROVE P
    BY <1>25, FailActs
       DEF Sits, Walks, Reads, Ends, Polls, Finishes, Refused, IsLive
  <1> HIDE DEF P
  <1>p. P
    BY <1>1, <1>2, <1>3, <1>4, <1>5, <1>6, <1>7, <1>8, <1>9, <1>10, <1>11, <1>12, <1>13, <1>14,
       <1>15, <1>16, <1>17, <1>18, <1>19, <1>20, <1>21, <1>22, <1>23, <1>24, <1>25 DEF RunnerStep, P
  <1> QED
    BY <1>f, <1>p DEF P

\* A request leaves the runners alone, stops the tracked one, or begins one after it has
\* stopped the tracked one or for a pick.
LEMMA RequestStepLives ==
  ASSUME Typed, NEW k \in Callers, RequestStep(k) \/ Request(k)
  PROVE  /\ \A q \in Callers \ {k}: op'[q] = op[q]
         /\ \/ /\ UNCHANGED <<runner, tracked>>
               /\ (op'[k].place \in Stopping => op[k].place \in Stopping)
            \/ Stops
            \/ /\ \E r \in Runners: Begins(r, "start") \/ Begins(r, "resume")
               /\ op[k].place \in Stopping \union {"pick"} /\ op'[k].place = "done"
         /\ op'[k].place = "pick" => "pick" \in Actors
         /\ UNCHANGED <<reaping, crashes>>
  <1>f. UNCHANGED <<reaping, crashes>>
    BY DEF RequestStep, Request, CancelAsk, CancelCommit, CancelWrites, CancelTidy, NextAsk, NextLook,
           NextStop, NextVerify, NextAbort, NextSchedule, NextLink, NextDispatch, ReimportAsk,
           ReimportAcquire, ReimportStart, ReimportFinish, SettleAsk, SettleWrite, RetryAsk,
           RetryWrite, PickAsk, PickLink, OpFrame, Fault
  <1> DEFINE P == /\ \A q \in Callers \ {k}: op'[q] = op[q]
                  /\ \/ /\ UNCHANGED <<runner, tracked>>
                        /\ (op'[k].place \in Stopping => op[k].place \in Stopping)
                     \/ Stops
                     \/ /\ \E r \in Runners: Begins(r, "start") \/ Begins(r, "resume")
                        /\ op[k].place \in Stopping \union {"pick"} /\ op'[k].place = "done"
                  /\ op'[k].place = "pick" => "pick" \in Actors
  <1>1. ASSUME CancelAsk(k) PROVE P
    BY <1>1, CancelAskActs DEF Stands, Steps, Done, Stopping
  <1>2. ASSUME CancelCommit(k) PROVE P
    BY <1>2, CancelCommitActs DEF Stands, Steps, Done, Stopping
  <1>3. ASSUME CancelTidy(k) PROVE P
    BY <1>3, CancelTidyActs DEF Stands, Steps, Done, Stopping
  <1>4. ASSUME NextAsk(k) PROVE P
    BY <1>4, NextAskActs DEF Stands, Steps, Done, Stopping
  <1>5. ASSUME NextLook(k) PROVE P
    BY <1>5, NextLookActs DEF Stands, Steps, Done, Stopping
  <1>6. ASSUME NextStop(k) PROVE P
    BY <1>6, NextStopActs DEF Stands, Steps, Done, Stopping
  <1>7. ASSUME NextVerify(k) PROVE P
    BY <1>7, NextVerifyActs DEF Stands, Steps, Done, Stopping
  <1>8. ASSUME NextAbort(k) PROVE P
    BY <1>8, NextAbortActs DEF Stands, Steps, Done, Stopping
  <1>9. ASSUME NextSchedule(k) PROVE P
    BY <1>9, NextScheduleActs DEF Stands, Steps, Done, Stopping
  <1>10. ASSUME NextLink(k) PROVE P
    BY <1>10, NextLinkActs DEF Stands, Steps, Done, Stopping
  <1>11. ASSUME NextDispatch(k) PROVE P
    BY <1>11, NextDispatchActs DEF Stands, Steps, Done, Stopping
  <1>12. ASSUME ReimportAsk(k) PROVE P
    BY <1>12, ReimportAskActs DEF Stands, Steps, Done, Stopping
  <1>13. ASSUME ReimportAcquire(k) PROVE P
    BY <1>13, ReimportAcquireActs DEF Stands, Steps, Done, Stopping
  <1>14. ASSUME ReimportStart(k) PROVE P
    BY <1>14, ReimportStartActs DEF Stands, Steps, Done, Stopping
  <1>15. ASSUME ReimportFinish(k) PROVE P
    BY <1>15, ReimportFinishActs DEF Stands, Steps, Done, Stopping
  <1>16. ASSUME SettleAsk(k) PROVE P
    BY <1>16, SettleAskActs DEF Stands, Steps, Done, Stopping
  <1>17. ASSUME SettleWrite(k) PROVE P
    BY <1>17, SettleWriteActs DEF Stands, Steps, Done, Stopping
  <1>18. ASSUME RetryAsk(k) PROVE P
    BY <1>18, RetryAskActs DEF Stands, Steps, Done, Stopping
  <1>19. ASSUME RetryWrite(k) PROVE P
    BY <1>19, RetryWriteActs DEF Stands, Steps, Done, Stopping
  <1>20. ASSUME PickAsk(k) PROVE P
    BY <1>20, PickAskActs DEF Stands, Steps, Done, Stopping
  <1>21. ASSUME PickLink(k) PROVE P
    BY <1>21, PickLinkActs DEF Stands, Steps, Done, Stopping
  <1> HIDE DEF P
  <1>p. P
    BY <1>1, <1>2, <1>3, <1>4, <1>5, <1>6, <1>7, <1>8, <1>9, <1>10, <1>11, <1>12, <1>13, <1>14,
       <1>15, <1>16, <1>17, <1>18, <1>19, <1>20, <1>21 DEF RequestStep, Request, P
  <1> QED
    BY <1>f, <1>p DEF P

\* A request holds the operation lock where it has to: at most one does.
Locked == \A k \in Callers: op[k].place \in Locking => lock = k

\* A step of a request keeps that.
LEMMA RequestStepLocks ==
  ASSUME Typed, Locked, NEW k \in Callers, RequestStep(k) \/ Request(k)
  PROVE  Locked'
  <1> DEFINE P == /\ \A q \in Callers \ {k}: op'[q] = op[q]
                  /\ op'[k].place \in Locking => lock' = k
                  /\ UNCHANGED lock \/ lock = NoCaller \/ lock = k
  <1>1. ASSUME CancelAsk(k) PROVE P
    BY <1>1, CancelAskActs DEF Stands, Steps, Done, Locking, Locked
  <1>2. ASSUME CancelCommit(k) PROVE P
    BY <1>2, CancelCommitActs DEF Stands, Steps, Done, Locking, Locked
  <1>3. ASSUME CancelTidy(k) PROVE P
    BY <1>3, CancelTidyActs DEF Stands, Steps, Done, Locking, Locked
  <1>4. ASSUME NextAsk(k) PROVE P
    BY <1>4, NextAskActs DEF Stands, Steps, Done, Locking, Locked
  <1>5. ASSUME NextLook(k) PROVE P
    BY <1>5, NextLookActs DEF Stands, Steps, Done, Locking, Locked
  <1>6. ASSUME NextStop(k) PROVE P
    BY <1>6, NextStopActs DEF Stands, Steps, Done, Locking, Locked
  <1>7. ASSUME NextVerify(k) PROVE P
    BY <1>7, NextVerifyActs DEF Stands, Steps, Done, Locking, Locked
  <1>8. ASSUME NextAbort(k) PROVE P
    BY <1>8, NextAbortActs DEF Stands, Steps, Done, Locking, Locked
  <1>9. ASSUME NextSchedule(k) PROVE P
    BY <1>9, NextScheduleActs DEF Stands, Steps, Done, Locking, Locked
  <1>10. ASSUME NextLink(k) PROVE P
    BY <1>10, NextLinkActs DEF Stands, Steps, Done, Locking, Locked
  <1>11. ASSUME NextDispatch(k) PROVE P
    BY <1>11, NextDispatchActs DEF Stands, Steps, Done, Locking, Locked
  <1>12. ASSUME ReimportAsk(k) PROVE P
    BY <1>12, ReimportAskActs DEF Stands, Steps, Done, Locking, Locked
  <1>13. ASSUME ReimportAcquire(k) PROVE P
    BY <1>13, ReimportAcquireActs DEF Stands, Steps, Done, Locking, Locked
  <1>14. ASSUME ReimportStart(k) PROVE P
    BY <1>14, ReimportStartActs DEF Stands, Steps, Done, Locking, Locked
  <1>15. ASSUME ReimportFinish(k) PROVE P
    BY <1>15, ReimportFinishActs DEF Stands, Steps, Done, Locking, Locked
  <1>16. ASSUME SettleAsk(k) PROVE P
    BY <1>16, SettleAskActs DEF Stands, Steps, Done, Locking, Locked
  <1>17. ASSUME SettleWrite(k) PROVE P
    BY <1>17, SettleWriteActs DEF Stands, Steps, Done, Locking, Locked
  <1>18. ASSUME RetryAsk(k) PROVE P
    BY <1>18, RetryAskActs DEF Stands, Steps, Done, Locking, Locked
  <1>19. ASSUME RetryWrite(k) PROVE P
    BY <1>19, RetryWriteActs DEF Stands, Steps, Done, Locking, Locked
  <1>20. ASSUME PickAsk(k) PROVE P
    BY <1>20, PickAskActs DEF Stands, Steps, Done, Locking, Locked
  <1>21. ASSUME PickLink(k) PROVE P
    BY <1>21, PickLinkActs DEF Stands, Steps, Done, Locking, Locked
  <1> HIDE DEF P
  <1>p. P
    BY <1>1, <1>2, <1>3, <1>4, <1>5, <1>6, <1>7, <1>8, <1>9, <1>10, <1>11, <1>12, <1>13, <1>14,
       <1>15, <1>16, <1>17, <1>18, <1>19, <1>20, <1>21 DEF RequestStep, Request, P
  <1> QED
    BY <1>p DEF P, Locked
\* The steps that are neither a runner's nor a request's, but for a restart, leave runners
\* and requests alone.
OtherStep ==
  \/ \E c \in 1..Peers: TransferMoves(c)
  \/ \E i \in 1..Len(attempts): CleanupSettles(i)
  \/ ReapFind \/ ReapFail \/ Ages \/ OtherImport

\* These leave the runners, the requests and the bounds alone.
LEMMA OtherStepLives ==
  ASSUME OtherStep
  PROVE  UNCHANGED <<runner, tracked, op, lock, bounds>>
  BY DEF OtherStep, TransferMoves, CleanupSettles, ReapFind, ReapFail, Ages, OtherImport, OthersFrame

\* What a step is a step of.
LEMMA NextCases ==
  ASSUME [Next]_vars
  PROVE  \/ \E r \in Runners: RunnerStep(r)
         \/ \E k \in Callers: RequestStep(k) \/ Request(k)
         \/ OtherStep \/ CrashAndResume \/ UNCHANGED vars
  BY DEF Next, OtherStep

\* The operation lock, in every step.
LEMMA NextLocked ==
  ASSUME Typed, Locked, [Next]_vars
  PROVE  Locked'
  <1>1. ASSUME NEW r \in Runners, RunnerStep(r) PROVE Locked'
    BY <1>1, RunnerStepLives DEF Locked
  <1>2. ASSUME NEW k \in Callers, RequestStep(k) \/ Request(k) PROVE Locked'
    BY <1>2, RequestStepLocks
  <1>3. CASE OtherStep
    BY <1>3, OtherStepLives DEF Locked
  <1>4. CASE CrashAndResume
    BY <1>4, CrashActs DEF Locked, Locking
  <1>5. CASE UNCHANGED vars
    BY <1>5 DEF vars, Locked
  <1> QED
    BY <1>1, <1>2, <1>3, <1>4, <1>5, NextCases

\* One coroutine at most drives the download, the tracked one; none does while a manual
\* switch has stopped it.
Driven ==
  /\ \A r \in Runners: IsLive(r) => tracked = r
  /\ \A k \in Callers: op[k].place \in Stopping => \A r \in Runners: ~IsLive(r)
\* Nobody is about to start a coroutine by a pick,
Unpicked == \A k \in Callers: op[k].place # "pick"
\* or who does picks for a download that is parked, alone and while no switch is under way.
Picked ==
  \A k \in Callers: op[k].place = "pick" =>
    /\ task.cand = 0 /\ \A r \in Runners: ~IsLive(r)
    /\ \A q \in Callers: op[q].place \notin Stopping

\* A step of a request keeps that, for the lock is its own while it has stopped the runner.
LEMMA RequestStepDriven ==
  ASSUME Typed, Locked, Driven, Picked, NEW k \in Callers, RequestStep(k) \/ Request(k)
  PROVE  Driven'
  <1> USE DEF Driven
  <1>o. Off.place = "idle"
    BY DEF Off
  <1>a. tracked \in Runners \union {NoRunner}
    BY TypedParts
  <1>2. CASE UNCHANGED <<runner, tracked>> /\ (op'[k].place \in Stopping => op[k].place \in Stopping)
    <2>1. \A r \in Runners: IsLive(r)' = IsLive(r)
      BY <1>2 DEF IsLive
    <2> QED
      BY <1>2, <2>1, RequestStepLives
  <1>3. CASE Stops
    <2>1. \A r \in Runners: ~IsLive(r)'
      BY <1>3, <1>o DEF Stops, IsLive
    <2> QED
      BY <2>1
  <1>4. CASE /\ \E r \in Runners: Begins(r, "start") \/ Begins(r, "resume")
             /\ op[k].place \in Stopping \union {"pick"} /\ op'[k].place = "done"
    <2>1. PICK r \in Runners: Begins(r, "start") \/ Begins(r, "resume")
      BY <1>4
    <2>3. \A q \in Runners: ~IsLive(q)
      BY <1>4 DEF Picked
    <2>4. tracked' = r /\ \A q \in Runners \ {r}: ~IsLive(q)'
      BY <2>1, <2>3 DEF Begins, Sits, IsLive
    <2>5. \A q \in Callers \ {k}: op'[q].place \notin Stopping
      BY <1>4, RequestStepLives DEF Locked, Stopping, Locking, Picked
    <2>6. op'[k].place \notin Stopping
      BY <1>4 DEF Stopping
    <2> QED
      BY <2>4, <2>5, <2>6
  <1> QED
    BY <1>2, <1>3, <1>4, RequestStepLives

\* Every step keeps that.
LEMMA StepDriven ==
  ASSUME Typed, Locked, Driven, Picked, [Next]_vars
  PROVE  Driven'
  <1>1. ASSUME NEW r \in Runners, RunnerStep(r) PROVE Driven'
    <2>1. IsLive(r) /\ tracked = r
      BY <1>1, RunnerStepLives DEF Driven
    <2>2. \A q \in Runners \ {r}: ~IsLive(q)'
      BY <1>1, <2>1, RunnerStepLives DEF Driven, IsLive
    <2>3. IsLive(r)' => tracked' = r
      BY <1>1, <2>1, RunnerStepLives DEF IsLive
    <2>4. \A k \in Callers: op'[k].place \notin Stopping
      BY <1>1, <2>1, RunnerStepLives DEF Driven
    <2> QED
      BY <2>2, <2>3, <2>4 DEF Driven
  <1>2. ASSUME NEW k \in Callers, RequestStep(k) \/ Request(k) PROVE Driven'
    BY <1>2, RequestStepDriven
  <1>3. CASE OtherStep
    BY <1>3, OtherStepLives DEF Driven, IsLive
  <1>4. CASE CrashAndResume
    <2>1. \A r \in Runners: IsLive(r)' => tracked' = r
      BY <1>4, CrashActs DEF IsLive
    <2>2. \A k \in Callers: op'[k].place \notin Stopping
      BY <1>4, CrashActs DEF Stopping
    <2> QED
      BY <2>1, <2>2 DEF Driven
  <1>5. CASE UNCHANGED vars
    BY <1>5 DEF vars, Driven, IsLive
  <1> QED
    BY <1>1, <1>2, <1>3, <1>4, <1>5, NextCases

\* Where nobody picks, nobody is about to.
LEMMA NextDriven ==
  ASSUME "pick" \notin Actors, Typed, Locked, Driven, Unpicked, [Next]_vars
  PROVE  Driven' /\ Unpicked'
  <1>1. Driven'
    BY StepDriven DEF Unpicked, Picked
  <1>2. ASSUME NEW r \in Runners, RunnerStep(r) PROVE Unpicked'
    BY <1>2, RunnerStepLives DEF Unpicked
  <1>3. ASSUME NEW k \in Callers, RequestStep(k) \/ Request(k) PROVE Unpicked'
    BY <1>3, RequestStepLives DEF Unpicked
  <1>4. ASSUME OtherStep \/ CrashAndResume \/ UNCHANGED vars PROVE Unpicked'
    <2>1. \A k \in Callers: op'[k].place \in {op[k].place, "idle", "done"}
      BY <1>4, OtherStepLives, CrashActs DEF vars
    <2> QED
      BY <2>1 DEF Unpicked
  <1> QED
    BY <1>1, <1>2, <1>3, <1>4, NextCases

\* A download begins like that.
LEMMA InitDriven ==
  ASSUME Init
  PROVE  Locked /\ Driven /\ Unpicked
  BY InitTyped DEF Locked, Driven, Unpicked, Locking, Stopping, IsLive

\* Without picks, a cancel stops whatever runs (dispatch: "tracked in _active_tasks so
\* cancel_task can stop the live poll loop"): only a pick starts a coroutine beside another
\* one, that of a second pick of the parked search or the one that searches again after a
\* restart.  A manual switch stops the runner under the operation lock before it dispatches
\* another one.
THEOREM OnlyPicksEscapeCancel ==
  ASSUME "pick" \notin Actors
  PROVE  Spec => []CancelReachesRunner
  <1> DEFINE Inv == Typed /\ Locked /\ Driven /\ Unpicked
  <1>1. Init => Inv
    BY InitTyped, InitDriven
  <1>2. Inv /\ [Next]_vars => Inv'
    BY NextTyped, NextLocked, NextDriven
  <1>3. Inv => CancelReachesRunner
    BY DEF Driven, CancelReachesRunner
  <1> QED
    BY <1>1, <1>2, <1>3, PTL DEF Spec
-----------------------------------------------------------------------------
(* The status of the task.                                                  *)

\* A runner writes the status it has read, one of work, or, on its way out, a verdict; it
\* reads the status of the task or one that it has written.
LEMMA RunnerStepStatus ==
  ASSUME Typed, NEW r \in Runners, RunnerStep(r)
  PROVE  /\ \/ task'.status \in {task.status, runner[r].status, "downloading", "processing", "queued"}
            \/ task'.status \in Verdicts /\ runner'[r].place \in {"idle", "tidy"}
         /\ runner'[r].status \in {runner[r].status, task.status, "downloading", "queued"}
  <1> DEFINE P ==
         /\ \/ task'.status \in {task.status, runner[r].status, "downloading", "processing", "queued"}
            \/ task'.status \in Verdicts /\ runner'[r].place \in {"idle", "tidy"}
         /\ runner'[r].status \in {runner[r].status, task.status, "downloading", "queued"}
  <1>1. ASSUME ProcessTask(r) PROVE P
    BY <1>1, ProcessTaskActs
       DEF Sits, Walks, Reads, Ends, Polls, Finishes, Refused, Tasked
  <1>2. ASSUME ResumeTask(r) PROVE P
    BY <1>2, ResumeTaskActs
       DEF Sits, Walks, Reads, Ends, Polls, Finishes, Refused, Tasked
  <1>3. ASSUME Search(r) PROVE P
    BY <1>3, SearchActs
       DEF Sits, Walks, Reads, Ends, Polls, Finishes, Refused, Tasked, Verdicts
  <1>4. ASSUME Prepare(r) PROVE P
    BY <1>4, PrepareActs
       DEF Sits, Walks, Reads, Ends, Polls, Finishes, Refused, Tasked
  <1>5. ASSUME Open(r) PROVE P
    BY <1>5, OpenActs
       DEF Sits, Walks, Reads, Ends, Polls, Finishes, Refused, Tasked
  <1>6. ASSUME Journal(r) PROVE P
    BY <1>6, JournalActs
       DEF Sits, Walks, Reads, Ends, Polls, Finishes, Refused, Tasked
  <1>7. ASSUME Send(r) PROVE P
    BY <1>7, SendActs
       DEF Sits, Walks, Reads, Ends, Polls, Finishes, Refused, Tasked
  <1>8. ASSUME Outage(r) PROVE P
    BY <1>8, OutageActs
       DEF Sits, Walks, Reads, Ends, Polls, Finishes, Refused, Tasked
  <1>9. ASSUME Handle(r) PROVE P
    BY <1>9, HandleActs
       DEF Sits, Walks, Reads, Ends, Polls, Finishes, Refused, Tasked
  <1>10. ASSUME PollStops(r) PROVE P
    BY <1>10, PollStopsActs
       DEF Sits, Walks, Reads, Ends, Polls, Finishes, Refused, Tasked
  <1>11. ASSUME PollGoesOn(r) PROVE P
    BY <1>11, PollGoesOnActs
       DEF Sits, Walks, Reads, Ends, Polls, Finishes, Refused, Tasked
  <1>12. ASSUME PollEnds(r) PROVE P
    BY <1>12, PollEndsActs
       DEF Sits, Walks, Reads, Ends, Polls, Finishes, Refused, Tasked
  <1>13. ASSUME PollBreaks(r) PROVE P
    BY <1>13, PollBreaksActs
       DEF Sits, Walks, Reads, Ends, Polls, Finishes, Refused, Tasked
  <1>14. ASSUME Recheck(r) PROVE P
    BY <1>14, RecheckActs
       DEF Sits, Walks, Reads, Ends, Polls, Finishes, Refused, Tasked
  <1>15. ASSUME Prefer(r) PROVE P
    BY <1>15, PreferActs
       DEF Sits, Walks, Reads, Ends, Polls, Finishes, Refused, Tasked
  <1>16. ASSUME Process(r) PROVE P
    BY <1>16, ProcessActs
       DEF Sits, Walks, Reads, Ends, Polls, Finishes, Refused, Tasked
  <1>17. ASSUME Import(r) PROVE P
    BY <1>17, ImportActs
       DEF Sits, Walks, Reads, Ends, Polls, Finishes, Refused, Tasked
  <1>18. ASSUME Decide(r) PROVE P
    BY <1>18, DecideActs
       DEF Sits, Walks, Reads, Ends, Polls, Finishes, Refused, Tasked
  <1>19. ASSUME Abort(r) PROVE P
    BY <1>19, AbortActs
       DEF Sits, Walks, Reads, Ends, Polls, Finishes, Refused, Tasked
  <1>20. ASSUME Schedule(r) PROVE P
    BY <1>20, ScheduleStepActs
       DEF Sits, Walks, Reads, Ends, Polls, Finishes, Refused, Tasked
  <1>21. ASSUME Link(r) PROVE P
    BY <1>21, LinkActs
       DEF Sits, Walks, Reads, Ends, Polls, Finishes, Refused, Tasked
  <1>22. ASSUME Reset(r) PROVE P
    BY <1>22, ResetActs
       DEF Sits, Walks, Reads, Ends, Polls, Finishes, Refused, Tasked
  <1>23. ASSUME Finalize(r) PROVE P
    BY <1>23, FinalizeActs, Fields
       DEF Sits, Walks, Reads, Ends, Polls, Finishes, Refused, Tasked
  <1>24. ASSUME Tidy(r) PROVE P
    BY <1>24, TidyActs
       DEF Sits, Walks, Reads, Ends, Polls, Finishes, Refused, Tasked
  <1>25. ASSUME Fail(r) PROVE P
    BY <1>25, FailActs
       DEF Sits, Walks, Reads, Ends, Polls, Finishes, Refused, Tasked, Verdicts
  <1> HIDE DEF P
  <1>p. P
    BY <1>1, <1>2, <1>3, <1>4, <1>5, <1>6, <1>7, <1>8, <1>9, <1>10, <1>11, <1>12, <1>13, <1>14,
       <1>15, <1>16, <1>17, <1>18, <1>19, <1>20, <1>21, <1>22, <1>23, <1>24, <1>25 DEF RunnerStep
  <1> QED
    BY <1>p DEF P
\* In a download that is only cancelled, imported again or brought in by others: nobody
\* drives a cancelled download or one whose cancel waits for the lock, and a re-import is
\* of a download that is not cancelled.
Cancelling ==
  /\ \A k \in Callers: op[k].place \in {"idle", "done", "cancel", "cancel_tidy", "reimport",
                                        "reimport_start", "reimport_import"}
  /\ \A k \in Callers: op[k].place = "cancel" => \A r \in Runners: ~IsLive(r)
  /\ \A k \in Callers: op[k].place \in {"reimport", "reimport_start", "reimport_import"} => ~Cancelled
  /\ Cancelled => \A r \in Runners: ~IsLive(r)
  /\ \A r \in Runners: runner[r].status # "cancelled"
  /\ reaping = FALSE

\* What such a request does: only a cancel cancels, and only after it has stopped the runner.
LEMMA RequestStepCancelling ==
  ASSUME Actors \subseteq {"cancel", "reimport", "import"}, Typed, Locked, Driven, Cancelling,
         NEW k \in Callers, RequestStep(k) \/ Request(k)
  PROVE  Cancelling' /\ (Cancelled => Cancelled')
  <1>a. "pick" \notin Actors /\ "next" \notin Actors /\ "settle" \notin Actors /\ "retry" \notin Actors
    OBVIOUS
  <1>o. Off.place = "idle" /\ Off.status = "queued"
    BY DEF Off
  <1>f. UNCHANGED reaping /\ \A q \in Callers \ {k}: op'[q] = op[q]
    BY RequestStepLives
  <1>1. CASE CancelAsk(k)
    <2>1. \A r \in Runners: ~IsLive(r)' /\ runner'[r].status # "cancelled"
      BY <1>1, <1>o, CancelAskActs DEF Stops, IsLive, Driven, Cancelling
    <2>2. op'[k].place = "cancel" /\ task' = task
      BY <1>1, CancelAskActs DEF Steps, Stands
    <2> QED
      BY <1>f, <2>1, <2>2 DEF Cancelling, Cancelled
  <1>2. CASE CancelCommit(k)
    <2>1. op[k].place = "cancel" /\ op'[k].place = "cancel_tidy" /\ lock = NoCaller
          /\ task'.status = "cancelled" /\ runner' = runner
      BY <1>2, CancelCommitActs DEF Steps, Stands, Tasked
    <2>2. \A q \in Callers: op[q].place \notin {"reimport", "reimport_start", "reimport_import"}
      BY <2>1 DEF Locked, Locking
    <2> QED
      BY <1>f, <2>1, <2>2 DEF Cancelling, Cancelled, IsLive
  <1>3. CASE CancelTidy(k)
    <2>1. op'[k].place = "done" /\ task' = task /\ runner' = runner
      BY <1>3, CancelTidyActs DEF Done, Stands
    <2> QED
      BY <1>f, <2>1 DEF Cancelling, Cancelled, IsLive
  <1>4. CASE ReimportAsk(k)
    <2>1. op'[k].place = "reimport" /\ task' = task /\ runner' = runner /\ ~Cancelled
      BY <1>4, ReimportAskActs DEF Stands, Cancelled
    <2> QED
      BY <1>f, <2>1 DEF Cancelling, Cancelled, IsLive
  <1>5. CASE ReimportAcquire(k)
    <2>1. op[k].place = "reimport" /\ op'[k].place \in {"reimport_start", "done"} /\ task' = task
          /\ runner' = runner
      BY <1>5, ReimportAcquireActs DEF Stands, Done
    <2> QED
      BY <1>f, <2>1 DEF Cancelling, Cancelled, IsLive
  <1>6. CASE ReimportStart(k)
    <2>1. op[k].place = "reimport_start" /\ op'[k].place = "reimport_import"
          /\ task'.status = "processing" /\ runner' = runner
      BY <1>6, ReimportStartActs DEF Stands, Steps, Tasked
    <2> QED
      BY <1>f, <2>1 DEF Cancelling, Cancelled, IsLive
  <1>7. CASE ReimportFinish(k)
    <2>1. op[k].place = "reimport_import" /\ op'[k].place = "done"
          /\ task'.status # "cancelled" /\ runner' = runner
      BY <1>7, ReimportFinishActs DEF Stands, Done, Tasked
    <2> QED
      BY <1>f, <2>1 DEF Cancelling, Cancelled, IsLive
  <1>8. \/ CancelAsk(k) \/ CancelCommit(k) \/ CancelTidy(k) \/ ReimportAsk(k) \/ ReimportAcquire(k)
        \/ ReimportStart(k) \/ ReimportFinish(k)
    <2>1. ~NextAsk(k) /\ ~SettleAsk(k) /\ ~RetryAsk(k) /\ ~PickAsk(k)
      BY <1>a DEF NextAsk, SettleAsk, RetryAsk, PickAsk, Asks
    <2>2. /\ ~NextLook(k) /\ ~NextStop(k) /\ ~NextVerify(k) /\ ~NextAbort(k) /\ ~NextSchedule(k)
          /\ ~NextLink(k) /\ ~NextDispatch(k) /\ ~SettleWrite(k) /\ ~RetryWrite(k) /\ ~PickLink(k)
      BY DEF Cancelling, NextLook, NextStop, NextVerify, NextAbort, NextSchedule, NextLink,
             NextDispatch, SettleWrite, RetryWrite, PickLink
    <2> QED
      BY <2>1, <2>2 DEF RequestStep, Request
  <1> QED
    BY <1>1, <1>2, <1>3, <1>4, <1>5, <1>6, <1>7, <1>8

\* What any step of such a download does.
LEMMA NextCancelling ==
  ASSUME Actors \subseteq {"cancel", "reimport", "import"}, Typed, Locked, Driven, Cancelling,
         [Next]_vars
  PROVE  Cancelling' /\ (Cancelled => Cancelled')
  <1>1. ASSUME NEW r \in Runners, RunnerStep(r) PROVE Cancelling' /\ (Cancelled => Cancelled')
    <2>1. ~Cancelled /\ IsLive(r)
      BY <1>1, RunnerStepLives DEF Cancelling
    <2>2. task'.status # "cancelled" /\ runner'[r].status # "cancelled"
      BY <1>1, <2>1, RunnerStepStatus DEF Cancelling, Cancelled, Verdicts
    <2>3. \A k \in Callers: op[k].place # "cancel"
      BY <2>1 DEF Cancelling
    <2>4. \A q \in Runners: runner'[q].status # "cancelled"
      BY <1>1, <2>2, RunnerStepLives DEF Cancelling
    <2> QED
      BY <1>1, <2>1, <2>2, <2>3, <2>4, RunnerStepLives DEF Cancelling, Cancelled
  <1>2. ASSUME NEW k \in Callers, RequestStep(k) \/ Request(k)
        PROVE  Cancelling' /\ (Cancelled => Cancelled')
    BY <1>2, RequestStepCancelling
  <1>3. CASE OtherStep
    <2>1. task'.status = task.status /\ reaping' = FALSE
      <3>1. ASSUME NEW c \in 1..Peers, TransferMoves(c)
            PROVE  task'.status = task.status /\ reaping' = FALSE
        BY <3>1, TransferMovesActs DEF Cancelling
      <3>2. ASSUME NEW i \in 1..Len(attempts), CleanupSettles(i)
            PROVE task'.status = task.status /\ reaping' = FALSE
        BY <3>2, CleanupSettlesActs DEF Cancelling
      <3>3. ~ReapFind /\ ~ReapFail
        BY ReapFindActs, ReapFailActs DEF Cancelling
      <3>4. ASSUME Ages PROVE task'.status = task.status /\ reaping' = FALSE
        BY <3>4, AgesActs DEF Tasked, Cancelling
      <3>5. ASSUME OtherImport PROVE task'.status = task.status /\ reaping' = FALSE
        BY <3>5 DEF OtherImport, rows, Cancelling
      <3> QED
        BY <1>3, <3>1, <3>2, <3>3, <3>4, <3>5 DEF OtherStep
    <2> QED
      BY <1>3, <2>1, OtherStepLives DEF Cancelling, Cancelled, IsLive
  <1>4. CASE CrashAndResume
    <2>1. Cancelled => \A r \in Runners: ~IsLive(r)'
      BY <1>4, CrashActs DEF Cancelled, IsLive, Terminal
    <2>2. /\ task' = task /\ reaping' = FALSE /\ \A k \in Callers: op'[k].place \in {"idle", "done"}
          /\ \A r \in Runners: runner'[r].status # "cancelled"
      BY <1>4, CrashActs
    <2> QED
      BY <2>1, <2>2 DEF Cancelling, Cancelled
  <1>5. CASE UNCHANGED vars
    BY <1>5 DEF vars, Cancelling, Cancelled, IsLive
  <1> QED
    BY <1>1, <1>2, <1>3, <1>4, <1>5, NextCases

\* A cancelled download stays cancelled (process_task: "cancel_task already set
\* status='cancelled'; don't overwrite"), whatever the runner was at when the cancel came,
\* with any number of cancels and re-imports at once and across restarts.  The manual
\* switch, the settling of a hold and the reaper each decide from a row they have read
\* before, and a retry of an album that the library has completes it on purpose.
THEOREM CancelledStays ==
  ASSUME Actors \subseteq {"cancel", "reimport", "import"}
  PROVE  Spec => CancelSticks
  <1> DEFINE Inv == Typed /\ Locked /\ Driven /\ Unpicked /\ Cancelling
  <1>1. Init => Inv
    <2>1. Init => Cancelling
      <3> SUFFICES ASSUME Init PROVE Cancelling
        OBVIOUS
      <3>1. task.status = "queued" /\ reaping = FALSE
        BY DEF Init
      <3> QED
        BY <3>1, InitTyped DEF Cancelling, Cancelled
    <2> QED
      BY <2>1, InitTyped, InitDriven
  <1>2. Inv /\ [Next]_vars => Inv'
    BY NextTyped, NextLocked, NextDriven, NextCancelling
  <1>3. Inv /\ [Next]_vars => [Cancelled => task'.status = "cancelled"]_vars
    BY NextCancelling DEF Cancelled
  <1> QED
    BY <1>1, <1>2, <1>3, PTL DEF Spec, CancelSticks
-----------------------------------------------------------------------------
(* The row of a re-import.                                                  *)

\* The places of a re-import, and the ends of a download that one may take up.
Reimporting == {"reimport", "reimport_start", "reimport_import"}
Ended == {"failed", "partial"}

\* In a download without manual switches, picks and reaps: whoever imports again works on a
\* live row, and nobody but a runner that only tidies up after its verdict is about.
Keeping ==
  /\ ReimportKeepsRow
  /\ \A r \in Runners: runner[r].place \notin {"idle", "tidy"} =>
       /\ task.status \notin Ended /\ runner[r].status \notin Ended
       /\ \A k \in Callers: /\ op[k].place \notin Reimporting
                            /\ op[k].place = "settle" => op[k].status \notin Ended
  /\ \A k \in Callers: op[k].place \notin Stopping \union {"pick", "next_look", "next_stop"}
  /\ reaping = FALSE

\* After it has written its verdict a runner only tidies up.
LEMMA TidyOnly ==
  ASSUME NEW r \in Runners, RunnerStep(r), runner[r].place = "tidy"
  PROVE  Tidy(r)
  <1>1. /\ ~ProcessTask(r) /\ ~ResumeTask(r) /\ ~Search(r) /\ ~Prepare(r) /\ ~Open(r) /\ ~Journal(r)
        /\ ~Send(r) /\ ~Outage(r) /\ ~Handle(r) /\ ~PollStops(r) /\ ~PollGoesOn(r) /\ ~PollEnds(r)
    BY DEF ProcessTask, ResumeTask, Search, Prepare, Open, Journal, Send, Outage, Handle, PollStops,
           PollGoesOn, PollEnds
  <1>2. /\ ~PollBreaks(r) /\ ~Recheck(r) /\ ~Prefer(r) /\ ~Process(r) /\ ~Import(r) /\ ~Decide(r)
        /\ ~Abort(r) /\ ~Schedule(r) /\ ~Link(r) /\ ~Reset(r) /\ ~Finalize(r) /\ ~Fail(r)
    BY DEF PollBreaks, Recheck, Prefer, Process, Import, Decide, Abort, Schedule, Link, Reset,
           Finalize, Fail
  <1> QED
    BY <1>1, <1>2 DEF RunnerStep

\* A step of a runner.
LEMMA RunnerStepKeeping ==
  ASSUME Typed, Driven, Keeping, NEW r \in Runners, RunnerStep(r)
  PROVE  Keeping'
  <1>l. /\ IsLive(r) /\ \A q \in Runners \ {r}: runner'[q] = runner[q]
        /\ UNCHANGED <<op, lock, reaping>>
    BY RunnerStepLives
  <1>1. CASE runner[r].place = "tidy"
    <2>1. Tidy(r)
      BY <1>1, TidyOnly
    <2>2. UNCHANGED <<task, attempts>> /\ runner'[r].place = "idle"
      BY <2>1, TidyActs DEF Ends, Sits
    <2> QED
      BY <1>l, <2>2 DEF Keeping, ReimportKeepsRow
  <1>2. CASE runner[r].place # "tidy"
    <2>1. /\ task.status \notin Ended /\ runner[r].status \notin Ended
          /\ \A k \in Callers: /\ op[k].place \notin Reimporting
                               /\ op[k].place = "settle" => op[k].status \notin Ended
      BY <1>l, <1>2 DEF Keeping, IsLive
    <2>2. runner'[r].status \notin Ended
          /\ (runner'[r].place \notin {"idle", "tidy"} => task'.status \notin Ended)
      BY <2>1, RunnerStepStatus DEF Ended
    <2>3. ReimportKeepsRow'
      BY <1>l, <2>1 DEF ReimportKeepsRow, Reimporting
    <2>4. \A q \in Runners \ {r}: runner'[q].place = "idle"
      BY <1>l DEF Driven, IsLive
    <2> QED
      BY <1>l, <2>1, <2>2, <2>3, <2>4 DEF Keeping
  <1> QED
    BY <1>1, <1>2

\* A step of a request.
LEMMA RequestStepKeeping ==
  ASSUME Actors \subseteq {"reimport", "cancel", "retry", "settle", "import"}, Typed, Locked, Driven,
         Keeping, NEW k \in Callers, RequestStep(k) \/ Request(k)
  PROVE  Keeping'
  <1>a. "pick" \notin Actors /\ "next" \notin Actors
    OBVIOUS
  <1>f. UNCHANGED reaping /\ \A q \in Callers \ {k}: op'[q] = op[q]
    BY RequestStepLives
  <1>o. Off.place = "idle"
    BY DEF Off
  <1>u. ASSUME op'[k].place \notin Stopping \union {"pick", "next_look", "next_stop"}
        PROVE  \A q \in Callers: op'[q].place \notin Stopping \union {"pick", "next_look", "next_stop"}
    BY <1>f, <1>u DEF Keeping
  <1>1. CASE CancelAsk(k)
    <2>1. \A r \in Runners: runner'[r].place = "idle"
      BY <1>1, <1>o, CancelAskActs DEF Stops, IsLive, Driven
    <2>2. op'[k].place = "cancel" /\ attempts' = attempts
      BY <1>1, CancelAskActs DEF Steps, Stands
    <2>3. ReimportKeepsRow'
      BY <1>f, <2>2 DEF Keeping, ReimportKeepsRow
    <2>4. \A q \in Callers: op'[q].place \notin Stopping \union {"pick", "next_look", "next_stop"}
      BY <1>u, <2>2 DEF Stopping
    <2> QED
      BY <1>f, <2>1, <2>3, <2>4 DEF Keeping
  <1>2. CASE CancelCommit(k)
    <2>1. op[k].place = "cancel" /\ op'[k].place = "cancel_tidy" /\ lock = NoCaller
          /\ task'.status = "cancelled" /\ runner' = runner
      BY <1>2, CancelCommitActs DEF Steps, Stands, Tasked
    <2>2. \A q \in Callers: op'[q].place \notin Reimporting
      BY <1>f, <2>1 DEF Locked, Locking, Reimporting
    <2>3. ReimportKeepsRow'
      BY <2>2 DEF ReimportKeepsRow, Reimporting
    <2>4. \A q \in Callers: op'[q].place \notin Stopping \union {"pick", "next_look", "next_stop"}
      BY <1>u, <2>1 DEF Stopping
    <2> QED
      BY <1>f, <2>1, <2>2, <2>3, <2>4 DEF Keeping, Ended
  <1>3. CASE CancelTidy(k) \/ RetryAsk(k)
    <2>1. op'[k].place \in {"done", "retry"} /\ task' = task /\ runner' = runner /\ attempts' = attempts
      BY <1>3, CancelTidyActs, RetryAskActs DEF Done, Steps, Stands
    <2>4. \A q \in Callers: op'[q].place \notin Stopping \union {"pick", "next_look", "next_stop"}
      BY <1>u, <2>1 DEF Stopping
    <2> QED
      BY <1>f, <2>1, <2>4 DEF Keeping, ReimportKeepsRow, Reimporting
  <1>4. CASE ReimportAsk(k)
    <2>1. op'[k].place = "reimport" /\ task' = task /\ runner' = runner /\ attempts' = attempts
          /\ task.status \in Ended
      BY <1>4, ReimportAskActs DEF Stands, Ended
    <2>2. \A r \in Runners: runner'[r].place \in {"idle", "tidy"}
      BY <2>1 DEF Keeping
    <2>4. \A q \in Callers: op'[q].place \notin Stopping \union {"pick", "next_look", "next_stop"}
      BY <1>u, <2>1 DEF Stopping
    <2> QED
      BY <1>f, <2>1, <2>2, <2>4 DEF Keeping, ReimportKeepsRow
  <1>5. CASE ReimportAcquire(k)
    <2>1. op[k].place = "reimport" /\ runner' = runner
      BY <1>5, ReimportAcquireActs
    <2>2. \A r \in Runners: runner'[r].place \in {"idle", "tidy"}
      BY <2>1 DEF Keeping, Reimporting
    <2>3. \A q \in Callers \ {k}: op'[q].place \notin Reimporting
      BY <1>f, <2>1 DEF Locked, Locking, Reimporting
    <2>5. \/ op'[k].place = "done"
          \/ op'[k].place = "reimport_start" /\ attempts'[op'[k].attempt].state = "in_use"
      BY <1>5, ReimportAcquireActs DEF Done, Stands
    <2>4. \A q \in Callers: op'[q].place \notin Stopping \union {"pick", "next_look", "next_stop"}
      BY <1>u, <2>5 DEF Stopping
    <2>6. ReimportKeepsRow'
      BY <2>3, <2>5 DEF ReimportKeepsRow, Reimporting
    <2> QED
      BY <1>f, <2>2, <2>4, <2>6 DEF Keeping
  <1>6. CASE ReimportStart(k)
    <2>1. op[k].place = "reimport_start" /\ op'[k].place = "reimport_import"
          /\ op'[k].attempt = op[k].attempt /\ runner' = runner /\ attempts' = attempts
      BY <1>6, ReimportStartActs DEF Stands, Steps, Tasked
    <2>2. \A r \in Runners: runner'[r].place \in {"idle", "tidy"}
      BY <2>1 DEF Keeping, Reimporting
    <2>4. \A q \in Callers: op'[q].place \notin Stopping \union {"pick", "next_look", "next_stop"}
      BY <1>u, <2>1 DEF Stopping
    <2>6. ReimportKeepsRow'
      BY <1>f, <2>1 DEF Keeping, ReimportKeepsRow
    <2> QED
      BY <1>f, <2>2, <2>4, <2>6 DEF Keeping
  <1>7. CASE ReimportFinish(k)
    <2>1. op[k].place = "reimport_import" /\ op'[k].place = "done" /\ runner' = runner
      BY <1>7, ReimportFinishActs DEF Stands, Done, Tasked
    <2>2. \A r \in Runners: runner'[r].place \in {"idle", "tidy"}
      BY <2>1 DEF Keeping, Reimporting
    <2>3. \A q \in Callers: op'[q].place \notin Reimporting
      BY <1>f, <2>1 DEF Locked, Locking, Reimporting
    <2>4. \A q \in Callers: op'[q].place \notin Stopping \union {"pick", "next_look", "next_stop"}
      BY <1>u, <2>1 DEF Stopping
    <2>6. ReimportKeepsRow'
      BY <2>3 DEF ReimportKeepsRow, Reimporting
    <2> QED
      BY <1>f, <2>2, <2>4, <2>6 DEF Keeping
  <1>8. CASE SettleAsk(k)
    <2>1. op'[k].place = "settle" /\ op'[k].status = task.status /\ task' = task /\ runner' = runner
          /\ attempts' = attempts
      BY <1>8, SettleAskActs DEF Stands
    <2>4. \A q \in Callers: op'[q].place \notin Stopping \union {"pick", "next_look", "next_stop"}
      BY <1>u, <2>1 DEF Stopping
    <2>6. ReimportKeepsRow'
      BY <1>f, <2>1 DEF Keeping, ReimportKeepsRow
    <2> QED
      BY <1>f, <2>1, <2>4, <2>6 DEF Keeping, Reimporting
  <1>9. CASE SettleWrite(k) \/ RetryWrite(k)
    <2>1. op[k].place \in {"settle", "retry"} /\ op'[k].place = "done" /\ runner' = runner
          /\ attempts' = attempts
      BY <1>9, SettleWriteActs, RetryWriteActs DEF Stands, Done
    <2>2. task'.status = "completed" \/ (op[k].place = "settle" /\ task'.status = op[k].status)
      BY <1>9, SettleWriteActs, RetryWriteActs DEF Tasked
    <2>3. \A r \in Runners: runner[r].place \notin {"idle", "tidy"} => task'.status \notin Ended
      BY <2>2 DEF Keeping, Ended
    <2>4. \A q \in Callers: op'[q].place \notin Stopping \union {"pick", "next_look", "next_stop"}
      BY <1>u, <2>1 DEF Stopping
    <2>6. ReimportKeepsRow'
      BY <1>f, <2>1 DEF Keeping, ReimportKeepsRow
    <2> QED
      BY <1>f, <2>1, <2>3, <2>4, <2>6 DEF Keeping, Reimporting
  <1>10. \/ CancelAsk(k) \/ CancelCommit(k) \/ CancelTidy(k) \/ ReimportAsk(k) \/ ReimportAcquire(k)
         \/ ReimportStart(k) \/ ReimportFinish(k) \/ SettleAsk(k) \/ SettleWrite(k)
         \/ RetryAsk(k) \/ RetryWrite(k)
    <2>1. ~NextAsk(k) /\ ~PickAsk(k)
      BY <1>a DEF NextAsk, PickAsk, Asks
    <2>2. /\ ~NextLook(k) /\ ~NextStop(k) /\ ~NextVerify(k) /\ ~NextAbort(k) /\ ~NextSchedule(k)
          /\ ~NextLink(k) /\ ~NextDispatch(k) /\ ~PickLink(k)
      BY DEF Keeping, Stopping, NextLook, NextStop, NextVerify, NextAbort, NextSchedule, NextLink,
             NextDispatch, PickLink
    <2> QED
      BY <2>1, <2>2 DEF RequestStep, Request
  <1> QED
    BY <1>1, <1>2, <1>3, <1>4, <1>5, <1>6, <1>7, <1>8, <1>9, <1>10

\* Any step.
LEMMA NextKeeping ==
  ASSUME Actors \subseteq {"reimport", "cancel", "retry", "settle", "import"}, Typed, Locked, Driven,
         Keeping, [Next]_vars
  PROVE  Keeping'
  <1>1. ASSUME NEW r \in Runners, RunnerStep(r) PROVE Keeping'
    BY <1>1, RunnerStepKeeping
  <1>2. ASSUME NEW k \in Callers, RequestStep(k) \/ Request(k) PROVE Keeping'
    BY <1>2, RequestStepKeeping
  <1>3. CASE OtherStep
    <2> DEFINE Same ==
          /\ task'.status = task.status /\ reaping' = FALSE
          /\ \A i \in 1..Len(attempts): attempts[i].state = "in_use" => attempts'[i].state = "in_use"
    <2>1. Same
      <3>1. ASSUME NEW c \in 1..Peers, TransferMoves(c) PROVE Same
        BY <3>1, TransferMovesActs DEF Keeping
      <3>2. ASSUME NEW i \in 1..Len(attempts), CleanupSettles(i) PROVE Same
        BY <3>2, CleanupSettlesActs DEF Keeping
      <3>3. ~ReapFind /\ ~ReapFail
        BY ReapFindActs, ReapFailActs DEF Keeping
      <3>4. ASSUME Ages PROVE Same
        BY <3>4, AgesActs DEF Tasked, Keeping
      <3>5. ASSUME OtherImport PROVE Same
        BY <3>5 DEF OtherImport, rows, Keeping
      <3> QED
        BY <1>3, <3>1, <3>2, <3>3, <3>4, <3>5 DEF OtherStep
    <2>2. ReimportKeepsRow'
      BY <1>3, <2>1, OtherStepLives, TypedParts DEF Keeping, ReimportKeepsRow, Asking
    <2> QED
      BY <1>3, <2>1, <2>2, OtherStepLives DEF Keeping
  <1>4. CASE CrashAndResume
    <2>1. \A r \in Runners: runner'[r].place \notin {"idle", "tidy"} =>
             task.status \notin Ended /\ runner'[r].status \notin Ended
      BY <1>4, CrashActs DEF Terminal, Ended
    <2>2. /\ task' = task /\ reaping' = FALSE /\ \A k \in Callers: op'[k].place \in {"idle", "done"}
      BY <1>4, CrashActs
    <2>3. \A k \in Callers: /\ op'[k].place \notin Stopping \union {"pick", "next_look", "next_stop"}
                            /\ op'[k].place \notin Reimporting /\ op'[k].place # "settle"
      BY <2>2 DEF Stopping, Reimporting
    <2>4. ReimportKeepsRow'
      BY <2>3 DEF ReimportKeepsRow, Reimporting
    <2> QED
      BY <2>1, <2>2, <2>3, <2>4 DEF Keeping
  <1>5. CASE UNCHANGED vars
    BY <1>5 DEF vars, Keeping, ReimportKeepsRow
  <1> QED
    BY <1>1, <1>2, <1>3, <1>4, <1>5, NextCases

\* While a re-import works on the files of an attempt, nobody else gives them away
\* (reimport_task takes the row back into use before it marks the task): not the runner
\* whose verdict it answers, which only tidies up by then, not a cancel, which waits for
\* the operation lock, not the cleanup, which takes discarded rows only, and not the
\* settling of a hold that has read an older status.  A manual switch that resumes the
\* download it stopped would.
THEOREM ReimportOwnsItsRow ==
  ASSUME Actors \subseteq {"reimport", "cancel", "retry", "settle", "import"}
  PROVE  Spec => []ReimportKeepsRow
  <1> DEFINE Inv == Typed /\ Locked /\ Driven /\ Unpicked /\ Keeping
  <1>1. Init => Inv
    <2>1. Init => Keeping
      <3> SUFFICES ASSUME Init PROVE Keeping
        OBVIOUS
      <3>1. task.status = "queued" /\ reaping = FALSE
        BY DEF Init
      <3> QED
        BY <3>1, InitTyped DEF Keeping, ReimportKeepsRow, Reimporting, Stopping, Ended
    <2> QED
      BY <2>1, InitTyped, InitDriven
  <1>2. Inv /\ [Next]_vars => Inv'
    BY NextTyped, NextLocked, NextDriven, NextKeeping
  <1>3. Inv => ReimportKeepsRow
    BY DEF Keeping
  <1> QED
    BY <1>1, <1>2, <1>3, PTL DEF Spec
-----------------------------------------------------------------------------
(* What runs at a peer is journaled.                                        *)

\* A transfer that a peer has in its queue or sends.
Asked == {"queued", "active"}
\* The journal keeps its rows, their candidates and what is not settled.
Grows ==
  /\ Len(attempts) \in Nat /\ Len(attempts') \in Nat /\ Len(attempts) <= Len(attempts')
  /\ \A i \in 1..Len(attempts):
       /\ attempts'[i].cand = attempts[i].cand
       /\ attempts[i].state # "settled" => attempts'[i].state # "settled"
\* Nothing is asked for.
Calms == \A c \in 1..Peers: transfer'[c] \in Asked => transfer[c] \in Asked

\* A schedule does that.
LEMMA ScheduleGrows ==
  ASSUME Typed, NEW i \in 0..Len(attempts), NEW disposition \in {"discard", "preserve", "leave"},
         ScheduleRow(i, disposition)
  PROVE  Grows
  <1>1. /\ attempts' \in Seq(AttemptRows) /\ Len(attempts') = Len(attempts)
        /\ \A j \in 1..Len(attempts):
              /\ attempts'[j].cand = attempts[j].cand
              /\ j # i \/ disposition = "leave" \/ attempts[j].state = "settled"
                   => attempts'[j] = attempts[j]
              /\ j = i /\ disposition # "leave" /\ attempts[j].state # "settled"
                   => attempts'[j].state = disposition
    BY ScheduleActs, TypedParts
  <1> QED
    BY SMTT(30), <1>1, TypedParts DEF Grows

\* A runner keeps the rows, asks only the peer of its attempt, and only after it has
\* journaled that.
LEMMA RunnerStepGrows ==
  ASSUME Typed, NEW r \in Runners, RunnerStep(r)
  PROVE  /\ Grows
         /\ Calms \/ (/\ runner[r].place = "send"
                      /\ \A c \in 1..Peers: transfer'[c] # transfer[c] => c = Peer(runner[r].attempt)
                      /\ attempts' = attempts)
         /\ runner'[r].place = "send" => attempts'[runner'[r].attempt].state = "acquiring"
  <1> DEFINE P ==
         /\ Grows
         /\ Calms \/ (/\ runner[r].place = "send"
                      /\ \A c \in 1..Peers: transfer'[c] # transfer[c] => c = Peer(runner[r].attempt)
                      /\ attempts' = attempts)
         /\ runner'[r].place = "send" => attempts'[runner'[r].attempt].state = "acquiring"
  <1>a. UNCHANGED attempts => Grows
    BY TypedParts DEF Grows
  <1>b. UNCHANGED transfer => Calms
    BY DEF Calms
  <1>1. ASSUME ProcessTask(r) PROVE P
    <2>1. /\ UNCHANGED attempts /\ runner'[r].place # "send"
          /\ UNCHANGED transfer
      BY <1>1, ProcessTaskActs DEF Sits, Walks, Reads, Ends, Polls, Finishes, Refused
    <2> QED
      BY <1>a, <1>b, <2>1
  <1>2. ASSUME ResumeTask(r) PROVE P
    <2>1. /\ UNCHANGED attempts /\ runner'[r].place # "send"
          /\ UNCHANGED transfer
      BY <1>2, ResumeTaskActs DEF Sits, Walks, Reads, Ends, Polls, Finishes, Refused
    <2> QED
      BY <1>a, <1>b, <2>1
  <1>3. ASSUME Search(r) PROVE P
    <2>1. /\ UNCHANGED attempts /\ runner'[r].place # "send"
          /\ UNCHANGED transfer
      BY <1>3, SearchActs DEF Sits, Walks, Reads, Ends, Polls, Finishes, Refused
    <2> QED
      BY <1>a, <1>b, <2>1
  <1>4. ASSUME Prepare(r) PROVE P
    <2>1. /\ UNCHANGED attempts /\ runner'[r].place # "send"
          /\ UNCHANGED transfer
      BY <1>4, PrepareActs DEF Sits, Walks, Reads, Ends, Polls, Finishes, Refused
    <2> QED
      BY <1>a, <1>b, <2>1
  <1>5. ASSUME Open(r) PROVE P
    <2>1. /\ UNCHANGED attempts /\ runner'[r].place # "send"
          /\ UNCHANGED transfer
      BY <1>5, OpenActs DEF Sits, Walks, Reads, Ends, Polls, Finishes, Refused
    <2> QED
      BY <1>a, <1>b, <2>1
  <1>6. ASSUME Journal(r) PROVE P
    <2>0. /\ Len(attempts') = Len(attempts) + 1
          /\ attempts'[Len(attempts) + 1] = [cand |-> runner[r].cand, state |-> "acquiring"]
          /\ \A i \in 1..Len(attempts): attempts'[i] = attempts[i]
          /\ UNCHANGED transfer
          /\ Sits(r, "send", runner[r].status, runner[r].cand, Len(attempts) + 1,
                  runner[r].outcome, runner[r].next, runner[r].disposition, runner[r].resuming)
      BY <1>6, JournalActs
    <2>4. runner'[r].attempt = Len(attempts) + 1
      BY <2>0 DEF Sits
    <2>1. /\ runner'[r].attempt = Len(attempts) + 1 /\ Len(attempts') = Len(attempts) + 1
          /\ attempts'[Len(attempts) + 1].state = "acquiring"
          /\ \A i \in 1..Len(attempts): attempts'[i] = attempts[i]
          /\ UNCHANGED transfer
      BY <2>0, <2>4
    <2>2. Grows
      BY <2>1, TypedParts DEF Grows
    <2> QED
      BY <1>b, <2>1, <2>2
  <1>7. ASSUME Send(r) PROVE P
    <2>1. /\ UNCHANGED attempts /\ runner'[r].place # "send"
          /\ runner[r].place = "send"
          /\ \A c \in 1..Peers: transfer'[c] # transfer[c] => c = Peer(runner[r].attempt)
      BY <1>7, SendActs DEF Sits, Walks, Reads, Ends, Polls, Finishes, Refused
    <2> QED
      BY <1>a, <1>b, <2>1
  <1>8. ASSUME Outage(r) PROVE P
    <2>1. /\ UNCHANGED attempts /\ runner'[r].place # "send"
          /\ UNCHANGED transfer
      BY <1>8, OutageActs DEF Sits, Walks, Reads, Ends, Polls, Finishes, Refused
    <2> QED
      BY <1>a, <1>b, <2>1
  <1>9. ASSUME Handle(r) PROVE P
    <2>1. /\ runner'[r].place # "send" /\ UNCHANGED transfer /\ Len(attempts') = Len(attempts)
      BY <1>9, HandleActs DEF Sits, Walks, Reads, Ends, Polls, Finishes, Refused
    <2>2. Grows
      <3>1. /\ \A j \in 1..Len(attempts):
                  /\ attempts'[j].cand = attempts[j].cand
                  /\ j # runner[r].attempt => attempts'[j] = attempts[j]
            /\ UNCHANGED attempts \/ attempts'[runner[r].attempt].state = "in_use"
        BY <1>9, HandleActs
      <3> QED
        BY <1>a, <2>1, <3>1, TypedParts DEF Grows
    <2> QED
      BY <1>b, <2>1, <2>2
  <1>10. ASSUME PollStops(r) PROVE P
    <2>1. /\ UNCHANGED attempts /\ runner'[r].place # "send"
          /\ UNCHANGED transfer
      BY <1>10, PollStopsActs DEF Sits, Walks, Reads, Ends, Polls, Finishes, Refused
    <2> QED
      BY <1>a, <1>b, <2>1
  <1>11. ASSUME PollGoesOn(r) PROVE P
    <2>1. /\ UNCHANGED attempts /\ runner'[r].place # "send"
          /\ UNCHANGED transfer
      BY <1>11, PollGoesOnActs, TypedParts DEF Sits, Walks, Reads, Ends, Polls, Finishes, Refused
    <2> QED
      BY <1>a, <1>b, <2>1
  <1>12. ASSUME PollEnds(r) PROVE P
    <2>1. /\ UNCHANGED attempts /\ runner'[r].place # "send"
          /\ UNCHANGED transfer
      BY <1>12, PollEndsActs DEF Sits, Walks, Reads, Ends, Polls, Finishes, Refused
    <2> QED
      BY <1>a, <1>b, <2>1
  <1>13. ASSUME PollBreaks(r) PROVE P
    <2>1. /\ UNCHANGED attempts /\ runner'[r].place # "send"
          /\ UNCHANGED transfer
      BY <1>13, PollBreaksActs DEF Sits, Walks, Reads, Ends, Polls, Finishes, Refused
    <2> QED
      BY <1>a, <1>b, <2>1
  <1>14. ASSUME Recheck(r) PROVE P
    <2>1. /\ UNCHANGED attempts /\ runner'[r].place # "send"
          /\ UNCHANGED transfer
      BY <1>14, RecheckActs DEF Sits, Walks, Reads, Ends, Polls, Finishes, Refused
    <2> QED
      BY <1>a, <1>b, <2>1
  <1>15. ASSUME Prefer(r) PROVE P
    <2>1. /\ UNCHANGED attempts /\ runner'[r].place # "send"
          /\ UNCHANGED transfer
      BY <1>15, PreferActs DEF Sits, Walks, Reads, Ends, Polls, Finishes, Refused
    <2> QED
      BY <1>a, <1>b, <2>1
  <1>16. ASSUME Process(r) PROVE P
    <2>1. /\ UNCHANGED attempts /\ runner'[r].place # "send"
          /\ UNCHANGED transfer
      BY <1>16, ProcessActs DEF Sits, Walks, Reads, Ends, Polls, Finishes, Refused
    <2> QED
      BY <1>a, <1>b, <2>1
  <1>17. ASSUME Import(r) PROVE P
    <2>1. /\ UNCHANGED attempts /\ runner'[r].place # "send"
          /\ UNCHANGED transfer
      BY <1>17, ImportActs DEF Sits, Walks, Reads, Ends, Polls, Finishes, Refused
    <2> QED
      BY <1>a, <1>b, <2>1
  <1>18. ASSUME Decide(r) PROVE P
    <2>1. /\ UNCHANGED attempts /\ runner'[r].place # "send"
          /\ UNCHANGED transfer
      BY <1>18, DecideActs DEF Sits, Walks, Reads, Ends, Polls, Finishes, Refused
    <2> QED
      BY <1>a, <1>b, <2>1
  <1>19. ASSUME Abort(r) PROVE P
    <2>1. UNCHANGED attempts /\ runner'[r].place # "send"
      BY <1>19, AbortActs DEF Sits, Walks, Reads, Ends, Polls, Finishes, Refused
    <2>2. Calms
      BY <1>19, AbortActs, TypedParts DEF Calms, Asked
    <2> QED
      BY <1>a, <2>1, <2>2
  <1>20. ASSUME Schedule(r) PROVE P
    <2>1. /\ ScheduleRow(ManifestRow, runner[r].disposition) /\ ManifestRow \in 0..Len(attempts)
          /\ runner[r].disposition \in {"discard", "preserve", "leave"}
      BY <1>20, ScheduleStepActs, Fields
    <2>2. Grows
      BY <2>1, ScheduleGrows
    <2>3. UNCHANGED transfer /\ runner'[r].place # "send"
      BY <1>20, ScheduleStepActs DEF Walks, Sits
    <2> QED
      BY <1>b, <2>2, <2>3
  <1>21. ASSUME Link(r) PROVE P
    <2>1. /\ UNCHANGED attempts /\ runner'[r].place # "send"
          /\ UNCHANGED transfer
      BY <1>21, LinkActs DEF Sits, Walks, Reads, Ends, Polls, Finishes, Refused
    <2> QED
      BY <1>a, <1>b, <2>1
  <1>22. ASSUME Reset(r) PROVE P
    <2>1. /\ UNCHANGED attempts /\ runner'[r].place # "send"
          /\ UNCHANGED transfer
      BY <1>22, ResetActs DEF Sits, Walks, Reads, Ends, Polls, Finishes, Refused
    <2> QED
      BY <1>a, <1>b, <2>1
  <1>23. ASSUME Finalize(r) PROVE P
    <2>1. /\ ScheduleRow(FinalRow(r), runner[r].disposition) /\ FinalRow(r) \in 0..Len(attempts)
          /\ runner[r].disposition \in {"discard", "preserve", "leave"}
      BY <1>23, FinalizeActs, Fields
    <2>2. Grows
      BY <2>1, ScheduleGrows
    <2>3. UNCHANGED transfer /\ runner'[r].place # "send"
      BY <1>23, FinalizeActs DEF Walks, Sits
    <2> QED
      BY <1>b, <2>2, <2>3
  <1>24. ASSUME Tidy(r) PROVE P
    <2>1. /\ UNCHANGED attempts /\ runner'[r].place # "send"
          /\ UNCHANGED transfer
      BY <1>24, TidyActs DEF Sits, Walks, Reads, Ends, Polls, Finishes, Refused
    <2> QED
      BY <1>a, <1>b, <2>1
  <1>25. ASSUME Fail(r) PROVE P
    <2>1. /\ runner'[r].place # "send" /\ UNCHANGED transfer /\ Len(attempts') = Len(attempts)
      BY <1>25, FailActs DEF Sits, Walks, Reads, Ends, Polls, Finishes, Refused
    <2>2. Grows
      BY SMTT(30), <1>25, <2>1, FailActs, TypedParts DEF Grows
    <2> QED
      BY <1>b, <2>1, <2>2
  <1> HIDE DEF P
  <1>p. P
    BY <1>1, <1>2, <1>3, <1>4, <1>5, <1>6, <1>7, <1>8, <1>9, <1>10, <1>11, <1>12, <1>13, <1>14,
       <1>15, <1>16, <1>17, <1>18, <1>19, <1>20, <1>21, <1>22, <1>23, <1>24, <1>25 DEF RunnerStep
  <1> QED
    BY <1>p DEF P

\* A request keeps the rows and asks nobody; it discards or settles a row only if it has
\* stopped the runner, cancels or imports again.
LEMMA RequestStepGrows ==
  ASSUME Typed, NEW k \in Callers, RequestStep(k) \/ Request(k)
  PROVE  /\ Grows /\ Calms
         /\ \/ op[k].place \in Stopping \union {"cancel", "reimport_import"}
            \/ \A i \in 1..Len(attempts): attempts'[i].state = attempts[i].state
                                          \/ attempts'[i].state = "in_use"
  <1> DEFINE P ==
         /\ Grows /\ Calms
         /\ \/ op[k].place \in Stopping \union {"cancel", "reimport_import"}
            \/ \A i \in 1..Len(attempts): attempts'[i].state = attempts[i].state
                                          \/ attempts'[i].state = "in_use"
  <1>a. UNCHANGED attempts => Grows
    BY TypedParts DEF Grows
  <1>b. UNCHANGED transfer => Calms
    BY DEF Calms
  <1>1. ASSUME CancelAsk(k) PROVE P
    <2>1. UNCHANGED <<attempts, transfer>>
      BY <1>1, CancelAskActs
    <2> QED
      BY <1>a, <1>b, <2>1
  <1>2. ASSUME CancelCommit(k) PROVE P
    <2>0. /\ op[k].place = "cancel" /\ Len(attempts') = Len(attempts) /\ UNCHANGED transfer
          /\ \A i \in 1..Len(attempts):
               /\ attempts'[i].cand = attempts[i].cand
               /\ attempts[i].state = "settled" => attempts'[i] = attempts[i]
               /\ attempts[i].state # "settled" => attempts'[i].state \in {"discard", "preserve"}
      BY <1>2, CancelCommitActs
    <2>1. Grows
      BY SMTT(30), <2>0, TypedParts DEF Grows
    <2> QED
      BY <2>0, <1>b, <2>1
  <1>3. ASSUME CancelTidy(k) PROVE P
    <2>1. UNCHANGED <<attempts, transfer>>
      BY <1>3, CancelTidyActs
    <2> QED
      BY <1>a, <1>b, <2>1
  <1>4. ASSUME NextAsk(k) PROVE P
    <2>1. UNCHANGED <<attempts, transfer>>
      BY <1>4, NextAskActs
    <2> QED
      BY <1>a, <1>b, <2>1
  <1>5. ASSUME NextLook(k) PROVE P
    <2>1. UNCHANGED <<attempts, transfer>>
      BY <1>5, NextLookActs
    <2> QED
      BY <1>a, <1>b, <2>1
  <1>6. ASSUME NextStop(k) PROVE P
    <2>1. UNCHANGED <<attempts, transfer>>
      BY <1>6, NextStopActs
    <2> QED
      BY <1>a, <1>b, <2>1
  <1>7. ASSUME NextVerify(k) PROVE P
    <2>1. UNCHANGED <<attempts, transfer>>
      BY <1>7, NextVerifyActs
    <2> QED
      BY <1>a, <1>b, <2>1
  <1>8. ASSUME NextAbort(k) PROVE P
    <2>1. Calms
      BY <1>8, NextAbortActs DEF Calms, Asked
    <2> QED
      BY <1>8, <1>a, <2>1, NextAbortActs
  <1>9. ASSUME NextSchedule(k) PROVE P
    <2>1. Grows
      BY <1>9, NextScheduleActs, ScheduleGrows
    <2> QED
      BY <1>9, <1>b, <2>1, NextScheduleActs DEF Stopping
  <1>10. ASSUME NextLink(k) PROVE P
    <2>1. UNCHANGED <<attempts, transfer>>
      BY <1>10, NextLinkActs
    <2> QED
      BY <1>a, <1>b, <2>1
  <1>11. ASSUME NextDispatch(k) PROVE P
    <2>1. UNCHANGED <<attempts, transfer>>
      BY <1>11, NextDispatchActs
    <2> QED
      BY <1>a, <1>b, <2>1
  <1>12. ASSUME ReimportAsk(k) PROVE P
    <2>1. UNCHANGED <<attempts, transfer>>
      BY <1>12, ReimportAskActs
    <2> QED
      BY <1>a, <1>b, <2>1
  <1>13. ASSUME ReimportAcquire(k) PROVE P
    <2>1. CASE UNCHANGED attempts
      BY <1>13, <1>a, <1>b, <2>1, ReimportAcquireActs
    <2>2. ASSUME ~UNCHANGED attempts PROVE P
      <3>1. PICK i \in 1..Len(attempts'):
              /\ Len(attempts') \in Nat /\ Len(attempts) <= Len(attempts')
              /\ attempts'[i].state = "in_use"
              /\ \A j \in 1..Len(attempts):
                      /\ attempts'[j].cand = attempts[j].cand
                      /\ j # i => attempts'[j] = attempts[j]
        BY <1>13, <2>2, ReimportAcquireActs
      <3>2. Grows
        BY <3>1, TypedParts DEF Grows
      <3> QED
        BY <1>13, <1>b, <3>2, ReimportAcquireActs
    <2> QED
      BY <2>1, <2>2
  <1>14. ASSUME ReimportStart(k) PROVE P
    <2>1. UNCHANGED <<attempts, transfer>>
      BY <1>14, ReimportStartActs
    <2> QED
      BY <1>a, <1>b, <2>1
  <1>15. ASSUME ReimportFinish(k) PROVE P
    <2>1. op[k].attempt \in 0..Len(attempts) /\ op[k].place = "reimport_import"
      BY <1>15, ReimportFinishActs, TypedParts DEF Asking
    <2>2. Grows
      BY <1>15, <2>1, ReimportFinishActs, ScheduleGrows
    <2> QED
      BY <1>15, <1>b, <2>2, ReimportFinishActs
  <1>16. ASSUME SettleAsk(k) PROVE P
    <2>1. UNCHANGED <<attempts, transfer>>
      BY <1>16, SettleAskActs
    <2> QED
      BY <1>a, <1>b, <2>1
  <1>17. ASSUME SettleWrite(k) PROVE P
    <2>1. UNCHANGED <<attempts, transfer>>
      BY <1>17, SettleWriteActs
    <2> QED
      BY <1>a, <1>b, <2>1
  <1>18. ASSUME RetryAsk(k) PROVE P
    <2>1. UNCHANGED <<attempts, transfer>>
      BY <1>18, RetryAskActs
    <2> QED
      BY <1>a, <1>b, <2>1
  <1>19. ASSUME RetryWrite(k) PROVE P
    <2>1. UNCHANGED <<attempts, transfer>>
      BY <1>19, RetryWriteActs
    <2> QED
      BY <1>a, <1>b, <2>1
  <1>20. ASSUME PickAsk(k) PROVE P
    <2>1. UNCHANGED <<attempts, transfer>>
      BY <1>20, PickAskActs
    <2> QED
      BY <1>a, <1>b, <2>1
  <1>21. ASSUME PickLink(k) PROVE P
    <2>1. UNCHANGED <<attempts, transfer>>
      BY <1>21, PickLinkActs
    <2> QED
      BY <1>a, <1>b, <2>1
  <1> HIDE DEF P
  <1>p. P
    BY <1>1, <1>2, <1>3, <1>4, <1>5, <1>6, <1>7, <1>8, <1>9, <1>10, <1>11, <1>12, <1>13, <1>14,
       <1>15, <1>16, <1>17, <1>18, <1>19, <1>20, <1>21 DEF RequestStep, Request
  <1> QED
    BY <1>p DEF P
\* What a peer has queued or sends has a row that nobody has settled, and who is about to ask
\* a peer has journaled that in a row that nobody gives away.
Covered(c) == \E i \in 1..Len(attempts): attempts[i].cand = c /\ attempts[i].state # "settled"
\* Every such transfer is covered, and a runner that is about to ask has a row that is in force.
Journaled ==
  /\ \A c \in 1..Peers: transfer[c] \in Asked => Covered(c)
  /\ \A r \in Runners: runner[r].place = "send" =>
       attempts[runner[r].attempt].state \notin {"settled", "discard"}

\* While a runner works, nobody waits for the lock to cancel, and nobody imports again.
Undisturbed ==
  \A r \in Runners: runner[r].place \notin {"idle", "tidy"} =>
    \A k \in Callers: op[k].place \notin Reimporting \union {"cancel"}

\* A step of a runner keeps what is journaled.
LEMMA RunnerStepJournals ==
  ASSUME Typed, Driven, Journaled, NEW r \in Runners, RunnerStep(r)
  PROVE  Journaled'
  <1>1. /\ Grows
        /\ Calms \/ (/\ runner[r].place = "send"
                     /\ \A c \in 1..Peers: transfer'[c] # transfer[c] => c = Peer(runner[r].attempt)
                     /\ attempts' = attempts)
        /\ runner'[r].place = "send" => attempts'[runner'[r].attempt].state = "acquiring"
    BY RunnerStepGrows
  <1>2. ASSUME NEW c \in 1..Peers, transfer'[c] \in Asked PROVE Covered(c)'
    <2>1. CASE transfer[c] \in Asked
      <3>1. PICK i \in 1..Len(attempts): attempts[i].cand = c /\ attempts[i].state # "settled"
        BY <2>1 DEF Journaled, Covered
      <3>2. i \in 1..Len(attempts') /\ attempts'[i].cand = c /\ attempts'[i].state # "settled"
        BY <1>1, <3>1 DEF Grows
      <3> QED
        BY <3>2 DEF Covered
    <2>2. CASE transfer[c] \notin Asked
      <3>1. /\ runner[r].place = "send" /\ c = Peer(runner[r].attempt) /\ attempts' = attempts
        BY <1>1, <1>2, <2>2 DEF Calms
      <3>2. runner[r].attempt \in 1..Len(attempts)
        BY <3>1, TypedParts DEF Attempting
      <3>3. attempts[runner[r].attempt].cand = c /\ attempts[runner[r].attempt].state # "settled"
        BY <3>1 DEF Journaled, Peer
      <3> QED
        BY <3>1, <3>2, <3>3 DEF Covered
    <2> QED
      BY <2>1, <2>2
  <1>3. \A q \in Runners \ {r}: runner'[q].place = "idle"
    BY RunnerStepLives DEF Driven, IsLive
  <1> QED
    BY <1>1, <1>2, <1>3 DEF Journaled

\* A step of a request does while it disturbs no runner.
LEMMA RequestStepJournals ==
  ASSUME Typed, Driven, Undisturbed, Journaled, NEW k \in Callers, RequestStep(k) \/ Request(k)
  PROVE  Journaled'
  <1>1. /\ Grows /\ Calms
        /\ \/ op[k].place \in Stopping \union {"cancel", "reimport_import"}
           \/ \A i \in 1..Len(attempts): attempts'[i].state = attempts[i].state
                                         \/ attempts'[i].state = "in_use"
    BY RequestStepGrows
  <1>2. ASSUME NEW c \in 1..Peers, transfer'[c] \in Asked PROVE Covered(c)'
    <2>1. PICK i \in 1..Len(attempts): attempts[i].cand = c /\ attempts[i].state # "settled"
      BY <1>1, <1>2 DEF Journaled, Covered, Calms
    <2>2. i \in 1..Len(attempts') /\ attempts'[i].cand = c /\ attempts'[i].state # "settled"
      BY <1>1, <2>1 DEF Grows
    <2> QED
      BY <2>2 DEF Covered
  <1>3. ASSUME NEW r \in Runners, runner'[r].place = "send"
        PROVE  attempts'[runner'[r].attempt].state \notin {"settled", "discard"}
    <2>1. runner'[r] = runner[r]
      <3>o. Off.place = "idle"
        BY DEF Off
      <3>1. ASSUME Stops PROVE runner'[r] = runner[r]
        BY <1>3, <3>o, <3>1 DEF Stops
      <3>2. ASSUME NEW q \in Runners, Begins(q, "start") \/ Begins(q, "resume")
            PROVE  runner'[r] = runner[r]
        BY <1>3, <3>2 DEF Begins, Sits
      <3> QED
        BY <3>1, <3>2, RequestStepLives
    <2>2. IsLive(r) /\ runner[r].attempt \in 1..Len(attempts)
      BY <1>3, <2>1, TypedParts DEF IsLive, Attempting
    <2>3. op[k].place \notin Stopping \union {"cancel", "reimport_import"}
      BY <1>3, <2>1, <2>2 DEF Driven, Undisturbed, Reimporting
    <2>4. attempts[runner[r].attempt].state \notin {"settled", "discard"}
      BY <1>3, <2>1 DEF Journaled
    <2>5. attempts'[runner[r].attempt].state \in {attempts[runner[r].attempt].state, "in_use"}
      BY <1>1, <2>2, <2>3
    <2> QED
      BY <2>1, <2>4, <2>5
  <1> QED
    BY <1>2, <1>3 DEF Journaled

\* So do the reaper, which preserves the row, the peers, which end transfers, and the
\* cleanup, which ends the transfer with the row.
LEMMA OtherStepJournals ==
  ASSUME Typed, Journaled, OtherStep
  PROVE  Journaled'
  <1> DEFINE Keeps ==
        /\ Len(attempts') = Len(attempts)
        /\ \A c \in 1..Peers: transfer'[c] \in Asked =>
             /\ transfer[c] \in Asked
             /\ \A i \in 1..Len(attempts): attempts[i].cand = c /\ attempts[i].state # "settled" =>
                  attempts'[i].cand = c /\ attempts'[i].state # "settled"
        /\ \A i \in 1..Len(attempts): attempts[i].state \notin {"settled", "discard"} =>
             attempts'[i].state \notin {"settled", "discard"}
  <1>1. ASSUME NEW c \in 1..Peers, TransferMoves(c) PROVE Keeps
    BY <1>1, TransferMovesActs DEF Asked
  <1>2. ASSUME NEW i \in 1..Len(attempts), CleanupSettles(i) PROVE Keeps
    <2>1. /\ attempts[i].state = "discard" /\ Len(attempts') = Len(attempts)
          /\ \A j \in 1..Len(attempts): j # i => attempts'[j] = attempts[j]
          /\ \A c \in 1..Peers: transfer'[c] = IF c = attempts[i].cand THEN "none" ELSE transfer[c]
      BY <1>2, CleanupSettlesActs
    <2>2. "none" \notin Asked
      BY DEF Asked
    <2> QED
      BY <2>1, <2>2
  <1>3. ASSUME ReapFind \/ Ages \/ OtherImport PROVE Keeps
    <2>1. UNCHANGED attempts /\ UNCHANGED transfer
      BY <1>3, ReapFindActs, AgesActs DEF OtherImport, rows
    <2> QED
      BY <2>1
  <1>4. ASSUME ReapFail PROVE Keeps
    <2>1. /\ Len(attempts') = Len(attempts) /\ UNCHANGED transfer
          /\ \A i \in 1..Len(attempts):
               /\ attempts'[i].cand = attempts[i].cand
               /\ attempts'[i] = attempts[i] \/ attempts'[i].state = "preserve"
      BY <1>4, ReapFailActs
    <2> QED
      BY <2>1
  <1>5. Keeps
    BY <1>1, <1>2, <1>3, <1>4 DEF OtherStep
  <1>6. ASSUME NEW c \in 1..Peers, transfer'[c] \in Asked PROVE Covered(c)'
    <2>1. PICK i \in 1..Len(attempts): attempts[i].cand = c /\ attempts[i].state # "settled"
      BY <1>5, <1>6 DEF Journaled, Covered
    <2>2. i \in 1..Len(attempts') /\ attempts'[i].cand = c /\ attempts'[i].state # "settled"
      BY <1>5, <1>6, <2>1
    <2> QED
      BY <2>2 DEF Covered
  <1>7. ASSUME NEW r \in Runners, runner'[r].place = "send"
        PROVE  attempts'[runner'[r].attempt].state \notin {"settled", "discard"}
    <2>1. runner' = runner
      BY OtherStepLives
    <2>2. runner[r].attempt \in 1..Len(attempts)
      BY <1>7, <2>1, TypedParts DEF Attempting
    <2> QED
      BY <1>5, <1>7, <2>1, <2>2 DEF Journaled
  <1> QED
    BY <1>6, <1>7 DEF Journaled

\* Every step that disturbs no runner.
LEMMA NextJournals ==
  ASSUME Typed, Driven, Undisturbed, Journaled, [Next]_vars
  PROVE  Journaled'
  <1>1. ASSUME NEW r \in Runners, RunnerStep(r) PROVE Journaled'
    BY <1>1, RunnerStepJournals
  <1>2. ASSUME NEW k \in Callers, RequestStep(k) \/ Request(k) PROVE Journaled'
    BY <1>2, RequestStepJournals
  <1>3. CASE OtherStep
    BY <1>3, OtherStepJournals
  <1>4. CASE CrashAndResume
    <2>1. /\ UNCHANGED <<attempts, transfer>>
          /\ \A r \in Runners: runner'[r].place \in {"idle", "start", "resume"}
      BY <1>4, CrashActs
    <2> QED
      BY <2>1 DEF Journaled, Covered
  <1>5. CASE UNCHANGED vars
    BY <1>5 DEF vars, Journaled, Covered
  <1> QED
    BY <1>1, <1>2, <1>3, <1>4, <1>5, NextCases

\* A download begins with nothing asked for.
LEMMA InitJournaled ==
  ASSUME Init
  PROVE  Journaled /\ Undisturbed
  <1>1. transfer = [c \in 1..Peers |-> "none"]
    BY DEF Init
  <1>2. \A c \in 1..Peers: transfer[c] \notin Asked
    BY <1>1 DEF Asked
  <1>3. \A r \in Runners: runner[r].place \in {"idle", "start"}
    BY DEF Init, Off
  <1>4. \A k \in Callers: op[k].place = "idle"
    BY InitTyped
  <1> QED
    BY <1>2, <1>3, <1>4 DEF Journaled, Undisturbed, Reimporting
\* In a download without manual switches and picks, whoever works on it has not read, and
\* nobody is about to write, that it has ended; and nobody ends it under the runner.
Quiet ==
  /\ \A r \in Runners: runner[r].place \notin {"idle", "tidy"} =>
       /\ task.status \notin Ended /\ runner[r].status \notin Ended
       /\ \A k \in Callers: /\ op[k].place \notin Reimporting \union {"cancel"}
                            /\ op[k].place = "settle" => op[k].status \notin Ended
  /\ \A k \in Callers: op[k].place \notin Stopping \union {"pick", "next_look", "next_stop"}
  /\ reaping => \A r \in Runners: ~IsLive(r)

\* A step of a runner keeps that.
LEMMA RunnerStepQuiet ==
  ASSUME Typed, Driven, Quiet, NEW r \in Runners, RunnerStep(r)
  PROVE  Quiet'
  <1>l. /\ IsLive(r) /\ \A q \in Runners \ {r}: runner'[q] = runner[q]
        /\ UNCHANGED <<op, lock, reaping>>
    BY RunnerStepLives
  <1>i. \A q \in Runners \ {r}: runner'[q].place = "idle"
    BY <1>l DEF Driven, IsLive
  <1>r. ~reaping'
    BY <1>l DEF Quiet
  <1>1. CASE runner[r].place = "tidy"
    <2>1. runner'[r].place = "idle"
      BY <1>1, TidyOnly, TidyActs DEF Ends, Sits
    <2> QED
      BY <1>l, <1>i, <2>1 DEF Quiet
  <1>2. CASE runner[r].place # "tidy"
    <2>1. /\ task.status \notin Ended /\ runner[r].status \notin Ended
          /\ \A k \in Callers: /\ op[k].place \notin Reimporting \union {"cancel"}
                               /\ op[k].place = "settle" => op[k].status \notin Ended
      BY <1>l, <1>2 DEF Quiet, IsLive
    <2>2. runner'[r].status \notin Ended
          /\ (runner'[r].place \notin {"idle", "tidy"} => task'.status \notin Ended)
      BY <2>1, RunnerStepStatus DEF Ended
    <2> QED
      BY <1>l, <1>i, <2>1, <2>2 DEF Quiet
  <1> QED
    BY <1>1, <1>2

\* What a request does to the runners and the status, without switches and picks.
LEMMA RequestStepQuiet ==
  ASSUME "pick" \notin Actors, "next" \notin Actors, Typed, Locked, Driven, Quiet,
         NEW k \in Callers, RequestStep(k) \/ Request(k)
  PROVE  Quiet'
  <1>f. UNCHANGED reaping /\ \A q \in Callers \ {k}: op'[q] = op[q]
    BY RequestStepLives
  <1>o. Off.place = "idle"
    BY DEF Off
  <1> DEFINE Away == op'[k].place \notin Stopping \union {"pick", "next_look", "next_stop"}
  <1>a. Away => \A q \in Callers: op'[q].place \notin Stopping \union {"pick", "next_look", "next_stop"}
    BY <1>f DEF Quiet
  <1>n. ASSUME Away, \A r \in Runners: runner'[r].place = "idle" PROVE Quiet'
    BY <1>a, <1>n DEF Quiet, IsLive
  <1>s. ASSUME Away, UNCHANGED runner, \A r \in Runners: runner[r].place \in {"idle", "tidy"}
        PROVE  Quiet'
    BY <1>f, <1>s DEF Quiet, IsLive
  <1>w. ASSUME Away, UNCHANGED runner,
               \A r \in Runners: runner[r].place \notin {"idle", "tidy"} =>
                 /\ task'.status \notin Ended /\ op'[k].place \notin Reimporting \union {"cancel"}
                 /\ op'[k].place = "settle" => op'[k].status \notin Ended
        PROVE  Quiet'
    <2>1. \A r \in Runners: runner'[r].place \notin {"idle", "tidy"} =>
            /\ task'.status \notin Ended /\ runner'[r].status \notin Ended
            /\ \A q \in Callers: /\ op'[q].place \notin Reimporting \union {"cancel"}
                                 /\ op'[q].place = "settle" => op'[q].status \notin Ended
      BY <1>f, <1>w DEF Quiet
    <2>2. reaping' => \A r \in Runners: ~IsLive(r)'
      BY <1>f, <1>w DEF Quiet, IsLive
    <2> QED
      BY <1>a, <1>w, <2>1, <2>2 DEF Quiet
  <1> HIDE DEF Away
  <1>1. ASSUME CancelAsk(k) PROVE Quiet'
    <2>1. \A r \in Runners: runner'[r].place = "idle"
      BY <1>1, <1>o, CancelAskActs DEF Stops, IsLive, Driven
    <2>2. op'[k].place = "cancel"
      BY <1>1, CancelAskActs DEF Steps, Stands
    <2> QED
      BY <1>n, <2>1, <2>2 DEF Away, Stopping
  <1>2. ASSUME CancelCommit(k) PROVE Quiet'
    <2>1. op'[k].place = "cancel_tidy" /\ task'.status = "cancelled" /\ runner' = runner
      BY <1>2, CancelCommitActs DEF Steps, Stands, Tasked
    <2> QED
      BY <1>w, <2>1 DEF Away, Stopping, Ended, Reimporting
  <1>3. ASSUME CancelTidy(k) \/ RetryAsk(k) PROVE Quiet'
    <2>1. op'[k].place \in {"done", "retry"} /\ task' = task /\ runner' = runner
      BY <1>3, CancelTidyActs, RetryAskActs DEF Done, Steps, Stands
    <2> QED
      BY <1>w, <2>1 DEF Away, Stopping, Quiet, Reimporting
  <1>4. ASSUME ReimportAsk(k) PROVE Quiet'
    <2>1. op'[k].place = "reimport" /\ runner' = runner /\ task.status \in Ended
      BY <1>4, ReimportAskActs DEF Stands, Ended
    <2> QED
      BY <1>s, <2>1 DEF Quiet, Away, Stopping
  <1>5. ASSUME ReimportAcquire(k) \/ ReimportStart(k) \/ ReimportFinish(k) PROVE Quiet'
    <2>1. /\ op[k].place \in Reimporting /\ op'[k].place \in Reimporting \union {"done"}
          /\ runner' = runner
      BY <1>5, ReimportAcquireActs, ReimportStartActs, ReimportFinishActs
         DEF Stands, Steps, Done, Reimporting
    <2>2. \A r \in Runners: runner[r].place \in {"idle", "tidy"}
      BY <2>1 DEF Quiet
    <2> QED
      BY <1>s, <2>1, <2>2 DEF Away, Stopping, Reimporting
  <1>6. ASSUME SettleAsk(k) PROVE Quiet'
    <2>1. op'[k].place = "settle" /\ op'[k].status = task.status /\ task' = task /\ runner' = runner
      BY <1>6, SettleAskActs DEF Stands
    <2> QED
      BY <1>w, <2>1 DEF Away, Stopping, Quiet, Reimporting
  <1>7. ASSUME SettleWrite(k) \/ RetryWrite(k) PROVE Quiet'
    <2>1. op'[k].place = "done" /\ runner' = runner
      BY <1>7, SettleWriteActs, RetryWriteActs DEF Stands, Done
    <2>2. task'.status = "completed" \/ (op[k].place = "settle" /\ task'.status = op[k].status)
      BY <1>7, SettleWriteActs, RetryWriteActs DEF Tasked
    <2>3. \A r \in Runners: runner[r].place \notin {"idle", "tidy"} => task'.status \notin Ended
      BY <2>2 DEF Quiet, Ended
    <2> QED
      BY <1>w, <2>1, <2>3 DEF Away, Stopping, Reimporting
  <1>8. \/ CancelAsk(k) \/ CancelCommit(k) \/ CancelTidy(k) \/ ReimportAsk(k) \/ ReimportAcquire(k)
        \/ ReimportStart(k) \/ ReimportFinish(k) \/ SettleAsk(k) \/ SettleWrite(k)
        \/ RetryAsk(k) \/ RetryWrite(k)
    <2>1. ~NextAsk(k) /\ ~PickAsk(k)
      BY SMTT(30) DEF NextAsk, PickAsk, Asks
    <2>2. /\ ~NextLook(k) /\ ~NextStop(k) /\ ~NextVerify(k) /\ ~NextAbort(k) /\ ~NextSchedule(k)
          /\ ~NextLink(k) /\ ~NextDispatch(k) /\ ~PickLink(k)
      BY DEF Quiet, Stopping, NextLook, NextStop, NextVerify, NextAbort, NextSchedule, NextLink,
             NextDispatch, PickLink
    <2> QED
      BY <2>1, <2>2 DEF RequestStep, Request
  <1> QED
    BY <1>1, <1>2, <1>3, <1>4, <1>5, <1>6, <1>7, <1>8

\* What is neither a runner's step nor a request's keeps it too: the reaper sees no runner.
LEMMA OtherStepQuiet ==
  ASSUME Typed, Driven, Quiet, OtherStep
  PROVE  Quiet'
  <1>0. UNCHANGED <<runner, op, tracked>>
    BY OtherStepLives
  <1>1. ASSUME ReapFail PROVE Quiet'
    <2>1. reaping /\ ~reaping'
      BY <1>1, ReapFailActs
    <2>2. \A r \in Runners: runner[r].place = "idle"
      BY <2>1 DEF Quiet, IsLive
    <2> QED
      BY <1>0, <2>1, <2>2 DEF Quiet
  <1>2. ASSUME ReapFind PROVE Quiet'
    <2>1. tracked = NoRunner /\ task' = task
      BY <1>2, ReapFindActs
    <2>2. \A r \in Runners: ~IsLive(r)
      BY <2>1, NoRunnerAssumption DEF Driven
    <2> QED
      BY <1>0, <2>2 DEF Quiet, IsLive
  <1>3. ASSUME task'.status = task.status, UNCHANGED reaping PROVE Quiet'
    BY <1>0, <1>3 DEF Quiet, IsLive
  <1>4. ASSUME NEW c \in 1..Peers, TransferMoves(c) PROVE Quiet'
    BY <1>3, <1>4, TransferMovesActs
  <1>5. ASSUME NEW i \in 1..Len(attempts), CleanupSettles(i) PROVE Quiet'
    BY <1>3, <1>5, CleanupSettlesActs
  <1>6. ASSUME Ages PROVE Quiet'
    BY <1>3, <1>6, AgesActs DEF Tasked
  <1>7. ASSUME OtherImport PROVE Quiet'
    BY <1>3, <1>7 DEF OtherImport, rows
  <1> QED
    BY <1>1, <1>2, <1>4, <1>5, <1>6, <1>7 DEF OtherStep

\* A restart ends every request and resumes what has not ended.
LEMMA CrashQuiets ==
  ASSUME Typed, CrashAndResume
  PROVE  Quiet'
  <1>1. \A r \in Runners: runner'[r].place \notin {"idle", "tidy"} =>
           task.status \notin Ended /\ runner'[r].status \notin Ended
    BY CrashActs DEF Terminal, Ended
  <1>2. task' = task /\ ~reaping' /\ \A k \in Callers: op'[k].place \in {"idle", "done"}
    BY CrashActs
  <1>3. \A k \in Callers:
          /\ op'[k].place \notin Stopping \union {"pick", "next_look", "next_stop"}
          /\ op'[k].place \notin Reimporting \union {"cancel"} /\ op'[k].place # "settle"
    BY <1>2 DEF Stopping, Reimporting
  <1> QED
    BY <1>1, <1>2, <1>3 DEF Quiet

\* Every step.
LEMMA NextQuiet ==
  ASSUME "pick" \notin Actors, "next" \notin Actors, Typed, Locked, Driven, Quiet, [Next]_vars
  PROVE  Quiet'
  <1>1. ASSUME NEW r \in Runners, RunnerStep(r) PROVE Quiet'
    BY <1>1, RunnerStepQuiet
  <1>2. ASSUME NEW k \in Callers, RequestStep(k) \/ Request(k) PROVE Quiet'
    BY <1>2, RequestStepQuiet
  <1>3. CASE OtherStep
    BY <1>3, OtherStepQuiet
  <1>4. CASE CrashAndResume
    BY <1>4, CrashQuiets
  <1>5. CASE UNCHANGED vars
    BY <1>5 DEF vars, Quiet, IsLive
  <1> QED
    BY <1>1, <1>2, <1>3, <1>4, <1>5, NextCases

\* Without cancels and re-imports nobody is about to cancel or to import again.
Apart == \A k \in Callers: op[k].place \notin Reimporting \union {"cancel"}

\* Where there are neither cancels nor re-imports, nobody is.
LEMMA NextApart ==
  ASSUME "cancel" \notin Actors, "reimport" \notin Actors, Typed, Apart, [Next]_vars
  PROVE  Apart'
  <1>1. ASSUME NEW r \in Runners, RunnerStep(r) PROVE Apart'
    BY <1>1, RunnerStepLives DEF Apart
  <1>2. ASSUME NEW k \in Callers, RequestStep(k) \/ Request(k) PROVE Apart'
    <2> DEFINE P == op'[k].place \notin Reimporting \union {"cancel"}
    <2>1. ~CancelAsk(k) /\ ~ReimportAsk(k)
      BY DEF CancelAsk, ReimportAsk, Asks
    <2>2. ~CancelCommit(k) /\ ~ReimportAcquire(k) /\ ~ReimportStart(k) /\ ~ReimportFinish(k)
      BY DEF CancelCommit, ReimportAcquire, ReimportStart, ReimportFinish, Apart, Reimporting
    <2>3. ASSUME CancelTidy(k) \/ NextAsk(k) \/ NextLook(k) \/ NextStop(k) \/ NextVerify(k) PROVE P
      BY <2>3, CancelTidyActs, NextAskActs, NextLookActs, NextStopActs, NextVerifyActs
         DEF Stands, Steps, Done, Reimporting
    <2>4. ASSUME NextAbort(k) \/ NextSchedule(k) \/ NextLink(k) \/ NextDispatch(k) PROVE P
      BY <2>4, NextAbortActs, NextScheduleActs, NextLinkActs, NextDispatchActs
         DEF Stands, Steps, Done, Reimporting
    <2>5. ASSUME SettleAsk(k) \/ SettleWrite(k) \/ RetryAsk(k) \/ RetryWrite(k) PROVE P
      BY <2>5, SettleAskActs, SettleWriteActs, RetryAskActs, RetryWriteActs
         DEF Stands, Steps, Done, Reimporting
    <2>6. ASSUME PickAsk(k) \/ PickLink(k) PROVE P
      BY <2>6, PickAskActs, PickLinkActs DEF Stands, Steps, Done, Reimporting
    <2> HIDE DEF P
    <2>p. P
      BY <1>2, <2>1, <2>2, <2>3, <2>4, <2>5, <2>6 DEF RequestStep, Request
    <2> QED
      BY <1>2, <2>p, RequestStepLives DEF Apart, P
  <1>3. CASE OtherStep
    BY <1>3, OtherStepLives DEF Apart
  <1>4. CASE CrashAndResume
    BY <1>4, CrashActs DEF Apart, Reimporting
  <1>5. CASE UNCHANGED vars
    BY <1>5 DEF vars, Apart
  <1> QED
    BY <1>1, <1>2, <1>3, <1>4, <1>5, NextCases

\* What a peer has queued or sends is always covered by an attempt that the cleanup has
\* not settled yet, so that somebody will abort it: the attempt is journaled before the
\* peer is asked ("attempt is durable before bytes can be written"), and the cleanup ends
\* the transfer with the row.  A reply may be lost, a client call fail, the reaper or a
\* restart come in between.  A manual switch that a cancel or a re-import meets is left
\* out: a cancel that has stopped the runner and waits for the lock discards the row that a
\* runner dispatched by the switch is about to use.
THEOREM NothingRunsUnseen ==
  ASSUME "pick" \notin Actors,
         "next" \notin Actors \/ ("cancel" \notin Actors /\ "reimport" \notin Actors)
  PROVE  Spec => []TransfersJournaled
  <1> DEFINE Inv == /\ Typed /\ Locked /\ Driven /\ Unpicked /\ Journaled
                    /\ "next" \notin Actors => Quiet
                    /\ "next" \in Actors => Apart
  <1>1. Init => Inv
    <2> SUFFICES ASSUME Init PROVE Inv
      OBVIOUS
    <2>1. task.status = "queued" /\ reaping = FALSE
      BY DEF Init
    <2>2. Quiet
      BY <2>1, InitTyped DEF Quiet, Ended, Stopping, Reimporting
    <2>3. Apart
      BY InitTyped DEF Apart, Reimporting
    <2> QED
      BY <2>2, <2>3, InitTyped, InitDriven, InitJournaled
  <1>2. Inv /\ [Next]_vars => Inv'
    <2> SUFFICES ASSUME Inv, [Next]_vars PROVE Inv'
      OBVIOUS
    <2>1. Undisturbed
      BY DEF Undisturbed, Quiet, Apart
    <2>2. Typed' /\ Locked' /\ Driven' /\ Unpicked' /\ Journaled'
      BY <2>1, NextTyped, NextLocked, NextDriven, NextJournals
    <2>3. "next" \notin Actors => Quiet'
      BY NextQuiet
    <2>4. "next" \in Actors => Apart'
      BY NextApart
    <2> QED
      BY <2>2, <2>3, <2>4
  <1>3. Inv => TransfersJournaled
    BY DEF Journaled, Covered, TransfersJournaled, Sending, Asked, Peer
  <1> QED
    BY <1>1, <1>2, <1>3, PTL DEF Spec
-----------------------------------------------------------------------------
(* The failover limit.                                                      *)

\* The places of a runner, and those of a manual switch, between the look at the limit and
\* the link.
Switching == {"abort", "schedule", "link"}
\* Those of a manual switch once it has decided to move on.
Moving == {"next_abort", "next_schedule", "next_link"}

\* How a runner changes the journal's length and the task's candidate.
Budgeted(r) ==
  /\ \/ Len(attempts') = Len(attempts)
     \/ Len(attempts') = Len(attempts) + 1 /\ runner'[r].place = "send"
  /\ \/ task'.cand = task.cand /\ task'.job = task.job
     \/ runner[r].place = "search" /\ task'.job = TRUE /\ runner'[r].place \notin {"search", "start"}
     \/ runner[r].place = "link" /\ task'.job = TRUE /\ runner'[r].place \notin {"search", "start"}
  /\ runner'[r].place \in Switching => MaySwitch \/ runner[r].place \in Switching
  /\ runner'[r].place = "search" => task' = task /\ (task.cand = 0 \/ ~task.job)

\* Every step of a runner changes them so.
LEMMA RunnerStepBudgeted ==
  ASSUME Typed, NEW r \in Runners, RunnerStep(r)
  PROVE  Budgeted(r)
  <1>1. CASE ProcessTask(r)
    BY <1>1, ProcessTaskActs DEF Budgeted, Switching, Sits, Walks
  <1>2. CASE ResumeTask(r)
    BY <1>2, ResumeTaskActs DEF Budgeted, Switching, Sits, Walks
  <1>3. CASE Search(r)
    BY <1>3, SearchActs DEF Budgeted, Switching, Sits, Reads, Ends, Tasked
  <1>4. CASE Prepare(r)
    BY <1>4, PrepareActs DEF Budgeted, Switching, Sits, Walks, Reads, Polls, Tasked
  <1>5. CASE Open(r)
    BY <1>5, OpenActs DEF Budgeted, Switching, Sits, Walks, Refused, Tasked
  <1>6. CASE Journal(r)
    BY <1>6, JournalActs DEF Budgeted, Switching, Sits
  <1>7. CASE Send(r)
    BY <1>7, SendActs DEF Budgeted, Switching, Sits, Walks, Refused
  <1>8. CASE Outage(r)
    BY <1>8, OutageActs DEF Budgeted, Switching, Sits, Walks, Ends
  <1>9. CASE Handle(r)
    BY <1>9, HandleActs DEF Budgeted, Switching, Sits, Walks, Polls
  <1>10. CASE PollStops(r)
    BY <1>10, PollStopsActs DEF Budgeted, Switching, Sits, Ends
  <1>11. CASE PollGoesOn(r)
    BY <1>11, PollGoesOnActs DEF Budgeted, Tasked
  <1>12. CASE PollEnds(r)
    BY <1>12, PollEndsActs DEF Budgeted, Switching, Sits, Tasked
  <1>13. CASE PollBreaks(r)
    BY <1>13, PollBreaksActs DEF Budgeted, Switching, Sits, Walks
  <1>14. CASE Recheck(r)
    BY ZenonT(30), <1>14, RecheckActs
       DEF Budgeted, Switching, Sits, Walks, Reads, Ends, Polls, Finishes, Refused, Tasked
  <1>15. CASE Prefer(r)
    BY <1>15, PreferActs
       DEF Budgeted, Switching, Sits, Walks, Reads, Ends, Polls, Finishes, Refused, Tasked
  <1>16. CASE Process(r)
    BY <1>16, ProcessActs
       DEF Budgeted, Switching, Sits, Walks, Reads, Ends, Polls, Finishes, Refused, Tasked
  <1>17. CASE Import(r)
    BY <1>17, ImportActs
       DEF Budgeted, Switching, Sits, Walks, Reads, Ends, Polls, Finishes, Refused, Tasked
  <1>18. CASE Decide(r)
    BY <1>18, DecideActs
       DEF Budgeted, Switching, Sits, Walks, Reads, Ends, Polls, Finishes, Refused, Tasked
  <1>19. CASE Abort(r)
    BY <1>19, AbortActs
       DEF Budgeted, Switching, Sits, Walks, Reads, Ends, Polls, Finishes, Refused, Tasked
  <1>20. CASE Schedule(r)
    <2>1. Len(attempts') = Len(attempts)
      <3>1. /\ ScheduleRow(ManifestRow, runner[r].disposition) /\ ManifestRow \in 0..Len(attempts)
            /\ runner[r].disposition \in {"discard", "preserve", "leave"}
        BY <1>20, ScheduleStepActs, Fields
      <3> QED
        BY <3>1, ScheduleActs, TypedParts
    <2> QED
      BY <1>20, <2>1, ScheduleStepActs DEF Budgeted, Switching, Walks, Sits, Tasked
  <1>21. CASE Link(r)
    BY <1>21, LinkActs
       DEF Budgeted, Switching, Sits, Walks, Reads, Ends, Polls, Finishes, Refused, Tasked
  <1>22. CASE Reset(r)
    BY <1>22, ResetActs
       DEF Budgeted, Switching, Sits, Walks, Reads, Ends, Polls, Finishes, Refused, Tasked
  <1>23. CASE Finalize(r)
    <2>1. Len(attempts') = Len(attempts)
      <3>1. /\ ScheduleRow(FinalRow(r), runner[r].disposition) /\ FinalRow(r) \in 0..Len(attempts)
            /\ runner[r].disposition \in {"discard", "preserve", "leave"}
        BY <1>23, FinalizeActs, Fields
      <3> QED
        BY <3>1, ScheduleActs, TypedParts
    <2> QED
      BY <1>23, <2>1, FinalizeActs DEF Budgeted, Switching, Walks, Sits, Tasked
  <1>24. CASE Tidy(r)
    BY <1>24, TidyActs
       DEF Budgeted, Switching, Sits, Walks, Reads, Ends, Polls, Finishes, Refused, Tasked
  <1>25. CASE Fail(r)
    BY <1>25, FailActs
       DEF Budgeted, Switching, Sits, Walks, Reads, Ends, Polls, Finishes, Refused, Tasked
  <1> QED
    BY <1>1, <1>2, <1>3, <1>4, <1>5, <1>6, <1>7, <1>8, <1>9, <1>10, <1>11, <1>12, <1>13, <1>14,
       <1>15, <1>16, <1>17, <1>18, <1>19, <1>20, <1>21, <1>22, <1>23, <1>24, <1>25 DEF RunnerStep
\* In a download without picks: whoever is about to link another candidate has looked at the
\* limit, and the journal has not grown since.
WithinBudget ==
  /\ task.cand # 0 => task.job
  /\ \A r \in Runners: runner[r].place = "search" => task.cand = 0
  /\ \A r \in Runners: runner[r].place \in Switching => MaySwitch
  /\ \A k \in Callers: op[k].place \in Moving => MaySwitch
  /\ "reimport" \notin Actors => \A k \in Callers: op[k].place \notin Reimporting
\* A re-import, which journals an attempt, does not meet a switch.
Unmixed ==
  (\E k \in Callers: op[k].place \in Reimporting) =>
    /\ \A r \in Runners: runner[r].place \in {"idle", "tidy"}
    /\ \A k \in Callers: op[k].place \notin Moving

\* A step of a runner.
LEMMA RunnerStepWithin ==
  ASSUME Typed, Driven, WithinBudget, NEW r \in Runners, RunnerStep(r)
  PROVE  WithinBudget' /\ (task.cand # 0 /\ task'.cand # task.cand => MaySwitch)
  <1>l. /\ IsLive(r) /\ \A q \in Runners \ {r}: runner'[q].place = "idle"
        /\ UNCHANGED op /\ Len(attempts) \in Nat
    BY RunnerStepLives, TypedParts DEF Driven, IsLive
  <1>b. Budgeted(r)
    BY RunnerStepBudgeted
  <1>1. \A k \in Callers: op'[k].place \notin Moving
    BY <1>l DEF Driven, Stopping, Moving
  <1>2. task.cand # 0 /\ task'.cand # task.cand => MaySwitch
    BY <1>b DEF Budgeted, WithinBudget, Switching
  <1>3. task'.cand # 0 => task'.job
    BY <1>b DEF Budgeted, WithinBudget
  <1>4. runner'[r].place = "search" => task'.cand = 0
    BY <1>b DEF Budgeted, WithinBudget
  <1>5. runner'[r].place \in Switching => MaySwitch'
    BY <1>b DEF Budgeted, WithinBudget, Switching, MaySwitch
  <1> QED
    BY <1>l, <1>1, <1>2, <1>3, <1>4, <1>5 DEF WithinBudget, Switching

\* A re-import journals its attempt when no runner works.
LEMMA ReimportStepWithin ==
  ASSUME Typed, Driven, WithinBudget, Unmixed, NEW k \in Callers,
         ReimportAsk(k) \/ ReimportAcquire(k) \/ ReimportStart(k) \/ ReimportFinish(k)
  PROVE  WithinBudget' /\ task'.cand = task.cand
  <1>1. /\ UNCHANGED runner /\ task'.cand = task.cand /\ task'.job = task.job
        /\ \A q \in Callers \ {k}: op'[q] = op[q]
        /\ op'[k].place \in Reimporting \union {"done"}
        /\ (ReimportAsk(k) /\ Len(attempts') = Len(attempts)) \/ op[k].place \in Reimporting
        /\ "reimport" \in Actors
    <2>1. CASE ReimportAsk(k)
      BY <2>1, ReimportAskActs DEF Stands, Reimporting
    <2>2. CASE ReimportAcquire(k)
      BY <2>2, ReimportAcquireActs DEF Stands, Done, Reimporting, Tasked, WithinBudget
    <2>3. CASE ReimportStart(k)
      BY <2>3, ReimportStartActs DEF Steps, Stands, Reimporting, Tasked, WithinBudget
    <2>4. CASE ReimportFinish(k)
      BY <2>4, ReimportFinishActs DEF Stands, Done, Reimporting, Tasked, WithinBudget
    <2> QED
      BY <2>1, <2>2, <2>3, <2>4
  <1>2. op'[k].place \notin Moving
    BY <1>1 DEF Moving, Reimporting
  <1>3. CASE ReimportAsk(k) /\ Len(attempts') = Len(attempts)
    BY <1>1, <1>2, <1>3 DEF WithinBudget, MaySwitch
  <1>4. CASE op[k].place \in Reimporting
    <2>1. /\ \A r \in Runners: runner[r].place \in {"idle", "tidy"}
          /\ \A q \in Callers: op[q].place \notin Moving
      BY <1>4 DEF Unmixed
    <2> QED
      BY <1>1, <1>2, <2>1 DEF WithinBudget, Switching
  <1> QED
    BY <1>1, <1>3, <1>4

\* A step of a request.
LEMMA RequestStepWithin ==
  ASSUME Typed, Driven, Picked, Unmixed, WithinBudget,
         NEW k \in Callers, RequestStep(k) \/ Request(k)
  PROVE  WithinBudget' /\ (task.cand # 0 /\ task'.cand # task.cand => MaySwitch)
  <1>r. CASE ReimportAsk(k) \/ ReimportAcquire(k) \/ ReimportStart(k) \/ ReimportFinish(k)
    BY <1>r, ReimportStepWithin
  <1> SUFFICES ASSUME ~ReimportAsk(k), ~ReimportAcquire(k), ~ReimportStart(k), ~ReimportFinish(k)
               PROVE  WithinBudget' /\ (task.cand # 0 /\ task'.cand # task.cand => MaySwitch)
    BY <1>r
  <1>f. \A q \in Callers \ {k}: op'[q] = op[q]
    BY RequestStepLives
  <1>s. \A r \in Runners: runner'[r] = runner[r]
                          \/ runner'[r].place \notin Switching \union {"search"}
    <2>1. Off.place \notin Switching \union {"search"}
      BY DEF Off, Switching
    <2>2. CASE Stops
      BY <2>1, <2>2 DEF Stops
    <2>3. ASSUME NEW r \in Runners, Begins(r, "start") \/ Begins(r, "resume")
          PROVE  \A q \in Runners: runner'[q] = runner[q]
                                   \/ runner'[q].place \notin Switching \union {"search"}
      BY <2>3 DEF Begins, Sits, Switching
    <2>4. CASE UNCHANGED <<runner, tracked>>
      BY <2>4
    <2> QED
      BY <2>2, <2>3, <2>4, RequestStepLives
  <1> DEFINE P == /\ Len(attempts') = Len(attempts)
                  /\ \/ task'.cand = task.cand /\ task'.job = task.job
                     \/ op[k].place \in {"next_link", "pick"} /\ task'.job = TRUE
                  /\ op'[k].place \in Moving => MaySwitch \/ op[k].place \in Moving
                  /\ op'[k].place \in Reimporting => op[k].place \in Reimporting
  <1>1. ASSUME CancelAsk(k) PROVE P
    BY <1>1, CancelAskActs DEF Stands, Steps, Done, Tasked, Moving, Reimporting
  <1>2. ASSUME CancelCommit(k) PROVE P
    BY <1>2, CancelCommitActs DEF Stands, Steps, Done, Tasked, Moving, Reimporting
  <1>3. ASSUME CancelTidy(k) PROVE P
    BY <1>3, CancelTidyActs DEF Stands, Steps, Done, Tasked, Moving, Reimporting
  <1>4. ASSUME NextAsk(k) PROVE P
    BY <1>4, NextAskActs DEF Stands, Steps, Done, Tasked, Moving, Reimporting
  <1>5. ASSUME NextLook(k) PROVE P
    BY <1>5, NextLookActs DEF Stands, Steps, Done, Tasked, Moving, Reimporting
  <1>6. ASSUME NextStop(k) PROVE P
    BY <1>6, NextStopActs DEF Stands, Steps, Done, Tasked, Moving, Reimporting
  <1>7. ASSUME NextVerify(k) PROVE P
    BY <1>7, NextVerifyActs DEF Stands, Steps, Done, Tasked, Moving, Reimporting
  <1>8. ASSUME NextAbort(k) PROVE P
    BY <1>8, NextAbortActs DEF Stands, Steps, Done, Tasked, Moving, Reimporting
  <1>9. ASSUME NextSchedule(k) PROVE P
    <2>1. Len(attempts') = Len(attempts)
      BY <1>9, NextScheduleActs, ScheduleActs, TypedParts
    <2> QED
      BY <1>9, <2>1, NextScheduleActs DEF Steps, Stands, Moving, Reimporting
  <1>10. ASSUME NextLink(k) PROVE P
    BY <1>10, NextLinkActs DEF Stands, Steps, Done, Tasked, Moving, Reimporting
  <1>11. ASSUME NextDispatch(k) PROVE P
    BY <1>11, NextDispatchActs DEF Stands, Steps, Done, Tasked, Moving, Reimporting
  <1>12. ASSUME SettleAsk(k) PROVE P
    BY <1>12, SettleAskActs DEF Stands, Steps, Done, Tasked, Moving, Reimporting
  <1>13. ASSUME SettleWrite(k) PROVE P
    BY <1>13, SettleWriteActs DEF Stands, Steps, Done, Tasked, Moving, Reimporting
  <1>14. ASSUME RetryAsk(k) PROVE P
    BY <1>14, RetryAskActs DEF Stands, Steps, Done, Tasked, Moving, Reimporting
  <1>15. ASSUME RetryWrite(k) PROVE P
    BY <1>15, RetryWriteActs DEF Stands, Steps, Done, Tasked, Moving, Reimporting
  <1>16. ASSUME PickAsk(k) \/ PickLink(k) PROVE P
    BY <1>16, PickAskActs, PickLinkActs DEF Stands, Steps, Done, Tasked, Moving, Reimporting
  <1> HIDE DEF P
  <1>p. P
    BY <1>1, <1>2, <1>3, <1>4, <1>5, <1>6, <1>7, <1>8, <1>9, <1>10, <1>11, <1>12, <1>13,
       <1>14, <1>15, <1>16 DEF RequestStep, Request
  <1>20. MaySwitch' <=> MaySwitch
    BY <1>p DEF P, MaySwitch
  <1>21. task.cand # 0 /\ task'.cand # task.cand => MaySwitch
    BY <1>p DEF P, WithinBudget, Moving, Picked
  <1>22. task'.cand # 0 => task'.job
    BY <1>p DEF P, WithinBudget
  <1>23. \A r \in Runners: runner'[r].place = "search" => task'.cand = 0
    <2>1. CASE task'.cand = task.cand
      BY <1>s, <2>1 DEF WithinBudget
    <2>2. CASE op[k].place \in {"next_link", "pick"}
      <3>1. \A r \in Runners: runner[r].place = "idle"
        BY <2>2 DEF Driven, Picked, Stopping, IsLive
      <3> QED
        BY <1>s, <3>1
    <2> QED
      BY <1>p, <2>1, <2>2 DEF P
  <1>24. \A r \in Runners: runner'[r].place \in Switching => MaySwitch'
    BY <1>s, <1>20 DEF WithinBudget
  <1>25. \A q \in Callers: op'[q].place \in Moving => MaySwitch'
    BY <1>f, <1>p, <1>20 DEF P, WithinBudget
  <1>26. "reimport" \notin Actors => \A q \in Callers: op'[q].place \notin Reimporting
    BY <1>f, <1>p DEF P, WithinBudget
  <1> QED
    BY <1>21, <1>22, <1>23, <1>24, <1>25, <1>26 DEF WithinBudget

\* Peers, the cleanup, the reaper, time and other imports move no candidate and add no row.
LEMMA OtherStepLinks ==
  ASSUME Typed, OtherStep
  PROVE  /\ task'.cand = task.cand /\ task'.job = task.job
         /\ Len(attempts') = Len(attempts)
  <1> DEFINE Same == /\ task'.cand = task.cand /\ task'.job = task.job
                     /\ Len(attempts') = Len(attempts)
  <1>1. ASSUME NEW c \in 1..Peers, TransferMoves(c) PROVE Same
    BY <1>1, TransferMovesActs
  <1>2. ASSUME NEW i \in 1..Len(attempts), CleanupSettles(i) PROVE Same
    BY <1>2, CleanupSettlesActs
  <1>3. ASSUME ReapFind PROVE Same
    BY <1>3, ReapFindActs
  <1>4. ASSUME ReapFail PROVE Same
    BY <1>4, ReapFailActs DEF Tasked
  <1>5. ASSUME Ages PROVE Same
    BY <1>5, AgesActs DEF Tasked
  <1>6. ASSUME OtherImport PROVE Same
    BY <1>6 DEF OtherImport, rows
  <1> QED
    BY <1>1, <1>2, <1>3, <1>4, <1>5, <1>6 DEF OtherStep

\* Any step.
LEMMA NextWithin ==
  ASSUME Typed, Driven, Picked, Unmixed, WithinBudget, [Next]_vars
  PROVE  WithinBudget' /\ (task.cand # 0 /\ task'.cand # task.cand => MaySwitch)
  <1>1. ASSUME NEW r \in Runners, RunnerStep(r)
        PROVE  WithinBudget' /\ (task.cand # 0 /\ task'.cand # task.cand => MaySwitch)
    BY <1>1, RunnerStepWithin
  <1>2. ASSUME NEW k \in Callers, RequestStep(k) \/ Request(k)
        PROVE  WithinBudget' /\ (task.cand # 0 /\ task'.cand # task.cand => MaySwitch)
    BY <1>2, RequestStepWithin
  <1>3. CASE OtherStep
    BY <1>3, OtherStepLinks, OtherStepLives DEF WithinBudget, MaySwitch
  <1>4. CASE CrashAndResume
    <2>1. \A r \in Runners: runner'[r].place \notin Switching \union {"search"}
      BY <1>4, CrashActs DEF Switching
    <2>2. \A k \in Callers: op'[k].place \notin Moving \union Reimporting
      BY <1>4, CrashActs DEF Moving, Reimporting
    <2> QED
      BY <1>4, <2>1, <2>2, CrashActs DEF WithinBudget
  <1>5. CASE UNCHANGED vars
    BY <1>5 DEF vars, WithinBudget, MaySwitch
  <1> QED
    BY <1>1, <1>2, <1>3, <1>4, <1>5, NextCases

\* Automatic and manual switches together stay within the failover limit
\* (_run_with_failover counts the attempts, try_next_source does too): the limit is looked
\* at some steps before the candidate is linked, and nothing adds an attempt in between,
\* but for a pick, or a re-import of a download that the reaper failed under the runner that
\* a manual switch had just started.
THEOREM BudgetIsKept ==
  ASSUME "pick" \notin Actors, "reimport" \notin Actors \/ "next" \notin Actors
  PROVE  Spec => SwitchesInBudget
  <1> DEFINE Inv == /\ Typed /\ Locked /\ Driven /\ Unpicked /\ WithinBudget
                    /\ "next" \notin Actors => Quiet
  <1>1. Init => Inv
    <2> SUFFICES ASSUME Init PROVE Inv
      OBVIOUS
    <2>1. task.status = "queued" /\ task.cand = 0 /\ reaping = FALSE
      BY DEF Init
    <2>2. WithinBudget
      BY <2>1, InitTyped DEF WithinBudget, Switching, Moving, Reimporting
    <2>3. Quiet
      BY <2>1, InitTyped DEF Quiet, Stopping, Reimporting, Ended, IsLive
    <2> QED
      BY <2>2, <2>3, InitTyped, InitDriven
  <1>2. Inv => Unmixed /\ Picked
    BY DEF Unmixed, WithinBudget, Quiet, Stopping, Moving, Unpicked, Picked
  <1>3. Inv /\ [Next]_vars => Inv'
    BY <1>2, NextTyped, NextLocked, NextDriven, NextWithin, NextQuiet
  <1>4. Inv /\ [Next]_vars =>
          [task.cand # 0 /\ task'.cand # task.cand => Len(attempts) < MaxFailover]_vars
    BY <1>2, NextWithin DEF MaySwitch
  <1> QED
    BY <1>1, <1>3, <1>4, PTL DEF Spec, SwitchesInBudget
=============================================================================
