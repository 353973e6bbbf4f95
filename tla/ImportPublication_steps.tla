----------------------- MODULE ImportPublication_steps -----------------------
(***************************************************************************)
(* Lemmas about the steps of ImportPublication, for a bundle of any size   *)
(* with any files replaced and any bounds, in four parts:                  *)
(*   - the variables keep their types (StepTyped);                         *)
(*   - what each action does to the fields of the processes, to the        *)
(*     journal and to the paths (the lemmas named ...Acts);                *)
(*   - the lease: who works in the library has it (StepPlaced);            *)
(*   - what one file g sees of each action (the lemmas named ...Sees): an  *)
(*     action on a record of functions becomes facts about a few scalars,  *)
(*     which is how the proofs of ImportPublication_proof go through.      *)
(***************************************************************************)
EXTENDS ImportPublication, WellFoundedInduction, TLAPS

USE CountAssumption, KindsAssumption, BoundsAssumption

\* The types of a process and of the paths of a file.
Agents == [at: Places, f: 0..Count, record: BundleStates,
           view: [Files -> JournalStates], fresh: SUBSET Files,
           was: BOOLEAN, attention: BOOLEAN, failed: SUBSET Files,
           rebuilt: SUBSET Content]
Whats == {"absent", "old", "new", "foreign"}
Paths == [source: {"absent", "new", "changed"}, temp: {"absent", "new"}, dest: Whats,
          backup: Whats, other: {"absent", "old"}, bin: {"absent", "old"},
          artTemp: BOOLEAN, artDest: BOOLEAN]
\* TypeOK, but that a backup may be of anything: that only the old file is ever put aside
\* takes more than types.
Typed ==
  /\ bundle \in BundleStates /\ journal \in [Files -> JournalStates] /\ catalog \in BOOLEAN
  /\ disk \in [Files -> Paths]
  /\ lock \in Procs \union {"none"}
  /\ proc \in [Procs -> Agents]
  /\ booting \in BOOLEAN /\ policyMoved \in BOOLEAN /\ crossed \in BOOLEAN
  /\ torn \subseteq Files /\ threads \subseteq Threads /\ stranded \subseteq Files
  /\ calls \in 0..MaxCalls /\ disturbed \in 0..MaxDisturbed
-----------------------------------------------------------------------------
(* Types.                                                                   *)

\* The idle process is a process.
LEMMA IdleTyped == Idle \in Agents
  BY DEF Idle, Agents, Places, Waiting, BundleStates, JournalStates

\* What the fields of a process are.
LEMMA AgentFields ==
  ASSUME NEW a \in Agents
  PROVE  /\ a.at \in Places /\ a.f \in 0..Count /\ a.record \in BundleStates
         /\ a.view \in [Files -> JournalStates] /\ a.fresh \in SUBSET Files
         /\ a.was \in BOOLEAN /\ a.attention \in BOOLEAN /\ a.failed \in SUBSET Files
         /\ a.rebuilt \in SUBSET Content
  BY ZenonT(30) DEF Agents

\* A process stays one under the updates the actions make of it.
LEMMA AgentTyped ==
  ASSUME NEW a \in Agents
  PROVE  /\ \A at \in Places: [a EXCEPT !.at = at] \in Agents
         /\ \A n \in 0..Count: [a EXCEPT !.f = n] \in Agents
         /\ \A r \in BundleStates: [a EXCEPT !.record = r] \in Agents
         /\ \A v \in [Files -> JournalStates]: [a EXCEPT !.view = v] \in Agents
         /\ \A g \in Files, s \in JournalStates: [a EXCEPT !.view[g] = s] \in Agents
         /\ \A s \in SUBSET Files: [a EXCEPT !.fresh = s] \in Agents
         /\ \A b \in BOOLEAN: [a EXCEPT !.was = b] \in Agents
         /\ \A b \in BOOLEAN: [a EXCEPT !.attention = b] \in Agents
         /\ \A s \in SUBSET Files: [a EXCEPT !.failed = s] \in Agents
         /\ \A at \in Places, n \in 0..Count: [a EXCEPT !.at = at, !.f = n] \in Agents
         /\ \A at \in Places, r \in BundleStates: [a EXCEPT !.at = at, !.record = r] \in Agents
         /\ \A at \in Places, n \in 0..Count, v \in [Files -> JournalStates], s \in SUBSET Files:
              [a EXCEPT !.at = at, !.f = n, !.view = v, !.fresh = s] \in Agents
         /\ \A at \in Places, n \in 0..Count, v \in [Files -> JournalStates], s \in SUBSET Files,
               r \in SUBSET Content:
              [a EXCEPT !.at = at, !.f = n, !.view = v, !.fresh = s, !.rebuilt = r] \in Agents
         /\ \A at \in Places, n \in 0..Count, b \in BOOLEAN:
              [a EXCEPT !.at = at, !.f = n, !.was = b] \in Agents
         /\ \A g \in Files, s \in JournalStates, at \in Places:
              [a EXCEPT !.view[g] = s, !.at = at] \in Agents
  BY ZenonT(60) DEF Agents

\* When a process becomes another process, both are processes after the step.
LEMMA BecomesTyped ==
  ASSUME proc \in [Procs -> Agents], NEW p \in Procs, NEW me \in Agents, NEW written,
         Becomes(p, me, written)
  PROVE  proc' \in [Procs -> Agents]
  <1>1. \A q \in Procs: [proc[q] EXCEPT !.fresh = @ \ written] \in Agents
    BY AgentTyped, AgentFields
  <1> QED
    BY <1>1 DEF Becomes

\* The same when no row is written.
LEMMA GoesOnTyped ==
  ASSUME proc \in [Procs -> Agents], NEW p \in Procs, NEW me \in Agents, GoesOn(p, me)
  PROVE  proc' \in [Procs -> Agents]
  BY BecomesTyped DEF GoesOn

\* What a step of the types leaves to show when only a process moves.
ProcTyped == proc' \in [Procs -> Agents]

\* A path of a file stays one when something is put in it.
LEMMA PutTyped ==
  ASSUME disk \in [Files -> Paths], NEW f \in Files
  PROVE  /\ \A what \in {"absent", "new"}: Put(f, "temp", what) => disk' \in [Files -> Paths]
         /\ \A what \in Whats: Put(f, "dest", what) => disk' \in [Files -> Paths]
         /\ \A what \in {"absent", "new", "changed"}:
              Put(f, "source", what) => disk' \in [Files -> Paths]
         /\ \A what \in BOOLEAN: Put(f, "artTemp", what) => disk' \in [Files -> Paths]
  BY DEF Put, Paths, Whats

\* So does its artwork.
LEMMA ArtworkTyped ==
  ASSUME disk \in [Files -> Paths], NEW f \in Files, NEW art \in BOOLEAN
  PROVE  [disk EXCEPT ![f].artDest = art, ![f].artTemp = FALSE] \in [Files -> Paths]
  <1>1. [disk[f] EXCEPT !.artDest = art, !.artTemp = FALSE] \in Paths
    BY ZenonT(60) DEF Paths
  <1>2. [disk EXCEPT ![f] = [disk[f] EXCEPT !.artDest = art, !.artTemp = FALSE]] \in [Files -> Paths]
    BY <1>1
  <1>3. [disk EXCEPT ![f].artDest = art, ![f].artTemp = FALSE]
          = [disk EXCEPT ![f] = [disk[f] EXCEPT !.artDest = art, !.artTemp = FALSE]]
    OBVIOUS
  <1> QED
    BY <1>2, <1>3

\* The preparation that fails keeps the types.
LEMMA PreparationFailsTyped ==
  ASSUME Typed, PreparationFails
  PROVE  ProcTyped /\ lock' \in Procs \union {"none"} /\ UNCHANGED <<store, disk>>
  <1> DEFINE view == [f \in Files |-> IF f < pub.f THEN pub.view[f] ELSE journal[f]]
             fresh == {f \in Files: f >= pub.f \/ f \in pub.fresh}
             begun == \E f \in Files: view[f] # "none"
             rebuilt == {f \in Content: f >= pub.f}
             me == [pub EXCEPT !.at = IF begun THEN "roll" ELSE "finish", !.f = Count,
                               !.view = view, !.fresh = fresh, !.rebuilt = rebuilt]
  <1>1. pub \in Agents
    BY DEF Typed, pub, Procs
  <1>2. view \in [Files -> JournalStates]
    BY <1>1, AgentFields DEF Typed
  <1>3. fresh \in SUBSET Files /\ rebuilt \in SUBSET Content
    OBVIOUS
  <1>4. (IF begun THEN "roll" ELSE "finish") \in Places
    BY DEF Places, Waiting
  <1>5. me \in Agents
    <2> HIDE DEF view, fresh, begun, rebuilt
    <2> Count \in 0..Count
      OBVIOUS
    <2> QED
      BY <1>1, <1>2, <1>3, <1>4, AgentTyped
  <1>6. GoesOn("pub", me)
    BY DEF PreparationFails
  <1>7. ProcTyped
    <2> HIDE DEF me
    <2> QED
      BY <1>5, <1>6, GoesOnTyped DEF Typed, ProcTyped, Procs
  <1> QED
    BY <1>7 DEF PreparationFails, Typed, Asked, Procs

\* An exception under the lease keeps the types.
LEMMA CriticalFailsTyped ==
  ASSUME Typed, CriticalFails
  PROVE  ProcTyped /\ lock' \in Procs \union {"none"} /\ UNCHANGED <<store, disk>>
  <1>1. pub \in Agents
    BY DEF Typed, pub, Procs
  <1>2. [pub EXCEPT !.at = "lease"] \in Agents
    BY ZenonT(30), <1>1, AgentTyped DEF Places
  <1>3. [pub EXCEPT !.at = "roll", !.f = Count, !.was = FALSE] \in Agents
    <2> Count \in 0..Count
      OBVIOUS
    <2> QED
      BY ZenonT(30), <1>1, AgentTyped DEF Places, Waiting
  <1>4. ProcTyped
    BY <1>2, <1>3, GoesOnTyped DEF Typed, ProcTyped, Procs, CriticalFails
  <1> QED
    BY SMTT(30), <1>4 DEF CriticalFails, Typed, Asked, AskedAgain, Released, Procs, Other

\* A process that goes to the next file, or on, is a process.
LEMMA ForwardTyped ==
  ASSUME NEW me \in Agents, me.f \in Files
  PROVE  /\ me.f = pub.f => PreparedOne(me) \in Agents
         /\ \A loop, after \in Places: NextOf(loop, after, me) \in Agents
         /\ AfterRecord(me) \in Agents
  <1>1. me.f \in 1..Count /\ (me.f < Count => me.f + 1 \in 0..Count) /\ 1 \in 0..Count
    BY DEF Files
  <1>2. {"plan", "enter", "boundary", "recheck", "publish", "commit"} \subseteq Places
    BY SMTT(30) DEF Places, Waiting
  <1>3. \A loop, after \in Places: NextOf(loop, after, me) \in Agents
    BY ZenonT(60), <1>1, AgentTyped DEF NextOf
  <1>4. me.f = pub.f => PreparedOne(me) \in Agents
    BY ZenonT(60), <1>1, <1>2, AgentTyped DEF PreparedOne
  <1>5. AfterRecord(me) \in Agents
    <2> DEFINE back == [me EXCEPT !.was = FALSE]
    <2>1. back \in Agents
      BY AgentTyped
    <2>2. back.f = me.f
      BY SMTT(30) DEF Agents
    <2>3. NextOf("boundary", "recheck", back) \in Agents
      <3> HIDE DEF back
      <3> QED
        BY ZenonT(60), <2>1, <2>2, <1>1, <1>2, AgentTyped DEF NextOf
    <2> QED
      BY <2>3, <1>2, <1>3 DEF AfterRecord
  <1> QED
    BY <1>3, <1>4, <1>5

\* Locks stay locks.
LEMMA LockTyped ==
  ASSUME Typed, NEW p \in Procs
  PROVE  /\ Asked(p) \in Procs \union {"none"} /\ Released(p) \in Procs \union {"none"}
         /\ AskedAgain(p) \in Procs \union {"none"}
  BY SMTT(30) DEF Typed, Asked, Released, AskedAgain, Procs, Other

\* What raised becomes of a process is a process.
LEMMA RaisedTyped == \A p \in Procs: Raised(p) \in Agents
  BY ZenonT(60), IdleTyped, AgentTyped DEF Raised, Places

\* A transition of a row keeps the types.
LEMMA TransitionTyped ==
  ASSUME Typed, NEW p \in Procs, proc[p].f \in Files, NEW state \in JournalStates,
         NEW at \in Places, Transition(p, state, at)
  PROVE  ProcTyped /\ journal' \in [Files -> JournalStates]
  <1>1. [proc[p] EXCEPT !.view[proc[p].f] = state, !.at = at] \in Agents
    BY AgentTyped DEF Typed
  <1> QED
    BY <1>1, BecomesTyped DEF Transition, ProcTyped, Typed

\* The groups of places the proofs speak of.
Preparing == {"plan", "artwork", "stage", "seal", "validate"}
Publishing == {"boundary", "recheck", "publish", "backed", "place", "place_art", "record", "commit"}
Undoing == {"undo_dest", "undo_art", "undo_backup", "undo_temp", "undone"}
Cleaning == {"clean_source", "clean_old", "escalate"}
Rolling == Undoing \union {"roll"}
\* A process stands only at places of its own, and where it works on a file it has one.
Stands ==
  /\ pub.at \notin {"listed", "journals", "check", "attend"}
  /\ rec.at \notin {"mark", "open", "enter"} \union Preparing \union Publishing
  /\ \A p \in Procs:
       proc[p].at \in Preparing \union Undoing \union {"boundary", "publish", "backed", "place",
                        "place_art", "record", "clean_source", "clean_old"} => proc[p].f \in Files

\* The steps of the publisher up to the lease keep the types.
LEMMA PreparingTyped ==
  ASSUME Typed, Stands,
         Mark \/ Open \/ Plan \/ StageArtwork \/ Stage \/ Seal \/ Validate \/ Enter
  PROVE  Typed'
  <1> USE DEF store, bounds
  <1>a. pub \in Agents /\ proc \in [Procs -> Agents] /\ "pub" \in Procs /\ pub = proc["pub"]
    BY DEF Typed, pub, Procs
  <1>1. CASE Mark
    <2>1. [pub EXCEPT !.at = "open"] \in Agents
      BY ZenonT(60), <1>a, AgentTyped DEF Places
    <2>2. proc' \in [Procs -> Agents]
      BY <1>1, <1>a, <2>1, IdleTyped, GoesOnTyped DEF Mark
    <2> QED
      BY SMTT(30), <1>1, <2>2 DEF Mark, Typed, BundleStates
  <1>2. CASE Open
    <2> DEFINE me == [pub EXCEPT !.at = "plan", !.f = 1, !.view = journal,
                                 !.fresh = {f \in Files: journal[f] # "none"}]
    <2>1. me \in Agents
      <3> "plan" \in Places /\ 1 \in 0..Count /\ {f \in Files: journal[f] # "none"} \in SUBSET Files
        BY DEF Places
      <3> QED
        BY <1>a, AgentTyped DEF Typed
    <2>2. proc' \in [Procs -> Agents]
      <3> GoesOn("pub", Idle) \/ GoesOn("pub", me)
        BY <1>2 DEF Open
      <3> QED
        BY <1>a, <2>1, IdleTyped, GoesOnTyped
    <2> QED
      BY <1>2, <2>2 DEF Open, Typed
  <1>3. CASE Plan
    <2> USE DEF Plan
    <2>f. pub.f \in Files /\ pub.f \in 0..Count
      BY <1>3, <1>a DEF Stands, Preparing, Files
    <2>p. {"plan", "artwork", "stage", "validate"} \subseteq Places /\ "planned" \in JournalStates
      BY DEF Places, JournalStates
    <2>1. CASE PreparationFails
      BY <1>3, <2>1, PreparationFailsTyped DEF ProcTyped, Typed
    <2>2. CASE Transition("pub", "planned", "plan") /\ UNCHANGED <<disk, lock, bundle, catalog>>
      BY <1>3, <2>2, <2>f, <2>p, <1>a, TransitionTyped DEF ProcTyped, Typed
    <2>3. CASE GoesOn("pub", PreparedOne(pub)) /\ LockWhenPrepared /\ UNCHANGED <<store, disk>>
      BY <1>3, <2>3, <2>f, <1>a, LockTyped, GoesOnTyped, ForwardTyped DEF Typed, LockWhenPrepared
    <2>4. ASSUME NEW at \in {"artwork", "stage", "validate"}, GoesOn("pub", [pub EXCEPT !.at = at]),
                 UNCHANGED <<store, disk, lock>>
          PROVE  Typed'
      <3>1. [pub EXCEPT !.at = at] \in Agents
        BY <1>a, <2>p, AgentTyped
      <3> QED
        BY SMTT(30), <1>3, <2>4, <3>1, <1>a, GoesOnTyped DEF Typed
    <2>5. CASE /\ journal' = [journal EXCEPT ![pub.f] = "planned"]
               /\ Becomes("pub", [pub EXCEPT !.view[pub.f] = "planned", !.fresh = @ \union {pub.f}],
                          {pub.f})
               /\ UNCHANGED <<disk, lock, bundle, catalog>>
      <3>1. [pub EXCEPT !.view[pub.f] = "planned", !.fresh = @ \union {pub.f}] \in Agents
        BY <1>a, <2>f, <2>p DEF Agents
      <3> QED
        BY <1>3, <2>5, <3>1, <2>p, <2>f, <1>a, BecomesTyped DEF Typed
    <2>6. (IF pub.f \in Artwork THEN "artwork" ELSE "stage") \in {"artwork", "stage", "validate"}
      OBVIOUS
    <2> QED
      BY <1>3, <2>1, <2>2, <2>3, <2>4, <2>5, <2>6
  <1>4. CASE StageArtwork \/ Stage
    <2>1. pub.f \in Files
      BY <1>4, <1>a DEF Stands, Preparing, StageArtwork, Stage
    <2>2. [pub EXCEPT !.at = "stage"] \in Agents /\ [pub EXCEPT !.at = "seal"] \in Agents
      BY <1>a, AgentTyped DEF Places
    <2>3. proc' \in [Procs -> Agents]
      BY <1>4, <1>a, <2>2, GoesOnTyped DEF StageArtwork, Stage
    <2>4. disk' \in [Files -> Paths]
      BY <1>4, <2>1, PutTyped DEF StageArtwork, Stage, Typed
    <2> QED
      BY <1>4, <2>3, <2>4 DEF StageArtwork, Stage, Typed
  <1>5. CASE Seal
    <2>1. pub.f \in Files /\ "staged" \in JournalStates /\ "validate" \in Places
      BY <1>5, <1>a DEF Stands, Preparing, Seal, JournalStates, Places
    <2> QED
      BY <1>5, <1>a, <2>1, TransitionTyped, PreparationFailsTyped DEF Seal, ProcTyped, Typed
  <1>6. CASE Validate
    <2>1. pub.f \in Files /\ "validated" \in JournalStates
      BY <1>6, <1>a DEF Stands, Preparing, Validate, JournalStates
    <2> DEFINE me == [pub EXCEPT !.view[pub.f] = "validated"]
    <2>2. me \in Agents /\ me.f = pub.f
      <3>1. me \in Agents
        BY <1>a, <2>1, AgentTyped
      <3>2. me.f = pub.f
        BY <1>a DEF Agents
      <3> QED
        BY SMTT(30), <3>1, <3>2
    <2>3. PreparedOne(me) \in Agents
      BY <2>1, <2>2, ForwardTyped
    <2>4. CASE PreparationFails
      BY <1>6, <2>4, PreparationFailsTyped DEF Validate, ProcTyped, Typed
    <2>5. CASE ~PreparationFails
      <3>1. Becomes("pub", PreparedOne(me), {pub.f})
        BY <1>6, <2>5 DEF Validate
      <3>2. proc' \in [Procs -> Agents]
        <4> HIDE DEF me
        <4> QED
          BY <3>1, <2>3, <1>a, BecomesTyped
      <3> QED
        BY <1>6, <2>5, <2>1, <3>2, <1>a, LockTyped DEF Validate, LockWhenPrepared, Typed
    <2> QED
      BY <2>4, <2>5
  <1>7. CASE Enter
    <2>1. [pub EXCEPT !.at = "boundary", !.f = 1] \in Agents
      <3> "boundary" \in Places /\ 1 \in 0..Count
        BY DEF Places
      <3> QED
        BY <1>a, AgentTyped
    <2>2. ProcTyped
      BY <1>7, <2>1, <1>a, GoesOnTyped, CriticalFailsTyped DEF Enter, ProcTyped
    <2> QED
      BY <1>7, <2>2, CriticalFailsTyped DEF Enter, ProcTyped, Typed
  <1> QED
    BY <1>1, <1>2, <1>3, <1>4, <1>5, <1>6, <1>7

\* So do its steps under the lease.
LEMMA PublishingTyped ==
  ASSUME Typed, Stands,
         Boundary \/ Recheck \/ Publish \/ Backed \/ Place \/ PlaceArtwork \/ RecordPublished \/ Commit
  PROVE  Typed'
  <1> USE DEF store, bounds
  <1>a. pub \in Agents /\ proc \in [Procs -> Agents] /\ "pub" \in Procs /\ pub = proc["pub"]
    BY DEF Typed, pub, Procs
  <1>f. \/ pub.f \in Files
        \/ pub.at \in {"recheck", "commit"}
    BY <1>a DEF Boundary, Recheck, Publish, Backed, Place, PlaceArtwork, RecordPublished, Commit, Stands
  <1>p. {"boundary", "recheck", "publish", "backed", "place", "place_art", "record", "commit",
         "lease"} \subseteq Places
    BY DEF Places
  <1>c. CASE CriticalFails /\ UNCHANGED bounds
    BY <1>c, CriticalFailsTyped DEF ProcTyped, Typed
  <1>m. ASSUME NEW at \in Places, GoesOn("pub", [pub EXCEPT !.at = at])
        PROVE  proc' \in [Procs -> Agents]
    BY <1>m, <1>a, AgentTyped, GoesOnTyped
  <1>1. CASE Boundary
    <2>f. pub.f \in Files
      BY <1>1, <1>f DEF Boundary
    <2>1. CASE GoesOn("pub", [pub EXCEPT !.at = "place_art", !.was = TRUE]) /\ UNCHANGED <<store, disk, lock>>
      <3>1. [pub EXCEPT !.at = "place_art", !.was = TRUE] \in Agents
        BY <1>a, <1>p DEF Agents
      <3> QED
        BY <1>1, <2>1, <3>1, <1>a, GoesOnTyped DEF Boundary, Typed
    <2>2. CASE GoesOn("pub", NextOf("boundary", "recheck", pub)) /\ UNCHANGED <<store, disk, lock>>
      <3>1. NextOf("boundary", "recheck", pub) \in Agents
        BY <1>a, <2>f, <1>p, ForwardTyped
      <3> QED
        BY <1>1, <2>2, <3>1, <1>a, GoesOnTyped DEF Boundary, Typed
    <2> DEFINE me == [pub EXCEPT !.view[pub.f] = "replacement_backed_up"]
    <2>3. CASE /\ journal' = [journal EXCEPT ![pub.f] = "replacement_backed_up"]
               /\ Becomes("pub", NextOf("boundary", "recheck", me), {pub.f})
               /\ UNCHANGED <<bundle, catalog, disk, lock>>
      <3>1. "replacement_backed_up" \in JournalStates
        BY DEF JournalStates
      <3>2. me \in Agents
        BY <1>a, <2>f, <3>1, AgentTyped
      <3>3. me.f = pub.f
        BY <1>a DEF Agents
      <3>4. NextOf("boundary", "recheck", me) \in Agents
        BY <3>2, <3>3, <2>f, <1>p, ForwardTyped
      <3>5. proc' \in [Procs -> Agents]
        <4> HIDE DEF me
        <4> QED
          BY <2>3, <3>4, <1>a, BecomesTyped
      <3> QED
        BY <1>1, <2>3, <3>1, <3>5 DEF Boundary, Typed
    <2> QED
      BY <1>1, <1>c, <2>1, <2>2, <2>3 DEF Boundary
  <1>2. CASE Recheck
    <2>1. [pub EXCEPT !.at = "publish", !.f = 1] \in Agents
      <3> 1 \in 0..Count
        OBVIOUS
      <3> QED
        BY <1>a, <1>p, AgentTyped
    <2> DEFINE art(f) == IF pub.view[f] = "published"
                         THEN [disk[f] EXCEPT !.artTemp = @ /\ f \notin Artwork] ELSE disk[f]
    <2>2. \A f \in Files: art(f) \in Paths
      <3> TAKE f \in Files
      <3>1. disk[f] \in Paths /\ (disk[f].artTemp /\ f \notin Artwork) \in BOOLEAN
        BY DEF Typed
      <3>2. [disk[f] EXCEPT !.artTemp = @ /\ f \notin Artwork] \in Paths
        BY <3>1 DEF Paths
      <3> QED
        BY <3>1, <3>2
    <2>3. CASE CriticalFails
      BY <1>2, <2>3, <1>c DEF Recheck
    <2>4. CASE /\ disk' = [f \in Files |-> art(f)]
               /\ GoesOn("pub", [pub EXCEPT !.at = "publish", !.f = 1]) /\ UNCHANGED <<store, lock>>
      <3>1. disk' \in [Files -> Paths]
        <4> HIDE DEF art
        <4> QED
          BY <2>2, <2>4
      <3>2. proc' \in [Procs -> Agents]
        BY <2>1, <2>4, <1>a, GoesOnTyped
      <3> QED
        BY <1>2, <2>4, <3>1, <3>2 DEF Recheck, Typed
    <2> QED
      BY <1>2, <2>3, <2>4 DEF Recheck
  <1>3. CASE Publish
    <2>f. pub.f \in Files
      BY <1>3, <1>f DEF Publish
    <2>1. NextOf("publish", "commit", pub) \in Agents
      BY <1>a, <2>f, <1>p, ForwardTyped
    <2>2. Typed /\ disk' = [disk EXCEPT ![pub.f].backup = disk[pub.f].dest, ![pub.f].dest = "absent"]
            => disk' \in [Files -> Paths]
      BY <2>f DEF Typed, Paths, Whats
    <2>3. CASE GoesOn("pub", NextOf("publish", "commit", pub)) /\ UNCHANGED <<store, disk, lock>>
      BY <1>3, <2>1, <2>3, <1>a, GoesOnTyped DEF Publish, Typed
    <2>4. CASE /\ disk' = [disk EXCEPT ![pub.f].backup = disk[pub.f].dest, ![pub.f].dest = "absent"]
               /\ GoesOn("pub", [pub EXCEPT !.at = "backed"]) /\ UNCHANGED <<store, lock>>
      BY <1>3, <2>2, <2>4, <1>m, <1>p DEF Publish, Typed
    <2>5. CASE GoesOn("pub", [pub EXCEPT !.at = "place"]) /\ UNCHANGED <<store, disk, lock>>
      BY <1>3, <2>5, <1>m, <1>p DEF Publish, Typed
    <2> QED
      BY <1>3, <1>c, <2>3, <2>4, <2>5 DEF Publish
  <1>4. CASE Backed
    <2>f. pub.f \in Files /\ "replacement_backed_up" \in JournalStates
      BY <1>4, <1>f DEF Backed, JournalStates
    <2> QED
      BY <1>4, <2>f, <1>p, <1>a, <1>c, TransitionTyped DEF Backed, ProcTyped, Typed
  <1>5. CASE Place
    <2>f. pub.f \in Files
      BY <1>5, <1>f DEF Place
    <2>1. [disk EXCEPT ![pub.f].dest = disk[pub.f].temp, ![pub.f].temp = "absent"] \in [Files -> Paths]
      BY SMTT(30), <2>f DEF Typed, Paths, Whats
    <2> QED
      BY <1>5, <2>1, <1>m, <1>p, <1>c DEF Place, Typed
  <1>6. CASE PlaceArtwork
    <2>f. pub.f \in Files
      BY <1>6, <1>f DEF PlaceArtwork
    <2>1. [disk EXCEPT ![pub.f].artDest = pub.f \in Artwork, ![pub.f].artTemp = FALSE] \in [Files -> Paths]
      <3>1. (pub.f \in Artwork) \in BOOLEAN
        OBVIOUS
      <3> QED
        BY <2>f, <3>1, ArtworkTyped DEF Typed
    <2> QED
      BY <1>6, <2>1, <1>m, <1>p, <1>c DEF PlaceArtwork, Typed
  <1>7. CASE RecordPublished
    <2>f. pub.f \in Files /\ "published" \in JournalStates
      BY <1>7, <1>f DEF RecordPublished, JournalStates
    <2> DEFINE me == [pub EXCEPT !.view[pub.f] = "published"]
    <2>1. me \in Agents
      BY <1>a, <2>f, AgentTyped
    <2>2. me.f = pub.f
      BY <1>a DEF Agents
    <2>3. AfterRecord(me) \in Agents
      BY <2>1, <2>2, <2>f, ForwardTyped
    <2>4. Becomes("pub", AfterRecord(me), {pub.f}) => proc' \in [Procs -> Agents]
      <3> HIDE DEF me
      <3> QED
        BY <2>3, <1>a, BecomesTyped
    <2> QED
      BY <1>7, <2>f, <2>4, <1>c DEF RecordPublished, Typed
  <1>8. CASE Commit
    <2>1. [Idle EXCEPT !.at = "lease"] \in Agents
      BY IdleTyped, AgentTyped, <1>p
    <2>2. "catalog_committed" \in JournalStates /\ "catalog_committed" \in BundleStates
      BY DEF JournalStates, BundleStates
    <2> QED
      BY <1>8, <2>1, <2>2, <1>a, <1>c, BecomesTyped, LockTyped DEF Commit, Typed
  <1> QED
    BY ZenonT(30), <1>1, <1>2, <1>3, <1>4, <1>5, <1>6, <1>7, <1>8

\* A process that passes a file over, and will want attention, is a process.
LEMMA AttentionTyped ==
  ASSUME NEW a \in Agents, a.f - 1 \in 0..Count
  PROVE  [[a EXCEPT !.attention = TRUE] EXCEPT !.at = "roll", !.f = @ - 1] \in Agents
  <1>1. [a EXCEPT !.attention = TRUE].f = a.f
    BY SMTT(30) DEF Agents
  <1> DEFINE me == [a EXCEPT !.attention = TRUE]
  <1>2. me \in Agents
    BY AgentTyped
  <1>3. me.f - 1 \in 0..Count
    BY ZenonT(30), <1>1
  <1> HIDE DEF me
  <1>4. [me EXCEPT !.at = "roll", !.f = @ - 1] \in Agents
    BY ZenonT(30), <1>2, <1>3, AgentTyped DEF Places, Waiting
  <1> QED
    BY <1>4 DEF me

\* To flag a file that cannot be restored keeps the types.
LEMMA CannotRestoreTyped ==
  ASSUME Typed, NEW p \in Procs, proc[p].f \in Files, CannotRestore(p)
  PROVE  ProcTyped /\ journal' \in [Files -> JournalStates]
  <1>1. proc[p] \in Agents /\ proc[p].f - 1 \in 0..Count
    BY DEF Typed, Files
  <1>2. [proc[p] EXCEPT !.attention = TRUE, !.at = "roll", !.f = @ - 1, !.was = FALSE] \in Agents
    BY <1>1 DEF Agents, Places, Waiting
  <1>3. "needs_attention" \in JournalStates
    BY DEF JournalStates
  <1> QED
    BY <1>1, <1>2, <1>3, GoesOnTyped, BecomesTyped DEF CannotRestore, ProcTyped, Typed

\* So does a rollback, whoever makes it.
LEMMA RollingTyped ==
  ASSUME Typed, Stands, NEW p \in Procs, Rolls(p)
  PROVE  Typed'
  <1> USE DEF store, bounds
  <1>a. proc[p] \in Agents /\ proc \in [Procs -> Agents] /\ proc[p].f \in 0..Count
    BY AgentFields DEF Typed
  <1>p. {"roll", "undo_dest", "undo_art", "undo_backup", "undo_temp", "undone", "check"} \subseteq Places
    BY DEF Places, Waiting
  <1>m. ASSUME NEW at \in Places, GoesOn(p, [proc[p] EXCEPT !.at = at])
        PROVE  proc' \in [Procs -> Agents]
    BY <1>m, <1>a, AgentTyped, GoesOnTyped
  <1>s. {"rollback_pending", "rolled_back"} \subseteq JournalStates
    BY SMTT(30) DEF JournalStates
  <1>e. Idle \in Agents /\ [Idle EXCEPT !.at = "check"] \in Agents
    BY IdleTyped, AgentTyped, <1>p
  <1>1. CASE Undo(p)
    <2>f. proc[p].f \in Files /\ proc[p].f - 1 \in 0..Count
      BY SMTT(30), <1>1, <1>a DEF Undo, Files
    <2>1. [proc[p] EXCEPT !.at = "roll", !.f = @ - 1] \in Agents
      BY <1>a, <1>p, <2>f, AgentTyped
    <2>2. [[proc[p] EXCEPT !.attention = TRUE] EXCEPT !.at = "roll", !.f = @ - 1] \in Agents
      BY <1>a, <2>f, AttentionTyped
    <2>3. \A b \in BOOLEAN: [proc[p] EXCEPT !.at = "undo_dest", !.was = b] \in Agents
      BY <1>a, <1>p DEF Agents
    <2>4. \A b \in BOOLEAN: [proc[p] EXCEPT !.view[proc[p].f] = "rollback_pending", !.at = "undo_dest",
                                            !.was = b] \in Agents
      BY <1>a, <1>p, <1>s, <2>f DEF Agents
    <2>5. proc' \in [Procs -> Agents]
      BY <1>1, <1>a, <2>1, <2>2, <2>3, <2>4, GoesOnTyped, BecomesTyped DEF Undo, UndoNext
    <2>6. journal' \in [Files -> JournalStates]
      BY <1>1, <1>s, <2>f DEF Undo, Typed
    <2> QED
      BY <1>1, <2>5, <2>6 DEF Undo, Typed
  <1>2. CASE UndoDest(p) \/ UndoArtwork(p) \/ UndoBackup(p) \/ UndoTemp(p) \/ Undone(p)
    <2>f. proc[p].f \in Files
      BY <1>2 DEF Stands, Undoing, UndoDest, UndoArtwork, UndoBackup, UndoTemp, Undone
    <2>d. proc[p].f - 1 \in 0..Count
      BY <2>f DEF Files
    <2>1. disk' \in [Files -> Paths]
      <3>1. CASE UndoDest(p) \/ UndoTemp(p)
        BY <3>1, <2>f, PutTyped DEF UndoDest, UndoTemp, Typed, Whats
      <3>2. CASE UndoArtwork(p)
        <4>1. (disk[proc[p].f].artDest /\ ~proc[p].was) \in BOOLEAN
          OBVIOUS
        <4>2. \/ UNCHANGED disk
              \/ disk' = [disk EXCEPT ![proc[p].f].artDest = disk[proc[p].f].artDest /\ ~proc[p].was,
                                      ![proc[p].f].artTemp = FALSE]
          BY <3>2, <2>f DEF UndoArtwork, Typed
        <4>3. UNCHANGED disk => disk' \in [Files -> Paths]
          BY DEF Typed
        <4>4. [disk EXCEPT ![proc[p].f].artDest = disk[proc[p].f].artDest /\ ~proc[p].was,
                           ![proc[p].f].artTemp = FALSE] \in [Files -> Paths]
          BY <4>1, <2>f, ArtworkTyped DEF Typed
        <4> QED
          BY <4>2, <4>3, <4>4
      <3>3. CASE UndoBackup(p)
        <4>1. [disk EXCEPT ![proc[p].f].dest = "old", ![proc[p].f].backup = "absent"] \in [Files -> Paths]
          BY <2>f DEF Typed, Paths, Whats
        <4> QED
          BY <3>3, <4>1 DEF UndoBackup, Typed
      <3>4. CASE Undone(p)
        BY <3>4 DEF Undone, Typed
      <3> QED
        BY <1>2, <3>1, <3>2, <3>3, <3>4
    <2>2. CASE UndoDest(p) \/ UndoArtwork(p)
      <3>1. CannotRestore(p) => ProcTyped /\ journal' \in [Files -> JournalStates]
        BY <2>f, CannotRestoreTyped
      <3>2. \A at \in {"undo_art", "undo_backup"}:
              GoesOn(p, [proc[p] EXCEPT !.at = at]) => proc' \in [Procs -> Agents]
        BY <1>m, <1>p
      <3>3. CASE UndoDest(p)
        BY <3>3, <3>1, <3>2, <2>1 DEF UndoDest, Typed, ProcTyped
      <3>4. CASE UndoArtwork(p)
        BY <3>4, <3>1, <3>2, <2>1 DEF UndoArtwork, Typed, ProcTyped
      <3> QED
        BY <2>2, <3>3, <3>4
    <2>3. CASE UndoBackup(p) \/ UndoTemp(p)
      <3>1. proc' \in [Procs -> Agents]
        BY <2>3, <1>m, <1>p DEF UndoBackup, UndoTemp
      <3> QED
        BY <2>3, <3>1, <2>1 DEF UndoBackup, UndoTemp, Typed
    <2>4. CASE Undone(p)
      <3>1. [proc[p] EXCEPT !.view[proc[p].f] = "rolled_back", !.at = "roll", !.f = @ - 1, !.was = FALSE]
              \in Agents
        BY <1>a, <1>p, <1>s, <2>f, <2>d DEF Agents
      <3>2. [[proc[p] EXCEPT !.attention = TRUE] EXCEPT !.at = "roll", !.f = @ - 1] \in Agents
        BY <1>a, <2>d, AttentionTyped
      <3>3. proc' \in [Procs -> Agents]
        BY <2>4, <1>a, <3>1, <3>2, GoesOnTyped, BecomesTyped DEF Undone, UndoNext
      <3> QED
        BY <2>4, <3>3, <2>1, <2>f, <1>s DEF Undone, Typed
    <2> QED
      BY SMTT(30), <1>2, <2>2, <2>3, <2>4
  <1>3. CASE RollEnds(p) \/ NothingToRoll(p)
    <2>1. bundle' \in BundleStates
      BY <1>3 DEF RollEnds, NothingToRoll, RolledBack, Typed, BundleStates
    <2>2. proc' \in [Procs -> Agents]
      BY SMTT(30), <1>3, <1>a, <1>e, GoesOnTyped DEF RollEnds, NothingToRoll
    <2> QED
      BY <1>3, <2>1, <2>2, LockTyped DEF RollEnds, NothingToRoll, Typed
  <1> QED
    BY <1>1, <1>2, <1>3 DEF Rolls

\* A cleanup goes to the first file from f on that is not cleaned up, or to its end.
LEMMA CleanFromGoes ==
  ASSUME NEW p, NEW me, NEW f \in Nat, CleanFrom(p, me, f)
  PROVE  \/ /\ \A g \in Files: g >= f => me.view[g] \in {"none", "completed"}
            /\ GoesOn(p, [me EXCEPT !.f = 0, !.at = "escalate"])
         \/ \E n \in Files:
              /\ n >= f /\ \A g \in Files: g >= f /\ g < n => me.view[g] \in {"none", "completed"}
              /\ GoesOn(p, [me EXCEPT !.f = n, !.at = "clean_source"])
  <1> DEFINE left == {g \in Files: g >= f /\ me.view[g] \notin {"none", "completed"}}
             n == CHOOSE g \in left: \A h \in left: g <= h
  <1>1. CASE left = {}
    BY <1>1 DEF CleanFrom
  <1>2. CASE left # {}
    <2>1. \E m \in left: \A h \in left: m <= h
      <3>1. left \in SUBSET Nat
        BY DEF Files
      <3> HIDE DEF left
      <3>2. PICK m \in left: \A h \in left: ~(<<h, m>> \in OpToRel(<, Nat))
        BY <1>2, <3>1, NatLessThanWellFounded, WFMin
      <3>3. \A h \in left: m <= h
        <4> TAKE h \in left
        <4>1. h \in Nat /\ m \in Nat
          BY <3>1
        <4>2. ~(h < m)
          BY <3>2, <4>1 DEF OpToRel
        <4> QED
          BY <4>1, <4>2
      <3> QED
        BY <3>3
    <2>2. n \in left /\ \A h \in left: n <= h
      <3> HIDE DEF left
      <3> QED
        BY <2>1
    <2>3. GoesOn(p, [me EXCEPT !.f = n, !.at = "clean_source"])
      BY <1>2 DEF CleanFrom
    <2>4. n \in Files /\ n >= f
      BY <2>2
    <2>5. \A g \in Files: g >= f /\ g < n => me.view[g] \in {"none", "completed"}
      <3> SUFFICES ASSUME NEW g \in Files, g >= f, g < n, g \in left PROVE FALSE
        OBVIOUS
      <3>1. n <= g
        BY <2>2
      <3>2. n \in Nat /\ g \in Nat
        BY SMTT(30), <2>4 DEF Files
      <3> HIDE DEF n, left
      <3> QED
        BY <3>1, <3>2
    <2> HIDE DEF n
    <2> QED
      BY <2>3, <2>4, <2>5
  <1> QED
    BY <1>1, <1>2

\* It stays a process.
LEMMA CleanFromTyped ==
  ASSUME Typed, NEW p \in Procs, NEW me \in Agents, NEW f \in Nat, CleanFrom(p, me, f)
  PROVE  ProcTyped
  <1>1. Files \subseteq 0..Count /\ 0 \in 0..Count /\ {"escalate", "clean_source"} \subseteq Places
    BY DEF Files, Places
  <1>2. \A n \in 0..Count, at \in Places: [me EXCEPT !.f = n, !.at = at] \in Agents
    BY DEF Agents
  <1> QED
    BY <1>1, <1>2, CleanFromGoes, GoesOnTyped DEF ProcTyped, Typed

\* A file that cannot be cleaned up is passed over.
LEMMA CannotCleanTyped ==
  ASSUME Typed, NEW p \in Procs, proc[p].f \in Files, CannotClean(p)
  PROVE  ProcTyped
  <1>1. proc[p] \in Agents /\ proc[p].f + 1 \in Nat
    BY DEF Typed, Files
  <1>2. [proc[p] EXCEPT !.failed = @ \union {proc[p].f}] \in Agents
    BY ZenonT(60), <1>1, AgentFields, AgentTyped
  <1> QED
    BY <1>1, <1>2, CleanFromTyped DEF CannotClean

\* A cleanup keeps the types.
LEMMA CleaningTyped ==
  ASSUME Typed, Stands, NEW p \in Procs, Cleans(p)
  PROVE  Typed'
  <1> USE DEF store, bounds
  <1>a. proc[p] \in Agents /\ proc \in [Procs -> Agents] /\ proc[p].f \in Nat
    BY AgentFields DEF Typed
  <1>p. {"clean", "clean_old"} \subseteq Places
    BY DEF Places, Waiting
  <1>m. ASSUME NEW at \in Places, GoesOn(p, [proc[p] EXCEPT !.at = at])
        PROVE  proc' \in [Procs -> Agents]
    BY <1>m, <1>a, AgentTyped, GoesOnTyped
  <1>r. GoesOn(p, Raised(p)) => proc' \in [Procs -> Agents]
    BY <1>a, RaisedTyped, GoesOnTyped
  <1>1. CASE AskToClean(p)
    BY <1>1, <1>m, <1>p, <1>r, LockTyped DEF AskToClean, Typed
  <1>2. CASE Clean(p)
    <2>1. [proc[p] EXCEPT !.view = journal] \in Agents
      BY <1>a, AgentTyped DEF Typed
    <2>2. ProcTyped
      BY <1>2, <2>1, CleanFromTyped DEF Clean
    <2> QED
      BY <1>2, <2>2 DEF Clean, Typed, ProcTyped
  <1>3. CASE CleanSource(p)
    <2>f. proc[p].f \in Files
      BY <1>3 DEF Stands, CleanSource
    <2>1. CannotClean(p) => ProcTyped
      BY <2>f, CannotCleanTyped
    <2>2. disk' \in [Files -> Paths]
      BY <1>3, <2>f, PutTyped DEF CleanSource, CannotClean, Typed
    <2>3. proc' \in [Procs -> Agents]
      BY <1>3, <2>1, <1>m, <1>p DEF CleanSource, ProcTyped
    <2> QED
      BY <1>3, <2>2, <2>3 DEF CleanSource, Typed
  <1>4. CASE CleanOld(p)
    <2>f. proc[p].f \in Files
      BY <1>4 DEF Stands, CleanOld
    <2>1. /\ [disk EXCEPT ![proc[p].f].backup = "absent", ![proc[p].f].bin = "old"] \in [Files -> Paths]
          /\ [disk EXCEPT ![proc[p].f].other = "absent", ![proc[p].f].bin = "old"] \in [Files -> Paths]
      BY SMTT(30), <2>f DEF Typed, Paths, Whats
    <2>2. disk' \in [Files -> Paths]
      BY <1>4, <2>1 DEF CleanOld, Typed
    <2>3. ProcTyped
      BY <1>4, <1>a, CleanFromTyped DEF CleanOld
    <2> QED
      BY <1>4, <2>2, <2>3 DEF CleanOld, Typed, ProcTyped
  <1>5. CASE CleanEnds(p)
    <2>1. proc' \in [Procs -> Agents]
      BY <1>5, <1>a, <1>r, IdleTyped, BecomesTyped DEF CleanEnds
    <2>2. journal' \in [Files -> JournalStates]
      BY <1>5 DEF CleanEnds, Typed, JournalStates
    <2>3. bundle' \in BundleStates /\ booting' \in BOOLEAN
      BY <1>5 DEF CleanEnds, Typed, BundleStates
    <2> QED
      BY <1>5, <2>1, <2>2, <2>3, LockTyped DEF CleanEnds, Typed
  <1> QED
    BY <1>1, <1>2, <1>3, <1>4, <1>5 DEF Cleans

\* So do a call, the recovery's other steps and an administrator.
LEMMA RecoveryTyped ==
  ASSUME Typed, Call \/ List \/ TakeUp \/ ReadJournals \/ Forget \/ Check \/ Attend \/ Resolve
  PROVE  Typed'
  <1> USE DEF store, bounds
  <1>a. /\ rec \in Agents /\ proc \in [Procs -> Agents]
        /\ "rec" \in Procs /\ rec = proc["rec"] /\ "pub" \in Procs /\ pub = proc["pub"]
    BY DEF Typed, pub, rec, Procs
  <1>p. {"mark", "open", "lease", "listed", "journals", "finish", "roll"} \subseteq Places
    BY DEF Places, Waiting
  <1>m. ASSUME NEW at \in Places, GoesOn("rec", [rec EXCEPT !.at = at])
        PROVE  proc' \in [Procs -> Agents]
    BY <1>m, <1>a, AgentTyped, GoesOnTyped
  <1>i. GoesOn("rec", Idle) \/ GoesOn("rec", Raised("rec")) => proc' \in [Procs -> Agents]
    BY <1>a, IdleTyped, RaisedTyped, GoesOnTyped
  <1>1. CASE Call
    <2>1. /\ \A r \in BundleStates: [Idle EXCEPT !.at = "mark", !.record = r] \in Agents
          /\ [Idle EXCEPT !.at = "open"] \in Agents /\ [Idle EXCEPT !.at = "lease"] \in Agents
      BY IdleTyped, AgentTyped, <1>p
    <2>2. "preparing" \in BundleStates
      BY DEF BundleStates
    <2>3. proc' \in [Procs -> Agents]
      BY <1>1, <1>a, <2>1, <2>2, GoesOnTyped DEF Call, Typed
    <2>4. bundle' \in BundleStates /\ calls' \in 0..MaxCalls /\ crossed' \in BOOLEAN
      BY <1>1, <2>2 DEF Call, Typed
    <2> QED
      BY ZenonT(30), <1>1, <2>3, <2>4 DEF Call, Typed
  <1>2. CASE List
    <2>1. [Idle EXCEPT !.at = "listed", !.record = bundle] \in Agents
      BY IdleTyped, AgentTyped, <1>p DEF Typed
    <2> QED
      BY <1>2, <1>a, <2>1, GoesOnTyped DEF List, Typed
  <1>3. CASE TakeUp
    BY <1>3, <1>i, <1>m, <1>p DEF TakeUp, Typed
  <1>4. CASE ReadJournals
    <2>1. \A S \in SUBSET Files:
            [rec EXCEPT !.at = "roll", !.f = Count, !.view = journal, !.fresh = S, !.rebuilt = Content]
              \in Agents
      <3> Count \in 0..Count
        OBVIOUS
      <3> QED
        BY <1>a, <1>p, AgentTyped DEF Typed
    <2>2. proc' \in [Procs -> Agents]
      <3> DEFINE begun == {f \in Files: journal[f] # "none"}
      <3>1. begun \in SUBSET Files
        OBVIOUS
      <3>2. \/ GoesOn("rec", [rec EXCEPT !.at = "finish"]) \/ GoesOn("rec", Raised("rec"))
            \/ GoesOn("rec", [rec EXCEPT !.at = "roll", !.f = Count, !.view = journal, !.fresh = begun,
                                         !.rebuilt = Content])
        BY <1>4 DEF ReadJournals
      <3> HIDE DEF begun
      <3> QED
        BY <3>1, <3>2, <2>1, <1>a, <1>i, <1>m, <1>p, GoesOnTyped
    <2> QED
      BY SMTT(30), <1>4, <2>2, <1>a, LockTyped DEF ReadJournals, Typed
  <1>5. CASE Forget
    BY <1>5, <1>i DEF Forget, Typed, BundleStates
  <1>6. CASE Check
    BY <1>6, <1>i DEF Check, Typed
  <1>7. CASE Attend
    <2>1. proc' \in [Procs -> Agents]
      BY <1>7, <1>a, IdleTyped, BecomesTyped DEF Attend
    <2>2. journal' \in [Files -> JournalStates] /\ bundle' \in BundleStates
      BY <1>7 DEF Attend, Typed, JournalStates, BundleStates
    <2> QED
      BY <1>7, <2>1, <2>2 DEF Attend, Typed
  <1>8. CASE Resolve
    <2>1. proc' \in [Procs -> Agents]
      <3>1. \A q \in Procs:
              [proc[q] EXCEPT !.fresh = @ \ {f \in Files: journal[f] = "needs_attention"}] \in Agents
        <4> TAKE q \in Procs
        <4>1. proc[q] \in Agents /\ proc[q].fresh \ {f \in Files: journal[f] = "needs_attention"} \in SUBSET Files
          BY <1>a, AgentFields
        <4> QED
          BY <4>1, AgentTyped
      <3> QED
        BY SMTT(30), <1>8, <3>1 DEF Resolve
    <2>2. journal' \in [Files -> JournalStates] /\ bundle' \in BundleStates
      BY <1>8 DEF Resolve, Typed, JournalStates, BundleStates
    <2> QED
      BY <1>8, <2>1, <2>2 DEF Resolve, Typed
  <1> QED
    BY <1>1, <1>2, <1>3, <1>4, <1>5, <1>6, <1>7, <1>8

\* So does what goes wrong.
LEMMA FaultTyped ==
  ASSUME Typed, Stands, Fault
  PROVE  Typed'
  <1> USE DEF store, Unbounded
  <1>a. proc \in [Procs -> Agents] /\ "pub" \in Procs
    BY DEF Typed, Procs
  <1>d. Disturb => disturbed' \in 0..MaxDisturbed
    BY DEF Disturb, Typed
  <1>1. CASE PublisherFails
    <2>1. CASE PreparationFails \/ CriticalFails
      BY <1>1, <1>d, <2>1, PreparationFailsTyped, CriticalFailsTyped DEF PublisherFails, ProcTyped, Typed
    <2>2. CASE GoesOn("pub", Idle) /\ lock' \in {lock, Released("pub")} /\ UNCHANGED <<store, disk>>
      BY <1>1, <1>a, <1>d, <2>2, IdleTyped, GoesOnTyped, LockTyped DEF PublisherFails, Typed
    <2> QED
      BY <1>1, <2>1, <2>2 DEF PublisherFails
  <1>2. CASE Crash
    <2>1. torn' \subseteq Files
      <3>1. \A p \in Procs: proc[p].at = "undo_art" => proc[p].f \in Files
        BY DEF Stands, Undoing
      <3> QED
        BY <1>2, <3>1 DEF Crash, Typed
    <2> QED
      BY <1>2, <2>1, <1>d, IdleTyped DEF Crash, Typed
  <1>3. CASE MovePolicy
    BY <1>3, <1>d DEF MovePolicy, Typed
  <1>4. ASSUME NEW f \in Files, Intrude(f) \/ Alter(f) PROVE Typed'
    <2>1. disk' \in [Files -> Paths]
      BY <1>4, PutTyped DEF Intrude, Alter, Typed, Whats
    <2> QED
      BY <1>4, <1>d, <2>1 DEF Intrude, Alter, Typed
  <1>5. ASSUME NEW p \in Procs, RestoreFails(p) PROVE Typed'
    <2>1. proc[p].f \in Files
      BY <1>5 DEF RestoreFails, Stands, Undoing
    <2>2. ProcTyped /\ journal' \in [Files -> JournalStates]
      BY <1>5, <2>1, CannotRestoreTyped DEF RestoreFails
    <2> QED
      BY <1>5, <1>d, <2>2 DEF RestoreFails, Typed, ProcTyped
  <1>6. ASSUME NEW p \in Procs, StoreFails(p) PROVE Typed'
    BY <1>6, <1>a, <1>d, RaisedTyped, GoesOnTyped, LockTyped DEF StoreFails, Typed
  <1>7. ASSUME NEW p \in Procs, CleanFails(p) PROVE Typed'
    <2>1. proc[p].f \in Files
      BY <1>7 DEF CleanFails, Stands
    <2>2. ProcTyped
      BY <1>7, <2>1, CannotCleanTyped DEF CleanFails
    <2> QED
      BY <1>7, <1>d, <2>2 DEF CleanFails, CannotClean, Typed, ProcTyped
  <1>8. CASE StagingCancelled
    <2>1. pub.f \in Files
      BY <1>8, <1>a DEF StagingCancelled, Stands, Preparing, pub
    <2>2. [call |-> calls, file |-> pub.f, slot |-> IF pub.at = "stage" THEN "temp" ELSE "artTemp"]
            \in Threads
      BY <2>1 DEF Threads, Typed
    <2>3. threads' \subseteq Threads
      BY <1>8, <2>2 DEF StagingCancelled, Typed
    <2> QED
      BY <1>8, <1>d, <2>3, PreparationFailsTyped DEF StagingCancelled, ProcTyped, Typed
  <1>9. ASSUME NEW t \in threads, StagedLate(t) PROVE Typed'
    <2>1. t.file \in Files /\ t.slot \in {"temp", "artTemp"}
      BY DEF Typed, Threads
    <2>2. disk' \in [Files -> Paths]
      BY <1>9, <2>1, PutTyped DEF StagedLate, Typed
    <2> QED
      BY <1>9, <2>1, <2>2 DEF StagedLate, Typed
  <1> QED
    BY <1>1, <1>2, <1>3, <1>4, <1>5, <1>6, <1>7, <1>8, <1>9 DEF Fault

\* Every step keeps the types.
LEMMA StepTyped == Typed /\ Stands /\ [Next]_vars => Typed'
  <1> SUFFICES ASSUME Typed, Stands, [Next]_vars PROVE Typed'
    OBVIOUS
  <1>1. CASE UNCHANGED vars
    BY <1>1 DEF vars, Typed
  <1>2. "pub" \in Procs /\ "rec" \in Procs
    BY DEF Procs
  <1> QED
    BY <1>1, <1>2, PreparingTyped, PublishingTyped, RollingTyped, CleaningTyped, RecoveryTyped, FaultTyped
    DEF Next, PubStep, RecStep
-----------------------------------------------------------------------------
(* What the steps do to the processes, field by field.                      *)

\* A process after a step, and one that stays where it is while the other writes some rows.
Now(p, at, f, view, fresh, was, attention) ==
  /\ proc'[p].at = at /\ proc'[p].f = f /\ proc'[p].view = view /\ proc'[p].fresh = fresh
  /\ proc'[p].was = was /\ proc'[p].attention = attention
Keeps(q, written) ==
  /\ proc'[q].at = proc[q].at /\ proc'[q].f = proc[q].f /\ proc'[q].record = proc[q].record
  /\ proc'[q].view = proc[q].view /\ proc'[q].fresh = proc[q].fresh \ written
  /\ proc'[q].was = proc[q].was /\ proc'[q].attention = proc[q].attention
  /\ proc'[q].failed = proc[q].failed
Steady(p) == proc'[p].record = proc[p].record /\ proc'[p].failed = proc[p].failed
\* It goes to another place; it goes there to another file; it begins anew.
Goes(p, at) ==
  /\ Now(p, at, proc[p].f, proc[p].view, proc[p].fresh, proc[p].was, proc[p].attention)
  /\ Steady(p) /\ Keeps(Other(p), {})
GoesTo(p, at, f) ==
  /\ Now(p, at, f, proc[p].view, proc[p].fresh, proc[p].was, proc[p].attention)
  /\ Steady(p) /\ Keeps(Other(p), {})
Starts(p, at, written) ==
  /\ Now(p, at, 0, [f \in Files |-> "none"], {}, FALSE, FALSE)
  /\ proc'[p].failed = {} /\ Keeps(Other(p), written)

\* When one process becomes me the other one stays where it is.
LEMMA OtherKeeps ==
  ASSUME Typed, NEW p \in Procs, NEW me, NEW written, Becomes(p, me, written)
  PROVE  proc'[p] = me /\ Keeps(Other(p), written)
  <1>1. Other(p) \in Procs /\ Other(p) # p
    BY DEF Other, Procs
  <1>2. proc[Other(p)] \in Agents
    BY <1>1 DEF Typed
  <1>3. proc'[p] = me /\ proc'[Other(p)] = [proc[Other(p)] EXCEPT !.fresh = @ \ written]
    BY <1>1 DEF Becomes
  <1> QED
    BY <1>2, <1>3 DEF Keeps, Agents

\* It goes to another place.
LEMMA PlaceMoves ==
  ASSUME Typed, NEW p \in Procs, NEW at, GoesOn(p, [proc[p] EXCEPT !.at = at])
  PROVE  Goes(p, at)
  <1>1. proc[p] \in Agents
    BY DEF Typed
  <1> QED
    BY <1>1, OtherKeeps DEF GoesOn, Goes, Now, Steady, Agents

\* It goes to another file.
LEMMA FileMoves ==
  ASSUME Typed, NEW p \in Procs, NEW at, NEW n \in 0..Count,
         GoesOn(p, [proc[p] EXCEPT !.at = at, !.f = n])
  PROVE  GoesTo(p, at, n)
  <1>1. proc[p] \in Agents
    BY DEF Typed
  <1>2. proc'[p] = [proc[p] EXCEPT !.at = at, !.f = n] /\ Keeps(Other(p), {})
    BY OtherKeeps DEF GoesOn
  <1> QED
    BY <1>1, <1>2 DEF GoesTo, Now, Steady, Agents

\* It begins anew.
LEMMA IdleMoves ==
  ASSUME Typed, NEW p \in Procs, NEW written
  PROVE  /\ Becomes(p, Idle, written) => Starts(p, "idle", written) /\ proc'[p].record = "absent"
         /\ \A at: Becomes(p, [Idle EXCEPT !.at = at], written) =>
                     Starts(p, at, written) /\ proc'[p].record = "absent"
         /\ \A at, r: Becomes(p, [Idle EXCEPT !.at = at, !.record = r], written) =>
                     Starts(p, at, written) /\ proc'[p].record = r
  <1>1. Becomes(p, Idle, written) => Starts(p, "idle", written) /\ proc'[p].record = "absent"
    BY OtherKeeps DEF Starts, Now, Idle
  <1>2. ASSUME NEW at, Becomes(p, [Idle EXCEPT !.at = at], written)
        PROVE  Starts(p, at, written) /\ proc'[p].record = "absent"
    <2>1. proc'[p] = [Idle EXCEPT !.at = at] /\ Keeps(Other(p), written)
      BY <1>2, OtherKeeps
    <2> QED
      BY <2>1 DEF Starts, Now, Idle
  <1>3. ASSUME NEW at, NEW r, Becomes(p, [Idle EXCEPT !.at = at, !.record = r], written)
        PROVE  Starts(p, at, written) /\ proc'[p].record = r
    <2>1. proc'[p] = [Idle EXCEPT !.at = at, !.record = r] /\ Keeps(Other(p), written)
      BY <1>3, OtherKeeps
    <2> QED
      BY <2>1 DEF Starts, Now, Idle
  <1> QED
    BY <1>1, <1>2, <1>3

\* It reads the rows.
LEMMA ReadMoves ==
  ASSUME Typed, NEW p \in Procs, NEW at \in Places, NEW n \in 0..Count,
         NEW view \in [Files -> JournalStates], NEW fresh \in SUBSET Files,
         GoesOn(p, [proc[p] EXCEPT !.at = at, !.f = n, !.view = view, !.fresh = fresh])
  PROVE  /\ Now(p, at, n, view, fresh, proc[p].was, proc[p].attention)
         /\ Steady(p) /\ Keeps(Other(p), {})
  <1>1. proc[p] \in Agents
    BY DEF Typed
  <1>2. /\ proc'[p] = [proc[p] EXCEPT !.at = at, !.f = n, !.view = view, !.fresh = fresh]
        /\ Keeps(Other(p), {})
    BY OtherKeeps DEF GoesOn
  <1> QED
    BY <1>1, <1>2 DEF Now, Steady, Agents

\* It reads them, and has some of the artwork rebuilt.
LEMMA RebuiltMoves ==
  ASSUME Typed, NEW p \in Procs, NEW at \in Places, NEW n \in 0..Count,
         NEW view \in [Files -> JournalStates], NEW fresh \in SUBSET Files,
         NEW rebuilt \in SUBSET Content,
         GoesOn(p, [proc[p] EXCEPT !.at = at, !.f = n, !.view = view, !.fresh = fresh,
                                   !.rebuilt = rebuilt])
  PROVE  /\ Now(p, at, n, view, fresh, proc[p].was, proc[p].attention)
         /\ Steady(p) /\ Keeps(Other(p), {})
  <1>1. proc[p] \in Agents
    BY DEF Typed
  <1>2. /\ proc'[p] = [proc[p] EXCEPT !.at = at, !.f = n, !.view = view, !.fresh = fresh,
                                      !.rebuilt = rebuilt]
        /\ Keeps(Other(p), {})
    BY OtherKeeps DEF GoesOn
  <1> QED
    BY <1>1, <1>2 DEF Now, Steady, Agents

\* It writes a row.
LEMMA RowMoves ==
  ASSUME Typed, NEW p \in Procs, NEW state, NEW at, Transition(p, state, at)
  PROVE  /\ journal' = [journal EXCEPT ![proc[p].f] = state]
         /\ Now(p, at, proc[p].f, [proc[p].view EXCEPT ![proc[p].f] = state], proc[p].fresh,
                proc[p].was, proc[p].attention)
         /\ Steady(p) /\ Keeps(Other(p), {proc[p].f})
  <1>1. proc[p] \in Agents
    BY DEF Typed
  <1>2. /\ proc'[p] = [proc[p] EXCEPT !.view[proc[p].f] = state, !.at = at]
        /\ Keeps(Other(p), {proc[p].f}) /\ journal' = [journal EXCEPT ![proc[p].f] = state]
    BY OtherKeeps DEF Transition
  <1> QED
    BY <1>1, <1>2 DEF Now, Steady, Agents

\* What the preparation that fails has for rows, and which of them it has just read.
FailView == [f \in Files |-> IF f < pub.f THEN pub.view[f] ELSE journal[f]]
FailFresh == {f \in Files: f >= pub.f \/ f \in pub.fresh}

\* The preparation fails: there is something to undo, or nothing.
LEMMA PreparationFailsActs ==
  ASSUME Typed, PreparationFails
  PROVE  /\ UNCHANGED <<bundle, journal, catalog, disk>> /\ Steady("pub") /\ Keeps("rec", {})
         /\ \/ /\ \E f \in Files: FailView[f] # "none"
               /\ Now("pub", "roll", Count, FailView, FailFresh, pub.was, pub.attention)
               /\ lock' = Asked("pub")
            \/ /\ \A f \in Files: FailView[f] = "none"
               /\ Now("pub", "finish", Count, FailView, FailFresh, pub.was, pub.attention)
               /\ UNCHANGED lock
  <1>a. "pub" \in Procs /\ pub = proc["pub"] /\ Other("pub") = "rec" /\ pub \in Agents
    BY DEF Procs, pub, Other, Typed
  <1> DEFINE begun == \E f \in Files: FailView[f] # "none"
             at == IF begun THEN "roll" ELSE "finish"
             rebuilt == {f \in Content: f >= pub.f}
  <1>1. FailView \in [Files -> JournalStates] /\ FailFresh \in SUBSET Files
    BY <1>a, AgentFields DEF Typed, FailView, FailFresh
  <1>2. GoesOn("pub", [pub EXCEPT !.at = at, !.f = Count, !.view = FailView, !.fresh = FailFresh,
                                  !.rebuilt = rebuilt])
    BY DEF PreparationFails, FailView, FailFresh
  <1>3. Count \in 0..Count /\ at \in Places /\ rebuilt \in SUBSET Content
    BY DEF Places, Waiting
  <1>4. /\ Now("pub", at, Count, FailView, FailFresh, pub.was, pub.attention)
        /\ Steady("pub") /\ Keeps("rec", {})
    <2> HIDE DEF at, rebuilt
    <2> QED
      BY <1>1, <1>2, <1>3, <1>a, RebuiltMoves
  <1>5. lock' = (IF begun THEN Asked("pub") ELSE lock)
    BY DEF PreparationFails, FailView
  <1>6. UNCHANGED <<bundle, journal, catalog, disk>>
    BY DEF PreparationFails, store
  <1> QED
    BY <1>4, <1>5, <1>6

\* An exception under the lease.
LEMMA CriticalFailsActs ==
  ASSUME Typed, CriticalFails
  PROVE  /\ UNCHANGED <<bundle, journal, catalog, disk>> /\ Keeps("rec", {})
         /\ \/ /\ bundle \in Committed \union {"completed"}
               /\ Goes("pub", "lease") /\ lock' = Released("pub")
            \/ /\ bundle \notin Committed \union {"completed"}
               /\ Now("pub", "roll", Count, pub.view, pub.fresh, FALSE, pub.attention)
               /\ Steady("pub") /\ lock' = AskedAgain("pub")
  <1>a. "pub" \in Procs /\ pub = proc["pub"] /\ Other("pub") = "rec" /\ pub \in Agents
    BY DEF Procs, pub, Other, Typed
  <1>1. CASE bundle \in Committed \union {"completed"}
    <2>1. GoesOn("pub", [pub EXCEPT !.at = "lease"])
      BY <1>1 DEF CriticalFails
    <2>2. Goes("pub", "lease")
      BY <2>1, <1>a, PlaceMoves
    <2> QED
      BY <1>1, <1>a, <2>2 DEF CriticalFails, store, Goes
  <1>2. CASE bundle \notin Committed \union {"completed"}
    <2>1. GoesOn("pub", [pub EXCEPT !.at = "roll", !.f = Count, !.was = FALSE])
      BY <1>2 DEF CriticalFails
    <2>2. proc'["pub"] = [pub EXCEPT !.at = "roll", !.f = Count, !.was = FALSE] /\ Keeps("rec", {})
      BY <2>1, <1>a, OtherKeeps DEF GoesOn
    <2>3. Now("pub", "roll", Count, pub.view, pub.fresh, FALSE, pub.attention) /\ Steady("pub")
      BY <1>a, <2>2 DEF Now, Steady, Agents
    <2> QED
      BY <1>2, <2>2, <2>3 DEF CriticalFails, store
  <1> QED
    BY <1>1, <1>2

\* The publisher begins.
LEMMA CallActs ==
  ASSUME Typed, Call
  PROVE  /\ ~booting /\ pub.at = "idle" /\ calls' = calls + 1
         /\ crossed' = (crossed \/ rec.at \notin {"idle", "listed"} \/ threads # {})
         /\ UNCHANGED <<journal, catalog, disk, lock, booting, policyMoved, torn, threads, stranded,
                        disturbed>>
         /\ \/ /\ bundle = "absent" /\ bundle' = "preparing"
               /\ Starts("pub", "mark", {}) /\ proc'["pub"].record = "preparing"
            \/ /\ bundle \in {"preparing", "rolled_back"} /\ UNCHANGED bundle
               /\ Starts("pub", "mark", {}) /\ proc'["pub"].record = bundle
            \/ /\ bundle = "publishing" /\ UNCHANGED bundle
               /\ Starts("pub", "open", {})
            \/ /\ bundle \in Committed /\ UNCHANGED bundle
               /\ Starts("pub", "lease", {})
  <1>a. "pub" \in Procs /\ \A me: GoesOn("pub", me) => Becomes("pub", me, {})
    BY DEF Procs, GoesOn
  <1>1. GoesOn("pub", [Idle EXCEPT !.at = "mark", !.record = "preparing"])
          => Starts("pub", "mark", {}) /\ proc'["pub"].record = "preparing"
    BY <1>a, IdleMoves
  <1>2. GoesOn("pub", [Idle EXCEPT !.at = "mark", !.record = bundle])
          => Starts("pub", "mark", {}) /\ proc'["pub"].record = bundle
    BY <1>a, IdleMoves
  <1>3. \A at: GoesOn("pub", [Idle EXCEPT !.at = at]) => Starts("pub", at, {})
    BY <1>a, IdleMoves
  <1> QED
    BY <1>1, <1>2, <1>3 DEF Call

\* It marks the bundle.
LEMMA MarkActs ==
  ASSUME Typed, Mark
  PROVE  /\ pub.at = "mark" /\ UNCHANGED <<journal, catalog, disk, lock, bounds>>
         /\ \/ bundle = pub.record /\ bundle' = "publishing" /\ Goes("pub", "open")
            \/ bundle # pub.record /\ UNCHANGED bundle /\ Starts("pub", "idle", {})
  <1>a. "pub" \in Procs /\ pub = proc["pub"]
    BY DEF Procs, pub
  <1>1. GoesOn("pub", [pub EXCEPT !.at = "open"]) => Goes("pub", "open")
    BY <1>a, PlaceMoves
  <1>2. GoesOn("pub", Idle) => Starts("pub", "idle", {})
    BY <1>a, IdleMoves DEF GoesOn
  <1> QED
    BY <1>1, <1>2 DEF Mark

\* It reads the rows.
LEMMA OpenActs ==
  ASSUME Typed, Open
  PROVE  /\ pub.at = "open" /\ UNCHANGED <<bundle, journal, catalog, disk, lock, bounds>>
         /\ \/ Starts("pub", "idle", {})
            \/ /\ Now("pub", "plan", 1, journal, {f \in Files: journal[f] # "none"},
                      pub.was, pub.attention)
               /\ Steady("pub") /\ Keeps("rec", {})
  <1>a. "pub" \in Procs /\ pub = proc["pub"] /\ Other("pub") = "rec"
    BY DEF Procs, pub, Other
  <1>1. GoesOn("pub", Idle) => Starts("pub", "idle", {})
    BY <1>a, IdleMoves DEF GoesOn
  <1> DEFINE begun == {f \in Files: journal[f] # "none"}
  <1>2. GoesOn("pub", [pub EXCEPT !.at = "plan", !.f = 1, !.view = journal, !.fresh = begun])
         => /\ Now("pub", "plan", 1, journal, begun, pub.was, pub.attention)
            /\ Steady("pub") /\ Keeps("rec", {})
    <2>1. 1 \in 0..Count /\ "plan" \in Places /\ begun \in SUBSET Files
      BY DEF Places
    <2> HIDE DEF begun
    <2> QED
      BY <1>a, <2>1, ReadMoves DEF Typed
  <1> QED
    BY <1>1, <1>2 DEF Open, store

\* One file more is prepared, and its row is as view has it.
Prepares(view) ==
  /\ Steady("pub")
  /\ \/ /\ pub.f < Count /\ UNCHANGED lock
        /\ Now("pub", "plan", pub.f + 1, view, pub.fresh, pub.was, pub.attention)
     \/ /\ pub.f >= Count /\ lock' = Asked("pub")
        /\ Now("pub", "enter", pub.f, view, pub.fresh, pub.was, pub.attention)

\* A file is prepared that was before, or that now is.
LEMMA PreparesActs ==
  ASSUME Typed, pub.f \in Files, NEW me \in Agents, NEW written,
         Becomes("pub", PreparedOne(me), written), LockWhenPrepared,
         me.f = pub.f, me.fresh = pub.fresh, me.was = pub.was, me.attention = pub.attention,
         me.record = pub.record, me.failed = pub.failed
  PROVE  Prepares(me.view) /\ Keeps("rec", written)
  <1>a. "pub" \in Procs /\ pub = proc["pub"] /\ Other("pub") = "rec"
    BY DEF Procs, pub, Other
  <1>1. proc'["pub"] = PreparedOne(me) /\ Keeps("rec", written)
    BY <1>a, OtherKeeps
  <1>2. CASE pub.f < Count
    <2>1. proc'["pub"] = [me EXCEPT !.at = "plan", !.f = pub.f + 1]
      BY <1>1, <1>2 DEF PreparedOne
    <2>2. pub.f + 1 \in 0..Count
      BY <1>2 DEF Files
    <2>3. Now("pub", "plan", pub.f + 1, me.view, me.fresh, me.was, me.attention) /\ Steady("pub")
      BY <1>a, <2>1, <2>2 DEF Now, Steady, Agents
    <2> QED
      BY <1>1, <1>2, <2>3 DEF LockWhenPrepared, Prepares
  <1>3. CASE ~(pub.f < Count)
    <2>1. proc'["pub"] = [me EXCEPT !.at = "enter"]
      BY <1>1, <1>3 DEF PreparedOne
    <2>2. Now("pub", "enter", pub.f, me.view, me.fresh, me.was, me.attention) /\ Steady("pub")
      BY <1>a, <2>1 DEF Now, Steady, Agents
    <2>3. pub.f >= Count
      BY <1>3 DEF Files
    <2> QED
      BY <1>1, <1>3, <2>2, <2>3 DEF LockWhenPrepared, Prepares
  <1> QED
    BY <1>2, <1>3

\* It looks at the row of a file.
LEMMA PlanActs ==
  ASSUME Typed, Stands, Plan
  PROVE  /\ pub.at = "plan" /\ pub.f \in Files /\ UNCHANGED <<bundle, catalog, disk, bounds>>
         /\ \/ PreparationFails
            \/ /\ pub.view[pub.f] = "rolled_back" /\ Fresh("pub") /\ UNCHANGED lock
               /\ journal' = [journal EXCEPT ![pub.f] = "planned"] /\ Steady("pub")
               /\ Now("pub", "plan", pub.f, [pub.view EXCEPT ![pub.f] = "planned"], pub.fresh,
                      pub.was, pub.attention)
               /\ Keeps("rec", {pub.f})
            \/ /\ pub.view[pub.f] = "none" /\ UNCHANGED lock
               /\ journal' = [journal EXCEPT ![pub.f] = "planned"] /\ Steady("pub")
               /\ Now("pub", "plan", pub.f, [pub.view EXCEPT ![pub.f] = "planned"],
                      pub.fresh \union {pub.f}, pub.was, pub.attention)
               /\ Keeps("rec", {pub.f})
            \/ /\ pub.view[pub.f] = "planned" /\ Goes("pub", "artwork") /\ UNCHANGED <<journal, lock>>
            \/ /\ pub.view[pub.f] = "planned" /\ Goes("pub", "stage") /\ UNCHANGED <<journal, lock>>
            \/ /\ pub.view[pub.f] = "staged" /\ Goes("pub", "validate") /\ UNCHANGED <<journal, lock>>
            \/ /\ pub.view[pub.f] \in {"validated", "replacement_backed_up", "published"}
               /\ Prepares(pub.view) /\ Keeps("rec", {}) /\ UNCHANGED journal
  <1>a. "pub" \in Procs /\ pub = proc["pub"] /\ Other("pub") = "rec" /\ pub \in Agents
    BY DEF Procs, pub, Other, Typed
  <1>f. pub.at = "plan" /\ pub.f \in Files
    BY <1>a DEF Plan, Stands, Preparing
  <1>1. CASE PreparationFails
    BY <1>1, <1>f, PreparationFailsActs DEF Plan
  <1>2. Transition("pub", "planned", "plan")
         => /\ journal' = [journal EXCEPT ![pub.f] = "planned"] /\ Steady("pub")
            /\ Now("pub", "plan", pub.f, [pub.view EXCEPT ![pub.f] = "planned"], pub.fresh,
                   pub.was, pub.attention)
            /\ Keeps("rec", {pub.f})
    BY <1>a, RowMoves
  <1>3. Becomes("pub", [pub EXCEPT !.view[pub.f] = "planned", !.fresh = @ \union {pub.f}], {pub.f})
         => /\ Steady("pub") /\ Keeps("rec", {pub.f})
            /\ Now("pub", "plan", pub.f, [pub.view EXCEPT ![pub.f] = "planned"],
                   pub.fresh \union {pub.f}, pub.was, pub.attention)
    <2> SUFFICES ASSUME Becomes("pub", [pub EXCEPT !.view[pub.f] = "planned",
                                                   !.fresh = @ \union {pub.f}], {pub.f})
                 PROVE  /\ Steady("pub") /\ Keeps("rec", {pub.f})
                        /\ Now("pub", "plan", pub.f, [pub.view EXCEPT ![pub.f] = "planned"],
                               pub.fresh \union {pub.f}, pub.was, pub.attention)
      OBVIOUS
    <2>1. /\ proc'["pub"] = [pub EXCEPT !.view[pub.f] = "planned", !.fresh = @ \union {pub.f}]
          /\ Keeps("rec", {pub.f})
      BY <1>a, OtherKeeps
    <2> QED
      BY <1>a, <1>f, <2>1 DEF Now, Steady, Agents
  <1>4. \A at: GoesOn("pub", [pub EXCEPT !.at = at]) => Goes("pub", at)
    BY <1>a, PlaceMoves
  <1>5. GoesOn("pub", PreparedOne(pub)) /\ LockWhenPrepared => Prepares(pub.view) /\ Keeps("rec", {})
    BY <1>a, <1>f, PreparesActs DEF GoesOn
  <1>6. CASE pub.view[pub.f] = "planned" /\ ~PreparationFails
    <2>1. CASE pub.f \in Artwork
      BY <1>6, <1>f, <2>1, <1>4 DEF Plan, store
    <2>2. CASE pub.f \notin Artwork
      BY <1>6, <1>f, <2>2, <1>4 DEF Plan, store
    <2> QED
      BY <2>1, <2>2
  <1>7. CASE pub.view[pub.f] = "staged" /\ ~PreparationFails
    BY <1>7, <1>f, <1>4 DEF Plan, store
  <1>8. CASE pub.view[pub.f] = "rolled_back" /\ ~PreparationFails
    BY <1>8, <1>f, <1>2 DEF Plan, store
  <1>9. CASE pub.view[pub.f] = "none" /\ ~PreparationFails
    BY <1>9, <1>f, <1>3 DEF Plan, store
  <1>10. CASE pub.view[pub.f] \in {"validated", "replacement_backed_up", "published"} /\ ~PreparationFails
    BY <1>10, <1>f, <1>5 DEF Plan, store
  <1> QED
    BY <1>1, <1>6, <1>7, <1>8, <1>9, <1>10 DEF Plan

\* It stages the artwork, then the file.
LEMMA StageActs ==
  ASSUME Typed, Stands, StageArtwork \/ Stage
  PROVE  /\ pub.f \in Files /\ UNCHANGED <<bundle, journal, catalog, lock, bounds>>
         /\ \/ pub.at = "artwork" /\ Goes("pub", "stage") /\ Put(pub.f, "artTemp", TRUE)
            \/ pub.at = "stage" /\ Goes("pub", "seal") /\ Put(pub.f, "temp", "new")
  <1>a. "pub" \in Procs /\ pub = proc["pub"]
    BY DEF Procs, pub
  <1>1. \A at: GoesOn("pub", [pub EXCEPT !.at = at]) => Goes("pub", at)
    BY <1>a, PlaceMoves
  <1>2. pub.f \in Files
    BY <1>a DEF StageArtwork, Stage, Stands, Preparing
  <1> QED
    BY <1>1, <1>2 DEF StageArtwork, Stage, store

\* It seals a staged file.
LEMMA SealActs ==
  ASSUME Typed, Stands, Seal
  PROVE  /\ pub.at = "seal" /\ pub.f \in Files /\ UNCHANGED <<bundle, catalog, disk, bounds>>
         /\ \/ PreparationFails
            \/ /\ Fresh("pub") /\ UNCHANGED lock
               /\ journal' = [journal EXCEPT ![pub.f] = "staged"] /\ Steady("pub")
               /\ Now("pub", "validate", pub.f, [pub.view EXCEPT ![pub.f] = "staged"], pub.fresh,
                      pub.was, pub.attention)
               /\ Keeps("rec", {pub.f})
  <1>a. "pub" \in Procs /\ pub = proc["pub"] /\ Other("pub") = "rec"
    BY DEF Procs, pub, Other
  <1>1. Transition("pub", "staged", "validate")
         => /\ journal' = [journal EXCEPT ![pub.f] = "staged"] /\ Steady("pub")
            /\ Now("pub", "validate", pub.f, [pub.view EXCEPT ![pub.f] = "staged"], pub.fresh,
                   pub.was, pub.attention)
            /\ Keeps("rec", {pub.f})
    BY <1>a, RowMoves
  <1>2. pub.f \in Files
    BY <1>a DEF Seal, Stands, Preparing
  <1> QED
    BY <1>1, <1>2, PreparationFailsActs DEF Seal

\* It validates a sealed one.
LEMMA ValidateActs ==
  ASSUME Typed, Stands, Validate
  PROVE  /\ pub.at = "validate" /\ pub.f \in Files /\ UNCHANGED <<bundle, catalog, disk, bounds>>
         /\ \/ PreparationFails
            \/ /\ Fresh("pub") /\ disk[pub.f].temp = "new"
               /\ journal' = [journal EXCEPT ![pub.f] = "validated"]
               /\ Prepares([pub.view EXCEPT ![pub.f] = "validated"]) /\ Keeps("rec", {pub.f})
  <1>a. "pub" \in Procs /\ pub = proc["pub"] /\ Other("pub") = "rec" /\ pub \in Agents
    BY DEF Procs, pub, Other, Typed
  <1>f. pub.f \in Files /\ "validated" \in JournalStates
    BY <1>a DEF Validate, Stands, Preparing, JournalStates
  <1>1. CASE PreparationFails
    BY <1>1, <1>f, PreparationFailsActs DEF Validate
  <1>2. CASE ~PreparationFails
    <2> DEFINE me == [pub EXCEPT !.view[pub.f] = "validated"]
    <2>1. /\ Becomes("pub", PreparedOne(me), {pub.f}) /\ LockWhenPrepared
          /\ Fresh("pub") /\ disk[pub.f].temp = "new" /\ UNCHANGED <<bundle, catalog, disk>>
          /\ journal' = [journal EXCEPT ![pub.f] = "validated"]
      BY SMTT(30), <1>2 DEF Validate
    <2>2. me \in Agents
      BY <1>a, <1>f, AgentTyped
    <2>3. /\ me.f = pub.f /\ me.fresh = pub.fresh /\ me.was = pub.was /\ me.attention = pub.attention
          /\ me.record = pub.record /\ me.failed = pub.failed
          /\ me.view = [pub.view EXCEPT ![pub.f] = "validated"]
      BY <1>a, <1>f DEF Agents
    <2>4. Prepares(me.view) /\ Keeps("rec", {pub.f})
      <3> HIDE DEF me
      <3> QED
        BY <1>f, <2>1, <2>2, <2>3, PreparesActs
    <2>5. Prepares([pub.view EXCEPT ![pub.f] = "validated"])
      <3> HIDE DEF me
      <3> QED
        BY <2>3, <2>4
    <2> QED
      BY <1>f, <2>1, <2>4, <2>5 DEF Validate
  <1> QED
    BY <1>1, <1>2

\* It has the lease.
LEMMA EnterActs ==
  ASSUME Typed, Enter
  PROVE  /\ pub.at = "enter" /\ lock = "pub" /\ UNCHANGED <<bundle, journal, catalog, disk, bounds>>
         /\ CriticalFails \/ (GoesTo("pub", "boundary", 1) /\ UNCHANGED lock)
  <1>a. "pub" \in Procs /\ pub = proc["pub"]
    BY DEF Procs, pub
  <1>1. GoesOn("pub", [pub EXCEPT !.at = "boundary", !.f = 1]) => GoesTo("pub", "boundary", 1)
    <2> 1 \in 0..Count
      OBVIOUS
    <2> QED
      BY <1>a, FileMoves
  <1> QED
    BY <1>1, CriticalFailsActs DEF Enter, store

\* It goes to the next file of a loop under the lease, and what its copies say then.
Advances(loop, after, view, was) ==
  /\ Steady("pub")
  /\ \/ pub.f < Count /\ Now("pub", loop, pub.f + 1, view, pub.fresh, was, pub.attention)
     \/ pub.f >= Count /\ Now("pub", after, 1, view, pub.fresh, was, pub.attention)

\* It is through with one file.
LEMMA AdvancesActs ==
  ASSUME Typed, pub.f \in Files, NEW me \in Agents, NEW written, NEW loop, NEW after,
         Becomes("pub", NextOf(loop, after, me), written),
         me.f = pub.f, me.fresh = pub.fresh, me.attention = pub.attention,
         me.record = pub.record, me.failed = pub.failed
  PROVE  Advances(loop, after, me.view, me.was) /\ Keeps("rec", written)
  <1>a. "pub" \in Procs /\ pub = proc["pub"] /\ Other("pub") = "rec"
    BY DEF Procs, pub, Other
  <1>1. proc'["pub"] = NextOf(loop, after, me) /\ Keeps("rec", written)
    BY <1>a, OtherKeeps
  <1>2. CASE pub.f < Count
    <2>1. proc'["pub"] = [me EXCEPT !.at = loop, !.f = pub.f + 1]
      BY <1>1, <1>2 DEF NextOf
    <2>2. pub.f + 1 \in 0..Count
      BY <1>2 DEF Files
    <2>3. Now("pub", loop, pub.f + 1, me.view, me.fresh, me.was, me.attention) /\ Steady("pub")
      BY <1>a, <2>1, <2>2 DEF Now, Steady, Agents
    <2> QED
      BY <1>1, <1>2, <2>3 DEF Advances
  <1>3. CASE ~(pub.f < Count)
    <2>1. proc'["pub"] = [me EXCEPT !.at = after, !.f = 1] /\ 1 \in 0..Count
      BY <1>1, <1>3 DEF NextOf
    <2>2. Now("pub", after, 1, me.view, me.fresh, me.was, me.attention) /\ Steady("pub")
      BY <1>a, <2>1 DEF Now, Steady, Agents
    <2>3. pub.f >= Count
      BY <1>3 DEF Files
    <2> QED
      BY <1>1, <2>2, <2>3 DEF Advances
  <1> QED
    BY <1>2, <1>3

\* It looks for a file that an earlier call moved but did not record.
Moved(f) == /\ pub.view[f] \in {"validated", "replacement_backed_up"}
            /\ disk[f].temp = "absent" /\ disk[f].dest = "new"
Aside(f) == /\ pub.view[f] = "validated" /\ f \in SamePath /\ ~Moved(f)
            /\ disk[f].dest = "absent" /\ disk[f].backup = "old"

\* A file that was moved before is recorded, one whose old file is aside is remembered, and any
\* other is looked at again, or the bundle fails.
LEMMA BoundaryActs ==
  ASSUME Typed, Stands, Boundary
  PROVE  /\ pub.at = "boundary" /\ pub.f \in Files /\ UNCHANGED <<bundle, catalog, disk, bounds>>
         /\ \/ CriticalFails
            \/ /\ Moved(pub.f) /\ UNCHANGED <<journal, lock>> /\ Steady("pub") /\ Keeps("rec", {})
               /\ Now("pub", "place_art", pub.f, pub.view, pub.fresh, TRUE, pub.attention)
            \/ /\ Aside(pub.f) /\ Fresh("pub") /\ UNCHANGED lock
               /\ journal' = [journal EXCEPT ![pub.f] = "replacement_backed_up"]
               /\ Advances("boundary", "recheck",
                           [pub.view EXCEPT ![pub.f] = "replacement_backed_up"], pub.was)
               /\ Keeps("rec", {pub.f})
            \/ /\ ~Moved(pub.f) /\ ~Aside(pub.f) /\ UNCHANGED <<journal, lock>>
               /\ Advances("boundary", "recheck", pub.view, pub.was) /\ Keeps("rec", {})
  <1>a. "pub" \in Procs /\ pub = proc["pub"] /\ Other("pub") = "rec" /\ pub \in Agents
    BY DEF Procs, pub, Other, Typed
  <1>f. pub.at = "boundary" /\ pub.f \in Files /\ "replacement_backed_up" \in JournalStates
    BY <1>a DEF Boundary, Stands, JournalStates
  <1>1. CASE CriticalFails
    BY <1>1, <1>f, CriticalFailsActs DEF Boundary
  <1>2. CASE GoesOn("pub", [pub EXCEPT !.at = "place_art", !.was = TRUE]) /\ Moved(pub.f)
             /\ UNCHANGED <<store, disk, lock, bounds>>
    <2>1. proc'["pub"] = [pub EXCEPT !.at = "place_art", !.was = TRUE] /\ Keeps("rec", {})
      BY <1>2, <1>a, OtherKeeps DEF GoesOn
    <2>2. Now("pub", "place_art", pub.f, pub.view, pub.fresh, TRUE, pub.attention) /\ Steady("pub")
      BY <1>a, <2>1 DEF Now, Steady, Agents
    <2> QED
      BY <1>2, <1>f, <2>1, <2>2 DEF store
  <1>3. CASE GoesOn("pub", NextOf("boundary", "recheck", pub)) /\ ~Moved(pub.f) /\ ~Aside(pub.f)
             /\ UNCHANGED <<store, disk, lock, bounds>>
    <2>1. Advances("boundary", "recheck", pub.view, pub.was) /\ Keeps("rec", {})
      BY <1>3, <1>a, <1>f, AdvancesActs DEF GoesOn
    <2> QED
      BY <1>3, <1>f, <2>1 DEF store
  <1> DEFINE me == [pub EXCEPT !.view[pub.f] = "replacement_backed_up"]
  <1>4. CASE /\ journal' = [journal EXCEPT ![pub.f] = "replacement_backed_up"]
             /\ Becomes("pub", NextOf("boundary", "recheck", me), {pub.f})
             /\ Aside(pub.f) /\ Fresh("pub") /\ UNCHANGED <<bundle, catalog, disk, lock, bounds>>
    <2>1. me \in Agents
      BY <1>a, <1>f, AgentTyped
    <2>2. /\ me.f = pub.f /\ me.fresh = pub.fresh /\ me.was = pub.was /\ me.attention = pub.attention
          /\ me.record = pub.record /\ me.failed = pub.failed
          /\ me.view = [pub.view EXCEPT ![pub.f] = "replacement_backed_up"]
      BY <1>a, <1>f DEF Agents
    <2>3. /\ Advances("boundary", "recheck", [pub.view EXCEPT ![pub.f] = "replacement_backed_up"], pub.was)
          /\ Keeps("rec", {pub.f})
      <3> HIDE DEF me
      <3>1. Advances("boundary", "recheck", me.view, me.was) /\ Keeps("rec", {pub.f})
        BY <1>4, <1>f, <2>1, <2>2, AdvancesActs
      <3> QED
        BY <2>2, <3>1
    <2> QED
      BY <1>4, <1>f, <2>3
  <1> QED
    BY <1>1, <1>2, <1>3, <1>4 DEF Boundary, Moved, Aside

\* It checks all files once more, and removes the staged artwork of those that are published.
Rechecked == [f \in Files |-> IF pub.view[f] = "published"
                              THEN [disk[f] EXCEPT !.artTemp = @ /\ f \notin Artwork] ELSE disk[f]]

\* Recheck goes on to publish the files, or the bundle fails.
LEMMA RecheckActs ==
  ASSUME Typed, Recheck
  PROVE  /\ pub.at = "recheck" /\ UNCHANGED <<bundle, journal, catalog, bounds>>
         /\ \/ CriticalFails /\ UNCHANGED disk
            \/ /\ \A f \in Files: Unchanged(f)
               /\ GoesTo("pub", "publish", 1) /\ UNCHANGED lock /\ disk' = Rechecked
  <1>a. "pub" \in Procs /\ pub = proc["pub"] /\ 1 \in 0..Count
    BY DEF Procs, pub
  <1>1. GoesOn("pub", [pub EXCEPT !.at = "publish", !.f = 1]) => GoesTo("pub", "publish", 1)
    BY <1>a, FileMoves
  <1> QED
    BY <1>1, CriticalFailsActs DEF Recheck, Rechecked, store

\* It puts the old file aside.
LEMMA PublishActs ==
  ASSUME Typed, Stands, Publish
  PROVE  /\ pub.at = "publish" /\ pub.f \in Files /\ UNCHANGED <<bundle, journal, catalog, bounds>>
         /\ \/ CriticalFails
            \/ /\ pub.view[pub.f] = "published" /\ UNCHANGED <<disk, lock>>
               /\ Advances("publish", "commit", pub.view, pub.was) /\ Keeps("rec", {})
            \/ /\ pub.view[pub.f] = "validated" /\ pub.f \in SamePath /\ Goes("pub", "backed")
               /\ disk[pub.f].dest # "absent" /\ UNCHANGED lock
               /\ disk' = [disk EXCEPT ![pub.f].backup = disk[pub.f].dest, ![pub.f].dest = "absent"]
            \/ /\ pub.view[pub.f] # "published" /\ (pub.view[pub.f] = "validated" => pub.f \notin SamePath)
               /\ Goes("pub", "place") /\ UNCHANGED <<disk, lock>>
  <1>a. "pub" \in Procs /\ pub = proc["pub"] /\ pub \in Agents
    BY DEF Procs, pub, Typed
  <1>f. pub.at = "publish" /\ pub.f \in Files
    BY <1>a DEF Publish, Stands
  <1>1. \A at: GoesOn("pub", [pub EXCEPT !.at = at]) => Goes("pub", at)
    BY <1>a, PlaceMoves
  <1>2. GoesOn("pub", NextOf("publish", "commit", pub))
          => Advances("publish", "commit", pub.view, pub.was) /\ Keeps("rec", {})
    BY <1>a, <1>f, AdvancesActs DEF GoesOn
  <1> QED
    BY <1>1, <1>2, <1>f, CriticalFailsActs DEF Publish, store

\* It records that; puts the new file in its place; puts the artwork in its place.
LEMMA BackedActs ==
  ASSUME Typed, Stands, Backed
  PROVE  /\ pub.at = "backed" /\ pub.f \in Files /\ UNCHANGED <<bundle, catalog, disk, bounds>>
         /\ \/ CriticalFails
            \/ /\ Fresh("pub") /\ UNCHANGED lock
               /\ journal' = [journal EXCEPT ![pub.f] = "replacement_backed_up"] /\ Steady("pub")
               /\ Now("pub", "place", pub.f, [pub.view EXCEPT ![pub.f] = "replacement_backed_up"],
                      pub.fresh, pub.was, pub.attention)
               /\ Keeps("rec", {pub.f})
  <1>a. "pub" \in Procs /\ pub = proc["pub"] /\ Other("pub") = "rec"
    BY DEF Procs, pub, Other
  <1>1. Transition("pub", "replacement_backed_up", "place")
         => /\ journal' = [journal EXCEPT ![pub.f] = "replacement_backed_up"] /\ Steady("pub")
            /\ Now("pub", "place", pub.f, [pub.view EXCEPT ![pub.f] = "replacement_backed_up"],
                   pub.fresh, pub.was, pub.attention)
            /\ Keeps("rec", {pub.f})
    BY <1>a, RowMoves
  <1>2. pub.f \in Files
    BY <1>a DEF Backed, Stands
  <1> QED
    BY <1>1, <1>2, CriticalFailsActs DEF Backed

\* Place moves the copy into the library, or the bundle fails.
LEMMA PlaceActs ==
  ASSUME Typed, Stands, Place
  PROVE  /\ pub.at = "place" /\ pub.f \in Files /\ UNCHANGED <<bundle, journal, catalog, bounds>>
         /\ \/ CriticalFails
            \/ /\ disk[pub.f].dest = "absent" /\ UNCHANGED lock /\ Goes("pub", "place_art")
               /\ disk' = [disk EXCEPT ![pub.f].dest = disk[pub.f].temp, ![pub.f].temp = "absent"]
  <1>a. "pub" \in Procs /\ pub = proc["pub"]
    BY DEF Procs, pub
  <1>1. \A at: GoesOn("pub", [pub EXCEPT !.at = at]) => Goes("pub", at)
    BY <1>a, PlaceMoves
  <1>2. pub.f \in Files
    BY <1>a DEF Place, Stands
  <1> QED
    BY <1>1, <1>2, CriticalFailsActs DEF Place, store

\* PlaceArtwork moves the cover of the file, or the bundle fails.
LEMMA PlaceArtworkActs ==
  ASSUME Typed, Stands, PlaceArtwork
  PROVE  /\ pub.at = "place_art" /\ pub.f \in Files /\ UNCHANGED <<bundle, journal, catalog, bounds>>
         /\ \/ CriticalFails
            \/ /\ UNCHANGED lock /\ Goes("pub", "record")
               /\ disk' = [disk EXCEPT ![pub.f].artDest = pub.f \in Artwork, ![pub.f].artTemp = FALSE]
  <1>a. "pub" \in Procs /\ pub = proc["pub"]
    BY DEF Procs, pub
  <1>1. \A at: GoesOn("pub", [pub EXCEPT !.at = at]) => Goes("pub", at)
    BY <1>a, PlaceMoves
  <1>2. pub.f \in Files
    BY <1>a DEF PlaceArtwork, Stands
  <1> QED
    BY <1>1, <1>2, CriticalFailsActs DEF PlaceArtwork, store

\* It records the file as published.
LEMMA RecordActs ==
  ASSUME Typed, Stands, RecordPublished
  PROVE  /\ pub.at = "record" /\ pub.f \in Files /\ UNCHANGED <<bundle, catalog, disk, bounds>>
         /\ \/ CriticalFails
            \/ /\ Fresh("pub") /\ UNCHANGED lock /\ Keeps("rec", {pub.f})
               /\ journal' = [journal EXCEPT ![pub.f] = "published"]
               /\ \/ /\ pub.was
                     /\ Advances("boundary", "recheck", [pub.view EXCEPT ![pub.f] = "published"], FALSE)
                  \/ /\ ~pub.was
                     /\ Advances("publish", "commit", [pub.view EXCEPT ![pub.f] = "published"], pub.was)
  <1>a. "pub" \in Procs /\ pub = proc["pub"] /\ Other("pub") = "rec" /\ pub \in Agents
    BY DEF Procs, pub, Other, Typed
  <1>f. pub.at = "record" /\ pub.f \in Files /\ "published" \in JournalStates
    BY <1>a DEF RecordPublished, Stands, JournalStates
  <1>1. CASE CriticalFails
    BY <1>1, <1>f, CriticalFailsActs DEF RecordPublished
  <1>2. CASE ~CriticalFails
    <2> DEFINE me == [pub EXCEPT !.view[pub.f] = "published"]
               back == [me EXCEPT !.was = FALSE]
    <2>1. /\ Fresh("pub") /\ journal' = [journal EXCEPT ![pub.f] = "published"]
          /\ UNCHANGED <<bundle, catalog, disk, lock, bounds>>
          /\ Becomes("pub", AfterRecord(me), {pub.f})
      BY <1>2 DEF RecordPublished
    <2>2. me \in Agents
      BY <1>a, <1>f, AgentTyped
    <2>3. /\ me.f = pub.f /\ me.fresh = pub.fresh /\ me.was = pub.was /\ me.attention = pub.attention
          /\ me.record = pub.record /\ me.failed = pub.failed
          /\ me.view = [pub.view EXCEPT ![pub.f] = "published"]
      BY SMTT(30), <1>a, <1>f DEF Agents
    <2>4. back \in Agents
      <3> HIDE DEF me
      <3> QED
        BY <2>2, AgentTyped
    <2>5. /\ back.f = pub.f /\ back.fresh = pub.fresh /\ ~back.was /\ back.attention = pub.attention
          /\ back.record = pub.record /\ back.failed = pub.failed /\ back.view = me.view
      <3> HIDE DEF me
      <3> QED
        BY <2>2, <2>3 DEF Agents
    <2>6. CASE pub.was
      <3> HIDE DEF me
      <3>1. Becomes("pub", NextOf("boundary", "recheck", back), {pub.f})
        BY <2>1, <2>3, <2>6 DEF AfterRecord
      <3> HIDE DEF back
      <3>2. Advances("boundary", "recheck", back.view, back.was) /\ Keeps("rec", {pub.f})
        BY <1>f, <2>4, <2>5, <3>1, AdvancesActs
      <3>3. Advances("boundary", "recheck", [pub.view EXCEPT ![pub.f] = "published"], FALSE)
        <4>1. back.was = FALSE
          BY <2>4, <2>5 DEF Agents
        <4> QED
          BY <2>3, <2>5, <3>2, <4>1
      <3> QED
        BY <1>f, <2>1, <2>6, <3>2, <3>3
    <2>7. CASE ~pub.was
      <3> HIDE DEF me
      <3>1. Becomes("pub", NextOf("publish", "commit", me), {pub.f})
        BY <2>1, <2>3, <2>7 DEF AfterRecord
      <3>2. Advances("publish", "commit", me.view, me.was) /\ Keeps("rec", {pub.f})
        BY <1>f, <2>2, <2>3, <3>1, AdvancesActs
      <3> QED
        BY <1>f, <2>1, <2>3, <2>7, <3>2
    <2> QED
      BY <2>6, <2>7
  <1> QED
    BY <1>1, <1>2

\* The catalog adopts the files.
LEMMA CommitActs ==
  ASSUME Typed, Commit
  PROVE  /\ pub.at = "commit" /\ UNCHANGED <<disk, bounds>>
         /\ \/ CriticalFails
            \/ /\ bundle = "publishing" /\ \A f \in Files: journal[f] = "published"
               /\ bundle' = "catalog_committed" /\ catalog' = TRUE
               /\ journal' = [f \in Files |-> "catalog_committed"]
               /\ Starts("pub", "lease", Files) /\ lock' = Released("pub")
  <1>a. "pub" \in Procs
    BY DEF Procs
  <1>1. Becomes("pub", [Idle EXCEPT !.at = "lease"], Files) => Starts("pub", "lease", Files)
    BY <1>a, IdleMoves
  <1> QED
    BY <1>1, CriticalFailsActs DEF Commit

\* A rollback passes a file over, and will want attention.
Passes(p) ==
  /\ Now(p, "roll", proc[p].f - 1, proc[p].view, proc[p].fresh, proc[p].was, TRUE)
  /\ Steady(p) /\ Keeps(Other(p), {})

\* UndoNext with the attention set passes the file over.
LEMMA PassesActs ==
  ASSUME Typed, NEW p \in Procs, proc[p].f \in Files, UndoNext(p, [proc[p] EXCEPT !.attention = TRUE])
  PROVE  Passes(p)
  <1> DEFINE me == [proc[p] EXCEPT !.attention = TRUE]
  <1>a. proc[p] \in Agents /\ proc[p].f - 1 \in 0..Count
    BY DEF Typed, Files
  <1>1. me \in Agents
    BY <1>a, AgentTyped
  <1>2. /\ me.f = proc[p].f /\ me.view = proc[p].view /\ me.fresh = proc[p].fresh
        /\ me.was = proc[p].was /\ me.attention = TRUE /\ me.record = proc[p].record
        /\ me.failed = proc[p].failed
    BY <1>a DEF Agents
  <1> HIDE DEF me
  <1>3. proc'[p] = [me EXCEPT !.at = "roll", !.f = @ - 1] /\ Keeps(Other(p), {})
    BY OtherKeeps DEF UndoNext, GoesOn, me
  <1>4. me.f - 1 \in 0..Count
    BY <1>a, <1>2
  <1>5. /\ Now(p, "roll", me.f - 1, me.view, me.fresh, me.was, me.attention)
        /\ proc'[p].record = me.record /\ proc'[p].failed = me.failed
    BY SMTT(30), <1>1, <1>3, <1>4 DEF Now, Agents
  <1> QED
    BY <1>2, <1>3, <1>5 DEF Passes, Steady

\* A rollback comes to a file.
Was(p) == \/ proc[p].view[proc[p].f] = "published"
          \/ disk[proc[p].f].temp = "absent" /\ disk[proc[p].f].dest = "new"

\* Undo passes over the file, marks its row and begins to restore it, or finds its copy stale.
LEMMA UndoActs ==
  ASSUME Typed, NEW p \in Procs, Undo(p)
  PROVE  /\ proc[p].at = "roll" /\ lock = p /\ proc[p].f \in Files
         /\ UNCHANGED <<bundle, catalog, disk, lock, bounds>> /\ Steady(p)
         /\ \/ /\ proc[p].view[proc[p].f] \notin Undoable /\ UNCHANGED journal
               /\ Now(p, "roll", proc[p].f - 1, proc[p].view, proc[p].fresh, proc[p].was,
                      proc[p].attention)
               /\ Keeps(Other(p), {})
            \/ /\ proc[p].view[proc[p].f] = "rollback_pending" /\ UNCHANGED journal
               /\ Now(p, "undo_dest", proc[p].f, proc[p].view, proc[p].fresh, Was(p),
                      proc[p].attention)
               /\ Keeps(Other(p), {})
            \/ /\ proc[p].view[proc[p].f] \in Undoable \ {"rollback_pending"} /\ Fresh(p)
               /\ journal' = [journal EXCEPT ![proc[p].f] = "rollback_pending"]
               /\ Now(p, "undo_dest", proc[p].f,
                      [proc[p].view EXCEPT ![proc[p].f] = "rollback_pending"], proc[p].fresh, Was(p),
                      proc[p].attention)
               /\ Keeps(Other(p), {proc[p].f})
            \/ /\ proc[p].view[proc[p].f] \in Undoable \ {"rollback_pending"} /\ ~Fresh(p)
               /\ UNCHANGED journal
               /\ Now(p, "roll", proc[p].f - 1, proc[p].view, proc[p].fresh, proc[p].was, TRUE)
               /\ Keeps(Other(p), {})
  <1>a. proc[p] \in Agents
    BY DEF Typed
  <1>f. proc[p].at = "roll" /\ lock = p /\ proc[p].f \in Files /\ proc[p].f - 1 \in 0..Count
    BY <1>a, AgentFields DEF Undo, Files
  <1>s. "rollback_pending" \in JournalStates
    BY DEF JournalStates
  <1>1. CASE /\ proc[p].view[proc[p].f] \notin Undoable /\ UNCHANGED journal
             /\ UndoNext(p, proc[p]) /\ UNCHANGED <<bundle, catalog, disk, lock, bounds>>
    <2>1. proc'[p] = [proc[p] EXCEPT !.at = "roll", !.f = @ - 1] /\ Keeps(Other(p), {})
      BY <1>1, OtherKeeps DEF UndoNext, GoesOn
    <2>2. /\ Now(p, "roll", proc[p].f - 1, proc[p].view, proc[p].fresh, proc[p].was, proc[p].attention)
          /\ Steady(p)
      BY <1>a, <1>f, <2>1 DEF Now, Steady, Agents
    <2> QED
      BY <1>1, <1>f, <2>1, <2>2
  <1>2. CASE /\ proc[p].view[proc[p].f] = "rollback_pending" /\ UNCHANGED journal
             /\ GoesOn(p, [proc[p] EXCEPT !.at = "undo_dest", !.was = Was(p)])
             /\ UNCHANGED <<bundle, catalog, disk, lock, bounds>>
    <2>1. proc'[p] = [proc[p] EXCEPT !.at = "undo_dest", !.was = Was(p)] /\ Keeps(Other(p), {})
      BY <1>2, OtherKeeps DEF GoesOn
    <2>2. /\ Now(p, "undo_dest", proc[p].f, proc[p].view, proc[p].fresh, Was(p), proc[p].attention)
          /\ Steady(p)
      BY <1>a, <2>1 DEF Now, Steady, Agents
    <2> QED
      BY <1>2, <1>f, <2>1, <2>2
  <1>3. CASE /\ proc[p].view[proc[p].f] \in Undoable \ {"rollback_pending"} /\ Fresh(p)
             /\ journal' = [journal EXCEPT ![proc[p].f] = "rollback_pending"]
             /\ Becomes(p, [proc[p] EXCEPT !.view[proc[p].f] = "rollback_pending",
                                           !.at = "undo_dest", !.was = Was(p)], {proc[p].f})
             /\ UNCHANGED <<bundle, catalog, disk, lock, bounds>>
    <2>1. /\ proc'[p] = [proc[p] EXCEPT !.view[proc[p].f] = "rollback_pending",
                                        !.at = "undo_dest", !.was = Was(p)]
          /\ Keeps(Other(p), {proc[p].f})
      BY <1>3, OtherKeeps
    <2>2. /\ Now(p, "undo_dest", proc[p].f, [proc[p].view EXCEPT ![proc[p].f] = "rollback_pending"],
                 proc[p].fresh, Was(p), proc[p].attention)
          /\ Steady(p)
      BY <1>a, <1>f, <1>s, <2>1 DEF Now, Steady, Agents
    <2> QED
      BY <1>3, <1>f, <2>1, <2>2
  <1>4. CASE /\ proc[p].view[proc[p].f] \in Undoable \ {"rollback_pending"} /\ ~Fresh(p)
             /\ UndoNext(p, [proc[p] EXCEPT !.attention = TRUE]) /\ UNCHANGED journal
             /\ UNCHANGED <<bundle, catalog, disk, lock, bounds>>
    <2>1. Passes(p)
      BY <1>4, <1>f, PassesActs
    <2> QED
      BY <1>4, <1>f, <2>1 DEF Passes
  <1> QED
    BY <1>1, <1>2, <1>3, <1>4 DEF Undo, Was

\* A file that cannot be restored is passed over, and its row flagged if the copy is fresh.
LEMMA CannotRestoreActs ==
  ASSUME Typed, NEW p \in Procs, proc[p].f \in Files, CannotRestore(p)
  PROVE  /\ Now(p, "roll", proc[p].f - 1, proc[p].view, proc[p].fresh, FALSE, TRUE) /\ Steady(p)
         /\ \/ /\ Fresh(p) /\ journal' = [journal EXCEPT ![proc[p].f] = "needs_attention"]
               /\ Keeps(Other(p), {proc[p].f})
            \/ ~Fresh(p) /\ UNCHANGED journal /\ Keeps(Other(p), {})
  <1> DEFINE me == [proc[p] EXCEPT !.attention = TRUE, !.at = "roll", !.f = @ - 1, !.was = FALSE]
  <1>a. proc[p] \in Agents /\ proc[p].f - 1 \in 0..Count
    BY DEF Typed, Files
  <1>1. proc'[p] = me => Now(p, "roll", proc[p].f - 1, proc[p].view, proc[p].fresh, FALSE, TRUE)
                         /\ Steady(p)
    <2> SUFFICES ASSUME proc'[p] = me
                 PROVE  Now(p, "roll", proc[p].f - 1, proc[p].view, proc[p].fresh, FALSE, TRUE)
                         /\ Steady(p)
      OBVIOUS
    <2> QED
      BY <1>a DEF Now, Steady, Agents
  <1>2. CASE Fresh(p)
    <2>1. /\ journal' = [journal EXCEPT ![proc[p].f] = "needs_attention"]
          /\ Becomes(p, me, {proc[p].f})
      BY <1>2 DEF CannotRestore
    <2> HIDE DEF me
    <2> QED
      BY <1>1, <1>2, <2>1, OtherKeeps
  <1>3. CASE ~Fresh(p)
    <2>1. UNCHANGED journal /\ Becomes(p, me, {})
      BY <1>3 DEF CannotRestore, GoesOn
    <2> HIDE DEF me
    <2> QED
      BY <1>1, <1>3, <2>1, OtherKeeps
  <1> QED
    BY <1>2, <1>3

\* It restores the paths of a file.
LEMMA RestoreActs ==
  ASSUME Typed, Stands, NEW p \in Procs, UndoDest(p) \/ UndoArtwork(p) \/ UndoBackup(p) \/ UndoTemp(p)
  PROVE  /\ proc[p].f \in Files /\ UNCHANGED <<bundle, catalog, lock, bounds>>
         /\ \/ /\ proc[p].at \in {"undo_dest", "undo_art"} /\ CannotRestore(p) /\ UNCHANGED disk
            \/ /\ proc[p].at = "undo_dest" /\ Goes(p, "undo_art") /\ UNCHANGED journal
               /\ \/ ~proc[p].was /\ UNCHANGED disk
                  \/ /\ proc[p].was /\ disk[proc[p].f].dest \in {"absent", "new"}
                     /\ Put(proc[p].f, "dest", "absent")
            \/ /\ proc[p].at = "undo_art" /\ Goes(p, "undo_backup") /\ UNCHANGED journal
               /\ disk' = [disk EXCEPT ![proc[p].f].artDest = @ /\ ~proc[p].was,
                                       ![proc[p].f].artTemp = FALSE]
            \/ /\ proc[p].at = "undo_backup" /\ Goes(p, "undo_temp") /\ UNCHANGED journal
               /\ disk' = IF disk[proc[p].f].backup = "old"
                          THEN [disk EXCEPT ![proc[p].f].dest = "old", ![proc[p].f].backup = "absent"]
                          ELSE disk
            \/ /\ proc[p].at = "undo_temp" /\ Goes(p, "undone") /\ UNCHANGED journal
               /\ Put(proc[p].f, "temp", "absent")
  <1>1. \A at: GoesOn(p, [proc[p] EXCEPT !.at = at]) => Goes(p, at)
    BY PlaceMoves
  <1>2. proc[p].f \in Files
    BY DEF UndoDest, UndoArtwork, UndoBackup, UndoTemp, Stands, Undoing
  <1>3. CASE UndoDest(p)
    BY <1>1, <1>2, <1>3 DEF UndoDest
  <1>4. CASE UndoArtwork(p)
    BY <1>1, <1>2, <1>4 DEF UndoArtwork, store
  <1>5. CASE UndoBackup(p)
    BY <1>1, <1>2, <1>5 DEF UndoBackup, store
  <1>6. CASE UndoTemp(p)
    BY <1>1, <1>2, <1>6 DEF UndoTemp, store
  <1> QED
    BY <1>3, <1>4, <1>5, <1>6

\* It records a file as rolled back.
LEMMA UndoneActs ==
  ASSUME Typed, Stands, NEW p \in Procs, Undone(p)
  PROVE  /\ proc[p].at = "undone" /\ proc[p].f \in Files
         /\ UNCHANGED <<bundle, catalog, disk, lock, bounds>>
         /\ \/ /\ Fresh(p) /\ journal' = [journal EXCEPT ![proc[p].f] = "rolled_back"]
               /\ Now(p, "roll", proc[p].f - 1, [proc[p].view EXCEPT ![proc[p].f] = "rolled_back"],
                      proc[p].fresh, FALSE, proc[p].attention)
               /\ Steady(p) /\ Keeps(Other(p), {proc[p].f})
            \/ ~Fresh(p) /\ Passes(p) /\ UNCHANGED journal
  <1>a. proc[p] \in Agents /\ "rolled_back" \in JournalStates
    BY DEF Typed, JournalStates
  <1>f. proc[p].at = "undone" /\ proc[p].f \in Files /\ proc[p].f - 1 \in 0..Count
    BY <1>a DEF Undone, Stands, Undoing, Files
  <1>1. CASE Fresh(p)
    <2>1. /\ proc'[p] = [proc[p] EXCEPT !.view[proc[p].f] = "rolled_back", !.at = "roll",
                                        !.f = @ - 1, !.was = FALSE]
          /\ Keeps(Other(p), {proc[p].f})
      BY <1>1, OtherKeeps DEF Undone
    <2>2. /\ Now(p, "roll", proc[p].f - 1, [proc[p].view EXCEPT ![proc[p].f] = "rolled_back"],
                 proc[p].fresh, FALSE, proc[p].attention)
          /\ Steady(p)
      BY <1>a, <1>f, <2>1 DEF Now, Steady, Agents
    <2> QED
      BY <1>1, <1>f, <2>1, <2>2 DEF Undone
  <1>2. CASE ~Fresh(p)
    BY <1>2, <1>f, PassesActs DEF Undone
  <1> QED
    BY <1>1, <1>2

\* A process that is through goes, and one that raises drops what it did.
Ends(p) == /\ Starts(p, IF p = "pub" THEN "idle" ELSE "check", {}) /\ proc'[p].record = "absent"
Drops(p) == /\ Starts(p, IF p = "pub" THEN "idle" ELSE "attend", {}) /\ proc'[p].record = "absent"

\* Idle and Raised end a process.
LEMMA EndsActs ==
  ASSUME Typed, NEW p \in Procs
  PROVE  /\ GoesOn(p, IF p = "pub" THEN Idle ELSE [Idle EXCEPT !.at = "check"]) => Ends(p)
         /\ GoesOn(p, Raised(p)) => Drops(p)
  BY IdleMoves DEF GoesOn, Ends, Drops, Raised

\* A rollback ends.
LEMMA RollEndsActs ==
  ASSUME Typed, NEW p \in Procs, RollEnds(p) \/ NothingToRoll(p)
  PROVE  /\ UNCHANGED <<journal, catalog, disk, bounds>> /\ bundle' = RolledBack(p) /\ Ends(p)
         /\ \/ proc[p].at = "roll" /\ lock = p /\ proc[p].f = 0 /\ lock' = Released(p)
            \/ /\ proc[p].at = "finish" /\ (p = "rec" => proc[p].record # "preparing")
               /\ UNCHANGED lock
  BY EndsActs DEF RollEnds, NothingToRoll

\* A process asks for the lease to clean up.
LEMMA AskActs ==
  ASSUME Typed, NEW p \in Procs, AskToClean(p)
  PROVE  /\ proc[p].at = "lease" /\ UNCHANGED <<bundle, journal, catalog, disk, bounds>>
         /\ \/ Drops(p) /\ UNCHANGED lock
            \/ Goes(p, "clean") /\ lock' = Asked(p)
  BY SMTT(30), EndsActs, PlaceMoves DEF AskToClean, store

\* A cleanup that has these rows and these failures goes on from file f.
CleansFrom(p, view, failed, f) ==
  /\ proc'[p].record = proc[p].record /\ proc'[p].failed = failed /\ Keeps(Other(p), {})
  /\ \/ /\ \A g \in Files: g >= f => view[g] \in {"none", "completed"}
        /\ Now(p, "escalate", 0, view, proc[p].fresh, proc[p].was, proc[p].attention)
     \/ \E n \in Files:
          /\ n >= f /\ \A g \in Files: g >= f /\ g < n => view[g] \in {"none", "completed"}
          /\ Now(p, "clean_source", n, view, proc[p].fresh, proc[p].was, proc[p].attention)

\* CleanFrom comes to the next file that is not over, or to the end.
LEMMA CleansFromActs ==
  ASSUME Typed, NEW p \in Procs, NEW me \in Agents, NEW f \in Nat, CleanFrom(p, me, f),
         me.fresh = proc[p].fresh, me.was = proc[p].was, me.attention = proc[p].attention,
         me.record = proc[p].record
  PROVE  CleansFrom(p, me.view, me.failed, f)
  <1>1. CASE /\ \A g \in Files: g >= f => me.view[g] \in {"none", "completed"}
             /\ GoesOn(p, [me EXCEPT !.f = 0, !.at = "escalate"])
    <2>1. proc'[p] = [me EXCEPT !.f = 0, !.at = "escalate"] /\ Keeps(Other(p), {}) /\ 0 \in 0..Count
      BY <1>1, OtherKeeps DEF GoesOn
    <2>2. /\ Now(p, "escalate", 0, me.view, me.fresh, me.was, me.attention)
          /\ proc'[p].record = me.record /\ proc'[p].failed = me.failed
      BY <2>1 DEF Now, Agents
    <2> QED
      BY <1>1, <2>1, <2>2 DEF CleansFrom
  <1>2. ASSUME NEW n \in Files, n >= f,
               \A g \in Files: g >= f /\ g < n => me.view[g] \in {"none", "completed"},
               GoesOn(p, [me EXCEPT !.f = n, !.at = "clean_source"])
        PROVE  CleansFrom(p, me.view, me.failed, f)
    <2>1. /\ proc'[p] = [me EXCEPT !.f = n, !.at = "clean_source"] /\ Keeps(Other(p), {})
          /\ n \in 0..Count
      BY <1>2, OtherKeeps DEF GoesOn, Files
    <2>2. /\ Now(p, "clean_source", n, me.view, me.fresh, me.was, me.attention)
          /\ proc'[p].record = me.record /\ proc'[p].failed = me.failed
      BY <2>1 DEF Now, Agents
    <2> QED
      BY <1>2, <2>1, <2>2 DEF CleansFrom
  <1> QED
    BY <1>1, <1>2, CleanFromGoes

\* It begins.
LEMMA CleanActs ==
  ASSUME Typed, NEW p \in Procs, Clean(p)
  PROVE  /\ proc[p].at = "clean" /\ lock = p
         /\ UNCHANGED <<bundle, journal, catalog, disk, lock, bounds>>
         /\ CleansFrom(p, journal, proc[p].failed, 1)
  <1> DEFINE me == [proc[p] EXCEPT !.view = journal]
  <1>a. proc[p] \in Agents /\ journal \in [Files -> JournalStates] /\ 1 \in Nat
    BY SMTT(30) DEF Typed
  <1>1. me \in Agents
    BY <1>a, AgentTyped
  <1>2. /\ me.view = journal /\ me.failed = proc[p].failed /\ me.fresh = proc[p].fresh
        /\ me.was = proc[p].was /\ me.attention = proc[p].attention /\ me.record = proc[p].record
    BY <1>a DEF Agents
  <1>3. CleanFrom(p, me, 1) /\ proc[p].at = "clean" /\ lock = p /\ UNCHANGED <<store, disk, lock, bounds>>
    BY DEF Clean
  <1> HIDE DEF me
  <1>4. CleansFrom(p, me.view, me.failed, 1)
    BY <1>a, <1>1, <1>2, <1>3, CleansFromActs
  <1> QED
    BY <1>2, <1>3, <1>4 DEF store

\* It passes a file over.
LEMMA CannotCleanActs ==
  ASSUME Typed, NEW p \in Procs, proc[p].f \in Files, CannotClean(p)
  PROVE  CleansFrom(p, proc[p].view, proc[p].failed \union {proc[p].f}, proc[p].f + 1) /\ UNCHANGED disk
  <1> DEFINE me == [proc[p] EXCEPT !.failed = @ \union {proc[p].f}]
  <1>a. proc[p] \in Agents /\ proc[p].f + 1 \in Nat /\ proc[p].failed \union {proc[p].f} \in SUBSET Files
    BY SMTT(30), AgentFields DEF Typed, Files
  <1>1. me \in Agents
    BY <1>a, AgentTyped
  <1>2. /\ me.view = proc[p].view /\ me.failed = proc[p].failed \union {proc[p].f}
        /\ me.fresh = proc[p].fresh
        /\ me.was = proc[p].was /\ me.attention = proc[p].attention /\ me.record = proc[p].record
    BY <1>a DEF Agents
  <1>3. CleanFrom(p, me, proc[p].f + 1) /\ UNCHANGED disk
    BY DEF CannotClean
  <1> HIDE DEF me
  <1>4. CleansFrom(p, me.view, me.failed, proc[p].f + 1)
    BY <1>a, <1>1, <1>2, <1>3, CleansFromActs
  <1> QED
    BY <1>2, <1>3, <1>4

\* It removes the source of a file, and puts the old file into the bin.
LEMMA CleanFileActs ==
  ASSUME Typed, Stands, NEW p \in Procs, CleanSource(p) \/ CleanOld(p)
  PROVE  /\ proc[p].f \in Files /\ UNCHANGED <<bundle, journal, catalog, lock, bounds>>
         /\ \/ proc[p].at = "clean_source" /\ CannotClean(p)
            \/ /\ proc[p].at = "clean_source" /\ Put(proc[p].f, "source", "absent")
               /\ Goes(p, "clean_old")
            \/ /\ proc[p].at = "clean_old"
               /\ disk' = IF disk[proc[p].f].backup = "old"
                          THEN [disk EXCEPT ![proc[p].f].backup = "absent", ![proc[p].f].bin = "old"]
                          ELSE IF disk[proc[p].f].other = "old"
                          THEN [disk EXCEPT ![proc[p].f].other = "absent", ![proc[p].f].bin = "old"]
                          ELSE disk
               /\ CleansFrom(p, proc[p].view, proc[p].failed, proc[p].f + 1)
  <1>f. proc[p].f \in Files /\ proc[p] \in Agents
    BY DEF CleanSource, CleanOld, Stands, Typed
  <1>1. CASE CleanSource(p)
    BY <1>1, <1>f, PlaceMoves DEF CleanSource, store
  <1>2. CASE CleanOld(p)
    <2>1. proc[p].f + 1 \in Nat
      BY <1>f DEF Files
    <2>2. CleansFrom(p, proc[p].view, proc[p].failed, proc[p].f + 1)
      BY <1>2, <1>f, <2>1, CleansFromActs DEF CleanOld
    <2> QED
      BY <1>2, <1>f, <2>2 DEF CleanOld, store
  <1> QED
    BY <1>1, <1>2

\* It ends.
LEMMA CleanEndsActs ==
  ASSUME Typed, NEW p \in Procs, CleanEnds(p)
  PROVE  /\ proc[p].at = "escalate" /\ lock = p /\ lock' = Released(p)
         /\ UNCHANGED <<catalog, disk, policyMoved, crossed, torn, threads, stranded, calls, disturbed>>
         /\ \/ /\ bundle \in Committed
               /\ journal' = [f \in Files |-> IF journal[f] \notin Committed THEN journal[f]
                                ELSE IF f \in proc[p].failed THEN "cleanup_pending" ELSE "completed"]
               /\ \/ proc[p].failed = {} /\ bundle' = "completed"
                  \/ bundle' \in {"cleanup_pending", "needs_attention"}
               /\ Starts(p, "idle", Files) /\ proc'[p].record = "absent"
            \/ bundle \notin Committed /\ Drops(p) /\ UNCHANGED <<bundle, journal>>
  BY EndsActs, IdleMoves DEF CleanEnds

\* The recovery lists the bundle, takes it up and looks at it afterwards.
LEMMA ListActs ==
  ASSUME Typed, List
  PROVE  /\ rec.at = "idle" /\ UNCHANGED <<bundle, journal, catalog, disk, lock, policyMoved,
                                           crossed, torn, threads, stranded, calls, disturbed>>
         /\ \/ /\ bundle \in Recoverable /\ Starts("rec", "listed", {})
               /\ proc'["rec"].record = bundle
            \/ UNCHANGED proc
  <1>a. "rec" \in Procs
    BY DEF Procs
  <1>1. GoesOn("rec", [Idle EXCEPT !.at = "listed", !.record = bundle])
          => Starts("rec", "listed", {}) /\ proc'["rec"].record = bundle
    BY <1>a, IdleMoves DEF GoesOn
  <1> QED
    BY <1>1 DEF List, store

\* It takes it up unless the publisher is at work.
LEMMA TakeUpActs ==
  ASSUME Typed, TakeUp
  PROVE  /\ rec.at = "listed" /\ UNCHANGED <<bundle, journal, catalog, disk, lock, bounds>>
         /\ \/ Starts("rec", "idle", {}) /\ proc'["rec"].record = "absent"
            \/ pub.at = "idle" /\ rec.record \in Committed /\ Goes("rec", "lease")
            \/ pub.at = "idle" /\ rec.record \notin Committed /\ Goes("rec", "journals")
  <1>a. "rec" \in Procs /\ rec = proc["rec"]
    BY DEF Procs, rec
  <1>1. \A at: GoesOn("rec", [rec EXCEPT !.at = at]) => Goes("rec", at)
    BY <1>a, PlaceMoves
  <1>2. GoesOn("rec", Idle) => Starts("rec", "idle", {}) /\ proc'["rec"].record = "absent"
    BY <1>a, IdleMoves DEF GoesOn
  <1>3. CASE pub.at # "idle"
    BY <1>2, <1>3 DEF TakeUp, store
  <1>4. CASE pub.at = "idle" /\ rec.record \in Committed
    BY <1>1, <1>4 DEF TakeUp, store
  <1>5. CASE pub.at = "idle" /\ rec.record \notin Committed
    BY <1>1, <1>5 DEF TakeUp, store
  <1> QED
    BY <1>3, <1>4, <1>5

\* It reads the rows.
Begun == {f \in Files: journal[f] # "none"}

\* ReadJournals has nothing to do, rolls back or cleans up: the record decides.
LEMMA ReadJournalsActs ==
  ASSUME Typed, ReadJournals
  PROVE  /\ rec.at = "journals" /\ UNCHANGED <<bundle, journal, catalog, disk, bounds>>
         /\ \/ Begun = {} /\ Goes("rec", "finish") /\ UNCHANGED lock
            \/ /\ rec.record = "publishing" /\ lock' = Asked("rec")
               /\ Now("rec", "roll", Count, journal, Begun, rec.was, rec.attention)
               /\ Steady("rec") /\ Keeps("pub", {})
            \/ Drops("rec") /\ UNCHANGED lock
  <1>a. "rec" \in Procs /\ rec = proc["rec"] /\ Other("rec") = "pub"
    BY DEF Procs, rec, Other
  <1>1. GoesOn("rec", [rec EXCEPT !.at = "finish"]) => Goes("rec", "finish")
    BY <1>a, PlaceMoves
  <1>2. GoesOn("rec", Raised("rec")) => Drops("rec")
    BY <1>a, EndsActs
  <1>3. Begun \in SUBSET Files /\ Count \in 0..Count /\ "roll" \in Places
    BY DEF Begun, Places, Waiting
  <1>4. GoesOn("rec", [rec EXCEPT !.at = "roll", !.f = Count, !.view = journal, !.fresh = Begun,
                                  !.rebuilt = Content])
          => /\ Now("rec", "roll", Count, journal, Begun, rec.was, rec.attention)
             /\ Steady("rec") /\ Keeps("pub", {})
    BY <1>a, <1>3, RebuiltMoves DEF Typed
  <1> HIDE DEF Begun
  <1>5. CASE Begun = {} /\ GoesOn("rec", [rec EXCEPT !.at = "finish"]) /\ UNCHANGED <<lock, store, disk, bounds>>
             /\ rec.at = "journals"
    BY <1>1, <1>5 DEF store
  <1>6. CASE /\ rec.record = "publishing" /\ lock' = Asked("rec") /\ rec.at = "journals"
             /\ GoesOn("rec", [rec EXCEPT !.at = "roll", !.f = Count, !.view = journal, !.fresh = Begun,
                                          !.rebuilt = Content])
             /\ UNCHANGED <<store, disk, bounds>>
    BY <1>4, <1>6 DEF store
  <1>7. CASE GoesOn("rec", Raised("rec")) /\ UNCHANGED <<lock, store, disk, bounds>> /\ rec.at = "journals"
    BY <1>2, <1>7 DEF store
  <1> QED
    BY <1>5, <1>6, <1>7 DEF ReadJournals, Begun

\* It forgets a bundle that was never marked; it looks at the bundle again.
LEMMA ForgetActs ==
  ASSUME Typed, Forget \/ Check
  PROVE  /\ UNCHANGED <<journal, catalog, disk, lock, bounds>>
         /\ \/ /\ rec.at = "finish" /\ rec.record = "preparing"
               /\ bundle \in {"preparing", "publishing"} /\ bundle' = "rolled_back"
            \/ rec.at \in {"finish", "check"} /\ UNCHANGED bundle
         /\ proc'["rec"].record = "absent"
         /\ Starts("rec", "idle", {}) \/ Starts("rec", "attend", {})
  <1>a. "rec" \in Procs
    BY DEF Procs
  <1>1. GoesOn("rec", Idle) => Starts("rec", "idle", {}) /\ proc'["rec"].record = "absent"
    BY <1>a, IdleMoves DEF GoesOn
  <1>2. GoesOn("rec", Raised("rec")) => Starts("rec", "attend", {}) /\ proc'["rec"].record = "absent"
    BY <1>a, EndsActs DEF Drops
  <1> QED
    BY <1>1, <1>2 DEF Forget, Check, store

\* It flags the bundle and the rows that are not over.
Flagged == {f \in Files: journal[f] \notin {"none", "completed", "rolled_back", "needs_attention",
                                            "resolved"}}

\* Attend flags the bundle and every row that is not over, and the recovery is through with it.
LEMMA AttendActs ==
  ASSUME Typed, Attend
  PROVE  /\ rec.at = "attend" /\ UNCHANGED <<catalog, disk, lock, bounds>>
         /\ journal' = [f \in Files |-> IF f \in Flagged THEN "needs_attention" ELSE journal[f]]
         /\ Starts("rec", "idle", Flagged) /\ proc'["rec"].record = "absent"
         /\ bundle' = IF bundle \in Settled THEN bundle ELSE "needs_attention"
  <1>a. "rec" \in Procs
    BY DEF Procs
  <1>1. Becomes("rec", Idle, Flagged) => Starts("rec", "idle", Flagged) /\ proc'["rec"].record = "absent"
    BY <1>a, IdleMoves
  <1>2. /\ journal' = [f \in Files |-> IF f \in Flagged THEN "needs_attention" ELSE journal[f]]
        /\ Becomes("rec", Idle, Flagged)
    BY DEF Attend, Flagged
  <1> QED
    BY <1>1, <1>2 DEF Attend

\* An administrator closes the bundle.
Held == {f \in Files: journal[f] = "needs_attention"}

\* Resolve closes the bundle and the rows that were held for attention.
LEMMA ResolveActs ==
  ASSUME Typed, Resolve
  PROVE  /\ bundle = "needs_attention" /\ bundle' = "resolved"
         /\ UNCHANGED <<catalog, disk, lock, bounds>>
         /\ journal' = [f \in Files |-> IF journal[f] = "needs_attention" THEN "resolved" ELSE journal[f]]
         /\ \A q \in Procs: Keeps(q, Held)
  <1>1. \A q \in Procs: proc[q] \in Agents
    BY DEF Typed
  <1>2. \A q \in Procs: proc'[q] = [proc[q] EXCEPT !.fresh = @ \ Held]
    BY DEF Resolve, Held
  <1>3. \A q \in Procs: Keeps(q, Held)
    <2> HIDE DEF Held
    <2> QED
      BY ZenonT(60), <1>1, <1>2 DEF Keeps, Agents
  <1> QED
    BY <1>3 DEF Resolve

\* What goes wrong, but for the failures of a step.
LEMMA CrashActs ==
  ASSUME Typed, Crash
  PROVE  /\ \A p \in Procs:
              /\ Now(p, "idle", 0, [f \in Files |-> "none"], {}, FALSE, FALSE)
              /\ proc'[p].failed = {} /\ proc'[p].record = "absent"
         /\ lock' = "none" /\ threads' = {}
         /\ UNCHANGED <<bundle, journal, catalog, disk, policyMoved, crossed, stranded, calls>>
         /\ torn' = torn \union {proc[p].f: p \in {q \in Procs: proc[q].at = "undo_art" /\ proc[q].was}}
  BY DEF Crash, Now, Idle, store

\* A step of the publisher raises, or is cancelled; a thread may stage a file for it then.
Leaves == pub.at \in {"artwork", "stage"} /\ \E t \in Threads: t.file = pub.f /\ threads' = threads \union {t}

\* The publisher ends, rolls back or reads the bundle again.
LEMMA PublisherFailsActs ==
  ASSUME Typed, Stands, PublisherFails \/ StagingCancelled
  PROVE  /\ UNCHANGED <<bundle, journal, catalog, disk, booting, policyMoved, crossed, torn, stranded,
                        calls>>
         /\ UNCHANGED threads \/ (Leaves /\ PreparationFails)
         /\ \/ pub.at \in {"mark", "open", "lease"} /\ Starts("pub", "idle", {}) /\ UNCHANGED lock
            \/ pub.at \in Preparing /\ PreparationFails
            \/ pub.at \in Publishing \union {"enter"} /\ CriticalFails
            \/ pub.at \in Cleaning \union {"clean"} /\ Starts("pub", "idle", {}) /\ lock' = Released("pub")
  <1>a. "pub" \in Procs /\ pub = proc["pub"]
    BY DEF Procs, pub
  <1>1. GoesOn("pub", Idle) => Starts("pub", "idle", {})
    BY <1>a, IdleMoves DEF GoesOn
  <1>2. CASE PublisherFails
    BY <1>1, <1>2, PreparationFailsActs, CriticalFailsActs
    DEF PublisherFails, Preparing, Publishing, Cleaning, store, Unbounded
  <1>3. CASE StagingCancelled
    <2> DEFINE t == [call |-> calls, file |-> pub.f, slot |-> IF pub.at = "stage" THEN "temp" ELSE "artTemp"]
    <2>1. pub.at \in {"artwork", "stage"} /\ PreparationFails /\ threads' = threads \union {t}
      BY <1>3 DEF StagingCancelled
    <2>2. pub.f \in Files
      BY <1>a, <2>1 DEF Stands, Preparing
    <2>3. t \in Threads /\ t.file = pub.f
      BY <2>2 DEF Typed, Threads
    <2>4. Leaves
      <3> HIDE DEF t
      <3> QED
        BY <2>1, <2>3 DEF Leaves
    <2> QED
      BY <1>3, <2>1, <2>4, PreparationFailsActs DEF StagingCancelled, Preparing
  <1> QED
    BY <1>2, <1>3

\* A step of a rollback or of a cleanup fails.
LEMMA StepFailsActs ==
  ASSUME Typed, Stands, NEW p \in Procs, RestoreFails(p) \/ StoreFails(p) \/ CleanFails(p)
  PROVE  /\ UNCHANGED <<bundle, catalog, disk, booting, policyMoved, crossed, torn, threads, stranded,
                        calls>>
         /\ \/ /\ proc[p].at \in {"undo_dest", "undo_art", "undo_backup", "undo_temp"}
               /\ proc[p].f \in Files /\ CannotRestore(p) /\ UNCHANGED lock
            \/ /\ (proc[p].at \in {"roll", "escalate"} /\ lock = p) \/ proc[p].at \in {"undone", "finish"}
               /\ Drops(p) /\ lock' = Released(p) /\ UNCHANGED journal
            \/ /\ proc[p].at \in {"clean_source", "clean_old"} /\ proc[p].f \in Files
               /\ CannotClean(p) /\ UNCHANGED <<journal, lock>>
  <1>1. CASE RestoreFails(p)
    BY <1>1 DEF RestoreFails, Stands, Undoing, Unbounded
  <1>2. CASE StoreFails(p)
    BY <1>2, EndsActs DEF StoreFails, store, Unbounded
  <1>3. CASE CleanFails(p)
    BY <1>3 DEF CleanFails, Stands, CannotClean, store, Unbounded
  <1> QED
    BY <1>1, <1>2, <1>3

\* The world around the bundle changes, or a thread stages a file late.
World == MovePolicy \/ (\E f \in Files: Intrude(f) \/ Alter(f)) \/ \E t \in threads: StagedLate(t)

\* No process moves.
LEMMA WorldActs ==
  ASSUME Typed, World
  PROVE  /\ UNCHANGED <<bundle, journal, catalog, lock, proc, booting, crossed, torn, calls>>
         /\ threads' \subseteq threads /\ stranded \subseteq stranded'
         /\ \/ UNCHANGED disk
            \/ \E f \in Files: disk[f].dest = "absent" /\ Put(f, "dest", "foreign")
            \/ \E f \in Files: disk[f].source = "new" /\ Put(f, "source", "changed")
            \/ \E t \in threads:
                 /\ t.file \in Files /\ t.file \in stranded'
                 /\ Put(t.file, "temp", "new") \/ Put(t.file, "artTemp", TRUE)
  <1>1. CASE MovePolicy \/ \E f \in Files: Intrude(f) \/ Alter(f)
    BY <1>1 DEF MovePolicy, Intrude, Alter, store, Unbounded
  <1>2. ASSUME NEW t \in threads, StagedLate(t)
        PROVE  /\ UNCHANGED <<bundle, journal, catalog, lock, proc, booting, crossed, torn, calls>>
               /\ threads' \subseteq threads /\ stranded \subseteq stranded'
               /\ t.file \in Files /\ t.file \in stranded'
               /\ Put(t.file, "temp", "new") \/ Put(t.file, "artTemp", TRUE)
    <2>1. t.file \in Files /\ t.slot \in {"temp", "artTemp"}
      BY DEF Typed, Threads
    <2>2. Put(t.file, "temp", "new") \/ Put(t.file, "artTemp", TRUE)
      BY <1>2, <2>1 DEF StagedLate
    <2> QED
      BY <1>2, <2>1, <2>2 DEF StagedLate, store
  <1> QED
    BY <1>1, <1>2 DEF World
-----------------------------------------------------------------------------
(* The lease.                                                               *)

\* Where a process that has the lease works.
Holding == Publishing \union Undoing \union Cleaning
\* Who works on the files in the library has the lease, who has the lease works with it or is
\* about to, and nobody waits for a lease that nobody has.
Locked == \A p \in Procs:
  /\ proc[p].at \in Holding => lock = p
  /\ lock = p => proc[p].at \in Holding \union Waiting
  /\ proc[p].at \in Waiting => lock # "none"
\* Every process is where its step, its file and the lease let it be.
Placed == Stands /\ Locked

\* Where a process is after a step, and the other one where it was.
Spot(p, at, f) ==
  /\ proc'[p].at = at /\ proc'[p].f = f
  /\ proc'[Other(p)].at = proc[Other(p)].at /\ proc'[Other(p)].f = proc[Other(p)].f
\* The places where a process works on a file, and those the other process has for itself.
OnFile == Preparing \union Undoing \union {"boundary", "publish", "backed", "place", "place_art",
                                           "record", "clean_source", "clean_old"}
\* The steps that only the other process has.
Foreign(p) == IF p = "pub" THEN {"listed", "journals", "check", "attend"}
              ELSE {"mark", "open", "enter"} \union Preparing \union Publishing

\* The two processes, and the files they are at.
LEMMA TheTwo ==
  ASSUME Typed
  PROVE  /\ "pub" \in Procs /\ "rec" \in Procs /\ Other("pub") = "rec" /\ Other("rec") = "pub"
         /\ pub = proc["pub"] /\ rec = proc["rec"] /\ pub.f \in 0..Count /\ rec.f \in 0..Count
         /\ pub.at \in Places /\ rec.at \in Places
         /\ pub.view \in [Files -> JournalStates] /\ rec.view \in [Files -> JournalStates]
         /\ pub.fresh \in SUBSET Files /\ rec.fresh \in SUBSET Files
  BY AgentFields DEF Typed, Procs, Other, pub, rec

\* A move to a place of one's own, with a file where one is needed.
LEMMA StandsMoves ==
  ASSUME Stands, NEW p \in Procs, NEW at, NEW f, Spot(p, at, f),
         at \notin Foreign(p), at \in OnFile => f \in Files
  PROVE  Stands'
  <1>1. \A q \in Procs: q = p \/ q = Other(p)
    BY DEF Procs, Other
  <1> QED
    BY <1>1 DEF Stands, Spot, Foreign, OnFile, Procs, Other, pub, rec

\* What may become of the lease when a process moves.
LEMMA LockMoves ==
  ASSUME Typed, Locked, NEW p \in Procs, NEW at, NEW f, Spot(p, at, f)
  PROVE  /\ UNCHANGED lock /\ (IF lock = p THEN at \in Holding \union Waiting
                               ELSE at \notin Holding \union Waiting) => Locked'
         /\ lock' = Asked(p) /\ at \in Waiting => Locked'
         /\ lock' = Released(p) /\ at \notin Holding \union Waiting => Locked'
         /\ lock' = AskedAgain(p) /\ at \in Waiting => Locked'
  <1>1. /\ Other(p) \in Procs /\ Other(p) # p /\ \A q \in Procs: q = p \/ q = Other(p)
        /\ "none" \notin Procs /\ lock \in Procs \union {"none"}
    BY DEF Procs, Other, Typed
  <1>2. Holding \intersect Waiting = {}
    BY DEF Holding, Waiting, Publishing, Undoing, Cleaning
  <1> USE DEF Locked, Spot
  <1>3. ASSUME UNCHANGED lock, IF lock = p THEN at \in Holding \union Waiting
                               ELSE at \notin Holding \union Waiting PROVE Locked'
    BY <1>1, <1>3
  <1>4. ASSUME lock' = Asked(p), at \in Waiting PROVE Locked'
    BY <1>1, <1>2, <1>4 DEF Asked
  <1>5. ASSUME lock' = Released(p), at \notin Holding \union Waiting PROVE Locked'
    BY <1>1, <1>5 DEF Released
  <1>6. ASSUME lock' = AskedAgain(p), at \in Waiting PROVE Locked'
    BY <1>1, <1>2, <1>6 DEF AskedAgain, Asked
  <1> QED
    BY <1>3, <1>4, <1>5, <1>6

\* Both.
LEMMA PlacedMoves ==
  ASSUME Typed, Placed, NEW p \in Procs, NEW at, NEW f, Spot(p, at, f),
         at \notin Foreign(p), at \in OnFile => f \in Files,
         \/ UNCHANGED lock /\ lock = p /\ at \in Holding \union Waiting
         \/ UNCHANGED lock /\ lock # p /\ at \notin Holding \union Waiting
         \/ lock' = Asked(p) /\ at \in Waiting
         \/ lock' = Released(p) /\ at \notin Holding \union Waiting
         \/ lock' = AskedAgain(p) /\ at \in Waiting
  PROVE  Placed'
  BY StandsMoves, LockMoves DEF Placed

\* Where the moves lead.
LEMMA Spots ==
  ASSUME NEW p
  PROVE  /\ \A at, f, view, fresh, was, attention, w:
              Now(p, at, f, view, fresh, was, attention) /\ Keeps(Other(p), w) => Spot(p, at, f)
         /\ \A at: Goes(p, at) => Spot(p, at, proc[p].f)
         /\ \A at, f: GoesTo(p, at, f) => Spot(p, at, f)
         /\ \A at, w: Starts(p, at, w) => Spot(p, at, 0)
  BY DEF Now, Keeps, Goes, GoesTo, Starts, Spot

\* A publisher that is at one of its places has not the lease, or has it.
LEMMA PubLock ==
  ASSUME Typed, Placed
  PROVE  /\ pub.at \notin Holding \union Waiting => lock # "pub"
         /\ pub.at \in Holding => lock = "pub"
         /\ rec.at \notin Holding \union Waiting => lock # "rec"
         /\ rec.at \in Holding => lock = "rec"
         /\ pub.at \in OnFile => pub.f \in Files
         /\ rec.at \in OnFile => rec.f \in Files
  BY TheTwo DEF Placed, Locked, Stands, OnFile

\* An exception under the lease keeps the places.
LEMMA CriticalPlaced ==
  ASSUME Typed, Placed, CriticalFails
  PROVE  Placed'
  <1>t. /\ "pub" \in Procs /\ Other("pub") = "rec" /\ pub = proc["pub"]
        /\ \A at: Goes("pub", at) => Spot("pub", at, pub.f)
        /\ \A at, f, view, fresh, was, attention, w:
              Now("pub", at, f, view, fresh, was, attention) /\ Keeps("rec", w) => Spot("pub", at, f)
    BY TheTwo, Spots
  <1>1. CASE Goes("pub", "lease") /\ lock' = Released("pub")
    <2>1. Spot("pub", "lease", pub.f) /\ "lease" \notin Foreign("pub") /\ "lease" \notin OnFile
          /\ "lease" \notin Holding \union Waiting
      BY <1>1, <1>t DEF Foreign, OnFile, Holding, Waiting, Preparing, Publishing, Undoing, Cleaning
    <2> QED
      BY <1>1, <1>t, <2>1, PlacedMoves
  <1>2. CASE /\ Now("pub", "roll", Count, pub.view, pub.fresh, FALSE, pub.attention)
             /\ Keeps("rec", {}) /\ lock' = AskedAgain("pub")
    <2>1. Spot("pub", "roll", Count) /\ "roll" \notin Foreign("pub") /\ "roll" \notin OnFile
          /\ "roll" \in Waiting
      BY <1>2, <1>t DEF Foreign, OnFile, Holding, Waiting, Preparing, Publishing, Undoing, Cleaning
    <2> QED
      BY <1>2, <1>t, <2>1, PlacedMoves
  <1> QED
    BY <1>1, <1>2, CriticalFailsActs

\* So does a preparation that fails.
LEMMA PreparationFailsPlaced ==
  ASSUME Typed, Placed, PreparationFails, pub.at \in Preparing
  PROVE  Placed'
  <1> USE DEF OnFile, Foreign, Holding, Waiting, Preparing, Publishing, Undoing, Cleaning
  <1>t. /\ "pub" \in Procs /\ Other("pub") = "rec" /\ pub.f \in 0..Count
        /\ \A at, f, view, fresh, was, attention, w:
              Now("pub", at, f, view, fresh, was, attention) /\ Keeps("rec", w) => Spot("pub", at, f)
    BY TheTwo, Spots
  <1> QED
    BY <1>t, PreparationFailsActs, PubLock, PlacedMoves

\* What the publisher does before it has the lease keeps the places.
LEMMA PreparingPlaced ==
  ASSUME Typed, Placed,
         Call \/ Mark \/ Open \/ Plan \/ StageArtwork \/ Stage \/ Seal \/ Validate \/ Enter
  PROVE  Placed'
  <1> USE DEF OnFile, Foreign, Holding, Waiting, Preparing, Publishing, Undoing, Cleaning
  <1>t. Stands /\ "pub" \in Procs /\ Other("pub") = "rec" /\ pub = proc["pub"] /\ pub.f \in 0..Count
    BY TheTwo DEF Placed
  <1>s. /\ \A at, f, view, fresh, was, attention, w:
              Now("pub", at, f, view, fresh, was, attention) /\ Keeps("rec", w) => Spot("pub", at, f)
        /\ \A at: Goes("pub", at) => Spot("pub", at, pub.f)
        /\ \A at, f: GoesTo("pub", at, f) => Spot("pub", at, f)
        /\ \A at, w: Starts("pub", at, w) => Spot("pub", at, 0)
    BY <1>t, Spots
  <1>1. CASE Call
    BY <1>1, <1>t, <1>s, CallActs, PubLock, PlacedMoves
  <1>2. CASE Mark
    BY <1>2, <1>t, <1>s, MarkActs, PubLock, PlacedMoves
  <1>3. CASE Open
    BY <1>3, <1>t, <1>s, OpenActs, PubLock, PlacedMoves DEF Files
  <1>4. CASE StageArtwork \/ Stage
    <2>1. /\ pub.f \in Files /\ UNCHANGED lock
          /\ \/ pub.at = "artwork" /\ Goes("pub", "stage")
             \/ pub.at = "stage" /\ Goes("pub", "seal")
      BY <1>4, <1>t, StageActs
    <2> QED
      BY <2>1, <1>t, <1>s, PubLock, PlacedMoves
  <1>p. ASSUME PreparationFails, pub.at \in Preparing PROVE Placed'
    BY <1>p, PreparationFailsPlaced
  <1>5. CASE Plan
    <2>1. CASE Prepares(pub.view) /\ Keeps("rec", {}) /\ pub.at = "plan" /\ pub.f \in Files
      BY <2>1, <1>t, <1>s, PubLock, PlacedMoves DEF Prepares, Files
    <2> QED
      BY <1>5, <1>t, <1>s, <1>p, <2>1, PlanActs, PubLock, PlacedMoves
  <1>6. CASE Seal
    BY <1>6, <1>t, <1>s, <1>p, SealActs, PubLock, PlacedMoves
  <1>7. CASE Validate
    <2> DEFINE view == [pub.view EXCEPT ![pub.f] = "validated"]
    <2>1. pub.at = "validate" /\ pub.f \in Files
          /\ (PreparationFails \/ (Prepares(view) /\ Keeps("rec", {pub.f})))
      BY <1>7, <1>t, ValidateActs
    <2> HIDE DEF view
    <2> QED
      BY <2>1, <1>t, <1>s, <1>p, PubLock, PlacedMoves DEF Prepares, Files
  <1>8. CASE Enter
    <2> QED
      BY <1>8, <1>t, <1>s, CriticalPlaced, EnterActs, PubLock, PlacedMoves DEF Files
  <1> QED
    BY <1>1, <1>2, <1>3, <1>4, <1>5, <1>6, <1>7, <1>8

\* So does what it does under the lease.
LEMMA PublishingPlaced ==
  ASSUME Typed, Placed,
         Boundary \/ Recheck \/ Publish \/ Backed \/ Place \/ PlaceArtwork \/ RecordPublished \/ Commit
  PROVE  Placed'
  <1> USE DEF OnFile, Foreign, Holding, Waiting, Preparing, Publishing, Undoing, Cleaning
  <1>t. /\ Stands /\ "pub" \in Procs /\ Other("pub") = "rec" /\ pub = proc["pub"] /\ pub.f \in 0..Count
        /\ 1 \in Files
    BY TheTwo DEF Placed, Files
  <1>s. /\ \A at, f, view, fresh, was, attention, w:
              Now("pub", at, f, view, fresh, was, attention) /\ Keeps("rec", w) => Spot("pub", at, f)
        /\ \A at: Goes("pub", at) => Spot("pub", at, pub.f)
        /\ \A at, f: GoesTo("pub", at, f) => Spot("pub", at, f)
        /\ \A at, w: Starts("pub", at, w) => Spot("pub", at, 0)
    BY <1>t, Spots
  <1>c. ASSUME CriticalFails, pub.at \in Publishing PROVE Placed'
    BY <1>c, CriticalPlaced
  <1>n. ASSUME NEW loop \in {"boundary", "publish"}, NEW after \in {"recheck", "commit"},
               NEW view, NEW was, NEW w,
               Advances(loop, after, view, was), Keeps("rec", w), pub.f \in Files,
               pub.at \in Publishing, UNCHANGED lock
        PROVE  Placed'
    <2>1. lock = "pub"
      BY <1>n, PubLock
    <2>2. CASE pub.f < Count
      <3>1. pub.f + 1 \in Files
        BY <1>n, <2>2 DEF Files
      <3>2. Spot("pub", loop, pub.f + 1)
        BY <1>n, <2>2, <1>s DEF Advances, Files
      <3> QED
        BY <1>n, <1>t, <2>1, <3>1, <3>2, PlacedMoves
    <2>3. CASE ~(pub.f < Count)
      <3>1. Spot("pub", after, 1)
        BY <1>n, <2>3, <1>s DEF Advances, Files
      <3> QED
        BY <1>n, <1>t, <2>1, <3>1, PlacedMoves
    <2> QED
      BY <2>2, <2>3
  <1>1. CASE Boundary
    <2> DEFINE view == [pub.view EXCEPT ![pub.f] = "replacement_backed_up"]
    <2>1. /\ pub.at = "boundary" /\ pub.f \in Files
          /\ \/ CriticalFails
             \/ /\ UNCHANGED lock /\ Keeps("rec", {})
                /\ Now("pub", "place_art", pub.f, pub.view, pub.fresh, TRUE, pub.attention)
             \/ UNCHANGED lock /\ Advances("boundary", "recheck", view, pub.was) /\ Keeps("rec", {pub.f})
             \/ UNCHANGED lock /\ Advances("boundary", "recheck", pub.view, pub.was) /\ Keeps("rec", {})
      BY <1>1, <1>t, BoundaryActs
    <2> HIDE DEF view
    <2> QED
      BY <2>1, <1>t, <1>s, <1>c, <1>n, PubLock, PlacedMoves
  <1>2. CASE Recheck
    BY <1>2, <1>t, <1>s, <1>c, RecheckActs, PubLock, PlacedMoves
  <1>3. CASE Publish
    BY <1>3, <1>t, <1>s, <1>c, <1>n, PublishActs, PubLock, PlacedMoves
  <1>4. CASE Backed
    BY <1>4, <1>t, <1>s, <1>c, BackedActs, PubLock, PlacedMoves
  <1>5. CASE Place
    BY <1>5, <1>t, <1>s, <1>c, PlaceActs, PubLock, PlacedMoves
  <1>6. CASE PlaceArtwork
    BY <1>6, <1>t, <1>s, <1>c, PlaceArtworkActs, PubLock, PlacedMoves
  <1>7. CASE RecordPublished
    <2> DEFINE view == [pub.view EXCEPT ![pub.f] = "published"]
    <2>1. /\ pub.at = "record" /\ pub.f \in Files
          /\ \/ CriticalFails
             \/ /\ UNCHANGED lock /\ Keeps("rec", {pub.f})
                /\ \/ Advances("boundary", "recheck", view, FALSE)
                   \/ Advances("publish", "commit", view, pub.was)
      BY <1>7, <1>t, RecordActs
    <2> HIDE DEF view
    <2> QED
      BY <2>1, <1>t, <1>c, <1>n
  <1>8. CASE Commit
    BY <1>8, <1>t, <1>s, <1>c, CommitActs, PubLock, PlacedMoves
  <1> QED
    BY <1>1, <1>2, <1>3, <1>4, <1>5, <1>6, <1>7, <1>8

\* So do a rollback and a cleanup.
LEMMA RollingPlaced ==
  ASSUME Typed, Placed, NEW p \in Procs, Rolls(p) \/ Cleans(p)
  PROVE  Placed'
  <1> USE DEF OnFile, Foreign, Holding, Waiting, Preparing, Publishing, Undoing, Cleaning
  <1>t. /\ Stands /\ proc[p].f \in 0..Count
        /\ proc[p].at \in Holding => lock = p
        /\ proc[p].at \notin Holding \union Waiting => lock # p
    BY AgentFields DEF Placed, Locked, Typed
  <1>s. /\ \A at, f, view, fresh, was, attention, w:
              Now(p, at, f, view, fresh, was, attention) /\ Keeps(Other(p), w) => Spot(p, at, f)
        /\ \A at: Goes(p, at) => Spot(p, at, proc[p].f)
        /\ \A at, w: Starts(p, at, w) => Spot(p, at, 0)
    BY Spots
  <1>d. Drops(p) /\ proc[p].at \notin Holding \union Waiting /\ UNCHANGED lock => Placed'
    BY <1>t, <1>s, PlacedMoves DEF Drops, Procs
  <1>1. CASE Undo(p)
    <2> DEFINE view == [proc[p].view EXCEPT ![proc[p].f] = "rollback_pending"]
    <2>1. /\ lock = p /\ proc[p].f \in Files /\ UNCHANGED lock
          /\ \/ Spot(p, "roll", proc[p].f - 1)
             \/ Spot(p, "undo_dest", proc[p].f)
      <3>1. /\ lock = p /\ proc[p].f \in Files /\ UNCHANGED lock
            /\ \/ /\ Now(p, "roll", proc[p].f - 1, proc[p].view, proc[p].fresh, proc[p].was,
                         proc[p].attention)
                  /\ Keeps(Other(p), {})
               \/ /\ Now(p, "undo_dest", proc[p].f, proc[p].view, proc[p].fresh, Was(p),
                         proc[p].attention)
                  /\ Keeps(Other(p), {})
               \/ /\ Now(p, "undo_dest", proc[p].f, view, proc[p].fresh, Was(p), proc[p].attention)
                  /\ Keeps(Other(p), {proc[p].f})
               \/ /\ Now(p, "roll", proc[p].f - 1, proc[p].view, proc[p].fresh, proc[p].was, TRUE)
                  /\ Keeps(Other(p), {})
        BY <1>1, UndoActs
      <3> HIDE DEF view
      <3> QED
        BY <3>1, <1>s
    <2> QED
      BY <2>1, PlacedMoves DEF Procs
  <1>2. CASE UndoDest(p) \/ UndoArtwork(p) \/ UndoBackup(p) \/ UndoTemp(p)
    <2>1. CannotRestore(p) /\ proc[p].f \in Files => Spot(p, "roll", proc[p].f - 1)
      BY <1>s, CannotRestoreActs
    <2>2. /\ proc[p].at \in Undoing /\ proc[p].f \in Files /\ UNCHANGED lock
          /\ \/ Spot(p, "roll", proc[p].f - 1)
             \/ \E at \in {"undo_art", "undo_backup", "undo_temp", "undone"}: Spot(p, at, proc[p].f)
      BY <1>2, <1>t, <1>s, <2>1, RestoreActs
    <2> QED
      BY <1>t, <2>2, PlacedMoves DEF Procs
  <1>3. CASE Undone(p)
    <2>1. proc[p].at = "undone" /\ UNCHANGED lock /\ Spot(p, "roll", proc[p].f - 1)
      BY <1>3, <1>t, <1>s, UndoneActs DEF Passes
    <2> QED
      BY <1>t, <2>1, PlacedMoves DEF Procs
  <1>4. CASE RollEnds(p) \/ NothingToRoll(p)
    BY <1>4, <1>t, <1>s, RollEndsActs, PlacedMoves DEF Ends, Procs
  <1>5. CASE AskToClean(p)
    BY <1>5, <1>t, <1>s, <1>d, AskActs, PlacedMoves DEF Procs
  <1>f. ASSUME NEW view, NEW failed, NEW f, CleansFrom(p, view, failed, f), lock = p, UNCHANGED lock
        PROVE  Placed'
    <2>1. Spot(p, "escalate", 0) \/ \E n \in Files: Spot(p, "clean_source", n)
      BY <1>f, <1>s DEF CleansFrom
    <2> QED
      BY <1>f, <2>1, PlacedMoves DEF Procs
  <1>6. CASE Clean(p)
    BY <1>6, <1>f, CleanActs
  <1>7. CASE CleanSource(p) \/ CleanOld(p)
    <2>1. CannotClean(p) /\ proc[p].f \in Files
            => CleansFrom(p, proc[p].view, proc[p].failed \union {proc[p].f}, proc[p].f + 1)
      BY CannotCleanActs
    <2>2. /\ proc[p].at \in {"clean_source", "clean_old"} /\ UNCHANGED lock /\ proc[p].f \in Files
          /\ \/ Spot(p, "clean_old", proc[p].f)
             \/ \E view, failed, f: CleansFrom(p, view, failed, f)
      BY <1>7, <1>t, <1>s, <2>1, CleanFileActs
    <2> QED
      BY <2>2, <1>t, <1>f, PlacedMoves DEF Procs
  <1>8. CASE CleanEnds(p)
    BY <1>8, <1>t, <1>s, CleanEndsActs, PlacedMoves DEF Drops, Procs
  <1> QED
    BY <1>1, <1>2, <1>3, <1>4, <1>5, <1>6, <1>7, <1>8 DEF Rolls, Cleans

\* So do the recovery's other steps and an administrator.
LEMMA RecoveryPlaced ==
  ASSUME Typed, Placed, List \/ TakeUp \/ ReadJournals \/ Forget \/ Check \/ Attend \/ Resolve
  PROVE  Placed'
  <1> USE DEF OnFile, Foreign, Holding, Waiting, Preparing, Publishing, Undoing, Cleaning
  <1>t. Stands /\ "rec" \in Procs /\ Other("rec") = "pub" /\ rec = proc["rec"] /\ rec.f \in 0..Count
    BY TheTwo DEF Placed
  <1>s. /\ \A at, f, view, fresh, was, attention, w:
              Now("rec", at, f, view, fresh, was, attention) /\ Keeps("pub", w) => Spot("rec", at, f)
        /\ \A at: Goes("rec", at) => Spot("rec", at, rec.f)
        /\ \A at, w: Starts("rec", at, w) => Spot("rec", at, 0)
    BY <1>t, Spots
  <1>1. CASE List
    <2>1. CASE UNCHANGED proc
      BY <1>1, <2>1, ListActs DEF Placed, Stands, Locked, pub, rec
    <2> QED
      BY <1>1, <1>t, <1>s, <2>1, ListActs, PubLock, PlacedMoves
  <1>2. CASE TakeUp
    BY <1>2, <1>t, <1>s, TakeUpActs, PubLock, PlacedMoves
  <1>3. CASE ReadJournals
    BY <1>3, <1>t, <1>s, ReadJournalsActs, PubLock, PlacedMoves DEF Drops
  <1>4. CASE Forget \/ Check
    BY <1>4, <1>t, <1>s, ForgetActs, PubLock, PlacedMoves
  <1>5. CASE Attend
    BY <1>5, <1>t, <1>s, AttendActs, PubLock, PlacedMoves
  <1>6. CASE Resolve
    BY <1>6, ResolveActs DEF Placed, Stands, Locked, Keeps, Procs, pub, rec
  <1> QED
    BY <1>1, <1>2, <1>3, <1>4, <1>5, <1>6

\* So does what goes wrong.
LEMMA FaultPlaced ==
  ASSUME Typed, Placed, Fault
  PROVE  Placed'
  <1> USE DEF OnFile, Foreign, Holding, Waiting, Preparing, Publishing, Undoing, Cleaning
  <1>t. Stands /\ "pub" \in Procs /\ Other("pub") = "rec" /\ pub = proc["pub"] /\ pub.f \in 0..Count
    BY TheTwo DEF Placed
  <1>1. CASE PublisherFails \/ StagingCancelled
    <2>1. PreparationFails /\ pub.at \in Preparing => Placed'
      BY PreparationFailsPlaced
    <2>2. CASE CriticalFails /\ pub.at \in Publishing \union {"enter"}
      BY <2>2, CriticalPlaced
    <2>3. CASE Starts("pub", "idle", {}) /\ UNCHANGED lock /\ pub.at \in {"mark", "open", "lease"}
      BY <2>3, <1>t, Spots, PubLock, PlacedMoves
    <2>4. CASE Starts("pub", "idle", {}) /\ lock' = Released("pub")
      BY <2>4, <1>t, Spots, PlacedMoves
    <2> QED
      BY <1>1, <1>t, <2>1, <2>2, <2>3, <2>4, PublisherFailsActs
  <1>2. CASE Crash
    BY <1>2, CrashActs DEF Placed, Stands, Locked, Now, Procs, pub, rec
  <1>3. CASE World
    BY <1>3, WorldActs DEF Placed, Stands, Locked, pub, rec
  <1>4. ASSUME NEW p \in Procs, RestoreFails(p) \/ StoreFails(p) \/ CleanFails(p) PROVE Placed'
    <2>t. /\ proc[p].at \in Holding => lock = p
          /\ proc[p].at \notin Holding \union Waiting => lock # p
          /\ proc[p].f \in 0..Count
      BY AgentFields DEF Placed, Locked, Typed
    <2>s. /\ \A at, f, view, fresh, was, attention, w:
              Now(p, at, f, view, fresh, was, attention) /\ Keeps(Other(p), w) => Spot(p, at, f)
          /\ \A at, w: Starts(p, at, w) => Spot(p, at, 0)
      BY Spots
    <2>1. CASE /\ proc[p].at \in Undoing /\ proc[p].f \in Files /\ CannotRestore(p) /\ UNCHANGED lock
      <3>1. Spot(p, "roll", proc[p].f - 1)
        BY <2>1, <2>s, CannotRestoreActs
      <3> QED
        BY <2>1, <2>t, <3>1, PlacedMoves DEF Procs
    <2>2. CASE Drops(p) /\ lock' = Released(p)
      BY <2>2, <2>s, PlacedMoves DEF Drops, Procs
    <2>3. CASE /\ proc[p].at \in {"clean_source", "clean_old"} /\ proc[p].f \in Files
               /\ CannotClean(p) /\ UNCHANGED lock
      <3>1. Spot(p, "escalate", 0) \/ \E n \in Files: Spot(p, "clean_source", n)
        BY <2>3, <2>s, CannotCleanActs DEF CleansFrom
      <3> QED
        BY <2>3, <2>t, <3>1, PlacedMoves DEF Procs
    <2> QED
      BY <1>4, <1>t, <2>1, <2>2, <2>3, StepFailsActs
  <1> QED
    BY <1>1, <1>2, <1>3, <1>4 DEF Fault, World

\* Every step keeps the processes at their places and the lease with who works.
LEMMA StepPlaced == Typed /\ Placed /\ [Next]_vars => Placed'
  <1> SUFFICES ASSUME Typed, Placed, [Next]_vars PROVE Placed'
    OBVIOUS
  <1>1. CASE UNCHANGED vars
    BY <1>1 DEF vars, Placed, Stands, Locked, pub, rec
  <1>2. "pub" \in Procs /\ "rec" \in Procs
    BY DEF Procs
  <1> QED
    BY <1>1, <1>2, PreparingPlaced, PublishingPlaced, RollingPlaced, RecoveryPlaced, FaultPlaced
    DEF Next, PubStep, RecStep
-----------------------------------------------------------------------------
(* What one file sees of a step.                                            *)

\* A process after a step as file g sees it; what of it no step of it but a cleanup changes; and
\* a process that stays where it is, written being whether the other writes the row of g.
Seen(p, g, at, f, view, fresh, was, attention) ==
  /\ proc'[p].at = at /\ proc'[p].f = f /\ proc'[p].view[g] = view
  /\ (g \in proc'[p].fresh <=> fresh) /\ (proc'[p].was <=> was)
  /\ (proc'[p].attention <=> attention)
Rests(p, g) ==
  proc'[p].record = proc[p].record /\ (g \in proc'[p].failed <=> g \in proc[p].failed)
Left(p, g, written) ==
  /\ Seen(p, g, proc[p].at, proc[p].f, proc[p].view[g], g \in proc[p].fresh /\ ~written,
          proc[p].was, proc[p].attention)
  /\ Rests(p, g)
\* It goes somewhere; it begins anew; it goes somewhere and has written a row.
Walks(p, g, at, f, was, attention) ==
  /\ Seen(p, g, at, f, proc[p].view[g], g \in proc[p].fresh, was, attention)
  /\ Rests(p, g) /\ Left(Other(p), g, FALSE)
Anew(p, g, at, written) ==
  /\ Seen(p, g, at, 0, "none", FALSE, FALSE, FALSE)
  /\ g \notin proc'[p].failed /\ Left(Other(p), g, written)
Writes(p, g, state, at, f, was, attention) ==
  /\ journal'[g] = IF g = proc[p].f THEN state ELSE journal[g]
  /\ Seen(p, g, at, f, IF g = proc[p].f THEN state ELSE proc[p].view[g], g \in proc[p].fresh,
          was, attention)
  /\ Rests(p, g) /\ Left(Other(p), g, g = proc[p].f)
\* The paths of g, but for those in slots, are what they were.
SameBut(g, slots) ==
  /\ "source" \notin slots => disk'[g].source = disk[g].source
  /\ "temp" \notin slots => disk'[g].temp = disk[g].temp
  /\ "dest" \notin slots => disk'[g].dest = disk[g].dest
  /\ "backup" \notin slots => disk'[g].backup = disk[g].backup
  /\ "other" \notin slots => disk'[g].other = disk[g].other
  /\ "bin" \notin slots => disk'[g].bin = disk[g].bin
  /\ "artTemp" \notin slots => disk'[g].artTemp = disk[g].artTemp
  /\ "artDest" \notin slots => disk'[g].artDest = disk[g].artDest

\* What file g sees of the moves of a process.
LEMMA SeenMoves ==
  ASSUME Typed, NEW p \in Procs, NEW g \in Files
  PROVE  /\ \A at: Goes(p, at) => Walks(p, g, at, proc[p].f, proc[p].was, proc[p].attention)
         /\ \A at, f: GoesTo(p, at, f) => Walks(p, g, at, f, proc[p].was, proc[p].attention)
         /\ \A at, w: Starts(p, at, w) => Anew(p, g, at, g \in w)
         /\ \A at: Starts(p, at, {}) => Anew(p, g, at, FALSE)
         /\ \A at: Starts(p, at, Files) => Anew(p, g, at, TRUE)
  BY DEF Goes, GoesTo, Starts, Now, Steady, Keeps, Walks, Anew, Seen, Rests, Left

\* What file g sees when something is put on a path.
LEMMA SeenPuts ==
  ASSUME Typed, NEW f \in Files, NEW g \in Files, NEW what
  PROVE  /\ Put(f, "source", what) =>
              SameBut(g, {"source"}) /\ disk'[g].source = IF g = f THEN what ELSE disk[g].source
         /\ Put(f, "temp", what) =>
              SameBut(g, {"temp"}) /\ disk'[g].temp = IF g = f THEN what ELSE disk[g].temp
         /\ Put(f, "dest", what) =>
              SameBut(g, {"dest"}) /\ disk'[g].dest = IF g = f THEN what ELSE disk[g].dest
         /\ Put(f, "artTemp", what) =>
              SameBut(g, {"artTemp"}) /\ disk'[g].artTemp = IF g = f THEN what ELSE disk[g].artTemp
  BY DEF Put, SameBut, Typed, Paths

\* The preparation fails.
LEMMA PreparationFailsSees ==
  ASSUME Typed, NEW g \in Files, PreparationFails
  PROVE  /\ Rests("pub", g) /\ Left("rec", g, FALSE)
         /\ \/ Seen("pub", g, "roll", Count, IF g < pub.f THEN pub.view[g] ELSE journal[g],
                    g >= pub.f \/ g \in pub.fresh, pub.was, pub.attention)
            \/ /\ Seen("pub", g, "finish", Count, "none",
                       g >= pub.f \/ g \in pub.fresh, pub.was, pub.attention)
               /\ (IF g < pub.f THEN pub.view[g] ELSE journal[g]) = "none"
  BY TheTwo, PreparationFailsActs
  DEF Now, Steady, Keeps, Seen, Rests, Left, FailView, FailFresh

\* An exception under the lease.
LEMMA CriticalFailsSees ==
  ASSUME Typed, NEW g \in Files, CriticalFails
  PROVE  \/ /\ bundle \in Committed \union {"completed"} /\ lock' = Released("pub")
            /\ Walks("pub", g, "lease", pub.f, pub.was, pub.attention)
         \/ /\ bundle \notin Committed \union {"completed"} /\ lock' = AskedAgain("pub")
            /\ Walks("pub", g, "roll", Count, FALSE, pub.attention)
  <1>1. Goes("pub", "lease") => Walks("pub", g, "lease", pub.f, pub.was, pub.attention)
    BY TheTwo, SeenMoves
  <1>2. /\ Now("pub", "roll", Count, pub.view, pub.fresh, FALSE, pub.attention)
        /\ Steady("pub") /\ Keeps("rec", {})
        => Walks("pub", g, "roll", Count, FALSE, pub.attention)
    BY TheTwo DEF Now, Steady, Keeps, Walks, Seen, Rests, Left
  <1> QED
    BY <1>1, <1>2, CriticalFailsActs

\* The publisher begins.
LEMMA CallSees ==
  ASSUME Typed, NEW g \in Files, Call
  PROVE  \/ bundle' \in {"preparing", "rolled_back"} /\ Anew("pub", g, "mark", FALSE)
         \/ bundle = "publishing" /\ UNCHANGED bundle /\ Anew("pub", g, "open", FALSE)
         \/ bundle \in Committed /\ UNCHANGED bundle /\ Anew("pub", g, "lease", FALSE)
  BY TheTwo, SeenMoves, CallActs

\* It marks the bundle.
LEMMA MarkSees ==
  ASSUME Typed, NEW g \in Files, Mark
  PROVE  \/ /\ bundle = pub.record /\ bundle' = "publishing"
            /\ Walks("pub", g, "open", pub.f, pub.was, pub.attention)
         \/ bundle # pub.record /\ UNCHANGED bundle /\ Anew("pub", g, "idle", FALSE)
  BY TheTwo, SeenMoves, MarkActs

\* It reads the rows.
LEMMA OpenSees ==
  ASSUME Typed, NEW g \in Files, Open
  PROVE  \/ Anew("pub", g, "idle", FALSE)
         \/ /\ Seen("pub", g, "plan", 1, journal[g], journal[g] # "none", pub.was, pub.attention)
            /\ Rests("pub", g) /\ Left("rec", g, FALSE)
  <1>1. /\ Now("pub", "plan", 1, journal, {f \in Files: journal[f] # "none"}, pub.was, pub.attention)
        /\ Steady("pub") /\ Keeps("rec", {})
        => /\ Seen("pub", g, "plan", 1, journal[g], journal[g] # "none", pub.was, pub.attention)
           /\ Rests("pub", g) /\ Left("rec", g, FALSE)
    BY TheTwo DEF Now, Steady, Keeps, Seen, Rests, Left
  <1> QED
    BY <1>1, TheTwo, SeenMoves, OpenActs

\* One file more is prepared, and its row is a state.
GetsReady(g, state, written) ==
  /\ Rests("pub", g) /\ Left("rec", g, written /\ g = pub.f)
  /\ \/ /\ pub.f < Count /\ UNCHANGED lock
        /\ Seen("pub", g, "plan", pub.f + 1, state, g \in pub.fresh, pub.was, pub.attention)
     \/ /\ pub.f = Count /\ lock' = Asked("pub")
        /\ Seen("pub", g, "enter", pub.f, state, g \in pub.fresh, pub.was, pub.attention)

\* It looks at the row of a file.
LEMMA PlanSees ==
  ASSUME Typed, Stands, NEW g \in Files, Plan
  PROVE  \/ PreparationFails
         \/ /\ pub.view[pub.f] \in {"none", "rolled_back"} /\ UNCHANGED lock
            /\ journal'[g] = IF g = pub.f THEN "planned" ELSE journal[g]
            /\ Seen("pub", g, "plan", pub.f, IF g = pub.f THEN "planned" ELSE pub.view[g],
                    g \in pub.fresh \/ g = pub.f, pub.was, pub.attention)
            /\ Rests("pub", g) /\ Left("rec", g, g = pub.f)
         \/ /\ pub.view[pub.f] = "planned" /\ UNCHANGED <<journal, lock>>
            /\ \E at \in {"artwork", "stage"}: Walks("pub", g, at, pub.f, pub.was, pub.attention)
         \/ /\ pub.view[pub.f] = "staged" /\ UNCHANGED <<journal, lock>>
            /\ Walks("pub", g, "validate", pub.f, pub.was, pub.attention)
         \/ /\ pub.view[pub.f] \in {"validated", "replacement_backed_up", "published"}
            /\ GetsReady(g, pub.view[g], FALSE) /\ UNCHANGED journal
  <1>t. /\ "pub" \in Procs /\ "rec" \in Procs /\ Other("pub") = "rec" /\ pub = proc["pub"]
        /\ pub.f \in 0..Count /\ pub.view \in [Files -> JournalStates]
        /\ journal \in [Files -> JournalStates]
    BY TheTwo DEF Typed
  <1>f. pub.f \in Files /\ pub.f \in 1..Count
    BY PlanActs DEF Files
  <1>2. CASE /\ pub.view[pub.f] \in {"none", "rolled_back"} /\ UNCHANGED lock
             /\ journal' = [journal EXCEPT ![pub.f] = "planned"] /\ Steady("pub")
             /\ Keeps("rec", {pub.f})
             /\ \/ /\ Fresh("pub")
                   /\ Now("pub", "plan", pub.f, [pub.view EXCEPT ![pub.f] = "planned"], pub.fresh,
                          pub.was, pub.attention)
                \/ Now("pub", "plan", pub.f, [pub.view EXCEPT ![pub.f] = "planned"],
                       pub.fresh \union {pub.f}, pub.was, pub.attention)
    BY ZenonT(60), <1>t, <1>f, <1>2 DEF Now, Steady, Keeps, Seen, Rests, Left, Fresh
  <1>3. \A at: Goes("pub", at) => Walks("pub", g, at, pub.f, pub.was, pub.attention)
    BY <1>t, SeenMoves
  <1>4. CASE /\ pub.view[pub.f] \in {"validated", "replacement_backed_up", "published"}
             /\ Prepares(pub.view) /\ Keeps("rec", {}) /\ UNCHANGED journal
    <2>1. GetsReady(g, pub.view[g], FALSE)
      BY <1>t, <1>f, <1>4 DEF GetsReady, Prepares, Now, Steady, Keeps, Seen, Rests, Left
    <2> QED
      BY <1>4, <2>1
  <1> QED
    BY <1>2, <1>3, <1>4, PlanActs

\* It stages the artwork, then the file.
LEMMA StageSees ==
  ASSUME Typed, Stands, NEW g \in Files, StageArtwork \/ Stage
  PROVE  \/ /\ pub.at = "artwork" /\ SameBut(g, {"artTemp"})
            /\ disk'[g].artTemp = IF g = pub.f THEN TRUE ELSE disk[g].artTemp
            /\ Walks("pub", g, "stage", pub.f, pub.was, pub.attention)
         \/ /\ pub.at = "stage" /\ SameBut(g, {"temp"})
            /\ disk'[g].temp = IF g = pub.f THEN "new" ELSE disk[g].temp
            /\ Walks("pub", g, "seal", pub.f, pub.was, pub.attention)
  BY ZenonT(60), TheTwo, StageActs, SeenMoves, SeenPuts

\* It seals a staged file.
LEMMA SealSees ==
  ASSUME Typed, Stands, NEW g \in Files, Seal
  PROVE  \/ PreparationFails
         \/ /\ pub.f \in pub.fresh /\ UNCHANGED lock
            /\ Writes("pub", g, "staged", "validate", pub.f, pub.was, pub.attention)
  BY TheTwo, SealActs DEF Typed, Now, Steady, Keeps, Writes, Seen, Rests, Left, Fresh

\* It validates a sealed one.
LEMMA ValidateSees ==
  ASSUME Typed, Stands, NEW g \in Files, Validate
  PROVE  \/ PreparationFails
         \/ /\ pub.f \in pub.fresh /\ disk[pub.f].temp = "new"
            /\ journal'[g] = IF g = pub.f THEN "validated" ELSE journal[g]
            /\ GetsReady(g, IF g = pub.f THEN "validated" ELSE pub.view[g], TRUE)
  <1>1. /\ pub.f \in Files /\ pub.f \in 1..Count
        /\ \/ PreparationFails
           \/ /\ Fresh("pub") /\ disk[pub.f].temp = "new"
              /\ journal' = [journal EXCEPT ![pub.f] = "validated"]
              /\ Prepares([pub.view EXCEPT ![pub.f] = "validated"]) /\ Keeps("rec", {pub.f})
    BY ValidateActs DEF Files
  <1> QED
    BY TheTwo, <1>1
    DEF Typed, GetsReady, Prepares, Now, Steady, Keeps, Seen, Rests, Left, Fresh

\* It has the lease.
LEMMA EnterSees ==
  ASSUME Typed, NEW g \in Files, Enter
  PROVE  \/ CriticalFails
         \/ UNCHANGED lock /\ Walks("pub", g, "boundary", 1, pub.was, pub.attention)
  BY TheTwo, SeenMoves, EnterActs

\* The publisher goes on in a loop under the lease, and the row of a file is a state.
GetsOn(g, loop, after, state, was, written) ==
  /\ Rests("pub", g) /\ Left("rec", g, written /\ g = pub.f)
  /\ \/ /\ pub.f < Count
        /\ Seen("pub", g, loop, pub.f + 1, state, g \in pub.fresh, was, pub.attention)
     \/ /\ pub.f = Count
        /\ Seen("pub", g, after, 1, state, g \in pub.fresh, was, pub.attention)

\* It looks for a file that an earlier call moved but did not record.
LEMMA BoundarySees ==
  ASSUME Typed, Stands, NEW g \in Files, Boundary
  PROVE  \/ CriticalFails
         \/ /\ Moved(pub.f) /\ UNCHANGED <<journal, lock>>
            /\ Walks("pub", g, "place_art", pub.f, TRUE, pub.attention)
         \/ /\ Aside(pub.f) /\ pub.f \in pub.fresh /\ UNCHANGED lock
            /\ journal'[g] = IF g = pub.f THEN "replacement_backed_up" ELSE journal[g]
            /\ GetsOn(g, "boundary", "recheck",
                      IF g = pub.f THEN "replacement_backed_up" ELSE pub.view[g], pub.was, TRUE)
         \/ /\ ~Moved(pub.f) /\ ~Aside(pub.f) /\ UNCHANGED <<journal, lock>>
            /\ GetsOn(g, "boundary", "recheck", pub.view[g], pub.was, FALSE)
  <1>t. /\ "pub" \in Procs /\ "rec" \in Procs /\ Other("pub") = "rec" /\ pub = proc["pub"]
        /\ pub.view \in [Files -> JournalStates] /\ journal \in [Files -> JournalStates]
    BY TheTwo DEF Typed
  <1>f. pub.f \in Files /\ pub.f \in 1..Count
    BY BoundaryActs DEF Files
  <1>1. /\ Now("pub", "place_art", pub.f, pub.view, pub.fresh, TRUE, pub.attention)
        /\ Steady("pub") /\ Keeps("rec", {})
        => Walks("pub", g, "place_art", pub.f, TRUE, pub.attention)
    BY <1>t DEF Now, Steady, Keeps, Walks, Seen, Rests, Left
  <1>2. /\ journal' = [journal EXCEPT ![pub.f] = "replacement_backed_up"]
        /\ Advances("boundary", "recheck", [pub.view EXCEPT ![pub.f] = "replacement_backed_up"], pub.was)
        /\ Keeps("rec", {pub.f})
        => /\ journal'[g] = IF g = pub.f THEN "replacement_backed_up" ELSE journal[g]
           /\ GetsOn(g, "boundary", "recheck",
                     IF g = pub.f THEN "replacement_backed_up" ELSE pub.view[g], pub.was, TRUE)
    BY <1>t, <1>f DEF GetsOn, Advances, Now, Steady, Keeps, Seen, Rests, Left
  <1>3. Advances("boundary", "recheck", pub.view, pub.was) /\ Keeps("rec", {})
        => GetsOn(g, "boundary", "recheck", pub.view[g], pub.was, FALSE)
    BY <1>t, <1>f DEF GetsOn, Advances, Now, Steady, Keeps, Seen, Rests, Left
  <1> QED
    BY <1>1, <1>2, <1>3, BoundaryActs DEF Fresh, pub

\* It checks all files once more.
LEMMA RecheckSees ==
  ASSUME Typed, NEW g \in Files, Recheck
  PROVE  \/ CriticalFails /\ UNCHANGED disk
         \/ /\ Unchanged(g) /\ UNCHANGED lock
            /\ Walks("pub", g, "publish", 1, pub.was, pub.attention)
            /\ SameBut(g, {"artTemp"}) /\ (disk'[g].artTemp => disk[g].artTemp)
  <1>1. disk' = Rechecked => SameBut(g, {"artTemp"}) /\ (disk'[g].artTemp => disk[g].artTemp)
    <2> SUFFICES ASSUME disk' = Rechecked
                 PROVE  SameBut(g, {"artTemp"}) /\ (disk'[g].artTemp => disk[g].artTemp)
      OBVIOUS
    <2>1. disk[g] \in Paths
      BY DEF Typed
    <2>2. \/ disk'[g] = disk[g]
          \/ disk'[g] = [disk[g] EXCEPT !.artTemp = @ /\ g \notin Artwork]
      BY DEF Rechecked
    <2> QED
      BY <2>1, <2>2 DEF SameBut, Paths
  <1>2. GoesTo("pub", "publish", 1) => Walks("pub", g, "publish", 1, pub.was, pub.attention)
    BY TheTwo, SeenMoves
  <1> QED
    BY <1>1, <1>2, RecheckActs

\* It puts the old file aside.
LEMMA PublishSees ==
  ASSUME Typed, Stands, NEW g \in Files, Publish
  PROVE  \/ CriticalFails
         \/ /\ pub.view[pub.f] = "published" /\ UNCHANGED <<disk, lock>>
            /\ GetsOn(g, "publish", "commit", pub.view[g], pub.was, FALSE)
         \/ /\ pub.view[pub.f] = "validated" /\ pub.f \in SamePath /\ disk[pub.f].dest # "absent"
            /\ UNCHANGED lock /\ Walks("pub", g, "backed", pub.f, pub.was, pub.attention)
            /\ SameBut(g, {"backup", "dest"})
            /\ disk'[g].backup = IF g = pub.f THEN disk[g].dest ELSE disk[g].backup
            /\ disk'[g].dest = IF g = pub.f THEN "absent" ELSE disk[g].dest
         \/ /\ pub.view[pub.f] # "published" /\ (pub.view[pub.f] = "validated" => pub.f \notin SamePath)
            /\ UNCHANGED <<disk, lock>> /\ Walks("pub", g, "place", pub.f, pub.was, pub.attention)
  <1>t. /\ "pub" \in Procs /\ "rec" \in Procs /\ Other("pub") = "rec" /\ pub = proc["pub"]
        /\ disk \in [Files -> Paths]
    BY TheTwo DEF Typed
  <1>f. pub.f \in Files /\ pub.f \in 1..Count
    BY PublishActs DEF Files
  <1>1. Advances("publish", "commit", pub.view, pub.was) /\ Keeps("rec", {})
        => GetsOn(g, "publish", "commit", pub.view[g], pub.was, FALSE)
    BY <1>t, <1>f DEF GetsOn, Advances, Now, Steady, Keeps, Seen, Rests, Left
  <1>2. disk' = [disk EXCEPT ![pub.f].backup = disk[pub.f].dest, ![pub.f].dest = "absent"]
        => /\ SameBut(g, {"backup", "dest"})
           /\ disk'[g].backup = IF g = pub.f THEN disk[g].dest ELSE disk[g].backup
           /\ disk'[g].dest = IF g = pub.f THEN "absent" ELSE disk[g].dest
    BY <1>t, <1>f DEF SameBut, Paths
  <1>3. \A at: Goes("pub", at) => Walks("pub", g, at, pub.f, pub.was, pub.attention)
    BY <1>t, SeenMoves
  <1> QED
    BY <1>1, <1>2, <1>3, PublishActs

\* It records that.
LEMMA BackedSees ==
  ASSUME Typed, Stands, NEW g \in Files, Backed
  PROVE  \/ CriticalFails
         \/ /\ pub.f \in pub.fresh /\ UNCHANGED lock
            /\ Writes("pub", g, "replacement_backed_up", "place", pub.f, pub.was, pub.attention)
  BY TheTwo, BackedActs DEF Typed, Now, Steady, Keeps, Writes, Seen, Rests, Left, Fresh

\* It puts the new file in its place.
LEMMA PlaceSees ==
  ASSUME Typed, Stands, NEW g \in Files, Place
  PROVE  \/ CriticalFails
         \/ /\ disk[pub.f].dest = "absent" /\ UNCHANGED lock
            /\ Walks("pub", g, "place_art", pub.f, pub.was, pub.attention)
            /\ SameBut(g, {"dest", "temp"})
            /\ disk'[g].dest = IF g = pub.f THEN disk[g].temp ELSE disk[g].dest
            /\ disk'[g].temp = IF g = pub.f THEN "absent" ELSE disk[g].temp
  <1>1. pub.f \in Files /\ disk \in [Files -> Paths]
    BY PlaceActs DEF Typed
  <1>2. disk' = [disk EXCEPT ![pub.f].dest = disk[pub.f].temp, ![pub.f].temp = "absent"]
        => /\ SameBut(g, {"dest", "temp"})
           /\ disk'[g].dest = IF g = pub.f THEN disk[g].temp ELSE disk[g].dest
           /\ disk'[g].temp = IF g = pub.f THEN "absent" ELSE disk[g].temp
    BY <1>1 DEF SameBut, Paths
  <1>3. \A at: Goes("pub", at) => Walks("pub", g, at, pub.f, pub.was, pub.attention)
    BY TheTwo, SeenMoves
  <1> QED
    BY <1>2, <1>3, PlaceActs

\* It puts the artwork in its place.
LEMMA PlaceArtworkSees ==
  ASSUME Typed, Stands, NEW g \in Files, PlaceArtwork
  PROVE  \/ CriticalFails
         \/ /\ UNCHANGED lock /\ Walks("pub", g, "record", pub.f, pub.was, pub.attention)
            /\ SameBut(g, {"artDest", "artTemp"})
            /\ g # pub.f => UNCHANGED (disk[g])
            /\ g = pub.f => disk'[g].artDest = (g \in Artwork) /\ disk'[g].artTemp = FALSE
  <1>1. pub.f \in Files /\ disk \in [Files -> Paths]
    BY PlaceArtworkActs DEF Typed
  <1>2. disk' = [disk EXCEPT ![pub.f].artDest = pub.f \in Artwork, ![pub.f].artTemp = FALSE]
        => /\ SameBut(g, {"artDest", "artTemp"})
           /\ g # pub.f => UNCHANGED (disk[g])
           /\ g = pub.f => disk'[g].artDest = (g \in Artwork) /\ disk'[g].artTemp = FALSE
    BY <1>1 DEF SameBut, Paths
  <1>3. \A at: Goes("pub", at) => Walks("pub", g, at, pub.f, pub.was, pub.attention)
    BY TheTwo, SeenMoves
  <1> QED
    BY <1>2, <1>3, PlaceArtworkActs

\* It records the file as published.
LEMMA RecordSees ==
  ASSUME Typed, Stands, NEW g \in Files, RecordPublished
  PROVE  \/ CriticalFails
         \/ /\ pub.f \in pub.fresh /\ UNCHANGED lock
            /\ journal'[g] = IF g = pub.f THEN "published" ELSE journal[g]
            /\ \/ /\ pub.was
                  /\ GetsOn(g, "boundary", "recheck",
                            IF g = pub.f THEN "published" ELSE pub.view[g], FALSE, TRUE)
               \/ /\ ~pub.was
                  /\ GetsOn(g, "publish", "commit",
                            IF g = pub.f THEN "published" ELSE pub.view[g], FALSE, TRUE)
  <1>t. /\ "pub" \in Procs /\ "rec" \in Procs /\ Other("pub") = "rec" /\ pub = proc["pub"]
        /\ pub.view \in [Files -> JournalStates] /\ journal \in [Files -> JournalStates]
        /\ pub.was \in BOOLEAN
    BY TheTwo, AgentFields DEF Typed
  <1>f. pub.f \in Files /\ pub.f \in 1..Count
    BY RecordActs DEF Files
  <1>1. journal' = [journal EXCEPT ![pub.f] = "published"]
        => journal'[g] = IF g = pub.f THEN "published" ELSE journal[g]
    BY <1>t, <1>f
  <1>2. ASSUME NEW loop, NEW after, Keeps("rec", {pub.f}),
               \/ Advances(loop, after, [pub.view EXCEPT ![pub.f] = "published"], FALSE)
               \/ ~pub.was /\ Advances(loop, after, [pub.view EXCEPT ![pub.f] = "published"], pub.was)
        PROVE  GetsOn(g, loop, after, IF g = pub.f THEN "published" ELSE pub.view[g], FALSE, TRUE)
    BY <1>t, <1>f, <1>2 DEF GetsOn, Advances, Now, Steady, Keeps, Seen, Rests, Left
  <1> QED
    BY <1>t, <1>1, <1>2, RecordActs DEF Fresh

\* The catalog adopts the files.
LEMMA CommitSees ==
  ASSUME Typed, NEW g \in Files, Commit
  PROVE  \/ CriticalFails
         \/ /\ journal[g] = "published" /\ bundle = "publishing"
            /\ bundle' = "catalog_committed" /\ catalog' = TRUE /\ journal'[g] = "catalog_committed"
            /\ lock' = Released("pub") /\ Anew("pub", g, "lease", TRUE)
  BY TheTwo, SeenMoves, CommitActs

\* A rollback comes to a file.
LEMMA UndoSees ==
  ASSUME Typed, NEW p \in Procs, NEW g \in Files, Undo(p)
  PROVE  \/ /\ proc[p].view[proc[p].f] \notin Undoable /\ UNCHANGED journal
            /\ Walks(p, g, "roll", proc[p].f - 1, proc[p].was, proc[p].attention)
         \/ /\ proc[p].view[proc[p].f] = "rollback_pending" /\ UNCHANGED journal
            /\ Walks(p, g, "undo_dest", proc[p].f, Was(p), proc[p].attention)
         \/ /\ proc[p].view[proc[p].f] \in Undoable \ {"rollback_pending"}
            /\ proc[p].f \in proc[p].fresh
            /\ Writes(p, g, "rollback_pending", "undo_dest", proc[p].f, Was(p), proc[p].attention)
         \/ /\ proc[p].view[proc[p].f] \in Undoable \ {"rollback_pending"}
            /\ proc[p].f \notin proc[p].fresh /\ UNCHANGED journal
            /\ Walks(p, g, "roll", proc[p].f - 1, proc[p].was, TRUE)
  <1>t. /\ proc[p].view \in [Files -> JournalStates] /\ journal \in [Files -> JournalStates]
        /\ proc[p].f \in Files
    BY UndoActs, AgentFields DEF Typed
  <1>1. ASSUME NEW at, NEW f, NEW was, NEW attention,
               Now(p, at, f, proc[p].view, proc[p].fresh, was, attention), Steady(p),
               Keeps(Other(p), {})
        PROVE  Walks(p, g, at, f, was, attention)
    BY <1>1 DEF Now, Steady, Keeps, Walks, Seen, Rests, Left
  <1>2. ASSUME journal' = [journal EXCEPT ![proc[p].f] = "rollback_pending"], Steady(p),
               Keeps(Other(p), {proc[p].f}),
               Now(p, "undo_dest", proc[p].f,
                   [proc[p].view EXCEPT ![proc[p].f] = "rollback_pending"], proc[p].fresh, Was(p),
                   proc[p].attention)
        PROVE  Writes(p, g, "rollback_pending", "undo_dest", proc[p].f, Was(p), proc[p].attention)
    BY <1>2, <1>t DEF Now, Steady, Keeps, Writes, Seen, Rests, Left
  <1> QED
    BY <1>1, <1>2, UndoActs DEF Fresh

\* A file that cannot be restored is passed over.
LEMMA CannotRestoreSees ==
  ASSUME Typed, NEW p \in Procs, proc[p].f \in Files, NEW g \in Files, CannotRestore(p)
  PROVE  /\ Seen(p, g, "roll", proc[p].f - 1, proc[p].view[g], g \in proc[p].fresh, FALSE, TRUE)
         /\ Rests(p, g)
         /\ \/ /\ proc[p].f \in proc[p].fresh /\ Left(Other(p), g, g = proc[p].f)
               /\ journal'[g] = IF g = proc[p].f THEN "needs_attention" ELSE journal[g]
            \/ proc[p].f \notin proc[p].fresh /\ UNCHANGED journal /\ Left(Other(p), g, FALSE)
  <1>t. journal \in [Files -> JournalStates]
    BY DEF Typed
  <1>1. /\ Now(p, "roll", proc[p].f - 1, proc[p].view, proc[p].fresh, FALSE, TRUE) /\ Steady(p)
        => /\ Seen(p, g, "roll", proc[p].f - 1, proc[p].view[g], g \in proc[p].fresh, FALSE, TRUE)
           /\ Rests(p, g)
    BY DEF Now, Steady, Seen, Rests
  <1>2. /\ Keeps(Other(p), {proc[p].f}) => Left(Other(p), g, g = proc[p].f)
        /\ Keeps(Other(p), {}) => Left(Other(p), g, FALSE)
    BY DEF Keeps, Seen, Rests, Left
  <1> QED
    BY <1>t, <1>1, <1>2, CannotRestoreActs DEF Fresh

\* It restores the paths of a file.
LEMMA RestoreSees ==
  ASSUME Typed, Stands, NEW p \in Procs, NEW g \in Files,
         UndoDest(p) \/ UndoArtwork(p) \/ UndoBackup(p) \/ UndoTemp(p)
  PROVE  \/ proc[p].at \in {"undo_dest", "undo_art"} /\ CannotRestore(p) /\ UNCHANGED disk
         \/ /\ proc[p].at = "undo_dest" /\ UNCHANGED journal
            /\ Walks(p, g, "undo_art", proc[p].f, proc[p].was, proc[p].attention)
            /\ \/ ~proc[p].was /\ UNCHANGED disk
               \/ /\ proc[p].was /\ disk[proc[p].f].dest \in {"absent", "new"} /\ SameBut(g, {"dest"})
                  /\ disk'[g].dest = IF g = proc[p].f THEN "absent" ELSE disk[g].dest
         \/ /\ proc[p].at = "undo_art" /\ UNCHANGED journal
            /\ Walks(p, g, "undo_backup", proc[p].f, proc[p].was, proc[p].attention)
            /\ SameBut(g, {"artDest", "artTemp"})
            /\ g # proc[p].f => UNCHANGED (disk[g])
            /\ g = proc[p].f => /\ (disk'[g].artDest <=> disk[g].artDest /\ ~proc[p].was)
                                /\ disk'[g].artTemp = FALSE
         \/ /\ proc[p].at = "undo_backup" /\ UNCHANGED journal
            /\ Walks(p, g, "undo_temp", proc[p].f, proc[p].was, proc[p].attention)
            /\ SameBut(g, {"dest", "backup"})
            /\ disk'[g].dest = IF g = proc[p].f /\ disk[g].backup = "old" THEN "old" ELSE disk[g].dest
            /\ disk'[g].backup = IF g = proc[p].f /\ disk[g].backup = "old" THEN "absent"
                                 ELSE disk[g].backup
         \/ /\ proc[p].at = "undo_temp" /\ UNCHANGED journal
            /\ Walks(p, g, "undone", proc[p].f, proc[p].was, proc[p].attention)
            /\ SameBut(g, {"temp"})
            /\ disk'[g].temp = IF g = proc[p].f THEN "absent" ELSE disk[g].temp
  <1>t. disk \in [Files -> Paths] /\ proc[p].f \in Files /\ proc[p].was \in BOOLEAN
    BY RestoreActs, AgentFields DEF Typed
  <1>1. \A at: Goes(p, at) => Walks(p, g, at, proc[p].f, proc[p].was, proc[p].attention)
    BY SeenMoves
  <1>2. disk' = [disk EXCEPT ![proc[p].f].artDest = @ /\ ~proc[p].was, ![proc[p].f].artTemp = FALSE]
        => /\ SameBut(g, {"artDest", "artTemp"})
           /\ g # proc[p].f => UNCHANGED (disk[g])
           /\ g = proc[p].f => /\ (disk'[g].artDest <=> disk[g].artDest /\ ~proc[p].was)
                               /\ disk'[g].artTemp = FALSE
    BY <1>t DEF SameBut, Paths
  <1>3. disk' = (IF disk[proc[p].f].backup = "old"
                 THEN [disk EXCEPT ![proc[p].f].dest = "old", ![proc[p].f].backup = "absent"]
                 ELSE disk)
        => /\ SameBut(g, {"dest", "backup"})
           /\ disk'[g].dest = IF g = proc[p].f /\ disk[g].backup = "old" THEN "old" ELSE disk[g].dest
           /\ disk'[g].backup = IF g = proc[p].f /\ disk[g].backup = "old" THEN "absent"
                                ELSE disk[g].backup
    BY <1>t DEF SameBut, Paths
  <1>4. /\ \A what: Put(proc[p].f, "dest", what) =>
             SameBut(g, {"dest"}) /\ disk'[g].dest = IF g = proc[p].f THEN what ELSE disk[g].dest
        /\ \A what: Put(proc[p].f, "temp", what) =>
             SameBut(g, {"temp"}) /\ disk'[g].temp = IF g = proc[p].f THEN what ELSE disk[g].temp
    BY <1>t, SeenPuts
  <1> QED
    BY ZenonT(60), <1>1, <1>2, <1>3, <1>4, RestoreActs

\* It records a file as rolled back.
LEMMA UndoneSees ==
  ASSUME Typed, Stands, NEW p \in Procs, NEW g \in Files, Undone(p)
  PROVE  \/ /\ proc[p].f \in proc[p].fresh
            /\ Writes(p, g, "rolled_back", "roll", proc[p].f - 1, FALSE, proc[p].attention)
         \/ /\ proc[p].f \notin proc[p].fresh /\ UNCHANGED journal
            /\ Walks(p, g, "roll", proc[p].f - 1, proc[p].was, TRUE)
  <1>t. /\ proc[p].view \in [Files -> JournalStates] /\ journal \in [Files -> JournalStates]
        /\ proc[p].f \in Files
    BY UndoneActs, AgentFields DEF Typed
  <1>1. /\ journal' = [journal EXCEPT ![proc[p].f] = "rolled_back"] /\ Steady(p)
        /\ Now(p, "roll", proc[p].f - 1, [proc[p].view EXCEPT ![proc[p].f] = "rolled_back"],
               proc[p].fresh, FALSE, proc[p].attention)
        /\ Keeps(Other(p), {proc[p].f})
        => Writes(p, g, "rolled_back", "roll", proc[p].f - 1, FALSE, proc[p].attention)
    BY <1>t DEF Now, Steady, Keeps, Writes, Seen, Rests, Left
  <1>2. Passes(p) => Walks(p, g, "roll", proc[p].f - 1, proc[p].was, TRUE)
    BY DEF Passes, Now, Steady, Keeps, Walks, Seen, Rests, Left
  <1> QED
    BY <1>1, <1>2, UndoneActs DEF Fresh

\* A rollback ends, or there is nothing to roll back.
LEMMA RollEndsSees ==
  ASSUME Typed, NEW p \in Procs, NEW g \in Files, RollEnds(p) \/ NothingToRoll(p)
  PROVE  Anew(p, g, IF p = "pub" THEN "idle" ELSE "check", FALSE) /\ proc'[p].record = "absent"
  BY RollEndsActs, SeenMoves DEF Ends

\* A process that raises drops what it did.
LEMMA DropsSees ==
  ASSUME Typed, NEW p \in Procs, NEW g \in Files, Drops(p)
  PROVE  Anew(p, g, IF p = "pub" THEN "idle" ELSE "attend", FALSE) /\ proc'[p].record = "absent"
  BY SeenMoves DEF Drops

\* A cleanup that has this row and this failure goes on from file f.
Sweeps(p, g, view, failed, f) ==
  /\ proc'[p].record = proc[p].record /\ (g \in proc'[p].failed <=> failed) /\ Left(Other(p), g, FALSE)
  /\ \/ /\ g >= f => view \in {"none", "completed"}
        /\ Seen(p, g, "escalate", 0, view, g \in proc[p].fresh, proc[p].was, proc[p].attention)
     \/ \E n \in Files:
          /\ n >= f /\ (g >= f /\ g < n => view \in {"none", "completed"})
          /\ Seen(p, g, "clean_source", n, view, g \in proc[p].fresh, proc[p].was, proc[p].attention)

\* A cleanup that goes on.
LEMMA SweepsSees ==
  ASSUME Typed, NEW p \in Procs, NEW g \in Files, NEW view, NEW failed, NEW f,
         CleansFrom(p, view, failed, f)
  PROVE  Sweeps(p, g, view[g], g \in failed, f)
  <1>1. /\ proc'[p].record = proc[p].record /\ (g \in proc'[p].failed <=> g \in failed)
        /\ Left(Other(p), g, FALSE)
    BY DEF CleansFrom, Keeps, Seen, Rests, Left
  <1>2. ASSUME NEW at, NEW n, Now(p, at, n, view, proc[p].fresh, proc[p].was, proc[p].attention)
        PROVE  Seen(p, g, at, n, view[g], g \in proc[p].fresh, proc[p].was, proc[p].attention)
    BY <1>2 DEF Now, Seen
  <1> QED
    BY <1>1, <1>2 DEF CleansFrom, Sweeps

\* A cleanup asks for the lease and begins.
LEMMA CleanSees ==
  ASSUME Typed, NEW p \in Procs, NEW g \in Files
  PROVE  /\ AskToClean(p) =>
              \/ UNCHANGED lock /\ Drops(p)
              \/ lock' = Asked(p) /\ Walks(p, g, "clean", proc[p].f, proc[p].was, proc[p].attention)
         /\ Clean(p) => Sweeps(p, g, journal[g], g \in proc[p].failed, 1)
  BY SeenMoves, SweepsSees, AskActs, CleanActs

\* It passes a file over.
LEMMA CannotCleanSees ==
  ASSUME Typed, NEW p \in Procs, proc[p].f \in Files, NEW g \in Files, CannotClean(p)
  PROVE  /\ UNCHANGED disk
         /\ Sweeps(p, g, proc[p].view[g], g \in proc[p].failed \/ g = proc[p].f, proc[p].f + 1)
  <1>1. Sweeps(p, g, proc[p].view[g], g \in proc[p].failed \union {proc[p].f}, proc[p].f + 1)
    BY SweepsSees, CannotCleanActs
  <1> QED
    BY <1>1, CannotCleanActs DEF Sweeps

\* It removes the source of a file and puts the old file into the bin.
LEMMA CleanFileSees ==
  ASSUME Typed, Stands, NEW p \in Procs, NEW g \in Files, CleanSource(p) \/ CleanOld(p)
  PROVE  \/ proc[p].at = "clean_source" /\ CannotClean(p)
         \/ /\ proc[p].at = "clean_source" /\ SameBut(g, {"source"})
            /\ disk'[g].source = IF g = proc[p].f THEN "absent" ELSE disk[g].source
            /\ Walks(p, g, "clean_old", proc[p].f, proc[p].was, proc[p].attention)
         \/ /\ proc[p].at = "clean_old" /\ SameBut(g, {"backup", "other", "bin"})
            /\ g # proc[p].f => UNCHANGED (disk[g])
            /\ g = proc[p].f =>
                 /\ disk'[g].backup = IF disk[g].backup = "old" THEN "absent" ELSE disk[g].backup
                 /\ disk'[g].other = IF disk[g].backup # "old" THEN "absent" ELSE disk[g].other
                 /\ disk'[g].bin = IF disk[g].backup = "old" \/ disk[g].other = "old" THEN "old"
                                   ELSE disk[g].bin
            /\ Sweeps(p, g, proc[p].view[g], g \in proc[p].failed, proc[p].f + 1)
  <1>t. disk \in [Files -> Paths] /\ proc[p].f \in Files
    BY CleanFileActs DEF Typed
  <1>1. Goes(p, "clean_old") => Walks(p, g, "clean_old", proc[p].f, proc[p].was, proc[p].attention)
    BY SeenMoves
  <1>2. Put(proc[p].f, "source", "absent")
        => /\ SameBut(g, {"source"})
           /\ disk'[g].source = IF g = proc[p].f THEN "absent" ELSE disk[g].source
    BY <1>t, SeenPuts
  <1>3. disk' = (IF disk[proc[p].f].backup = "old"
                 THEN [disk EXCEPT ![proc[p].f].backup = "absent", ![proc[p].f].bin = "old"]
                 ELSE IF disk[proc[p].f].other = "old"
                 THEN [disk EXCEPT ![proc[p].f].other = "absent", ![proc[p].f].bin = "old"]
                 ELSE disk)
        => /\ SameBut(g, {"backup", "other", "bin"})
           /\ g # proc[p].f => UNCHANGED (disk[g])
           /\ g = proc[p].f =>
                 /\ disk'[g].backup = IF disk[g].backup = "old" THEN "absent" ELSE disk[g].backup
                 /\ disk'[g].other = IF disk[g].backup # "old" THEN "absent" ELSE disk[g].other
                 /\ disk'[g].bin = IF disk[g].backup = "old" \/ disk[g].other = "old" THEN "old"
                                   ELSE disk[g].bin
    BY <1>t DEF SameBut, Paths
  <1>4. CleansFrom(p, proc[p].view, proc[p].failed, proc[p].f + 1)
        => Sweeps(p, g, proc[p].view[g], g \in proc[p].failed, proc[p].f + 1)
    BY SweepsSees
  <1> QED
    BY <1>1, <1>2, <1>3, <1>4, CleanFileActs

\* A cleanup ends.
LEMMA CleanEndsSees ==
  ASSUME Typed, NEW p \in Procs, NEW g \in Files, CleanEnds(p)
  PROVE  \/ /\ bundle \in Committed /\ Anew(p, g, "idle", TRUE) /\ proc'[p].record = "absent"
            /\ journal'[g] = IF journal[g] \notin Committed THEN journal[g]
                             ELSE IF g \in proc[p].failed THEN "cleanup_pending" ELSE "completed"
            /\ \/ g \notin proc[p].failed /\ bundle' = "completed"
               \/ bundle' \in {"cleanup_pending", "needs_attention"}
         \/ bundle \notin Committed /\ Drops(p) /\ UNCHANGED <<bundle, journal>>
  BY SeenMoves, CleanEndsActs

\* The recovery lists the bundle.
LEMMA ListSees ==
  ASSUME Typed, NEW g \in Files, List
  PROVE  \/ /\ bundle \in Recoverable /\ Anew("rec", g, "listed", FALSE)
            /\ proc'["rec"].record = bundle
         \/ UNCHANGED proc
  BY TheTwo, SeenMoves, ListActs

\* It takes it up unless the publisher is at work.
LEMMA TakeUpSees ==
  ASSUME Typed, NEW g \in Files, TakeUp
  PROVE  \/ Anew("rec", g, "idle", FALSE) /\ proc'["rec"].record = "absent"
         \/ /\ pub.at = "idle" /\ rec.record \in Committed
            /\ Walks("rec", g, "lease", rec.f, rec.was, rec.attention)
         \/ /\ pub.at = "idle" /\ rec.record \notin Committed
            /\ Walks("rec", g, "journals", rec.f, rec.was, rec.attention)
  BY TheTwo, SeenMoves, TakeUpActs

\* It reads the rows.
LEMMA ReadJournalsSees ==
  ASSUME Typed, NEW g \in Files, ReadJournals
  PROVE  \/ /\ journal[g] = "none" /\ UNCHANGED lock
            /\ Walks("rec", g, "finish", rec.f, rec.was, rec.attention)
         \/ /\ rec.record = "publishing" /\ lock' = Asked("rec")
            /\ Seen("rec", g, "roll", Count, journal[g], journal[g] # "none", rec.was, rec.attention)
            /\ Rests("rec", g) /\ Left("pub", g, FALSE)
         \/ Drops("rec") /\ UNCHANGED lock
  <1>1. /\ Now("rec", "roll", Count, journal, Begun, rec.was, rec.attention)
        /\ Steady("rec") /\ Keeps("pub", {})
        => /\ Seen("rec", g, "roll", Count, journal[g], journal[g] # "none", rec.was, rec.attention)
           /\ Rests("rec", g) /\ Left("pub", g, FALSE)
    BY TheTwo DEF Now, Steady, Keeps, Seen, Rests, Left, Begun
  <1>2. Begun = {} => journal[g] = "none"
    BY DEF Begun
  <1>3. Goes("rec", "finish") => Walks("rec", g, "finish", rec.f, rec.was, rec.attention)
    BY TheTwo, SeenMoves
  <1> QED
    BY <1>1, <1>2, <1>3, ReadJournalsActs

\* It forgets a bundle that was never marked; it looks at the bundle again.
LEMMA ForgetSees ==
  ASSUME Typed, NEW g \in Files, Forget \/ Check
  PROVE  \E at \in {"idle", "attend"}: Anew("rec", g, at, FALSE)
  BY TheTwo, SeenMoves, ForgetActs

\* It flags the bundle and the rows that are not over.
LEMMA AttendSees ==
  ASSUME Typed, NEW g \in Files, Attend
  PROVE  /\ Anew("rec", g, "idle", g \in Flagged)
         /\ journal'[g] = IF g \in Flagged THEN "needs_attention" ELSE journal[g]
  BY TheTwo, SeenMoves, AttendActs

\* An administrator closes the bundle.
LEMMA ResolveSees ==
  ASSUME Typed, NEW g \in Files, Resolve
  PROVE  /\ Left("pub", g, journal[g] = "needs_attention")
         /\ Left("rec", g, journal[g] = "needs_attention")
         /\ journal'[g] = IF journal[g] = "needs_attention" THEN "resolved" ELSE journal[g]
  BY TheTwo, ResolveActs DEF Held, Keeps, Left, Seen, Rests

\* The process ends.
LEMMA CrashSees ==
  ASSUME Typed, NEW p \in Procs, NEW g \in Files, Crash
  PROVE  /\ Seen(p, g, "idle", 0, "none", FALSE, FALSE, FALSE) /\ g \notin proc'[p].failed
         /\ proc'[p].record = "absent"
  BY ZenonT(60), CrashActs DEF Now, Seen

\* The world around the bundle changes, or a thread stages the file late.
LEMMA WorldSees ==
  ASSUME Typed, NEW g \in Files, World
  PROVE  \/ UNCHANGED disk
         \/ /\ SameBut(g, {"dest"})
            /\ \/ disk'[g].dest = disk[g].dest
               \/ disk[g].dest = "absent" /\ disk'[g].dest = "foreign"
         \/ /\ SameBut(g, {"source"})
            /\ \/ disk'[g].source = disk[g].source
               \/ disk[g].source = "new" /\ disk'[g].source = "changed"
         \/ /\ g \in stranded' /\ \E t \in threads: t.file = g
            /\ \/ SameBut(g, {"temp"}) /\ disk'[g].temp = "new"
               \/ SameBut(g, {"artTemp"}) /\ disk'[g].artTemp = TRUE
  <1>1. ASSUME NEW f \in Files, Put(f, "temp", "new") \/ Put(f, "artTemp", TRUE)
        PROVE  \/ SameBut(g, {"dest"}) /\ disk'[g].dest = disk[g].dest
               \/ f = g /\ SameBut(g, {"temp"}) /\ disk'[g].temp = "new"
               \/ f = g /\ SameBut(g, {"artTemp"}) /\ disk'[g].artTemp = TRUE
    <2>1. CASE Put(f, "temp", "new")
      BY <2>1, SeenPuts DEF SameBut
    <2>2. CASE Put(f, "artTemp", TRUE)
      <3>1. SameBut(g, {"artTemp"}) /\ disk'[g].artTemp = IF g = f THEN TRUE ELSE disk[g].artTemp
        BY ZenonT(60), <2>2, SeenPuts
      <3> QED
        BY <3>1 DEF SameBut
    <2> QED
      BY <1>1, <2>1, <2>2
  <1>2. CASE \E f \in Files: disk[f].dest = "absent" /\ Put(f, "dest", "foreign")
    BY <1>2, SeenPuts
  <1>3. CASE \E f \in Files: disk[f].source = "new" /\ Put(f, "source", "changed")
    BY <1>3, SeenPuts
  <1>4. CASE \E t \in threads: /\ t.file \in Files /\ t.file \in stranded'
                               /\ Put(t.file, "temp", "new") \/ Put(t.file, "artTemp", TRUE)
    BY <1>1, <1>4
  <1> QED
    BY <1>2, <1>3, <1>4, WorldActs
=============================================================================
