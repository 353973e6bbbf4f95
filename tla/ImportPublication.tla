--------------------------- MODULE ImportPublication ---------------------------
(***************************************************************************)
(* The publication of one import bundle                                    *)
(* (library_management_publisher.py, publish_import_bundle) with its       *)
(* journal in native_library_store.py, beside the recovery                 *)
(* (library_management_recovery_service.py) that runs at startup and then  *)
(* in every iteration of the operation worker.                             *)
(*                                                                         *)
(* Calls for one bundle are serialised by its lock, so one publisher is    *)
(* enough; a new call is a retry.  A journal row is written against the    *)
(* revision a process last saw: a copy is fresh until somebody else writes *)
(* the row.  Leases are RootLeases with every root of the bundle as one.   *)
(* The files may stay on the same path (SamePath) or elsewhere (OtherPath) *)
(* replace an older file, and may bring artwork along (Artwork), of which  *)
(* some came as bytes (Content) and not as a file.  A staged file is       *)
(* written by a thread, which a cancel of the call does not stop.          *)
(***************************************************************************)
EXTENDS Naturals, FiniteSets

CONSTANTS
  Count,         \* files of the bundle
  SamePath, OtherPath, Artwork, Content,
  MaxCalls,      \* bound: calls of publish_import_bundle
  MaxDisturbed   \* bound: faults, crashes, cancels, policy changes and files of strangers

Files == 1..Count
ASSUME CountAssumption == Count \in Nat \ {0}
ASSUME KindsAssumption ==
  /\ SamePath \subseteq Files /\ OtherPath \subseteq Files /\ Artwork \subseteq Files
  /\ Content \subseteq Artwork
  /\ SamePath \intersect OtherPath = {}
ASSUME BoundsAssumption == MaxCalls \in Nat /\ MaxDisturbed \in Nat

VARIABLES
  bundle,       \* state in library_management_import_bundles
  journal,      \* journal[f]: state in library_management_import_journal
  catalog,      \* whether the catalog has adopted the files
  disk,         \* disk[f]: what is at each path of the file
  lock,         \* who has the write lease
  proc,         \* the publisher and the recovery
  booting,      \* startup recovery is not over
  policyMoved,  \* the library policy is not the one of the bundle any more
  crossed,      \* a call began while the recovery or such a thread was at work on the bundle
  torn,         \* files that a crash caught between their removal and that of their artwork
  threads,      \* staging threads that have outlived their cancelled call
  stranded,     \* files that such a thread wrote to
  calls, disturbed

vars == <<bundle, journal, catalog, disk, lock, proc, booting, policyMoved, crossed, torn, threads,
          stranded, calls, disturbed>>

Procs == {"pub", "rec"}
Other(p) == IF p = "pub" THEN "rec" ELSE "pub"
BundleStates == {"absent", "preparing", "publishing", "catalog_committed", "cleanup_pending",
                 "completed", "rolled_back", "needs_attention", "resolved"}
JournalStates == {"none", "planned", "staged", "validated", "replacement_backed_up", "published",
                  "catalog_committed", "cleanup_pending", "completed", "rollback_pending",
                  "rolled_back", "needs_attention", "resolved"}
Committed == {"catalog_committed", "cleanup_pending"}
Recoverable == {"preparing", "publishing"} \union Committed
Settled == {"completed", "rolled_back", "needs_attention", "resolved"}
Undoable == {"planned", "staged", "validated", "replacement_backed_up", "published",
             "rollback_pending"}
Waiting == {"enter", "roll", "clean"}  \* a process is there with the lease or waits for it
Places == {"idle", "mark", "open", "plan", "artwork", "stage", "seal", "validate", "boundary",
           "recheck", "publish", "backed", "place", "place_art", "record", "commit", "lease",
           "clean_source", "clean_old", "listed", "journals", "finish", "undo_dest", "undo_art",
           "undo_backup", "undo_temp", "undone", "check", "attend", "escalate"} \union Waiting

Idle == [at |-> "idle", f |-> 0, record |-> "absent", view |-> [f \in Files |-> "none"],
         fresh |-> {}, was |-> FALSE, attention |-> FALSE, failed |-> {}, rebuilt |-> {}]
\* The thread of one call, which writes one of the temporary files of a file.
Threads == [call: 0..MaxCalls, file: Files, slot: {"temp", "artTemp"}]

TypeOK ==
  /\ bundle \in BundleStates /\ journal \in [Files -> JournalStates] /\ catalog \in BOOLEAN
  /\ disk \in [Files -> [source: {"absent", "new", "changed"}, temp: {"absent", "new"},
                         dest: {"absent", "old", "new", "foreign"}, backup: {"absent", "old"},
                         other: {"absent", "old"}, bin: {"absent", "old"},
                         artTemp: BOOLEAN, artDest: BOOLEAN]]
  /\ lock \in Procs \union {"none"}
  /\ proc \in [Procs -> [at: Places, f: 0..Count, record: BundleStates,
                         view: [Files -> JournalStates], fresh: SUBSET Files,
                         was: BOOLEAN, attention: BOOLEAN, failed: SUBSET Files,
                         rebuilt: SUBSET Content]]
  /\ booting \in BOOLEAN /\ policyMoved \in BOOLEAN /\ crossed \in BOOLEAN
  /\ torn \subseteq Files /\ threads \subseteq Threads /\ stranded \subseteq Files
  /\ calls \in 0..MaxCalls /\ disturbed \in 0..MaxDisturbed

Before(f) == [source |-> "new", temp |-> "absent",
              dest |-> IF f \in SamePath THEN "old" ELSE "absent", backup |-> "absent",
              other |-> IF f \in OtherPath THEN "old" ELSE "absent", bin |-> "absent",
              artTemp |-> FALSE, artDest |-> FALSE]

Init ==
  /\ bundle = "absent" /\ journal = [f \in Files |-> "none"] /\ catalog = FALSE
  /\ disk = [f \in Files |-> Before(f)]
  /\ lock = "none" /\ proc = [p \in Procs |-> Idle]
  /\ booting = FALSE /\ policyMoved = FALSE /\ crossed = FALSE
  /\ torn = {} /\ threads = {} /\ stranded = {}
  /\ calls = 0 /\ disturbed = 0
-----------------------------------------------------------------------------
pub == proc["pub"]
rec == proc["rec"]
bounds == <<booting, policyMoved, crossed, torn, threads, stranded, calls, disturbed>>
store == <<bundle, journal, catalog>>

\* p goes on as me; the others' copies of the rows that were written are stale.
Becomes(p, me, written) ==
  proc' = [q \in Procs |-> IF q = p THEN me ELSE [proc[q] EXCEPT !.fresh = @ \ written]]
GoesOn(p, me) == Becomes(p, me, {})

\* transition_library_management_import_journal, for a copy that is fresh.
Fresh(p) == proc[p].f \in proc[p].fresh
Transition(p, state, at) ==
  /\ journal' = [journal EXCEPT ![proc[p].f] = state]
  /\ Becomes(p, [proc[p] EXCEPT !.view[proc[p].f] = state, !.at = at], {proc[p].f})

\* Leases are handed out in the order in which they were asked for.
Asked(p) == IF lock = "none" THEN p ELSE lock
Released(p) == IF lock # p THEN lock
               ELSE IF proc[Other(p)].at \in Waiting THEN Other(p) ELSE "none"
AskedAgain(p) == IF lock # p THEN Asked(p)
                 ELSE IF proc[Other(p)].at \in Waiting THEN Other(p) ELSE p

Put(f, slot, what) == disk' = [disk EXCEPT ![f] = [@ EXCEPT ![slot] = what]]
-----------------------------------------------------------------------------
(* The publisher.                                                           *)

\* ensure_library_management_import_bundle, and what its state asks for.
Call ==
  /\ ~booting /\ pub.at = "idle" /\ calls < MaxCalls
  /\ \/ /\ bundle = "absent" /\ bundle' = "preparing"
        /\ GoesOn("pub", [Idle EXCEPT !.at = "mark", !.record = "preparing"])
     \/ /\ bundle \in {"preparing", "rolled_back"} /\ UNCHANGED bundle
        /\ GoesOn("pub", [Idle EXCEPT !.at = "mark", !.record = bundle])
     \/ /\ bundle = "publishing" /\ UNCHANGED bundle
        /\ GoesOn("pub", [Idle EXCEPT !.at = "open"])
     \/ /\ bundle \in Committed /\ UNCHANGED bundle
        /\ GoesOn("pub", [Idle EXCEPT !.at = "lease"])
  /\ calls' = calls + 1
  /\ crossed' = (crossed \/ rec.at \notin {"idle", "listed"} \/ threads # {})
  /\ UNCHANGED <<journal, catalog, disk, lock, booting, policyMoved, torn, threads, stranded, disturbed>>

Mark ==
  /\ pub.at = "mark"
  /\ \/ /\ bundle = pub.record /\ bundle' = "publishing"
        /\ GoesOn("pub", [pub EXCEPT !.at = "open"])
     \/ /\ bundle # pub.record /\ UNCHANGED bundle /\ GoesOn("pub", Idle)
  /\ UNCHANGED <<journal, catalog, disk, lock, bounds>>

\* The roots are resolved and the journals read before anything is guarded.
Open ==
  /\ pub.at = "open"
  /\ IF policyMoved THEN GoesOn("pub", Idle)
     ELSE GoesOn("pub", [pub EXCEPT !.at = "plan", !.f = 1, !.view = journal,
                                    !.fresh = {f \in Files: journal[f] # "none"}])
  /\ UNCHANGED <<store, disk, lock, bounds>>

\* _rollback_import_preparation: the files that were not prepared are read again, and what
\* artwork they bring is rebuilt from their rows.
PreparationFails ==
  LET view == [f \in Files |-> IF f < pub.f THEN pub.view[f] ELSE journal[f]]
      fresh == {f \in Files: f >= pub.f \/ f \in pub.fresh}
      begun == \E f \in Files: view[f] # "none"
  IN  /\ GoesOn("pub", [pub EXCEPT !.at = IF begun THEN "roll" ELSE "finish", !.f = Count,
                                   !.view = view, !.fresh = fresh,
                                   !.rebuilt = {f \in Content: f >= pub.f}])
      /\ lock' = IF begun THEN Asked("pub") ELSE lock
      /\ UNCHANGED <<store, disk>>

\* The next file, or the lease when all are prepared.
PreparedOneTooFar(me) ==
  IF pub.f <= Count
  THEN [me EXCEPT !.at = "plan", !.f = @ + 1] ELSE [me EXCEPT !.at = "enter"]
PreparedOne(me) ==
  IF pub.f < Count
  THEN [me EXCEPT !.at = "plan", !.f = @ + 1] ELSE [me EXCEPT !.at = "enter"]
LockWhenPrepared == lock' = IF pub.f < Count THEN lock ELSE Asked("pub")

\* _prepare_import_file, one file after the other.
Replaceable(f) ==
  /\ f \in SamePath => disk[f].dest # "absent"
  /\ f \in OtherPath => disk[f].other # "absent"
Plan ==
  /\ pub.at = "plan"
  /\ \/ /\ pub.view[pub.f] = "rolled_back"
        /\ IF Fresh("pub") THEN Transition("pub", "planned", "plan") /\ UNCHANGED <<disk, lock>>
           ELSE PreparationFails /\ UNCHANGED journal
        /\ UNCHANGED <<bundle, catalog>>
     \/ /\ pub.view[pub.f] = "none"
        /\ IF disk[pub.f].source = "new" /\ Replaceable(pub.f)
           THEN /\ journal' = [journal EXCEPT ![pub.f] = "planned"]
                /\ Becomes("pub", [pub EXCEPT !.view[pub.f] = "planned", !.fresh = @ \union {pub.f}],
                           {pub.f})
                /\ UNCHANGED <<disk, lock>>
           ELSE PreparationFails /\ UNCHANGED journal
        /\ UNCHANGED <<bundle, catalog>>
     \/ /\ pub.view[pub.f] = "planned" /\ disk[pub.f].source = "new"
        /\ GoesOn("pub", [pub EXCEPT !.at = IF pub.f \in Artwork THEN "artwork" ELSE "stage"])
        /\ UNCHANGED <<store, disk, lock>>
     \/ /\ pub.view[pub.f] = "staged"
        /\ GoesOn("pub", [pub EXCEPT !.at = "validate"]) /\ UNCHANGED <<store, disk, lock>>
     \/ /\ pub.view[pub.f] \in {"validated", "replacement_backed_up", "published"}
        /\ GoesOn("pub", PreparedOne(pub)) /\ LockWhenPrepared /\ UNCHANGED <<store, disk>>
     \/ /\ \/ pub.view[pub.f] \notin {"none", "rolled_back", "planned", "staged", "validated",
                                      "replacement_backed_up", "published"}
           \/ pub.view[pub.f] = "planned" /\ disk[pub.f].source # "new"
        /\ PreparationFails
  /\ UNCHANGED bounds

\* A thread writes the staged file (_stage_audio, _write_temp_bytes, _copy_temp).
StageArtwork ==
  /\ pub.at = "artwork" /\ Put(pub.f, "artTemp", TRUE)
  /\ GoesOn("pub", [pub EXCEPT !.at = "stage"])
  /\ UNCHANGED <<store, lock, bounds>>
Stage ==
  /\ pub.at = "stage" /\ Put(pub.f, "temp", "new")
  /\ GoesOn("pub", [pub EXCEPT !.at = "seal"])
  /\ UNCHANGED <<store, lock, bounds>>
Seal ==
  /\ pub.at = "seal"
  /\ IF Fresh("pub") THEN Transition("pub", "staged", "validate") /\ UNCHANGED <<bundle, catalog, disk, lock>>
     ELSE PreparationFails
  /\ UNCHANGED bounds
Validate ==
  /\ pub.at = "validate"
  /\ IF Fresh("pub") /\ disk[pub.f].temp = "new"
     THEN /\ journal' = [journal EXCEPT ![pub.f] = "validated"]
          /\ Becomes("pub", PreparedOne([pub EXCEPT !.view[pub.f] = "validated"]), {pub.f})
          /\ LockWhenPrepared /\ UNCHANGED <<bundle, catalog, disk>>
     ELSE PreparationFails
  /\ UNCHANGED bounds

\* An exception under the lease: the lease goes, then the bundle is read again.
CriticalFails ==
  /\ IF bundle \in Committed \union {"completed"}
     THEN GoesOn("pub", [pub EXCEPT !.at = "lease"]) /\ lock' = Released("pub")
     ELSE /\ GoesOn("pub", [pub EXCEPT !.at = "roll", !.f = Count, !.was = FALSE])
          /\ lock' = AskedAgain("pub")
  /\ UNCHANGED <<store, disk>>

Enter ==
  /\ pub.at = "enter" /\ lock = "pub"
  /\ IF policyMoved THEN CriticalFails
     ELSE GoesOn("pub", [pub EXCEPT !.at = "boundary", !.f = 1]) /\ UNCHANGED <<store, disk, lock>>
  /\ UNCHANGED bounds

\* The publisher is through with one file of a loop under the lease.
NextOf(loop, after, me) ==
  IF me.f < Count THEN [me EXCEPT !.at = loop, !.f = @ + 1] ELSE [me EXCEPT !.at = after, !.f = 1]
AfterRecord(me) == IF me.was THEN NextOf("boundary", "recheck", [me EXCEPT !.was = FALSE])
                   ELSE NextOf("publish", "commit", me)

\* _recover_import_publish_boundary: an earlier call moved the file but did not record it.
Boundary ==
  /\ pub.at = "boundary"
  /\ LET f == pub.f
         open == pub.view[f] \in {"validated", "replacement_backed_up"}
         moved == open /\ disk[f].temp = "absent" /\ disk[f].dest = "new"
         aside == /\ pub.view[f] = "validated" /\ f \in SamePath /\ ~moved
                  /\ disk[f].dest = "absent" /\ disk[f].backup = "old"
     IN  \/ /\ moved /\ GoesOn("pub", [pub EXCEPT !.at = "place_art", !.was = TRUE])
            /\ UNCHANGED <<store, disk, lock>>
         \/ /\ aside
            /\ IF Fresh("pub")
               THEN /\ journal' = [journal EXCEPT ![f] = "replacement_backed_up"]
                    /\ Becomes("pub", NextOf("boundary", "recheck",
                                 [pub EXCEPT !.view[f] = "replacement_backed_up"]), {f})
                    /\ UNCHANGED <<bundle, catalog, disk, lock>>
               ELSE CriticalFails
         \/ /\ ~moved /\ ~aside /\ GoesOn("pub", NextOf("boundary", "recheck", pub))
            /\ UNCHANGED <<store, disk, lock>>
  /\ UNCHANGED bounds

\* _recheck_import_bundle: what was staged and what is replaced have not changed.
Unchanged(f) ==
  IF pub.view[f] = "published"
  THEN disk[f].dest = "new" /\ (f \in Artwork => disk[f].artDest)
  ELSE /\ disk[f].source = "new" /\ disk[f].temp = "new"
       /\ IF pub.view[f] = "replacement_backed_up" THEN disk[f].backup = "old"
          ELSE disk[f].dest = "absent" \/ (f \in SamePath /\ disk[f].dest = "old")
       /\ f \in OtherPath => disk[f].other = "old"
       /\ f \in Artwork => disk[f].artTemp # disk[f].artDest
Recheck ==
  /\ pub.at = "recheck"
  /\ IF \A f \in Files: Unchanged(f)
     THEN /\ disk' = [f \in Files |-> IF pub.view[f] = "published"
                                     THEN [disk[f] EXCEPT !.artTemp = @ /\ f \notin Artwork] ELSE disk[f]]
          /\ GoesOn("pub", [pub EXCEPT !.at = "publish", !.f = 1]) /\ UNCHANGED <<store, lock>>
     ELSE CriticalFails
  /\ UNCHANGED bounds

\* _publish_import_file: the old file goes aside, the new one takes its place, artwork
\* follows, and the journal records each.
Publish ==
  /\ pub.at = "publish"
  /\ \/ /\ pub.view[pub.f] = "published"
        /\ GoesOn("pub", NextOf("publish", "commit", pub)) /\ UNCHANGED <<store, disk, lock>>
     \/ /\ pub.view[pub.f] = "validated" /\ pub.f \in SamePath
        /\ IF disk[pub.f].dest = "absent" THEN CriticalFails
           ELSE /\ disk' = [disk EXCEPT ![pub.f].backup = disk[pub.f].dest, ![pub.f].dest = "absent"]
                /\ GoesOn("pub", [pub EXCEPT !.at = "backed"]) /\ UNCHANGED <<store, lock>>
     \/ /\ pub.view[pub.f] # "published" /\ (pub.view[pub.f] = "validated" => pub.f \notin SamePath)
        /\ GoesOn("pub", [pub EXCEPT !.at = "place"]) /\ UNCHANGED <<store, disk, lock>>
  /\ UNCHANGED bounds
Backed ==
  /\ pub.at = "backed"
  /\ IF Fresh("pub")
     THEN Transition("pub", "replacement_backed_up", "place") /\ UNCHANGED <<bundle, catalog, disk, lock>>
     ELSE CriticalFails
  /\ UNCHANGED bounds
PlaceOver ==
  /\ pub.at = "place"
  /\ disk' = [disk EXCEPT ![pub.f].dest = disk[pub.f].temp, ![pub.f].temp = "absent"]
  /\ GoesOn("pub", [pub EXCEPT !.at = "place_art"])
  /\ UNCHANGED <<store, lock, bounds>>
Place ==
  /\ pub.at = "place"
  /\ IF disk[pub.f].dest = "absent"
     THEN /\ disk' = [disk EXCEPT ![pub.f].dest = disk[pub.f].temp, ![pub.f].temp = "absent"]
          /\ GoesOn("pub", [pub EXCEPT !.at = "place_art"]) /\ UNCHANGED <<store, lock>>
     ELSE CriticalFails
  /\ UNCHANGED bounds
PlaceArtwork ==
  /\ pub.at = "place_art"
  /\ IF pub.f \in Artwork /\ disk[pub.f].artTemp = disk[pub.f].artDest THEN CriticalFails
     ELSE /\ disk' = [disk EXCEPT ![pub.f].artDest = pub.f \in Artwork, ![pub.f].artTemp = FALSE]
          /\ GoesOn("pub", [pub EXCEPT !.at = "record"]) /\ UNCHANGED <<store, lock>>
  /\ UNCHANGED bounds
RecordPublished ==
  /\ pub.at = "record"
  /\ IF Fresh("pub")
     THEN /\ journal' = [journal EXCEPT ![pub.f] = "published"]
          /\ Becomes("pub", AfterRecord([pub EXCEPT !.view[pub.f] = "published"]), {pub.f})
          /\ UNCHANGED <<bundle, catalog, disk, lock>>
     ELSE CriticalFails
  /\ UNCHANGED bounds

\* commit_library_management_import_bundle: one transaction, only when all are published.
Commit ==
  /\ pub.at = "commit"
  /\ IF bundle = "publishing" /\ (\A f \in Files: journal[f] = "published") /\ ~policyMoved
     THEN /\ bundle' = "catalog_committed" /\ catalog' = TRUE
          /\ journal' = [f \in Files |-> "catalog_committed"]
          /\ Becomes("pub", [Idle EXCEPT !.at = "lease"], Files)
          /\ lock' = Released("pub") /\ UNCHANGED disk
     ELSE CriticalFails
  /\ UNCHANGED bounds
-----------------------------------------------------------------------------
(* _rollback_import_bundle, by the publisher or the recovery.               *)

\* A file the copy of whose row is past undoing, or that never had a row, is left alone.
UndoNext(p, me) == GoesOn(p, [me EXCEPT !.at = "roll", !.f = @ - 1])
UndoWithoutCas(p) ==
  /\ proc[p].at = "roll" /\ lock = p /\ proc[p].f > 0
  /\ LET f == proc[p].f IN
     \/ proc[p].view[f] \notin Undoable /\ UndoNext(p, proc[p]) /\ UNCHANGED journal
     \/ /\ proc[p].view[f] \in Undoable
        /\ journal' = [journal EXCEPT ![f] = "rollback_pending"]
        /\ Becomes(p, [proc[p] EXCEPT !.view[f] = "rollback_pending", !.at = "undo_dest",
                                      !.was = (proc[p].view[f] = "published")], {f})
  /\ UNCHANGED <<bundle, catalog, disk, lock, bounds>>
Undo(p) ==
  /\ proc[p].at = "roll" /\ lock = p /\ proc[p].f > 0
  /\ LET f == proc[p].f
         was == \/ proc[p].view[f] = "published"
                \/ disk[f].temp = "absent" /\ disk[f].dest = "new"
     IN  \/ /\ proc[p].view[f] \notin Undoable /\ UndoNext(p, proc[p]) /\ UNCHANGED journal
         \/ /\ proc[p].view[f] = "rollback_pending"
            /\ GoesOn(p, [proc[p] EXCEPT !.at = "undo_dest", !.was = was]) /\ UNCHANGED journal
         \/ /\ proc[p].view[f] \in Undoable \ {"rollback_pending"} /\ Fresh(p)
            /\ journal' = [journal EXCEPT ![f] = "rollback_pending"]
            /\ Becomes(p, [proc[p] EXCEPT !.view[f] = "rollback_pending", !.at = "undo_dest",
                                          !.was = was], {f})
         \/ /\ proc[p].view[f] \in Undoable \ {"rollback_pending"} /\ ~Fresh(p)
            /\ UndoNext(p, [proc[p] EXCEPT !.attention = TRUE]) /\ UNCHANGED journal
  /\ UNCHANGED <<bundle, catalog, disk, lock, bounds>>

\* A file that cannot be restored: its row is flagged, unless the copy of it is stale, and
\* so will be the bundle.
CannotRestore(p) ==
  LET me == [proc[p] EXCEPT !.attention = TRUE, !.at = "roll", !.f = @ - 1, !.was = FALSE] IN
  IF Fresh(p)
  THEN /\ journal' = [journal EXCEPT ![proc[p].f] = "needs_attention"]
       /\ Becomes(p, me, {proc[p].f})
  ELSE GoesOn(p, me) /\ UNCHANGED journal

\* _restore_import_filesystem, path by path.
UndoDestUnchecked(p) ==
  /\ proc[p].at = "undo_dest" /\ Put(proc[p].f, "dest", "absent")
  /\ GoesOn(p, [proc[p] EXCEPT !.at = "undo_art"])
  /\ UNCHANGED <<store, lock, bounds>>
UndoDest(p) ==
  /\ proc[p].at = "undo_dest"
  /\ IF proc[p].was /\ disk[proc[p].f].dest \notin {"absent", "new"}
     THEN CannotRestore(p) /\ UNCHANGED disk
     ELSE /\ IF proc[p].was THEN Put(proc[p].f, "dest", "absent") ELSE UNCHANGED disk
          /\ GoesOn(p, [proc[p] EXCEPT !.at = "undo_art"]) /\ UNCHANGED journal
  /\ UNCHANGED <<bundle, catalog, lock, bounds>>
\* The row has no fingerprint of artwork that came as bytes: what stands there cannot be
\* told from somebody else's.
UndoArtwork(p) ==
  /\ proc[p].at = "undo_art"
  /\ IF proc[p].was /\ disk[proc[p].f].artDest /\ proc[p].f \in proc[p].rebuilt
     THEN CannotRestore(p) /\ UNCHANGED disk
     ELSE /\ disk' = [disk EXCEPT ![proc[p].f].artDest = @ /\ ~proc[p].was, ![proc[p].f].artTemp = FALSE]
          /\ GoesOn(p, [proc[p] EXCEPT !.at = "undo_backup"]) /\ UNCHANGED journal
  /\ UNCHANGED <<bundle, catalog, lock, bounds>>
UndoBackup(p) ==
  /\ proc[p].at = "undo_backup"
  /\ disk' = IF disk[proc[p].f].backup = "old"
             THEN [disk EXCEPT ![proc[p].f].dest = "old", ![proc[p].f].backup = "absent"] ELSE disk
  /\ GoesOn(p, [proc[p] EXCEPT !.at = "undo_temp"])
  /\ UNCHANGED <<store, lock, bounds>>
UndoTemp(p) ==
  /\ proc[p].at = "undo_temp" /\ Put(proc[p].f, "temp", "absent")
  /\ GoesOn(p, [proc[p] EXCEPT !.at = "undone"])
  /\ UNCHANGED <<store, lock, bounds>>
Undone(p) ==
  /\ proc[p].at = "undone"
  /\ IF Fresh(p)
     THEN /\ journal' = [journal EXCEPT ![proc[p].f] = "rolled_back"]
          /\ Becomes(p, [proc[p] EXCEPT !.view[proc[p].f] = "rolled_back", !.at = "roll",
                                        !.f = @ - 1, !.was = FALSE], {proc[p].f})
     ELSE UndoNext(p, [proc[p] EXCEPT !.attention = TRUE]) /\ UNCHANGED journal
  /\ UNCHANGED <<bundle, catalog, disk, lock, bounds>>

\* finish_library_management_import_rollback, if the bundle is still being published.
RolledBackBlindly(p) == IF proc[p].attention THEN "needs_attention" ELSE "rolled_back"
RolledBack(p) == IF bundle # "publishing" THEN bundle
                 ELSE IF proc[p].attention THEN "needs_attention" ELSE "rolled_back"
RollEnds(p) ==
  /\ proc[p].at = "roll" /\ lock = p /\ proc[p].f = 0
  /\ bundle' = RolledBack(p)
  /\ lock' = Released(p)
  /\ GoesOn(p, IF p = "pub" THEN Idle ELSE [Idle EXCEPT !.at = "check"])
  /\ UNCHANGED <<journal, catalog, disk, bounds>>
\* No file had begun: no lease is needed.
NothingToRoll(p) ==
  /\ proc[p].at = "finish" /\ (p = "rec" => proc[p].record # "preparing")
  /\ bundle' = RolledBack(p)
  /\ GoesOn(p, IF p = "pub" THEN Idle ELSE [Idle EXCEPT !.at = "check"])
  /\ UNCHANGED <<journal, catalog, disk, lock, bounds>>

Rolls(p) == Undo(p) \/ UndoDest(p) \/ UndoArtwork(p) \/ UndoBackup(p) \/ UndoTemp(p) \/ Undone(p)
            \/ RollEnds(p) \/ NothingToRoll(p)
-----------------------------------------------------------------------------
(* _resume_import_cleanup, by the publisher or the recovery.                *)

\* What a process that raises comes to: the recovery flags the bundle.
Raised(p) == IF p = "pub" THEN Idle ELSE [Idle EXCEPT !.at = "attend"]

AskToClean(p) ==
  /\ proc[p].at = "lease"
  /\ IF policyMoved THEN GoesOn(p, Raised(p)) /\ UNCHANGED lock
     ELSE GoesOn(p, [proc[p] EXCEPT !.at = "clean"]) /\ lock' = Asked(p)
  /\ UNCHANGED <<store, disk, bounds>>
CleanFrom(p, me, f) ==
  LET left == {g \in Files: g >= f /\ me.view[g] \notin {"none", "completed"}} IN
  GoesOn(p, [me EXCEPT !.f = IF left = {} THEN 0 ELSE CHOOSE g \in left: \A h \in left: g <= h,
                       !.at = IF left = {} THEN "escalate" ELSE "clean_source"])
Clean(p) ==
  /\ proc[p].at = "clean" /\ lock = p
  /\ CleanFrom(p, [proc[p] EXCEPT !.view = journal], 1)
  /\ UNCHANGED <<store, disk, lock, bounds>>
CannotClean(p) ==
  /\ CleanFrom(p, [proc[p] EXCEPT !.failed = @ \union {proc[p].f}], proc[p].f + 1)
  /\ UNCHANGED disk
CleanSource(p) ==
  /\ proc[p].at = "clean_source"
  /\ IF disk[proc[p].f].source = "changed" THEN CannotClean(p)
     ELSE /\ Put(proc[p].f, "source", "absent")
          /\ GoesOn(p, [proc[p] EXCEPT !.at = "clean_old"])
  /\ UNCHANGED <<store, lock, bounds>>
CleanOld(p) ==
  /\ proc[p].at = "clean_old"
  /\ LET f == proc[p].f IN
     /\ disk' = IF disk[f].backup = "old"
                THEN [disk EXCEPT ![f].backup = "absent", ![f].bin = "old"]
                ELSE IF disk[f].other = "old" THEN [disk EXCEPT ![f].other = "absent", ![f].bin = "old"]
                ELSE disk
     /\ CleanFrom(p, proc[p], f + 1)
  /\ UNCHANGED <<store, lock, bounds>>

\* finish_library_management_import_cleanup; at startup a bundle that stays is escalated.
CleanEndsAnyway(p) ==
  /\ proc[p].at = "escalate" /\ lock = p
  /\ IF bundle \in Committed
     THEN /\ journal' = [f \in Files |-> IF journal[f] \notin Committed THEN journal[f] ELSE "completed"]
          /\ bundle' = "completed" /\ UNCHANGED booting
          /\ Becomes(p, Idle, Files)
     ELSE GoesOn(p, Raised(p)) /\ UNCHANGED <<bundle, journal, booting>>
  /\ lock' = Released(p)
  /\ UNCHANGED <<catalog, disk, policyMoved, crossed, torn, threads, stranded, calls, disturbed>>
CleanEndsRetrying(p) ==
  /\ proc[p].at = "escalate" /\ lock = p
  /\ IF bundle \in Committed
     THEN /\ journal' = [f \in Files |-> IF journal[f] \notin Committed THEN journal[f]
                           ELSE IF f \in proc[p].failed THEN "cleanup_pending" ELSE "completed"]
          /\ bundle' = IF proc[p].failed = {} THEN "completed" ELSE "cleanup_pending"
          /\ UNCHANGED booting
          /\ Becomes(p, Idle, Files)
     ELSE GoesOn(p, Raised(p)) /\ UNCHANGED <<bundle, journal, booting>>
  /\ lock' = Released(p)
  /\ UNCHANGED <<catalog, disk, policyMoved, crossed, torn, threads, stranded, calls, disturbed>>
CleanEnds(p) ==
  /\ proc[p].at = "escalate" /\ lock = p
  /\ IF bundle \in Committed
     THEN /\ journal' = [f \in Files |-> IF journal[f] \notin Committed THEN journal[f]
                           ELSE IF f \in proc[p].failed THEN "cleanup_pending" ELSE "completed"]
          /\ LET end == IF proc[p].failed = {} THEN "completed" ELSE "cleanup_pending" IN
             /\ bundle' = IF booting /\ end = "cleanup_pending" THEN "needs_attention" ELSE end
             /\ booting' = (booting /\ end # "cleanup_pending")
          /\ Becomes(p, Idle, Files)
     ELSE GoesOn(p, Raised(p)) /\ UNCHANGED <<bundle, journal, booting>>
  /\ lock' = Released(p)
  /\ UNCHANGED <<catalog, disk, policyMoved, crossed, torn, threads, stranded, calls, disturbed>>

Cleans(p) == AskToClean(p) \/ Clean(p) \/ CleanSource(p) \/ CleanOld(p) \/ CleanEnds(p)
-----------------------------------------------------------------------------
(* The recovery.                                                            *)

\* recover_once lists the bundles; startup is over when there are none.
ListUncommitted ==
  /\ rec.at = "idle"
  /\ \/ /\ bundle \in {"preparing", "publishing"}
        /\ GoesOn("rec", [Idle EXCEPT !.at = "listed", !.record = bundle]) /\ UNCHANGED booting
     \/ /\ bundle \notin {"preparing", "publishing"} /\ booting /\ booting' = FALSE
        /\ UNCHANGED proc
  /\ UNCHANGED <<store, disk, lock, policyMoved, crossed, torn, threads, stranded, calls, disturbed>>
List ==
  /\ rec.at = "idle"
  /\ \/ /\ bundle \in Recoverable
        /\ GoesOn("rec", [Idle EXCEPT !.at = "listed", !.record = bundle]) /\ UNCHANGED booting
     \/ /\ bundle \notin Recoverable /\ booting /\ booting' = FALSE /\ UNCHANGED proc
  /\ UNCHANGED <<store, disk, lock, policyMoved, crossed, torn, threads, stranded, calls, disturbed>>

\* recover_import_bundle goes by the listed record, unless a call is under way right now.
TakeUpBlindly ==
  /\ rec.at = "listed"
  /\ GoesOn("rec", IF rec.record \in Committed THEN [rec EXCEPT !.at = "lease"]
                   ELSE [rec EXCEPT !.at = "journals"])
  /\ UNCHANGED <<store, disk, lock, bounds>>
TakeUp ==
  /\ rec.at = "listed"
  /\ GoesOn("rec", IF pub.at # "idle" THEN Idle
                   ELSE IF rec.record \in Committed THEN [rec EXCEPT !.at = "lease"]
                   ELSE [rec EXCEPT !.at = "journals"])
  /\ UNCHANGED <<store, disk, lock, bounds>>

ReadJournals ==
  /\ rec.at = "journals"
  /\ LET begun == {f \in Files: journal[f] # "none"} IN
     \/ /\ begun = {} /\ (policyMoved => rec.record = "preparing")
        /\ GoesOn("rec", [rec EXCEPT !.at = "finish"]) /\ UNCHANGED lock
     \/ /\ begun # {} /\ rec.record = "publishing" /\ ~policyMoved
        /\ GoesOn("rec", [rec EXCEPT !.at = "roll", !.f = Count, !.view = journal, !.fresh = begun,
                                    !.rebuilt = Content])
        /\ lock' = Asked("rec")
     \/ /\ IF rec.record = "preparing" THEN begun # {} ELSE policyMoved
        /\ GoesOn("rec", Raised("rec")) /\ UNCHANGED lock
  /\ UNCHANGED <<store, disk, bounds>>

\* A bundle that was never marked has nothing to undo.
Forget ==
  /\ rec.at = "finish" /\ rec.record = "preparing"
  /\ IF bundle \in {"preparing", "publishing"}
     THEN bundle' = "rolled_back" /\ GoesOn("rec", Idle)
     ELSE UNCHANGED bundle /\ GoesOn("rec", Raised("rec"))
  /\ UNCHANGED <<journal, catalog, disk, lock, bounds>>

Check ==
  /\ rec.at = "check"
  /\ GoesOn("rec", IF bundle \in {"rolled_back", "needs_attention"} THEN Idle ELSE Raised("rec"))
  /\ UNCHANGED <<store, disk, lock, bounds>>

\* mark_library_management_import_needs_attention.
Attend ==
  /\ rec.at = "attend"
  /\ LET flagged == {f \in Files: journal[f] \notin {"none", "completed", "rolled_back",
                                                     "needs_attention", "resolved"}} IN
     /\ journal' = [f \in Files |-> IF f \in flagged THEN "needs_attention" ELSE journal[f]]
     /\ Becomes("rec", Idle, flagged)
  /\ bundle' = IF bundle \in Settled THEN bundle ELSE "needs_attention"
  /\ UNCHANGED <<catalog, disk, lock, bounds>>

\* resolve_import_bundle: an administrator closes it when the destinations are as sealed.
Resolve ==
  /\ bundle = "needs_attention" /\ ~booting
  /\ \A f \in Files: journal[f] = "needs_attention" => disk[f].dest = "new" /\ ~policyMoved
  /\ bundle' = "resolved"
  /\ journal' = [f \in Files |-> IF journal[f] = "needs_attention" THEN "resolved" ELSE journal[f]]
  /\ proc' = [q \in Procs |-> [proc[q] EXCEPT !.fresh = @ \ {f \in Files: journal[f] = "needs_attention"}]]
  /\ UNCHANGED <<catalog, disk, lock, bounds>>
-----------------------------------------------------------------------------
(* What goes wrong.                                                         *)

Disturb == disturbed < MaxDisturbed /\ disturbed' = disturbed + 1
Unbounded == UNCHANGED <<booting, policyMoved, crossed, torn, threads, stranded, calls>>

\* The publisher's step raises, or its caller is cancelled: outside the try, while it
\* prepares, waits for the lease, or (a fault only) under the lease of the publication.
PublisherFails ==
  /\ Disturb
  /\ \/ pub.at \in {"mark", "open", "lease"} /\ GoesOn("pub", Idle) /\ UNCHANGED <<store, disk, lock>>
     \/ pub.at \in {"plan", "artwork", "stage", "seal", "validate"} /\ PreparationFails
     \/ /\ pub.at \in {"enter", "boundary", "recheck", "publish", "backed", "place", "place_art",
                       "record", "commit"}
        /\ CriticalFails
     \/ /\ pub.at \in {"clean", "clean_source", "clean_old", "escalate"}
        /\ GoesOn("pub", Idle) /\ lock' = Released("pub") /\ UNCHANGED <<store, disk>>
  /\ Unbounded

\* The call is cancelled while a thread stages a file for it: the rollback begins, and the
\* thread goes on.
StagingCancelled ==
  /\ Disturb /\ pub.at \in {"artwork", "stage"}
  /\ PreparationFails
  /\ threads' = threads \union {[call |-> calls, file |-> pub.f,
                                slot |-> IF pub.at = "stage" THEN "temp" ELSE "artTemp"]}
  /\ UNCHANGED <<booting, policyMoved, crossed, torn, stranded, calls>>

\* It writes the temporary file, which the rollback may have removed; one that gives up is
\* one that never does.
StagedLate(t) ==
  /\ t \in threads /\ threads' = threads \ {t}
  /\ Put(t.file, t.slot, IF t.slot = "temp" THEN "new" ELSE TRUE)
  /\ stranded' = stranded \union {t.file}
  /\ UNCHANGED <<store, lock, proc, booting, policyMoved, crossed, torn, calls, disturbed>>

\* The disk fails under a rollback.
RestoreFails(p) ==
  /\ Disturb /\ proc[p].at \in {"undo_dest", "undo_art", "undo_backup", "undo_temp"}
  /\ CannotRestore(p)
  /\ UNCHANGED <<bundle, catalog, disk, lock>> /\ Unbounded

\* The database fails under a rollback or a cleanup.
StoreFails(p) ==
  /\ Disturb
  /\ \/ proc[p].at \in {"roll", "escalate"} /\ lock = p
     \/ proc[p].at \in {"undone", "finish"}
  /\ GoesOn(p, Raised(p)) /\ lock' = Released(p)
  /\ UNCHANGED <<store, disk>> /\ Unbounded

\* A source or an old file cannot be removed: the file is left for the next cleanup.
CleanFails(p) ==
  /\ Disturb /\ proc[p].at \in {"clean_source", "clean_old"}
  /\ CannotClean(p) /\ UNCHANGED <<store, lock>> /\ Unbounded

\* The process ends; the next one recovers before it does anything else.
Crash ==
  /\ Disturb
  /\ proc' = [p \in Procs |-> Idle] /\ lock' = "none" /\ booting' = TRUE
  /\ torn' = torn \union {proc[p].f: p \in {q \in Procs: proc[q].at = "undo_art" /\ proc[q].was}}
  /\ threads' = {}
  /\ UNCHANGED <<store, disk, policyMoved, crossed, stranded, calls>>

MovePolicy ==
  /\ Disturb /\ ~policyMoved /\ policyMoved' = TRUE
  /\ UNCHANGED <<store, disk, lock, proc, booting, crossed, torn, threads, stranded, calls>>

\* Somebody else puts a file where one of the bundle's is to go.
Intrude(f) ==
  /\ Disturb /\ disk[f].dest = "absent" /\ Put(f, "dest", "foreign")
  /\ UNCHANGED <<store, lock, proc>> /\ Unbounded

\* The acquired file is no longer the one that was planned.
Alter(f) ==
  /\ Disturb /\ journal[f] # "none" /\ disk[f].source = "new" /\ Put(f, "source", "changed")
  /\ UNCHANGED <<store, lock, proc>> /\ Unbounded

Fault ==
  \/ PublisherFails \/ StagingCancelled \/ Crash \/ MovePolicy \/ \E f \in Files: Intrude(f) \/ Alter(f)
  \/ \E t \in threads: StagedLate(t)
  \/ \E p \in Procs: RestoreFails(p) \/ StoreFails(p) \/ CleanFails(p)
-----------------------------------------------------------------------------
PubStep ==
  \/ Mark \/ Open \/ Plan \/ StageArtwork \/ Stage \/ Seal \/ Validate \/ Enter \/ Boundary
  \/ Recheck \/ Publish \/ Backed \/ Place \/ PlaceArtwork \/ RecordPublished \/ Commit
  \/ Rolls("pub") \/ Cleans("pub")
RecStep ==
  List \/ TakeUp \/ ReadJournals \/ Forget \/ Check \/ Attend \/ Rolls("rec") \/ Cleans("rec")

Next == Call \/ PubStep \/ RecStep \/ Resolve \/ Fault

Spec == Init /\ [][Next]_vars

\* A call runs to its end, and the operation worker, which recovers in every iteration,
\* runs for ever.  Nobody has to call again or to resolve anything.
FairSpec == Spec /\ WF_vars(PubStep) /\ WF_vars(RecStep)
-----------------------------------------------------------------------------
\* Publication, rollback, recovery and retries together implement SafeImport.
Safe == INSTANCE SafeImport WITH
  acquired <- {f \in Files: disk[f].source # "absent"},
  placed <- {f \in Files: disk[f].dest = "new"},
  adopted <- catalog,
  former <- [f \in Files |-> IF disk[f].bin = "old" THEN "recycled"
                             ELSE IF disk[f].backup = "old" THEN "aside"
                             ELSE IF f \in SamePath \union OtherPath THEN "library" ELSE "nothing"]
ImportIsSafe == Safe!Spec

\* To the acquisition cleanup, which waits for it, the bundle moves as in BundleLife.
Life == INSTANCE BundleLife WITH
  bundle <- IF bundle = "preparing" THEN "publishing"
            ELSE IF bundle \in Committed THEN "committed" ELSE bundle
MovesAsCleanupExpects == Life!Spec

\* A bundle that is rolled back has left the library as it found it, but for a file whose
\* row is flagged; a crash between the removal of a file and of its artwork leaves the
\* artwork, and a thread that outlived the call it staged a file for leaves the staged file.
\* Not so when a call crosses the recovery or such a thread: it may stage a file late, and
\* be rolled back as if it had not moved a file the staged copy of which is there again.
RolledBackClean == bundle = "rolled_back" /\ pub.at = "idle" /\ ~crossed =>
  \A f \in {g \in Files: journal[g] # "needs_attention"}:
    \E source \in {"new", "changed"}, dest \in {Before(f).dest, "foreign"}, art \in {FALSE, (f \in torn)},
       temp \in {"absent", IF f \in stranded THEN "new" ELSE "absent"}, artTemp \in {FALSE, (f \in stranded)}:
      disk[f] = [Before(f) EXCEPT !.source = source, !.dest = dest, !.artDest = art,
                                  !.temp = temp, !.artTemp = artTemp]

\* A file that somebody else put there is never touched ("must not silently overwrite an
\* out-of-model external writer's file"), unless it stands where a replaced file goes back.
StrangersStay == [][\A f \in Files:
  disk[f].dest = "foreign" /\ disk[f].backup = "absent" => disk'[f].dest = "foreign"]_vars

\* The replaced file is somewhere: in the library, aside, or in the recycle bin.
OldKept == \A f \in SamePath \union OtherPath:
  "old" \in {disk[f].dest, disk[f].backup, disk[f].other, disk[f].bin}

\* A completed bundle is adopted, all of it, and has left nothing behind but what the
\* thread of a cancelled call staged late.
CompletedWhole == bundle = "completed" =>
  /\ catalog
  /\ \A f \in Files:
       /\ disk[f].dest = "new" /\ disk[f].source = "absent"
       /\ disk[f].backup = "absent" /\ disk[f].other = "absent"
       /\ disk[f].temp = "absent" \/ f \in stranded

\* Whatever fails, a bundle does not stay in between; one the source of which changed is
\* cleaned up again and again.
Concludes == bundle \in Recoverable ~>
  bundle \in Settled \/ (bundle = "cleanup_pending" /\ \E f \in Files: disk[f].source = "changed")
\* A bundle that cannot be recovered does not keep the process from starting.
Boots == booting ~> ~booting
-----------------------------------------------------------------------------
(* The code does not keep these.                                            *)

\* "Recovery skips a bundle owned by the active publisher": it looks once, before it reads.
ActiveSkipped == [][(RecStep /\ pub.at # "idle") => UNCHANGED <<store, disk>>]_vars

\* A rollback leaves no staged file behind, whatever was cancelled.
NothingStaged == bundle = "rolled_back" /\ pub.at = "idle" =>
  \A f \in Files: disk[f].temp = "absent" /\ ~disk[f].artTemp

\* A bundle that counts as rolled back has no file left that could not be restored.
RolledBackUnflagged == bundle = "rolled_back" => \A f \in Files: journal[f] # "needs_attention"

\* A rollback does not overwrite a stranger's file either.
StrangersKept == [][\A f \in Files: disk[f].dest = "foreign" => disk'[f].dest = "foreign"]_vars
=============================================================================
