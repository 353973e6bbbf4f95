----------------------- MODULE ImportPublication_proof -----------------------
(***************************************************************************)
(* What ImportPublication guarantees, for a bundle of any size with any    *)
(* files replaced and any bounds.                                          *)
(*                                                                         *)
(* The invariant IInv has a part for each thing that can go wrong, stated  *)
(* for one file g: that copies of rows are not out of date (Copied), what  *)
(* the catalog has adopted (Settles), where the files are (Stored), what a *)
(* thread that outlived its call finds (Threaded), what a cleanup leaves   *)
(* (Swept), and, as long as no call crossed the recovery or such a thread, *)
(* that one process works at a time (Exact) and what a rollback leaves     *)
(* (Tidy).  Each part has its step lemma, which may use the parts before   *)
(* it; the theorems at the end follow from all of them.                    *)
(***************************************************************************)
EXTENDS ImportPublication_steps

USE CountAssumption, KindsAssumption, BoundsAssumption
-----------------------------------------------------------------------------
(* The copies of the rows.                                                  *)

\* The rows of the files that the publisher has staged.
Prepared == {"validated", "replacement_backed_up", "published"}
\* A fresh copy is the row, but for a file a rollback is through with; a rollback restores only
\* what it marked; and what the publisher takes under the lease is prepared.
Copied(g) ==
  /\ \A p \in Procs: g \in proc[p].fresh /\ (proc[p].at \in Rolling => g <= proc[p].f)
                      => proc[p].view[g] = journal[g]
  /\ \A p \in Procs: proc[p].at \in Undoing /\ g = proc[p].f => proc[p].view[g] = "rollback_pending"
  /\ pub.at \in Publishing \union {"enter"} \/ (pub.at \in Preparing /\ g < pub.f)
       => pub.view[g] \in Prepared
  /\ pub.at \in {"artwork", "stage", "seal"} /\ g = pub.f => pub.view[g] = "planned"
  /\ pub.at = "validate" /\ g = pub.f => pub.view[g] = "staged"

\* Failures of the publisher keep the copies.
LEMMA FailuresCopied ==
  ASSUME Typed, Placed, NEW g \in Files, Copied(g)
  PROVE  /\ PreparationFails /\ pub.at \in Preparing => Copied(g)'
         /\ CriticalFails /\ pub.at \in Publishing \union {"enter"} => Copied(g)'
  <1> USE DEF Copied, Procs, pub, rec, Preparing, Publishing, Undoing, Rolling
  <1>t. /\ pub.f \in 0..Count /\ rec.f \in 0..Count /\ g \in 1..Count /\ Other("pub") = "rec"
    BY TheTwo DEF Files
  <1>1. ASSUME PreparationFails, pub.at \in Preparing PROVE Copied(g)'
    BY <1>1, <1>t, PreparationFailsSees, PreparationFailsActs DEF Seen, Rests, Left
  <1>2. ASSUME CriticalFails, pub.at \in Publishing \union {"enter"} PROVE Copied(g)'
    BY SMTT(30), <1>2, <1>t, CriticalFailsSees, CriticalFailsActs DEF Walks, Seen, Rests, Left
  <1> QED
    BY <1>1, <1>2

\* Every step keeps the copies.
LEMMA StepCopied ==
  ASSUME Typed, Placed, NEW g \in Files, Copied(g), Next
  PROVE  Copied(g)'
  <1> USE DEF Copied, Procs, pub, rec, Preparing, Publishing, Undoing, Cleaning, Rolling, Prepared
  <1>t. /\ proc["pub"].f \in 0..Count /\ proc["rec"].f \in 0..Count /\ g \in 1..Count
        /\ Other("pub") = "rec" /\ Other("rec") = "pub" /\ Stands
    BY TheTwo DEF Files, Placed
  <1>p. PreparationFails /\ pub.at \in Preparing => Copied(g)'
    BY FailuresCopied
  <1>c. CriticalFails /\ pub.at \in Publishing \union {"enter"} => Copied(g)'
    BY FailuresCopied
  <1>r. ASSUME NEW p \in Procs, proc[p].f \in Files, proc[p].at \in Undoing, CannotRestore(p),
               UNCHANGED <<bundle, catalog, disk, lock>>
        PROVE  Copied(g)'
    BY SMTT(30), <1>r, <1>t, CannotRestoreSees DEF Seen, Rests, Left
  <1>f. ASSUME NEW p \in Procs, proc[p].f \in Files, proc[p].at \in Cleaning, CannotClean(p),
               UNCHANGED <<bundle, journal, catalog, lock>>
        PROVE  Copied(g)'
    BY <1>f, <1>t, CannotCleanSees DEF Sweeps, Seen, Rests, Left
  <1>d. ASSUME NEW p \in Procs, Drops(p), UNCHANGED <<bundle, journal, catalog, disk>>,
               UNCHANGED lock \/ lock' = Released(p)
        PROVE  Copied(g)'
    BY <1>d, <1>t, DropsSees DEF Anew, Seen, Rests, Left
  <1>1. CASE Call
    BY <1>1, <1>t, CallSees, CallActs
    DEF Anew, Seen, Rests, Left
  <1>2. CASE Mark
    BY <1>2, <1>t, MarkSees, MarkActs
    DEF Anew, Walks, Seen, Rests, Left
  <1>3. CASE Open
    BY SMTT(30), <1>3, <1>t, OpenSees, OpenActs
    DEF Anew, Seen, Rests, Left
  <1>4. CASE Plan
    BY <1>4, <1>t, <1>p, PlanSees, PlanActs
    DEF GetsReady, Walks, Seen, Rests, Left
  <1>5. CASE StageArtwork \/ Stage
    <2>1. UNCHANGED journal
      BY <1>5, <1>t, StageActs
    <2>2. \/ pub.at = "artwork" /\ Walks("pub", g, "stage", pub.f, pub.was, pub.attention)
          \/ pub.at = "stage" /\ Walks("pub", g, "seal", pub.f, pub.was, pub.attention)
      BY <1>5, <1>t, StageSees
    <2> QED
      BY <1>t, <2>1, <2>2 DEF Walks, Seen, Rests, Left
  <1>6. CASE Seal
    BY <1>6, <1>t, <1>p, SealSees, SealActs
    DEF Writes, Seen, Rests, Left
  <1>7. CASE Validate
    BY <1>7, <1>t, <1>p, ValidateSees, ValidateActs
    DEF GetsReady, Seen, Rests, Left
  <1>8. CASE Enter
    BY SMTT(30), <1>8, <1>t, <1>c, EnterSees, EnterActs
    DEF Walks, Seen, Rests, Left
  <1>9. CASE Boundary
    BY <1>9, <1>t, <1>c, BoundarySees, BoundaryActs
    DEF GetsOn, Walks, Seen, Rests, Left
  <1>10. CASE Recheck
    BY SMTT(30), <1>10, <1>t, <1>c, RecheckSees, RecheckActs
    DEF Walks, Seen, Rests, Left
  <1>11. CASE Publish
    BY <1>11, <1>t, <1>c, PublishSees, PublishActs
    DEF GetsOn, Walks, Seen, Rests, Left
  <1>12. CASE Backed
    BY SMTT(30), <1>12, <1>t, <1>c, BackedSees, BackedActs
    DEF Writes, Seen, Rests, Left
  <1>13. CASE Place
    BY <1>13, <1>t, <1>c, PlaceSees, PlaceActs
    DEF Walks, Seen, Rests, Left
  <1>14. CASE PlaceArtwork
    <2>1. pub.at = "place_art" /\ pub.f \in Files /\ UNCHANGED journal
      BY <1>14, <1>t, PlaceArtworkActs
    <2>2. CASE Walks("pub", g, "record", pub.f, pub.was, pub.attention)
      BY SMTT(30), <1>t, <2>1, <2>2 DEF Walks, Seen, Rests, Left
    <2> QED
      BY <1>14, <1>t, <1>c, <2>1, <2>2, PlaceArtworkSees
  <1>15. CASE RecordPublished
    BY <1>15, <1>t, <1>c, RecordSees, RecordActs
    DEF GetsOn, Seen, Rests, Left
  <1>16. CASE Commit
    <2>1. pub.at = "commit"
      BY <1>16, CommitActs
    <2>2. CASE journal'[g] = "catalog_committed" /\ Anew("pub", g, "lease", TRUE)
      BY <1>t, <2>2 DEF Anew, Seen, Rests, Left
    <2> QED
      BY <1>16, <1>c, <2>1, <2>2, CommitSees
  <1>17. ASSUME NEW p \in Procs, Undo(p) PROVE Copied(g)'
    BY SMTT(30), <1>17, <1>t, UndoSees, UndoActs
    DEF Writes, Walks, Seen, Rests, Left
  <1>18. ASSUME NEW p \in Procs, UndoDest(p) \/ UndoArtwork(p) \/ UndoBackup(p) \/ UndoTemp(p)
         PROVE Copied(g)'
    <2>1. proc[p].f \in Files /\ UNCHANGED <<bundle, catalog, lock>>
      BY <1>18, <1>t, RestoreActs
    <2>2. CASE /\ UNCHANGED journal
               /\ \/ /\ proc[p].at = "undo_dest"
                     /\ Walks(p, g, "undo_art", proc[p].f, proc[p].was, proc[p].attention)
                  \/ /\ proc[p].at = "undo_art"
                     /\ Walks(p, g, "undo_backup", proc[p].f, proc[p].was, proc[p].attention)
                  \/ /\ proc[p].at = "undo_backup"
                     /\ Walks(p, g, "undo_temp", proc[p].f, proc[p].was, proc[p].attention)
                  \/ /\ proc[p].at = "undo_temp"
                     /\ Walks(p, g, "undone", proc[p].f, proc[p].was, proc[p].attention)
      BY <1>t, <2>1, <2>2 DEF Walks, Seen, Rests, Left
    <2> QED
      BY ZenonT(60), <1>18, <1>t, <1>r, <2>1, <2>2, RestoreSees
  <1>19. ASSUME NEW p \in Procs, Undone(p) PROVE Copied(g)'
    BY <1>19, <1>t, UndoneSees, UndoneActs
    DEF Writes, Walks, Seen, Rests, Left
  <1>20. ASSUME NEW p \in Procs, RollEnds(p) \/ NothingToRoll(p) PROVE Copied(g)'
    BY <1>20, <1>t, RollEndsSees, RollEndsActs
    DEF Anew, Seen, Rests, Left
  <1>21. ASSUME NEW p \in Procs, AskToClean(p) PROVE Copied(g)'
    BY <1>21, <1>t, <1>d, CleanSees, AskActs
    DEF Walks, Seen, Rests, Left
  <1>22. ASSUME NEW p \in Procs, Clean(p) PROVE Copied(g)'
    BY SMTT(30), <1>22, <1>t, CleanSees, CleanActs
    DEF Sweeps, Seen, Rests, Left
  <1>23. ASSUME NEW p \in Procs, CleanSource(p) \/ CleanOld(p) PROVE Copied(g)'
    BY SMTT(30), <1>23, <1>t, <1>f, CleanFileSees, CleanFileActs
    DEF Sweeps, Walks, Seen, Rests, Left
  <1>24. ASSUME NEW p \in Procs, CleanEnds(p) PROVE Copied(g)'
    BY <1>24, <1>t, <1>d, CleanEndsSees, CleanEndsActs
    DEF Anew, Seen, Rests, Left
  <1>25. CASE List
    BY <1>25, <1>t, ListSees, ListActs
    DEF Anew, Seen, Rests, Left
  <1>26. CASE TakeUp
    BY <1>26, <1>t, TakeUpSees, TakeUpActs
    DEF Anew, Walks, Seen, Rests, Left
  <1>27. CASE ReadJournals
    BY <1>27, <1>t, <1>d, ReadJournalsSees, ReadJournalsActs
    DEF Walks, Seen, Rests, Left
  <1>28. CASE Forget \/ Check
    BY <1>28, <1>t, ForgetSees, ForgetActs
    DEF Anew, Seen, Rests, Left
  <1>29. CASE Attend
    BY <1>29, <1>t, AttendSees, AttendActs
    DEF Flagged, Anew, Seen, Rests, Left
  <1>30. CASE Resolve
    BY <1>30, <1>t, ResolveSees, ResolveActs
    DEF Seen, Rests, Left
  <1>31. CASE Crash
    BY <1>31, <1>t, CrashSees, CrashActs DEF Seen
  <1>32. CASE World
    BY <1>32, <1>t, WorldSees, WorldActs DEF SameBut
  <1>33. CASE PublisherFails \/ StagingCancelled
    <2>1. Starts("pub", "idle", {}) => Anew("pub", g, "idle", FALSE)
      BY TheTwo, SeenMoves
    <2> QED
      BY <1>33, <1>t, <1>p, <1>c, <2>1, PublisherFailsActs DEF Anew, Seen, Rests, Left
  <1>34. ASSUME NEW p \in Procs, RestoreFails(p) \/ StoreFails(p) \/ CleanFails(p) PROVE Copied(g)'
    BY <1>34, <1>t, <1>r, <1>f, <1>d, StepFailsActs
  <1> QED
    BY <1>1, <1>2, <1>3, <1>4, <1>5, <1>6, <1>7, <1>8, <1>9, <1>10, <1>11, <1>12, <1>13, <1>14,
       <1>15, <1>16, <1>17, <1>18, <1>19, <1>20, <1>21, <1>22, <1>23, <1>24, <1>25, <1>26,
       <1>27, <1>28, <1>29, <1>30, <1>31, <1>32, <1>33, <1>34
    DEF Next, PubStep, RecStep, Fault, World, Rolls, Cleans
-----------------------------------------------------------------------------
(* The catalog.                                                             *)

\* Where the publisher is before the commit, and where after it.
BeforeCommit == {"mark", "open", "enter", "finish"} \union Preparing \union Publishing \union Rolling
AfterCommit == {"lease", "clean"} \union Cleaning
\* The states of the bundle and of its rows, and where the processes are, say whether the
\* catalog has adopted the files; a recovery that waits while they are adopted undoes nothing,
\* because what it would undo it has not marked and its copies are stale.
Adopted(g) ==
  /\ bundle \in Committed \union {"completed"} => catalog
  /\ bundle \in {"absent", "preparing", "publishing", "rolled_back"} => ~catalog
  /\ pub.at \in BeforeCommit => ~catalog
  /\ rec.at \in Undoing => ~catalog
  /\ pub.at \in AfterCommit \/ rec.at \in AfterCommit => catalog
  /\ rec.record \in Committed => catalog
  /\ catalog /\ rec.at = "roll" =>
       rec.view[g] # "rollback_pending" /\ (rec.view[g] \in Undoable => g \notin rec.fresh)
  /\ journal[g] \in {"catalog_committed", "cleanup_pending", "completed"} => catalog
  /\ catalog => journal[g] \in {"catalog_committed", "cleanup_pending", "completed",
                               "needs_attention", "resolved"}
\* What a recovery that waits for the publisher finds marked stays marked.
Queued(g) ==
  rec.at = "roll" /\ lock = "pub" /\ pub.at \in Publishing \union {"enter"}
    /\ rec.view[g] = "rollback_pending" => journal[g] = "rollback_pending"
\* What is said of the catalog.
Settles(g) == Adopted(g) /\ Queued(g)

\* Every step keeps what the catalog says.
LEMMA StepSettles ==
  ASSUME Typed, Placed, \A h \in Files: Copied(h) /\ Settles(h), NEW g \in Files, Next
  PROVE  Settles(g)'
  <1> USE DEF Settles, Adopted, Queued, BeforeCommit, AfterCommit, Procs, pub, rec, Preparing, Publishing, Undoing,
              Cleaning, Rolling, Prepared, Committed, Undoable
  <1>t. /\ proc["pub"].f \in 0..Count /\ proc["rec"].f \in 0..Count /\ g \in 1..Count
        /\ Other("pub") = "rec" /\ Other("rec") = "pub" /\ Stands
    BY TheTwo DEF Files, Placed
  <1>u. rec.at = "roll" /\ rec.f \in Files /\ rec.view[rec.f] \in Undoable
          /\ (rec.view[rec.f] = "rollback_pending" \/ rec.f \in rec.fresh) => ~catalog
    OBVIOUS
  <1>k. /\ Copied(g) /\ Settles(g)
        /\ rec.at = "roll" => lock # "none"
        /\ pub.at \in Preparing => lock # "pub"
        /\ rec.at \in Undoing => lock = "rec"
        /\ pub.at \in Publishing => lock = "pub"
        /\ pub.at \in Publishing \union {"enter"} /\ g \in pub.fresh => journal[g] \in Prepared
        /\ rec.at \notin {"mark", "open", "enter"} \union Preparing \union Publishing
        /\ rec.at \in Undoing /\ g = rec.f => rec.view[g] = "rollback_pending"
    BY <1>t DEF Placed, Locked, Copied, Stands, Holding, Waiting
  <1>p. ASSUME PreparationFails, pub.at \in Preparing PROVE Settles(g)'
    BY <1>p, <1>t, <1>k, PreparationFailsSees, PreparationFailsActs DEF Seen, Rests, Left
  <1>c. ASSUME CriticalFails, pub.at \in Publishing \union {"enter"} PROVE Settles(g)'
    BY <1>c, <1>t, <1>k, CriticalFailsSees, CriticalFailsActs DEF Walks, Seen, Rests, Left
  <1>r. ASSUME NEW p \in Procs, proc[p].f \in Files, proc[p].at \in Undoing, CannotRestore(p),
               UNCHANGED <<bundle, catalog, disk, lock>>
        PROVE  Settles(g)'
    BY <1>r, <1>t, <1>k, CannotRestoreSees DEF Seen, Rests, Left
  <1>f. ASSUME NEW p \in Procs, proc[p].f \in Files, proc[p].at \in Cleaning, CannotClean(p),
               UNCHANGED <<bundle, journal, catalog, lock>>
        PROVE  Settles(g)'
    BY <1>f, <1>t, <1>k, CannotCleanSees DEF Sweeps, Seen, Rests, Left
  <1>d. ASSUME NEW p \in Procs, Drops(p), UNCHANGED <<bundle, journal, catalog, disk>>,
               UNCHANGED lock \/ lock' = Released(p)
        PROVE  Settles(g)'
    BY <1>d, <1>t, <1>k, DropsSees DEF Anew, Seen, Rests, Left
  <1>1. CASE Call
    BY <1>1, <1>t, <1>k, CallSees, CallActs
    DEF Anew, Seen, Rests, Left
  <1>2. CASE Mark
    BY <1>2, <1>t, <1>k, MarkSees, MarkActs
    DEF Anew, Walks, Seen, Rests, Left
  <1>3. CASE Open
    BY SMTT(30), <1>3, <1>t, <1>k, OpenSees, OpenActs
    DEF Anew, Seen, Rests, Left
  <1>4. CASE Plan
    BY <1>4, <1>t, <1>k, <1>p, PlanSees, PlanActs
    DEF Asked, GetsReady, Walks, Seen, Rests, Left
  <1>5. CASE StageArtwork \/ Stage
    <2>1. UNCHANGED <<bundle, journal, catalog, lock>>
      BY <1>5, <1>t, <1>k, StageActs
    <2>2. \/ pub.at = "artwork" /\ Walks("pub", g, "stage", pub.f, pub.was, pub.attention)
          \/ pub.at = "stage" /\ Walks("pub", g, "seal", pub.f, pub.was, pub.attention)
      BY <1>5, <1>t, StageSees
    <2> QED
      BY <1>t, <1>k, <2>1, <2>2 DEF Walks, Seen, Rests, Left
  <1>6. CASE Seal
    BY <1>6, <1>t, <1>k, <1>p, SealSees, SealActs
    DEF Writes, Seen, Rests, Left
  <1>7. CASE Validate
    BY <1>7, <1>t, <1>k, <1>p, ValidateSees, ValidateActs
    DEF Asked, GetsReady, Seen, Rests, Left
  <1>8. CASE Enter
    BY SMTT(30), <1>8, <1>t, <1>k, <1>c, EnterSees, EnterActs
    DEF Walks, Seen, Rests, Left
  <1>9. CASE Boundary
    BY <1>9, <1>t, <1>k, <1>c, BoundarySees, BoundaryActs
    DEF GetsOn, Walks, Seen, Rests, Left
  <1>10. CASE Recheck
    BY SMTT(30), <1>10, <1>t, <1>k, <1>c, RecheckSees, RecheckActs
    DEF Walks, Seen, Rests, Left
  <1>11. CASE Publish
    BY <1>11, <1>t, <1>k, <1>c, PublishSees, PublishActs
    DEF GetsOn, Walks, Seen, Rests, Left
  <1>12. CASE Backed
    BY SMTT(30), <1>12, <1>t, <1>k, <1>c, BackedSees, BackedActs
    DEF Writes, Seen, Rests, Left
  <1>13. CASE Place
    BY <1>13, <1>t, <1>k, <1>c, PlaceSees, PlaceActs
    DEF Walks, Seen, Rests, Left
  <1>14. CASE PlaceArtwork
    <2>1. pub.at = "place_art" /\ pub.f \in Files /\ UNCHANGED <<bundle, journal, catalog>>
      BY <1>14, <1>t, PlaceArtworkActs
    <2>2. CASE UNCHANGED lock /\ Walks("pub", g, "record", pub.f, pub.was, pub.attention)
      BY SMTT(30), <1>t, <1>k, <2>1, <2>2 DEF Walks, Seen, Rests, Left
    <2> QED
      BY <1>14, <1>t, <1>c, <2>1, <2>2, PlaceArtworkSees
  <1>15. CASE RecordPublished
    BY <1>15, <1>t, <1>k, <1>c, RecordSees, RecordActs
    DEF GetsOn, Seen, Rests, Left
  <1>16. CASE Commit
    <2>1. pub.at = "commit" /\ UNCHANGED disk
      BY <1>16, CommitActs
    <2>2. CASE /\ journal[g] = "published" /\ bundle' = "catalog_committed" /\ catalog' = TRUE
               /\ journal'[g] = "catalog_committed"
               /\ lock' = Released("pub") /\ Anew("pub", g, "lease", TRUE)
      BY <1>t, <1>k, <2>1, <2>2 DEF Anew, Seen, Rests, Left
    <2> QED
      BY <1>16, <1>c, <2>1, <2>2, CommitSees
  <1>17. ASSUME NEW p \in Procs, Undo(p) PROVE Settles(g)'
    <2>1. /\ proc[p].at = "roll" /\ lock = p /\ proc[p].f \in Files
          /\ UNCHANGED <<bundle, catalog, lock>>
      BY <1>17, UndoActs
    <2>2. ASSUME NEW f, NEW was, NEW attention, UNCHANGED journal,
                 \/ Walks(p, g, "roll", f, was, attention)
                 \/ /\ Walks(p, g, "undo_dest", proc[p].f, was, attention)
                    /\ proc[p].view[proc[p].f] = "rollback_pending"
          PROVE  Settles(g)'
      BY <1>t, <1>k, <1>u, <2>1, <2>2 DEF Walks, Seen, Rests, Left
    <2>3. ASSUME proc[p].view[proc[p].f] \in Undoable, proc[p].f \in proc[p].fresh,
                 NEW was, NEW attention,
                 Writes(p, g, "rollback_pending", "undo_dest", proc[p].f, was, attention)
          PROVE  Settles(g)'
      BY <1>t, <1>k, <1>u, <2>1, <2>3 DEF Writes, Seen, Rests, Left
    <2> QED
      BY ZenonT(60), <1>17, <1>t, <2>2, <2>3, UndoSees
  <1>18. ASSUME NEW p \in Procs, UndoDest(p) \/ UndoArtwork(p) \/ UndoBackup(p) \/ UndoTemp(p)
         PROVE Settles(g)'
    <2>1. proc[p].f \in Files /\ UNCHANGED <<bundle, catalog, lock>>
      BY <1>18, <1>t, RestoreActs
    <2>2. CASE /\ UNCHANGED journal
               /\ \/ /\ proc[p].at = "undo_dest"
                     /\ Walks(p, g, "undo_art", proc[p].f, proc[p].was, proc[p].attention)
                  \/ /\ proc[p].at = "undo_art"
                     /\ Walks(p, g, "undo_backup", proc[p].f, proc[p].was, proc[p].attention)
                  \/ /\ proc[p].at = "undo_backup"
                     /\ Walks(p, g, "undo_temp", proc[p].f, proc[p].was, proc[p].attention)
                  \/ /\ proc[p].at = "undo_temp"
                     /\ Walks(p, g, "undone", proc[p].f, proc[p].was, proc[p].attention)
      BY <1>t, <1>k, <2>1, <2>2 DEF Walks, Seen, Rests, Left
    <2> QED
      BY ZenonT(60), <1>18, <1>t, <1>r, <2>1, <2>2, RestoreSees
  <1>19. ASSUME NEW p \in Procs, Undone(p) PROVE Settles(g)'
    BY ZenonT(60), <1>19, <1>t, <1>k, UndoneSees, UndoneActs
    DEF Writes, Walks, Seen, Rests, Left
  <1>20. ASSUME NEW p \in Procs, RollEnds(p) \/ NothingToRoll(p) PROVE Settles(g)'
    BY <1>20, <1>t, <1>k, RollEndsSees, RollEndsActs
    DEF RolledBack, Anew, Seen, Rests, Left
  <1>21. ASSUME NEW p \in Procs, AskToClean(p) PROVE Settles(g)'
    BY <1>21, <1>t, <1>k, <1>d, CleanSees, AskActs
    DEF Walks, Seen, Rests, Left
  <1>22. ASSUME NEW p \in Procs, Clean(p) PROVE Settles(g)'
    BY <1>22, <1>t, <1>k, CleanSees, CleanActs
    DEF Sweeps, Seen, Rests, Left
  <1>23. ASSUME NEW p \in Procs, CleanSource(p) \/ CleanOld(p) PROVE Settles(g)'
    BY <1>23, <1>t, <1>k, <1>f, CleanFileSees, CleanFileActs
    DEF Sweeps, Walks, Seen, Rests, Left
  <1>24. ASSUME NEW p \in Procs, CleanEnds(p) PROVE Settles(g)'
    BY <1>24, <1>t, <1>k, <1>d, CleanEndsSees, CleanEndsActs
    DEF Anew, Seen, Rests, Left
  <1>25. CASE List
    BY <1>25, <1>t, <1>k, ListSees, ListActs
    DEF Anew, Seen, Rests, Left
  <1>26. CASE TakeUp
    BY SMTT(30), <1>26, <1>t, <1>k, TakeUpSees, TakeUpActs
    DEF Anew, Walks, Seen, Rests, Left
  <1>27. CASE ReadJournals
    BY <1>27, <1>t, <1>k, <1>d, ReadJournalsSees, ReadJournalsActs
    DEF Walks, Seen, Rests, Left
  <1>28. CASE Forget \/ Check
    BY <1>28, <1>t, <1>k, ForgetSees, ForgetActs
    DEF Anew, Seen, Rests, Left
  <1>29. CASE Attend
    BY <1>29, <1>t, <1>k, AttendSees, AttendActs
    DEF Flagged, Anew, Seen, Rests, Left
  <1>30. CASE Resolve
    BY <1>30, <1>t, <1>k, ResolveSees, ResolveActs
    DEF Seen, Rests, Left
  <1>31. CASE Crash
    BY <1>31, <1>t, <1>k, CrashSees, CrashActs DEF Seen
  <1>32. CASE World
    BY <1>32, <1>t, <1>k, WorldSees, WorldActs
  <1>33. CASE PublisherFails \/ StagingCancelled
    <2>1. Starts("pub", "idle", {}) => Anew("pub", g, "idle", FALSE)
      BY TheTwo, SeenMoves
    <2> QED
      BY <1>33, <1>t, <1>k, <1>p, <1>c, <2>1, PublisherFailsActs DEF Anew, Seen, Rests, Left
  <1>34. ASSUME NEW p \in Procs, RestoreFails(p) \/ StoreFails(p) \/ CleanFails(p) PROVE Settles(g)'
    BY <1>34, <1>t, <1>k, <1>r, <1>f, <1>d, StepFailsActs
  <1> QED
    BY <1>1, <1>2, <1>3, <1>4, <1>5, <1>6, <1>7, <1>8, <1>9, <1>10, <1>11, <1>12, <1>13, <1>14,
       <1>15, <1>16, <1>17, <1>18, <1>19, <1>20, <1>21, <1>22, <1>23, <1>24, <1>25, <1>26,
       <1>27, <1>28, <1>29, <1>30, <1>31, <1>32, <1>33, <1>34
    DEF Next, PubStep, RecStep, Fault, World, Rolls, Cleans
-----------------------------------------------------------------------------
(* What only grows.                                                         *)

\* Only a call can cross the recovery or a thread, what was torn stays torn, what a thread wrote
\* to stays its, and only a cancel makes a thread outlive its call.
LEMMA CrossedGrows ==
  ASSUME Next
  PROVE  (~crossed' => ~crossed) /\ torn \subseteq torn' /\ stranded \subseteq stranded'
         /\ (threads' \subseteq threads \/ StagingCancelled)
  <1> USE DEF bounds
  <1>r. ASSUME NEW p \in Procs, Rolls(p) PROVE UNCHANGED <<crossed, torn, stranded, threads>>
    BY <1>r DEF Rolls, Undo, UndoDest, UndoArtwork, UndoBackup, UndoTemp, Undone, RollEnds, NothingToRoll
  <1>c. ASSUME NEW p \in Procs, Cleans(p) PROVE UNCHANGED <<crossed, torn, stranded, threads>>
    BY <1>c DEF Cleans, AskToClean, Clean, CleanSource, CleanOld, CleanEnds
  <1>p. "pub" \in Procs /\ "rec" \in Procs
    BY DEF Procs
  <1>1. CASE Call
    BY <1>1 DEF Call
  <1>2. CASE PubStep
    <2>1. CASE StageArtwork \/ Stage
      <3>1. UNCHANGED bounds
        BY <2>1 DEF StageArtwork, Stage
      <3> QED
        BY <3>1
    <2>8. CASE Mark
      <3>1. UNCHANGED bounds
        BY <2>8 DEF Mark
      <3> QED
        BY <3>1
    <2>7. CASE Open
      <3>1. UNCHANGED bounds
        BY <2>7 DEF Open
      <3> QED
        BY <3>1
    <2>3. CASE Plan
      BY <2>3 DEF Plan
    <2>4. CASE Seal
      BY <2>4 DEF Seal
    <2>5. CASE Validate
      BY <2>5 DEF Validate
    <2>6. CASE Enter
      BY <2>6 DEF Enter
    <2>2. CASE Boundary \/ Recheck \/ Publish \/ Backed \/ Place \/ PlaceArtwork \/ RecordPublished
               \/ Commit
      BY <2>2 DEF Boundary, Recheck, Publish, Backed, Place, PlaceArtwork, RecordPublished, Commit
    <2> QED
      BY <1>2, <1>p, <1>r, <1>c, <2>1, <2>2, <2>3, <2>4, <2>5, <2>6, <2>7, <2>8
      DEF PubStep
  <1>3. CASE RecStep
    <2>1. CASE List \/ TakeUp \/ ReadJournals \/ Forget \/ Check \/ Attend
      BY <2>1 DEF List, TakeUp, ReadJournals, Forget, Check, Attend
    <2> QED
      BY <1>3, <1>p, <1>r, <1>c, <2>1 DEF RecStep
  <1>4. CASE Resolve
    BY <1>4 DEF Resolve
  <1>5. CASE Fault
    <2>1. CASE PublisherFails \/ Crash \/ MovePolicy \/ \E f \in Files: Intrude(f) \/ Alter(f)
      BY <2>1 DEF PublisherFails, Crash, MovePolicy, Intrude, Alter, Unbounded
    <2>3. CASE StagingCancelled
      BY <2>3 DEF StagingCancelled
    <2>4. CASE \E t \in threads: StagedLate(t)
      <3>1. PICK t \in threads: StagedLate(t)
        BY <2>4
      <3>2. /\ UNCHANGED <<crossed, torn>> /\ stranded' = stranded \union {t.file}
            /\ threads' = threads \ {t}
        BY <3>1 DEF StagedLate
      <3> QED
        BY <3>2
    <2>2. CASE \E p \in Procs: RestoreFails(p) \/ StoreFails(p) \/ CleanFails(p)
      BY SMTT(30), <2>2 DEF RestoreFails, StoreFails, CleanFails, Unbounded
    <2> QED
      BY <1>5, <2>1, <2>2, <2>3, <2>4 DEF Fault
  <1> QED
    BY ZenonT(30), <1>1, <1>2, <1>3, <1>4, <1>5 DEF Next
-----------------------------------------------------------------------------
(* The files.                                                               *)

\* The rows of the files that nothing was moved for, and of those that may be moved next.
Unpublished == {"none", "planned", "staged", "rolled_back"}
Movable == {"validated", "replacement_backed_up"}
\* A file whose staged file may come back at any time.
Loose(g) == crossed /\ g \in stranded
\* What is on the paths of a file: where its row says that it is in the library or not yet, so it
\* is; a replaced file is in its place, aside or in the bin, and goes nowhere but there.
Shelved(g) ==
  /\ Loose(g) \/ (disk[g].dest = "new" => disk[g].temp = "absent")
  /\ Loose(g) \/ (journal[g] \in Unpublished => disk[g].dest # "new")
  /\ journal[g] = "published" \/ catalog => disk[g].dest = "new"
  /\ ~catalog => disk[g].bin = "absent" /\ disk[g].source # "absent"
  /\ disk[g].backup \in {"absent", "old"}
  /\ g \notin SamePath => disk[g].backup = "absent"
  /\ g \notin OtherPath => disk[g].other = "absent"
  /\ g \in SamePath => "old" \in {disk[g].dest, disk[g].backup, disk[g].bin}
  /\ g \in OtherPath => "old" \in {disk[g].other, disk[g].bin}
\* How that stands with a publisher in the middle of its work: what it has not prepared is not in
\* the library, and what it is about to move it has staged and finds as it was.
Carried(g) ==
  /\ pub.at \in Preparing /\ pub.view[g] \in Unpublished
       => (Loose(g) \/ disk[g].dest # "new") /\ journal[g] # "published"
  /\ pub.at \in Preparing \union {"enter"} \union Publishing /\ pub.view[g] \in Movable =>
       \/ Loose(g)
       \/ /\ disk[g].temp = "new" => journal[g] \notin Unpublished
          /\ rec.at = "undone" /\ rec.f = g /\ g \in rec.fresh => disk[g].temp = "absent"
  /\ pub.at \in {"place_art", "record"} /\ pub.f = g => disk[g].dest = "new"
  /\ \/ pub.at = "boundary" /\ g < pub.f
     \/ pub.at \in {"place_art", "record"} /\ pub.was /\ g < pub.f
     \/ pub.at = "recheck"
     => (g \in SamePath /\ pub.view[g] = "validated" => disk[g].dest # "absent")
  /\ \/ pub.at \in {"publish", "backed", "place"} /\ g >= pub.f
     \/ pub.at \in {"place_art", "record"} /\ ~pub.was /\ g > pub.f
     => (pub.view[g] # "published" => disk[g].temp = "new")
  /\ \/ pub.at = "publish" /\ g >= pub.f
     \/ pub.at \in {"backed", "place"} /\ g > pub.f
     \/ pub.at \in {"place_art", "record"} /\ ~pub.was /\ g > pub.f
     => (g \in SamePath /\ pub.view[g] = "validated" => disk[g].dest = "old")
  /\ pub.at = "place" /\ g = pub.f => pub.view[g] # "published"
  /\ pub.at = "backed" /\ g = pub.f => pub.view[g] = "validated"
  /\ pub.at \in ({"mark", "open", "enter"} \union Preparing \union Publishing) \ {"place_art", "record"}
       => ~pub.was
\* And with a rollback: what it has marked does not count as published, and what it has taken
\* away is away.
Restoring(g) == \A p \in Procs:
  /\ proc[p].at \in Rolling /\ g <= proc[p].f /\ proc[p].view[g] = "rollback_pending"
       => journal[g] # "published"
  /\ proc[p].at \in Undoing \ {"undo_dest"} /\ g = proc[p].f => Loose(g) \/ disk[g].dest # "new"
  /\ proc[p].at = "undo_dest" /\ g = proc[p].f /\ ~proc[p].was => Loose(g) \/ disk[g].dest # "new"
\* What is said of the paths of a file.
Stored(g) == Shelved(g) /\ Carried(g) /\ Restoring(g)

\* A thread that outlived its call stages a file that is not in the library, and unless a call
\* crossed it, the publisher does nothing meanwhile but to roll back.
Threaded(g) == ~crossed =>
  /\ threads = {} \/ pub.at \in Rolling \union {"finish", "idle"}
  /\ (\E t \in threads: t.file = g) => disk[g].dest # "new"

\* Every step keeps the files.
LEMMA StepStored ==
  ASSUME Typed, Placed, \A h \in Files: Copied(h) /\ Settles(h), NEW g \in Files, Stored(g),
         Threaded(g), Next
  PROVE  Stored(g)'
  <1> USE DEF Stored, Shelved, Carried, Restoring, Unpublished, Movable, Procs, pub, rec, Preparing, Publishing,
              Undoing, Cleaning, Rolling, Prepared
  <1>t. /\ proc["pub"].f \in 0..Count /\ proc["rec"].f \in 0..Count /\ g \in 1..Count
        /\ Other("pub") = "rec" /\ Other("rec") = "pub" /\ Stands
        /\ SamePath \intersect OtherPath = {} /\ (Loose(g) => Loose(g)')
    BY TheTwo, CrossedGrows DEF Files, Placed, Loose
  <1>k. /\ rec.at \in Undoing \union Cleaning => lock = "rec"
        /\ pub.at \in Publishing \union Undoing \union Cleaning => lock = "pub"
        /\ rec.at \notin {"mark", "open", "enter"} \union Preparing \union Publishing
        /\ \A p \in Procs: proc[p].at \in Undoing => ~catalog
        /\ \A p \in Procs: proc[p].at \in Cleaning => catalog
        /\ pub.at \in {"enter"} \union Preparing \union Publishing => ~catalog
        /\ \A p \in Procs: proc[p].at \in Undoing /\ g = proc[p].f
                            => proc[p].view[g] = "rollback_pending"
        /\ pub.at \in Publishing \union {"enter"} \/ (pub.at \in Preparing /\ g < pub.f)
             => pub.view[g] \in Prepared
        /\ pub.at \in {"artwork", "stage", "seal"} /\ g = pub.f => pub.view[g] = "planned"
        /\ pub.at = "validate" /\ g = pub.f => pub.view[g] = "staged"
    BY <1>t DEF Placed, Locked, Copied, Settles, Adopted, BeforeCommit, AfterCommit, Stands, Holding
  <1>q. /\ rec.at = "roll" /\ lock = "pub" /\ pub.at \in Publishing \union {"enter"}
             /\ rec.view[g] = "rollback_pending" => journal[g] = "rollback_pending"
        /\ \A p \in Procs: g \in proc[p].fresh /\ (proc[p].at \in Rolling => g <= proc[p].f)
                            => proc[p].view[g] = journal[g]
    BY DEF Settles, Queued, Copied
  <1>y. /\ disk[g].temp \in {"absent", "new"} /\ disk[g].dest \in {"absent", "old", "new", "foreign"}
        /\ disk[g].other \in {"absent", "old"} /\ disk[g].bin \in {"absent", "old"}
    BY DEF Typed, Paths, Whats
  <1>p. ASSUME PreparationFails, pub.at \in Preparing PROVE Stored(g)'
    BY SMTT(30), <1>p, <1>t, <1>k, PreparationFailsSees, PreparationFailsActs DEF Seen, Rests, Left
  <1>c. ASSUME CriticalFails, pub.at \in Publishing \union {"enter"} PROVE Stored(g)'
    BY SMTT(30), <1>c, <1>t, <1>k, CriticalFailsSees, CriticalFailsActs DEF Walks, Seen, Rests, Left
  <1>r. ASSUME NEW p \in Procs, proc[p].f \in Files, proc[p].at \in Undoing, CannotRestore(p),
               UNCHANGED <<bundle, catalog, disk, lock>>
        PROVE  Stored(g)'
    BY SMTT(30), <1>r, <1>t, <1>k, CannotRestoreSees DEF Seen, Rests, Left
  <1>f. ASSUME NEW p \in Procs, proc[p].f \in Files, proc[p].at \in Cleaning, CannotClean(p),
               UNCHANGED <<bundle, journal, catalog, lock>>
        PROVE  Stored(g)'
    BY SMTT(30), <1>f, <1>t, <1>k, CannotCleanSees DEF Sweeps, Seen, Rests, Left
  <1>d. ASSUME NEW p \in Procs, Drops(p), UNCHANGED <<bundle, journal, catalog, disk>>,
               UNCHANGED lock \/ lock' = Released(p)
        PROVE  Stored(g)'
    BY SMTT(30), <1>d, <1>t, <1>k, DropsSees DEF Anew, Seen, Rests, Left
  <1>1. CASE Call
    BY SMTT(30), <1>1, <1>t, <1>k, CallSees, CallActs
    DEF Anew, Seen, Rests, Left
  <1>2. CASE Mark
    BY SMTT(30), <1>2, <1>t, <1>k, MarkSees, MarkActs
    DEF Anew, Walks, Seen, Rests, Left
  <1>3. CASE Open
    BY SMTT(30), <1>3, <1>t, <1>k, <1>q, OpenSees, OpenActs
    DEF Anew, Seen, Rests, Left
  <1>4. CASE Plan
    <2>1. pub.at = "plan" /\ pub.f \in Files /\ UNCHANGED <<bundle, catalog, disk>>
      BY <1>4, <1>t, PlanActs
    <2>2. CASE /\ pub.view[pub.f] \in {"none", "rolled_back"}
               /\ journal'[g] = IF g = pub.f THEN "planned" ELSE journal[g]
               /\ Seen("pub", g, "plan", pub.f, IF g = pub.f THEN "planned" ELSE pub.view[g],
                       g \in pub.fresh \/ g = pub.f, pub.was, pub.attention)
               /\ Rests("pub", g) /\ Left("rec", g, g = pub.f)
      BY <1>t, <1>k, <2>1, <2>2 DEF Seen, Rests, Left
    <2>3. CASE UNCHANGED journal /\ \E at \in {"artwork", "stage", "validate"}:
                                     Walks("pub", g, at, pub.f, pub.was, pub.attention)
      BY <1>t, <1>k, <2>1, <2>3 DEF Walks, Seen, Rests, Left
    <2>4. CASE /\ pub.view[pub.f] \in {"validated", "replacement_backed_up", "published"}
               /\ GetsReady(g, pub.view[g], FALSE) /\ UNCHANGED journal
      BY SMTT(30), <1>t, <1>k, <2>1, <2>4 DEF GetsReady, Seen, Rests, Left
    <2> QED
      BY ZenonT(60), <1>4, <1>t, <1>p, <2>1, <2>2, <2>3, <2>4, PlanSees DEF Preparing
  <1>5. CASE StageArtwork \/ Stage
    <2>1. pub.f \in Files /\ UNCHANGED <<bundle, journal, catalog, lock>>
      BY <1>5, <1>t, StageActs
    <2>2. CASE /\ pub.at = "artwork" /\ SameBut(g, {"artTemp"})
               /\ Walks("pub", g, "stage", pub.f, pub.was, pub.attention)
      BY <1>t, <1>k, <2>1, <2>2 DEF SameBut, Walks, Seen, Rests, Left
    <2>3. CASE /\ pub.at = "stage" /\ SameBut(g, {"temp"})
               /\ disk'[g].temp = IF g = pub.f THEN "new" ELSE disk[g].temp
               /\ Walks("pub", g, "seal", pub.f, pub.was, pub.attention)
      BY SMTT(30), <1>t, <1>k, <2>1, <2>3 DEF SameBut, Walks, Seen, Rests, Left
    <2> QED
      BY <1>5, <1>t, <2>2, <2>3, StageSees
  <1>6. CASE Seal
    BY SMTT(30), <1>6, <1>t, <1>k, <1>p, SealSees, SealActs
    DEF Writes, Seen, Rests, Left
  <1>7. CASE Validate
    BY SMTT(30), <1>7, <1>t, <1>k, <1>p, ValidateSees, ValidateActs
    DEF GetsReady, Seen, Rests, Left
  <1>8. CASE Enter
    BY SMTT(30), <1>8, <1>t, <1>k, <1>c, EnterSees, EnterActs
    DEF Walks, Seen, Rests, Left
  <1>9. CASE Boundary
    <2>1. pub.at = "boundary" /\ pub.f \in Files /\ UNCHANGED <<bundle, catalog, disk>>
      BY <1>9, <1>t, BoundaryActs
    <2>2. CASE /\ Moved(pub.f) /\ UNCHANGED <<journal, lock>>
               /\ Walks("pub", g, "place_art", pub.f, TRUE, pub.attention)
      BY <1>t, <1>k, <2>1, <2>2 DEF Moved, Walks, Seen, Rests, Left
    <2>3. CASE /\ Aside(pub.f) /\ pub.f \in pub.fresh /\ UNCHANGED lock
               /\ journal'[g] = IF g = pub.f THEN "replacement_backed_up" ELSE journal[g]
               /\ GetsOn(g, "boundary", "recheck",
                         IF g = pub.f THEN "replacement_backed_up" ELSE pub.view[g], pub.was, TRUE)
      BY <1>t, <1>k, <1>q, <2>1, <2>3 DEF Aside, GetsOn, Seen, Rests, Left
    <2>4. CASE /\ ~Moved(pub.f) /\ ~Aside(pub.f) /\ UNCHANGED <<journal, lock>>
               /\ GetsOn(g, "boundary", "recheck", pub.view[g], pub.was, FALSE)
      BY SMTT(30), <1>t, <1>k, <2>1, <2>4 DEF Aside, GetsOn, Seen, Rests, Left
    <2> QED
      BY <1>9, <1>t, <1>c, <2>1, <2>2, <2>3, <2>4, BoundarySees
  <1>10. CASE Recheck
    <2>1. CASE /\ Unchanged(g) /\ Walks("pub", g, "publish", 1, pub.was, pub.attention)
               /\ SameBut(g, {"artTemp"})
      <3>1. pub.at = "recheck" /\ UNCHANGED <<bundle, journal, catalog>>
        BY ZenonT(30), <1>10, RecheckActs
      <3> QED
        BY SMTT(30), <1>t, <1>k, <1>y, <2>1, <3>1 DEF Unchanged, SameBut, Walks, Seen, Rests, Left
    <2> QED
      BY <1>10, <1>c, <2>1, RecheckSees, RecheckActs
  <1>11. CASE Publish
    BY SMTT(30), <1>11, <1>t, <1>k, <1>c, PublishSees, PublishActs
    DEF SameBut, GetsOn, Walks, Seen, Rests, Left
  <1>12. CASE Backed
    BY SMTT(30), <1>12, <1>t, <1>k, <1>c, BackedSees, BackedActs
    DEF Writes, Seen, Rests, Left
  <1>13. CASE Place
    <2>1. pub.at = "place" /\ pub.f \in Files /\ UNCHANGED <<bundle, journal, catalog>>
      BY <1>13, <1>t, PlaceActs
    <2>2. CASE /\ disk[pub.f].dest = "absent" /\ SameBut(g, {"dest", "temp"})
               /\ disk'[g].dest = IF g = pub.f THEN disk[g].temp ELSE disk[g].dest
               /\ disk'[g].temp = IF g = pub.f THEN "absent" ELSE disk[g].temp
               /\ Walks("pub", g, "place_art", pub.f, pub.was, pub.attention)
      BY SMTT(30), <1>t, <1>k, <1>q, <2>1, <2>2 DEF SameBut, Walks, Seen, Rests, Left
    <2> QED
      BY <1>13, <1>t, <1>c, <2>1, <2>2, PlaceSees
  <1>14. CASE PlaceArtwork
    <2>1. pub.at = "place_art" /\ pub.f \in Files /\ UNCHANGED <<bundle, journal, catalog>>
      BY <1>14, <1>t, PlaceArtworkActs
    <2>2. CASE /\ SameBut(g, {"artDest", "artTemp"})
               /\ Walks("pub", g, "record", pub.f, pub.was, pub.attention)
      BY SMTT(30), <1>t, <1>k, <2>1, <2>2 DEF SameBut, Walks, Seen, Rests, Left
    <2> QED
      BY <1>14, <1>t, <1>c, <2>1, <2>2, PlaceArtworkSees
  <1>15. CASE RecordPublished
    <2>1. pub.at = "record" /\ pub.f \in Files /\ UNCHANGED <<bundle, catalog, disk>>
      BY <1>15, <1>t, RecordActs
    <2>2. CASE /\ pub.f \in pub.fresh
               /\ journal'[g] = IF g = pub.f THEN "published" ELSE journal[g]
               /\ pub.was
               /\ GetsOn(g, "boundary", "recheck",
                         IF g = pub.f THEN "published" ELSE pub.view[g], FALSE, TRUE)
      BY <1>t, <1>k, <1>q, <2>1, <2>2 DEF GetsOn, Seen, Rests, Left
    <2>3. CASE /\ pub.f \in pub.fresh
               /\ journal'[g] = IF g = pub.f THEN "published" ELSE journal[g]
               /\ ~pub.was
               /\ GetsOn(g, "publish", "commit",
                         IF g = pub.f THEN "published" ELSE pub.view[g], FALSE, TRUE)
      BY <1>t, <1>k, <1>q, <2>1, <2>3 DEF GetsOn, Seen, Rests, Left
    <2> QED
      BY <1>15, <1>t, <1>c, <2>1, <2>2, <2>3, RecordSees
  <1>16. CASE Commit
    <2>1. pub.at = "commit" /\ UNCHANGED disk
      BY <1>16, CommitActs
    <2>2. CASE /\ journal[g] = "published" /\ bundle' = "catalog_committed" /\ catalog' = TRUE
               /\ journal'[g] = "catalog_committed"
               /\ lock' = Released("pub") /\ Anew("pub", g, "lease", TRUE)
      BY SMTT(30), <1>t, <1>k, <2>1, <2>2 DEF Anew, Seen, Rests, Left
    <2> QED
      BY <1>16, <1>c, <2>1, <2>2, CommitSees
  <1>17. ASSUME NEW p \in Procs, Undo(p) PROVE Stored(g)'
    <2>1. /\ proc[p].at = "roll" /\ lock = p /\ proc[p].f \in Files
          /\ UNCHANGED <<bundle, catalog, disk, lock>>
      BY <1>17, UndoActs
    <2>2. ASSUME UNCHANGED journal, NEW attention,
                 Walks(p, g, "roll", proc[p].f - 1, proc[p].was, attention)
          PROVE  Stored(g)'
      BY SMTT(30), <1>t, <1>k, <2>1, <2>2 DEF Walks, Seen, Rests, Left
    <2>3. CASE /\ UNCHANGED journal /\ proc[p].view[proc[p].f] = "rollback_pending"
               /\ Walks(p, g, "undo_dest", proc[p].f, Was(p), proc[p].attention)
      BY <1>t, <1>k, <1>y, <2>1, <2>3 DEF Was, Walks, Seen, Rests, Left
    <2>4. CASE Writes(p, g, "rollback_pending", "undo_dest", proc[p].f, Was(p), proc[p].attention)
      BY SMTT(30), <1>t, <1>k, <1>y, <2>1, <2>4 DEF Was, Writes, Seen, Rests, Left
    <2> QED
      BY <1>17, <2>2, <2>3, <2>4, UndoSees
  <1>18. ASSUME NEW p \in Procs, UndoDest(p) \/ UndoArtwork(p) \/ UndoBackup(p) \/ UndoTemp(p)
         PROVE Stored(g)'
    <2>1. proc[p].f \in Files /\ UNCHANGED <<bundle, catalog, lock>>
      BY <1>18, <1>t, RestoreActs
    <2>2. CASE /\ proc[p].at = "undo_dest" /\ UNCHANGED journal
               /\ Walks(p, g, "undo_art", proc[p].f, proc[p].was, proc[p].attention)
               /\ \/ ~proc[p].was /\ UNCHANGED disk
                  \/ /\ proc[p].was /\ disk[proc[p].f].dest \in {"absent", "new"} /\ SameBut(g, {"dest"})
                     /\ disk'[g].dest = IF g = proc[p].f THEN "absent" ELSE disk[g].dest
      BY <1>t, <1>k, <2>1, <2>2 DEF SameBut, Walks, Seen, Rests, Left
    <2>3. CASE /\ proc[p].at = "undo_art" /\ UNCHANGED journal
               /\ Walks(p, g, "undo_backup", proc[p].f, proc[p].was, proc[p].attention)
               /\ SameBut(g, {"artDest", "artTemp"})
      BY SMTT(30), <1>t, <1>k, <2>1, <2>3 DEF SameBut, Walks, Seen, Rests, Left
    <2>4. CASE /\ proc[p].at = "undo_backup" /\ UNCHANGED journal
               /\ Walks(p, g, "undo_temp", proc[p].f, proc[p].was, proc[p].attention)
               /\ SameBut(g, {"dest", "backup"})
               /\ disk'[g].dest = IF g = proc[p].f /\ disk[g].backup = "old" THEN "old"
                                  ELSE disk[g].dest
               /\ disk'[g].backup = IF g = proc[p].f /\ disk[g].backup = "old" THEN "absent"
                                    ELSE disk[g].backup
      BY SMTT(30), <1>t, <1>k, <2>1, <2>4 DEF SameBut, Walks, Seen, Rests, Left
    <2>5. CASE /\ proc[p].at = "undo_temp" /\ UNCHANGED journal
               /\ Walks(p, g, "undone", proc[p].f, proc[p].was, proc[p].attention)
               /\ SameBut(g, {"temp"})
               /\ disk'[g].temp = IF g = proc[p].f THEN "absent" ELSE disk[g].temp
      BY SMTT(30), <1>t, <1>k, <2>1, <2>5 DEF SameBut, Walks, Seen, Rests, Left
    <2>6. CASE proc[p].at \in {"undo_dest", "undo_art"} /\ CannotRestore(p) /\ UNCHANGED disk
      BY SMTT(30), <1>r, <2>1, <2>6
    <2> HIDE DEF Stored
    <2>7. CASE proc[p].at = "undo_dest"
      BY <1>18, <1>t, <2>2, <2>6, <2>7, RestoreSees
    <2>8. CASE proc[p].at = "undo_art"
      BY ZenonT(60), <1>18, <1>t, <2>3, <2>6, <2>8, RestoreSees
    <2>9. CASE proc[p].at \notin {"undo_dest", "undo_art"}
      BY ZenonT(60), <1>18, <1>t, <2>4, <2>5, <2>9, RestoreSees
    <2> QED
      BY <2>7, <2>8, <2>9
  <1>19. ASSUME NEW p \in Procs, Undone(p) PROVE Stored(g)'
    <2>1. proc[p].at = "undone" /\ proc[p].f \in Files /\ UNCHANGED <<bundle, catalog, disk, lock>>
      BY <1>19, <1>t, UndoneActs
    <2>2. CASE /\ proc[p].f \in proc[p].fresh
               /\ Writes(p, g, "rolled_back", "roll", proc[p].f - 1, FALSE, proc[p].attention)
      BY SMTT(30), <1>t, <1>k, <1>y, <2>1, <2>2 DEF Writes, Seen, Rests, Left
    <2>3. CASE UNCHANGED journal /\ Walks(p, g, "roll", proc[p].f - 1, proc[p].was, TRUE)
      BY <1>t, <1>k, <2>1, <2>3 DEF Walks, Seen, Rests, Left
    <2> QED
      BY <1>19, <1>t, <2>2, <2>3, UndoneSees
  <1>20. ASSUME NEW p \in Procs, RollEnds(p) \/ NothingToRoll(p) PROVE Stored(g)'
    BY SMTT(30), <1>20, <1>t, <1>k, RollEndsSees, RollEndsActs
    DEF Anew, Seen, Rests, Left
  <1>21. ASSUME NEW p \in Procs, AskToClean(p) PROVE Stored(g)'
    BY SMTT(30), <1>21, <1>t, <1>k, <1>d, CleanSees, AskActs
    DEF Walks, Seen, Rests, Left
  <1>22. ASSUME NEW p \in Procs, Clean(p) PROVE Stored(g)'
    BY SMTT(30), <1>22, <1>t, <1>k, CleanSees, CleanActs
    DEF Sweeps, Seen, Rests, Left
  <1>23. ASSUME NEW p \in Procs, CleanSource(p) \/ CleanOld(p) PROVE Stored(g)'
    <2>1. proc[p].f \in Files /\ UNCHANGED <<bundle, journal, catalog, lock>>
      BY <1>23, <1>t, CleanFileActs
    <2>2. CASE /\ proc[p].at = "clean_source" /\ SameBut(g, {"source"})
               /\ disk'[g].source = IF g = proc[p].f THEN "absent" ELSE disk[g].source
               /\ Walks(p, g, "clean_old", proc[p].f, proc[p].was, proc[p].attention)
      BY <1>t, <1>k, <2>1, <2>2 DEF SameBut, Walks, Seen, Rests, Left
    <2>3. CASE /\ proc[p].at = "clean_old" /\ SameBut(g, {"backup", "other", "bin"})
               /\ g # proc[p].f => UNCHANGED (disk[g])
               /\ g = proc[p].f =>
                    /\ disk'[g].backup = IF disk[g].backup = "old" THEN "absent" ELSE disk[g].backup
                    /\ disk'[g].other = IF disk[g].backup # "old" THEN "absent" ELSE disk[g].other
                    /\ disk'[g].bin = IF disk[g].backup = "old" \/ disk[g].other = "old" THEN "old"
                                      ELSE disk[g].bin
               /\ Sweeps(p, g, proc[p].view[g], g \in proc[p].failed, proc[p].f + 1)
      <3>1. /\ catalog /\ proc'[p].at \in {"escalate", "clean_source"} /\ Left(Other(p), g, FALSE)
            /\ lock = p /\ Other(p) \in Procs /\ Other(p) # p
        BY ZenonT(60), <1>t, <1>k, <2>3 DEF Sweeps, Seen
      <3>2. Shelved(g)'
        BY <1>t, <1>y, <2>1, <2>3, <3>1 DEF SameBut
      <3>3. (Carried(g) /\ Restoring(g))'
        BY SMTT(30), <1>t, <1>k, <2>1, <3>1, <3>2 DEF Left, Seen, Rests
      <3> QED
        BY <3>2, <3>3
    <2> QED
      BY SMTT(30), <1>23, <1>t, <1>f, <2>1, <2>2, <2>3, CleanFileSees
  <1>24. ASSUME NEW p \in Procs, CleanEnds(p) PROVE Stored(g)'
    BY SMTT(30), <1>24, <1>t, <1>k, <1>d, CleanEndsSees, CleanEndsActs
    DEF Anew, Seen, Rests, Left
  <1>25. CASE List
    BY SMTT(30), <1>25, <1>t, <1>k, ListSees, ListActs
    DEF Anew, Seen, Rests, Left
  <1>26. CASE TakeUp
    BY SMTT(30), <1>26, <1>t, <1>k, TakeUpSees, TakeUpActs
    DEF Anew, Walks, Seen, Rests, Left
  <1>27. CASE ReadJournals
    BY SMTT(30), <1>27, <1>t, <1>k, <1>d, ReadJournalsSees, ReadJournalsActs
    DEF Walks, Seen, Rests, Left
  <1>28. CASE Forget \/ Check
    BY SMTT(30), <1>28, <1>t, <1>k, ForgetSees, ForgetActs
    DEF Anew, Seen, Rests, Left
  <1>29. CASE Attend
    BY SMTT(30), <1>29, <1>t, <1>k, AttendSees, AttendActs
    DEF Flagged, Anew, Seen, Rests, Left
  <1>30. CASE Resolve
    BY SMTT(30), <1>30, <1>t, <1>k, ResolveSees, ResolveActs
    DEF Seen, Rests, Left
  <1>31. CASE Crash
    BY <1>31, <1>t, <1>k, CrashSees, CrashActs DEF Seen
  <1>32. CASE World
    <2>1. /\ UNCHANGED <<bundle, journal, catalog, proc, crossed>>
      BY <1>32, WorldActs
    <2>2. CASE /\ g \in stranded' /\ \E t \in threads: t.file = g
               /\ \/ SameBut(g, {"temp"}) /\ disk'[g].temp = "new"
                  \/ SameBut(g, {"artTemp"}) /\ disk'[g].artTemp = TRUE
      <3>1. Loose(g)' \/ (pub.at \in Rolling \union {"finish", "idle"} /\ disk[g].dest # "new")
        BY <2>1, <2>2 DEF Threaded, Loose
      <3> QED
        BY SMTT(30), <1>t, <1>k, <2>1, <2>2, <3>1 DEF SameBut
    <2>3. CASE /\ SameBut(g, {"dest"})
               /\ \/ disk'[g].dest = disk[g].dest
                  \/ disk[g].dest = "absent" /\ disk'[g].dest = "foreign"
      BY SMTT(30), <1>t, <1>k, <2>1, <2>3 DEF SameBut
    <2>4. CASE /\ SameBut(g, {"source"})
               /\ \/ disk'[g].source = disk[g].source
                  \/ disk[g].source = "new" /\ disk'[g].source = "changed"
      BY SMTT(30), <1>t, <1>k, <2>1, <2>4 DEF SameBut
    <2>5. CASE UNCHANGED disk
      BY SMTT(30), <1>t, <1>k, <2>1, <2>5
    <2> HIDE DEF Stored
    <2> QED
      BY <1>32, <2>2, <2>3, <2>4, <2>5, WorldSees
  <1>33. CASE PublisherFails \/ StagingCancelled
    <2>1. Starts("pub", "idle", {}) => Anew("pub", g, "idle", FALSE)
      BY TheTwo, SeenMoves
    <2> QED
      BY <1>33, <1>t, <1>k, <1>p, <1>c, <2>1, PublisherFailsActs DEF Anew, Seen, Rests, Left
  <1>34. ASSUME NEW p \in Procs, RestoreFails(p) \/ StoreFails(p) \/ CleanFails(p) PROVE Stored(g)'
    BY <1>34, <1>t, <1>k, <1>r, <1>f, <1>d, StepFailsActs
  <1> QED
    BY ZenonT(30), <1>1, <1>2, <1>3, <1>4, <1>5, <1>6, <1>7, <1>8, <1>9, <1>10, <1>11, <1>12, <1>13, <1>14,
       <1>15, <1>16, <1>17, <1>18, <1>19, <1>20, <1>21, <1>22, <1>23, <1>24, <1>25, <1>26,
       <1>27, <1>28, <1>29, <1>30, <1>31, <1>32, <1>33, <1>34
    DEF Next, PubStep, RecStep, Fault, World, Rolls, Cleans

\* Every step keeps what is said of such threads.
LEMMA StepThreaded ==
  ASSUME Typed, Placed, NEW g \in Files, Copied(g), Stored(g), Threaded(g), Next
  PROVE  Threaded(g)'
  <1> DEFINE After == Rolling \union {"finish", "idle"}
  <1> USE DEF Procs, pub, rec, Preparing, Publishing, Undoing, Cleaning, Rolling
  <1>t. /\ proc["pub"].f \in 0..Count /\ proc["rec"].f \in 0..Count /\ g \in 1..Count
        /\ Other("pub") = "rec" /\ Other("rec") = "pub" /\ Stands
        /\ rec.at \notin {"mark", "open", "enter"} \union Preparing \union Publishing
    BY TheTwo DEF Files, Placed, Stands
  <1>1. ASSUME ~crossed', StagingCancelled PROVE Threaded(g)'
    <2>1. /\ pub.at \in {"artwork", "stage"} /\ PreparationFails /\ ~crossed
          /\ \A t \in threads': t \in threads \/ t.file = pub.f
      BY <1>1, CrossedGrows DEF StagingCancelled
    <2>2. threads = {}
      BY <2>1 DEF Threaded
    <2>3. pub'.at \in After /\ UNCHANGED disk
      BY <1>t, <2>1, PreparationFailsSees, PreparationFailsActs DEF Seen
    <2>4. g = pub.f => disk[g].dest # "new"
      BY <2>1 DEF Copied, Stored, Carried, Unpublished, Loose
    <2> QED
      BY <2>1, <2>2, <2>3, <2>4 DEF Threaded
  \* A step that neither leaves the rollback nor puts the file at its destination.
  <1>2. ASSUME threads' \subseteq threads, ~crossed', pub.at \in After => pub'.at \in After,
               disk'[g].dest = "new" => disk[g].dest = "new"
        PROVE  Threaded(g)'
    BY <1>2, CrossedGrows DEF Threaded
  <1> DEFINE Quiet == /\ pub.at \in After => pub'.at \in After
                      /\ disk'[g].dest = "new" => disk[g].dest = "new"
  <1>3. ASSUME pub.at \in After, Next PROVE Call \/ Quiet
    <2>r. ASSUME NEW p \in Procs, proc[p].f \in Files, proc[p].at \in Undoing, CannotRestore(p),
                 UNCHANGED <<bundle, catalog, disk, lock>>
          PROVE  Quiet
      BY SMTT(30), <2>r, <1>t, CannotRestoreSees DEF Seen, Rests, Left
    <2>f. ASSUME NEW p \in Procs, proc[p].f \in Files, proc[p].at \in Cleaning, CannotClean(p),
                 UNCHANGED <<bundle, journal, catalog, lock>>
          PROVE  Quiet
      BY <1>3, <2>f, <1>t, CannotCleanSees DEF Sweeps, Seen, Rests, Left
    <2>d. ASSUME NEW p \in Procs, Drops(p), UNCHANGED <<bundle, journal, catalog, disk>>,
                 UNCHANGED lock \/ lock' = Released(p)
          PROVE  Quiet
      BY SMTT(30), <2>d, <1>t, DropsSees DEF Anew, Seen, Rests, Left
    <2>1. ~(\/ Mark \/ Open \/ Plan \/ StageArtwork \/ Stage \/ Seal \/ Validate \/ Enter \/ Boundary
            \/ Recheck \/ Publish \/ Backed \/ Place \/ PlaceArtwork \/ RecordPublished \/ Commit)
      BY <1>3 DEF Mark, Open, Plan, StageArtwork, Stage, Seal, Validate, Enter, Boundary,
                  Recheck, Publish, Backed, Place, PlaceArtwork, RecordPublished, Commit
    <2>17. ASSUME NEW p \in Procs, Undo(p) PROVE Quiet
      <3>1. proc[p].at = "roll" /\ UNCHANGED disk
        BY <2>17, UndoActs
      <3>2. /\ Left(Other(p), g, FALSE) \/ Left(Other(p), g, g = proc[p].f)
            /\ proc'[p].at \in {"roll", "undo_dest"}
        BY <2>17, UndoSees DEF Writes, Walks, Seen
      <3> QED
        BY <1>3, <1>t, <3>1, <3>2 DEF Left, Seen, Rests
    <2>18. ASSUME NEW p \in Procs, UndoDest(p) \/ UndoArtwork(p) \/ UndoBackup(p) \/ UndoTemp(p)
           PROVE  Quiet
      <3>1. proc[p].f \in Files /\ UNCHANGED <<bundle, catalog, lock>>
        BY <2>18, <1>t, RestoreActs
      <3>2. CASE CannotRestore(p) /\ UNCHANGED disk /\ proc[p].at \in Undoing
        BY <2>r, <3>1, <3>2
      <3>3. CASE \/ Walks(p, g, "undo_art", proc[p].f, proc[p].was, proc[p].attention)
                 \/ Walks(p, g, "undo_backup", proc[p].f, proc[p].was, proc[p].attention)
                 \/ Walks(p, g, "undo_temp", proc[p].f, proc[p].was, proc[p].attention)
                 \/ Walks(p, g, "undone", proc[p].f, proc[p].was, proc[p].attention)
        <4>1. pub.at \in After => pub'.at \in After
          BY <1>3, <1>t, <3>3 DEF Walks, Seen, Rests, Left
        <4>2. \/ UNCHANGED disk \/ SameBut(g, {"artDest", "artTemp"}) \/ SameBut(g, {"temp"})
              \/ disk'[g].dest \in {"absent", "old", disk[g].dest}
          BY ZenonT(60), <2>18, <1>t, RestoreSees
        <4> QED
          BY <4>1, <4>2 DEF SameBut
      <3> HIDE DEF Quiet
      <3> QED
        BY ZenonT(60), <2>18, <1>t, <3>2, <3>3, RestoreSees
    <2>19. ASSUME NEW p \in Procs, Undone(p) PROVE Quiet
      BY ZenonT(60), <2>19, <1>t, UndoneSees, UndoneActs DEF Writes, Walks, Seen, Rests, Left
    <2>20. ASSUME NEW p \in Procs, RollEnds(p) \/ NothingToRoll(p) PROVE Quiet
      BY <2>20, <1>t, RollEndsSees, RollEndsActs DEF Anew, Seen, Rests, Left
    <2>21. ASSUME NEW p \in Procs, AskToClean(p) PROVE Quiet
      BY <1>3, <2>21, <1>t, <2>d, CleanSees, AskActs DEF Walks, Seen, Rests, Left
    <2>22. ASSUME NEW p \in Procs, Clean(p) PROVE Quiet
      BY SMTT(30), <1>3, <2>22, <1>t, CleanSees, CleanActs DEF Sweeps, Seen, Rests, Left
    <2>23. ASSUME NEW p \in Procs, CleanSource(p) \/ CleanOld(p) PROVE Quiet
      BY SMTT(30), <1>3, <2>23, <1>t, <2>f, CleanFileSees, CleanFileActs
      DEF SameBut, Sweeps, Walks, Seen, Rests, Left
    <2>24. ASSUME NEW p \in Procs, CleanEnds(p) PROVE Quiet
      BY <1>3, <2>24, <1>t, <2>d, CleanEndsSees, CleanEndsActs DEF Anew, Seen, Rests, Left
    <2>25. CASE List
      BY <2>25, <1>t, ListSees, ListActs DEF Anew, Seen, Rests, Left
    <2>26. CASE TakeUp
      BY <2>26, <1>t, TakeUpSees, TakeUpActs DEF Anew, Walks, Seen, Rests, Left
    <2>27. CASE ReadJournals
      BY <2>27, <1>t, <2>d, ReadJournalsSees, ReadJournalsActs DEF Walks, Seen, Rests, Left
    <2>28. CASE Forget \/ Check
      BY <2>28, <1>t, ForgetSees, ForgetActs DEF Anew, Seen, Rests, Left
    <2>29. CASE Attend
      BY <2>29, <1>t, AttendSees, AttendActs DEF Anew, Seen, Rests, Left
    <2>30. CASE Resolve
      BY <2>30, <1>t, ResolveSees, ResolveActs DEF Seen, Rests, Left
    <2>31. CASE Crash
      BY <2>31, <1>t, CrashSees, CrashActs DEF Seen
    <2>32. CASE World
      BY <2>32, <1>t, WorldSees, WorldActs DEF SameBut
    <2>33. CASE PublisherFails \/ StagingCancelled
      <3>1. Starts("pub", "idle", {}) => Anew("pub", g, "idle", FALSE)
        BY TheTwo, SeenMoves
      <3> QED
        BY <1>3, <1>t, <2>33, <3>1, PublisherFailsActs DEF Anew, Seen, Rests, Left
    <2>34. ASSUME NEW p \in Procs, RestoreFails(p) \/ StoreFails(p) \/ CleanFails(p) PROVE Quiet
      BY <2>34, <1>t, <2>r, <2>f, <2>d, StepFailsActs
    <2> HIDE DEF Quiet
    <2> QED
      BY <2>1, <2>17, <2>18, <2>19, <2>20, <2>21, <2>22, <2>23, <2>24, <2>25, <2>26, <2>27, <2>28,
         <2>29, <2>30, <2>31, <2>32, <2>33, <2>34
      DEF Next, PubStep, RecStep, Fault, World, Rolls, Cleans
  <1>4. ASSUME ~crossed', Call PROVE Threaded(g)'
    <2>1. threads' = {}
      BY <1>4 DEF Call
    <2> QED
      BY <2>1 DEF Threaded
  <1>5. ASSUME ~crossed', threads = {}, ~StagingCancelled PROVE Threaded(g)'
    <2>1. threads' = {}
      BY <1>5, CrossedGrows
    <2> QED
      BY <2>1 DEF Threaded
  <1>6. ASSUME ~crossed', threads # {} PROVE pub.at \in After
    BY <1>6, CrossedGrows DEF Threaded
  <1>7. ~StagingCancelled => threads' \subseteq threads
    BY CrossedGrows
  <1> QED
    <2>1. CASE crossed'
      BY <2>1 DEF Threaded
    <2> HIDE DEF After
    <2>2. CASE ~crossed' /\ threads # {} /\ ~StagingCancelled /\ ~Call
      BY <1>2, <1>3, <1>6, <1>7, <2>2
    <2> QED
      BY <1>1, <1>4, <1>5, <2>1, <2>2
-----------------------------------------------------------------------------
(* The cleanup.                                                             *)

\* Nothing of the import is left to clean up.
Empty(g) == disk[g].source = "absent" /\ disk[g].backup = "absent" /\ disk[g].other = "absent"
\* A file that counts as completed has left nothing behind; nor has one that a cleanup has passed
\* without putting it down as failed.
Swept(g) ==
  /\ journal[g] = "completed" \/ bundle = "completed" => Empty(g)
  /\ \A p \in Procs:
       /\ proc[p].at \in Cleaning /\ g \notin proc[p].failed
          /\ (proc[p].view[g] \in {"none", "completed"} \/ proc[p].at = "escalate" \/ g < proc[p].f)
          => Empty(g)
       /\ proc[p].at = "clean_old" /\ g = proc[p].f => disk[g].source = "absent"

\* Every step keeps that.
LEMMA StepSwept ==
  ASSUME Typed, Placed, \A h \in Files: Copied(h) /\ Settles(h), NEW g \in Files, Shelved(g),
         Swept(g), Next
  PROVE  Swept(g)'
  <1> USE DEF Swept, Empty, Procs, pub, rec, Cleaning, Committed
  <1>t. /\ proc["pub"].f \in 0..Count /\ proc["rec"].f \in 0..Count /\ g \in 1..Count
        /\ Other("pub") = "rec" /\ Other("rec") = "pub" /\ Stands
        /\ SamePath \intersect OtherPath = {}
    BY TheTwo DEF Files, Placed
  <1>v. ASSUME ~catalog, UNCHANGED catalog PROVE Swept(g)'
    <2>1. Settles(g)'
      BY StepSettles
    <2> QED
      BY <1>v, <2>1 DEF Settles, Adopted, AfterCommit
  <1>k. /\ pub.at \in Preparing \union Publishing \union {"enter", "roll"} => ~catalog
        /\ \A p \in Procs: proc[p].at \in Undoing => ~catalog
        /\ \A p \in Procs: proc[p].at \in Cleaning \union {"lease", "clean"} => catalog
        /\ \A p \in Procs: proc[p].at \in Cleaning => lock = p
        /\ journal[g] = "completed" \/ bundle = "completed" => catalog
        /\ catalog => journal[g] # "none"
    BY <1>t DEF Placed, Locked, Settles, Adopted, BeforeCommit, AfterCommit, Holding, Rolling
  <1>y. /\ disk[g].backup = "old" => disk[g].other = "absent"
        /\ disk[g].backup \in {"absent", "old"} /\ disk[g].other \in {"absent", "old"}
    BY <1>t DEF Shelved, Typed, Paths
  <1>p. ASSUME PreparationFails, pub.at \in Preparing PROVE Swept(g)'
    BY <1>p, <1>k, <1>v, PreparationFailsActs
  <1>c. ASSUME CriticalFails, pub.at \in Publishing \union {"enter"} PROVE Swept(g)'
    BY <1>c, <1>k, <1>v, CriticalFailsActs
  <1>r. ASSUME NEW p \in Procs, proc[p].at \in Undoing, CannotRestore(p),
               UNCHANGED <<bundle, catalog, disk, lock>>
        PROVE  Swept(g)'
    BY <1>r, <1>k, <1>v
  <1>f. ASSUME NEW p \in Procs, proc[p].f \in Files, proc[p].at \in Cleaning, CannotClean(p),
               UNCHANGED <<bundle, journal, catalog, lock>>
        PROVE  Swept(g)'
    BY <1>f, <1>t, <1>k, CannotCleanSees DEF Sweeps, Seen, Rests, Left
  <1>d. ASSUME NEW p \in Procs, Drops(p), UNCHANGED <<bundle, journal, catalog, disk>>,
               UNCHANGED lock \/ lock' = Released(p)
        PROVE  Swept(g)'
    BY <1>d, <1>t, <1>k, DropsSees DEF Anew, Seen, Rests, Left
  <1>1. CASE Call
    BY <1>1, <1>t, <1>k, CallSees, CallActs
    DEF Anew, Seen, Rests, Left
  <1>2. CASE Mark
    BY <1>2, <1>t, <1>k, MarkSees, MarkActs
    DEF Anew, Walks, Seen, Rests, Left
  <1>3. CASE Open
    BY <1>3, <1>t, <1>k, OpenSees, OpenActs
    DEF Anew, Seen, Rests, Left
  <1>4. CASE Plan
    BY <1>4, <1>t, <1>k, <1>v, PlanActs DEF Preparing, Publishing
  <1>5. CASE StageArtwork \/ Stage
    BY <1>5, <1>t, <1>k, <1>v, StageActs DEF Preparing, Publishing
  <1>6. CASE Seal
    BY <1>6, <1>t, <1>k, <1>v, SealActs DEF Preparing, Publishing
  <1>7. CASE Validate
    BY <1>7, <1>t, <1>k, <1>v, ValidateActs DEF Preparing, Publishing
  <1>8. CASE Enter
    BY <1>8, <1>t, <1>k, <1>v, EnterActs DEF Preparing, Publishing
  <1>9. CASE Boundary
    BY <1>9, <1>t, <1>k, <1>v, BoundaryActs DEF Preparing, Publishing
  <1>10. CASE Recheck
    BY <1>10, <1>t, <1>k, <1>v, RecheckActs DEF Preparing, Publishing
  <1>11. CASE Publish
    BY <1>11, <1>t, <1>k, <1>v, PublishActs DEF Preparing, Publishing
  <1>12. CASE Backed
    BY <1>12, <1>t, <1>k, <1>v, BackedActs DEF Preparing, Publishing
  <1>13. CASE Place
    BY <1>13, <1>t, <1>k, <1>v, PlaceActs DEF Preparing, Publishing
  <1>14. CASE PlaceArtwork
    BY <1>14, <1>t, <1>k, <1>v, PlaceArtworkActs DEF Preparing, Publishing
  <1>15. CASE RecordPublished
    BY <1>15, <1>t, <1>k, <1>v, RecordActs DEF Preparing, Publishing
  <1>16. CASE Commit
    <2>1. pub.at = "commit" /\ UNCHANGED disk /\ ~catalog
      BY <1>16, <1>t, <1>k, CommitActs DEF Publishing
    <2>2. CASE /\ journal[g] = "published" /\ bundle' = "catalog_committed" /\ catalog' = TRUE
               /\ journal'[g] = "catalog_committed"
               /\ lock' = Released("pub") /\ Anew("pub", g, "lease", TRUE)
      BY <1>t, <1>k, <2>1, <2>2 DEF Anew, Seen, Rests, Left
    <2> QED
      BY <1>16, <1>t, <1>k, <1>c, <2>1, <2>2, CommitSees DEF Publishing
  <1>17. ASSUME NEW p \in Procs, Undo(p) PROVE Swept(g)'
    <2>1. /\ proc[p].at = "roll" /\ lock = p /\ proc[p].f \in Files
          /\ UNCHANGED <<bundle, catalog, disk, lock>>
      BY <1>17, <1>t, <1>k, UndoActs
    <2>2. /\ Left(Other(p), g, FALSE) \/ Left(Other(p), g, g = proc[p].f)
          /\ proc'[p].at \in {"roll", "undo_dest"}
          /\ journal'[g] \in {journal[g], "rollback_pending"}
      BY <1>17, UndoSees DEF Writes, Walks, Seen
    <2> QED
      BY <1>t, <1>k, <2>1, <2>2 DEF Left, Seen, Rests
  <1>18. ASSUME NEW p \in Procs, UndoDest(p) \/ UndoArtwork(p) \/ UndoBackup(p) \/ UndoTemp(p)
         PROVE Swept(g)'
    BY <1>18, <1>t, <1>k, <1>v, RestoreActs DEF Undoing
  <1>19. ASSUME NEW p \in Procs, Undone(p) PROVE Swept(g)'
    BY <1>19, <1>t, <1>k, <1>v, UndoneActs DEF Undoing
  <1>20. ASSUME NEW p \in Procs, RollEnds(p) \/ NothingToRoll(p) PROVE Swept(g)'
    BY <1>20, <1>t, <1>k, RollEndsSees, RollEndsActs
    DEF RolledBack, Anew, Seen, Rests, Left
  <1>21. ASSUME NEW p \in Procs, AskToClean(p) PROVE Swept(g)'
    BY <1>21, <1>t, <1>k, <1>d, CleanSees, AskActs
    DEF Walks, Seen, Rests, Left
  <1>22. ASSUME NEW p \in Procs, Clean(p) PROVE Swept(g)'
    <2>1. UNCHANGED <<bundle, journal, catalog, disk, lock>> /\ proc[p].at = "clean" /\ catalog
      BY <1>22, <1>t, <1>k, CleanActs
    <2>2. Sweeps(p, g, journal[g], g \in proc[p].failed, 1)
      BY <1>22, CleanSees
    <2> QED
      BY <1>t, <1>k, <2>1, <2>2 DEF Sweeps, Seen, Rests, Left
  <1>23. ASSUME NEW p \in Procs, CleanSource(p) \/ CleanOld(p) PROVE Swept(g)'
    <2>1. proc[p].f \in Files /\ UNCHANGED <<bundle, journal, catalog, lock>>
      BY <1>23, <1>t, <1>k, CleanFileActs
    <2>2. CASE /\ proc[p].at = "clean_source" /\ SameBut(g, {"source"})
               /\ disk'[g].source = IF g = proc[p].f THEN "absent" ELSE disk[g].source
               /\ Walks(p, g, "clean_old", proc[p].f, proc[p].was, proc[p].attention)
      BY <1>t, <1>k, <2>1, <2>2 DEF SameBut, Walks, Seen, Rests, Left
    <2>3. CASE /\ proc[p].at = "clean_old" /\ SameBut(g, {"backup", "other", "bin"})
               /\ g # proc[p].f => UNCHANGED (disk[g])
               /\ g = proc[p].f =>
                    /\ disk'[g].backup = IF disk[g].backup = "old" THEN "absent" ELSE disk[g].backup
                    /\ disk'[g].other = IF disk[g].backup # "old" THEN "absent" ELSE disk[g].other
                    /\ disk'[g].bin = IF disk[g].backup = "old" \/ disk[g].other = "old" THEN "old"
                                      ELSE disk[g].bin
               /\ Sweeps(p, g, proc[p].view[g], g \in proc[p].failed, proc[p].f + 1)
      <3>1. Empty(g) => Empty(g)'
        BY <1>y, <2>3 DEF SameBut
      <3>2. g = proc[p].f => Empty(g)'
        BY <1>y, <2>3 DEF SameBut
      <3> QED
        BY <1>t, <1>k, <2>1, <2>3, <3>1, <3>2 DEF Sweeps, Seen, Rests, Left
    <2> QED
      BY SMTT(30), <1>t, <1>f, <2>1, <2>2, <2>3, <1>23, <1>t, <1>k, CleanFileSees
  <1>24. ASSUME NEW p \in Procs, CleanEnds(p) PROVE Swept(g)'
    BY <1>24, <1>t, <1>k, <1>d, CleanEndsSees, CleanEndsActs
    DEF Anew, Seen, Rests, Left
  <1>25. CASE List
    BY <1>25, <1>t, <1>k, ListSees, ListActs
    DEF Anew, Seen, Rests, Left
  <1>26. CASE TakeUp
    BY <1>26, <1>t, <1>k, TakeUpSees, TakeUpActs
    DEF Anew, Walks, Seen, Rests, Left
  <1>27. CASE ReadJournals
    BY <1>27, <1>t, <1>k, <1>d, ReadJournalsSees, ReadJournalsActs
    DEF Walks, Seen, Rests, Left
  <1>28. CASE Forget \/ Check
    BY <1>28, <1>t, <1>k, ForgetSees, ForgetActs
    DEF Anew, Seen, Rests, Left
  <1>29. CASE Attend
    BY <1>29, <1>t, <1>k, AttendSees, AttendActs
    DEF Flagged, Anew, Seen, Rests, Left
  <1>30. CASE Resolve
    BY <1>30, <1>t, <1>k, ResolveSees, ResolveActs
    DEF Seen, Rests, Left
  <1>31. CASE Crash
    BY <1>31, <1>t, <1>k, CrashSees, CrashActs DEF Seen
  <1>32. CASE World
    <2>1. UNCHANGED <<bundle, journal, catalog, lock, proc>>
      BY <1>32, WorldActs
    <2>2. Empty(g) => Empty(g)'
      BY <1>32, WorldSees DEF SameBut
    <2>3. disk[g].source = "absent" => disk'[g].source = "absent"
      BY <1>32, WorldSees DEF SameBut
    <2> QED
      BY <1>t, <1>k, <2>1, <2>2, <2>3
  <1>33. CASE PublisherFails \/ StagingCancelled
    <2>1. Starts("pub", "idle", {}) => Anew("pub", g, "idle", FALSE)
      BY TheTwo, SeenMoves
    <2> QED
      BY <1>33, <1>t, <1>k, <1>p, <1>c, <2>1, PublisherFailsActs DEF Anew, Seen, Rests, Left
  <1>34. ASSUME NEW p \in Procs, RestoreFails(p) \/ StoreFails(p) \/ CleanFails(p) PROVE Swept(g)'
    BY <1>34, <1>t, <1>k, <1>r, <1>f, <1>d, StepFailsActs DEF Undoing
  <1> QED
    BY <1>1, <1>2, <1>3, <1>4, <1>5, <1>6, <1>7, <1>8, <1>9, <1>10, <1>11, <1>12, <1>13, <1>14,
       <1>15, <1>16, <1>17, <1>18, <1>19, <1>20, <1>21, <1>22, <1>23, <1>24, <1>25, <1>26,
       <1>27, <1>28, <1>29, <1>30, <1>31, <1>32, <1>33, <1>34
    DEF Next, PubStep, RecStep, Fault, World, Rolls, Cleans
-----------------------------------------------------------------------------
(* What one process at a time does.                                         *)

\* As long as no call has crossed the recovery: the two are not at work at the same time, the
\* publisher works on a bundle that is being published, copies are exact, and what a rollback is
\* through with, or what counts as rolled back, has no row that is left to undo.
Exact(g) ==
  /\ pub.at = "idle" \/ rec.at \in {"idle", "listed"}
  /\ pub.at \in BeforeCommit \ {"mark"} => bundle = "publishing"
  /\ pub.at = "mark" => bundle = pub.record /\ pub.record \in {"preparing", "rolled_back"}
  /\ journal[g] = "resolved" => bundle = "resolved"
  /\ pub.at \in Preparing \union Publishing \union {"enter"} =>
       pub.view[g] = journal[g] /\ (g \in pub.fresh <=> journal[g] # "none")
  /\ \A p \in Procs: proc[p].at \in Rolling =>
       /\ g <= proc[p].f /\ (journal[g] \in Undoable \/ proc[p].view[g] \in Undoable)
            => proc[p].view[g] = journal[g] /\ g \in proc[p].fresh
       /\ g > proc[p].f /\ ~proc[p].attention => journal[g] \notin Undoable
  /\ \A p \in Procs: proc[p].at = "finish" => journal[g] = "none"
  /\ bundle \in {"absent", "preparing"} => journal[g] = "none"
  /\ bundle = "rolled_back" => journal[g] \notin Undoable

\* Every step keeps that, until a call crosses the recovery.
LEMMA StepExact ==
  ASSUME Typed, Placed, \A h \in Files: Copied(h) /\ Settles(h) /\ Exact(h), NEW g \in Files, Next,
         ~crossed'
  PROVE  Exact(g)'
  <1> USE DEF Exact, BeforeCommit, Procs, pub, rec, Preparing, Publishing, Undoing, Cleaning, Rolling,
              Undoable
  <1>t. /\ proc["pub"].f \in 0..Count /\ proc["rec"].f \in 0..Count /\ g \in 1..Count
        /\ Other("pub") = "rec" /\ Other("rec") = "pub" /\ Stands /\ Exact(g)
    BY TheTwo DEF Files, Placed
  <1>k. /\ rec.at \notin {"mark", "open", "enter"} \union Preparing \union Publishing
        /\ pub.at \notin {"listed", "journals", "check", "attend"}
        /\ pub.at \in Publishing \union {"enter"} \/ (pub.at \in Preparing /\ g < pub.f)
             => pub.view[g] \in Prepared
        /\ pub.at \in {"artwork", "stage", "seal"} /\ g = pub.f => pub.view[g] = "planned"
        /\ pub.at = "validate" /\ g = pub.f => pub.view[g] = "staged"
        /\ \A p \in Procs: proc[p].at \in Undoing /\ g = proc[p].f
                            => proc[p].view[g] = "rollback_pending"
    BY <1>t DEF Copied, Stands
  <1>p. ASSUME PreparationFails, pub.at \in Preparing PROVE Exact(g)'
    BY <1>p, <1>t, <1>k, PreparationFailsSees, PreparationFailsActs DEF Seen, Rests, Left
  <1>c. ASSUME CriticalFails, pub.at \in Publishing \union {"enter"} PROVE Exact(g)'
    BY <1>c, <1>t, <1>k, CriticalFailsSees, CriticalFailsActs DEF Walks, Seen, Rests, Left
  <1>r. ASSUME NEW p \in Procs, proc[p].f \in Files, proc[p].at \in Undoing, CannotRestore(p),
               UNCHANGED <<bundle, catalog, disk, lock>>
        PROVE  Exact(g)'
    BY SMTT(30), <1>r, <1>t, <1>k, CannotRestoreSees DEF Seen, Rests, Left
  <1>f. ASSUME NEW p \in Procs, proc[p].f \in Files, proc[p].at \in Cleaning, CannotClean(p),
               UNCHANGED <<bundle, journal, catalog, lock>>
        PROVE  Exact(g)'
    BY <1>f, <1>t, <1>k, CannotCleanSees DEF Sweeps, Seen, Rests, Left
  <1>d. ASSUME NEW p \in Procs, proc[p].at \notin {"idle", "listed"}, Drops(p),
               UNCHANGED <<bundle, journal, catalog, disk>>,
               UNCHANGED lock \/ lock' = Released(p)
        PROVE  Exact(g)'
    BY <1>d, <1>t, <1>k, DropsSees DEF Anew, Seen, Rests, Left
  <1>1. CASE Call
    <2>1. /\ pub.at = "idle" /\ UNCHANGED journal /\ rec.at \in {"idle", "listed"}
          /\ \/ bundle = "absent" /\ bundle' = "preparing" /\ proc'["pub"].record = "preparing"
             \/ bundle \in {"preparing", "rolled_back"} /\ UNCHANGED bundle /\ proc'["pub"].record = bundle
             \/ bundle \in {"publishing"} \union Committed /\ UNCHANGED bundle
      BY <1>1, CallActs
    <2>2. \/ bundle' \in {"preparing", "rolled_back"} /\ Anew("pub", g, "mark", FALSE)
          \/ bundle = "publishing" /\ Anew("pub", g, "open", FALSE)
          \/ bundle \in Committed /\ Anew("pub", g, "lease", FALSE)
      BY <1>1, CallSees
    <2> QED
      BY <1>t, <1>k, <2>1, <2>2 DEF Committed, Anew, Seen, Rests, Left
  <1>2. CASE Mark
    BY SMTT(30), <1>2, <1>t, <1>k, MarkSees, MarkActs
    DEF Anew, Walks, Seen, Rests, Left
  <1>3. CASE Open
    BY SMTT(30), <1>3, <1>t, <1>k, OpenSees, OpenActs
    DEF Anew, Seen, Rests, Left
  <1>4. CASE Plan
    BY SMTT(30), <1>4, <1>t, <1>k, <1>p, PlanSees, PlanActs
    DEF GetsReady, Walks, Seen, Rests, Left
  <1>5. CASE StageArtwork \/ Stage
    <2>1. UNCHANGED <<bundle, journal, catalog, lock>>
      BY <1>5, <1>t, <1>k, StageActs
    <2>2. \/ pub.at = "artwork" /\ Walks("pub", g, "stage", pub.f, pub.was, pub.attention)
          \/ pub.at = "stage" /\ Walks("pub", g, "seal", pub.f, pub.was, pub.attention)
      BY <1>5, <1>t, StageSees
    <2> QED
      BY <1>t, <1>k, <2>1, <2>2 DEF Walks, Seen, Rests, Left
  <1>6. CASE Seal
    BY SMTT(30), <1>6, <1>t, <1>k, <1>p, SealSees, SealActs
    DEF Writes, Seen, Rests, Left
  <1>7. CASE Validate
    BY SMTT(30), <1>7, <1>t, <1>k, <1>p, ValidateSees, ValidateActs
    DEF GetsReady, Seen, Rests, Left
  <1>8. CASE Enter
    BY SMTT(30), <1>8, <1>t, <1>k, <1>c, EnterSees, EnterActs
    DEF Walks, Seen, Rests, Left
  <1>9. CASE Boundary
    BY SMTT(30), <1>9, <1>t, <1>k, <1>c, BoundarySees, BoundaryActs
    DEF GetsOn, Walks, Seen, Rests, Left
  <1>10. CASE Recheck
    BY SMTT(30), <1>10, <1>t, <1>k, <1>c, RecheckSees, RecheckActs
    DEF Walks, Seen, Rests, Left
  <1>11. CASE Publish
    BY SMTT(30), <1>11, <1>t, <1>k, <1>c, PublishSees, PublishActs
    DEF GetsOn, Walks, Seen, Rests, Left
  <1>12. CASE Backed
    BY SMTT(30), <1>12, <1>t, <1>k, <1>c, BackedSees, BackedActs
    DEF Writes, Seen, Rests, Left
  <1>13. CASE Place
    BY <1>13, <1>t, <1>k, <1>c, PlaceSees, PlaceActs
    DEF Walks, Seen, Rests, Left
  <1>14. CASE PlaceArtwork
    <2>1. pub.at = "place_art" /\ pub.f \in Files /\ UNCHANGED <<bundle, journal, catalog>>
      BY <1>14, <1>t, PlaceArtworkActs
    <2>2. CASE UNCHANGED lock /\ Walks("pub", g, "record", pub.f, pub.was, pub.attention)
      BY SMTT(30), <1>t, <1>k, <2>1, <2>2 DEF Walks, Seen, Rests, Left
    <2> QED
      BY <1>14, <1>t, <1>c, <2>1, <2>2, PlaceArtworkSees
  <1>15. CASE RecordPublished
    BY <1>15, <1>t, <1>k, <1>c, RecordSees, RecordActs
    DEF GetsOn, Seen, Rests, Left
  <1>16. CASE Commit
    <2>1. pub.at = "commit" /\ UNCHANGED disk
      BY <1>16, CommitActs
    <2>2. CASE /\ journal[g] = "published" /\ bundle' = "catalog_committed" /\ catalog' = TRUE
               /\ journal'[g] = "catalog_committed"
               /\ lock' = Released("pub") /\ Anew("pub", g, "lease", TRUE)
      BY <1>t, <1>k, <2>1, <2>2 DEF Anew, Seen, Rests, Left
    <2> QED
      BY <1>16, <1>c, <2>1, <2>2, CommitSees
  <1>17. ASSUME NEW p \in Procs, Undo(p) PROVE Exact(g)'
    <2>1. /\ proc[p].at = "roll" /\ proc[p].f \in Files /\ proc[p].f \in 1..Count
          /\ UNCHANGED <<bundle, catalog>>
      BY <1>17, UndoActs DEF Files
    <2>2. ASSUME UNCHANGED journal, NEW attention, proc[p].attention => attention,
                 \/ proc[p].view[proc[p].f] \notin Undoable
                 \/ proc[p].f \notin proc[p].fresh /\ attention,
                 Walks(p, g, "roll", proc[p].f - 1, proc[p].was, attention)
          PROVE  Exact(g)'
      BY SMTT(30), <1>t, <1>k, <2>1, <2>2 DEF Walks, Seen, Rests, Left
    <2>3. CASE /\ UNCHANGED journal /\ proc[p].view[proc[p].f] = "rollback_pending"
               /\ Walks(p, g, "undo_dest", proc[p].f, Was(p), proc[p].attention)
      BY <1>t, <1>k, <2>1, <2>3 DEF Walks, Seen, Rests, Left
    <2>4. CASE /\ proc[p].view[proc[p].f] \in Undoable /\ proc[p].f \in proc[p].fresh
               /\ Writes(p, g, "rollback_pending", "undo_dest", proc[p].f, Was(p), proc[p].attention)
      BY <1>t, <1>k, <2>1, <2>4 DEF Writes, Seen, Rests, Left
    <2> HIDE DEF Exact
    <2>5. CASE /\ proc[p].view[proc[p].f] \notin Undoable /\ UNCHANGED journal
               /\ Walks(p, g, "roll", proc[p].f - 1, proc[p].was, proc[p].attention)
      BY <2>2, <2>5
    <2>6. CASE /\ proc[p].f \notin proc[p].fresh /\ UNCHANGED journal
               /\ Walks(p, g, "roll", proc[p].f - 1, proc[p].was, TRUE)
      BY <2>2, <2>6
    <2> QED
      BY <1>17, <2>3, <2>4, <2>5, <2>6, UndoSees
  <1>18. ASSUME NEW p \in Procs, UndoDest(p) \/ UndoArtwork(p) \/ UndoBackup(p) \/ UndoTemp(p)
         PROVE Exact(g)'
    <2>1. proc[p].f \in Files /\ UNCHANGED <<bundle, catalog, lock>>
      BY <1>18, <1>t, RestoreActs
    <2>2. CASE /\ UNCHANGED journal
               /\ \/ /\ proc[p].at = "undo_dest"
                     /\ Walks(p, g, "undo_art", proc[p].f, proc[p].was, proc[p].attention)
                  \/ /\ proc[p].at = "undo_art"
                     /\ Walks(p, g, "undo_backup", proc[p].f, proc[p].was, proc[p].attention)
                  \/ /\ proc[p].at = "undo_backup"
                     /\ Walks(p, g, "undo_temp", proc[p].f, proc[p].was, proc[p].attention)
                  \/ /\ proc[p].at = "undo_temp"
                     /\ Walks(p, g, "undone", proc[p].f, proc[p].was, proc[p].attention)
      BY <1>t, <1>k, <2>1, <2>2 DEF Walks, Seen, Rests, Left
    <2> QED
      BY ZenonT(60), <1>18, <1>t, <1>r, <2>1, <2>2, RestoreSees
  <1>19. ASSUME NEW p \in Procs, Undone(p) PROVE Exact(g)'
    <2>1. /\ proc[p].at = "undone" /\ proc[p].f \in Files /\ proc[p].f \in 1..Count
          /\ UNCHANGED <<bundle, catalog, disk, lock>>
      BY <1>19, <1>t, UndoneActs DEF Files
    <2>2. CASE /\ proc[p].f \in proc[p].fresh
               /\ Writes(p, g, "rolled_back", "roll", proc[p].f - 1, FALSE, proc[p].attention)
      BY SMTT(30), <1>t, <1>k, <2>1, <2>2 DEF Writes, Seen, Rests, Left
    <2>3. CASE UNCHANGED journal /\ Walks(p, g, "roll", proc[p].f - 1, proc[p].was, TRUE)
      BY <1>t, <1>k, <2>1, <2>3 DEF Walks, Seen, Rests, Left
    <2> QED
      BY <1>19, <1>t, <2>2, <2>3, UndoneSees
  <1>20. ASSUME NEW p \in Procs, RollEnds(p) \/ NothingToRoll(p) PROVE Exact(g)'
    BY SMTT(30), <1>20, <1>t, <1>k, RollEndsSees, RollEndsActs
    DEF RolledBack, Anew, Seen, Rests, Left
  <1>21. ASSUME NEW p \in Procs, AskToClean(p) PROVE Exact(g)'
    BY SMTT(30), <1>21, <1>t, <1>k, <1>d, CleanSees, AskActs
    DEF Walks, Seen, Rests, Left
  <1>22. ASSUME NEW p \in Procs, Clean(p) PROVE Exact(g)'
    BY SMTT(30), <1>22, <1>t, <1>k, CleanSees, CleanActs
    DEF Sweeps, Seen, Rests, Left
  <1>23. ASSUME NEW p \in Procs, CleanSource(p) \/ CleanOld(p) PROVE Exact(g)'
    BY SMTT(30), <1>23, <1>t, <1>k, <1>f, CleanFileSees, CleanFileActs
    DEF Sweeps, Walks, Seen, Rests, Left
  <1>24. ASSUME NEW p \in Procs, CleanEnds(p) PROVE Exact(g)'
    BY SMTT(30), <1>24, <1>t, <1>k, <1>d, CleanEndsSees, CleanEndsActs
    DEF Anew, Seen, Rests, Left
  <1>25. CASE List
    BY SMTT(30), <1>25, <1>t, <1>k, ListSees, ListActs
    DEF Anew, Seen, Rests, Left
  <1>26. CASE TakeUp
    BY SMTT(30), <1>26, <1>t, <1>k, TakeUpSees, TakeUpActs
    DEF Anew, Walks, Seen, Rests, Left
  <1>27. CASE ReadJournals
    BY SMTT(30), <1>27, <1>t, <1>k, <1>d, ReadJournalsSees, ReadJournalsActs
    DEF Walks, Seen, Rests, Left
  <1>28. CASE Forget \/ Check
    BY SMTT(30), <1>28, <1>t, <1>k, ForgetSees, ForgetActs
    DEF Anew, Seen, Rests, Left
  <1>29. CASE Attend
    BY SMTT(30), <1>29, <1>t, <1>k, AttendSees, AttendActs
    DEF Flagged, Settled, Anew, Seen, Rests, Left
  <1>30. CASE Resolve
    BY SMTT(30), <1>30, <1>t, <1>k, ResolveSees, ResolveActs
    DEF Seen, Rests, Left
  <1>31. CASE Crash
    BY <1>31, <1>t, <1>k, CrashSees, CrashActs DEF Seen
  <1>32. CASE World
    BY SMTT(30), <1>32, <1>t, <1>k, WorldSees, WorldActs
  <1>33. CASE PublisherFails \/ StagingCancelled
    <2>1. Starts("pub", "idle", {}) => Anew("pub", g, "idle", FALSE)
      BY TheTwo, SeenMoves
    <2> QED
      BY <1>33, <1>t, <1>k, <1>p, <1>c, <2>1, PublisherFailsActs DEF Anew, Seen, Rests, Left
  <1>34. ASSUME NEW p \in Procs, RestoreFails(p) \/ StoreFails(p) \/ CleanFails(p) PROVE Exact(g)'
    BY SMTT(30), <1>34, <1>t, <1>k, <1>r, <1>f, <1>d, StepFailsActs
  <1> QED
    BY ZenonT(30), <1>1, <1>2, <1>3, <1>4, <1>5, <1>6, <1>7, <1>8, <1>9, <1>10, <1>11, <1>12, <1>13, <1>14,
       <1>15, <1>16, <1>17, <1>18, <1>19, <1>20, <1>21, <1>22, <1>23, <1>24, <1>25, <1>26,
       <1>27, <1>28, <1>29, <1>30, <1>31, <1>32, <1>33, <1>34
    DEF Next, PubStep, RecStep, Fault, World, Rolls, Cleans
-----------------------------------------------------------------------------
(* What a rollback leaves.                                                  *)

\* The paths of a file that is rolled back, but for its destination.
Cleared(g) == /\ disk[g].backup = "absent" /\ (disk[g].artDest => g \in torn)
              /\ g \in stranded \/ (disk[g].temp = "absent" /\ ~disk[g].artTemp)
\* As long as no call has crossed the recovery: a file that is not begun or rolled back has left
\* nothing, artwork stays only beside its file, where a crash tore it off or where the row says
\* so, and a rollback clears path by path.
Tidy(g) ==
  /\ journal[g] \in {"none", "rolled_back"} => Cleared(g)
  /\ disk[g].artDest => \/ disk[g].dest = "new" \/ g \in torn
                        \/ journal[g] \in {"needs_attention", "resolved"}
                        \/ \E p \in Procs: proc[p].at = "undo_art" /\ proc[p].was /\ proc[p].f = g
  /\ \A p \in Procs:
       /\ proc[p].f = g /\ proc[p].at \in {"undo_backup", "undo_temp", "undone"}
            => (g \in stranded \/ ~disk[g].artTemp) /\ (disk[g].artDest => g \in torn)
       /\ proc[p].f = g /\ proc[p].at \in {"undo_temp", "undone"} => disk[g].backup = "absent"
       /\ proc[p].f = g /\ proc[p].at = "undone" => g \in stranded \/ disk[g].temp = "absent"
  /\ disk[g].dest = "old" => g \in SamePath

\* Every step keeps that, until a call crosses the recovery.
LEMMA StepTidy ==
  ASSUME Typed, Placed, \A h \in Files: Copied(h) /\ Settles(h), NEW g \in Files, Stored(g), Exact(g),
         Tidy(g), ~crossed, Next
  PROVE  Tidy(g)'
  <1> USE DEF Tidy, Cleared, Procs, pub, rec, Preparing, Publishing, Undoing, Cleaning
  <1>t. /\ proc["pub"].f \in 0..Count /\ proc["rec"].f \in 0..Count /\ g \in 1..Count
        /\ Other("pub") = "rec" /\ Other("rec") = "pub" /\ Stands
        /\ (g \in torn => g \in torn') /\ (g \in stranded => g \in stranded')
    BY TheTwo, CrossedGrows DEF Files, Placed
  <1>k. /\ rec.at \in Undoing => lock = "rec"
        /\ pub.at \in Publishing \union Undoing => lock = "pub"
        /\ rec.at \notin {"mark", "open", "enter"} \union Preparing \union Publishing
        /\ pub.at \in {"artwork", "stage", "seal"} /\ g = pub.f => journal[g] = "planned"
        /\ pub.at = "validate" /\ g = pub.f => journal[g] = "staged"
        /\ pub.at \in Publishing \union {"enter"} => journal[g] = pub.view[g] /\ pub.view[g] \in Prepared
        /\ pub.at \in Preparing => journal[g] = pub.view[g]
        /\ pub.at \in {"place_art", "record"} /\ pub.f = g => disk[g].dest = "new"
        /\ pub.at = "publish" /\ g = pub.f /\ g \in SamePath /\ pub.view[g] = "validated"
             => disk[g].dest = "old"
        /\ \A p \in Procs:
             /\ proc[p].at \in Undoing /\ g = proc[p].f
                  => journal[g] = "rollback_pending" /\ g \in proc[p].fresh
             /\ proc[p].at \in Undoing \ {"undo_dest"} /\ g = proc[p].f => disk[g].dest # "new"
             /\ proc[p].at = "undo_dest" /\ g = proc[p].f /\ ~proc[p].was => disk[g].dest # "new"
             /\ proc[p].at \in Cleaning => disk[g].dest = "new"
             /\ proc[p].at = "roll" /\ g = proc[p].f /\ proc[p].view[g] \in Undoable
                  => journal[g] = proc[p].view[g]
        /\ g \notin SamePath => disk[g].backup = "absent"
        /\ disk[g].temp \in {"absent", "new"} /\ disk[g].backup \in {"absent", "old"}
    <2>1. Copied(g) /\ Adopted(g) /\ Shelved(g) /\ Carried(g) /\ Restoring(g) /\ Locked
      BY DEF Settles, Stored, Placed
    <2>2. disk[g].temp \in {"absent", "new"} /\ disk[g].backup \in {"absent", "old"}
      BY <2>1 DEF Typed, Paths, Shelved
    <2>3. \A p \in Procs: proc[p].at \in Cleaning => disk[g].dest = "new"
      BY SMTT(30), <2>1 DEF Adopted, Shelved, AfterCommit
    <2>4. \A p \in Procs: proc[p].at \in Undoing /\ g = proc[p].f
                         => journal[g] = "rollback_pending" /\ g \in proc[p].fresh
      BY <1>t, <2>1 DEF Copied, Exact, Rolling, Undoable
    <2>5. \A p \in Procs: proc[p].at = "roll" /\ g = proc[p].f /\ proc[p].view[g] \in Undoable
                         => journal[g] = proc[p].view[g]
      BY <1>t DEF Exact, Rolling
    <2> QED
      BY <1>t, <2>1, <2>2, <2>3, <2>4, <2>5
      DEF Locked, Holding, Stands, Copied, Exact, Prepared, Shelved, Carried, Restoring, Loose
  <1>p. ASSUME PreparationFails, pub.at \in Preparing PROVE Tidy(g)'
    BY <1>p, <1>t, <1>k, PreparationFailsSees, PreparationFailsActs DEF Seen, Rests, Left
  <1>c. ASSUME CriticalFails, pub.at \in Publishing \union {"enter"} PROVE Tidy(g)'
    BY <1>c, <1>t, <1>k, CriticalFailsSees, CriticalFailsActs DEF Walks, Seen, Rests, Left
  <1>r. ASSUME NEW p \in Procs, proc[p].f \in Files, proc[p].at \in Undoing, CannotRestore(p),
               UNCHANGED <<bundle, catalog, disk, lock>>
        PROVE  Tidy(g)'
    BY <1>r, <1>t, <1>k, CannotRestoreSees DEF Seen, Rests, Left
  <1>f. ASSUME NEW p \in Procs, proc[p].f \in Files, proc[p].at \in Cleaning, CannotClean(p),
               UNCHANGED <<bundle, journal, catalog, lock>>
        PROVE  Tidy(g)'
    BY <1>f, <1>t, <1>k, CannotCleanSees DEF Sweeps, Seen, Rests, Left
  <1>d. ASSUME NEW p \in Procs, proc[p].at # "undo_art", Drops(p),
               UNCHANGED <<bundle, journal, catalog, disk>>, UNCHANGED lock \/ lock' = Released(p)
        PROVE  Tidy(g)'
    BY <1>d, <1>t, <1>k, DropsSees DEF Anew, Seen, Rests, Left
  <1>1. CASE Call
    BY <1>1, <1>t, <1>k, CallSees, CallActs
    DEF Anew, Seen, Rests, Left
  <1>2. CASE Mark
    BY <1>2, <1>t, <1>k, MarkSees, MarkActs
    DEF Anew, Walks, Seen, Rests, Left
  <1>3. CASE Open
    BY <1>3, <1>t, <1>k, OpenSees, OpenActs
    DEF Anew, Seen, Rests, Left
  <1>4. CASE Plan
    <2>1. pub.at = "plan" /\ pub.f \in Files /\ UNCHANGED <<bundle, catalog, disk>>
      BY <1>4, <1>t, PlanActs
    <2>2. CASE /\ pub.view[pub.f] \in {"none", "rolled_back"}
               /\ journal'[g] = IF g = pub.f THEN "planned" ELSE journal[g]
               /\ Seen("pub", g, "plan", pub.f, IF g = pub.f THEN "planned" ELSE pub.view[g],
                       g \in pub.fresh \/ g = pub.f, pub.was, pub.attention)
               /\ Rests("pub", g) /\ Left("rec", g, g = pub.f)
      BY <1>t, <1>k, <2>1, <2>2 DEF Seen, Rests, Left
    <2>3. CASE UNCHANGED journal /\ \E at \in {"artwork", "stage", "validate"}:
                                     Walks("pub", g, at, pub.f, pub.was, pub.attention)
      BY <1>t, <1>k, <2>1, <2>3 DEF Walks, Seen, Rests, Left
    <2>4. CASE /\ pub.view[pub.f] \in {"validated", "replacement_backed_up", "published"}
               /\ GetsReady(g, pub.view[g], FALSE) /\ UNCHANGED journal
      BY <1>t, <1>k, <2>1, <2>4 DEF GetsReady, Seen, Rests, Left
    <2> QED
      BY <1>4, <1>t, <1>p, <2>1, <2>2, <2>3, <2>4, PlanSees DEF Preparing
  <1>5. CASE StageArtwork \/ Stage
    <2>1. pub.f \in Files /\ UNCHANGED <<bundle, journal, catalog, lock>>
      BY <1>5, <1>t, StageActs
    <2>2. CASE /\ pub.at = "artwork" /\ SameBut(g, {"artTemp"})
               /\ disk'[g].artTemp = IF g = pub.f THEN TRUE ELSE disk[g].artTemp
               /\ Walks("pub", g, "stage", pub.f, pub.was, pub.attention)
      BY <1>t, <1>k, <2>1, <2>2 DEF SameBut, Walks, Seen, Rests, Left
    <2>3. CASE /\ pub.at = "stage" /\ SameBut(g, {"temp"})
               /\ disk'[g].temp = IF g = pub.f THEN "new" ELSE disk[g].temp
               /\ Walks("pub", g, "seal", pub.f, pub.was, pub.attention)
      BY <1>t, <1>k, <2>1, <2>3 DEF SameBut, Walks, Seen, Rests, Left
    <2> QED
      BY <1>5, <1>t, <2>2, <2>3, StageSees
  <1>6. CASE Seal
    BY <1>6, <1>t, <1>k, <1>p, SealSees, SealActs
    DEF Writes, Seen, Rests, Left
  <1>7. CASE Validate
    BY <1>7, <1>t, <1>k, <1>p, ValidateSees, ValidateActs
    DEF GetsReady, Seen, Rests, Left
  <1>8. CASE Enter
    BY <1>8, <1>t, <1>k, <1>c, EnterSees, EnterActs
    DEF Walks, Seen, Rests, Left
  <1>9. CASE Boundary
    <2>1. pub.at = "boundary" /\ pub.f \in Files /\ UNCHANGED <<bundle, catalog, disk>>
      BY <1>9, <1>t, BoundaryActs
    <2>2. CASE /\ Moved(pub.f) /\ UNCHANGED <<journal, lock>>
               /\ Walks("pub", g, "place_art", pub.f, TRUE, pub.attention)
      BY <1>t, <1>k, <2>1, <2>2 DEF Moved, Walks, Seen, Rests, Left
    <2>3. CASE /\ Aside(pub.f) /\ pub.f \in pub.fresh /\ UNCHANGED lock
               /\ journal'[g] = IF g = pub.f THEN "replacement_backed_up" ELSE journal[g]
               /\ GetsOn(g, "boundary", "recheck",
                         IF g = pub.f THEN "replacement_backed_up" ELSE pub.view[g], pub.was, TRUE)
      BY <1>t, <1>k, <2>1, <2>3 DEF Aside, GetsOn, Seen, Rests, Left
    <2>4. CASE /\ ~Moved(pub.f) /\ ~Aside(pub.f) /\ UNCHANGED <<journal, lock>>
               /\ GetsOn(g, "boundary", "recheck", pub.view[g], pub.was, FALSE)
      BY <1>t, <1>k, <2>1, <2>4 DEF Aside, GetsOn, Seen, Rests, Left
    <2> QED
      BY <1>9, <1>t, <1>c, <2>1, <2>2, <2>3, <2>4, BoundarySees
  <1>10. CASE Recheck
    <2>1. CASE /\ Unchanged(g) /\ Walks("pub", g, "publish", 1, pub.was, pub.attention)
               /\ SameBut(g, {"artTemp"}) /\ (disk'[g].artTemp => disk[g].artTemp)
      <3>1. pub.at = "recheck" /\ UNCHANGED <<bundle, journal, catalog>>
        BY ZenonT(30), <1>10, RecheckActs
      <3> QED
        BY <1>t, <1>k, <2>1, <3>1 DEF Unchanged, SameBut, Walks, Seen, Rests, Left
    <2> QED
      BY <1>10, <1>c, <2>1, RecheckSees, RecheckActs
  <1>11. CASE Publish
    BY <1>11, <1>t, <1>k, <1>c, PublishSees, PublishActs
    DEF SameBut, GetsOn, Walks, Seen, Rests, Left
  <1>12. CASE Backed
    <2>1. pub.at = "backed" /\ pub.f \in Files /\ UNCHANGED <<bundle, catalog, disk>>
      BY <1>12, <1>t, BackedActs
    <2>2. CASE /\ UNCHANGED lock
               /\ Writes("pub", g, "replacement_backed_up", "place", pub.f, pub.was, pub.attention)
      BY <1>t, <1>k, <2>1, <2>2 DEF Writes, Prepared, Seen, Rests, Left
    <2> QED
      BY <1>12, <1>t, <1>c, <2>1, <2>2, BackedSees
  <1>13. CASE Place
    <2>1. pub.at = "place" /\ pub.f \in Files /\ UNCHANGED <<bundle, journal, catalog>>
      BY <1>13, <1>t, PlaceActs
    <2>2. CASE /\ disk[pub.f].dest = "absent" /\ SameBut(g, {"dest", "temp"})
               /\ disk'[g].dest = IF g = pub.f THEN disk[g].temp ELSE disk[g].dest
               /\ disk'[g].temp = IF g = pub.f THEN "absent" ELSE disk[g].temp
               /\ Walks("pub", g, "place_art", pub.f, pub.was, pub.attention)
      BY <1>t, <1>k, <2>1, <2>2 DEF SameBut, Walks, Seen, Rests, Left
    <2> QED
      BY <1>13, <1>t, <1>c, <2>1, <2>2, PlaceSees
  <1>14. CASE PlaceArtwork
    <2>1. pub.at = "place_art" /\ pub.f \in Files /\ UNCHANGED <<bundle, journal, catalog>>
      BY <1>14, <1>t, PlaceArtworkActs
    <2>2. CASE /\ SameBut(g, {"artDest", "artTemp"})
               /\ g # pub.f => UNCHANGED (disk[g])
               /\ g = pub.f => disk'[g].artDest = (g \in Artwork) /\ disk'[g].artTemp = FALSE
               /\ UNCHANGED lock /\ Walks("pub", g, "record", pub.f, pub.was, pub.attention)
      <3>1. CASE g = pub.f
        <4>1. disk'[g].dest = "new" /\ disk[g].dest = "new" /\ ~disk'[g].artTemp
          BY <1>k, <2>1, <2>2, <3>1 DEF SameBut
        <4>2. rec.at \notin Undoing /\ journal'[g] \notin {"none", "rolled_back"}
          BY <1>k, <2>1, <3>1 DEF Prepared
        <4>3. proc'["pub"].at = "record" /\ proc'["rec"].at = proc["rec"].at
          BY <1>t, <2>2 DEF Walks, Left, Seen
        <4> QED
          BY SMTT(30), <4>1, <4>2, <4>3
      <3>2. CASE g # pub.f
        BY <1>t, <1>k, <2>1, <2>2, <3>2 DEF Walks, Seen, Left
      <3> QED
        BY <3>1, <3>2
    <2> QED
      BY <1>14, <1>t, <1>c, <2>1, <2>2, PlaceArtworkSees
  <1>15. CASE RecordPublished
    <2>1. pub.at = "record" /\ pub.f \in Files /\ UNCHANGED <<bundle, catalog, disk>>
      BY <1>15, <1>t, RecordActs
    <2>2. CASE /\ pub.f \in pub.fresh
               /\ journal'[g] = IF g = pub.f THEN "published" ELSE journal[g]
               /\ pub.was
               /\ GetsOn(g, "boundary", "recheck",
                         IF g = pub.f THEN "published" ELSE pub.view[g], FALSE, TRUE)
      BY <1>t, <1>k, <2>1, <2>2 DEF Prepared, GetsOn, Seen, Rests, Left
    <2>3. CASE /\ pub.f \in pub.fresh
               /\ journal'[g] = IF g = pub.f THEN "published" ELSE journal[g]
               /\ ~pub.was
               /\ GetsOn(g, "publish", "commit",
                         IF g = pub.f THEN "published" ELSE pub.view[g], FALSE, TRUE)
      BY <1>t, <1>k, <2>1, <2>3 DEF Prepared, GetsOn, Seen, Rests, Left
    <2> QED
      BY <1>15, <1>t, <1>c, <2>1, <2>2, <2>3, RecordSees
  <1>16. CASE Commit
    <2>1. pub.at = "commit" /\ UNCHANGED disk
      BY <1>16, CommitActs
    <2>2. CASE /\ journal[g] = "published" /\ bundle' = "catalog_committed" /\ catalog' = TRUE
               /\ journal'[g] = "catalog_committed"
               /\ lock' = Released("pub") /\ Anew("pub", g, "lease", TRUE)
      BY <1>t, <1>k, <2>1, <2>2 DEF Anew, Seen, Rests, Left
    <2> QED
      BY <1>16, <1>c, <2>1, <2>2, CommitSees
  <1>17. ASSUME NEW p \in Procs, Undo(p) PROVE Tidy(g)'
    <2>1. /\ proc[p].at = "roll" /\ lock = p /\ proc[p].f \in Files
          /\ UNCHANGED <<bundle, catalog, disk, lock>>
      BY <1>17, UndoActs
    <2>2. ASSUME UNCHANGED journal, NEW attention,
                 Walks(p, g, "roll", proc[p].f - 1, proc[p].was, attention)
          PROVE  Tidy(g)'
      BY <1>t, <1>k, <2>1, <2>2 DEF Walks, Seen, Rests, Left
    <2>3. CASE /\ UNCHANGED journal /\ proc[p].view[proc[p].f] = "rollback_pending"
               /\ Walks(p, g, "undo_dest", proc[p].f, Was(p), proc[p].attention)
      BY <1>t, <1>k, <2>1, <2>3 DEF Was, Walks, Seen, Rests, Left
    <2>4. CASE /\ proc[p].view[proc[p].f] \in Undoable \ {"rollback_pending"}
               /\ Writes(p, g, "rollback_pending", "undo_dest", proc[p].f, Was(p), proc[p].attention)
      BY <1>t, <1>k, <2>1, <2>4 DEF Was, Undoable, Writes, Seen, Rests, Left
    <2> QED
      BY <1>17, <2>2, <2>3, <2>4, UndoSees
  <1>18. ASSUME NEW p \in Procs, UndoDest(p) \/ UndoArtwork(p) \/ UndoBackup(p) \/ UndoTemp(p)
         PROVE Tidy(g)'
    <2>1. proc[p].f \in Files /\ UNCHANGED <<bundle, catalog, lock>>
      BY <1>18, <1>t, RestoreActs
    <2>2. CASE /\ proc[p].at = "undo_dest" /\ UNCHANGED journal
               /\ Walks(p, g, "undo_art", proc[p].f, proc[p].was, proc[p].attention)
               /\ \/ ~proc[p].was /\ UNCHANGED disk
                  \/ /\ proc[p].was /\ disk[proc[p].f].dest \in {"absent", "new"} /\ SameBut(g, {"dest"})
                     /\ disk'[g].dest = IF g = proc[p].f THEN "absent" ELSE disk[g].dest
      BY <1>t, <1>k, <2>1, <2>2 DEF SameBut, Walks, Seen, Rests, Left
    <2>3. CASE /\ proc[p].at = "undo_art" /\ UNCHANGED journal
               /\ Walks(p, g, "undo_backup", proc[p].f, proc[p].was, proc[p].attention)
               /\ SameBut(g, {"artDest", "artTemp"})
               /\ g # proc[p].f => UNCHANGED (disk[g])
               /\ g = proc[p].f => /\ (disk'[g].artDest <=> disk[g].artDest /\ ~proc[p].was)
                                   /\ disk'[g].artTemp = FALSE
      BY <1>t, <1>k, <2>1, <2>3 DEF SameBut, Walks, Seen, Rests, Left
    <2>4. CASE /\ proc[p].at = "undo_backup" /\ UNCHANGED journal
               /\ Walks(p, g, "undo_temp", proc[p].f, proc[p].was, proc[p].attention)
               /\ SameBut(g, {"dest", "backup"})
               /\ disk'[g].dest = IF g = proc[p].f /\ disk[g].backup = "old" THEN "old"
                                  ELSE disk[g].dest
               /\ disk'[g].backup = IF g = proc[p].f /\ disk[g].backup = "old" THEN "absent"
                                    ELSE disk[g].backup
      BY <1>t, <1>k, <2>1, <2>4 DEF SameBut, Walks, Seen, Rests, Left
    <2>5. CASE /\ proc[p].at = "undo_temp" /\ UNCHANGED journal
               /\ Walks(p, g, "undone", proc[p].f, proc[p].was, proc[p].attention)
               /\ SameBut(g, {"temp"})
               /\ disk'[g].temp = IF g = proc[p].f THEN "absent" ELSE disk[g].temp
      BY <1>t, <1>k, <2>1, <2>5 DEF SameBut, Walks, Seen, Rests, Left
    <2>6. CASE proc[p].at \in {"undo_dest", "undo_art"} /\ CannotRestore(p) /\ UNCHANGED disk
      BY <1>r, <2>1, <2>6
    <2> HIDE DEF Tidy
    <2>7. CASE proc[p].at = "undo_dest"
      BY <1>18, <1>t, <2>2, <2>6, <2>7, RestoreSees
    <2>8. CASE proc[p].at = "undo_art"
      BY ZenonT(60), <1>18, <1>t, <2>3, <2>6, <2>8, RestoreSees
    <2>9. CASE proc[p].at \notin {"undo_dest", "undo_art"}
      BY ZenonT(60), <1>18, <1>t, <2>4, <2>5, <2>9, RestoreSees
    <2> QED
      BY SMTT(30), <2>7, <2>8, <2>9
  <1>19. ASSUME NEW p \in Procs, Undone(p) PROVE Tidy(g)'
    <2>1. proc[p].at = "undone" /\ proc[p].f \in Files /\ UNCHANGED <<bundle, catalog, disk, lock>>
      BY <1>19, <1>t, UndoneActs
    <2>2. CASE /\ proc[p].f \in proc[p].fresh
               /\ Writes(p, g, "rolled_back", "roll", proc[p].f - 1, FALSE, proc[p].attention)
      BY <1>t, <1>k, <2>1, <2>2 DEF Writes, Seen, Rests, Left
    <2>3. CASE UNCHANGED journal /\ Walks(p, g, "roll", proc[p].f - 1, proc[p].was, TRUE)
      BY <1>t, <1>k, <2>1, <2>3 DEF Walks, Seen, Rests, Left
    <2> QED
      BY <1>19, <1>t, <2>2, <2>3, UndoneSees
  <1>20. ASSUME NEW p \in Procs, RollEnds(p) \/ NothingToRoll(p) PROVE Tidy(g)'
    BY <1>20, <1>t, <1>k, RollEndsSees, RollEndsActs
    DEF Anew, Seen, Rests, Left
  <1>21. ASSUME NEW p \in Procs, AskToClean(p) PROVE Tidy(g)'
    BY <1>21, <1>t, <1>k, <1>d, CleanSees, AskActs
    DEF Walks, Seen, Rests, Left
  <1>22. ASSUME NEW p \in Procs, Clean(p) PROVE Tidy(g)'
    BY <1>22, <1>t, <1>k, CleanSees, CleanActs
    DEF Sweeps, Seen, Rests, Left
  <1>23. ASSUME NEW p \in Procs, CleanSource(p) \/ CleanOld(p) PROVE Tidy(g)'
    <2>1. proc[p].f \in Files /\ UNCHANGED <<bundle, journal, catalog, lock>>
      BY <1>23, <1>t, CleanFileActs
    <2>2. CASE /\ proc[p].at = "clean_source" /\ SameBut(g, {"source"})
               /\ disk'[g].source = IF g = proc[p].f THEN "absent" ELSE disk[g].source
               /\ Walks(p, g, "clean_old", proc[p].f, proc[p].was, proc[p].attention)
      BY <1>t, <1>k, <2>1, <2>2 DEF SameBut, Walks, Seen, Rests, Left
    <2>3. CASE /\ proc[p].at = "clean_old" /\ SameBut(g, {"backup", "other", "bin"})
               /\ g # proc[p].f => UNCHANGED (disk[g])
               /\ g = proc[p].f =>
                    /\ disk'[g].backup = IF disk[g].backup = "old" THEN "absent" ELSE disk[g].backup
                    /\ disk'[g].other = IF disk[g].backup # "old" THEN "absent" ELSE disk[g].other
                    /\ disk'[g].bin = IF disk[g].backup = "old" \/ disk[g].other = "old" THEN "old"
                                      ELSE disk[g].bin
               /\ Sweeps(p, g, proc[p].view[g], g \in proc[p].failed, proc[p].f + 1)
      BY <1>t, <1>k, <2>1, <2>3 DEF SameBut, Sweeps, Seen, Rests, Left
    <2> QED
      BY SMTT(30), <1>23, <1>t, <1>f, <2>1, <2>2, <2>3, CleanFileSees
  <1>24. ASSUME NEW p \in Procs, CleanEnds(p) PROVE Tidy(g)'
    BY <1>24, <1>t, <1>k, <1>d, CleanEndsSees, CleanEndsActs
    DEF Anew, Seen, Rests, Left
  <1>25. CASE List
    BY <1>25, <1>t, <1>k, ListSees, ListActs
    DEF Anew, Seen, Rests, Left
  <1>26. CASE TakeUp
    BY <1>26, <1>t, <1>k, TakeUpSees, TakeUpActs
    DEF Anew, Walks, Seen, Rests, Left
  <1>27. CASE ReadJournals
    BY <1>27, <1>t, <1>k, <1>d, ReadJournalsSees, ReadJournalsActs
    DEF Walks, Seen, Rests, Left
  <1>28. CASE Forget \/ Check
    BY <1>28, <1>t, <1>k, ForgetSees, ForgetActs
    DEF Anew, Seen, Rests, Left
  <1>29. CASE Attend
    BY <1>29, <1>t, <1>k, AttendSees, AttendActs
    DEF Flagged, Anew, Seen, Rests, Left
  <1>30. CASE Resolve
    BY <1>30, <1>t, <1>k, ResolveSees, ResolveActs
    DEF Seen, Rests, Left
  <1>31. CASE Crash
    BY <1>31, <1>t, <1>k, CrashSees, CrashActs DEF Seen
  <1>32. CASE World
    <2>1. UNCHANGED <<bundle, journal, catalog, lock, proc>>
      BY <1>32, WorldActs
    <2>2. CASE UNCHANGED disk
      BY <1>t, <1>k, <2>1, <2>2
    <2>3. CASE /\ SameBut(g, {"dest"}) /\ disk'[g].dest \in {disk[g].dest, "foreign"}
               /\ disk[g].dest = "new" => disk'[g].dest = "new"
      BY SMTT(30), <1>t, <1>k, <2>1, <2>3 DEF SameBut
    <2>4. CASE SameBut(g, {"source"})
      BY SMTT(30), <1>t, <1>k, <2>1, <2>4 DEF SameBut
    <2>5. CASE g \in stranded' /\ (SameBut(g, {"temp"}) \/ SameBut(g, {"artTemp"}))
      BY SMTT(30), <1>t, <1>k, <2>1, <2>5 DEF SameBut
    <2> HIDE DEF Tidy
    <2> QED
      BY <1>32, <2>2, <2>3, <2>4, <2>5, WorldSees
  <1>33. CASE PublisherFails \/ StagingCancelled
    <2>1. Starts("pub", "idle", {}) => Anew("pub", g, "idle", FALSE)
      BY TheTwo, SeenMoves
    <2> QED
      BY <1>33, <1>t, <1>k, <1>p, <1>c, <2>1, PublisherFailsActs DEF Anew, Seen, Rests, Left
  <1>34. ASSUME NEW p \in Procs, RestoreFails(p) \/ StoreFails(p) \/ CleanFails(p) PROVE Tidy(g)'
    BY <1>34, <1>t, <1>k, <1>r, <1>f, <1>d, StepFailsActs
  <1> QED
    BY <1>1, <1>2, <1>3, <1>4, <1>5, <1>6, <1>7, <1>8, <1>9, <1>10, <1>11, <1>12, <1>13, <1>14,
       <1>15, <1>16, <1>17, <1>18, <1>19, <1>20, <1>21, <1>22, <1>23, <1>24, <1>25, <1>26,
       <1>27, <1>28, <1>29, <1>30, <1>31, <1>32, <1>33, <1>34
    DEF Next, PubStep, RecStep, Fault, World, Rolls, Cleans
-----------------------------------------------------------------------------
(* What a call goes by.                                                     *)

\* Nobody is at work on a bundle that has not begun, and what a call is about to mark it has read
\* as new or rolled back.
Begins ==
  /\ bundle = "absent" => pub.at = "idle" /\ rec.at = "idle"
  /\ pub.at = "mark" => pub.record \in {"preparing", "rolled_back"}

\* Every step keeps that (g stands for any file).
LEMMA StepBegins ==
  ASSUME Typed, Placed, NEW g \in Files, Begins, Next
  PROVE  Begins'
  <1> USE DEF Begins, Procs, pub, rec, Preparing, Publishing, Undoing, Cleaning
  <1>t. /\ proc["pub"].f \in 0..Count /\ proc["rec"].f \in 0..Count /\ g \in 1..Count
        /\ Other("pub") = "rec" /\ Other("rec") = "pub" /\ Stands
    BY TheTwo DEF Files, Placed
  <1>p. ASSUME PreparationFails, pub.at \in Preparing PROVE Begins'
    BY <1>p, <1>t, PreparationFailsSees, PreparationFailsActs DEF Seen, Rests, Left
  <1>c. ASSUME CriticalFails, pub.at \in Publishing \union {"enter"} PROVE Begins'
    BY <1>c, <1>t, CriticalFailsSees, CriticalFailsActs DEF Walks, Seen, Rests, Left
  <1>r. ASSUME NEW p \in Procs, proc[p].f \in Files, proc[p].at \in Undoing, CannotRestore(p),
               UNCHANGED <<bundle, catalog, disk, lock>>
        PROVE  Begins'
    BY <1>r, <1>t, CannotRestoreSees DEF Seen, Rests, Left
  <1>f. ASSUME NEW p \in Procs, proc[p].f \in Files, proc[p].at \in Cleaning, CannotClean(p),
               UNCHANGED <<bundle, journal, catalog, lock>>
        PROVE  Begins'
    BY <1>f, <1>t, CannotCleanSees DEF Sweeps, Seen, Rests, Left
  <1>d. ASSUME NEW p \in Procs, proc[p].at # "idle", Drops(p), UNCHANGED <<bundle, journal, catalog, disk>>,
               UNCHANGED lock \/ lock' = Released(p)
        PROVE  Begins'
    BY <1>d, <1>t, DropsSees DEF Anew, Seen, Rests, Left
  <1>1. CASE Call
    <2>1. proc'["pub"].at = "mark" => proc'["pub"].record \in {"preparing", "rolled_back"}
      BY <1>1, CallActs DEF Starts, Now
    <2>2. bundle' # "absent"
      BY <1>1, CallActs DEF Committed
    <2> QED
      BY <2>1, <2>2
  <1>2. CASE Mark
    BY <1>2, <1>t, MarkSees, MarkActs
    DEF Anew, Walks, Seen, Rests, Left
  <1>3. CASE Open
    BY ZenonT(30), <1>3, <1>t, OpenSees, OpenActs
    DEF Anew, Seen, Rests, Left
  <1>4. CASE Plan
    BY <1>4, <1>t, <1>p, PlanSees, PlanActs
    DEF GetsReady, Walks, Seen, Rests, Left
  <1>5. CASE StageArtwork \/ Stage
    <2>1. UNCHANGED <<bundle, journal, catalog, lock>>
      BY <1>5, <1>t, StageActs
    <2>2. \/ pub.at = "artwork" /\ Walks("pub", g, "stage", pub.f, pub.was, pub.attention)
          \/ pub.at = "stage" /\ Walks("pub", g, "seal", pub.f, pub.was, pub.attention)
      BY <1>5, <1>t, StageSees
    <2> QED
      BY <1>t, <2>1, <2>2 DEF Walks, Seen, Rests, Left
  <1>6. CASE Seal
    BY <1>6, <1>t, <1>p, SealSees, SealActs
    DEF Writes, Seen, Rests, Left
  <1>7. CASE Validate
    BY <1>7, <1>t, <1>p, ValidateSees, ValidateActs
    DEF GetsReady, Seen, Rests, Left
  <1>8. CASE Enter
    BY <1>8, <1>t, <1>c, EnterSees, EnterActs
    DEF Walks, Seen, Rests, Left
  <1>9. CASE Boundary
    BY <1>9, <1>t, <1>c, BoundarySees, BoundaryActs
    DEF GetsOn, Walks, Seen, Rests, Left
  <1>10. CASE Recheck
    BY SMTT(30), <1>10, <1>t, <1>c, RecheckSees, RecheckActs
    DEF Walks, Seen, Rests, Left
  <1>11. CASE Publish
    BY <1>11, <1>t, <1>c, PublishSees, PublishActs
    DEF GetsOn, Walks, Seen, Rests, Left
  <1>12. CASE Backed
    BY <1>12, <1>t, <1>c, BackedSees, BackedActs
    DEF Writes, Seen, Rests, Left
  <1>13. CASE Place
    BY <1>13, <1>t, <1>c, PlaceSees, PlaceActs
    DEF Walks, Seen, Rests, Left
  <1>14. CASE PlaceArtwork
    <2>1. pub.at = "place_art" /\ pub.f \in Files /\ UNCHANGED <<bundle, journal, catalog>>
      BY <1>14, <1>t, PlaceArtworkActs
    <2>2. CASE UNCHANGED lock /\ Walks("pub", g, "record", pub.f, pub.was, pub.attention)
      BY <1>t, <2>1, <2>2 DEF Walks, Seen, Rests, Left
    <2> QED
      BY <1>14, <1>t, <1>c, <2>1, <2>2, PlaceArtworkSees
  <1>15. CASE RecordPublished
    BY <1>15, <1>t, <1>c, RecordSees, RecordActs
    DEF GetsOn, Seen, Rests, Left
  <1>16. CASE Commit
    <2>1. pub.at = "commit" /\ UNCHANGED disk
      BY <1>16, CommitActs
    <2>2. CASE /\ journal[g] = "published" /\ bundle' = "catalog_committed" /\ catalog' = TRUE
               /\ journal'[g] = "catalog_committed"
               /\ lock' = Released("pub") /\ Anew("pub", g, "lease", TRUE)
      BY <1>t, <2>1, <2>2 DEF Anew, Seen, Rests, Left
    <2> QED
      BY <1>16, <1>c, <2>1, <2>2, CommitSees
  <1>17. ASSUME NEW p \in Procs, Undo(p) PROVE Begins'
    BY ZenonT(60), <1>17, <1>t, UndoSees, UndoActs
    DEF Writes, Walks, Seen, Rests, Left
  <1>18. ASSUME NEW p \in Procs, UndoDest(p) \/ UndoArtwork(p) \/ UndoBackup(p) \/ UndoTemp(p)
         PROVE Begins'
    <2>1. proc[p].f \in Files /\ UNCHANGED <<bundle, catalog, lock>>
      BY <1>18, <1>t, RestoreActs
    <2>2. CASE /\ UNCHANGED journal
               /\ \/ /\ proc[p].at = "undo_dest"
                     /\ Walks(p, g, "undo_art", proc[p].f, proc[p].was, proc[p].attention)
                  \/ /\ proc[p].at = "undo_art"
                     /\ Walks(p, g, "undo_backup", proc[p].f, proc[p].was, proc[p].attention)
                  \/ /\ proc[p].at = "undo_backup"
                     /\ Walks(p, g, "undo_temp", proc[p].f, proc[p].was, proc[p].attention)
                  \/ /\ proc[p].at = "undo_temp"
                     /\ Walks(p, g, "undone", proc[p].f, proc[p].was, proc[p].attention)
      BY <1>t, <2>1, <2>2 DEF Walks, Seen, Rests, Left
    <2> QED
      BY ZenonT(60), <1>18, <1>t, <1>r, <2>1, <2>2, RestoreSees
  <1>19. ASSUME NEW p \in Procs, Undone(p) PROVE Begins'
    BY ZenonT(60), <1>19, <1>t, UndoneSees, UndoneActs
    DEF Writes, Walks, Seen, Rests, Left
  <1>20. ASSUME NEW p \in Procs, RollEnds(p) \/ NothingToRoll(p) PROVE Begins'
    BY <1>20, <1>t, RollEndsSees, RollEndsActs
    DEF RolledBack, Anew, Seen, Rests, Left
  <1>21. ASSUME NEW p \in Procs, AskToClean(p) PROVE Begins'
    BY <1>21, <1>t, <1>d, CleanSees, AskActs
    DEF Walks, Seen, Rests, Left
  <1>22. ASSUME NEW p \in Procs, Clean(p) PROVE Begins'
    BY SMTT(30), <1>22, <1>t, CleanSees, CleanActs
    DEF Sweeps, Seen, Rests, Left
  <1>23. ASSUME NEW p \in Procs, CleanSource(p) \/ CleanOld(p) PROVE Begins'
    BY <1>23, <1>t, <1>f, CleanFileSees, CleanFileActs
    DEF Sweeps, Walks, Seen, Rests, Left
  <1>24. ASSUME NEW p \in Procs, CleanEnds(p) PROVE Begins'
    BY <1>24, <1>t, <1>d, CleanEndsSees, CleanEndsActs
    DEF Anew, Seen, Rests, Left
  <1>25. CASE List
    BY <1>25, <1>t, ListSees, ListActs
    DEF Recoverable, Committed, Anew, Seen, Rests, Left
  <1>26. CASE TakeUp
    BY <1>26, <1>t, TakeUpSees, TakeUpActs
    DEF Anew, Walks, Seen, Rests, Left
  <1>27. CASE ReadJournals
    BY <1>27, <1>t, <1>d, ReadJournalsSees, ReadJournalsActs
    DEF Walks, Seen, Rests, Left
  <1>28. CASE Forget \/ Check
    BY <1>28, <1>t, ForgetSees, ForgetActs
    DEF Anew, Seen, Rests, Left
  <1>29. CASE Attend
    BY <1>29, <1>t, AttendSees, AttendActs
    DEF Flagged, Anew, Seen, Rests, Left
  <1>30. CASE Resolve
    BY <1>30, <1>t, ResolveSees, ResolveActs
    DEF Seen, Rests, Left
  <1>31. CASE Crash
    BY <1>31, <1>t, CrashSees, CrashActs DEF Seen
  <1>32. CASE World
    BY <1>32, <1>t, WorldSees, WorldActs
  <1>33. CASE PublisherFails \/ StagingCancelled
    <2>1. Starts("pub", "idle", {}) => Anew("pub", g, "idle", FALSE)
      BY TheTwo, SeenMoves
    <2> QED
      BY <1>33, <1>t, <1>p, <1>c, <2>1, PublisherFailsActs DEF Anew, Seen, Rests, Left
  <1>34. ASSUME NEW p \in Procs, RestoreFails(p) \/ StoreFails(p) \/ CleanFails(p) PROVE Begins'
    BY <1>34, <1>t, <1>r, <1>f, <1>d, StepFailsActs
  <1> QED
    BY <1>1, <1>2, <1>3, <1>4, <1>5, <1>6, <1>7, <1>8, <1>9, <1>10, <1>11, <1>12, <1>13, <1>14,
       <1>15, <1>16, <1>17, <1>18, <1>19, <1>20, <1>21, <1>22, <1>23, <1>24, <1>25, <1>26,
       <1>27, <1>28, <1>29, <1>30, <1>31, <1>32, <1>33, <1>34
    DEF Next, PubStep, RecStep, Fault, World, Rolls, Cleans
-----------------------------------------------------------------------------
(* The invariant.                                                           *)

\* What stands in every state, of a file.
Sound(g) == Copied(g) /\ Settles(g) /\ Stored(g) /\ Threaded(g) /\ Swept(g)
\* All of it; what stands only until a call crosses the recovery is put that way.
IInv ==
  /\ Typed /\ Placed /\ Begins
  /\ \A g \in Files: Sound(g)
  /\ ~crossed => \A g \in Files: Exact(g) /\ Tidy(g)

\* It stands at first.
LEMMA InitInv == Init => IInv
  <1> SUFFICES ASSUME Init PROVE IInv
    OBVIOUS
  <1>1. /\ \A p \in Procs: /\ proc[p].at = "idle" /\ proc[p].record = "absent" /\ proc[p].fresh = {}
                           /\ proc[p].f = 0 /\ proc[p].was = FALSE
        /\ pub.at = "idle" /\ rec.at = "idle" /\ rec.record = "absent" /\ pub.was = FALSE
    BY DEF Init, Idle, Procs, pub, rec
  <1>2. Typed
    <2>1. proc \in [Procs -> Agents]
      BY IdleTyped DEF Init
    <2>2. disk \in [Files -> Paths]
      BY DEF Init, Before, Paths, Whats
    <2>3. /\ bundle \in BundleStates /\ catalog \in BOOLEAN /\ lock \in Procs \union {"none"}
          /\ booting \in BOOLEAN /\ policyMoved \in BOOLEAN /\ crossed \in BOOLEAN
          /\ torn \subseteq Files /\ threads \subseteq Threads /\ stranded \subseteq Files
      BY DEF Init, BundleStates
    <2>4. journal \in [Files -> JournalStates]
      BY DEF Init, JournalStates
    <2>5. calls \in 0..MaxCalls /\ disturbed \in 0..MaxDisturbed
      BY BoundsAssumption DEF Init
    <2> QED
      BY <2>1, <2>2, <2>3, <2>4, <2>5 DEF Typed
  <1>3. Placed
    <2>1. lock = "none" /\ "none" \notin Procs
      BY DEF Init, Procs
    <2>2. Stands
      BY <1>1 DEF Stands, Preparing, Publishing, Undoing
    <2>3. Locked
      BY <1>1, <2>1 DEF Locked, Holding, Waiting, Publishing, Undoing, Cleaning
    <2> QED
      BY <2>2, <2>3 DEF Placed
  <1>4. Begins
    BY <1>1 DEF Begins
  <1>5. ASSUME NEW g \in Files PROVE Sound(g) /\ Exact(g) /\ Tidy(g)
    <2>1. /\ disk[g] = Before(g) /\ journal[g] = "none" /\ bundle = "absent" /\ catalog = FALSE
          /\ lock = "none"
      BY DEF Init
    <2>2. /\ disk[g].source = "new" /\ disk[g].temp = "absent" /\ disk[g].backup = "absent"
          /\ disk[g].bin = "absent" /\ disk[g].artTemp = FALSE /\ disk[g].artDest = FALSE
          /\ disk[g].dest = (IF g \in SamePath THEN "old" ELSE "absent")
          /\ disk[g].other = (IF g \in OtherPath THEN "old" ELSE "absent")
      BY <2>1 DEF Before
    <2>3. Copied(g)
      BY <1>1 DEF Copied, Preparing, Publishing, Undoing
    <2>4. Settles(g)
      BY <1>1, <2>1 DEF Settles, Adopted, Queued, BeforeCommit, AfterCommit, Committed, Preparing,
                        Publishing, Undoing, Cleaning, Rolling
    <2>5. Stored(g)
      BY <1>1, <2>1, <2>2 DEF Stored, Shelved, Carried, Restoring, Unpublished, Preparing, Publishing,
                              Undoing, Rolling
    <2>6. Swept(g)
      BY <1>1, <2>1 DEF Swept, Cleaning
    <2>7. Exact(g)
      BY <1>1, <2>1 DEF Exact, BeforeCommit, Preparing, Publishing, Undoing, Rolling
    <2>8. Tidy(g)
      BY <1>1, <2>2 DEF Tidy, Cleared
    <2>9. Threaded(g)
      BY DEF Init, Threaded
    <2> QED
      BY <2>3, <2>4, <2>5, <2>6, <2>7, <2>8, <2>9 DEF Sound
  <1> QED
    BY <1>2, <1>3, <1>4, <1>5 DEF IInv

\* And every step keeps it.
LEMMA StepInv == IInv /\ [Next]_vars => IInv'
  <1> SUFFICES ASSUME IInv, [Next]_vars PROVE IInv'
    OBVIOUS
  <1>1. Typed' /\ Placed'
    BY StepTyped, StepPlaced DEF IInv, Placed
  <1>2. CASE Next
    <2>1. /\ Typed /\ Placed /\ Begins
          /\ \A g \in Files: Copied(g) /\ Settles(g) /\ Stored(g) /\ Threaded(g) /\ Swept(g)
      BY DEF IInv, Sound
    <2>2. Begins'
      <3>1. 1 \in Files
        BY CountAssumption DEF Files
      <3> QED
        BY <1>2, <2>1, <3>1, StepBegins
    <2>3. ASSUME NEW g \in Files PROVE Sound(g)'
      <3>1. Copied(g)'
        BY <1>2, <2>1, StepCopied
      <3>2. Settles(g)'
        BY <1>2, <2>1, StepSettles
      <3>3. Stored(g)'
        BY <1>2, <2>1, StepStored
      <3>4. Swept(g)'
        BY <1>2, <2>1, StepSwept DEF Stored
      <3>5. Threaded(g)'
        BY <1>2, <2>1, StepThreaded
      <3> QED
        BY <3>1, <3>2, <3>3, <3>4, <3>5 DEF Sound
    <2>4. ASSUME ~crossed', NEW g \in Files PROVE (Exact(g) /\ Tidy(g))'
      <3>1. ~crossed /\ \A h \in Files: Exact(h) /\ Tidy(h)
        BY <1>2, <2>4, CrossedGrows DEF IInv
      <3>2. Exact(g)'
        BY <1>2, <2>1, <2>4, <3>1, StepExact
      <3>3. Tidy(g)'
        BY <1>2, <2>1, <3>1, StepTidy
      <3> QED
        BY <3>2, <3>3
    <2> QED
      BY <1>1, <2>2, <2>3, <2>4 DEF IInv
  <1>3. CASE UNCHANGED vars
    <2>1. /\ UNCHANGED <<bundle, journal, catalog, disk, lock, proc, crossed, torn, threads, stranded>>
          /\ pub' = pub /\ rec' = rec
      BY <1>3 DEF vars, pub, rec
    <2>2. Begins'
      BY <2>1 DEF IInv, Begins
    <2>3. ASSUME NEW g \in Files PROVE Sound(g)'
      <3>1. Copied(g)'
        BY <2>1 DEF IInv, Sound, Copied
      <3>2. Settles(g)'
        BY <2>1 DEF IInv, Sound, Settles, Adopted, Queued
      <3>3. Stored(g)'
        BY <2>1 DEF IInv, Sound, Stored, Shelved, Carried, Restoring, Loose
      <3>4. Swept(g)'
        BY <2>1 DEF IInv, Sound, Swept, Empty
      <3>5. Threaded(g)'
        BY <2>1 DEF IInv, Sound, Threaded
      <3> QED
        BY <3>1, <3>2, <3>3, <3>4, <3>5 DEF Sound
    <2>4. ASSUME ~crossed', NEW g \in Files PROVE (Exact(g) /\ Tidy(g))'
      <3>1. Exact(g)'
        BY <2>1, <2>4 DEF IInv, Exact
      <3>2. Tidy(g)'
        BY <2>1, <2>4 DEF IInv, Tidy, Cleared
      <3> QED
        BY <3>1, <3>2
    <2> QED
      BY <1>1, <2>2, <2>3, <2>4 DEF IInv
  <1> QED
    BY <1>2, <1>3
-----------------------------------------------------------------------------
(* What it says.                                                            *)

\* The typing of the module.
LEMMA InvTypeOK == IInv => TypeOK
  <1> SUFFICES ASSUME IInv PROVE TypeOK
    OBVIOUS
  <1>1. Typed /\ \A g \in Files: disk[g].backup \in {"absent", "old"}
    BY DEF IInv, Sound, Stored, Shelved
  <1>2. \A g \in Files: disk[g] \in [source: {"absent", "new", "changed"}, temp: {"absent", "new"},
                                   dest: {"absent", "old", "new", "foreign"}, backup: {"absent", "old"},
                                   other: {"absent", "old"}, bin: {"absent", "old"},
                                   artTemp: BOOLEAN, artDest: BOOLEAN]
    BY <1>1 DEF Typed, Paths, Whats
  <1> QED
    BY <1>1, <1>2 DEF Typed, TypeOK, Agents

\* Where the replaced file is.
LEMMA InvOldKept == IInv => OldKept
  BY DEF IInv, Sound, Stored, Shelved, OldKept

\* What a completed bundle is.
LEMMA InvCompletedWhole == IInv => CompletedWhole
  <1> SUFFICES ASSUME IInv, bundle = "completed", NEW f \in Files
               PROVE  /\ catalog /\ disk[f].dest = "new" /\ disk[f].source = "absent"
                      /\ disk[f].temp = "absent" \/ f \in stranded
                      /\ disk[f].backup = "absent" /\ disk[f].other = "absent"
    <2>1. 1 \in Files
      BY CountAssumption DEF Files
    <2> QED
      BY <2>1 DEF CompletedWhole
  <1>1. Adopted(f) /\ Shelved(f) /\ Swept(f)
    BY DEF IInv, Sound, Settles, Stored
  <1> QED
    BY <1>1 DEF Adopted, Shelved, Loose, Swept, Empty

\* Paths with the same at three places differ only at the other ones.
LEMMA PathsDiffer ==
  ASSUME NEW r \in Paths, NEW s \in Paths, s.backup = r.backup, s.other = r.other, s.bin = r.bin
  PROVE  s = [r EXCEPT !.source = s.source, !.dest = s.dest, !.artDest = s.artDest,
                       !.temp = s.temp, !.artTemp = s.artTemp]
  BY DEF Paths

\* What a bundle that is rolled back has left.
LEMMA InvRolledBackClean == IInv => RolledBackClean
  <1> SUFFICES ASSUME IInv, bundle = "rolled_back", ~crossed, NEW f \in Files,
                      journal[f] # "needs_attention"
               PROVE  \E source \in {"new", "changed"}, dest \in {Before(f).dest, "foreign"},
                         art \in {FALSE, (f \in torn)},
                         temp \in {"absent", IF f \in stranded THEN "new" ELSE "absent"},
                         artTemp \in {FALSE, (f \in stranded)}:
                        disk[f] = [Before(f) EXCEPT !.source = source, !.dest = dest, !.artDest = art,
                                                    !.temp = temp, !.artTemp = artTemp]
    BY ZenonT(30) DEF RolledBackClean
  <1>1. Adopted(f) /\ Shelved(f) /\ Exact(f) /\ Tidy(f) /\ disk[f] \in Paths /\ journal[f] \in JournalStates
    BY DEF IInv, Sound, Settles, Stored, Typed
  <1>2. ~catalog /\ journal[f] \in {"none", "rolled_back"}
    BY <1>1 DEF Adopted, Exact, JournalStates, Undoable
  <1>3. /\ disk[f].source \in {"new", "changed"} /\ disk[f].dest \in {Before(f).dest, "foreign"}
        /\ disk[f].artDest \in {FALSE, (f \in torn)}
    BY <1>1, <1>2 DEF Shelved, Loose, Tidy, Cleared, Unpublished, Paths, Whats, Before
  <1>4. /\ disk[f].temp \in {"absent", IF f \in stranded THEN "new" ELSE "absent"}
        /\ disk[f].artTemp \in {FALSE, (f \in stranded)}
    BY <1>1, <1>2 DEF Tidy, Cleared, Paths, Whats
  <1>5. disk[f].backup = "absent" /\ disk[f].bin = "absent" /\ disk[f].other = Before(f).other
    BY <1>1, <1>2 DEF Shelved, Tidy, Cleared, Paths, Whats, Before
  <1>6. disk[f] = [Before(f) EXCEPT !.source = disk[f].source, !.dest = disk[f].dest,
                                    !.artDest = disk[f].artDest, !.temp = disk[f].temp,
                                    !.artTemp = disk[f].artTemp]
    <2>1. Before(f) \in Paths /\ Before(f).backup = "absent" /\ Before(f).bin = "absent"
      BY DEF Before, Paths, Whats
    <2>2. disk[f].backup = Before(f).backup /\ disk[f].bin = Before(f).bin
      BY <1>5, <2>1
    <2> QED
      BY <1>1, <1>5, <2>1, <2>2, PathsDiffer, Zenon
  <1> QED
    BY ZenonT(60), <1>3, <1>4, <1>6
-----------------------------------------------------------------------------
(* What the steps do to the files.                                          *)

\* What is on the paths of f after a step, but for what is staged and for artwork.
On(f, source, dest, backup, other, bin) ==
  /\ disk'[f].source = source /\ disk'[f].dest = dest /\ disk'[f].backup = backup
  /\ disk'[f].other = other /\ disk'[f].bin = bin
\* The ways in which a step changes the paths of one file.
Changes(f) == LET was == disk[f] IN
  \/ On(f, was.source, was.dest, was.backup, was.other, was.bin)
  \/ ~catalog /\ f \in SamePath /\ was.dest = "old"
       /\ On(f, was.source, "absent", "old", was.other, was.bin)
  \/ ~catalog /\ was.dest = "absent" /\ On(f, was.source, "new", was.backup, was.other, was.bin)
  \/ ~catalog /\ was.dest = "new" /\ On(f, was.source, "absent", was.backup, was.other, was.bin)
  \/ ~catalog /\ was.backup = "old"
       /\ On(f, was.source, "old", "absent", was.other, was.bin)
  \/ catalog /\ On(f, "absent", was.dest, was.backup, was.other, was.bin)
  \/ catalog /\ was.backup = "old" /\ On(f, was.source, was.dest, "absent", was.other, "old")
  \/ catalog /\ was.other = "old" /\ On(f, was.source, was.dest, was.backup, "absent", "old")
  \/ was.dest = "absent" /\ On(f, was.source, "foreign", was.backup, was.other, was.bin)
  \/ was.source = "new" /\ On(f, "changed", was.dest, was.backup, was.other, was.bin)
\* No file and no catalog changes, but for what is staged; or one file does; or the catalog adopts
\* them.
FilesStay == UNCHANGED catalog /\ \A f \in Files:
  On(f, disk[f].source, disk[f].dest, disk[f].backup, disk[f].other, disk[f].bin)
FileChanges == UNCHANGED catalog /\ \E f \in Files:
  Changes(f) /\ \A g \in Files \ {f}: disk'[g] = disk[g]
Adopts == ~catalog /\ catalog' = TRUE /\ UNCHANGED disk /\ \A f \in Files: disk[f].dest = "new"

\* What putting something on a path changes.
LEMMA PutChanges ==
  ASSUME Typed, NEW f \in Files, NEW what
  PROVE  /\ \A slot: Put(f, slot, what) => \A g \in Files \ {f}: disk'[g] = disk[g]
         /\ Put(f, "source", what) =>
              On(f, what, disk[f].dest, disk[f].backup, disk[f].other, disk[f].bin)
         /\ Put(f, "dest", what) =>
              On(f, disk[f].source, what, disk[f].backup, disk[f].other, disk[f].bin)
         /\ Put(f, "temp", what) \/ Put(f, "artTemp", what) =>
              On(f, disk[f].source, disk[f].dest, disk[f].backup, disk[f].other, disk[f].bin)
  BY DEF Typed, Paths, Put, On

\* A step leaves the files and the catalog alone, changes those of one file in one of these ways,
\* or adopts them when all are in their place.
LEMMA StepChanges ==
  ASSUME IInv, Next
  PROVE  FilesStay \/ FileChanges \/ Adopts
  <1>t. /\ Typed /\ Stands /\ disk \in [Files -> Paths] /\ "pub" \in Procs /\ "rec" \in Procs
        /\ pub = proc["pub"] /\ rec = proc["rec"]
        /\ \A g \in Files: Copied(g) /\ Adopted(g) /\ Shelved(g) /\ Carried(g) /\ Restoring(g)
    BY DEF IInv, Typed, Placed, Procs, pub, rec, Sound, Settles, Stored
  <1>p. PreparationFails => FilesStay
    BY DEF PreparationFails, store, FilesStay, On
  <1>c. CriticalFails => FilesStay
    BY DEF CriticalFails, store, FilesStay, On
  <1>k. ASSUME NEW p \in Procs
        PROVE  /\ proc[p].at \in Undoing => ~catalog
               /\ proc[p].at \in Cleaning => catalog
               /\ pub.at \in Publishing => ~catalog
    <2>1. \E g \in Files: Adopted(g)
      BY <1>t, CountAssumption DEF Files
    <2> QED
      BY <1>t, <2>1 DEF Adopted, BeforeCommit, AfterCommit, Rolling, Procs
  <1>1. CASE Call
    BY <1>1, <1>t, <1>p, <1>c, CallActs DEF FilesStay, On
  <1>2. CASE Mark
    BY <1>2, <1>t, <1>p, <1>c, MarkActs DEF FilesStay, On
  <1>3. CASE Open
    BY <1>3, <1>t, <1>p, <1>c, OpenActs DEF FilesStay, On
  <1>4. CASE Plan
    BY <1>4, <1>t, <1>p, <1>c, PlanActs DEF FilesStay, On
  <1>5. CASE Seal
    BY <1>5, <1>t, <1>p, <1>c, SealActs DEF FilesStay, On
  <1>6. CASE Validate
    BY <1>6, <1>t, <1>p, <1>c, ValidateActs DEF FilesStay, On
  <1>7. CASE Enter
    BY <1>7, <1>t, <1>p, <1>c, EnterActs DEF FilesStay, On
  <1>8. CASE Boundary
    BY <1>8, <1>t, <1>p, <1>c, BoundaryActs DEF FilesStay, On
  <1>9. CASE Recheck
    <2>1. CASE disk' = Rechecked
      <3>1. UNCHANGED catalog
        BY <1>9, <1>t, RecheckActs
      <3> QED
        BY <1>t, <2>1, <3>1 DEF Rechecked, Paths, FilesStay, On
    <2> QED
      BY <1>9, <1>t, <1>c, <2>1, RecheckActs
  <1>10. CASE Backed
    BY <1>10, <1>t, <1>p, <1>c, BackedActs DEF FilesStay, On
  <1>11. CASE RecordPublished
    BY <1>11, <1>t, <1>p, <1>c, RecordActs DEF FilesStay, On
  <1>12. CASE StageArtwork \/ Stage
    BY ZenonT(60), <1>12, <1>t, StageActs, PutChanges DEF FileChanges, Changes
  <1>13. CASE Publish
    <2>1. CASE UNCHANGED disk
      BY <1>13, <1>t, <2>1, PublishActs DEF FilesStay, On
    <2>2. CASE /\ pub.view[pub.f] = "validated" /\ pub.f \in SamePath
               /\ disk' = [disk EXCEPT ![pub.f].backup = disk[pub.f].dest, ![pub.f].dest = "absent"]
      <3>1. pub.at = "publish" /\ pub.f \in Files /\ UNCHANGED catalog /\ pub.f \in 1..Count
        BY <1>13, <1>t, PublishActs DEF Files
      <3>2. disk[pub.f].dest = "old" /\ ~catalog
        BY <1>t, <1>k, <2>2, <3>1 DEF Carried, Publishing
      <3>3. /\ On(pub.f, disk[pub.f].source, "absent", "old", disk[pub.f].other, disk[pub.f].bin)
            /\ \A g \in Files \ {pub.f}: disk'[g] = disk[g]
        BY <1>t, <2>2, <3>1, <3>2 DEF Paths, On
      <3> QED
        BY <2>2, <3>1, <3>2, <3>3 DEF FileChanges, Changes
    <2> QED
      BY <1>13, <1>t, <1>c, <2>1, <2>2, PublishActs
  <1>14. CASE Place
    <2>1. CASE /\ disk[pub.f].dest = "absent"
               /\ disk' = [disk EXCEPT ![pub.f].dest = disk[pub.f].temp, ![pub.f].temp = "absent"]
      <3>1. pub.at = "place" /\ pub.f \in Files /\ UNCHANGED catalog /\ pub.f \in 1..Count
        BY <1>14, <1>t, PlaceActs DEF Files
      <3>2. disk[pub.f].temp = "new" /\ ~catalog
        BY <1>t, <1>k, <3>1 DEF Carried, Publishing
      <3>3. /\ On(pub.f, disk[pub.f].source, "new", disk[pub.f].backup, disk[pub.f].other,
                  disk[pub.f].bin)
            /\ \A g \in Files \ {pub.f}: disk'[g] = disk[g]
        BY <1>t, <2>1, <3>1, <3>2 DEF Paths, On
      <3> QED
        BY <2>1, <3>1, <3>2, <3>3 DEF FileChanges, Changes
    <2> QED
      BY <1>14, <1>t, <1>c, <2>1, PlaceActs
  <1>15. CASE PlaceArtwork
    <2>1. CASE disk' = [disk EXCEPT ![pub.f].artDest = pub.f \in Artwork, ![pub.f].artTemp = FALSE]
      <3>1. pub.f \in Files /\ UNCHANGED catalog
        BY <1>15, <1>t, PlaceArtworkActs
      <3>2. /\ On(pub.f, disk[pub.f].source, disk[pub.f].dest, disk[pub.f].backup, disk[pub.f].other,
                  disk[pub.f].bin)
            /\ \A g \in Files \ {pub.f}: disk'[g] = disk[g]
        BY <1>t, <2>1, <3>1 DEF Paths, On
      <3> QED
        BY <3>1, <3>2 DEF FileChanges, Changes
    <2> QED
      BY <1>15, <1>t, <1>c, <2>1, PlaceArtworkActs
  <1>16. CASE Commit
    <2>1. CASE catalog' = TRUE /\ \A f \in Files: journal[f] = "published"
      <3>1. pub.at = "commit" /\ UNCHANGED disk
        BY <1>16, <1>t, CommitActs
      <3>2. ~catalog /\ \A f \in Files: disk[f].dest = "new"
        BY SMTT(30), <1>t, <1>k, <2>1, <3>1 DEF Shelved, Publishing
      <3> QED
        BY <2>1, <3>1, <3>2 DEF Adopts
    <2> QED
      BY <1>16, <1>t, <1>c, <2>1, CommitActs
  <1>17. ASSUME NEW p \in Procs, UndoDest(p) \/ UndoArtwork(p) \/ UndoBackup(p) \/ UndoTemp(p)
         PROVE FilesStay \/ FileChanges \/ Adopts
    <2>1. proc[p].f \in Files /\ UNCHANGED catalog
      BY <1>17, <1>t, RestoreActs
    <2>2. CASE UNCHANGED disk
      BY <2>1, <2>2 DEF FilesStay, On
    <2>3. CASE /\ proc[p].at = "undo_dest" /\ disk[proc[p].f].dest \in {"absent", "new"}
               /\ Put(proc[p].f, "dest", "absent")
      BY <1>t, <1>k, <2>1, <2>3, PutChanges DEF FileChanges, Changes, Undoing
    <2>4. CASE disk' = [disk EXCEPT ![proc[p].f].artDest = @ /\ ~proc[p].was,
                                    ![proc[p].f].artTemp = FALSE]
      <3>1. /\ On(proc[p].f, disk[proc[p].f].source, disk[proc[p].f].dest, disk[proc[p].f].backup,
                  disk[proc[p].f].other, disk[proc[p].f].bin)
            /\ \A g \in Files \ {proc[p].f}: disk'[g] = disk[g]
        BY SMTT(30), <1>t, <2>1, <2>4 DEF Paths, On
      <3> QED
        BY SMTT(30), <2>1, <3>1 DEF FileChanges, Changes
    <2>5. CASE /\ proc[p].at = "undo_backup" /\ disk[proc[p].f].backup = "old"
               /\ disk' = [disk EXCEPT ![proc[p].f].dest = "old", ![proc[p].f].backup = "absent"]
      <3>1. ~catalog
        BY <1>k, <2>5 DEF Undoing
      <3>2. /\ On(proc[p].f, disk[proc[p].f].source, "old", "absent", disk[proc[p].f].other,
                  disk[proc[p].f].bin)
            /\ \A g \in Files \ {proc[p].f}: disk'[g] = disk[g]
        BY <1>t, <2>1, <2>5 DEF Paths, On
      <3> QED
        BY <2>1, <2>5, <3>1, <3>2 DEF FileChanges, Changes
    <2>6. CASE Put(proc[p].f, "temp", "absent")
      BY <1>t, <2>1, <2>6, PutChanges DEF FileChanges, Changes
    <2> QED
      BY <1>17, <1>t, <2>2, <2>3, <2>4, <2>5, <2>6, RestoreActs
  <1>18. ASSUME NEW p \in Procs, Undo(p) \/ Undone(p) \/ RollEnds(p) \/ NothingToRoll(p)
         PROVE FilesStay \/ FileChanges \/ Adopts
    BY <1>18, <1>t, UndoActs, UndoneActs, RollEndsActs DEF FilesStay, On
  <1>19. ASSUME NEW p \in Procs, AskToClean(p) \/ Clean(p) \/ CleanEnds(p)
         PROVE FilesStay \/ FileChanges \/ Adopts
    BY <1>19, <1>t, AskActs, CleanActs, CleanEndsActs DEF FilesStay, On
  <1>20. ASSUME NEW p \in Procs, CleanSource(p) \/ CleanOld(p) PROVE FilesStay \/ FileChanges \/ Adopts
    <2>1. proc[p].f \in Files /\ UNCHANGED catalog
      BY <1>20, <1>t, CleanFileActs
    <2>2. CASE UNCHANGED disk
      BY <2>1, <2>2 DEF FilesStay, On
    <2>3. CASE proc[p].at = "clean_source" /\ Put(proc[p].f, "source", "absent")
      BY <1>t, <1>k, <2>1, <2>3, PutChanges DEF FileChanges, Changes, Cleaning
    <2>4. CASE /\ proc[p].at = "clean_old" /\ disk[proc[p].f].backup = "old"
               /\ disk' = [disk EXCEPT ![proc[p].f].backup = "absent", ![proc[p].f].bin = "old"]
      <3>1. /\ On(proc[p].f, disk[proc[p].f].source, disk[proc[p].f].dest, "absent",
                  disk[proc[p].f].other, "old")
            /\ \A g \in Files \ {proc[p].f}: disk'[g] = disk[g]
        BY <1>t, <2>1, <2>4 DEF Paths, On
      <3> QED
        BY <1>k, <2>1, <2>4, <3>1 DEF FileChanges, Changes, Cleaning
    <2>5. CASE /\ proc[p].at = "clean_old" /\ disk[proc[p].f].other = "old"
               /\ disk' = [disk EXCEPT ![proc[p].f].other = "absent", ![proc[p].f].bin = "old"]
      <3>1. /\ On(proc[p].f, disk[proc[p].f].source, disk[proc[p].f].dest, disk[proc[p].f].backup,
                  "absent", "old")
            /\ \A g \in Files \ {proc[p].f}: disk'[g] = disk[g]
        BY <1>t, <2>1, <2>5 DEF Paths, On
      <3> QED
        BY <1>k, <2>1, <2>5, <3>1 DEF FileChanges, Changes, Cleaning
    <2> QED
      BY <1>20, <1>t, <2>2, <2>3, <2>4, <2>5, CleanFileActs DEF CannotClean
  <1>21. CASE List \/ TakeUp \/ ReadJournals \/ Forget \/ Check \/ Attend \/ Resolve
    BY <1>21 DEF List, TakeUp, ReadJournals, Forget, Check, Attend, Resolve, store, FilesStay, On
  <1>22. CASE Crash \/ PublisherFails \/ StagingCancelled
    BY <1>22, <1>t, CrashActs, PublisherFailsActs DEF FilesStay, On
  <1>23. CASE World
    BY ZenonT(60), <1>23, <1>t, WorldActs, PutChanges DEF FilesStay, On, FileChanges, Changes
  <1>24. ASSUME NEW p \in Procs, RestoreFails(p) \/ StoreFails(p) \/ CleanFails(p)
         PROVE FilesStay \/ FileChanges \/ Adopts
    BY <1>24, <1>t, StepFailsActs DEF FilesStay, On
  <1>r. ASSUME NEW p \in Procs, Rolls(p) \/ Cleans(p) PROVE FilesStay \/ FileChanges \/ Adopts
    BY <1>r, <1>17, <1>18, <1>19, <1>20 DEF Rolls, Cleans
  <1>u. CASE PubStep
    BY <1>u, <1>t, <1>r, <1>1, <1>2, <1>3, <1>4, <1>5, <1>6, <1>7, <1>8, <1>9, <1>10, <1>11,
       <1>12, <1>13, <1>14, <1>15, <1>16 DEF PubStep
  <1>v. CASE RecStep \/ Resolve
    BY <1>v, <1>t, <1>r, <1>21 DEF RecStep
  <1>w. CASE Fault
    BY <1>w, <1>22, <1>23, <1>24 DEF Fault, World
  <1> QED
    BY <1>1, <1>u, <1>v, <1>w DEF Next
-----------------------------------------------------------------------------
(* What SafeImport sees.                                                    *)

\* The substitutions that ImportPublication makes in SafeImport.
Acquired == {f \in Files: disk[f].source # "absent"}
InPlace == {f \in Files: disk[f].dest = "new"}
Former == [f \in Files |-> IF disk[f].bin = "old" THEN "recycled"
                          ELSE IF disk[f].backup = "old" THEN "aside"
                          ELSE IF f \in SamePath \union OtherPath THEN "library" ELSE "nothing"]

\* A step that changes the paths of one file is one of SafeImport's, or one that it does not see.
LEMMA ChangesAreSafe ==
  ASSUME IInv, FileChanges
  PROVE  Safe!Next \/ UNCHANGED <<Acquired, InPlace, catalog, Former>>
  <1>1. PICK f \in Files: Changes(f) /\ \A g \in Files \ {f}: disk'[g] = disk[g]
    BY DEF FileChanges
  <1>2. UNCHANGED catalog
    BY DEF FileChanges
  <1>3. Shelved(f)
    BY DEF IInv, Sound, Stored
  <1>4. CASE On(f, disk[f].source, disk[f].dest, disk[f].backup, disk[f].other, disk[f].bin)
    BY <1>1, <1>2, <1>4 DEF On, Acquired, InPlace, Former
  <1>5. CASE /\ ~catalog /\ f \in SamePath /\ disk[f].dest = "old"
             /\ On(f, disk[f].source, "absent", "old", disk[f].other, disk[f].bin)
    <2>1. UNCHANGED <<Acquired, InPlace>>
      BY <1>1, <1>5 DEF On, Acquired, InPlace
    <2>2. CASE disk[f].backup = "old"
      <3>1. UNCHANGED Former
        BY <1>1, <1>5, <2>2 DEF On, Former
      <3> QED
        BY <1>2, <2>1, <3>1
    <2>3. CASE disk[f].backup # "old"
      <3>1. Former[f] = "library" /\ Former' = [Former EXCEPT ![f] = "aside"]
        BY <1>1, <1>3, <1>5, <2>3 DEF On, Former, Shelved
      <3>2. Safe!SetAside(f)
        BY <1>2, <1>5, <2>1, <3>1 DEF Safe!SetAside, Acquired, InPlace, Former
      <3> QED
        BY <3>2 DEF Safe!Next
    <2> QED
      BY <2>2, <2>3
  <1>6. CASE /\ ~catalog /\ disk[f].dest = "absent"
             /\ On(f, disk[f].source, "new", disk[f].backup, disk[f].other, disk[f].bin)
    <2>1. UNCHANGED <<Acquired, Former>> /\ InPlace' = InPlace \union {f}
      BY <1>1, <1>6 DEF On, Acquired, InPlace, Former
    <2>2. Safe!Place(f)
      BY <1>2, <1>6, <2>1 DEF Safe!Place, Acquired, InPlace, Former
    <2> QED
      BY <2>2 DEF Safe!Next
  <1>7. CASE /\ ~catalog /\ disk[f].dest = "new"
             /\ On(f, disk[f].source, "absent", disk[f].backup, disk[f].other, disk[f].bin)
    <2>1. UNCHANGED <<Acquired, Former>> /\ InPlace' = InPlace \ {f}
      BY <1>1, <1>7 DEF On, Acquired, InPlace, Former
    <2>2. Safe!Withdraw(f)
      BY <1>2, <1>7, <2>1 DEF Safe!Withdraw, Acquired, InPlace, Former
    <2> QED
      BY <2>2 DEF Safe!Next
  <1>8. CASE /\ ~catalog /\ disk[f].backup = "old"
             /\ On(f, disk[f].source, "old", "absent", disk[f].other, disk[f].bin)
    <2>1. UNCHANGED Acquired /\ InPlace' = InPlace \ {f}
      BY <1>1, <1>8 DEF On, Acquired, InPlace
    <2>2. Former[f] = "aside" /\ Former' = [Former EXCEPT ![f] = "library"]
      BY <1>1, <1>3, <1>8 DEF On, Former, Shelved
    <2>3. Safe!PutBack(f)
      BY <1>2, <1>8, <2>1, <2>2 DEF Safe!PutBack, Acquired, InPlace, Former
    <2> QED
      BY <2>3 DEF Safe!Next
  <1>9. CASE catalog /\ On(f, "absent", disk[f].dest, disk[f].backup, disk[f].other, disk[f].bin)
    <2>1. UNCHANGED <<InPlace, Former>> /\ Acquired' = Acquired \ {f}
      BY <1>1, <1>9 DEF On, Acquired, InPlace, Former
    <2>2. Safe!Release(f)
      BY <1>2, <1>9, <2>1 DEF Safe!Release, Acquired, InPlace, Former
    <2> QED
      BY <2>2 DEF Safe!Next
  <1>10. CASE /\ catalog
              /\ \/ /\ disk[f].backup = "old"
                    /\ On(f, disk[f].source, disk[f].dest, "absent", disk[f].other, "old")
                 \/ /\ disk[f].other = "old"
                    /\ On(f, disk[f].source, disk[f].dest, disk[f].backup, "absent", "old")
    <2>1. UNCHANGED <<Acquired, InPlace>>
      BY <1>1, <1>10 DEF On, Acquired, InPlace
    <2>2. Former[f] # "nothing" /\ Former' = [Former EXCEPT ![f] = "recycled"]
      BY <1>1, <1>3, <1>10 DEF On, Former, Shelved
    <2>3. Safe!Recycle(f)
      BY <1>2, <1>10, <2>1, <2>2 DEF Safe!Recycle, Acquired, InPlace, Former
    <2> QED
      BY <2>3 DEF Safe!Next
  <1>11. CASE \/ /\ disk[f].dest = "absent"
                 /\ On(f, disk[f].source, "foreign", disk[f].backup, disk[f].other, disk[f].bin)
              \/ /\ disk[f].source = "new"
                 /\ On(f, "changed", disk[f].dest, disk[f].backup, disk[f].other, disk[f].bin)
    BY <1>1, <1>2, <1>11 DEF On, Acquired, InPlace, Former
  <1> QED
    BY <1>1, <1>4, <1>5, <1>6, <1>7, <1>8, <1>9, <1>10, <1>11 DEF Changes

\* So every step is one of SafeImport's, or one that it does not see.
LEMMA StepIsSafe ==
  ASSUME IInv, [Next]_vars
  PROVE  [Safe!Next]_<<Acquired, InPlace, catalog, Former>>
  <1>1. CASE FilesStay \/ UNCHANGED vars
    BY <1>1 DEF FilesStay, On, vars, Acquired, InPlace, Former
  <1>2. CASE FileChanges
    BY <1>2, ChangesAreSafe
  <1>3. CASE Adopts
    <2>1. UNCHANGED <<Acquired, InPlace, Former>> /\ InPlace = Files
      BY <1>3 DEF Adopts, Acquired, InPlace, Former
    <2>2. Safe!Adopt
      BY <1>3, <2>1 DEF Adopts, Safe!Adopt, Acquired, InPlace, Former
    <2> QED
      BY <2>2 DEF Safe!Next
  <1> QED
    BY <1>1, <1>2, <1>3, StepChanges

\* A stranger's file beside no backup stays where it is.
LEMMA StepStrangers ==
  ASSUME IInv, [Next]_vars, NEW f \in Files, disk[f].dest = "foreign", disk[f].backup = "absent"
  PROVE  disk'[f].dest = "foreign"
  <1>1. CASE FilesStay \/ UNCHANGED vars \/ Adopts
    BY <1>1 DEF FilesStay, On, Adopts, vars
  <1>2. CASE FileChanges
    <2>1. Changes(f) \/ disk'[f] = disk[f]
      BY <1>2 DEF FileChanges
    <2> QED
      BY <2>1 DEF Changes, On
  <1> QED
    BY <1>1, <1>2, StepChanges
-----------------------------------------------------------------------------
(* What the acquisition cleanup sees.                                       *)

\* The substitution that ImportPublication makes in BundleLife.
Bundle == IF bundle = "preparing" THEN "publishing"
          ELSE IF bundle \in Committed THEN "committed" ELSE bundle

\* The moves of the bundle are those of BundleLife, or moves it does not tell apart.
LEMMA StepLives ==
  ASSUME IInv, [Next]_vars
  PROVE  [Life!Next]_Bundle
  <1> USE DEF Life!Next, Life!Publish, Life!Commit, Life!Complete, Life!RollBack, Life!GetStuck,
              Life!Resolve, Bundle, Committed
  <1>t. Typed /\ Stands /\ Begins /\ "pub" \in Procs /\ "rec" \in Procs /\ bundle \in BundleStates
    BY DEF IInv, Typed, Placed, Procs
  <1>0. CASE UNCHANGED bundle
    BY <1>0
  <1>p. PreparationFails \/ CriticalFails => UNCHANGED bundle
    BY DEF PreparationFails, CriticalFails, store
  <1>1. CASE Call
    BY <1>1, <1>t, CallActs
  <1>2. CASE Mark
    BY <1>2, <1>t, MarkActs DEF Begins
  <1>3. CASE Commit
    BY <1>0, <1>3, <1>t, <1>p, CommitActs
  <1>4. ASSUME NEW p \in Procs, RollEnds(p) \/ NothingToRoll(p) PROVE [Life!Next]_Bundle
    BY <1>4, <1>t, RollEndsActs DEF RolledBack
  <1>5. ASSUME NEW p \in Procs, CleanEnds(p) PROVE [Life!Next]_Bundle
    BY <1>0, <1>5, <1>t, CleanEndsActs
  <1>6. CASE Forget \/ Check
    BY <1>0, <1>6, <1>t, ForgetActs
  <1>7. CASE Attend
    BY <1>7, <1>t, AttendActs DEF Begins, BundleStates, Settled
  <1>8. CASE Resolve
    BY <1>8, <1>t, ResolveActs
  <1>9. CASE \/ Open \/ Plan \/ StageArtwork \/ Stage \/ Seal \/ Validate \/ Enter \/ Boundary
             \/ Recheck \/ Publish \/ Backed \/ Place \/ PlaceArtwork \/ RecordPublished
    BY <1>0, <1>9, <1>t, <1>p, OpenActs, PlanActs, StageActs, SealActs, ValidateActs, EnterActs,
       BoundaryActs, RecheckActs, PublishActs, BackedActs, PlaceActs, PlaceArtworkActs, RecordActs
  <1>10. CASE List \/ TakeUp \/ ReadJournals
    BY SMTT(30), <1>0, <1>10 DEF List, TakeUp, ReadJournals, store
  <1>11. ASSUME NEW p \in Procs,
                \/ Undo(p) \/ UndoDest(p) \/ UndoArtwork(p) \/ UndoBackup(p) \/ UndoTemp(p) \/ Undone(p)
                \/ AskToClean(p) \/ Clean(p) \/ CleanSource(p) \/ CleanOld(p)
         PROVE  UNCHANGED bundle
    BY <1>11, <1>t, UndoActs, RestoreActs, UndoneActs, AskActs, CleanActs, CleanFileActs
  <1>12. CASE Fault
    BY <1>0, <1>12, <1>t, CrashActs, PublisherFailsActs, WorldActs, StepFailsActs DEF Fault, World
  <1>13. CASE UNCHANGED vars
    BY <1>0, <1>13 DEF vars
  <1>r. ASSUME NEW p \in Procs, Rolls(p) \/ Cleans(p) PROVE [Life!Next]_Bundle
    BY <1>0, <1>r, <1>4, <1>5, <1>11 DEF Rolls, Cleans
  <1>u. CASE PubStep
    BY <1>u, <1>t, <1>r, <1>2, <1>3, <1>9 DEF PubStep
  <1>v. CASE RecStep
    BY <1>v, <1>t, <1>r, <1>6, <1>7, <1>10 DEF RecStep
  <1> QED
    BY <1>1, <1>8, <1>12, <1>13, <1>u, <1>v DEF Next
-----------------------------------------------------------------------------
(* The theorems.                                                            *)

\* The invariant stands in every behaviour.
THEOREM Invariant == Spec => []IInv
  BY InitInv, StepInv, PTL DEF Spec

\* The variables keep their types; above all, nothing is ever put aside but the file that was
\* in the library before.
THEOREM TypeCorrect == Spec => []TypeOK
  BY Invariant, InvTypeOK, PTL

\* Whatever is interrupted, raises or is called again, a file that is replaced is in the library,
\* aside, or in the recycle bin.
THEOREM OldIsKept == Spec => []OldKept
  BY Invariant, InvOldKept, PTL

\* A bundle that counts as completed is adopted, all its files are in place, and neither sources
\* nor backups are left, nor staged files but of the thread of a cancelled call.
THEOREM CompletedIsWhole == Spec => []CompletedWhole
  BY Invariant, InvCompletedWhole, PTL

\* A bundle that counts as rolled back, if no call has crossed its recovery or such a thread, has
\* left the library as it was, but for a flagged row, for artwork that a crash tore off its file, and for
\* what the thread of a cancelled call stages after the rollback.
THEOREM RolledBackIsClean == Spec => []RolledBackClean
  BY Invariant, InvRolledBackClean, PTL

\* No step touches a file that a stranger put at a destination, unless it stands where a
\* replaced file goes back.
THEOREM StrangersAreLeft == Spec => StrangersStay
  <1>1. IInv /\ [Next]_vars => [\A f \in Files:
          disk[f].dest = "foreign" /\ disk[f].backup = "absent" => disk'[f].dest = "foreign"]_vars
    BY StepStrangers
  <1> QED
    BY <1>1, Invariant, PTL DEF Spec, StrangersStay

\* Publication, rollback, recovery and retries implement SafeImport: the bundle becomes part of
\* the library as a whole or not at all, and what was acquired or replaced goes only afterwards.
THEOREM ImportsSafely == Spec => ImportIsSafe
  <1>1. Init => Safe!Init
    BY DEF Init, Before, Safe!Init
  <1>2. IInv /\ [Next]_vars => [Safe!Next]_<<
          {f \in Files: disk[f].source # "absent"}, {f \in Files: disk[f].dest = "new"}, catalog,
          [f \in Files |-> IF disk[f].bin = "old" THEN "recycled"
                          ELSE IF disk[f].backup = "old" THEN "aside"
                          ELSE IF f \in SamePath \union OtherPath THEN "library" ELSE "nothing"]>>
    BY StepIsSafe DEF Acquired, InPlace, Former
  <1> QED
    BY <1>1, <1>2, Invariant, PTL DEF Spec, ImportIsSafe, Safe!Spec

\* And its bundle moves as BundleLife says, which is what the acquisition cleanup is built on.
THEOREM LivesAsExpected == Spec => MovesAsCleanupExpects
  <1>1. Init => Life!Init
    BY DEF Init, Life!Init, Committed
  <1>2. IInv /\ [Next]_vars => [Life!Next]_(IF bundle = "preparing" THEN "publishing"
                                          ELSE IF bundle \in Committed THEN "committed" ELSE bundle)
    BY StepLives DEF Bundle
  <1> QED
    BY <1>1, <1>2, Invariant, PTL DEF Spec, MovesAsCleanupExpects, Life!Spec
=============================================================================
