----------------------- MODULE NoteProcessing_proofs ------------------------
(***************************************************************************)
(* Proofs about NoteProcessing for all sets of notes, versions, requests   *)
(* and workers, and all bounds.  IInv is the inductive invariant; the last *)
(* section derives the properties of the specification from it.            *)
(***************************************************************************)
EXTENDS NoteProcessing, TLAPS

\* Types, and what each thread relies on: neither is inductive alone (Load
\* reads note[run[p].note], which is typed only if a thread that processes
\* has a note).
IInv == TypeOK /\ ThreadsOK
-----------------------------------------------------------------------------
(************ the records of the state: constants and updates **************)

\* The empty values are values of their type.
LEMMA NoRunType == NoRun \in Runs
  BY DEF NoRun, Runs, Rows

\* The record of a note without artifacts is one of the artifact records.
LEMMA NoGraphType == NoGraph \in Artifacts
  BY DEF NoGraph, Artifacts, Rows

\* The record of an idle reconcile is one of the pass records.
LEMMA NoPassType == NoPass \in Passes
  BY DEF NoPass, Passes

\* What StartTask and NextBackfill, Load, and ReadBlocks store in a run.
LEMMA RunNote == \A r \in Runs, n \in Notes : [r EXCEPT !.note = n] \in Runs
  BY DEF Runs

\* Updating the snapshot of a run gives a run.
LEMMA RunSnap == \A r \in Runs, c \in Rows : [r EXCEPT !.snap = c] \in Runs
  BY DEF Runs

\* Updating what a run read of blocks and graph gives a run.
LEMMA RunBlocks == \A r \in Runs, c \in Rows, b \in BOOLEAN :
                      [r EXCEPT !.blocks = c, !.clean = b] \in Runs
  BY DEF Runs

\* What Startup and AskReconcile, ListLive, and FindStale store in a pass.
LEMMA PassAt == \A q \in Passes : [q EXCEPT !.at = "asked"] \in Passes
  BY DEF Passes

\* Updating what a pass listed gives a pass.
LEMMA PassLive == \A q \in Passes, S \in SUBSET Notes :
                     [q EXCEPT !.at = "listed", !.live = S] \in Passes
  BY DEF Passes

\* Updating what a pass found gives a pass.
LEMMA PassStale == \A q \in Passes, S \in SUBSET Notes :
                      [q EXCEPT !.at = "found", !.stale = S] \in Passes
  BY DEF Passes
-----------------------------------------------------------------------------
(*********************** the invariant is inductive ************************)

\* The initial state satisfies the invariant.
LEMMA InitInv == Init => IInv
  BY ConstantsAssumption, NoRunType, NoGraphType, NoPassType, SMT
     DEF Init, IInv, TypeOK, ThreadsOK, Procs, Rows, NoPass, PcsOfJob,
         PcsOfBackfill, RequestOpen, TaskOpen, Processing, InFlight

\* Every step keeps the types.
LEMMA NextType == IInv /\ [Next]_vars => TypeOK'
<1> USE ConstantsAssumption
    DEF Procs, Rows, PcsOfJob, PcsOfBackfill, RequestOpen, TaskOpen,
        Processing, Spend
<1> SUFFICES ASSUME TypeOK, ThreadsOK, [Next]_vars PROVE TypeOK'
  BY DEF IInv
<1>1. ASSUME NEW n \in Notes, NEW c \in Contents, Save(n, c) PROVE TypeOK'
  BY <1>1, SMT DEF Save, TypeOK
<1>2. ASSUME NEW n \in Notes, Delete(n) PROVE TypeOK'
  BY <1>2, NoGraphType, SMT DEF Delete, TypeOK
<1>3. ASSUME NEW j \in Jobs, NEW n \in Notes, NEW w \in Workers, Request(j, n, w)
      PROVE  TypeOK'
  <2>1. note[n] # None => [note |-> n, hash |-> note[n]] \in Keys
    BY <1>3, SMT DEF TypeOK, Keys
  <2> QED BY <1>3, <2>1, SMT DEF Request, TypeOK
<1>4. ASSUME NEW j \in Jobs, ReuseJob(j) PROVE TypeOK'
  BY <1>4, SMT DEF ReuseJob, TypeOK
<1>5. ASSUME NEW j \in Jobs, MissJob(j) PROVE TypeOK'
  BY <1>5, SMT DEF MissJob, TypeOK
<1>6. ASSUME NEW j \in Jobs, InsertJob(j) PROVE TypeOK'
  BY <1>6, SMT DEF InsertJob, TypeOK
<1>7. ASSUME NEW j \in Jobs, StartTask(j) PROVE TypeOK'
  <2>1. [run[j] EXCEPT !.note = key[j].note] \in Runs
    <3>1. run[j] \in Runs /\ key[j].note \in Notes
      BY <1>7, SMT DEF StartTask, TypeOK, ThreadsOK, Keys
    <3> QED BY <3>1, RunNote
  <2> QED BY <1>7, <2>1, SMT DEF StartTask, TypeOK
<1>8. ASSUME NEW j \in Jobs, FailTask(j) PROVE TypeOK'
  BY <1>8, SMT DEF FailTask, TypeOK
<1>9. ASSUME NEW j \in Jobs, CompleteTask(j) PROVE TypeOK'
  BY <1>9, SMT DEF CompleteTask, TypeOK
<1>10. ASSUME NEW j \in Jobs, LoseTask(j) PROVE TypeOK'
  BY <1>10, SMT DEF LoseTask, TypeOK
<1>11. ASSUME NEW p \in Procs, Load(p) PROVE TypeOK'
  <2>1. run[p] \in Runs /\ note[run[p].note] \in Rows
    BY <1>11, SMT DEF Load, TypeOK, ThreadsOK
  <2>2. [run[p] EXCEPT !.snap = note[run[p].note]] \in Runs
    BY <2>1, RunSnap
  <2> QED BY <1>11, <2>2, NoRunType, SMT DEF Load, TypeOK, Raised
<1>12. ASSUME NEW p \in Procs, ReadBlocks(p) PROVE TypeOK'
  <2> DEFINE n == run[p].note
             r == [run[p] EXCEPT !.blocks = note[n],
                                 !.clean = (graph[n].blocks = note[n])]
  <2>1. run[p] \in Runs /\ note[n] \in Rows
    BY <1>12, SMT DEF ReadBlocks, TypeOK, ThreadsOK
  <2>2. r \in Runs
    BY <2>1, RunBlocks
  <2>3. run' = [run EXCEPT ![p] = r]
    BY <1>12 DEF ReadBlocks
  <2>4. run' \in [Procs -> Runs]
    BY <1>12, <2>2, <2>3 DEF TypeOK
  <2> QED BY <1>12, <2>4, SMT DEF ReadBlocks, TypeOK
<1>13. ASSUME NEW p \in Procs, CommitGraph(p) PROVE TypeOK'
  <2> DEFINE g == [node |-> run[p].snap,
                   blocks |-> IF run[p].clean THEN graph[run[p].note].blocks
                                              ELSE run[p].blocks]
  <2>1. run[p] \in Runs /\ graph[run[p].note] \in Artifacts
    BY <1>13, SMT DEF CommitGraph, TypeOK, ThreadsOK
  <2>2. g \in Artifacts
    BY <2>1 DEF Runs, Artifacts
  <2>3. graph' = [graph EXCEPT ![run[p].note] = g]
    BY <1>13 DEF CommitGraph
  <2>4. graph' \in [Notes -> Artifacts]
    BY <1>13, <2>2, <2>3 DEF TypeOK
  <2> QED BY <1>13, <2>4, NoRunType, SMT DEF CommitGraph, TypeOK, Returned
<1>14. ASSUME NEW p \in Procs, RaiseInProcess(p) PROVE TypeOK'
  BY <1>14, NoRunType, SMT DEF RaiseInProcess, TypeOK, Raised
<1>15. ASSUME NEW w \in Workers, ListBackfill(w) PROVE TypeOK'
  <2>1. StaleBlocks \in SUBSET Notes /\ LiveNotes \in SUBSET Notes
    BY DEF StaleBlocks, LiveNotes
  <2>2. left' \in [{"edit", "crash", "fault", "admin"} -> Nat]
    BY <1>15, SMT DEF ListBackfill, TypeOK
  <2> QED BY <1>15, <2>1, <2>2, SMT DEF ListBackfill, TypeOK
<1>16. ASSUME NEW w \in Workers, NextBackfill(w) PROVE TypeOK'
  <2>1. PICK n \in todo[w] : run' = [run EXCEPT ![w].note = n] /\ todo' = [todo EXCEPT ![w] = @ \ {n}]
    BY <1>16 DEF NextBackfill
  <2>2. [run[w] EXCEPT !.note = n] \in Runs
    BY <1>16, <2>1, RunNote DEF TypeOK
  <2> QED BY <1>16, <2>1, <2>2, SMT DEF NextBackfill, TypeOK
<1>17. ASSUME NEW w \in Workers, EndBackfill(w) PROVE TypeOK'
  BY <1>17, SMT DEF EndBackfill, TypeOK
<1>18. ASSUME NEW w \in Workers, ReprocessAll(w) PROVE TypeOK'
  <2>1. LiveNotes \in SUBSET Notes
    BY DEF LiveNotes
  <2>2. left' \in [{"edit", "crash", "fault", "admin"} -> Nat]
    BY <1>18, SMT DEF ReprocessAll, TypeOK
  <2> QED BY <1>18, <2>1, <2>2, SMT DEF ReprocessAll, TypeOK
<1>19. ASSUME NEW w \in Workers, AskReconcile(w) PROVE TypeOK'
  <2>1. [rec[w] EXCEPT !.at = "asked"] \in Passes
    BY <1>19, PassAt DEF TypeOK
  <2> QED BY <1>19, <2>1, SMT DEF AskReconcile, TypeOK
<1>20. ASSUME NEW w \in Workers, ListLive(w) PROVE TypeOK'
  <2>1. [rec[w] EXCEPT !.at = "listed", !.live = LiveNotes] \in Passes
    BY <1>20, PassLive DEF TypeOK, LiveNotes
  <2> QED BY <1>20, <2>1, SMT DEF ListLive, TypeOK
<1>21. ASSUME NEW w \in Workers, FindStale(w) PROVE TypeOK'
  <2> DEFINE S == {n \in Notes \ rec[w].live : graph[n].node # None}
  <2>1. [rec[w] EXCEPT !.at = "found", !.stale = S] \in Passes
    BY <1>21, PassStale DEF TypeOK
  <2> QED BY <1>21, <2>1, SMT DEF FindStale, TypeOK
<1>22. ASSUME NEW w \in Workers, Prune(w) PROVE TypeOK'
  BY <1>22, NoPassType, NoGraphType, SMT DEF Prune, TypeOK
<1>23. ASSUME NEW w \in Workers, RaiseInReconcile(w) PROVE TypeOK'
  BY <1>23, NoPassType, SMT DEF RaiseInReconcile, TypeOK
<1>24. ASSUME NEW w \in Workers, Startup(w) PROVE TypeOK'
  <2>1. [rec[w] EXCEPT !.at = "asked"] \in Passes
    BY <1>24, PassAt DEF TypeOK
  <2> QED BY <1>24, <2>1, SMT DEF Startup, TypeOK, Active
<1>25. ASSUME NEW w \in Workers, StartupUnmarked(w) PROVE TypeOK'
  <2>1. [rec[w] EXCEPT !.at = "asked"] \in Passes
    BY <1>25, PassAt DEF TypeOK
  <2> QED BY <1>25, <2>1, SMT DEF StartupUnmarked, TypeOK
<1>26. ASSUME NEW w \in Workers, Crash(w) PROVE TypeOK'
  BY <1>26, NoRunType, NoPassType, SMT DEF Crash, TypeOK, Holder
<1>27. CASE UNCHANGED vars
  BY <1>27 DEF vars, TypeOK
<1> QED BY <1>1, <1>2, <1>3, <1>4, <1>5, <1>6, <1>7, <1>8, <1>9, <1>10,
          <1>11, <1>12, <1>13, <1>14, <1>15, <1>16, <1>17, <1>18, <1>19,
          <1>20, <1>21, <1>22, <1>23, <1>24, <1>25, <1>26, <1>27 DEF Next,
          User, Answer, Task, ProcessNote, Backfill, Reconcile, Trouble

\* Every step keeps what the threads rely on.
LEMMA NextThreads == IInv /\ [Next]_vars => ThreadsOK'
<1> USE ConstantsAssumption
    DEF Procs, PcsOfJob, PcsOfBackfill, RequestOpen, TaskOpen, Processing,
        InFlight
<1> SUFFICES ASSUME TypeOK, ThreadsOK, [Next]_vars PROVE ThreadsOK'
  BY DEF IInv
<1>1. ASSUME NEW n \in Notes, NEW c \in Contents, Save(n, c)
      PROVE  ThreadsOK'
  BY <1>1, SMT DEF Save, TypeOK, ThreadsOK
<1>2. ASSUME NEW n \in Notes, Delete(n) PROVE ThreadsOK'
  BY <1>2, SMT DEF Delete, TypeOK, ThreadsOK
<1>3. ASSUME NEW j \in Jobs, NEW n \in Notes, NEW w \in Workers, Request(j, n, w)
      PROVE  ThreadsOK'
  BY <1>3, SMT DEF Request, TypeOK, ThreadsOK, Keys, Rows
<1>4. ASSUME NEW j \in Jobs, ReuseJob(j) PROVE ThreadsOK'
  BY <1>4, SMT DEF ReuseJob, TypeOK, ThreadsOK
<1>5. ASSUME NEW j \in Jobs, MissJob(j) PROVE ThreadsOK'
  BY <1>5, SMT DEF MissJob, TypeOK, ThreadsOK
<1>6. ASSUME NEW j \in Jobs, InsertJob(j) PROVE ThreadsOK'
  BY <1>6, SMT DEF InsertJob, TypeOK, ThreadsOK
<1>7. ASSUME NEW j \in Jobs, StartTask(j) PROVE ThreadsOK'
  BY <1>7, SMT DEF StartTask, TypeOK, ThreadsOK, Keys
<1>8. ASSUME NEW j \in Jobs, FailTask(j) PROVE ThreadsOK'
  BY <1>8, SMT DEF FailTask, TypeOK, ThreadsOK
<1>9. ASSUME NEW j \in Jobs, CompleteTask(j) PROVE ThreadsOK'
  BY <1>9, SMT DEF CompleteTask, TypeOK, ThreadsOK
<1>10. ASSUME NEW j \in Jobs, LoseTask(j) PROVE ThreadsOK'
  BY <1>10, SMT DEF LoseTask, TypeOK, ThreadsOK
<1>11. ASSUME NEW p \in Procs, Load(p) PROVE ThreadsOK'
  <2>1. CASE note[run[p].note] = None
    BY <1>11, <2>1, SMT DEF Load, TypeOK, ThreadsOK, Raised
  <2>2. CASE note[run[p].note] # None
    <3>1. run' = [run EXCEPT ![p].snap = note[run[p].note]]
      BY <1>11, <2>2 DEF Load
    <3>2. note[run[p].note] \in Contents
      BY <1>11, <2>2, SMT DEF Load, TypeOK, ThreadsOK, Rows
    <3>3. /\ \A q \in Procs : run'[q].note = run[q].note
          /\ \A q \in Procs \ {p} : run'[q].snap = run[q].snap
          /\ run'[p].snap \in Contents
      BY <3>1, <3>2, SMT DEF TypeOK, Runs
    <3>4. /\ pc[p] = "started"
          /\ pc' = [pc EXCEPT ![p] = "loaded"]
          /\ UNCHANGED <<status, key, up, home, rec>>
      BY <1>11, <2>2 DEF Load
    <3> QED BY <3>3, <3>4, SMTT(30) DEF TypeOK, ThreadsOK
  <2> QED BY <2>1, <2>2
<1>12. ASSUME NEW p \in Procs, ReadBlocks(p) PROVE ThreadsOK'
  BY <1>12, SMT DEF ReadBlocks, TypeOK, ThreadsOK
<1>13. ASSUME NEW p \in Procs, CommitGraph(p) PROVE ThreadsOK'
  BY <1>13, SMT DEF CommitGraph, TypeOK, ThreadsOK, Returned
<1>14. ASSUME NEW p \in Procs, RaiseInProcess(p) PROVE ThreadsOK'
  BY <1>14, SMT DEF RaiseInProcess, TypeOK, ThreadsOK, Raised
<1>15. ASSUME NEW w \in Workers, ListBackfill(w) PROVE ThreadsOK'
  BY <1>15, SMT DEF ListBackfill, TypeOK, ThreadsOK
<1>16. ASSUME NEW w \in Workers, NextBackfill(w) PROVE ThreadsOK'
  BY <1>16, SMT DEF NextBackfill, TypeOK, ThreadsOK
<1>17. ASSUME NEW w \in Workers, EndBackfill(w) PROVE ThreadsOK'
  BY <1>17, SMT DEF EndBackfill, TypeOK, ThreadsOK
<1>18. ASSUME NEW w \in Workers, ReprocessAll(w) PROVE ThreadsOK'
  BY <1>18, SMT DEF ReprocessAll, TypeOK, ThreadsOK
<1>19. ASSUME NEW w \in Workers, AskReconcile(w) PROVE ThreadsOK'
  BY <1>19, SMT DEF AskReconcile, TypeOK, ThreadsOK
<1>20. ASSUME NEW w \in Workers, ListLive(w) PROVE ThreadsOK'
  BY <1>20, SMT DEF ListLive, TypeOK, ThreadsOK
<1>21. ASSUME NEW w \in Workers, FindStale(w) PROVE ThreadsOK'
  BY <1>21, SMT DEF FindStale, TypeOK, ThreadsOK
<1>22. ASSUME NEW w \in Workers, Prune(w) PROVE ThreadsOK'
  BY <1>22, SMT DEF Prune, TypeOK, ThreadsOK, NoPass
<1>23. ASSUME NEW w \in Workers, RaiseInReconcile(w) PROVE ThreadsOK'
  BY <1>23, SMT DEF RaiseInReconcile, TypeOK, ThreadsOK, NoPass
<1>24. ASSUME NEW w \in Workers, Startup(w) PROVE ThreadsOK'
  BY <1>24, SMT DEF Startup, TypeOK, ThreadsOK, Active
<1>25. ASSUME NEW w \in Workers, StartupUnmarked(w) PROVE ThreadsOK'
  BY <1>25, SMT DEF StartupUnmarked, TypeOK, ThreadsOK
<1>26. ASSUME NEW w \in Workers, Crash(w) PROVE ThreadsOK'
  BY <1>26, SMT DEF Crash, TypeOK, ThreadsOK, Holder, NoPass
<1>27. CASE UNCHANGED vars
  BY <1>27 DEF vars, ThreadsOK, InFlight
<1> QED BY <1>1, <1>2, <1>3, <1>4, <1>5, <1>6, <1>7, <1>8, <1>9, <1>10,
          <1>11, <1>12, <1>13, <1>14, <1>15, <1>16, <1>17, <1>18, <1>19,
          <1>20, <1>21, <1>22, <1>23, <1>24, <1>25, <1>26, <1>27 DEF Next,
          User, Answer, Task, ProcessNote, Backfill, Reconcile, Trouble

\* The invariant holds in every reachable state.
THEOREM Invariance == Spec => []IInv
<1>1. IInv /\ [Next]_vars => IInv'
  BY NextType, NextThreads DEF IInv
<1> QED BY InitInv, <1>1, PTL DEF Spec

\* Type correctness of the whole state.
THEOREM TypeCorrect == Spec => []TypeOK
<1>1. IInv => TypeOK
  BY Zenon DEF IInv
<1> QED BY Invariance, <1>1, PTL
-----------------------------------------------------------------------------
(********************* what a step does to one variable ********************)

\* Only these handlers write processing_jobs.status.
LEMMA StatusSteps ==
  ASSUME [Next]_vars
  PROVE  \/ UNCHANGED status
         \/ \E j \in Jobs : InsertJob(j) \/ StartTask(j) \/ FailTask(j)
                               \/ CompleteTask(j)
         \/ \E w \in Workers : Startup(w)
  BY DEF Next, vars, User, Answer, Task, ProcessNote, Backfill, Reconcile,
         Trouble, Save, Delete, Request, ReuseJob, MissJob, LoseTask, Load,
         ReadBlocks, CommitGraph, RaiseInProcess, ListBackfill, NextBackfill,
         EndBackfill, ReprocessAll, AskReconcile, ListLive, FindStale, Prune,
         RaiseInReconcile, StartupUnmarked, Crash

\* Only these handlers write a note's graph.
LEMMA GraphSteps ==
  ASSUME [Next]_vars
  PROVE  \/ UNCHANGED graph
         \/ \E n \in Notes : Delete(n)
         \/ \E p \in Procs : CommitGraph(p)
         \/ \E w \in Workers : Prune(w)
  BY DEF Next, vars, User, Answer, Task, ProcessNote, Backfill, Reconcile,
         Trouble, Save, Request, ReuseJob, MissJob, InsertJob, StartTask,
         FailTask, CompleteTask, LoseTask, Load, ReadBlocks, RaiseInProcess,
         ListBackfill, NextBackfill, EndBackfill, ReprocessAll, AskReconcile,
         ListLive, FindStale, RaiseInReconcile, Startup, StartupUnmarked, Crash
-----------------------------------------------------------------------------
(****************************** the properties *****************************)

\* A committed extraction stays recorded as completed, with any number of
\* workers and restarts: by then the task has ended, so no later status write
\* of its own can follow, and the clean-up passes over completed rows.
THEOREM CompletedStays == Spec => CompletedIsFinal
<1>1. ASSUME IInv, [Next]_vars, NEW j \in Jobs, status[j] = "completed"
      PROVE  status'[j] = "completed"
  <2>1. pc[j] = "done" /\ DOMAIN status = Jobs
    BY <1>1, SMT DEF IInv, TypeOK, ThreadsOK
  <2>2. CASE \E i \in Jobs : InsertJob(i) \/ StartTask(i) \/ FailTask(i)
                                \/ CompleteTask(i)
    BY <1>1, <2>1, <2>2, SMT
       DEF InsertJob, StartTask, FailTask, CompleteTask
  <2>3. CASE \E w \in Workers : Startup(w)
    BY <1>1, <2>1, <2>3, SMT DEF Startup, Active
  <2> QED BY <1>1, <2>2, <2>3, StatusSteps
<1>2. IInv /\ [Next]_vars =>
        [\A j \in Jobs : status[j] = "completed" => status'[j] = "completed"]_vars
  BY <1>1
<1> QED BY Invariance, <1>2, PTL DEF Spec, CompletedIsFinal

\* A reconcile never takes the graph of a note it listed as live.
THEOREM ReconcileSparesListed == Spec => PruneSparesListed
<1> DEFINE Spared(n) ==
      graph[n].node # None /\ graph'[n].node = None /\ note'[n] # None
        => \E w \in Workers : rec[w].at = "found" /\ n \notin rec[w].live
<1>1. ASSUME IInv, [Next]_vars, NEW n \in Notes PROVE Spared(n)
  <2>1. CASE \E m \in Notes : Delete(m)
    BY <1>1, <2>1, SMT DEF Delete, IInv, TypeOK
  <2>2. ASSUME NEW p \in Procs, CommitGraph(p) PROVE Spared(n)
    <3>1. run[p].snap # None /\ run[p].note \in Notes
      BY <1>1, <2>2, ConstantsAssumption, SMT
         DEF CommitGraph, IInv, ThreadsOK, Processing
    <3>2. graph' = [graph EXCEPT ![run[p].note] =
                      [node |-> run[p].snap,
                       blocks |-> IF run[p].clean THEN @.blocks
                                                  ELSE run[p].blocks]]
      BY <2>2 DEF CommitGraph
    <3> QED BY <1>1, <3>1, <3>2, SMT DEF IInv, TypeOK
  <2>3. CASE \E w \in Workers : Prune(w)
    BY <1>1, <2>3, SMT DEF Prune, IInv, TypeOK, ThreadsOK
  <2> QED BY <1>1, <2>1, <2>2, <2>3, GraphSteps
<1>2. IInv /\ [Next]_vars => [\A n \in Notes : Spared(n)]_vars
  BY <1>1
<1> QED BY Invariance, <1>2, PTL DEF Spec, PruneSparesListed

\* Whatever happens to a job, its own task or the restart of its dead worker
\* is still there to settle the row.
LEMMA NextNotStranded == IInv /\ NoStrandedJob /\ [Next]_vars => NoStrandedJob'
<1> USE ConstantsAssumption DEF Procs, TaskOpen, Processing, Active
<1> SUFFICES ASSUME TypeOK, ThreadsOK, NoStrandedJob, [Next]_vars
             PROVE  NoStrandedJob'
  BY DEF IInv
<1>1. ASSUME NEW n \in Notes, NEW c \in Contents, Save(n, c)
      PROVE  NoStrandedJob'
  BY <1>1, SMT DEF Save, NoStrandedJob, TypeOK, ThreadsOK
<1>2. ASSUME NEW n \in Notes, Delete(n) PROVE NoStrandedJob'
  BY <1>2, SMT DEF Delete, NoStrandedJob, TypeOK, ThreadsOK
<1>3. ASSUME NEW j \in Jobs, NEW n \in Notes, NEW w \in Workers, Request(j, n, w)
      PROVE  NoStrandedJob'
  BY <1>3, SMT DEF Request, NoStrandedJob, TypeOK, ThreadsOK
<1>4. ASSUME NEW j \in Jobs, ReuseJob(j) PROVE NoStrandedJob'
  BY <1>4, SMT DEF ReuseJob, NoStrandedJob, TypeOK, ThreadsOK
<1>5. ASSUME NEW j \in Jobs, MissJob(j) PROVE NoStrandedJob'
  BY <1>5, SMT DEF MissJob, NoStrandedJob, TypeOK, ThreadsOK
<1>6. ASSUME NEW j \in Jobs, InsertJob(j) PROVE NoStrandedJob'
  BY <1>6, SMT DEF InsertJob, NoStrandedJob, TypeOK, ThreadsOK
<1>7. ASSUME NEW j \in Jobs, StartTask(j) PROVE NoStrandedJob'
  BY <1>7, SMT DEF StartTask, NoStrandedJob, TypeOK, ThreadsOK
<1>8. ASSUME NEW j \in Jobs, FailTask(j) PROVE NoStrandedJob'
  BY <1>8, SMT DEF FailTask, NoStrandedJob, TypeOK, ThreadsOK
<1>9. ASSUME NEW j \in Jobs, CompleteTask(j) PROVE NoStrandedJob'
  BY <1>9, SMT DEF CompleteTask, NoStrandedJob, TypeOK, ThreadsOK
<1>10. ASSUME NEW j \in Jobs, LoseTask(j) PROVE NoStrandedJob'
  BY <1>10, SMT DEF LoseTask, NoStrandedJob, TypeOK, ThreadsOK
<1>11. ASSUME NEW p \in Procs, Load(p) PROVE NoStrandedJob'
  BY <1>11, SMT DEF Load, NoStrandedJob, TypeOK, ThreadsOK, Raised
<1>12. ASSUME NEW p \in Procs, ReadBlocks(p) PROVE NoStrandedJob'
  BY <1>12, SMT DEF ReadBlocks, NoStrandedJob, TypeOK, ThreadsOK
<1>13. ASSUME NEW p \in Procs, CommitGraph(p) PROVE NoStrandedJob'
  BY <1>13, SMT DEF CommitGraph, NoStrandedJob, TypeOK, ThreadsOK, Returned
<1>14. ASSUME NEW p \in Procs, RaiseInProcess(p) PROVE NoStrandedJob'
  BY <1>14, SMT DEF RaiseInProcess, NoStrandedJob, TypeOK, ThreadsOK, Raised
<1>15. ASSUME NEW w \in Workers, ListBackfill(w) PROVE NoStrandedJob'
  BY <1>15, SMT DEF ListBackfill, NoStrandedJob, TypeOK, ThreadsOK
<1>16. ASSUME NEW w \in Workers, NextBackfill(w) PROVE NoStrandedJob'
  BY <1>16, SMT DEF NextBackfill, NoStrandedJob, TypeOK, ThreadsOK
<1>17. ASSUME NEW w \in Workers, EndBackfill(w) PROVE NoStrandedJob'
  BY <1>17, SMT DEF EndBackfill, NoStrandedJob, TypeOK, ThreadsOK
<1>18. ASSUME NEW w \in Workers, ReprocessAll(w) PROVE NoStrandedJob'
  BY <1>18, SMT DEF ReprocessAll, NoStrandedJob, TypeOK, ThreadsOK
<1>19. ASSUME NEW w \in Workers, AskReconcile(w) PROVE NoStrandedJob'
  BY <1>19, SMT DEF AskReconcile, NoStrandedJob, TypeOK, ThreadsOK
<1>20. ASSUME NEW w \in Workers, ListLive(w) PROVE NoStrandedJob'
  BY <1>20, SMT DEF ListLive, NoStrandedJob, TypeOK, ThreadsOK
<1>21. ASSUME NEW w \in Workers, FindStale(w) PROVE NoStrandedJob'
  BY <1>21, SMT DEF FindStale, NoStrandedJob, TypeOK, ThreadsOK
<1>22. ASSUME NEW w \in Workers, Prune(w) PROVE NoStrandedJob'
  BY <1>22, SMT DEF Prune, NoStrandedJob, TypeOK, ThreadsOK
<1>23. ASSUME NEW w \in Workers, RaiseInReconcile(w) PROVE NoStrandedJob'
  BY <1>23, SMT DEF RaiseInReconcile, NoStrandedJob, TypeOK, ThreadsOK
<1>24. ASSUME NEW w \in Workers, Startup(w) PROVE NoStrandedJob'
  BY <1>24, SMT DEF Startup, NoStrandedJob, TypeOK, ThreadsOK
<1>25. ASSUME NEW w \in Workers, StartupUnmarked(w) PROVE NoStrandedJob'
  BY <1>25, SMT DEF StartupUnmarked, NoStrandedJob, TypeOK, ThreadsOK, InFlight
<1>26. ASSUME NEW w \in Workers, Crash(w) PROVE NoStrandedJob'
  BY <1>26, SMT DEF Crash, NoStrandedJob, TypeOK, ThreadsOK, InFlight
<1>27. CASE UNCHANGED vars
  BY <1>27 DEF vars, NoStrandedJob, TypeOK, ThreadsOK
<1> QED BY <1>1, <1>2, <1>3, <1>4, <1>5, <1>6, <1>7, <1>8, <1>9, <1>10,
          <1>11, <1>12, <1>13, <1>14, <1>15, <1>16, <1>17, <1>18, <1>19,
          <1>20, <1>21, <1>22, <1>23, <1>24, <1>25, <1>26, <1>27 DEF Next,
          User, Answer, Task, ProcessNote, Backfill, Reconcile, Trouble

\* A queued or running row always has its task, or a restart to come, unless a
\* status write raised.
THEOREM NobodyStranded == Spec => []NoStrandedJob
<1>1. Init => NoStrandedJob
  BY DEF Init, NoStrandedJob, Active
<1> QED BY Invariance, <1>1, NextNotStranded, PTL DEF Spec

\* One step does not bring a forgotten note back.
LEMMA NextForgotten ==
  ASSUME IInv, [Next]_vars, NEW m \in Notes, Forgotten(m), note'[m] = None
  PROVE  Forgotten(m)'
<1> USE ConstantsAssumption DEF Procs
<1>0. TypeOK /\ ThreadsOK
  BY DEF IInv
<1> USE <1>0 DEF Forgotten, TypeOK, ThreadsOK
<1>a. m # None
  OBVIOUS
<1> USE <1>a
<1>1. ASSUME NEW n \in Notes, NEW c \in Contents, Save(n, c)
      PROVE  Forgotten(m)'
  BY <1>1, SMT DEF Save, Forgotten
<1>2. ASSUME NEW n \in Notes, Delete(n) PROVE Forgotten(m)'
  BY <1>2, SMT DEF Delete, Forgotten
<1>3. ASSUME NEW j \in Jobs, NEW n \in Notes, NEW w \in Workers, Request(j, n, w)
      PROVE  Forgotten(m)'
  BY <1>3, SMT DEF Request, Forgotten
<1>4. ASSUME NEW j \in Jobs, ReuseJob(j) PROVE Forgotten(m)'
  BY <1>4, SMT DEF ReuseJob, Forgotten
<1>5. ASSUME NEW j \in Jobs, MissJob(j) PROVE Forgotten(m)'
  BY <1>5, SMT DEF MissJob, Forgotten
<1>6. ASSUME NEW j \in Jobs, InsertJob(j) PROVE Forgotten(m)'
  BY <1>6, SMT DEF InsertJob, Forgotten
<1>7. ASSUME NEW j \in Jobs, StartTask(j) PROVE Forgotten(m)'
  BY <1>7, SMT DEF StartTask, Forgotten
<1>8. ASSUME NEW j \in Jobs, FailTask(j) PROVE Forgotten(m)'
  BY <1>8, SMT DEF FailTask, Forgotten
<1>9. ASSUME NEW j \in Jobs, CompleteTask(j) PROVE Forgotten(m)'
  BY <1>9, SMT DEF CompleteTask, Forgotten
<1>10. ASSUME NEW j \in Jobs, LoseTask(j) PROVE Forgotten(m)'
  BY <1>10, SMT DEF LoseTask, Forgotten
<1>11. ASSUME NEW p \in Procs, Load(p) PROVE Forgotten(m)'
  <2>1. CASE note[run[p].note] = None
    BY <1>11, <2>1, SMT DEF Load, Raised, NoRun
  <2>2. CASE note[run[p].note] # None
    <3>1. run' = [run EXCEPT ![p].snap = note[run[p].note]]
      BY <1>11, <2>2 DEF Load
    <3>2. \A q \in Procs : run'[q].note = run[q].note
      BY <3>1, SMT DEF Runs
    <3>3. /\ pc' = [pc EXCEPT ![p] = "loaded"]
          /\ UNCHANGED <<note, graph>>
      BY <1>11, <2>2 DEF Load
    <3> QED BY <2>2, <3>2, <3>3, SMT
  <2> QED BY <2>1, <2>2
<1>12. ASSUME NEW p \in Procs, ReadBlocks(p) PROVE Forgotten(m)'
  BY <1>12, SMT DEF ReadBlocks, Forgotten
<1>13. ASSUME NEW p \in Procs, CommitGraph(p) PROVE Forgotten(m)'
  BY <1>13, SMT DEF CommitGraph, Forgotten, Returned, NoRun
<1>14. ASSUME NEW p \in Procs, RaiseInProcess(p) PROVE Forgotten(m)'
  BY <1>14, SMT DEF RaiseInProcess, Forgotten, Raised, NoRun
<1>15. ASSUME NEW w \in Workers, ListBackfill(w) PROVE Forgotten(m)'
  BY <1>15, SMT DEF ListBackfill, Forgotten
<1>16. ASSUME NEW w \in Workers, NextBackfill(w) PROVE Forgotten(m)'
  BY <1>16, SMT DEF NextBackfill, Forgotten
<1>17. ASSUME NEW w \in Workers, EndBackfill(w) PROVE Forgotten(m)'
  BY <1>17, SMT DEF EndBackfill, Forgotten
<1>18. ASSUME NEW w \in Workers, ReprocessAll(w) PROVE Forgotten(m)'
  BY <1>18, SMT DEF ReprocessAll, Forgotten
<1>19. ASSUME NEW w \in Workers, AskReconcile(w) PROVE Forgotten(m)'
  BY <1>19, SMT DEF AskReconcile, Forgotten
<1>20. ASSUME NEW w \in Workers, ListLive(w) PROVE Forgotten(m)'
  BY <1>20, SMT DEF ListLive, Forgotten
<1>21. ASSUME NEW w \in Workers, FindStale(w) PROVE Forgotten(m)'
  BY <1>21, SMT DEF FindStale, Forgotten
<1>22. ASSUME NEW w \in Workers, Prune(w) PROVE Forgotten(m)'
  BY <1>22, SMT DEF Prune, Forgotten
<1>23. ASSUME NEW w \in Workers, RaiseInReconcile(w) PROVE Forgotten(m)'
  BY <1>23, SMT DEF RaiseInReconcile, Forgotten
<1>24. ASSUME NEW w \in Workers, Startup(w) PROVE Forgotten(m)'
  BY <1>24, SMT DEF Startup, Forgotten
<1>25. ASSUME NEW w \in Workers, StartupUnmarked(w) PROVE Forgotten(m)'
  BY <1>25, SMT DEF StartupUnmarked, Forgotten
<1>26. ASSUME NEW w \in Workers, Crash(w) PROVE Forgotten(m)'
  BY <1>26, SMT DEF Crash, Forgotten, NoRun, Holder
<1>27. CASE UNCHANGED vars
  BY <1>27 DEF vars, Forgotten
<1> QED BY <1>1, <1>2, <1>3, <1>4, <1>5, <1>6, <1>7, <1>8, <1>9, <1>10,
          <1>11, <1>12, <1>13, <1>14, <1>15, <1>16, <1>17, <1>18, <1>19,
          <1>20, <1>21, <1>22, <1>23, <1>24, <1>25, <1>26, <1>27 DEF Next,
          User, Answer, Task, ProcessNote, Backfill, Reconcile, Trouble

\* No request, queued job, backfill or reconcile brings a deleted note back.
THEOREM ForgottenNotRevived == Spec => ForgottenStaysForgotten
<1>1. IInv /\ [Next]_vars =>
        [\A n \in Notes : Forgotten(n) /\ note'[n] = None => Forgotten(n)']_vars
  BY NextForgotten
<1> QED BY Invariance, <1>1, PTL DEF Spec, ForgottenStaysForgotten
-----------------------------------------------------------------------------
(******************************* one worker ********************************)

\* One worker process and a client that never has two process-note requests in
\* flight: then the table behaves as the in-memory store.

\* The deployment the theorems of this section are about.
SingleWorker == ~Overlap /\ \E w \in Workers : Workers = {w}

\* With one worker a restart finds no thread alive, so a row's status follows
\* its thread; and one open request at a time keeps its lookup current.
SInv ==
    /\ \A j \in Jobs : pc[j] \in {"idle", "read", "missed"} => status[j] = "none"
    /\ \A j \in Jobs : pc[j] = "queued" => status[j] = "queued"
    /\ \A j \in Jobs : pc[j] \in Processing \cup {"synced", "failing"}
                            => status[j] = "running"
    /\ \A i, j \in Jobs : pc[i] \in RequestOpen /\ pc[j] \in RequestOpen => i = j
    /\ \A j \in Jobs : pc[j] = "missed" => Reusable(key[j]) = {}
    /\ \A j \in Jobs : status[j] # "none" => key[j] \in Keys
    /\ OneUsableJob
-----------------------------------------------------------------------------
\* No row, no thread: SInv holds at the start.
LEMMA InitSingle == Init => SInv
  BY SMT DEF Init, SInv, OneUsableJob, Reusable, RequestOpen, Processing, Procs

\* Every step of one worker keeps SInv.
LEMMA NextSingle ==
  ASSUME SingleWorker, IInv, SInv, [Next]_vars
  PROVE  SInv'
<1> USE ConstantsAssumption
    DEF Procs, RequestOpen, TaskOpen, Processing, InFlight, Reusable,
        OneUsableJob
<1>0. TypeOK /\ ThreadsOK /\ SInv /\ ~Overlap
  BY DEF IInv, SingleWorker
<1>w. PICK v : Workers = {v}
  BY DEF SingleWorker
<1> USE <1>0, <1>w
<1>1. ASSUME NEW n \in Notes, NEW c \in Contents, Save(n, c) PROVE SInv'
  BY <1>1, SMT DEF Save, SInv, TypeOK, ThreadsOK
<1>2. ASSUME NEW n \in Notes, Delete(n) PROVE SInv'
  BY <1>2, SMT DEF Delete, SInv, TypeOK, ThreadsOK
<1>3. ASSUME NEW j \in Jobs, NEW n \in Notes, NEW w \in Workers, Request(j, n, w)
      PROVE  SInv'
  BY <1>3, SMT DEF Request, SInv, TypeOK, ThreadsOK
<1>4. ASSUME NEW j \in Jobs, ReuseJob(j) PROVE SInv'
  BY <1>4, SMT DEF ReuseJob, SInv, TypeOK, ThreadsOK
<1>5. ASSUME NEW j \in Jobs, MissJob(j) PROVE SInv'
  BY <1>5, SMT DEF MissJob, SInv, TypeOK, ThreadsOK
<1>6. ASSUME NEW j \in Jobs, InsertJob(j) PROVE SInv'
  BY <1>6, SMT DEF InsertJob, SInv, TypeOK, ThreadsOK
<1>7. ASSUME NEW j \in Jobs, StartTask(j) PROVE SInv'
  BY <1>7, SMT DEF StartTask, SInv, TypeOK, ThreadsOK
<1>8. ASSUME NEW j \in Jobs, FailTask(j) PROVE SInv'
  BY <1>8, SMT DEF FailTask, SInv, TypeOK, ThreadsOK
<1>9. ASSUME NEW j \in Jobs, CompleteTask(j) PROVE SInv'
  BY <1>9, SMT DEF CompleteTask, SInv, TypeOK, ThreadsOK
<1>10. ASSUME NEW j \in Jobs, LoseTask(j) PROVE SInv'
  BY <1>10, SMT DEF LoseTask, SInv, TypeOK, ThreadsOK
<1>11. ASSUME NEW p \in Procs, Load(p) PROVE SInv'
  BY <1>11, SMT DEF Load, SInv, TypeOK, ThreadsOK, Raised
<1>12. ASSUME NEW p \in Procs, ReadBlocks(p) PROVE SInv'
  BY <1>12, SMT DEF ReadBlocks, SInv, TypeOK, ThreadsOK
<1>13. ASSUME NEW p \in Procs, CommitGraph(p) PROVE SInv'
  BY <1>13, SMT DEF CommitGraph, SInv, TypeOK, ThreadsOK, Returned
<1>14. ASSUME NEW p \in Procs, RaiseInProcess(p) PROVE SInv'
  BY <1>14, SMT DEF RaiseInProcess, SInv, TypeOK, ThreadsOK, Raised
<1>15. ASSUME NEW w \in Workers, ListBackfill(w) PROVE SInv'
  BY <1>15, SMT DEF ListBackfill, SInv, TypeOK, ThreadsOK
<1>16. ASSUME NEW w \in Workers, NextBackfill(w) PROVE SInv'
  BY <1>16, SMT DEF NextBackfill, SInv, TypeOK, ThreadsOK
<1>17. ASSUME NEW w \in Workers, EndBackfill(w) PROVE SInv'
  BY <1>17, SMT DEF EndBackfill, SInv, TypeOK, ThreadsOK
<1>18. ASSUME NEW w \in Workers, ReprocessAll(w) PROVE SInv'
  BY <1>18, SMT DEF ReprocessAll, SInv, TypeOK, ThreadsOK
<1>19. ASSUME NEW w \in Workers, AskReconcile(w) PROVE SInv'
  BY <1>19, SMT DEF AskReconcile, SInv, TypeOK, ThreadsOK
<1>20. ASSUME NEW w \in Workers, ListLive(w) PROVE SInv'
  BY <1>20, SMT DEF ListLive, SInv, TypeOK, ThreadsOK
<1>21. ASSUME NEW w \in Workers, FindStale(w) PROVE SInv'
  BY <1>21, SMT DEF FindStale, SInv, TypeOK, ThreadsOK
<1>22. ASSUME NEW w \in Workers, Prune(w) PROVE SInv'
  BY <1>22, SMT DEF Prune, SInv, TypeOK, ThreadsOK
<1>23. ASSUME NEW w \in Workers, RaiseInReconcile(w) PROVE SInv'
  BY <1>23, SMT DEF RaiseInReconcile, SInv, TypeOK, ThreadsOK
<1>24. ASSUME NEW w \in Workers, Startup(w) PROVE SInv'
  BY <1>24, SMT DEF Startup, SInv, TypeOK, ThreadsOK, Active
<1>25. ASSUME NEW w \in Workers, StartupUnmarked(w) PROVE SInv'
  BY <1>25, SMT DEF StartupUnmarked, SInv, TypeOK, ThreadsOK
<1>26. ASSUME NEW w \in Workers, Crash(w) PROVE SInv'
  BY <1>26, SMT DEF Crash, SInv, TypeOK, ThreadsOK
<1>27. CASE UNCHANGED vars
  BY <1>27 DEF vars, SInv, TypeOK, ThreadsOK
<1> QED BY <1>1, <1>2, <1>3, <1>4, <1>5, <1>6, <1>7, <1>8, <1>9, <1>10,
          <1>11, <1>12, <1>13, <1>14, <1>15, <1>16, <1>17, <1>18, <1>19,
          <1>20, <1>21, <1>22, <1>23, <1>24, <1>25, <1>26, <1>27 DEF Next,
          User, Answer, Task, ProcessNote, Backfill, Reconcile, Trouble

\* The invariant of the single-worker deployment.
THEOREM SingleInvariance == ASSUME SingleWorker PROVE Spec => []SInv
<1>1. IInv /\ SInv /\ [Next]_vars => SInv'
  BY NextSingle
<1> QED BY InitSingle, <1>1, Invariance, PTL DEF Spec
-----------------------------------------------------------------------------
(****************************** the properties *****************************)

\* One worker, one open request: create_or_get_job coalesces the requests for
\* a note version.
THEOREM SingleCoalesces == ASSUME SingleWorker PROVE Spec => []OneUsableJob
<1>1. SInv => OneUsableJob
  BY DEF SInv
<1> QED BY SingleInvariance, <1>1, PTL

\* What one status-writing step does to the job it writes.
LEMMA SingleStatusStep ==
  ASSUME SingleWorker, IInv, SInv, [Next]_vars
  PROVE  \/ UNCHANGED status
         \/ \E j \in Jobs : InsertJob(j) /\ status[j] = "none"
         \/ \E j \in Jobs : StartTask(j) /\ status[j] = "queued"
         \/ \E j \in Jobs : (FailTask(j) \/ CompleteTask(j)) /\ status[j] = "running"
         \/ \E w \in Workers : Startup(w)
  BY StatusSteps DEF InsertJob, StartTask, FailTask, CompleteTask, SInv

\* One worker: a status a poller takes for final is final.
THEOREM SingleTerminalIsFinal == ASSUME SingleWorker PROVE Spec => TerminalIsFinal
<1> DEFINE Final(j) == status[j] \in {"completed", "failed"} => status'[j] = status[j]
<1>1. ASSUME SingleWorker, IInv, SInv, [Next]_vars, NEW j \in Jobs PROVE Final(j)
  BY <1>1, SingleStatusStep, SMT
     DEF IInv, TypeOK, InsertJob, StartTask, FailTask, CompleteTask, Startup, Active
<1>2. IInv /\ SInv /\ [Next]_vars => [\A j \in Jobs : Final(j)]_vars
  BY <1>1
<1> QED BY Invariance, SingleInvariance, <1>2, PTL DEF Spec, TerminalIsFinal

\* The key column of the abstract store.
RowKey == [j \in Jobs |-> IF status[j] = "none" THEN NoKey ELSE key[j]]

\* The empty key is no note version.
LEMMA NoKeyIsNone == NoKey \notin Keys
  BY ConstantsAssumption, SMTT(30) DEF NoKey, Keys

\* Only a request that has no row yet sets its key.
LEMMA KeySteps ==
  ASSUME [Next]_vars
  PROVE  \/ UNCHANGED key
         \/ \E j \in Jobs, n \in Notes, w \in Workers : Request(j, n, w)
  BY DEF Next, vars, User, Answer, Task, ProcessNote, Backfill, Reconcile,
         Trouble, Save, Delete, ReuseJob, MissJob, InsertJob, StartTask,
         FailTask, CompleteTask, LoseTask, Load, ReadBlocks, CommitGraph,
         RaiseInProcess, ListBackfill, NextBackfill, EndBackfill,
         ReprocessAll, AskReconcile, ListLive, FindStale, Prune,
         RaiseInReconcile, Startup, StartupUnmarked, Crash

\* Inserting the missed job is CreateJob: no usable row of the version.
LEMMA InsertIsCreate ==
  ASSUME TypeOK, SInv, NEW j \in Jobs, InsertJob(j), status[j] = "none",
         NEW k \in Keys, key[j] = k
  PROVE  Store!CreateJob(j, k)
<1>1. key' = key /\ status' = [status EXCEPT ![j] = "queued"]
  BY DEF InsertJob
<1>2. RowKey' = [RowKey EXCEPT ![j] = k]
  <2>1. \A i \in Jobs : status'[i] = IF i = j THEN "queued" ELSE status[i]
    BY <1>1 DEF TypeOK
  <2>2. \A i \in Jobs : RowKey'[i] = IF i = j THEN k ELSE RowKey[i]
    BY <1>1, <2>1 DEF RowKey
  <2>3. RowKey' = [i \in Jobs |-> RowKey'[i]] /\ DOMAIN RowKey = Jobs
    BY DEF RowKey
  <2> HIDE DEF RowKey
  <2> QED BY <2>2, <2>3
<1>3. \A i \in Jobs : RowKey[i] = k => status[i] = "failed"
  BY NoKeyIsNone, SMT DEF InsertJob, SInv, Reusable, RowKey
<1> QED BY <1>1, <1>2, <1>3 DEF Store!CreateJob, RowKey

\* Every step is a step of the store or leaves it alone.
LEMMA StoreStep ==
  ASSUME SingleWorker, IInv, SInv, [Next]_vars
  PROVE  [Store!Next]_<<status, RowKey>>
<1>0. TypeOK /\ ThreadsOK
  BY DEF IInv
<1>1. \A j \in Jobs : status[j] # "none" => key'[j] = key[j]
  BY <1>0, KeySteps, SMT DEF Request, SInv, TypeOK
<1>2. CASE UNCHANGED status
  <2>1. RowKey' = RowKey
    BY <1>1, <1>2 DEF RowKey
  <2> QED BY <1>2, <2>1
<1>3. ASSUME NEW j \in Jobs, InsertJob(j), status[j] = "none"
      PROVE  Store!Next
  <2>1. key[j] \in Keys
    BY <1>0, <1>3 DEF InsertJob, ThreadsOK
  <2>2. PICK k \in Keys : key[j] = k
    BY <2>1
  <2>3. Store!CreateJob(j, k)
    BY <1>0, <1>3, <2>2, InsertIsCreate
  <2> QED BY <2>3 DEF Store!Next
<1>4. ASSUME NEW j \in Jobs,
             \/ StartTask(j) /\ status[j] = "queued"
             \/ (FailTask(j) \/ CompleteTask(j)) /\ status[j] = "running"
      PROVE  Store!Next
  <2>1. RowKey' = RowKey
    BY <1>0, <1>4, SMT DEF StartTask, FailTask, CompleteTask, TypeOK, RowKey
  <2>2. Store!Transition(j)
    BY <1>4, <2>1 DEF StartTask, FailTask, CompleteTask, Store!Transition, RowKey
  <2> QED BY <2>2 DEF Store!Next
<1>5. ASSUME NEW w \in Workers, Startup(w)
      PROVE  Store!Next
  <2>1. RowKey' = RowKey
    BY <1>0, <1>5, SMT DEF Startup, Active, TypeOK, RowKey
  <2>2. Store!Interrupt
    BY <1>5, <2>1 DEF Startup, Store!Interrupt, Active, Store!Active, RowKey
  <2> QED BY <2>2 DEF Store!Next
<1> QED BY <1>2, <1>3, <1>4, <1>5, SingleStatusStep

\* One worker, one open request: the processing_jobs table, whatever its
\* threads, crashes and restarts do, behaves as the in-memory job store.
THEOREM SingleImplementsStore == ASSUME SingleWorker PROVE Spec => JobStoreSpec
<1>1. Init => Store!Init
  BY DEF Init, Store!Init
<1>2. IInv /\ SInv /\ [Next]_vars => [Store!Next]_(Store!storeVars)
  BY StoreStep DEF Store!storeVars, RowKey
<1> QED BY Invariance, SingleInvariance, <1>1, <1>2, PTL
       DEF Spec, JobStoreSpec, Store!Spec
=============================================================================
