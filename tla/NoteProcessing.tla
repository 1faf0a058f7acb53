--------------------------- MODULE NoteProcessing ---------------------------
(***************************************************************************)
(* Background concept extraction of one tenant: the process-note route,    *)
(* the processing_jobs table, the background task that runs a job, the     *)
(* startup backfill, the startup/administrator graph reconcile, and the    *)
(* uvicorn worker processes all of them live in.                           *)
(*                                                                         *)
(* Shared state is what PostgreSQL holds (note rows, job rows, the AGE     *)
(* graph); every action below is one committed transaction, or one read of *)
(* committed data (the engine runs READ COMMITTED) whose result a later    *)
(* action uses.  The control state of a thread dies with its worker.       *)
(***************************************************************************)
EXTENDS Naturals

CONSTANTS
    Notes,         \* note ids
    Contents,      \* note versions, identified by their content_hash
    Jobs,          \* process-note requests, each with the job id it may mint
    Workers,       \* uvicorn worker processes
    None,          \* "no row" / "no node"
    Overlap,       \* TRUE: process-note requests may be in flight together
    MaxEdits,      \* bound on saves and deletes
    MaxCrashes,    \* bound on worker deaths
    MaxFaults,     \* bound on transient exceptions (DB, AGE lock, NLP)
    MaxAdmin       \* bound on administrator calls (reprocess, reconcile)

ASSUME ConstantsAssumption ==
    /\ None \notin Contents \cup Notes
    /\ Jobs \cap Workers = {}
    /\ Overlap \in BOOLEAN
    /\ {MaxEdits, MaxCrashes, MaxFaults, MaxAdmin} \subseteq Nat

VARIABLES
    note,      \* notes table: note[n] is the stored content_hash, or None
    status,    \* processing_jobs.status, "none" while there is no row
    key,       \* (note_id, content_hash) a request looked up, and its row's key
    graph,     \* AGE per note: node = content_hash its mentions came from,
               \*   blocks = content its Block nodes came from
    up,        \* up[w]: worker w serves requests
    home,      \* home[j]: worker that runs request j and its background task
    pc,        \* control point of each thread (request/task, or backfill)
    run,       \* process_note call of a thread: its note, the content_hash
               \*   of the loaded snapshot, and what sync_note_graph read
               \*   (live blocks, and whether no block was dirty)
    todo,      \* notes a backfill has still to reprocess
    rec,       \* reconcile pass of each worker
    left       \* remaining bounded events

Procs == Jobs \cup Workers     \* a worker names its backfill thread
vars == <<note, status, key, graph, up, home, pc, run, todo, rec, left>>

Active == {"queued", "running"}
NoKey == [note |-> None, hash |-> None]
NoGraph == [node |-> None, blocks |-> None]
NoRun == [note |-> None, snap |-> None, blocks |-> None, clean |-> FALSE]
NoPass == [at |-> "idle", live |-> {}, stale |-> {}]

(***************************************************************************)
(* Control points.  A request reads the note row ("read"), finds no        *)
(* reusable row ("missed"), commits a new row ("queued"); its background   *)
(* task marks the row running ("started"), loads the snapshot ("loaded"),  *)
(* reads blocks and graph inside the sync transaction ("syncing"), commits *)
(* it ("synced") or has caught an exception ("failing").  "killed": the    *)
(* thread died with its worker.  "lost": the thread ended on an exception  *)
(* raised by the status write itself, or a restart skipped the clean-up.   *)
(***************************************************************************)
Processing == {"started", "loaded", "syncing"}
RequestOpen == {"read", "missed"}
TaskOpen == {"queued", "synced", "failing"} \cup Processing
InFlight(j) == pc[j] \in RequestOpen \cup TaskOpen
Holder(p) == IF p \in Jobs THEN home[p] ELSE p

StaleBlocks == {n \in Notes : note[n] # None /\ graph[n].blocks # note[n]}
LiveNotes == {n \in Notes : note[n] # None}

Spend(what) == left[what] > 0 /\ left' = [left EXCEPT ![what] = @ - 1]
-----------------------------------------------------------------------------
Init ==
    /\ note = [n \in Notes |-> None]
    /\ status = [j \in Jobs |-> "none"]
    /\ key = [j \in Jobs |-> NoKey]
    /\ graph = [n \in Notes |-> NoGraph]
    /\ up = [w \in Workers |-> FALSE]
    /\ home = [j \in Jobs |-> None]
    /\ pc = [p \in Procs |-> IF p \in Jobs THEN "idle" ELSE "off"]
    /\ run = [p \in Procs |-> NoRun]
    /\ todo = [w \in Workers |-> {}]
    /\ rec = [w \in Workers |-> NoPass]
    /\ left = [edit |-> MaxEdits, crash |-> MaxCrashes,
               fault |-> MaxFaults, admin |-> MaxAdmin]

-----------------------------------------------------------------------------
(***************************** the user's notes ****************************)

\* put_note: one transaction writes the row, its hash and its blocks.
Save(n, c) ==
    /\ \E w \in Workers : up[w]
    /\ Spend("edit")
    /\ note' = [note EXCEPT ![n] = c]
    /\ UNCHANGED <<status, key, graph, up, home, pc, run, todo, rec>>

\* delete_note: the row (blocks cascade) and the note's AGE artifacts go in
\* one transaction.
Delete(n) ==
    /\ \E w \in Workers : up[w]
    /\ note[n] # None
    /\ Spend("edit")
    /\ note' = [note EXCEPT ![n] = None]
    /\ graph' = [graph EXCEPT ![n] = NoGraph]
    /\ UNCHANGED <<status, key, up, home, pc, run, todo, rec>>
-----------------------------------------------------------------------------
(************************** POST /v1/process-note **************************)

\* Mutant: no 404, the missing note's hash becomes a key.
RequestUnchecked(j, n, w) ==
    /\ up[w] /\ pc[j] = "idle"
    /\ Overlap \/ \A i \in Jobs : pc[i] \notin RequestOpen
    /\ home' = [home EXCEPT ![j] = w]
    /\ pc' = [pc EXCEPT ![j] = "read"]
    /\ key' = [key EXCEPT ![j] = [note |-> n, hash |-> note[n]]]
    /\ UNCHANGED <<note, status, graph, up, run, todo, rec, left>>

\* process_note looks the note up: 404, or the stored content_hash becomes
\* the de-duplication key.  A client may ask at any time: the editor's request
\* can overtake its save, and an import asks for a note of its own.
Request(j, n, w) ==
    /\ up[w]
    /\ pc[j] = "idle"
    /\ Overlap \/ \A i \in Jobs : pc[i] \notin RequestOpen
    /\ home' = [home EXCEPT ![j] = w]
    /\ \/ /\ note[n] = None
          /\ pc' = [pc EXCEPT ![j] = "done"]
          /\ UNCHANGED key
       \/ /\ note[n] # None
          /\ pc' = [pc EXCEPT ![j] = "read"]
          /\ key' = [key EXCEPT ![j] = [note |-> n, hash |-> note[n]]]
    /\ UNCHANGED <<note, status, graph, up, run, todo, rec, left>>

\* Mutant: only rows still in progress are found.
ReusableActive(k) == {i \in Jobs : key[i] = k /\ status[i] \in Active}

\* A row the SELECT of _pg_create_or_get_job returns for key k.
Reusable(k) == {i \in Jobs : key[i] = k /\ status[i] \notin {"none", "failed"}}

\* A non-failed row for the version exists: answer with it, start nothing.
ReuseJob(j) ==
    /\ pc[j] = "read"
    /\ Reusable(key[j]) # {}
    /\ pc' = [pc EXCEPT ![j] = "done"]
    /\ UNCHANGED <<note, status, key, graph, up, home, run, todo,
                   rec, left>>

\* None exists: the INSERT comes next, in a statement of its own.
MissJob(j) ==
    /\ pc[j] = "read"
    /\ Reusable(key[j]) = {}
    /\ pc' = [pc EXCEPT ![j] = "missed"]
    /\ UNCHANGED <<note, status, key, graph, up, home, run, todo,
                   rec, left>>

\* INSERT ... 'queued', commit, and add the background task to the response.
InsertJob(j) ==
    /\ pc[j] = "missed"
    /\ status' = [status EXCEPT ![j] = "queued"]
    /\ pc' = [pc EXCEPT ![j] = "queued"]
    /\ UNCHANGED <<note, key, graph, up, home, run, todo, rec,
                   left>>
-----------------------------------------------------------------------------
(************************** _run_processing_job ****************************)

\* mark_job_running: an unconditional UPDATE by job_id.
StartTask(j) ==
    /\ pc[j] = "queued"
    /\ status' = [status EXCEPT ![j] = "running"]
    /\ pc' = [pc EXCEPT ![j] = "started"]
    /\ run' = [run EXCEPT ![j].note = key[j].note]
    /\ UNCHANGED <<note, key, graph, up, home, todo, rec, left>>

\* The inner try caught NoteNotFoundError or any other exception.
FailTask(j) ==
    /\ pc[j] = "failing"
    /\ status' = [status EXCEPT ![j] = "failed"]
    /\ pc' = [pc EXCEPT ![j] = "done"]
    /\ UNCHANGED <<note, key, graph, up, home, run, todo, rec,
                   left>>

\* mark_job_completed after process_note returned.
CompleteTask(j) ==
    /\ pc[j] = "synced"
    /\ status' = [status EXCEPT ![j] = "completed"]
    /\ pc' = [pc EXCEPT ![j] = "done"]
    /\ UNCHANGED <<note, key, graph, up, home, run, todo, rec,
                   left>>

\* A status write raises.  None of the three is inside the inner try, so the
\* task just ends and the row keeps its status.
LoseTask(j) ==
    /\ pc[j] \in {"queued", "synced", "failing"}
    /\ Spend("fault")
    /\ pc' = [pc EXCEPT ![j] = "lost"]
    /\ UNCHANGED <<note, status, key, graph, up, home, run, todo,
                   rec>>
-----------------------------------------------------------------------------
(******* NoteProcessingService.process_note, for a task or a backfill ******)

\* Where a thread goes when process_note returns, and when it raises.
Returned(p) == IF p \in Jobs THEN "synced" ELSE "pick"
Raised(p) == IF p \in Jobs THEN "failing" ELSE "pick"

\* Mutant: the missing row goes unnoticed.
LoadUnchecked(p) ==
    /\ pc[p] = "started"
    /\ pc' = [pc EXCEPT ![p] = "loaded"]
    /\ run' = [run EXCEPT ![p].snap = note[run[p].note]]
    /\ UNCHANGED <<note, status, key, graph, up, home, todo, rec, left>>

\* _load_snapshot, in a session of its own.
Load(p) ==
    LET n == run[p].note IN
    /\ pc[p] = "started"
    /\ \/ /\ note[n] = None
          /\ pc' = [pc EXCEPT ![p] = Raised(p)]
          /\ run' = [run EXCEPT ![p] = NoRun]
       \/ /\ note[n] # None
          /\ pc' = [pc EXCEPT ![p] = "loaded"]
          /\ run' = [run EXCEPT ![p].snap = note[n]]
    /\ UNCHANGED <<note, status, key, graph, up, home, todo, rec, left>>

\* sync_note_graph, after the extraction: the blocks are read again, live,
\* and compared with the Block nodes.
ReadBlocks(p) ==
    LET n == run[p].note IN
    /\ pc[p] = "loaded"
    /\ pc' = [pc EXCEPT ![p] = "syncing"]
    /\ run' = [run EXCEPT ![p].blocks = note[n],
                          ![p].clean = (graph[n].blocks = note[n])]
    /\ UNCHANGED <<note, status, key, graph, up, home, todo, rec, left>>

\* The sync transaction commits: mentions and Note.content_hash come from the
\* snapshot, the Block nodes from the blocks read, or stay when none differed.
CommitGraph(p) ==
    /\ pc[p] = "syncing"
    /\ graph' = [graph EXCEPT ![run[p].note] =
                    [node |-> run[p].snap,
                     blocks |-> IF run[p].clean THEN @.blocks
                                                ELSE run[p].blocks]]
    /\ pc' = [pc EXCEPT ![p] = Returned(p)]
    /\ run' = [run EXCEPT ![p] = NoRun]
    /\ UNCHANGED <<note, status, key, up, home, todo, rec, left>>

\* Any step of process_note may raise; its transaction rolls back.
RaiseInProcess(p) ==
    /\ pc[p] \in Processing
    /\ Spend("fault")
    /\ pc' = [pc EXCEPT ![p] = Raised(p)]
    /\ run' = [run EXCEPT ![p] = NoRun]
    /\ UNCHANGED <<note, status, key, graph, up, home, todo, rec>>
-----------------------------------------------------------------------------
(**************************** startup backfill *****************************)

\* run_note_reprocessing_backfill picks its notes: those with a stale block,
\* or all of them when the check itself raises (or force is given).
ListBackfill(w) ==
    /\ pc[w] = "list"
    /\ \/ todo' = [todo EXCEPT ![w] = StaleBlocks] /\ UNCHANGED left
       \/ todo' = [todo EXCEPT ![w] = LiveNotes] /\ Spend("fault")
    /\ pc' = [pc EXCEPT ![w] = "pick"]
    /\ UNCHANGED <<note, status, key, graph, up, home, run, rec>>

\* _process_tenant takes the tenant's notes one after the other.
NextBackfill(w) ==
    /\ pc[w] = "pick"
    /\ \E n \in todo[w] :
        /\ todo' = [todo EXCEPT ![w] = @ \ {n}]
        /\ run' = [run EXCEPT ![w].note = n]
    /\ pc' = [pc EXCEPT ![w] = "started"]
    /\ UNCHANGED <<note, status, key, graph, up, home, rec, left>>

EndBackfill(w) ==
    /\ pc[w] = "pick"
    /\ todo[w] = {}
    /\ pc' = [pc EXCEPT ![w] = "off"]
    /\ UNCHANGED <<note, status, key, graph, up, home, run, todo,
                   rec, left>>

\* POST /v1/reprocess-all, with force or without.
ReprocessAll(w) ==
    /\ up[w]
    /\ pc[w] = "off"
    /\ Spend("admin")
    /\ \/ pc' = [pc EXCEPT ![w] = "list"] /\ UNCHANGED todo
       \/ /\ pc' = [pc EXCEPT ![w] = "pick"]
          /\ todo' = [todo EXCEPT ![w] = LiveNotes]
    /\ UNCHANGED <<note, status, key, graph, up, home, run, rec>>
-----------------------------------------------------------------------------
(***************************** graph reconcile *****************************)

\* POST /v1/graph/reconcile; the startup pass begins in Startup.
AskReconcile(w) ==
    /\ up[w]
    /\ rec[w] = NoPass
    /\ Spend("admin")
    /\ rec' = [rec EXCEPT ![w].at = "asked"]
    /\ UNCHANGED <<note, status, key, graph, up, home, pc, run,
                   todo>>

\* The live note ids are listed first ...
ListLive(w) ==
    /\ rec[w].at = "asked"
    /\ rec' = [rec EXCEPT ![w].at = "listed", ![w].live = LiveNotes]
    /\ UNCHANGED <<note, status, key, graph, up, home, pc, run,
                   todo, left>>

\* ... then fetch_age_note_ids gives the Note nodes that are not among them.
FindStale(w) ==
    /\ rec[w].at = "listed"
    /\ rec' = [rec EXCEPT
                ![w].at = "found",
                ![w].stale = {n \in Notes \ rec[w].live : graph[n].node # None}]
    /\ UNCHANGED <<note, status, key, graph, up, home, pc, run,
                   todo, left>>

\* delete_source_artifacts of each of those, committed together.
Prune(w) ==
    /\ rec[w].at = "found"
    /\ graph' = [n \in Notes |-> IF n \in rec[w].stale THEN NoGraph
                                                       ELSE graph[n]]
    /\ rec' = [rec EXCEPT ![w] = NoPass]
    /\ UNCHANGED <<note, status, key, up, home, pc, run, todo,
                   left>>

\* The pass raises: the tenant's session rolls back.
RaiseInReconcile(w) ==
    /\ rec[w].at \in {"listed", "found"}
    /\ Spend("fault")
    /\ rec' = [rec EXCEPT ![w] = NoPass]
    /\ UNCHANGED <<note, status, key, graph, up, home, pc, run,
                   todo>>
-----------------------------------------------------------------------------
(**************************** worker processes *****************************)

\* Mutants: the clean-up marks the rows with a status of Marked only, or every
\* row.
StartupMarking(w, Marked) ==
    /\ ~up[w]
    /\ up' = [up EXCEPT ![w] = TRUE]
    /\ status' = [j \in Jobs |-> IF status[j] \in Marked THEN "failed"
                                                         ELSE status[j]]
    /\ pc' = [pc EXCEPT ![w] = "list"]
    /\ rec' = [rec EXCEPT ![w].at = "asked"]
    /\ UNCHANGED <<note, key, graph, home, run, todo, left>>
StartupRunningOnly(w) == StartupMarking(w, {"running"})
StartupEveryRow(w) == StartupMarking(w, {"queued", "running", "completed"})

\* lifespan: mark_stale_jobs_as_failed for every row of every tenant, then
\* the backfill and the reconcile are submitted.
Startup(w) ==
    /\ ~up[w]
    /\ up' = [up EXCEPT ![w] = TRUE]
    /\ status' = [j \in Jobs |-> IF status[j] \in Active THEN "failed"
                                                         ELSE status[j]]
    /\ pc' = [pc EXCEPT ![w] = "list"]
    /\ rec' = [rec EXCEPT ![w].at = "asked"]
    /\ UNCHANGED <<note, key, graph, home, run, todo, left>>

\* mark_stale_jobs_as_failed swallows every exception.
StartupUnmarked(w) ==
    /\ ~up[w]
    /\ Spend("fault")
    /\ up' = [up EXCEPT ![w] = TRUE]
    /\ pc' = [p \in Procs |-> IF p = w THEN "list"
                              ELSE IF p \in Jobs /\ home[p] = w /\ pc[p] = "killed"
                              THEN "lost" ELSE pc[p]]
    /\ rec' = [rec EXCEPT ![w].at = "asked"]
    /\ UNCHANGED <<note, status, key, graph, home, run, todo>>

\* A worker dies: requests, background tasks, backfill and reconcile with it.
Crash(w) ==
    /\ up[w]
    /\ Spend("crash")
    /\ up' = [up EXCEPT ![w] = FALSE]
    /\ pc' = [p \in Procs |->
                IF p = w THEN "off"
                ELSE IF p \in Jobs /\ home[p] = w /\ InFlight(p)
                THEN "killed" ELSE pc[p]]
    /\ run' = [p \in Procs |-> IF Holder(p) = w THEN NoRun ELSE run[p]]
    /\ todo' = [todo EXCEPT ![w] = {}]
    /\ rec' = [rec EXCEPT ![w] = NoPass]
    /\ UNCHANGED <<note, status, key, graph, home>>
-----------------------------------------------------------------------------
User ==
    \E n \in Notes :
        \/ \E c \in Contents : Save(n, c)
        \/ Delete(n)

Answer(j) == ReuseJob(j) \/ MissJob(j) \/ InsertJob(j)
Task(j) == StartTask(j) \/ FailTask(j) \/ CompleteTask(j)
ProcessNote(p) == Load(p) \/ ReadBlocks(p) \/ CommitGraph(p)
Backfill(w) == ListBackfill(w) \/ NextBackfill(w) \/ EndBackfill(w)
Reconcile(w) == ListLive(w) \/ FindStale(w) \/ Prune(w)

Trouble ==
    \/ \E j \in Jobs : LoseTask(j)
    \/ \E p \in Procs : RaiseInProcess(p)
    \/ \E w \in Workers : RaiseInReconcile(w) \/ StartupUnmarked(w) \/ Crash(w)

Next ==
    \/ User
    \/ \E j \in Jobs, n \in Notes, w \in Workers : Request(j, n, w)
    \/ \E j \in Jobs : Answer(j) \/ Task(j)
    \/ \E p \in Procs : ProcessNote(p)
    \/ \E w \in Workers : Backfill(w) \/ Reconcile(w) \/ Startup(w)
    \/ \E w \in Workers : ReprocessAll(w) \/ AskReconcile(w)
    \/ Trouble

Spec == Init /\ [][Next]_vars

(***************************************************************************)
(* A thread that can move does: the thread pools of a live worker schedule *)
(* every submitted call and the process manager restarts a dead worker.    *)
(* Saves, deletes, requests, faults, crashes and administrator calls are   *)
(* never forced.                                                           *)
(***************************************************************************)
Fairness ==
    /\ \A j \in Jobs : WF_vars(Answer(j) \/ Task(j) \/ ProcessNote(j))
    /\ \A w \in Workers :
        /\ WF_vars(Startup(w))
        /\ WF_vars(Backfill(w) \/ ProcessNote(w))
        /\ WF_vars(Reconcile(w))

FairSpec == Spec /\ Fairness
-----------------------------------------------------------------------------
(******************************* properties ********************************)

PcsOfJob == {"idle", "done", "killed", "lost"} \cup RequestOpen \cup TaskOpen
PcsOfBackfill == {"off", "list", "pick"} \cup Processing
Keys == [note : Notes, hash : Contents]
Rows == Contents \cup {None}
Artifacts == [node : Rows, blocks : Rows]
Runs == [note : Notes \cup {None}, snap : Rows, blocks : Rows, clean : BOOLEAN]
Passes == [at : {"idle", "asked", "listed", "found"},
           live : SUBSET Notes, stale : SUBSET Notes]

\* The shape of the tables, the graph and the threads' control state.
TypeOK ==
    /\ note \in [Notes -> Rows]
    /\ status \in [Jobs -> {"none", "queued", "running", "completed", "failed"}]
    /\ key \in [Jobs -> Keys \cup {NoKey}]
    /\ graph \in [Notes -> Artifacts]
    /\ up \in [Workers -> BOOLEAN]
    /\ home \in [Jobs -> Workers \cup {None}]
    /\ pc \in [Procs -> PcsOfJob \cup PcsOfBackfill]
    /\ \A j \in Jobs : pc[j] \in PcsOfJob
    /\ \A w \in Workers : pc[w] \in PcsOfBackfill
    /\ run \in [Procs -> Runs]
    /\ todo \in [Workers -> SUBSET Notes]
    /\ rec \in [Workers -> Passes]
    /\ left \in [{"edit", "crash", "fault", "admin"} -> Nat]

\* A row that says queued or running has somebody to move it on: its own
\* task, or the restart of the dead worker that ran it.  The only rows left
\* behind are those whose status write raised, or that a restart failed to
\* mark (processing_jobs rows a poller would otherwise wait on for ever).
NoStrandedJob ==
    \A j \in Jobs : status[j] \in Active =>
        \/ pc[j] \in TaskOpen
        \/ pc[j] = "lost"
        \/ pc[j] = "killed" /\ ~up[home[j]]

\* What each thread relies on: the invariant the proofs carry beside TypeOK.
\* A request or task runs in a live worker, on a key it has looked up; a dead
\* worker has no backfill; process_note runs on some note; a pass prunes
\* nothing it listed as live.
ThreadsOK ==
    /\ \A j \in Jobs : InFlight(j) => home[j] \in Workers /\ up[home[j]]
    /\ \A j \in Jobs : pc[j] \in {"read", "missed", "queued"} => key[j] \in Keys
    /\ \A w \in Workers : ~up[w] => pc[w] = "off"
    /\ \A p \in Procs : pc[p] \in Processing => run[p].note \in Notes
    /\ \A p \in Procs : pc[p] \in {"loaded", "syncing"} => run[p].snap \in Contents
    /\ \A j \in Jobs : status[j] = "completed" => pc[j] = "done"
    /\ \A w \in Workers : rec[w].at = "found" => rec[w].stale \cap rec[w].live = {}

\* The row of a job whose graph transaction has committed stays completed: no
\* restart, other task or late failure takes it back, whatever the workers do.
CompletedIsFinal ==
    [][\A j \in Jobs :
        status[j] = "completed" => status'[j] = "completed"]_vars

\* The note is deleted, nothing of it is in the graph, and no thread has its
\* content in memory.
Forgotten(n) ==
    /\ note[n] = None
    /\ graph[n] = NoGraph
    /\ \A p \in Procs : run[p].note = n => pc[p] = "started"

\* A forgotten note stays forgotten until it is saved again: no queued job,
\* backfill or reconcile brings a deleted note back into the graph, so ghosts
\* come only from a thread that had loaded the note before the delete.
ForgottenStaysForgotten ==
    [][\A n \in Notes : Forgotten(n) /\ note'[n] = None => Forgotten(n)']_vars

\* create_or_get_job coalesces the requests for one note version.
OneUsableJob ==
    \A i, j \in Jobs : i # j /\ key[i] = key[j] =>
        status[i] \in {"none", "failed"} \/ status[j] \in {"none", "failed"}

\* A status a poller takes for final is final.
TerminalIsFinal ==
    [][\A j \in Jobs : status[j] \in {"completed", "failed"}
                            => status'[j] = status[j]]_vars

\* A reconcile spares every note that had a row when it listed the live ones:
\* whatever is saved, deleted or extracted between its reads, only a note that
\* was absent from that list can lose its graph while it has a row.
PruneSparesListed ==
    [][\A n \in Notes :
        graph[n].node # None /\ graph'[n].node = None /\ note'[n] # None
            => \E w \in Workers : rec[w].at = "found" /\ n \notin rec[w].live]_vars

\* Every job that was queued is settled: no poller waits for ever.
EveryJobSettles ==
    \A j \in Jobs : status[j] \in Active ~> status[j] \notin Active

\* The store the tasks see is the one job_store.py promises.
Store == INSTANCE JobStore WITH
    key <- [j \in Jobs |-> IF status[j] = "none" THEN NoKey ELSE key[j]]
JobStoreSpec == Store!Spec
=============================================================================
