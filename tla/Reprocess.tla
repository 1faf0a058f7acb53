------------------------------ MODULE Reprocess -----------------------------
(***************************************************************************)
(* Reprocessing runs and their progress file: every worker process starts  *)
(* one when it starts, and POST /v1/reprocess-all hands one to the         *)
(* worker's executor, if the file does not say that one is in progress.    *)
(* The file is in /tmp, shared by the workers and left behind by a crash.  *)
(*                                                                         *)
(* A run extracts notes into the graph of GraphViews and, when forced,     *)
(* clears the insights first.                                              *)
(***************************************************************************)
EXTENDS GraphViews

CONSTANT Workers     \* MaxEvents also bounds what happens to them

VARIABLES
    up,       \* workers running
    file,     \* the progress file: "no", "yes" (in_progress), "torn"
    run,      \* run[w][k]: the run of worker w at its start ("startup"), and
              \*   those its executor takes one after the other ("asked")
    queued    \* queued[w]: runs submitted to the executor of w

bvars == <<up, file, run, queued>>
allvars == <<vars, bvars>>

Kinds == {"startup", "asked"}
NoRun == [at |-> "none", notes |-> {}]
At(w, k, at) == run[w][k].at = at
Now(w, k, at, notes) == run' = [run EXCEPT ![w][k] = [at |-> at, notes |-> notes]]

Launched == [k \in Kinds |-> IF k = "startup" THEN [NoRun EXCEPT !.at = "listing"] ELSE NoRun]

\* The workers have started, before there was a note.
ReprocessInit ==
    /\ Init
    /\ up = Workers
    /\ file = "no"
    /\ run = [w \in Workers |-> [k \in Kinds |-> NoRun]]
    /\ queued = [w \in Workers |-> 0]

\* set_backfill_status opens the file for writing, which empties it, and then
\* fills it.  Runs of one worker take turns by its lock.
Torn(w) == \E k \in Kinds : run[w][k].at \in {"opened", "closing"}

\* get_backfill_status: a file that cannot be parsed is not in progress.
InProgress == file = "yes"

\* reprocess_all: 409 while one is in progress.
ReprocessAll(w) ==
    /\ w \in up /\ ~Torn(w) /\ ~InProgress
    /\ Spend
    /\ queued' = [queued EXCEPT ![w] = @ + 1]
    /\ UNCHANGED <<row, waiting, extracted, cache, insight, req, up, file, run>>

\* The executor has one thread; a forced run commits its clearing of the
\* insights before it lists the notes ...
Begin(w) ==
    /\ queued[w] > 0 /\ At(w, "asked", "none")
    /\ queued' = [queued EXCEPT ![w] = @ - 1]
    /\ Now(w, "asked", "listing", {})
    /\ insight' \in {insight, [l \in Labels |-> NoRow]}
    /\ UNCHANGED <<row, waiting, extracted, cache, req, left, up, file>>

\* ... or the clearing fails, is not rolled back, and the listing raises.
BeginRaises(w) ==
    /\ queued[w] > 0 /\ At(w, "asked", "none")
    /\ Spend
    /\ queued' = [queued EXCEPT ![w] = @ - 1]
    /\ UNCHANGED <<row, waiting, extracted, cache, insight, req, up, file, run>>

\* _filter_stale_notes: some block is not in the graph with its present text.
Stale(n) ==
    \/ extracted[n] = NoRow
    \/ extracted[n].words # row[n].words \/ extracted[n].links # row[n].links

\* Discovery: stale notes, or all notes if the run is forced.
List(w, k) ==
    /\ At(w, k, "listing") /\ ~Torn(w)
    /\ \E forced \in {FALSE, k = "asked"} :
           Now(w, k, "opened", IF forced THEN Live(row)
                               ELSE {n \in Live(row) : Stale(n)})
    /\ file' = "torn"
    /\ UNCHANGED <<vars, up, queued>>

Publish(w, k) ==
    /\ At(w, k, "opened")
    /\ Now(w, k, "working", run[w][k].notes)
    /\ file' = "yes"
    /\ UNCHANGED <<vars, up, queued>>

\* process_note of the next one, or its failure; record() then writes the
\* file again.
Work(w, k) ==
    /\ At(w, k, "working") /\ ~Torn(w)
    /\ \E n \in run[w][k].notes :
        /\ Now(w, k, "opened", run[w][k].notes \ {n})
        /\ extracted' \in {extracted, [extracted EXCEPT ![n] = row[n]]}
    /\ file' = "torn"
    /\ UNCHANGED <<row, waiting, cache, insight, req, left, up, queued>>

\* Mutant: a run without work does not reset the file.
FinishIfWorked(w, k) ==
    /\ At(w, k, "working") /\ ~Torn(w)
    /\ run[w][k].notes = {}
    /\ \E worked \in BOOLEAN :
        IF worked THEN Now(w, k, "closing", {}) /\ file' = "torn"
                  ELSE Now(w, k, "none", {}) /\ UNCHANGED file
    /\ UNCHANGED <<vars, up, queued>>

Finish(w, k) ==
    /\ At(w, k, "working") /\ ~Torn(w)
    /\ run[w][k].notes = {}
    /\ Now(w, k, "closing", {})
    /\ file' = "torn"
    /\ UNCHANGED <<vars, up, queued>>

Close(w, k) ==
    /\ At(w, k, "closing")
    /\ Now(w, k, "none", {})
    /\ file' = "no"
    /\ UNCHANGED <<vars, up, queued>>

\* A worker dies with its runs; the file stays as it is ...
Crash(w) ==
    /\ w \in up
    /\ Spend
    /\ up' = up \ {w}
    /\ run' = [run EXCEPT ![w] = [k \in Kinds |-> NoRun]]
    /\ queued' = [queued EXCEPT ![w] = 0]
    /\ UNCHANGED <<row, waiting, extracted, cache, insight, req, file>>

\* ... until it is started again.
Restart(w) ==
    /\ w \notin up
    /\ up' = up \cup {w}
    /\ run' = [run EXCEPT ![w] = Launched]
    /\ UNCHANGED <<vars, file, queued>>

Running(w) ==
    \/ Begin(w) \/ Restart(w)
    \/ \E k \in Kinds : List(w, k) \/ Publish(w, k) \/ Work(w, k) \/ Finish(w, k) \/ Close(w, k)

BackfillNext ==
    \E w \in Workers : ReprocessAll(w) \/ Running(w) \/ BeginRaises(w) \/ Crash(w)

Next == (ViewsNext /\ UNCHANGED bvars) \/ BackfillNext

Spec == ReprocessInit /\ [][Next]_allvars

\* The threads of a running worker go on, and a dead worker is restarted.
FairSpec == Spec /\ \A w \in Workers : WF_allvars(Running(w))
-----------------------------------------------------------------------------
(******************************** properties *******************************)

\* The progress file does not refuse every later reprocess-all: whatever
\* crashes in the middle of a run, it stops saying "in progress"
\* (startup_backfill_service.py:183-283, backfill.py:45-50).
BackfillEnds == file # "no" ~> file = "no"
=============================================================================
