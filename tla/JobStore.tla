------------------------------ MODULE JobStore ------------------------------
(***************************************************************************)
(* What core/job_store.py promises its callers, without the threads that   *)
(* call it.  It is the in-memory store (the branch SQLite and the tests    *)
(* use), where one lock covers the lookup and the insert: a note version   *)
(* has at most one job that has not failed, and a job moves forward from   *)
(* queued to running to completed or failed.  The one operation on the     *)
(* whole table is the clean-up a restarting process performs.              *)
(***************************************************************************)
CONSTANTS Jobs, Keys, NoKey

VARIABLES status, key     \* a job's status ("none": no record) and its version
storeVars == <<status, key>>

Active == {"queued", "running"}

Init ==
    /\ status = [j \in Jobs |-> "none"]
    /\ key = [j \in Jobs |-> NoKey]

\* _mem_create_or_get_job when no record of the version is usable: only a
\* failed one, or none.  The other branch returns the record unchanged.
CreateJob(j, k) ==
    /\ status[j] = "none"
    /\ \A i \in Jobs : key[i] = k => status[i] = "failed"
    /\ status' = [status EXCEPT ![j] = "queued"]
    /\ key' = [key EXCEPT ![j] = k]

\* _mem_transition_job, with the statuses its callers pass in that order.
Transition(j) ==
    /\ \/ status[j] = "queued" /\ status' = [status EXCEPT ![j] = "running"]
       \/ /\ status[j] = "running"
          /\ \E s \in {"completed", "failed"} :
                status' = [status EXCEPT ![j] = s]
    /\ UNCHANGED key

\* mark_stale_jobs_as_failed: no thread of the interrupted jobs is left.
Interrupt ==
    /\ status' = [j \in Jobs |-> IF status[j] \in Active THEN "failed"
                                                         ELSE status[j]]
    /\ UNCHANGED key

Next ==
    \/ \E j \in Jobs, k \in Keys : CreateJob(j, k)
    \/ \E j \in Jobs : Transition(j)
    \/ Interrupt

Spec == Init /\ [][Next]_storeVars
=============================================================================
