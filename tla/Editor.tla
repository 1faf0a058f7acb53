------------------------------- MODULE Editor -------------------------------
(***************************************************************************)
(* One opened note in the browser: NoteEditor with its autosave and        *)
(* process-queue timers (createNoteLifecycleController), the PUTs and      *)
(* POSTs it sends, and the pollers of its jobs.  NotesWorkspace mounts one *)
(* NoteEditor per note id, so closing a note ends this component, while    *)
(* what it sent lives on.  JavaScript runs one callback at a time: a step  *)
(* is one callback, or the server's commit of a PUT.                       *)
(***************************************************************************)
EXTENDS Naturals

CONSTANT MaxEdits      \* bound on edits

ASSUME EditorAssumption == MaxEdits \in Nat

VARIABLES
    open,       \* mounted
    doc,        \* latestSnapshotRef, by number: 0 blank, 1 as loaded, then
                \*   one number per edit (its updatedAt)
    meta,       \* meta[d]: title, subject, tags and flags of d, by number
    dirty, saveStatus,
    persisted,  \* persistedMetadataRef
    saveT, procT,   \* timers pending
    put,        \* put[d]: the PUT of snapshot d
    saved,      \* snapshots the server has committed
    post,       \* post[d]: the process-note request sent at d
    loop,       \* loop[d]: the poller that the answer to post[d] starts
    active,     \* activeJobIdRef and pollingRef: the last post answered, or 0
    settled     \* jobs completed or failed, by the post that asked for them
vars == <<open, doc, meta, dirty, saveStatus, persisted, saveT, procT, put,
          saved, post, loop, active, settled>>

Docs == 0 .. MaxEdits + 1
Waiting == {"fetching", "pausing"}     \* isRunning of a poller

\* The edit after d; a blank note that failed to load is not the loaded one.
After(d) == IF d = 0 THEN 2 ELSE d + 1
-----------------------------------------------------------------------------
\* getNote answered, or failed: then the editor shows an empty note.
Init ==
    /\ open = TRUE
    /\ doc \in {0, 1}
    /\ meta = [d \in Docs |-> IF d = 1 THEN 1 ELSE 0]
    /\ dirty = FALSE
    /\ saveStatus = "idle"
    /\ persisted = doc
    /\ saveT = FALSE /\ procT = FALSE
    /\ put = [d \in Docs |-> "none"]
    /\ saved = {1}
    /\ post = [d \in Docs |-> "none"]
    /\ loop = [d \in Docs |-> "none"]
    /\ active = 0
    /\ settled = {}

\* handleEditorUpdate, handleTitleChange and the other handlers: m is the
\* metadata after the edit, the same, an earlier value or a new one.
Edit(m) ==
    /\ open
    /\ After(doc) \in Docs
    /\ m \in 0 .. After(doc)
    /\ doc' = After(doc)
    /\ meta' = [meta EXCEPT ![After(doc)] = m]
    /\ dirty' = TRUE
    /\ saveStatus' = "idle"
    /\ saveT' = TRUE /\ procT' = TRUE
    /\ UNCHANGED <<open, persisted, put, saved, post, loop, active, settled>>

-----------------------------------------------------------------------------
(********************************* sending *********************************)

\* performAutosave up to its await.  Its abort() of the PUT before reaches
\* nobody: apiFetch puts the signal of its own timeout in place of the
\* caller's.
PerformAutosave ==
    /\ put' = [put EXCEPT ![doc] = "sent"]
    /\ saveStatus' = "saving"

\* startProcessing up to its await; a note without text asks for nothing.
StartProcessing ==
    \/ UNCHANGED post
    \/ post' = [post EXCEPT ![doc] = "sent"]

AutosaveTimer ==
    /\ saveT
    /\ saveT' = FALSE
    /\ PerformAutosave
    /\ UNCHANGED <<open, doc, meta, dirty, persisted, procT, saved, post,
                   loop, active, settled>>

\* The longer timer, set with the other one by every edit.
ProcessTimer ==
    /\ procT
    /\ ~saveT
    /\ procT' = FALSE
    /\ StartProcessing
    /\ UNCHANGED <<open, doc, meta, dirty, saveStatus, persisted, saveT, put,
                   saved, loop, active, settled>>

\* Mutant: flush runs the handlers and leaves their timers pending.
BlurUncleared ==
    /\ open /\ (saveT \/ procT)
    /\ IF saveT THEN PerformAutosave ELSE UNCHANGED <<put, saveStatus>>
    /\ IF procT THEN StartProcessing ELSE UNCHANGED post
    /\ UNCHANGED <<open, doc, meta, dirty, persisted, saveT, procT, saved,
                   loop, active, settled>>

\* onBlur flushes both timers.
Blur ==
    /\ open
    /\ saveT \/ procT
    /\ IF saveT THEN PerformAutosave ELSE UNCHANGED <<put, saveStatus>>
    /\ IF procT THEN StartProcessing ELSE UNCHANGED post
    /\ saveT' = FALSE /\ procT' = FALSE
    /\ UNCHANGED <<open, doc, meta, dirty, persisted, saved, loop, active,
                   settled>>

\* NotesWorkspace renders: its onMetadataSaved is a new function, so
\* performAutosave is, so the lifecycle effect disposes its controller.
Rerender ==
    /\ open
    /\ saveT \/ procT
    /\ saveT' = FALSE /\ procT' = FALSE
    /\ UNCHANGED <<open, doc, meta, dirty, saveStatus, persisted, put, saved,
                   post, loop, active, settled>>

StopPoller == loop' = [loop EXCEPT ![active] =
                          IF @ \in Waiting THEN "stopped" ELSE @]

\* Mutant: the lifecycle controller is not disposed.
UnmountUndisposed ==
    /\ open
    /\ open' = FALSE
    /\ StopPoller
    /\ UNCHANGED <<doc, meta, dirty, saveStatus, persisted, saveT, procT, put,
                   saved, post, active, settled>>

\* Another note is selected, or this one deleted: both clean-ups run.
Unmount ==
    /\ open
    /\ open' = FALSE
    /\ saveT' = FALSE /\ procT' = FALSE
    /\ StopPoller
    /\ UNCHANGED <<doc, meta, dirty, saveStatus, persisted, put, saved, post,
                   active, settled>>
-----------------------------------------------------------------------------
(******************************** the PUTs *********************************)

\* put_note commits, whether or not the browser still waits.
Commit(d) ==
    /\ put[d] \in {"sent", "abandoned"}
    /\ put' = [put EXCEPT ![d] = IF @ = "sent" THEN "committed" ELSE "closed"]
    /\ saved' = saved \cup {d}
    /\ UNCHANGED <<open, doc, meta, dirty, saveStatus, persisted, saveT, procT,
                   post, loop, active, settled>>

\* Mutant: any answer marks the note clean.
SaveAnsweredClean(d) ==
    /\ put[d] = "committed"
    /\ put' = [put EXCEPT ![d] = "closed"]
    /\ saveStatus' = "saved" /\ persisted' = meta[d] /\ dirty' = FALSE
    /\ UNCHANGED <<open, doc, meta, saveT, procT, saved, post, loop, active,
                   settled>>

\* performAutosave after its await.  Metadata that changed goes to
\* NotesWorkspace, which renders (see Rerender).
SaveAnswered(d) ==
    /\ put[d] = "committed"
    /\ put' = [put EXCEPT ![d] = "closed"]
    /\ saveStatus' = "saved"
    /\ persisted' = meta[d]
    /\ saveT' = (saveT /\ meta[d] = persisted)
    /\ procT' = (procT /\ meta[d] = persisted)
    /\ dirty' = (dirty /\ d # doc)
    /\ UNCHANGED <<open, doc, meta, saved, post, loop, active, settled>>

\* A title conflict, a server error, or a broken connection.
SaveRefused(d) ==
    /\ put[d] \in {"sent", "committed"}
    /\ \E s \in {"closed", "abandoned"} :
        /\ s = "abandoned" => put[d] = "sent"
        /\ put' = [put EXCEPT ![d] = s]
    /\ saveStatus' = "error"
    /\ UNCHANGED <<open, doc, meta, dirty, persisted, saveT, procT, saved,
                   post, loop, active, settled>>

\* apiFetch aborts after 30 s: an AbortError, taken for a superseded save.
SaveTimeout(d) ==
    /\ put[d] \in {"sent", "committed"}
    /\ put' = [put EXCEPT ![d] = IF @ = "sent" THEN "abandoned" ELSE "closed"]
    /\ UNCHANGED <<open, doc, meta, dirty, saveStatus, persisted, saveT, procT,
                   saved, post, loop, active, settled>>
-----------------------------------------------------------------------------
(*************************** the jobs' progress ****************************)

\* Mutant: the earlier poller goes on.
QueuedUnstopped(d) ==
    /\ post[d] = "sent"
    /\ post' = [post EXCEPT ![d] = "closed"]
    /\ active' = d
    /\ loop' = [loop EXCEPT ![d] = "fetching"]
    /\ UNCHANGED <<open, doc, meta, dirty, saveStatus, persisted, saveT, procT,
                   put, saved, settled>>

\* startProcessing after its await, mounted or not: the earlier poller is
\* stopped, a new one fetches at once.
Queued(d) ==
    /\ post[d] = "sent"
    /\ post' = [post EXCEPT ![d] = "closed"]
    /\ active' = d
    /\ loop' = [e \in Docs |-> IF e = d THEN "fetching"
                               ELSE IF e = active /\ loop[e] \in Waiting
                               THEN "stopped" ELSE loop[e]]
    /\ UNCHANGED <<open, doc, meta, dirty, saveStatus, persisted, saveT, procT,
                   put, saved, settled>>

\* Mutant: the failure is set as the status of the save.
QueueFailedAsSave(d) ==
    /\ post[d] = "sent"
    /\ post' = [post EXCEPT ![d] = "closed"]
    /\ saveStatus' = "failed"
    /\ UNCHANGED <<open, doc, meta, dirty, persisted, saveT, procT, put, saved,
                   loop, active, settled>>

QueueFailed(d) ==
    /\ post[d] = "sent"
    /\ post' = [post EXCEPT ![d] = "closed"]
    /\ UNCHANGED <<open, doc, meta, dirty, saveStatus, persisted, saveT, procT,
                   put, saved, loop, active, settled>>

\* The server finishes the job (NoteProcessing says that it does).
Settle(d) ==
    /\ post[d] # "none"
    /\ settled' = settled \cup {d}
    /\ UNCHANGED <<open, doc, meta, dirty, saveStatus, persisted, saveT, procT,
                   put, saved, post, loop, active>>

\* Mutant: a terminal status schedules the next fetch like any other.
PolledForever(d) ==
    /\ loop[d] = "fetching"
    /\ loop' = [loop EXCEPT ![d] = "pausing"]
    /\ UNCHANGED <<open, doc, meta, dirty, saveStatus, persisted, saveT, procT,
                   put, saved, post, active, settled>>

\* poll after its await: fetchStatus asked for the job in activeJobIdRef.
Polled(d) ==
    /\ loop[d] = "fetching"
    /\ loop' = [loop EXCEPT ![d] = IF active \in settled THEN "stopped"
                                                         ELSE "pausing"]
    /\ UNCHANGED <<open, doc, meta, dirty, saveStatus, persisted, saveT, procT,
                   put, saved, post, active, settled>>

PollFailed(d) ==
    /\ loop[d] = "fetching"
    /\ loop' = [loop EXCEPT ![d] = "stopped"]
    /\ UNCHANGED <<open, doc, meta, dirty, saveStatus, persisted, saveT, procT,
                   put, saved, post, active, settled>>

PollTimer(d) ==
    /\ loop[d] = "pausing"
    /\ loop' = [loop EXCEPT ![d] = "fetching"]
    /\ UNCHANGED <<open, doc, meta, dirty, saveStatus, persisted, saveT, procT,
                   put, saved, post, active, settled>>
-----------------------------------------------------------------------------
User == (\E m \in Docs : Edit(m)) \/ Blur \/ Rerender \/ Unmount
Timers == AutosaveTimer \/ ProcessTimer
Put(d) == Commit(d) \/ SaveAnswered(d) \/ SaveRefused(d) \/ SaveTimeout(d)
Post(d) == Queued(d) \/ QueueFailed(d)
Poll(d) == Polled(d) \/ PollFailed(d) \/ PollTimer(d)

Next ==
    \/ User
    \/ Timers
    \/ \E d \in Docs : Put(d) \/ Post(d) \/ Settle(d) \/ Poll(d)

Spec == Init /\ [][Next]_vars

\* A status fetch is answered or times out, the poll timer fires and jobs
\* settle; nothing else has to happen, least of all what a user does.
FairSpec ==
    /\ Spec
    /\ \A d \in Docs : WF_vars(Poll(d)) /\ WF_vars(Settle(d))
-----------------------------------------------------------------------------
(******************************* properties ********************************)

\* The shape of the editor's state.
TypeOK ==
    /\ open \in BOOLEAN /\ doc \in Docs /\ meta \in [Docs -> Docs]
    /\ dirty \in BOOLEAN /\ saveStatus \in {"idle", "saving", "saved", "error"}
    /\ persisted \in Docs
    /\ saveT \in BOOLEAN /\ procT \in BOOLEAN
    /\ put \in [Docs -> {"none", "sent", "committed", "abandoned", "closed"}]
    /\ saved \subseteq Docs
    /\ post \in [Docs -> {"none", "sent", "closed"}]
    /\ loop \in [Docs -> {"none", "fetching", "pausing", "stopped"}]
    /\ active \in Docs
    /\ settled \subseteq Docs

\* What the editor takes for stored was stored: a clean document is one the
\* server committed (or the note as it opened), the metadata it has
\* announced to the workspace is that of a committed snapshot; answers may
\* come in any order, late, or not at all.
BelievesStored ==
    /\ ~dirty => doc \in saved \cup {0}
    /\ \E d \in saved \cup {0} : persisted = meta[d]

\* A pending timer will send something new: no snapshot is sent twice, by a
\* timer and a blur.
NoDoubleSave ==
    /\ saveT => put[doc] = "none"
    /\ procT => post[doc] = "none"

\* However the answers to process-note requests are ordered, one poller runs
\* at most, and it asks for the job it was made for.
OneLoop == \A d \in Docs : loop[d] \in Waiting => d = active

\* A closed note sends nothing any more, though timers were pending.
ClosedIsQuiet ==
    [][~open => \A d \in Docs : /\ put[d] = "none" => put'[d] = "none"
                                /\ post[d] = "none" => post'[d] = "none"]_vars

\* Every poller stops, those started after the note was closed too.
PollerStops == \A d \in Docs : loop[d] \in Waiting ~> loop[d] \notin Waiting

\* "marks note dirty on edit and autosaves after debounce": an edit not yet
\* stored has its timer, or its PUT on the way, or a save error shown.
EditIsPending ==
    open /\ dirty => saveT \/ saveStatus = "error"
                       \/ put[doc] \in {"sent", "committed"}

=============================================================================
