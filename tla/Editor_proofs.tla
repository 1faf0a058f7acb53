---------------------------- MODULE Editor_proofs ----------------------------
(***************************************************************************)
(* The safety properties of Editor for every number of edits.              *)
(***************************************************************************)
EXTENDS Editor, TLAPS

\* What the properties rest on: a snapshot not yet made was never sent, a
\* committed one is stored, and a closed note has no timer.
Fresh ==
    /\ \A d \in Docs : d > doc => put[d] = "none" /\ post[d] = "none"
    /\ \A d \in saved : d = 1 \/ put[d] # "none"
    /\ \A d \in Docs : put[d] = "committed" => d \in saved
    /\ ~open => ~saveT /\ ~procT

\* The two halves of TypeOK, one for each prover.
Flags == open \in BOOLEAN /\ dirty \in BOOLEAN /\ saveT \in BOOLEAN /\ procT \in BOOLEAN
Shape ==
    /\ doc \in Docs /\ meta \in [Docs -> Docs] /\ persisted \in Docs
    /\ saveStatus \in {"idle", "saving", "saved", "error"}
    /\ put \in [Docs -> {"none", "sent", "committed", "abandoned", "closed"}]
    /\ saved \subseteq Docs
    /\ post \in [Docs -> {"none", "sent", "closed"}]
    /\ loop \in [Docs -> {"none", "fetching", "pausing", "stopped"}]
    /\ active \in Docs /\ settled \subseteq Docs

EditorInv == TypeOK /\ Fresh /\ BelievesStored /\ NoDoubleSave /\ OneLoop
-----------------------------------------------------------------------------
\* The note as it opens.
LEMMA InitEditor == Init => EditorInv
<1> SUFFICES ASSUME Init PROVE EditorInv
  OBVIOUS
<1>1. Flags
  BY Zenon DEF Init, Flags
<1>2. Shape
  BY EditorAssumption, SMT DEF Init, Shape, Docs
<1>3. Fresh /\ BelievesStored /\ NoDoubleSave /\ OneLoop
  BY EditorAssumption, SMT
     DEF Init, Fresh, BelievesStored, NoDoubleSave, OneLoop, Docs, Waiting
<1> QED BY <1>1, <1>2, <1>3 DEF EditorInv, TypeOK, Flags, Shape

\* Every callback keeps the shape of the state.
LEMMA NextType == TypeOK /\ [Next]_vars => TypeOK'
<1> SUFFICES ASSUME TypeOK, [Next]_vars PROVE TypeOK'
  OBVIOUS
<1> USE EditorAssumption DEF Docs
<1>1. ASSUME NEW m \in Docs, Edit(m) PROVE TypeOK'
  <2>1. Flags'
    BY <1>1, Zenon DEF Edit, TypeOK, Flags
  <2>2. Shape'
    BY <1>1, SMT DEF Edit, After, TypeOK, Shape
  <2> QED BY <2>1, <2>2 DEF TypeOK, Flags, Shape
<1>2. ASSUME AutosaveTimer PROVE TypeOK'
  <2>1. Flags'
    BY <1>2, Zenon DEF AutosaveTimer, TypeOK, Flags
  <2>2. Shape'
    BY <1>2, SMT DEF AutosaveTimer, PerformAutosave, TypeOK, Shape
  <2> QED BY <2>1, <2>2 DEF TypeOK, Flags, Shape
<1>3. ASSUME ProcessTimer PROVE TypeOK'
  <2>1. Flags'
    BY <1>3, Zenon DEF ProcessTimer, TypeOK, Flags
  <2>2. Shape'
    BY <1>3, SMT DEF ProcessTimer, StartProcessing, TypeOK, Shape
  <2> QED BY <2>1, <2>2 DEF TypeOK, Flags, Shape
<1>4. ASSUME Blur PROVE TypeOK'
  <2>1. Flags'
    BY <1>4, Zenon DEF Blur, TypeOK, Flags
  <2>2. Shape'
    <3>1. /\ put' \in [Docs -> {"none", "sent", "committed", "abandoned", "closed"}]
          /\ saveStatus' \in {"idle", "saving", "saved", "error"}
      <4>1. CASE saveT
        BY <1>4, <4>1, SMT DEF Blur, PerformAutosave, TypeOK
      <4>2. CASE ~saveT
        BY <1>4, <4>2 DEF Blur, TypeOK
      <4> QED BY <4>1, <4>2
    <3>2. post' \in [Docs -> {"none", "sent", "closed"}]
      <4>1. CASE procT
        BY <1>4, <4>1, SMT DEF Blur, StartProcessing, TypeOK
      <4>2. CASE ~procT
        BY <1>4, <4>2 DEF Blur, TypeOK
      <4> QED BY <4>1, <4>2
    <3> QED BY <1>4, <3>1, <3>2, SMT DEF Blur, TypeOK, Shape
  <2> QED BY <2>1, <2>2 DEF TypeOK, Flags, Shape
<1>5. ASSUME Rerender PROVE TypeOK'
  <2>1. Flags'
    BY <1>5, Zenon DEF Rerender, TypeOK, Flags
  <2>2. Shape'
    BY <1>5, SMT DEF Rerender, TypeOK, Shape
  <2> QED BY <2>1, <2>2 DEF TypeOK, Flags, Shape
<1>6. ASSUME Unmount PROVE TypeOK'
  <2>1. Flags'
    BY <1>6, Zenon DEF Unmount, TypeOK, Flags
  <2>2. Shape'
    BY <1>6, SMT DEF Unmount, StopPoller, TypeOK, Shape
  <2> QED BY <2>1, <2>2 DEF TypeOK, Flags, Shape
<1>7. ASSUME NEW d \in Docs, Commit(d) PROVE TypeOK'
  BY <1>7, SMT DEF Commit, TypeOK
<1>8. ASSUME NEW d \in Docs, SaveAnswered(d) PROVE TypeOK'
  BY <1>8, SMT DEF SaveAnswered, TypeOK
<1>9. ASSUME NEW d \in Docs, SaveRefused(d) PROVE TypeOK'
  BY <1>9, SMT DEF SaveRefused, TypeOK
<1>10. ASSUME NEW d \in Docs, SaveTimeout(d) PROVE TypeOK'
  BY <1>10, SMT DEF SaveTimeout, TypeOK
<1>11. ASSUME NEW d \in Docs, Queued(d) PROVE TypeOK'
  BY <1>11, SMT DEF Queued, TypeOK
<1>12. ASSUME NEW d \in Docs, QueueFailed(d) PROVE TypeOK'
  BY <1>12, SMT DEF QueueFailed, TypeOK
<1>13. ASSUME NEW d \in Docs, Settle(d) PROVE TypeOK'
  BY <1>13, SMT DEF Settle, TypeOK
<1>14. ASSUME NEW d \in Docs, Polled(d) PROVE TypeOK'
  BY <1>14, SMT DEF Polled, TypeOK
<1>15. ASSUME NEW d \in Docs, PollFailed(d) PROVE TypeOK'
  BY <1>15, SMT DEF PollFailed, TypeOK
<1>16. ASSUME NEW d \in Docs, PollTimer(d) PROVE TypeOK'
  BY <1>16, SMT DEF PollTimer, TypeOK
<1>17. CASE UNCHANGED vars
  BY <1>17 DEF vars, TypeOK
<1> QED BY <1>1, <1>2, <1>3, <1>4, <1>5, <1>6, <1>7, <1>8, <1>9, <1>10,
           <1>11, <1>12, <1>13, <1>14, <1>15, <1>16, <1>17 DEF Next, User,
           Timers, Put, Post, Poll

\* ... keeps fresh snapshots fresh ...
LEMMA NextFresh == TypeOK /\ Fresh /\ [Next]_vars => Fresh'
<1> SUFFICES ASSUME TypeOK, Fresh, [Next]_vars PROVE Fresh'
  OBVIOUS
<1> USE EditorAssumption DEF Docs
<1>1. ASSUME NEW m \in Docs, Edit(m) PROVE Fresh'
  BY <1>1, SMT DEF Edit, After, TypeOK, Fresh
<1>2. ASSUME AutosaveTimer PROVE Fresh'
  BY <1>2, SMT DEF AutosaveTimer, PerformAutosave, TypeOK, Fresh
<1>3. ASSUME ProcessTimer PROVE Fresh'
  BY <1>3, SMT DEF ProcessTimer, StartProcessing, TypeOK, Fresh
<1>4. ASSUME Blur PROVE Fresh'
  BY <1>4, SMT DEF Blur, PerformAutosave, StartProcessing, TypeOK, Fresh
<1>5. ASSUME Rerender PROVE Fresh'
  BY <1>5, SMT DEF Rerender, TypeOK, Fresh
<1>6. ASSUME Unmount PROVE Fresh'
  BY <1>6, SMT DEF Unmount, StopPoller, TypeOK, Fresh
<1>7. ASSUME NEW d \in Docs, Commit(d) PROVE Fresh'
  BY <1>7, SMT DEF Commit, TypeOK, Fresh
<1>8. ASSUME NEW d \in Docs, SaveAnswered(d) PROVE Fresh'
  BY <1>8, SMT DEF SaveAnswered, TypeOK, Fresh
<1>9. ASSUME NEW d \in Docs, SaveRefused(d) PROVE Fresh'
  BY <1>9, SMT DEF SaveRefused, TypeOK, Fresh
<1>10. ASSUME NEW d \in Docs, SaveTimeout(d) PROVE Fresh'
  BY <1>10, SMT DEF SaveTimeout, TypeOK, Fresh
<1>11. ASSUME NEW d \in Docs, Queued(d) PROVE Fresh'
  BY <1>11, SMT DEF Queued, TypeOK, Fresh
<1>12. ASSUME NEW d \in Docs, QueueFailed(d) PROVE Fresh'
  BY <1>12, SMT DEF QueueFailed, TypeOK, Fresh
<1>13. ASSUME NEW d \in Docs, Settle(d) PROVE Fresh'
  BY <1>13, SMT DEF Settle, TypeOK, Fresh
<1>14. ASSUME NEW d \in Docs, Polled(d) PROVE Fresh'
  BY <1>14, SMT DEF Polled, TypeOK, Fresh
<1>15. ASSUME NEW d \in Docs, PollFailed(d) PROVE Fresh'
  BY <1>15, SMT DEF PollFailed, TypeOK, Fresh
<1>16. ASSUME NEW d \in Docs, PollTimer(d) PROVE Fresh'
  BY <1>16, SMT DEF PollTimer, TypeOK, Fresh
<1>17. CASE UNCHANGED vars
  BY <1>17 DEF vars, TypeOK, Fresh
<1> QED BY <1>1, <1>2, <1>3, <1>4, <1>5, <1>6, <1>7, <1>8, <1>9, <1>10,
           <1>11, <1>12, <1>13, <1>14, <1>15, <1>16, <1>17 DEF Next, User,
           Timers, Put, Post, Poll

\* ... never makes the editor believe what is not so ...
LEMMA NextBelieves ==
  TypeOK /\ Fresh /\ BelievesStored /\ [Next]_vars => BelievesStored'
<1> SUFFICES ASSUME TypeOK, Fresh, BelievesStored, [Next]_vars PROVE BelievesStored'
  OBVIOUS
<1> USE EditorAssumption DEF Docs
<1>1. ASSUME NEW m \in Docs, Edit(m) PROVE BelievesStored'
  BY <1>1, SMT DEF Edit, After, TypeOK, Fresh, BelievesStored
<1>2. ASSUME AutosaveTimer PROVE BelievesStored'
  BY <1>2, SMT DEF AutosaveTimer, PerformAutosave, TypeOK, Fresh, BelievesStored
<1>3. ASSUME ProcessTimer PROVE BelievesStored'
  BY <1>3, SMT DEF ProcessTimer, StartProcessing, TypeOK, Fresh, BelievesStored
<1>4. ASSUME Blur PROVE BelievesStored'
  BY <1>4, SMT DEF Blur, PerformAutosave, StartProcessing, TypeOK, Fresh, BelievesStored
<1>5. ASSUME Rerender PROVE BelievesStored'
  BY <1>5, SMT DEF Rerender, TypeOK, Fresh, BelievesStored
<1>6. ASSUME Unmount PROVE BelievesStored'
  BY <1>6, SMT DEF Unmount, StopPoller, TypeOK, Fresh, BelievesStored
<1>7. ASSUME NEW d \in Docs, Commit(d) PROVE BelievesStored'
  BY <1>7, SMT DEF Commit, TypeOK, Fresh, BelievesStored
<1>8. ASSUME NEW d \in Docs, SaveAnswered(d) PROVE BelievesStored'
  BY <1>8, SMT DEF SaveAnswered, TypeOK, Fresh, BelievesStored
<1>9. ASSUME NEW d \in Docs, SaveRefused(d) PROVE BelievesStored'
  BY <1>9, SMT DEF SaveRefused, TypeOK, Fresh, BelievesStored
<1>10. ASSUME NEW d \in Docs, SaveTimeout(d) PROVE BelievesStored'
  BY <1>10, SMT DEF SaveTimeout, TypeOK, Fresh, BelievesStored
<1>11. ASSUME NEW d \in Docs, Queued(d) PROVE BelievesStored'
  BY <1>11, SMT DEF Queued, TypeOK, Fresh, BelievesStored
<1>12. ASSUME NEW d \in Docs, QueueFailed(d) PROVE BelievesStored'
  BY <1>12, SMT DEF QueueFailed, TypeOK, Fresh, BelievesStored
<1>13. ASSUME NEW d \in Docs, Settle(d) PROVE BelievesStored'
  BY <1>13, SMT DEF Settle, TypeOK, Fresh, BelievesStored
<1>14. ASSUME NEW d \in Docs, Polled(d) PROVE BelievesStored'
  BY <1>14, SMT DEF Polled, TypeOK, Fresh, BelievesStored
<1>15. ASSUME NEW d \in Docs, PollFailed(d) PROVE BelievesStored'
  BY <1>15, SMT DEF PollFailed, TypeOK, Fresh, BelievesStored
<1>16. ASSUME NEW d \in Docs, PollTimer(d) PROVE BelievesStored'
  BY <1>16, SMT DEF PollTimer, TypeOK, Fresh, BelievesStored
<1>17. CASE UNCHANGED vars
  BY <1>17 DEF vars, TypeOK, Fresh, BelievesStored
<1> QED BY <1>1, <1>2, <1>3, <1>4, <1>5, <1>6, <1>7, <1>8, <1>9, <1>10,
           <1>11, <1>12, <1>13, <1>14, <1>15, <1>16, <1>17 DEF Next, User,
           Timers, Put, Post, Poll

\* ... and leaves no timer to send a snapshot again, nor a second poller.
LEMMA NextSends ==
  TypeOK /\ Fresh /\ NoDoubleSave /\ OneLoop /\ [Next]_vars
    => NoDoubleSave' /\ OneLoop'
<1> SUFFICES ASSUME TypeOK, Fresh, NoDoubleSave, OneLoop, [Next]_vars
             PROVE  (NoDoubleSave /\ OneLoop)'
  OBVIOUS
<1> USE EditorAssumption DEF Docs, Waiting
<1>1. ASSUME NEW m \in Docs, Edit(m) PROVE (NoDoubleSave /\ OneLoop)'
  BY <1>1, SMT DEF Edit, After, TypeOK, Fresh, NoDoubleSave, OneLoop
<1>2. ASSUME AutosaveTimer PROVE (NoDoubleSave /\ OneLoop)'
  BY <1>2, SMT DEF AutosaveTimer, PerformAutosave, TypeOK, Fresh, NoDoubleSave, OneLoop
<1>3. ASSUME ProcessTimer PROVE (NoDoubleSave /\ OneLoop)'
  BY <1>3, SMT DEF ProcessTimer, StartProcessing, TypeOK, Fresh, NoDoubleSave, OneLoop
<1>4. ASSUME Blur PROVE (NoDoubleSave /\ OneLoop)'
  BY <1>4, SMT DEF Blur, PerformAutosave, StartProcessing, TypeOK, Fresh, NoDoubleSave, OneLoop
<1>5. ASSUME Rerender PROVE (NoDoubleSave /\ OneLoop)'
  BY <1>5, SMT DEF Rerender, TypeOK, Fresh, NoDoubleSave, OneLoop
<1>6. ASSUME Unmount PROVE (NoDoubleSave /\ OneLoop)'
  BY <1>6, SMT DEF Unmount, StopPoller, TypeOK, Fresh, NoDoubleSave, OneLoop
<1>7. ASSUME NEW d \in Docs, Commit(d) PROVE (NoDoubleSave /\ OneLoop)'
  BY <1>7, SMT DEF Commit, TypeOK, Fresh, NoDoubleSave, OneLoop
<1>8. ASSUME NEW d \in Docs, SaveAnswered(d) PROVE (NoDoubleSave /\ OneLoop)'
  BY <1>8, SMT DEF SaveAnswered, TypeOK, Fresh, NoDoubleSave, OneLoop
<1>9. ASSUME NEW d \in Docs, SaveRefused(d) PROVE (NoDoubleSave /\ OneLoop)'
  BY <1>9, SMT DEF SaveRefused, TypeOK, Fresh, NoDoubleSave, OneLoop
<1>10. ASSUME NEW d \in Docs, SaveTimeout(d) PROVE (NoDoubleSave /\ OneLoop)'
  BY <1>10, SMT DEF SaveTimeout, TypeOK, Fresh, NoDoubleSave, OneLoop
<1>11. ASSUME NEW d \in Docs, Queued(d) PROVE (NoDoubleSave /\ OneLoop)'
  BY <1>11, SMT DEF Queued, TypeOK, Fresh, NoDoubleSave, OneLoop
<1>12. ASSUME NEW d \in Docs, QueueFailed(d) PROVE (NoDoubleSave /\ OneLoop)'
  BY <1>12, SMT DEF QueueFailed, TypeOK, Fresh, NoDoubleSave, OneLoop
<1>13. ASSUME NEW d \in Docs, Settle(d) PROVE (NoDoubleSave /\ OneLoop)'
  BY <1>13, SMT DEF Settle, TypeOK, Fresh, NoDoubleSave, OneLoop
<1>14. ASSUME NEW d \in Docs, Polled(d) PROVE (NoDoubleSave /\ OneLoop)'
  BY <1>14, SMT DEF Polled, TypeOK, Fresh, NoDoubleSave, OneLoop
<1>15. ASSUME NEW d \in Docs, PollFailed(d) PROVE (NoDoubleSave /\ OneLoop)'
  BY <1>15, SMT DEF PollFailed, TypeOK, Fresh, NoDoubleSave, OneLoop
<1>16. ASSUME NEW d \in Docs, PollTimer(d) PROVE (NoDoubleSave /\ OneLoop)'
  BY <1>16, SMT DEF PollTimer, TypeOK, Fresh, NoDoubleSave, OneLoop
<1>17. CASE UNCHANGED vars
  BY <1>17 DEF vars, TypeOK, Fresh, NoDoubleSave, OneLoop
<1> QED BY <1>1, <1>2, <1>3, <1>4, <1>5, <1>6, <1>7, <1>8, <1>9, <1>10,
           <1>11, <1>12, <1>13, <1>14, <1>15, <1>16, <1>17 DEF Next, User,
           Timers, Put, Post, Poll

-----------------------------------------------------------------------------
\* The inductive invariant.
THEOREM EditorInvariance == Spec => []EditorInv
<1>1. EditorInv /\ [Next]_vars => EditorInv'
  BY NextType, NextFresh, NextBelieves, NextSends DEF EditorInv
<1> QED BY InitEditor, <1>1, PTL DEF Spec

\* The editor's state keeps its shape.
THEOREM EditorTypeCorrect == Spec => []TypeOK
<1>1. EditorInv => TypeOK
  BY DEF EditorInv
<1> QED BY EditorInvariance, <1>1, PTL

\* A clean document was committed, whatever the order of the answers.
THEOREM CleanIsStored == Spec => []BelievesStored
<1>1. EditorInv => BelievesStored
  BY DEF EditorInv
<1> QED BY EditorInvariance, <1>1, PTL

\* No snapshot is sent by a timer and by a blur.
THEOREM SentOnce == Spec => []NoDoubleSave
<1>1. EditorInv => NoDoubleSave
  BY DEF EditorInv
<1> QED BY EditorInvariance, <1>1, PTL

\* One poller at most, on its own job.
THEOREM OnePoller == Spec => []OneLoop
<1>1. EditorInv => OneLoop
  BY DEF EditorInv
<1> QED BY EditorInvariance, <1>1, PTL

\* A closed note sends nothing.
THEOREM ClosedSendsNothing == Spec => ClosedIsQuiet
<1> DEFINE Quiet == ~open => \A d \in Docs :
                        /\ put[d] = "none" => put'[d] = "none"
                        /\ post[d] = "none" => post'[d] = "none"
<1>1. EditorInv /\ [Next]_vars => Quiet
  <2> SUFFICES ASSUME EditorInv, Next, ~open, NEW d \in Docs
               PROVE  /\ put[d] = "none" => put'[d] = "none"
                      /\ post[d] = "none" => post'[d] = "none"
    BY DEF vars
  <2>1. TypeOK /\ ~saveT /\ ~procT
    BY DEF EditorInv, Fresh
  <2> QED BY <2>1, SMT DEF TypeOK, Next, User, Timers, Put, Post, Poll, Edit,
            Blur, Rerender, Unmount, AutosaveTimer, ProcessTimer, Commit,
            SaveAnswered, SaveRefused, SaveTimeout, Queued, QueueFailed,
            Settle, Polled, PollFailed, PollTimer
<1>2. EditorInv /\ [Next]_vars => [Quiet]_vars
  BY <1>1
<1> QED BY EditorInvariance, <1>2, PTL DEF Spec, ClosedIsQuiet
=============================================================================
