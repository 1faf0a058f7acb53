------------------------- MODULE GraphViews_proofs --------------------------
(* Proofs about GraphViews under Reprocess: what the cached graphs, the    *)
(* insights and the compiled graphs show, for any number of notes,         *)
(* requests, workers, entries, hops and nodes.                             *)
EXTENDS Reprocess, Counting, SequenceTheorems, TLAPS

Fields == {"pc", "q", "version", "seen", "hops", "notes", "front", "found"}

\* A request that has read its seed.
Reading(r) == req[r].pc \in {"outgoing", "incoming", "read"}

\* The rows are edits that have arrived; requests know their query.
Tables ==
    /\ DOMAIN row = NoteIds /\ waiting \subseteq Edits
    /\ \A n \in NoteIds : row[n] # NoRow =>
          row[n] \in Edits \ waiting /\ row[n].note = n
    /\ DOMAIN req = Requests
    /\ \A r \in Requests : Looking(r) => DOMAIN req[r] = Fields /\ req[r].q \in Queries

\* A key of a local graph whose version is that of an edit.
Versioned(q, v) == q.kind = "local" /\ v # NoVersion

\* No save to come brings version v of the note back.
Passed(q, v) == \A e \in waiting : e.note = q.note => e.at # v

\* x is the seed in a graph with this key: if the note still has the version,
\* x is its row, and every request with the key has overlapped x.
Known(q, v, x) ==
    Versioned(q, v) =>
        /\ Passed(q, v)
        /\ row[q.note] # NoRow /\ row[q.note].at = v => x = row[q.note]
        /\ \A p \in Requests : Looking(p) /\ req[p].q = q /\ req[p].version = v =>
              x \in req[p].seen

Asking(r) ==
    Looking(r) => /\ row[req[r].q.note] \in req[r].seen
                  /\ Versioned(req[r].q, req[r].version) => Passed(req[r].q, req[r].version)

\* The seed of a local graph, as a request has read it.
Holding(r) ==
    Reading(r) /\ req[r].q.kind = "local" =>
        /\ req[r].q.note \in DOMAIN req[r].notes
        /\ Known(req[r].q, req[r].version, req[r].notes[req[r].q.note])

Entry(e) ==
    /\ e.key.q \in Queries
    /\ Known(e.key.q, e.key.version, e.view.notes[e.key.q.note])

CacheInv == \E S : cache \in Seq(S) /\ \A e \in S : Entry(e)

FreshInv ==
    /\ Tables /\ CacheInv /\ FreshSeed
    /\ \A r \in Requests : Asking(r) /\ Holding(r)

LEMMA InitFresh == Init => FreshInv
<1> SUFFICES ASSUME Init PROVE FreshInv
  OBVIOUS
<1>1. \A r \in Requests : req[r].pc = "idle"
  BY DEF Init, Idle
<1>2. Tables
  BY <1>1, GraphViewsAssumption DEF Init, Tables, Looking
<1>3. CacheInv
  <2>1. cache \in Seq({}) /\ \A e \in {} : Entry(e)
    BY DEF Init
  <2> QED BY <2>1 DEF CacheInv
<1> QED BY <1>1, <1>2, <1>3 DEF FreshInv, FreshSeed, Asking, Holding, Looking, Reading
-----------------------------------------------------------------------------
(*************************** one step of the rows **************************)

\* What a step may do to the rows: an edit arrives or a note goes.
RowsMove ==
    /\ waiting' \subseteq waiting
    /\ \A n \in NoteIds : row'[n] \in {row[n], NoRow} \cup {e \in waiting : e.note = n}

\* A request that goes on with its key has overlapped what changed.
Continues(p) ==
    /\ Looking(p)
    /\ req'[p].q = req[p].q /\ req'[p].version = req[p].version
    /\ req[p].seen \subseteq req'[p].seen
    /\ row'[req[p].q.note] \in {row[req[p].q.note]} \cup req'[p].seen

\* A request begins while the rows stay.
Begins(p) ==
    /\ UNCHANGED <<row, waiting>>
    /\ req'[p].pc = "asked" /\ req'[p].q \in Queries
    /\ req'[p].version = VersionNow(req'[p].q)
    /\ req'[p].seen = {row[req'[p].q.note]}

Moves == RowsMove /\ \A p \in Requests : Looking(p)' => Continues(p) \/ Begins(p)

LEMMA NowPassed ==
    ASSUME FreshInv, NEW q \in Queries, Versioned(q, VersionNow(q))
    PROVE  /\ Passed(q, VersionNow(q))
           /\ row[q.note] # NoRow /\ row[q.note].at = VersionNow(q)
<1>1. q.note \in NoteIds
  BY GraphViewsAssumption
<1>2. row[q.note] # NoRow /\ row[q.note].at = VersionNow(q)
  BY DEF Versioned, VersionNow, NoVersion
<1>3. row[q.note] \in Edits \ waiting /\ row[q.note].note = q.note /\ waiting \subseteq Edits
  BY <1>1, <1>2 DEF FreshInv, Tables
<1>4. ASSUME NEW e \in waiting, e.note = q.note, e.at = VersionNow(q) PROVE FALSE
  BY <1>2, <1>3, <1>4, GraphViewsAssumption
<1> QED BY <1>2, <1>4 DEF Passed

\* Known in the next state of arguments of this state.
KnownNext(q, v, x) ==
    Versioned(q, v) =>
        /\ \A e \in waiting' : e.note = q.note => e.at # v
        /\ row'[q.note] # NoRow /\ row'[q.note].at = v => x = row'[q.note]
        /\ \A p \in Requests : Looking(p)' /\ req'[p].q = q /\ req'[p].version = v =>
              x \in req'[p].seen

LEMMA KnownStays ==
    ASSUME FreshInv, Moves, NEW q \in Queries, NEW v, NEW x, Known(q, v, x)
    PROVE  KnownNext(q, v, x)
<1> SUFFICES ASSUME Versioned(q, v)
             PROVE  /\ \A e \in waiting' : e.note = q.note => e.at # v
                    /\ row'[q.note] # NoRow /\ row'[q.note].at = v => x = row'[q.note]
                    /\ \A p \in Requests : Looking(p)' /\ req'[p].q = q /\ req'[p].version = v =>
                          x \in req'[p].seen
  BY DEF KnownNext
<1>1. q.note \in NoteIds
  BY GraphViewsAssumption
<1>2. Passed(q, v) /\ (row[q.note] # NoRow /\ row[q.note].at = v => x = row[q.note])
  BY DEF Known
<1>3. \A e \in waiting' : e.note = q.note => e.at # v
  BY <1>2 DEF Passed, Moves, RowsMove
<1>4. row'[q.note] # NoRow /\ row'[q.note].at = v => x = row'[q.note]
  BY <1>1, <1>2 DEF Passed, Moves, RowsMove
<1>5. ASSUME NEW p \in Requests, Looking(p)', req'[p].q = q, req'[p].version = v
      PROVE  x \in req'[p].seen
  <2>1. CASE Continues(p)
    BY <1>5, <2>1 DEF Continues, Known
  <2>2. CASE Begins(p)
    BY <1>2, <1>5, <2>2, NowPassed DEF Begins
  <2> QED BY <1>5, <2>1, <2>2 DEF Moves
<1> QED BY <1>3, <1>4, <1>5

LEMMA AskingStays == ASSUME FreshInv, Moves, NEW p \in Requests PROVE Asking(p)'
<1> SUFFICES ASSUME Looking(p)'
             PROVE  /\ row'[req'[p].q.note] \in req'[p].seen
                    /\ Versioned(req'[p].q, req'[p].version) => Passed(req[p].q, req[p].version)'
  BY DEF Asking, Versioned, NoVersion, Passed
<1>1. CASE Continues(p)
  <2>1. row'[req'[p].q.note] \in req'[p].seen
    BY <1>1 DEF Continues, FreshInv, Asking
  <2>2. Versioned(req[p].q, req[p].version) => Passed(req[p].q, req[p].version)
    BY <1>1 DEF Continues, FreshInv, Asking
  <2> QED BY <2>1, <2>2, <1>1 DEF Continues, Passed, Moves, RowsMove
<1>2. CASE Begins(p)
  BY <1>2, NowPassed DEF Begins, Passed
<1> QED BY <1>1, <1>2 DEF Moves
-----------------------------------------------------------------------------
(************************* one step of the requests ************************)

\* A request that had read its seed still has it.
Keeps(p) ==
    /\ Reading(p)
    /\ req'[p].q = req[p].q /\ req'[p].version = req[p].version
    /\ \A n \in DOMAIN req[p].notes :
          n \in DOMAIN req'[p].notes /\ req'[p].notes[n] = req[p].notes[n]

\* A request reads its seed.
Starts(p) ==
    /\ Looking(p)
    /\ req'[p].q = req[p].q /\ req'[p].version = req[p].version
    /\ req[p].q.kind = "local" =>
          /\ req[p].q.note \in DOMAIN req'[p].notes
          /\ req'[p].notes[req[p].q.note] = row[req[p].q.note]

LEMMA QueryOf == ASSUME FreshInv, NEW p \in Requests, Looking(p)
                 PROVE  req[p].q \in Queries
BY DEF FreshInv, Tables

LEMMA ReadingLooks == ASSUME NEW p, Reading(p) PROVE Looking(p)
BY DEF Reading, Looking

LEMMA NowKnown ==
    ASSUME FreshInv, NEW p \in Requests, Looking(p)
    PROVE  Known(req[p].q, req[p].version, row[req[p].q.note])
BY DEF FreshInv, Asking, Known

LEMMA HoldingStays ==
    ASSUME FreshInv, Moves, NEW p \in Requests, Reading(p)' => Keeps(p) \/ Starts(p)
    PROVE  Holding(p)'
<1> DEFINE q == req'[p].q  v == req'[p].version  x == req'[p].notes[req'[p].q.note]
<1> SUFFICES ASSUME Reading(p)', q.kind = "local"
             PROVE  q.note \in DOMAIN req'[p].notes /\ KnownNext(q, v, x)
  BY DEF Holding, Known, KnownNext, Versioned, NoVersion, Passed
<1>1. CASE Keeps(p)
  <2>1. req[p].q \in Queries /\ Holding(p)
    BY <1>1, ReadingLooks, QueryOf DEF Keeps, FreshInv
  <2>2. /\ req[p].q.note \in DOMAIN req[p].notes
        /\ Known(req[p].q, req[p].version, req[p].notes[req[p].q.note])
    BY <1>1, <2>1 DEF Keeps, Holding
  <2>3. q \in Queries /\ Known(q, v, x) /\ q.note \in DOMAIN req'[p].notes
    BY <1>1, <2>1, <2>2 DEF Keeps
  <2> HIDE DEF q, v, x
  <2> QED BY <2>3, KnownStays
<1>2. CASE Starts(p)
  <2>1. q \in Queries /\ Known(q, v, x) /\ q.note \in DOMAIN req'[p].notes
    BY <1>2, QueryOf, NowKnown DEF Starts
  <2> HIDE DEF q, v, x
  <2> QED BY <2>1, KnownStays
<1> QED BY <1>1, <1>2

LEMMA EntryStays ==
    ASSUME FreshInv, Moves, NEW e, Entry(e) PROVE Entry(e)'
<1>1. KnownNext(e.key.q, e.key.version, e.view.notes[e.key.q.note]) /\ e.key.q \in Queries
  BY KnownStays DEF Entry
<1> QED BY <1>1 DEF Entry, Known, KnownNext, Versioned, NoVersion, Passed

\* What is answered was overlapped, or was answered before.
Overlapped(p) ==
    req'[p].pc = "shown" =>
        \/ req'[p] = req[p]
        \/ Versioned(req'[p].q, req'[p].version) =>
               req'[p].view.notes[req'[p].q.note] \in req'[p].seen

LEMMA StepFresh ==
    ASSUME FreshInv, Tables', Moves, CacheInv',
           \A p \in Requests : (Reading(p)' => Keeps(p) \/ Starts(p)) /\ Overlapped(p)
    PROVE  FreshInv'
<1>1. \A p \in Requests : Asking(p)' /\ Holding(p)'
  BY AskingStays, HoldingStays
<1>2. FreshSeed'
  BY DEF FreshInv, FreshSeed, Overlapped, Versioned
<1> QED BY <1>1, <1>2 DEF FreshInv

LEMMA SameCache == ASSUME FreshInv, Moves, UNCHANGED cache PROVE CacheInv'
<1>1. PICK S : cache \in Seq(S) /\ \A e \in S : Entry(e)
  BY DEF FreshInv, CacheInv
<1>2. \A e \in S : Entry(e)'
  BY <1>1, EntryStays
<1> QED BY <1>1, <1>2 DEF CacheInv
-----------------------------------------------------------------------------
(***************************** saves and deletes ***************************)

LEMMA SeenFresh ==
    ASSUME FreshInv, NEW n \in NoteIds, NEW now \in {NoRow} \cup {e \in waiting : e.note = n},
           row' = [row EXCEPT ![n] = now], waiting' \subseteq waiting \ {now},
           req' = Seen(n, now), UNCHANGED cache
    PROVE  FreshInv'
<1>1. DOMAIN row' = NoteIds /\ row'[n] = now /\ \A m \in NoteIds \ {n} : row'[m] = row[m]
  BY DEF FreshInv, Tables
<1>2. DOMAIN req' = Requests
  BY DEF Seen
<1>3. ASSUME NEW p \in Requests, ~Looking(p) PROVE req'[p] = req[p]
  BY <1>3 DEF Seen
<1>4. ASSUME NEW p \in Requests, Looking(p)
      PROVE  /\ DOMAIN req'[p] = Fields
             /\ req'[p].pc = req[p].pc /\ req'[p].q = req[p].q
             /\ req'[p].version = req[p].version /\ req'[p].notes = req[p].notes
             /\ req[p].seen \subseteq req'[p].seen
             /\ req[p].q.note = n => now \in req'[p].seen
  <2>1. DOMAIN req[p] = Fields
    BY <1>4 DEF FreshInv, Tables
  <2>2. CASE req[p].q.note = n
    <3>1. req'[p] = [req[p] EXCEPT !.seen = @ \cup {now}]
      BY <1>4, <2>2 DEF Seen
    <3> QED BY <2>1, <3>1 DEF Fields
  <2>3. CASE req[p].q.note # n
    <3>1. req'[p] = req[p]
      BY <2>3 DEF Seen
    <3> QED BY <2>1, <2>3, <3>1
  <2> QED BY <2>2, <2>3
<1>5. \A p \in Requests : Looking(p)' <=> Looking(p)
  BY <1>3, <1>4 DEF Looking
<1>6. Tables'
  <2>1. waiting' \subseteq Edits
    BY DEF FreshInv, Tables
  <2>2. ASSUME NEW m \in NoteIds, row'[m] # NoRow
        PROVE  row'[m] \in Edits \ waiting' /\ row'[m].note = m
    BY <1>1, <2>2 DEF FreshInv, Tables
  <2>3. \A p \in Requests : Looking(p)' => DOMAIN req'[p] = Fields /\ req'[p].q \in Queries
    BY <1>4, <1>5, QueryOf
  <2> QED BY <1>1, <1>2, <2>1, <2>2, <2>3 DEF Tables
<1>7. Moves
  <2>1. RowsMove
    BY <1>1 DEF RowsMove
  <2>2. ASSUME NEW p \in Requests, Looking(p)' PROVE Continues(p)
    <3>1. Looking(p) /\ req[p].q.note \in NoteIds
      BY <2>2, <1>5, QueryOf, GraphViewsAssumption
    <3> QED BY <3>1, <1>1, <1>4 DEF Continues
  <2> QED BY <2>1, <2>2 DEF Moves
<1>8. ASSUME NEW p \in Requests, Reading(p)' PROVE Keeps(p)
  <2>1. Looking(p)
    BY <1>5, <1>8 DEF Reading, Looking
  <2> QED BY <2>1, <1>4, <1>8 DEF Keeps, Reading
<1>9. ASSUME NEW p \in Requests PROVE Overlapped(p)
  <2>1. CASE Looking(p)
    BY <2>1, <1>4 DEF Overlapped, Looking
  <2> QED BY <2>1, <1>3 DEF Overlapped
<1> QED BY <1>6, <1>7, <1>8, <1>9, SameCache, StepFresh

LEMMA SaveFresh == ASSUME FreshInv, NEW e \in Edits, Save(e) PROVE FreshInv'
<1>1. e.note \in NoteIds
  BY GraphViewsAssumption
<1> QED BY <1>1, SeenFresh DEF Save

LEMMA DeleteFresh == ASSUME FreshInv, NEW n \in NoteIds, Delete(n) PROVE FreshInv'
<1>1. waiting \subseteq Edits /\ NoRow \notin Edits
  BY GraphViewsAssumption DEF FreshInv, Tables
<1> QED BY <1>1, SeenFresh DEF Delete
-----------------------------------------------------------------------------
(*************************** steps of one request **************************)

\* What the other requests do, and what the rows do.
LEMMA RequestFresh ==
    ASSUME FreshInv, NEW r \in Requests, NEW new, req' = [req EXCEPT ![r] = new],
           UNCHANGED <<row, waiting>>,
           Looking(r)' => /\ DOMAIN new = Fields /\ new.q \in Queries
                          /\ Continues(r) \/ Begins(r),
           Reading(r)' => Keeps(r) \/ Starts(r),
           Overlapped(r),
           Moves => CacheInv'
    PROVE  FreshInv'
<1>1. DOMAIN req' = Requests /\ req'[r] = new /\ \A p \in Requests \ {r} : req'[p] = req[p]
  BY DEF FreshInv, Tables
<1>2. \A p \in Requests \ {r} :
         /\ Looking(p)' <=> Looking(p)
         /\ Reading(p)' <=> Reading(p)
  BY <1>1 DEF Looking, Reading
<1>3. Tables'
  BY <1>1, <1>2 DEF FreshInv, Tables
<1>4. Moves
  <2>1. RowsMove
    BY DEF RowsMove
  <2>2. \A p \in Requests \ {r} : Looking(p)' => Continues(p)
    BY <1>1, <1>2 DEF Continues
  <2> QED BY <2>1, <2>2 DEF Moves
<1>5. \A p \in Requests : (Reading(p)' => Keeps(p) \/ Starts(p)) /\ Overlapped(p)
  BY <1>1, <1>2 DEF Keeps, Overlapped
<1> QED BY <1>3, <1>4, <1>5, StepFresh

\* The steps that end a request, or that are not about a graph.
LEMMA OtherFresh ==
    ASSUME FreshInv, NEW r \in Requests, NEW new, req' = [req EXCEPT ![r] = new],
           UNCHANGED <<row, waiting, cache>>,
           new.pc \in {"idle", "finding", "calling", "told"}
    PROVE  FreshInv'
<1>1. req'[r] = new
  BY DEF FreshInv, Tables
<1>2. ~Looking(r)' /\ ~Reading(r)' /\ Overlapped(r)
  BY <1>1 DEF Looking, Reading, Overlapped
<1> QED BY <1>2, RequestFresh, SameCache

NewAsked(q) ==
    [pc |-> "asked", q |-> q, version |-> VersionNow(q), hops |-> 0,
     notes |-> <<>>, front |-> {}, found |-> {}, seen |-> {row[q.note]}]

LEMMA AskFresh == ASSUME FreshInv, NEW r \in Requests, NEW q \in Queries, Ask(r, q) PROVE FreshInv'
<1> DEFINE new == NewAsked(q)
<1>1. req' = [req EXCEPT ![r] = new] /\ UNCHANGED <<row, waiting, cache>>
  BY DEF Ask, NewAsked
<1>2. new.pc = "asked" /\ new.q = q /\ new.version = VersionNow(q) /\ new.seen = {row[q.note]}
      /\ DOMAIN new = Fields
  BY DEF NewAsked, Fields
<1> HIDE DEF new
<1>3. req'[r] = new
  BY <1>1 DEF FreshInv, Tables
<1>4. Begins(r) /\ ~Reading(r)' /\ Overlapped(r)
  BY <1>1, <1>2, <1>3 DEF Begins, Reading, Overlapped
<1> QED BY <1>1, <1>2, <1>4, RequestFresh, SameCache

NewLooking(x, pc, hops, notes, front, found) ==
    [pc |-> pc, q |-> x.q, version |-> x.version, seen |-> x.seen,
     hops |-> hops, notes |-> notes, front |-> front, found |-> found]

\* A request that goes on reading notes.
LEMMA GoOnFresh ==
    ASSUME FreshInv, NEW r \in Requests, Looking(r),
           NEW pc \in {"outgoing", "incoming", "read"}, NEW hops, NEW notes, NEW front, NEW found,
           GoOn(r, pc, hops, notes, front, found), UNCHANGED <<row, waiting, cache>>,
           \/ req[r].q.kind = "local" =>
                 req[r].q.note \in DOMAIN notes /\ notes[req[r].q.note] = row[req[r].q.note]
           \/ Reading(r) /\ \A n \in DOMAIN req[r].notes :
                 n \in DOMAIN notes /\ notes[n] = req[r].notes[n]
    PROVE  FreshInv'
<1> DEFINE new == NewLooking(req[r], pc, hops, notes, front, found)
<1>1. req' = [req EXCEPT ![r] = new]
  BY DEF GoOn, NewLooking
<1>2. new.pc = pc /\ new.q = req[r].q /\ new.version = req[r].version
      /\ new.seen = req[r].seen /\ new.notes = notes /\ DOMAIN new = Fields
  BY DEF NewLooking, Fields
<1> HIDE DEF new
<1>3. req'[r] = new
  BY <1>1 DEF FreshInv, Tables
<1>4. Continues(r) /\ (Keeps(r) \/ Starts(r)) /\ Overlapped(r) /\ new.q \in Queries
  BY <1>2, <1>3, QueryOf DEF Continues, Keeps, Starts, Overlapped
<1> QED BY <1>1, <1>2, <1>4, RequestFresh, SameCache

LEMMA MissFresh == ASSUME FreshInv, NEW r \in Requests, Miss(r) PROVE FreshInv'
<1> DEFINE q == req[r].q
<1>1. Looking(r) /\ UNCHANGED <<row, waiting, cache>>
  BY DEF Miss, Looking
<1>2. CASE q.kind = "global"
  <2>1. GoOn(r, "read", 0, Listed(row, q), DOMAIN Listed(row, q), {})
    BY <1>2 DEF Miss
  <2> HIDE DEF q
  <2>2. q = req[r].q
    BY DEF q
  <2> DEFINE notes == Listed(row, q)
  <2> HIDE DEF notes
  <2>3. GoOn(r, "read", 0, notes, DOMAIN notes, {})
    BY <2>1 DEF notes
  <2>4. q.kind # "local"
    BY <1>2
  <2> QED BY <1>1, <2>2, <2>3, <2>4, GoOnFresh
<1>3. CASE q.kind # "global" /\ row[q.note] = NoRow
  <2>1. req' = [req EXCEPT ![r] = Idle] /\ Idle.pc = "idle"
    BY <1>3 DEF Miss, Idle
  <2> QED BY <1>1, <2>1, OtherFresh
<1>4. CASE q.kind # "global" /\ row[q.note] # NoRow
  <2> DEFINE notes == [n \in {q.note} |-> row[n]]
  <2>1. GoOn(r, "outgoing", 0, notes, DOMAIN notes, {})
    BY <1>4 DEF Miss
  <2>2. q.note \in DOMAIN notes /\ notes[q.note] = row[q.note]
    OBVIOUS
  <2> HIDE DEF notes
  <2> QED BY <1>1, <2>1, <2>2, GoOnFresh
<1> QED BY <1>2, <1>3, <1>4

LEMMA VisitKeeps ==
    ASSUME NEW rows, NEW notes, NEW ids
    PROVE  \A n \in DOMAIN notes :
              n \in DOMAIN Visit(rows, notes, ids) /\ Visit(rows, notes, ids)[n] = notes[n]
BY DEF Visit

LEMMA HopFresh ==
    ASSUME FreshInv, NEW r \in Requests, ReadOutgoing(r) \/ ReadIncoming(r) PROVE FreshInv'
<1>1. UNCHANGED <<row, waiting, cache>> /\ Looking(r) /\ Reading(r)
  BY DEF ReadOutgoing, ReadIncoming, Looking, Reading
<1>2. \E pc \in {"outgoing", "incoming", "read"} : \E hops, ids, front, found :
         GoOn(r, pc, hops, Visit(row, req[r].notes, ids), front, found)
  <2>1. CASE ReadOutgoing(r)
    BY <2>1 DEF ReadOutgoing
  <2>2. CASE ReadIncoming(r)
    <3> DEFINE ids == Incoming(row, req[r].notes, req[r].front)
               new == req[r].found \cup ids
               hops == req[r].hops + 1
               pc == IF new = {} \/ hops = req[r].q.hops THEN "read" ELSE "outgoing"
    <3>1. GoOn(r, pc, hops, Visit(row, req[r].notes, ids), new, {})
      BY <2>2 DEF ReadIncoming
    <3>2. pc \in {"outgoing", "incoming", "read"}
      OBVIOUS
    <3> HIDE DEF pc, hops, ids, new
    <3> QED BY <3>1, <3>2
  <2> QED BY <2>1, <2>2
<1>3. PICK pc \in {"outgoing", "incoming", "read"} : \E hops, ids, front, found :
         GoOn(r, pc, hops, Visit(row, req[r].notes, ids), front, found)
  BY <1>2
<1>4. PICK hops, ids, front, found :
         GoOn(r, pc, hops, Visit(row, req[r].notes, ids), front, found)
  BY <1>3
<1> DEFINE notes == Visit(row, req[r].notes, ids)
<1>5. \A n \in DOMAIN req[r].notes : n \in DOMAIN notes /\ notes[n] = req[r].notes[n]
  BY VisitKeeps
<1> HIDE DEF notes
<1>6. GoOn(r, pc, hops, notes, front, found)
  BY <1>4 DEF notes
<1> QED BY <1>1, <1>5, <1>6, GoOnFresh
-----------------------------------------------------------------------------
(******************************** the cache ********************************)

LEMMA RemoveAtSeq ==
    ASSUME NEW S, NEW s \in Seq(S), NEW i \in DOMAIN s PROVE RemoveAt(s, i) \in Seq(S)
<1>1. SubSeq(s, 1, i - 1) \in Seq(S) /\ SubSeq(s, i + 1, Len(s)) \in Seq(S)
  BY SMT
<1> QED BY <1>1, SMT DEF RemoveAt

LEMMA SetCachedSeq ==
    ASSUME NEW S, cache \in Seq(S), NEW key, NEW view
    PROVE  SetCached(key, view) \in Seq(S \cup {[key |-> key, view |-> view]})
<1> DEFINE e == [key |-> key, view |-> view]
<1> HIDE DEF e
<1>1. Others(key) \in Seq(S)
  <2>1. CASE Places(key) = {}
    BY <2>1 DEF Others
  <2>2. CASE Places(key) # {}
    <3> DEFINE i == CHOOSE k \in Places(key) : TRUE
    <3>1. i \in DOMAIN cache
      BY <2>2 DEF Places
    <3> HIDE DEF i
    <3>2. Others(key) = RemoveAt(cache, i)
      BY <2>2 DEF Others, i
    <3> QED BY <3>1, <3>2, RemoveAtSeq
  <2> QED BY <2>1, <2>2
<1> DEFINE filled == Append(Others(key), e)
<1>2. filled \in Seq(S \cup {e}) /\ Len(filled) > 0
  BY <1>1
<1>3. SetCached(key, view) = IF Len(filled) > CacheMax THEN Tail(filled) ELSE filled
  BY DEF SetCached, e
<1> HIDE DEF filled
<1>4. Tail(filled) \in Seq(S \cup {e})
  BY <1>2
<1> QED BY <1>2, <1>3, <1>4 DEF e

NewShown(x, view) ==
    [pc |-> "shown", q |-> x.q, version |-> x.version, seen |-> x.seen, view |-> view]

\* A request is answered with a view of whose seed all is known.
LEMMA AnswerFresh ==
    ASSUME FreshInv, NEW r \in Requests, Looking(r), NEW view, Answer(r, view),
           UNCHANGED <<row, waiting>>,
           req[r].q.kind = "local" =>
               Known(req[r].q, req[r].version, view.notes[req[r].q.note]),
           Moves => CacheInv'
    PROVE  FreshInv'
<1> DEFINE new == NewShown(req[r], view)
<1>1. req' = [req EXCEPT ![r] = new]
  BY DEF Answer, NewShown
<1>2. new.pc = "shown" /\ new.q = req[r].q /\ new.version = req[r].version
      /\ new.seen = req[r].seen /\ new.view = view
  BY DEF NewShown
<1> HIDE DEF new
<1>3. req'[r] = new
  BY <1>1 DEF FreshInv, Tables
<1>4. Overlapped(r)
  BY <1>2, <1>3 DEF Overlapped, Versioned, Known
<1>5. ~Looking(r)' /\ ~Reading(r)'
  BY <1>2, <1>3 DEF Looking, Reading
<1> QED BY <1>1, <1>4, <1>5, RequestFresh

LEMMA HitFresh == ASSUME FreshInv, NEW r \in Requests, Hit(r) PROVE FreshInv'
<1>1. PICK i \in Places(KeyOf(r)) :
        /\ cache' = Append(RemoveAt(cache, i), cache[i])
        /\ Answer(r, cache[i].view)
  BY DEF Hit
<1>2. PICK S : cache \in Seq(S) /\ \A e \in S : Entry(e)
  BY DEF FreshInv, CacheInv
<1>3. i \in DOMAIN cache /\ cache[i] \in S /\ cache[i].key = KeyOf(r)
  BY <1>2 DEF Places
<1>4. Known(req[r].q, req[r].version, cache[i].view.notes[req[r].q.note])
  BY <1>2, <1>3 DEF Entry, KeyOf
<1>5. RemoveAt(cache, i) \in Seq(S)
  BY <1>2, <1>3, RemoveAtSeq
<1>6. cache' \in Seq(S)
  BY <1>1, <1>3, <1>5
<1>7. Moves => CacheInv'
  BY <1>2, <1>6, EntryStays DEF CacheInv
<1> DEFINE view == cache[i].view
<1> HIDE DEF view
<1>8. Answer(r, view) /\ Known(req[r].q, req[r].version, view.notes[req[r].q.note])
  BY <1>1, <1>4 DEF view
<1> QED BY <1>7, <1>8, AnswerFresh DEF Hit, Looking

LEMMA AnswerGraphFresh == ASSUME FreshInv, NEW r \in Requests, AnswerGraph(r) PROVE FreshInv'
<1> DEFINE view == Compile(req[r].notes, extracted, req[r].q)
           key == KeyOf(r)
           e == [key |-> key, view |-> view]
<1>1. view.notes = req[r].notes
  BY DEF Compile
<1>2. cache' = SetCached(key, view) /\ Answer(r, view) /\ UNCHANGED <<row, waiting>>
  BY DEF AnswerGraph
<1>3. Looking(r) /\ Reading(r) /\ req[r].q \in Queries
  BY QueryOf DEF AnswerGraph, Looking, Reading
<1> HIDE DEF view
<1>4. req[r].q.kind = "local" =>
          Known(req[r].q, req[r].version, view.notes[req[r].q.note])
  BY <1>1, <1>3 DEF FreshInv, Holding
<1>5. Entry(e)
  BY <1>3, <1>4 DEF Entry, KeyOf, Known, Versioned
<1>6. PICK S : cache \in Seq(S) /\ \A d \in S : Entry(d)
  BY DEF FreshInv, CacheInv
<1>7. cache' \in Seq(S \cup {e})
  BY <1>2, <1>6, SetCachedSeq
<1> HIDE DEF e
<1>8. Moves => CacheInv'
  <2>1. ASSUME Moves PROVE \A d \in S \cup {e} : Entry(d)'
    BY <1>5, <1>6, <2>1, EntryStays
  <2> QED BY <2>1, <1>7 DEF CacheInv
<1> QED BY <1>2, <1>3, <1>4, <1>8, AnswerFresh
-----------------------------------------------------------------------------
(****************************** all the steps ******************************)

\* Steps that touch no row, no entry and no graph request.
LEMMA FrameFresh == FreshInv /\ UNCHANGED <<row, waiting, cache, req>> => FreshInv'
<1> SUFFICES ASSUME FreshInv, UNCHANGED <<row, waiting, cache, req>> PROVE FreshInv'
  OBVIOUS
<1>1. \A p \in Requests : /\ Looking(p)' <=> Looking(p)
                          /\ Reading(p)' <=> Reading(p)
  BY DEF Looking, Reading
<1>2. Tables'
  BY <1>1 DEF FreshInv, Tables
<1>3. Moves
  BY <1>1 DEF Moves, RowsMove, Continues
<1>4. \A p \in Requests : (Reading(p)' => Keeps(p) \/ Starts(p)) /\ Overlapped(p)
  BY <1>1 DEF Keeps, Overlapped
<1> QED BY <1>2, <1>3, <1>4, SameCache, StepFresh

LEMMA InsightFresh ==
    ASSUME FreshInv, NEW r \in Requests,
           \/ \E l \in Labels : AskInsight(r, l)
           \/ LookupInsight(r) \/ Generated(r) \/ NotGenerated(r)
    PROVE  FreshInv'
<1>1. UNCHANGED <<row, waiting, cache>>
  BY DEF AskInsight, LookupInsight, Generated, NotGenerated
<1>2. ASSUME NEW notes, NEW text, AnswerInsight(r, notes, text) PROVE FreshInv'
  <2> DEFINE new == [pc |-> "told", label |-> req[r].label, refs |-> notes, text |-> text]
  <2>1. req' = [req EXCEPT ![r] = new] /\ new.pc = "told"
    BY <1>2 DEF AnswerInsight
  <2> HIDE DEF new
  <2> QED BY <1>1, <2>1, OtherFresh
<1>3. ASSUME NEW l, req' = [req EXCEPT ![r] = [pc |-> "finding", label |-> l]] PROVE FreshInv'
  BY <1>1, <1>3, OtherFresh
<1>4. ASSUME NEW l, NEW notes,
             req' = [req EXCEPT ![r] = [pc |-> "calling", label |-> l, notes |-> notes]]
      PROVE  FreshInv'
  BY <1>1, <1>4, OtherFresh
<1>5. CASE LookupInsight(r)
  <2> DEFINE l == req[r].label  notes == FindNotes(l)
  <2>1. \/ AnswerInsight(r, notes, NoRow)
        \/ AnswerInsight(r, notes, insight[l].text)
        \/ req' = [req EXCEPT ![r] = [pc |-> "calling", label |-> l, notes |-> notes]]
    BY <1>5 DEF LookupInsight
  <2> HIDE DEF l, notes
  <2> QED BY <2>1, <1>2, <1>4
<1>6. CASE \E l \in Labels : AskInsight(r, l)
  BY <1>3, <1>6 DEF AskInsight
<1>7. CASE Generated(r)
  BY <1>2, <1>7 DEF Generated
<1>8. CASE NotGenerated(r)
  BY <1>2, <1>8 DEF NotGenerated
<1> QED BY <1>5, <1>6, <1>7, <1>8

LEMMA BackfillFrame == BackfillNext => UNCHANGED <<row, waiting, cache, req>>
BY DEF BackfillNext, ReprocessAll, Running, BeginRaises, Crash, Begin, Restart, List, Publish,
       Work, Finish, Close, vars

LEMMA NextFresh == FreshInv /\ [Next]_allvars => FreshInv'
<1> SUFFICES ASSUME FreshInv, [Next]_allvars PROVE FreshInv'
  OBVIOUS
<1>1. CASE ViewsNext
  <2>1. CASE \E e \in Edits : Save(e)
    BY <2>1, SaveFresh
  <2>2. ASSUME NEW n \in NoteIds, Delete(n) \/ Process(n) PROVE FreshInv'
    BY <2>2, DeleteFresh, FrameFresh DEF Process
  <2>3. ASSUME NEW r \in Requests, Handling(r) PROVE FreshInv'
    BY <2>3, HitFresh, MissFresh, HopFresh, AnswerGraphFresh, InsightFresh DEF Handling
  <2>4. ASSUME NEW r \in Requests, \E q \in Queries : Ask(r, q) PROVE FreshInv'
    BY <2>4, AskFresh
  <2>5. ASSUME NEW r \in Requests, \E l \in Labels : AskInsight(r, l) PROVE FreshInv'
    BY <2>5, InsightFresh
  <2> QED BY <1>1, <2>1, <2>2, <2>3, <2>4, <2>5 DEF ViewsNext
<1>2. CASE BackfillNext
  BY <1>2, BackfillFrame, FrameFresh
<1>3. CASE UNCHANGED allvars
  BY <1>3, FrameFresh DEF allvars, vars
<1> QED BY <1>1, <1>2, <1>3 DEF Next

\* A local graph shows its seed as it was while the request was served, for
\* any size of the cache and whoever filled it: get_cached's key has the
\* version, read before the rows.
THEOREM Seeds == Spec => []FreshSeed
<1>1. ReprocessInit => FreshInv
  BY InitFresh DEF ReprocessInit
<1>2. FreshInv => FreshSeed
  BY DEF FreshInv
<1> QED BY <1>1, <1>2, NextFresh, PTL DEF Spec
-----------------------------------------------------------------------------
(******************************** insights *********************************)

\* A text is stored beside the digest it was written from.
InsightInv ==
    /\ DOMAIN req = Requests /\ DOMAIN insight = Labels
    /\ \A l \in Labels : insight[l] # NoRow => insight[l].digest = insight[l].text
    /\ \A r \in Requests : req[r].pc \in {"finding", "calling"} => req[r].label \in Labels
    /\ InsightOfItsNotes

\* A step of request r that keeps the table or writes what the LLM said.
LEMMA InsightStep ==
    ASSUME InsightInv, NEW r \in Requests, NEW new, req' = [req EXCEPT ![r] = new],
           new.pc \in {"finding", "calling"} => new.label \in Labels,
           new.pc = "told" /\ new.text # NoRow => new.text = Digest(new.refs),
           \/ UNCHANGED insight
           \/ \E l \in Labels : \E notes : insight' = [insight EXCEPT ![l] = Saved(l, notes)]
    PROVE  InsightInv'
<1>1. DOMAIN req' = Requests /\ req'[r] = new /\ \A p \in Requests \ {r} : req'[p] = req[p]
  BY DEF InsightInv
<1>2. /\ DOMAIN insight' = Labels
      /\ \A l \in Labels : insight'[l] # NoRow => insight'[l].digest = insight'[l].text
  BY DEF InsightInv, Saved
<1>3. InsightOfItsNotes'
  BY <1>1 DEF InsightInv, InsightOfItsNotes, Digest
<1> QED BY <1>1, <1>2, <1>3 DEF InsightInv

\* A step of the requests that ask for graphs.
LEMMA GraphStep ==
    ASSUME InsightInv, UNCHANGED insight, DOMAIN req' = Requests,
           \A p \in Requests : req'[p] = req[p]
                               \/ req'[p].pc \notin {"finding", "calling", "told"}
    PROVE  InsightInv'
BY DEF InsightInv, InsightOfItsNotes, Digest

LEMMA SeenStep ==
    ASSUME InsightInv, NEW n, NEW now, req' = Seen(n, now), UNCHANGED insight PROVE InsightInv'
<1>1. DOMAIN req' = Requests
  BY DEF Seen
<1>2. ASSUME NEW p \in Requests, req'[p] # req[p]
      PROVE  req'[p].pc \notin {"finding", "calling", "told"}
  <2>1. Looking(p) /\ req'[p] = [req[p] EXCEPT !.seen = @ \cup {now}]
    BY <1>2 DEF Seen
  <2> QED BY <2>1 DEF Looking
<1> QED BY <1>1, <1>2, GraphStep

LEMMA AnyGraphStep ==
    ASSUME InsightInv, NEW r \in Requests, NEW new, req' = [req EXCEPT ![r] = new],
           new.pc \notin {"finding", "calling", "told"}, UNCHANGED insight
    PROVE  InsightInv'
BY InsightStep

LEMMA TellStep ==
    ASSUME InsightInv, NEW r \in Requests, NEW notes, NEW text, AnswerInsight(r, notes, text),
           text # NoRow => text = Digest(notes),
           \/ UNCHANGED insight
           \/ \E l \in Labels : \E k : insight' = [insight EXCEPT ![l] = Saved(l, k)]
    PROVE  InsightInv'
<1> DEFINE new == [pc |-> "told", label |-> req[r].label, refs |-> notes, text |-> text]
<1>1. req' = [req EXCEPT ![r] = new] /\ new.pc = "told" /\ new.refs = notes /\ new.text = text
  BY DEF AnswerInsight
<1> HIDE DEF new
<1> QED BY <1>1, InsightStep

LEMMA LookupStep == ASSUME InsightInv, NEW r \in Requests, LookupInsight(r) PROVE InsightInv'
<1> DEFINE l == req[r].label  notes == FindNotes(l)
           new == [pc |-> "calling", label |-> l, notes |-> notes]
<1>1. l \in Labels
  BY DEF LookupInsight, InsightInv
<1>2. UNCHANGED insight
  BY DEF LookupInsight
<1>3. \/ AnswerInsight(r, notes, NoRow)
      \/ /\ insight[l] # NoRow /\ insight[l].digest = Digest(notes)
         /\ AnswerInsight(r, notes, insight[l].text)
      \/ req' = [req EXCEPT ![r] = new]
  BY DEF LookupInsight
<1>4. new.pc = "calling" /\ new.label = l
  OBVIOUS
<1> HIDE DEF new, notes
<1>5. CASE AnswerInsight(r, notes, NoRow)
  BY <1>2, <1>5, TellStep
<1>6. CASE /\ insight[l] # NoRow /\ insight[l].digest = Digest(notes)
           /\ AnswerInsight(r, notes, insight[l].text)
  <2>1. insight[l].text = Digest(notes)
    BY <1>1, <1>6 DEF InsightInv
  <2> QED BY <1>2, <1>6, <2>1, TellStep
<1>7. CASE req' = [req EXCEPT ![r] = new]
  BY <1>1, <1>2, <1>4, <1>7, InsightStep
<1> QED BY <1>3, <1>5, <1>6, <1>7

LEMMA GeneratedStep ==
    ASSUME InsightInv, NEW r \in Requests, Generated(r) \/ NotGenerated(r) PROVE InsightInv'
<1>1. CASE Generated(r)
  <2> DEFINE notes == req[r].notes  text == Digest(req[r].notes)
  <2>1. req[r].label \in Labels
    BY <1>1 DEF Generated, InsightInv
  <2>2. AnswerInsight(r, notes, text) /\ text = Digest(notes)
    BY <1>1 DEF Generated
  <2>3. \/ UNCHANGED insight
        \/ \E l \in Labels : \E k : insight' = [insight EXCEPT ![l] = Saved(l, k)]
    BY <1>1, <2>1 DEF Generated
  <2> HIDE DEF notes, text
  <2> QED BY <2>2, <2>3, TellStep
<1>2. CASE NotGenerated(r)
  BY <1>2, TellStep DEF NotGenerated
<1> QED BY <1>1, <1>2

LEMMA RequestStep == ASSUME InsightInv, NEW r \in Requests, Handling(r) PROVE InsightInv'
<1>1. ASSUME NEW view, Answer(r, view), UNCHANGED insight PROVE InsightInv'
  <2> DEFINE new == NewShown(req[r], view)
  <2>1. req' = [req EXCEPT ![r] = new] /\ new.pc = "shown"
    BY <1>1 DEF Answer, NewShown
  <2> HIDE DEF new
  <2> QED BY <1>1, <2>1, AnyGraphStep
<1>2. ASSUME NEW pc \in {"outgoing", "incoming", "read"}, NEW hops, NEW notes, NEW front,
             NEW found, GoOn(r, pc, hops, notes, front, found), UNCHANGED insight
      PROVE  InsightInv'
  <2> DEFINE new == NewLooking(req[r], pc, hops, notes, front, found)
  <2>1. req' = [req EXCEPT ![r] = new] /\ new.pc = pc
    BY <1>2 DEF GoOn, NewLooking
  <2> HIDE DEF new
  <2> QED BY <1>2, <2>1, AnyGraphStep
<1>3. CASE Hit(r)
  BY <1>1, <1>3 DEF Hit
<1>4. CASE AnswerGraph(r)
  BY <1>1, <1>4 DEF AnswerGraph
<1>5. CASE Miss(r)
  <2>1. CASE req' = [req EXCEPT ![r] = Idle]
    <3>1. Idle.pc = "idle" /\ UNCHANGED insight
      BY <1>5 DEF Idle, Miss
    <3> QED BY <2>1, <3>1, AnyGraphStep
  <2>2. \/ req' = [req EXCEPT ![r] = Idle]
        \/ \E pc \in {"outgoing", "incoming", "read"} : \E hops, notes, front, found :
              GoOn(r, pc, hops, notes, front, found)
    BY <1>5 DEF Miss
  <2> QED BY <1>2, <1>5, <2>1, <2>2 DEF Miss
<1>6. CASE ReadOutgoing(r)
  BY <1>2, <1>6 DEF ReadOutgoing
<1>7. CASE ReadIncoming(r)
  <2> DEFINE ids == Incoming(row, req[r].notes, req[r].front)
             new == req[r].found \cup ids
             hops == req[r].hops + 1
             pc == IF new = {} \/ hops = req[r].q.hops THEN "read" ELSE "outgoing"
             notes == Visit(row, req[r].notes, ids)
  <2>1. GoOn(r, pc, hops, notes, new, {}) /\ UNCHANGED insight
    BY <1>7 DEF ReadIncoming
  <2>2. pc \in {"outgoing", "incoming", "read"}
    OBVIOUS
  <2> HIDE DEF pc, hops, ids, new, notes
  <2> QED BY <1>2, <2>1, <2>2
<1> QED BY <1>3, <1>4, <1>5, <1>6, <1>7, LookupStep, GeneratedStep DEF Handling

LEMMA SameRequests ==
    ASSUME InsightInv, UNCHANGED req, insight' \in {insight, [l \in Labels |-> NoRow]}
    PROVE  InsightInv'
BY DEF InsightInv, InsightOfItsNotes, Digest

LEMMA NextInsight == InsightInv /\ [Next]_allvars => InsightInv'
<1> SUFFICES ASSUME InsightInv, [Next]_allvars PROVE InsightInv'
  OBVIOUS
<1>1. CASE ViewsNext
  <2>1. CASE \E e \in Edits : Save(e)
    BY <2>1, SeenStep DEF Save
  <2>2. ASSUME NEW n \in NoteIds, Delete(n) \/ Process(n) PROVE InsightInv'
    BY <2>2, SeenStep, SameRequests DEF Delete, Process
  <2>3. ASSUME NEW r \in Requests, NEW q \in Queries, Ask(r, q) PROVE InsightInv'
    <3> DEFINE new == NewAsked(q)
    <3>1. req' = [req EXCEPT ![r] = new] /\ new.pc = "asked" /\ UNCHANGED insight
      BY <2>3 DEF Ask, NewAsked
    <3> HIDE DEF new
    <3> QED BY <3>1, AnyGraphStep
  <2>4. ASSUME NEW r \in Requests, NEW l \in Labels, AskInsight(r, l) PROVE InsightInv'
    <3> DEFINE new == [pc |-> "finding", label |-> l]
    <3>1. req' = [req EXCEPT ![r] = new] /\ UNCHANGED insight
      BY <2>4 DEF AskInsight
    <3>2. new.pc = "finding" /\ new.label \in Labels
      OBVIOUS
    <3> HIDE DEF new
    <3> QED BY <3>1, <3>2, InsightStep
  <2> QED BY <1>1, <2>1, <2>2, <2>3, <2>4, RequestStep DEF ViewsNext
<1>2. CASE BackfillNext
  <2>1. insight' \in {insight, [l \in Labels |-> NoRow]} /\ UNCHANGED req
    BY <1>2 DEF BackfillNext, ReprocessAll, Running, BeginRaises, Crash, Begin, Restart, List,
                Publish, Work, Finish, Close, vars
  <2> QED BY <2>1, SameRequests
<1>3. CASE UNCHANGED allvars
  BY <1>3, SameRequests DEF allvars, vars
<1> QED BY <1>1, <1>2, <1>3 DEF Next

LEMMA InitInsight == Init => InsightInv
BY DEF Init, InsightInv, InsightOfItsNotes, Idle

\* What an insight says was written from the notes it is answered with: the
\* digest guards the cached text, however many requests share its row.
THEOREM Insights == Spec => []InsightOfItsNotes
<1>1. ReprocessInit => InsightInv
  BY InitInsight DEF ReprocessInit
<1>2. InsightInv => InsightOfItsNotes
  BY DEF InsightInv
<1> QED BY <1>1, <1>2, NextInsight, PTL DEF Spec
-----------------------------------------------------------------------------
(**************************** the hops of a graph **************************)

\* What one hop after the other has found around a seed.
Start(rows, seed) == [notes |-> [n \in {seed} |-> rows[n]], front |-> {seed}]
Hops(rows, seed, m, f) ==
    f = [k \in 0 .. m |-> IF k = 0 THEN Start(rows, seed) ELSE Hop(rows, f[k - 1])]

\* Notes as they are in rows, the seed among them.
Collected(rows, seed, notes) ==
    /\ seed \in DOMAIN notes
    /\ DOMAIN notes \subseteq Live(rows)
    /\ \A n \in DOMAIN notes : notes[n] = rows[n]

\* The backlinks of n in its title's own spelling.
Tidy(rows, n) ==
    {m \in Backlinks(rows, n) : \E l \in rows[m].links : l.tidy /\ l.to = rows[n].title}

\* However many hops are asked for, the recursion has a solution.
LEMMA HopsExist ==
    ASSUME NEW rows, NEW seed, NEW n \in Nat PROVE \E f : Hops(rows, seed, n, f)
<1> DEFINE T == {m \in 0 .. n : ~ \E f : Hops(rows, seed, m, f)}
<1>1. CASE T = {}
  BY <1>1
<1>2. CASE T # {}
  <2>1. PICK m \in T : \A k \in T : m <= k
    <3>1. T \in SUBSET Nat
      OBVIOUS
    <3> HIDE DEF T
    <3> QED BY <1>2, <3>1, LeastNumber
  <2>2. CASE m = 0
    <3>1. Hops(rows, seed, 0, [k \in 0 .. 0 |-> Start(rows, seed)])
      BY DEF Hops
    <3> QED BY <3>1, <2>1, <2>2
  <2>3. CASE m # 0
    <3>1. m - 1 \in 0 .. n /\ m - 1 \notin T
      BY <2>1, <2>3
    <3>2. PICK h : Hops(rows, seed, m - 1, h)
      BY <3>1
    <3> DEFINE f == [k \in 0 .. m |-> IF k = 0 THEN Start(rows, seed) ELSE Hop(rows, h[k - 1])]
    <3>3. ASSUME NEW k \in 0 .. m - 1 PROVE f[k] = h[k]
      <4>1. k \in 0 .. m
        BY <2>1
      <4> QED BY <3>2, <4>1, Zenon DEF Hops
    <3>4. \A k \in 0 .. m : k # 0 => f[k - 1] = h[k - 1]
      <4>1. \A k \in 0 .. m : k # 0 => k - 1 \in 0 .. m - 1
        BY <2>1
      <4> QED BY <3>3, <4>1, Zenon
    <3>5. Hops(rows, seed, m, f)
      <4>1. \A k \in 0 .. m : f[k] = IF k = 0 THEN Start(rows, seed) ELSE Hop(rows, f[k - 1])
        BY <3>4, Zenon
      <4>2. f = [k \in 0 .. m |-> f[k]]
        BY Zenon
      <4> HIDE DEF f
      <4>3. f = [k \in 0 .. m |-> IF k = 0 THEN Start(rows, seed) ELSE Hop(rows, f[k - 1])]
        BY <4>1, <4>2
      <4> QED BY <4>3, Zenon DEF Hops
    <3> QED BY <3>5, <2>1
  <2> QED BY <2>2, <2>3
<1> QED BY <1>1, <1>2

\* A visit adds rows as they are.
LEMMA VisitCollects ==
    ASSUME NEW rows, NEW seed, NEW notes, Collected(rows, seed, notes),
           NEW ids \in SUBSET Live(rows)
    PROVE  /\ Collected(rows, seed, Visit(rows, notes, ids))
           /\ DOMAIN Visit(rows, notes, ids) = DOMAIN notes \cup ids
BY DEF Collected, Visit

\* So does a hop, and it loses none.
LEMMA HopCollects ==
    ASSUME NEW rows, NEW seed, NEW v, Collected(rows, seed, v.notes)
    PROVE  /\ Collected(rows, seed, Hop(rows, v).notes)
           /\ DOMAIN v.notes \subseteq DOMAIN Hop(rows, v).notes
<1> DEFINE from == Outgoing(rows, v.notes, v.front)
           out == Visit(rows, v.notes, from)
           into == Incoming(rows, out, v.front)
           notes == v.notes
<1>1. from \in SUBSET Live(rows) /\ into \in SUBSET Live(rows)
  BY DEF Outgoing, Incoming
<1>2. Hop(rows, v).notes = Visit(rows, out, into)
  BY DEF Hop
<1>3. out = Visit(rows, notes, from) /\ Collected(rows, seed, notes)
  OBVIOUS
<1> HIDE DEF from, out, into, notes
<1>4. Collected(rows, seed, out) /\ DOMAIN out = DOMAIN notes \cup from
  BY <1>1, <1>3, VisitCollects
<1>5. /\ Collected(rows, seed, Visit(rows, out, into))
      /\ DOMAIN Visit(rows, out, into) = DOMAIN out \cup into
  BY <1>1, <1>4, VisitCollects
<1> QED BY <1>2, <1>4, <1>5 DEF notes

\* The first hop meets every backlink in the title's own spelling.
LEMMA FirstHop ==
    ASSUME NEW rows, NEW seed \in Live(rows)
    PROVE  Tidy(rows, seed) \subseteq DOMAIN Hop(rows, Start(rows, seed)).notes
<1> DEFINE v == Start(rows, seed)
           out == Visit(rows, v.notes, Outgoing(rows, v.notes, v.front))
           into == Incoming(rows, out, v.front)
<1>1. v.notes = [n \in {seed} |-> rows[n]] /\ v.front = {seed}
  BY DEF Start
<1>2. Collected(rows, seed, v.notes)
  BY <1>1 DEF Collected
<1>3. Outgoing(rows, v.notes, v.front) \in SUBSET Live(rows)
  BY DEF Outgoing
<1> HIDE DEF v
<1>4. Collected(rows, seed, out)
  BY <1>2, <1>3, VisitCollects
<1> HIDE DEF out
<1>5. out[seed] = rows[seed]
  BY <1>4 DEF Collected
<1>6. ASSUME NEW m \in Tidy(rows, seed), m \notin DOMAIN out PROVE m \in into
  BY <1>1, <1>5, <1>6 DEF Tidy, Backlinks, Incoming
<1>7. DOMAIN Visit(rows, out, into) = DOMAIN out \cup into
  BY DEF Visit
<1>8. Hop(rows, v).notes = Visit(rows, out, into)
  BY DEF Hop, out, into
<1> QED BY <1>6, <1>7, <1>8 DEF v

\* A local graph's notes are rows as they are, with the seed and, from one hop
\* on, its tidy backlinks.
LEMMA ReachableIs ==
    ASSUME NEW rows, NEW seed \in Live(rows), NEW hops \in Nat \ {0}
    PROVE  /\ Collected(rows, seed, Reachable(rows, seed, hops))
           /\ Tidy(rows, seed) \subseteq DOMAIN Reachable(rows, seed, hops)
<1> DEFINE f == CHOOSE g : Hops(rows, seed, hops, g)
<1>1. Reachable(rows, seed, hops) = f[hops].notes
  BY DEF Reachable, Hops, Start
<1>2. Hops(rows, seed, hops, f)
  BY HopsExist, Zenon
<1> HIDE DEF f
<1>3. f[0] = Start(rows, seed)
  BY <1>2, SMT DEF Hops
<1>4. \A k \in 0 .. hops : k # 0 => f[k] = Hop(rows, f[k - 1])
  BY <1>2, SMT DEF Hops
<1> DEFINE Good(k) == /\ Collected(rows, seed, f[k].notes)
                      /\ k # 0 => Tidy(rows, seed) \subseteq DOMAIN f[k].notes
           T == {k \in 0 .. hops : ~Good(k)}
<1>5. CASE T # {}
  <2>1. PICK m \in T : \A k \in T : m <= k
    <3>1. T \in SUBSET Nat
      OBVIOUS
    <3> HIDE DEF T
    <3> QED BY <1>5, <3>1, LeastNumber
  <2>2. CASE m = 0
    <3>1. Start(rows, seed).notes = [n \in {seed} |-> rows[n]]
      BY DEF Start
    <3>2. Good(0)
      BY <1>3, <3>1 DEF Collected
    <3> QED BY <2>1, <2>2, <3>2
  <2>3. CASE m # 0
    <3>1. m - 1 \in 0 .. hops /\ ~(m <= m - 1)
      BY <2>1, <2>3
    <3>2. Good(m - 1)
      BY <2>1, <3>1
    <3>3. f[m] = Hop(rows, f[m - 1])
      BY <1>4, <2>1, <2>3
    <3>4. /\ Collected(rows, seed, f[m].notes)
          /\ DOMAIN f[m - 1].notes \subseteq DOMAIN f[m].notes
      BY <3>2, <3>3, HopCollects
    <3>5. Tidy(rows, seed) \subseteq DOMAIN f[m].notes
      <4>1. CASE m - 1 = 0
        BY <1>3, <3>3, <4>1, FirstHop
      <4>2. CASE m - 1 # 0
        BY <3>2, <3>4, <4>2
      <4> QED BY <4>1, <4>2
    <3> QED BY <2>1, <3>4, <3>5
  <2> QED BY <2>2, <2>3
<1>6. CASE T = {}
  <2>1. Good(hops)
    BY <1>6
  <2> QED BY <1>1, <2>1
<1> QED BY <1>5, <1>6
-----------------------------------------------------------------------------
(*************************** the nodes of a graph **************************)

NodeType == [type : {"note", "entity"}, id : Nat]

EarlierIn(nodes) == [x \in nodes |-> {y \in nodes : Before(y, x)}]
First(nodes, k) == {x \in nodes : Cardinality({y \in nodes : Before(y, x)}) < k}

LEMMA NodesOrdered ==
    ASSUME NEW nodes \in SUBSET NodeType PROVE Ordered(nodes, EarlierIn(nodes))
<1> DEFINE before == EarlierIn(nodes)
<1>1. \A x \in nodes : before[x] = {y \in nodes : Before(y, x)}
  BY DEF EarlierIn
<1>2. \A x \in nodes : x.type \in {"note", "entity"} /\ x.id \in Nat
  BY DEF NodeType
<1>3. \A x, y \in nodes : x.type = y.type /\ x.id = y.id => x = y
  BY DEF NodeType
<1>4. \A x \in nodes : ~Before(x, x)
  BY <1>2 DEF Before
<1>5. \A x, y, z \in nodes : Before(x, y) /\ Before(y, z) => Before(x, z)
  BY <1>2 DEF Before
<1>6. \A x, y \in nodes : x # y => Before(x, y) \/ Before(y, x)
  BY <1>2, <1>3 DEF Before
<1>7. before \in [nodes -> SUBSET nodes]
  BY DEF EarlierIn
<1> HIDE DEF before
<1> QED BY <1>1, <1>4, <1>5, <1>6, <1>7 DEF Ordered, before

LEMMA FirstSize ==
    ASSUME NEW nodes \in SUBSET NodeType, IsFiniteSet(nodes), NEW k \in Nat
    PROVE  /\ IsFiniteSet(First(nodes, k))
           /\ k <= Cardinality(nodes) => Cardinality(First(nodes, k)) = k
           /\ k > Cardinality(nodes) => First(nodes, k) = nodes
           /\ k = Cardinality(nodes) => First(nodes, k) = nodes
<1> DEFINE before == EarlierIn(nodes)
           c == Cardinality(nodes)
<1>1. Ordered(nodes, before) /\ DOMAIN before = nodes
  BY NodesOrdered DEF EarlierIn
<1>2. c \in Nat /\ Rank(before) \in Bijection(nodes, 0 .. c - 1)
  BY <1>1, RankBijection
<1>3. \A x \in nodes : /\ Rank(before)[x] = Cardinality({y \in nodes : Before(y, x)})
                       /\ Rank(before)[x] \in 0 .. c - 1
  BY <1>1, <1>2 DEF Rank, EarlierIn, Bijection, Injection
<1> HIDE DEF before
<1>4. First(nodes, k) = RankedIn(before, 0, k)
  BY <1>1, <1>2, <1>3 DEF RankedIn, First
<1>5. /\ IsFiniteSet(RankedIn(before, 0, k))
      /\ k <= c => Cardinality(RankedIn(before, 0, k)) = k - 0
  BY <1>1, WindowSize
<1>6. k >= c => First(nodes, k) = nodes
  BY <1>2, <1>3 DEF First
<1> QED BY <1>2, <1>4, <1>5, <1>6

\* Truncation keeps at most limit nodes, the root among them, and drops some
\* only if there are more.
LEMMA KeptIs ==
    ASSUME NEW nodes \in SUBSET NodeType, IsFiniteSet(nodes),
           NEW limit \in Nat \ {0}, NEW root
    PROVE  /\ Kept(nodes, limit, root) \subseteq nodes
           /\ Cardinality(Kept(nodes, limit, root)) <= limit
           /\ Cardinality(nodes) > limit <=> Kept(nodes, limit, root) # nodes
           /\ root \in nodes => root \in Kept(nodes, limit, root)
<1> DEFINE kept == Kept(nodes, limit, root)
           c == Cardinality(nodes)
<1>1. kept = IF root \in nodes \ First(nodes, limit)
             THEN {root} \cup First(nodes, limit - 1) ELSE First(nodes, limit)
  BY DEF Kept, First
<1>2. c \in Nat /\ limit \in Nat /\ limit - 1 \in Nat
  BY FS_CardinalityType
<1>3. First(nodes, limit) \subseteq nodes /\ First(nodes, limit - 1) \subseteq nodes
  BY DEF First
<1> HIDE DEF kept, c
<1>4. CASE limit < c
  <2>1. /\ IsFiniteSet(First(nodes, limit)) /\ Cardinality(First(nodes, limit)) = limit
        /\ IsFiniteSet(First(nodes, limit - 1)) /\ Cardinality(First(nodes, limit - 1)) = limit - 1
    BY <1>2, <1>4, FirstSize DEF c
  <2>2. Cardinality({root} \cup First(nodes, limit - 1)) <= limit
    <3>1. /\ First(nodes, limit - 1) \cup {root} = {root} \cup First(nodes, limit - 1)
          /\ Cardinality(First(nodes, limit - 1) \cup {root}) =
               IF root \in First(nodes, limit - 1) THEN limit - 1 ELSE (limit - 1) + 1
      BY <2>1, FS_AddElement
    <3> QED BY <1>2, <3>1
  <2>3. Cardinality(kept) <= limit
    BY <1>1, <1>2, <2>1, <2>2
  <2>4. kept # nodes
    BY <1>2, <1>4, <2>3 DEF c
  <2>5. kept \subseteq nodes /\ (root \in nodes => root \in kept)
    BY <1>1, <1>3
  <2> QED BY <1>2, <1>4, <2>3, <2>4, <2>5 DEF kept, c
<1>5. CASE limit >= c
  <2>1. First(nodes, limit) = nodes
    BY <1>2, <1>5, FirstSize DEF c
  <2>2. kept = nodes
    BY <1>1, <2>1
  <2> QED BY <1>2, <1>5, <2>2 DEF kept, c
<1> QED BY <1>2, <1>4, <1>5

\* The graph holds edits, of which there are finitely many mentions each.
Edited(graph) == \A n \in NoteIds : graph[n] \in Edits \cup {NoRow}

Spoken(graph, n) == {m.concept : m \in graph[n].mentions}

LEMMA SpokenIs ==
    ASSUME NEW graph, NEW n, graph[n] \in Edits
    PROVE  IsFiniteSet(Spoken(graph, n)) /\ Spoken(graph, n) \subseteq Concepts
<1> DEFINE S == graph[n].mentions
           f == [m \in S |-> m.concept]
<1>1. IsFiniteSet(S) /\ \A m \in S : m.concept \in Concepts
  BY GraphViewsAssumption
<1>2. f \in Surjection(S, Spoken(graph, n))
  BY DEF Surjection, Spoken
<1>3. IsFiniteSet(Spoken(graph, n))
  <2> HIDE DEF f
  <2> QED BY <1>1, <1>2, FS_Surjection
<1> QED BY <1>1, <1>3 DEF Spoken

LEMMA ShownIs ==
    ASSUME NEW graph, Edited(graph), DOMAIN graph = NoteIds,
           NEW ids, IsFiniteSet(ids), NEW threshold
    PROVE  /\ IsFiniteSet(Shown(Mentions(graph, ids), threshold))
           /\ Shown(Mentions(graph, ids), threshold) \subseteq Concepts
<1> DEFINE some == ids \cap Live(graph)
           f == [n \in some |-> Spoken(graph, n)]
           all == {f[n] : n \in some}
<1>1. \A n \in some : graph[n] \in Edits
  BY DEF Live, Edited
<1>2. \A n \in some : IsFiniteSet(f[n]) /\ f[n] \subseteq Concepts
  BY <1>1, SpokenIs
<1>3. IsFiniteSet(some)
  BY FS_Subset
<1> HIDE DEF some
<1>4. IsFiniteSet(all)
  <2>1. f \in Surjection(some, all)
    BY DEF Surjection
  <2> HIDE DEF f, all
  <2> QED BY <1>3, <2>1, FS_Surjection
<1>5. IsFiniteSet(UNION all) /\ UNION all \subseteq Concepts
  <2>1. \A s \in all : IsFiniteSet(s) /\ s \subseteq Concepts
    BY <1>2
  <2> HIDE DEF all
  <2> QED BY <1>4, <2>1, FiniteUnion
<1>6. Shown(Mentions(graph, ids), threshold) \subseteq UNION all
  <2>1. \A m \in Mentions(graph, ids) : \E n \in some : m.concept \in Spoken(graph, n)
    BY DEF Mentions, Spoken, some
  <2> QED BY <2>1 DEF Shown
<1> HIDE DEF all
<1> QED BY <1>5, <1>6, FS_Subset

LEMMA NodesAre ==
    ASSUME NEW graph, Edited(graph), DOMAIN graph = NoteIds,
           NEW notes, IsFiniteSet(DOMAIN notes), DOMAIN notes \subseteq NoteIds, NEW q
    PROVE  AllNodes(notes, graph, q) \in SUBSET NodeType /\ IsFiniteSet(AllNodes(notes, graph, q))
<1> DEFINE ids == DOMAIN notes
           concepts == Shown(Mentions(graph, ids), q.salience)
           A == {Note(n) : n \in ids}
           B == {Entity(c) : c \in concepts}
           f == [n \in ids |-> Note(n)]
           g == [c \in concepts |-> Entity(c)]
<1>1. IsFiniteSet(concepts) /\ concepts \subseteq Nat /\ ids \subseteq Nat
  BY ShownIs, GraphViewsAssumption
<1>2. AllNodes(notes, graph, q) \subseteq A \cup B
  BY DEF AllNodes
<1> HIDE DEF ids, concepts
<1>3. IsFiniteSet(A) /\ A \subseteq NodeType
  <2>1. f \in Surjection(ids, A)
    BY DEF Surjection
  <2>2. A \subseteq NodeType
    BY <1>1 DEF Note, NodeType
  <2>3. IsFiniteSet(ids)
    BY DEF ids
  <2> HIDE DEF f, A
  <2> QED BY <2>1, <2>2, <2>3, FS_Surjection
<1>4. IsFiniteSet(B) /\ B \subseteq NodeType
  <2>1. g \in Surjection(concepts, B)
    BY DEF Surjection
  <2>2. B \subseteq NodeType
    BY <1>1 DEF Entity, NodeType
  <2> HIDE DEF g, B
  <2> QED BY <1>1, <2>1, <2>2, FS_Surjection
<1> HIDE DEF A, B
<1>5. IsFiniteSet(A \cup B)
  BY <1>3, <1>4, FS_Union
<1> QED BY <1>2, <1>3, <1>4, <1>5, FS_Subset

LEMMA ListedIs ==
    ASSUME NEW rows, NEW q
    PROVE  /\ DOMAIN Listed(rows, q) \subseteq Live(rows)
           /\ \A n \in DOMAIN Listed(rows, q) : Listed(rows, q)[n] = rows[n]
BY DEF Listed, Latest

\* What is compiled from rows as they are, whichever were found.
LEMMA CompiledSound ==
    ASSUME NEW rows, Edited(rows), DOMAIN rows = NoteIds, IsFiniteSet(Live(rows)),
           NEW graph, Edited(graph), DOMAIN graph = NoteIds,
           NEW q \in Queries \cup OtherQueries, NEW notes,
           DOMAIN notes \subseteq Live(rows), \A n \in DOMAIN notes : notes[n] = rows[n]
    PROVE  LET all == AllNodes(notes, graph, q)
               view == Compile(notes, graph, q)
           IN  /\ \A e \in view.edges : {e.from, e.to} \subseteq view.nodes
               /\ Cardinality(view.nodes) <= q.limit
               /\ view.truncated <=> view.nodes # all
               /\ view.notes = notes
               /\ q.kind = "local" /\ Note(q.note) \in all => Note(q.note) \in view.nodes
               /\ view.edges = Within(AllEdges(notes, graph, q), view.nodes)
<1> DEFINE all == AllNodes(notes, graph, q)
           root == IF q.kind = "local" THEN Note(q.note) ELSE NoRow
           kept == Kept(all, q.limit, root)
           view == Compile(notes, graph, q)
<1>1. IsFiniteSet(DOMAIN notes) /\ DOMAIN notes \subseteq NoteIds
  BY FS_Subset DEF Live
<1>2. all \in SUBSET NodeType /\ IsFiniteSet(all)
  BY <1>1, NodesAre
<1>3. q.limit \in Nat \ {0}
  BY GraphViewsAssumption
<1>4. /\ view.nodes = kept /\ view.notes = notes
      /\ view.edges = Within(AllEdges(notes, graph, q), kept)
      /\ view.truncated = (Cardinality(all) > q.limit)
  BY DEF Compile
<1> HIDE DEF all, view
<1>5. /\ Cardinality(kept) <= q.limit
      /\ Cardinality(all) > q.limit <=> kept # all
      /\ root \in all => root \in kept
  <2> HIDE DEF root
  <2> QED BY <1>2, <1>3, KeptIs
<1>6. \A e \in view.edges : {e.from, e.to} \subseteq kept
  BY <1>4 DEF Within
<1>7. q.kind = "local" /\ Note(q.note) \in all => Note(q.note) \in kept
  BY <1>5
<1> HIDE DEF kept, root
<1> QED BY <1>4, <1>5, <1>6, <1>7 DEF all, view

\* The links shown between notes as they are.
LEMMA LinksShown ==
    ASSUME NEW rows, NEW seed \in Live(rows), NEW notes, Collected(rows, seed, notes),
           NEW graph, NEW q
    PROVE  /\ \A e \in AllEdges(notes, graph, q) :
                 e.type = "LINKS_TO" /\ e.to = Note(seed) =>
                     /\ e.from.id \in Backlinks(rows, seed)
           /\ "relation" \in q.types =>
                 \A m \in Backlinks(rows, seed) \cap DOMAIN notes :
                     Edge("LINKS_TO", Note(m), Note(seed)) \in AllEdges(notes, graph, q)
<1>1. ASSUME NEW e \in AllEdges(notes, graph, q), e.type = "LINKS_TO", e.to = Note(seed)
      PROVE  e.from.id \in Backlinks(rows, seed)
  <2>1. CASE e \in LinkEdges(notes)
    <3>1. PICK n \in DOMAIN notes :
            \E m \in Linked(notes, n) : e = Edge("LINKS_TO", Note(n), Note(m))
      BY <2>1 DEF LinkEdges
    <3>2. PICK m \in Linked(notes, n) : e = Edge("LINKS_TO", Note(n), Note(m))
      BY <3>1
    <3>3. m = seed /\ e.from.id = n
      BY <1>1, <3>2 DEF Edge, Note
    <3>4. /\ n \in Live(rows) \ {seed} /\ notes[n] = rows[n] /\ notes[seed] = rows[seed]
          /\ notes[seed].title \in Titles(notes[n].links)
      BY <3>2, <3>3 DEF Linked, Collected
    <3> QED BY <3>3, <3>4 DEF Backlinks
  <2>2. CASE e \in EntityEdges(notes, graph, q)
    <3>1. \E c : e.to = Entity(c)
      BY <2>2 DEF EntityEdges, Edge
    <3> QED BY <1>1, <3>1 DEF Entity, Note
  <2> QED BY <2>1, <2>2 DEF AllEdges
<1>2. ASSUME "relation" \in q.types, NEW m \in Backlinks(rows, seed) \cap DOMAIN notes
      PROVE  Edge("LINKS_TO", Note(m), Note(seed)) \in AllEdges(notes, graph, q)
  <2>1. notes[m] = rows[m] /\ notes[seed] = rows[seed] /\ seed \in DOMAIN notes
    BY DEF Collected
  <2>2. seed \in Linked(notes, m)
    BY <2>1 DEF Backlinks, Linked
  <2>3. Edge("LINKS_TO", Note(m), Note(seed)) \in LinkEdges(notes)
    BY <2>2 DEF LinkEdges
  <2> QED BY <1>2, <2>3 DEF AllEdges
<1> QED BY <1>1, <1>2

LEMMA SoundIs ==
    ASSUME NEW rows, Edited(rows), DOMAIN rows = NoteIds, IsFiniteSet(Live(rows)),
           NEW graph, Edited(graph), DOMAIN graph = NoteIds,
           NEW q \in Queries \cup OtherQueries,
           q.kind = "local" => rows[q.note] # NoRow
    PROVE  ViewSound(rows, graph, q)
<1> DEFINE notes == IF q.kind = "local" THEN Reachable(rows, q.note, q.hops) ELSE Listed(rows, q)
           all == AllNodes(notes, graph, q)
           view == Compile(notes, graph, q)
           into == {e.from.id : e \in {d \in view.edges :
                        d.type = "LINKS_TO" /\ d.to = Note(q.note)}}
<1>1. q.kind = "local" =>
        /\ q.note \in Live(rows)
        /\ Collected(rows, q.note, notes)
        /\ Tidy(rows, q.note) \subseteq DOMAIN notes
  <2> SUFFICES ASSUME q.kind = "local"
               PROVE  /\ q.note \in Live(rows)
                      /\ Collected(rows, q.note, notes)
                      /\ Tidy(rows, q.note) \subseteq DOMAIN notes
    OBVIOUS
  <2>1. q.note \in Live(rows) /\ q.hops \in Nat \ {0}
    BY GraphViewsAssumption DEF Live
  <2>2. notes = Reachable(rows, q.note, q.hops)
    OBVIOUS
  <2> HIDE DEF notes
  <2> QED BY <2>1, <2>2, ReachableIs
<1>2. DOMAIN notes \subseteq Live(rows) /\ \A n \in DOMAIN notes : notes[n] = rows[n]
  <2>1. CASE q.kind = "local"
    BY <1>1, <2>1 DEF Collected
  <2>2. CASE q.kind # "local"
    <3>1. notes = Listed(rows, q)
      BY <2>2
    <3> HIDE DEF notes
    <3> QED BY <3>1, ListedIs
  <2> QED BY <2>1, <2>2
<1>3. view = (IF q.kind = "local" THEN Compile(Reachable(rows, q.note, q.hops), graph, q)
                                  ELSE Compile(Listed(rows, q), graph, q))
  OBVIOUS
<1> HIDE DEF notes
<1>4. /\ \A e \in view.edges : {e.from, e.to} \subseteq view.nodes
      /\ Cardinality(view.nodes) <= q.limit
      /\ view.truncated <=> view.nodes # all
      /\ view.notes = notes
      /\ q.kind = "local" /\ Note(q.note) \in all => Note(q.note) \in view.nodes
      /\ view.edges = Within(AllEdges(notes, graph, q), view.nodes)
  BY <1>2, CompiledSound
<1> HIDE DEF view
<1>5. ASSUME q.kind = "local", "note" \in q.types
      PROVE  /\ Note(q.note) \in view.nodes
             /\ into \subseteq Backlinks(rows, q.note)
             /\ (~view.truncated /\ "relation" \in q.types) => Tidy(rows, q.note) \subseteq into
  <2>1. \A n \in DOMAIN notes : Note(n) \in all
    BY <1>5 DEF AllNodes
  <2>2. q.note \in DOMAIN notes
    BY <1>1, <1>5 DEF Collected
  <2>3. into \subseteq Backlinks(rows, q.note)
    <3>1. \A e \in view.edges : e \in AllEdges(notes, graph, q)
      BY <1>4 DEF Within
    <3> QED BY <1>1, <1>5, <3>1, LinksShown
  <2>4. ASSUME ~view.truncated, "relation" \in q.types, NEW m \in Tidy(rows, q.note)
        PROVE  m \in into
    <3> DEFINE e == Edge("LINKS_TO", Note(m), Note(q.note))
    <3>1. m \in Backlinks(rows, q.note) \cap DOMAIN notes
      BY <1>1, <1>5 DEF Tidy
    <3>2. e \in AllEdges(notes, graph, q)
      BY <1>1, <1>5, <2>4, <3>1, LinksShown
    <3>3. view.nodes = all
      BY <1>4, <2>4
    <3>4. e.from = Note(m) /\ e.to = Note(q.note) /\ e.type = "LINKS_TO" /\ Note(m).id = m
      BY DEF Edge, Note
    <3>5. e \in view.edges
      BY <1>4, <2>1, <2>2, <3>1, <3>2, <3>3, <3>4 DEF Within
    <3> HIDE DEF e
    <3> QED BY <3>4, <3>5
  <2> QED BY <1>4, <1>5, <2>1, <2>2, <2>3, <2>4
<1> HIDE DEF all, into
<1> QED BY <1>3, <1>4, <1>5 DEF ViewSound, Tidy, all, into

\* The rows are finitely many edits, and the graph was extracted from edits.
FiniteInv ==
    /\ DOMAIN row = NoteIds /\ Edited(row) /\ IsFiniteSet(Live(row))
    /\ DOMAIN extracted = NoteIds /\ Edited(extracted)

LEMMA InitFinite == Init => FiniteInv
<1> SUFFICES ASSUME Init PROVE FiniteInv
  OBVIOUS
<1>1. Live(row) = {}
  BY DEF Init, Live
<1> QED BY <1>1, FS_EmptySet DEF Init, FiniteInv, Edited

LEMMA NextFinite == FiniteInv /\ [Next]_allvars => FiniteInv'
<1> SUFFICES ASSUME FiniteInv, [Next]_allvars PROVE FiniteInv'
  OBVIOUS
<1>1. CASE UNCHANGED <<row, extracted>>
  BY <1>1 DEF FiniteInv, Edited, Live
<1>2. ASSUME NEW e \in Edits, Save(e) PROVE FiniteInv'
  <2>1. e.note \in NoteIds /\ row' = [row EXCEPT ![e.note] = e] /\ extracted' = extracted
    BY <1>2, GraphViewsAssumption DEF Save
  <2>2. Live(row)' \subseteq Live(row) \cup {e.note}
    BY <2>1 DEF Live, FiniteInv
  <2>3. IsFiniteSet(Live(row) \cup {e.note})
    BY FS_AddElement DEF FiniteInv
  <2>4. IsFiniteSet(Live(row)')
    BY <2>2, <2>3, FS_Subset
  <2>5. DOMAIN row' = NoteIds /\ Edited(row)'
    BY <2>1 DEF FiniteInv, Edited
  <2>6. DOMAIN extracted' = NoteIds /\ Edited(extracted)'
    BY <2>1 DEF FiniteInv, Edited
  <2> QED BY <2>4, <2>5, <2>6 DEF FiniteInv
<1>3. ASSUME NEW n \in NoteIds, Delete(n) PROVE FiniteInv'
  <2>1. /\ row' = [row EXCEPT ![n] = NoRow]
        /\ extracted' = [extracted EXCEPT ![n] = NoRow]
    BY <1>3 DEF Delete
  <2>2. Live(row)' \subseteq Live(row)
    BY <2>1 DEF Live, FiniteInv
  <2>3. IsFiniteSet(Live(row)')
    BY <2>2, FS_Subset DEF FiniteInv
  <2>4. DOMAIN row' = NoteIds /\ Edited(row)' /\ DOMAIN extracted' = NoteIds /\ Edited(extracted)'
    BY <2>1 DEF FiniteInv, Edited
  <2> QED BY <2>3, <2>4 DEF FiniteInv
<1>4. ASSUME NEW n, extracted' \in {extracted, [extracted EXCEPT ![n] = row[n]]}, UNCHANGED row
      PROVE  FiniteInv'
  BY <1>4 DEF FiniteInv, Edited, Live
<1>5. CASE ViewsNext
  <2>1. ASSUME NEW r \in Requests, \/ \E q \in Queries : Ask(r, q)
                                   \/ \E l \in Labels : AskInsight(r, l)
                                   \/ Handling(r)
        PROVE  UNCHANGED <<row, extracted>>
    BY <2>1 DEF Ask, AskInsight, Handling, Hit, Miss, ReadOutgoing, ReadIncoming, AnswerGraph,
                LookupInsight, Generated, NotGenerated
  <2>2. ASSUME NEW n \in NoteIds, Process(n) PROVE FiniteInv'
    <3>1. extracted' = [extracted EXCEPT ![n] = row[n]] /\ UNCHANGED row
      BY <2>2 DEF Process
    <3> QED BY <3>1 DEF FiniteInv, Edited, Live
  <2> QED BY <1>1, <1>2, <1>3, <1>5, <2>1, <2>2 DEF ViewsNext
<1>6. CASE BackfillNext
  <2>1. ASSUME NEW w \in Workers, NEW k \in Kinds, Work(w, k) PROVE FiniteInv'
    BY <1>4, <2>1 DEF Work
  <2>2. ASSUME NEW w \in Workers, NEW k \in Kinds,
               List(w, k) \/ Publish(w, k) \/ Finish(w, k) \/ Close(w, k)
        PROVE  UNCHANGED <<row, extracted>>
    BY <2>2 DEF List, Publish, Finish, Close, vars
  <2>3. ASSUME NEW w \in Workers,
               \/ ReprocessAll(w) \/ Begin(w) \/ Restart(w) \/ BeginRaises(w) \/ Crash(w)
        PROVE  UNCHANGED <<row, extracted>>
    BY <2>3 DEF ReprocessAll, Begin, Restart, BeginRaises, Crash, vars
  <2> QED BY <1>1, <1>6, <2>1, <2>2, <2>3 DEF BackfillNext, Running
<1> QED BY <1>1, <1>5, <1>6 DEF Next, allvars, vars

\* Every graph that could be compiled at any moment, of any notes and whatever
\* the limit, hops and filters, is closed, bounded and rooted, says so when it
\* was cut, and shows the backlinks of its note (local_graph_service.py:50-293,
\* global_graph_service.py:82-252).
THEOREM Views == Spec => []ViewsSound
<1>1. FiniteInv => ViewsSound
  <2> SUFFICES ASSUME FiniteInv, NEW q \in Queries \cup OtherQueries,
                      q.kind = "global" \/ row[q.note] # NoRow
               PROVE  ViewSound(row, extracted, q)
    BY DEF ViewsSound
  <2>1. q.kind = "local" => row[q.note] # NoRow
    OBVIOUS
  <2> QED BY <2>1, SoundIs DEF FiniteInv
<1> QED BY <1>1, InitFinite, NextFinite, PTL DEF Spec, ReprocessInit
=============================================================================
