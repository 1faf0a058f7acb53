----------------------------- MODULE GraphSync ------------------------------
(***************************************************************************)
(* What one tenant's AGE graph holds: the delta sync of GraphSyncService,  *)
(* the removal of a note's artifacts, and the orphan sweep that ends every *)
(* transaction that can orphan a node.  NoteProcessing says when these     *)
(* transactions run; here each is one step that computes the next graph,   *)
(* and the extraction is a fact about the note version.                    *)
(***************************************************************************)
EXTENDS Naturals

CONSTANTS
    Notes, Versions, Uids, Hashes, Concepts, Subjects,
    Predicates,    \* relation types the pipeline emits
    Structural,    \* those that carry source_note_id ...
    Durable,       \* ... and those that do not (IS_A, SYNONYM_OF)
    Of,            \* Of[v]: the note v is a version of
    Home,          \* Home[u]: the note block u belongs to (uids are UUIDs)
    Text,          \* Text[v][u]: hash of block u in v, None if not a block of v
    Place,         \* Place[v][u]: where u stands in v, what it is nested in
    Refs,          \* Refs[v]: pairs <<u, w>>, block u of v refers to block w
    SubjectOf,     \* SubjectOf[v]
    Extractions,   \* Extractions[v]: results [ents, rels] the pipeline may give
    None,
    MaxEdits       \* bound on saves and deletes

Edges == Concepts \X Predicates \X Concepts
Results == [ents : SUBSET Concepts, rels : SUBSET Edges]

\* parent_block_uid, and sibling_order with block_index as one number.
Places == [parent : Uids \cup {None}, order : Nat]

ASSUME GraphAssumption ==
    /\ None \notin Notes \cup Versions \cup Hashes
    /\ Of \in [Versions -> Notes] /\ Home \in [Uids -> Notes]
    /\ Text \in [Versions -> [Uids -> Hashes \cup {None}]]
    /\ Place \in [Versions -> [Uids -> Places]]
    /\ Refs \in [Versions -> SUBSET (Uids \X Uids)]
    /\ SubjectOf \in [Versions -> Subjects]
    /\ Extractions \in [Versions -> SUBSET Results]
    /\ Structural \cap Durable = {}
    /\ MaxEdits \in Nat

VARIABLES
    sql,      \* sql[n]: the stored version of note n, or None
    calls,    \* versions loaded by process_note calls that have not synced
    pass,     \* a reconcile's listed ids, or Idle
    g,        \* the graph (and concept_registry)
    edits     \* saves and deletes so far
vars == <<sql, calls, pass, g, edits>>

(***************************************************************************)
(* The graph.  note[n] and block[u] are the content_hash of a Note and of  *)
(* a Block node (None: no node; a Block comes with its CONTAINS edge), a   *)
(* block's is that of its text alone; place[u]: the structure the Block    *)
(* node stores beside it; stub: Block nodes a MERGE created with nothing   *)
(* but an id; child, refers: HAS_CHILD and REFERS_TO edges; mention:       *)
(* MENTIONS edges; rel: Concept-Concept edges with their source_note_id;   *)
(* entity, concept, subject: nodes; registry: ids of concept_registry.     *)
(***************************************************************************)
Empty == [note |-> [n \in Notes |-> None], block |-> [u \in Uids |-> None],
          place |-> [u \in Uids |-> None], stub |-> {}, child |-> {},
          refers |-> {}, mention |-> {}, rel |-> {}, entity |-> {}, concept |-> {}, subject |-> {}, registry |-> {}]

Idle == [on |-> FALSE, notes |-> {}, subjects |-> {}]
LiveNotes == {n \in Notes : sql[n] # None}
LiveSubjects == {SubjectOf[sql[n]] : n \in LiveNotes}

\* Block rows of a note, as _iter_blocks reads them: the live version's.
Rows(n) == [u \in Uids |-> IF sql[n] # None /\ Home[u] = n THEN Text[sql[n]][u]
                                                          ELSE None]
Mentioned(h) == {m[2] : m \in h.mention}
-----------------------------------------------------------------------------
(**************************** the orphan sweep *****************************)

\* Mutant: the nodes are swept, their registry rows stay.
SweepNodes(h, live) ==
    LET kept == Mentioned(h) IN
    [h EXCEPT !.entity = @ \cap kept, !.concept = @ \cap kept,
              !.rel = {r \in @ : {r.edge[1], r.edge[3]} \subseteq kept},
              !.subject = @ \cap live]

\* sweep_orphans: Entity and Concept nodes without a MENTIONS edge go (DETACH
\* DELETE), with their registry rows, and Subjects no live note has.
Sweep(h, live) ==
    LET kept == Mentioned(h)
        orphans == (h.entity \cup h.concept) \ kept IN
    [h EXCEPT !.entity = @ \cap kept, !.concept = @ \cap kept,
              !.rel = {r \in @ : {r.edge[1], r.edge[3]} \cap orphans = {}},
              !.subject = @ \cap live,
              !.registry = @ \ orphans]

\* delete_source_artifacts of the notes N: the edges that carry their
\* source_note_id, then the nodes that do (Note and Block; a stub does not).
DropNotes(h, N) ==
    [h EXCEPT !.note = [n \in Notes |-> IF n \in N THEN None ELSE @[n]],
              !.block = [u \in Uids |-> IF Home[u] \in N THEN None ELSE @[u]],
              !.place = [u \in Uids |-> IF Home[u] \in N THEN None ELSE @[u]],
              !.child = {e \in @ : Home[e[1]] \notin N},
              !.refers = {e \in @ : /\ Home[e[1]] \notin N
                                    /\ Home[e[2]] \notin N \/ e[2] \in h.stub},
              !.mention = {m \in @ : m[1] \notin N},
              !.rel = {r \in @ : r.owner \notin N}]
-----------------------------------------------------------------------------
(***************************** sync_note_graph *****************************)

\* New and edited blocks.  A block that only moved is not among them: the
\* hash is that of its text.
Dirty(h, rows) == {u \in Uids : rows[u] # None /\ h.block[u] # rows[u]}
\* Mutant: blocks that left the note are not looked for.
NothingGone(h, n, rows) == {}

Gone(h, n, rows) ==
    {u \in Uids : Home[u] = n /\ h.block[u] # None /\ rows[u] = None}

\* Mutant: DELETE without DETACH.
DeleteBlockNodes(h, U) ==
    [h EXCEPT !.block = [u \in Uids |-> IF u \in U THEN None ELSE @[u]],
              !.place = [u \in Uids |-> IF u \in U THEN None ELSE @[u]],
              !.stub = @ \ U]

\* Block nodes to rewrite or drop are deleted with all their edges, those to
\* and from blocks that stay included ...
DeleteBlocks(h, U) ==
    [h EXCEPT !.block = [u \in Uids |-> IF u \in U THEN None ELSE @[u]],
              !.place = [u \in Uids |-> IF u \in U THEN None ELSE @[u]],
              !.stub = @ \ U,
              !.child = {e \in @ : {e[1], e[2]} \cap U = {}},
              !.refers = {e \in @ : {e[1], e[2]} \cap U = {}}]

\* ... and the dirty ones are created again, with their place and the edge
\* from their parent; no edge to a child that stayed.
UpsertDirtyBlocks(h, n, rows, D) ==
    [h EXCEPT !.block = [u \in Uids |-> IF u \in D THEN rows[u] ELSE @[u]],
              !.place = [u \in Uids |-> IF u \in D THEN Place[sql[n]][u] ELSE @[u]],
              !.child = @ \cup {e \in Uids \X D :
                                   /\ Place[sql[n]][e[2]].parent = e[1]
                                   /\ rows[e[1]] # None}]

\* REFERS_TO from the dirty blocks to blocks that have a row; MERGE makes a
\* bare node of a target that has none.
UpsertBlockRefs(h, n, D) ==
    LET refs == IF sql[n] = None THEN {} ELSE Refs[sql[n]]
        new == {e \in refs : /\ e[1] \in D /\ e[1] # e[2]
                             /\ Rows(Home[e[2]])[e[2]] # None}
    IN  [h EXCEPT !.refers = @ \cup new,
                  !.stub = @ \cup {w \in Uids : h.block[w] = None
                                       /\ \E e \in new : e[2] = w}]

\* Mutant: the node is stamped with its note instead of the content.
UpsertUnstamped(h, v, x) ==
    [h EXCEPT !.note[Of[v]] = Of[v], !.entity = @ \cup x.ents,
              !.subject = @ \cup {SubjectOf[v]},
              !.mention = {m \in @ : m[1] # Of[v]} \cup ({Of[v]} \X x.ents)]

\* _upsert_note_and_subject, delete_note_mention_edges and
\* _upsert_entity_nodes_and_note_edges.
UpsertNoteAndMentions(h, v, x) ==
    [h EXCEPT !.note[Of[v]] = v,
              !.subject = @ \cup {SubjectOf[v]},
              !.mention = {m \in @ : m[1] # Of[v]} \cup ({Of[v]} \X x.ents),
              !.entity = @ \cup x.ents]

DeleteRelations(h, n) == [h EXCEPT !.rel = {r \in @ : r.owner # n}]

\* Mutant: every relation carries the note's id.
UpsertOwnedRelations(h, n, x) ==
    [h EXCEPT !.concept = @ \cup {e[1] : e \in x.rels} \cup {e[3] : e \in x.rels},
              !.rel = {r \in @ : r.edge \notin x.rels}
                        \cup {[edge |-> e, owner |-> n] : e \in x.rels}]

\* _upsert_relations: one edge per (subject, predicate, object), whose
\* source_note_id is overwritten; a durable one carries none.
UpsertRelations(h, n, x) ==
    LET new == {e \in x.rels : e[2] \in Structural \cup Durable} IN
    [h EXCEPT !.concept = @ \cup {e[1] : e \in new} \cup {e[3] : e \in new},
              !.rel = {r \in @ : r.edge \notin new} \cup
                  {[edge |-> e, owner |-> IF e[2] \in Structural THEN n ELSE None] :
                        e \in new}]

\* Mutant: nothing to do when no block changed.
FastPathStampOnly(h, v, x) == [h EXCEPT !.note[Of[v]] = v]

\* Neither a dirty nor a deleted block: the note-level edges and the relations
\* are refreshed, the blocks stay.
FastPath(h, v, x) ==
    UpsertRelations(DeleteRelations(UpsertNoteAndMentions(h, v, x), Of[v]), Of[v], x)

\* Mutant: the dirty blocks are merged into the nodes they have.
SlowPathInPlace(h, v, x, D, U) ==
    LET n == Of[v]
        kept == UpsertNoteAndMentions(DeleteBlocks(h, U), v, x)
    IN  UpsertRelations(UpsertBlockRefs(UpsertDirtyBlocks(kept, n, Rows(n), D), n, D),
                        n, x)

SlowPath(h, v, x, D, U) ==
    LET n == Of[v] IN
    UpsertRelations(
        UpsertBlockRefs(
            UpsertDirtyBlocks(
                UpsertNoteAndMentions(DeleteBlocks(h, D \cup U), v, x),
                n, Rows(n), D),
            n, D),
        n, x)

SyncNoteGraph(h, v, x) ==
    LET D == Dirty(h, Rows(Of[v]))
        U == Gone(h, Of[v], Rows(Of[v]))
    IN  IF D \cup U = {} THEN FastPath(h, v, x) ELSE SlowPath(h, v, x, D, U)
-----------------------------------------------------------------------------
Init ==
    /\ sql = [n \in Notes |-> None]
    /\ calls = {}
    /\ pass = Idle
    /\ g = Empty
    /\ edits = 0

\* put_note stores a version and its blocks; a job will load it.
Save(v) ==
    /\ edits < MaxEdits
    /\ edits' = edits + 1
    /\ sql' = [sql EXCEPT ![Of[v]] = v]
    /\ UNCHANGED <<calls, pass, g>>

\* delete_note: the row and the note's graph go in one transaction.
Delete(n) ==
    /\ edits < MaxEdits
    /\ sql[n] # None
    /\ edits' = edits + 1
    /\ sql' = [sql EXCEPT ![n] = None]
    /\ g' = Sweep(DropNotes(g, {n}), LiveSubjects')
    /\ UNCHANGED <<calls, pass>>

\* _load_snapshot of a process_note call.
Load(n) ==
    /\ sql[n] # None
    /\ calls' = calls \cup {sql[n]}
    /\ UNCHANGED <<sql, pass, g, edits>>

\* _persist_graph_and_vector of that call: extract, register, sync, sweep.
Persist(v) ==
    /\ v \in calls
    /\ calls' = calls \ {v}
    /\ \E x \in Extractions[v] :
        LET registered == [g EXCEPT !.registry = @ \cup x.ents]
        IN  g' = Sweep(SyncNoteGraph(registered, v, x), LiveSubjects)
    /\ UNCHANGED <<sql, pass, edits>>

\* run_graph_reconcile lists the live ids ...
ListIds ==
    /\ ~pass.on
    /\ pass' = [on |-> TRUE, notes |-> LiveNotes, subjects |-> LiveSubjects]
    /\ UNCHANGED <<sql, calls, g, edits>>

\* ... and reconcile prunes by them, down to the registry.
Reconcile ==
    /\ pass.on
    /\ LET stale == {n \in Notes : g.note[n] # None} \ pass.notes
           swept == Sweep(DropNotes(g, stale), pass.subjects)
       IN  g' = [swept EXCEPT !.registry = @ \cap Mentioned(swept)]
    /\ pass' = Idle
    /\ UNCHANGED <<sql, calls, edits>>

\* A forced reprocess empties concept_registry before it lists its notes.
ClearRegistry ==
    /\ g' = [g EXCEPT !.registry = {}]
    /\ UNCHANGED <<sql, calls, pass, edits>>

Next ==
    \/ \E v \in Versions : Save(v) \/ Persist(v)
    \/ \E n \in Notes : Delete(n) \/ Load(n)
    \/ ListIds \/ Reconcile \/ ClearRegistry

Spec == Init /\ [][Next]_vars
-----------------------------------------------------------------------------
(******************************* properties ********************************)

Owned == [edge : Edges, owner : Notes \cup {None}]
Graphs == [note : [Notes -> Versions \cup {None}],
           block : [Uids -> Hashes \cup {None}],
           place : [Uids -> Places \cup {None}],
           stub : SUBSET Uids, child : SUBSET (Uids \X Uids),
           refers : SUBSET (Uids \X Uids), mention : SUBSET (Notes \X Concepts),
           rel : SUBSET Owned, entity : SUBSET Concepts,
           concept : SUBSET Concepts, subject : SUBSET Subjects,
           registry : SUBSET Concepts]

\* The shape of the tables and of the graph: every node is stamped with a
\* version, a hash or nothing, never with something else.
TypeOK ==
    /\ sql \in [Notes -> Versions \cup {None}]
    /\ calls \subseteq Versions
    /\ pass \in [on : BOOLEAN, notes : SUBSET Notes, subjects : SUBSET Subjects]
    /\ g \in Graphs
    /\ edits \in 0 .. MaxEdits

\* Between transactions nothing in the graph or the registry is about a
\* concept no note mentions: each transaction that drops a mention sweeps.
NoOrphans == g.entity \cup g.concept \cup g.registry \subseteq Mentioned(g)

\* A Note node's mentions are those of one extraction of the very version it
\* is stamped with, whichever path the sync took and whatever the other notes'
\* syncs and sweeps removed since; without a node there are none.
MentionsMatch(h, n) ==
    IF h.note[n] = None THEN \A m \in h.mention : m[1] # n
    ELSE \E x \in Extractions[h.note[n]] :
            \A e \in Concepts : <<n, e>> \in h.mention <=> e \in x.ents
MentionsOfNode == \A n \in Notes : MentionsMatch(g, n)

\* No edge outlives an endpoint: what lets delete_dangling_edges do nothing.
Endpoints(h) ==
    /\ \A m \in h.mention : h.note[m[1]] # None /\ m[2] \in h.entity
    /\ \A e \in h.child : h.block[e[1]] # None /\ h.block[e[2]] # None
    /\ \A e \in h.refers :
        h.block[e[1]] # None /\ (h.block[e[2]] # None \/ e[2] \in h.stub)
    /\ \A r \in h.rel : {r.edge[1], r.edge[3]} \subseteq h.concept
NoDanglingEdges == Endpoints(g)

\* A durable edge carries no source_note_id.
Unowned(h) == \A r \in h.rel : r.edge[2] \in Durable => r.owner = None

\* What a Block node stores comes from one version of its note, the last one
\* whose sync rewrote it: hash, place, the blocks it refers to, and no parent
\* but the one it names, whatever later syncs of this note and of others
\* deleted around it.
FromOneVersion(h, u) ==
    h.block[u] # None => \E v \in Versions :
        /\ Of[v] = Home[u] /\ h.block[u] = Text[v][u] /\ h.place[u] = Place[v][u]
        /\ \A e \in h.child : e[2] = u => e[1] = Place[v][u].parent
        /\ \A e \in h.refers : e[1] = u => e \in Refs[v]
BlocksOfOneVersion == \A u \in Uids : FromOneVersion(g, u)

\* The call whose sync commits in a step.
Committed == calls \ calls'

\* A node as its row has it: its place, the edge from its parent alone, and a
\* REFERS_TO edge for each reference to another block that has a row.
AsItsRow(h, v, u) ==
    /\ h.place[u] = Place[v][u]
    /\ \A w \in Uids :
        /\ <<w, u>> \in h.child <=> w = Place[v][u].parent /\ Rows(Of[v])[w] # None
        /\ <<u, w>> \in h.refers <=>
                <<u, w>> \in Refs[v] /\ u # w /\ Rows(Home[w])[w] # None

\* The delta sync leaves exactly the Block nodes of the rows it read, each
\* with the hash of its text.  The ones it rewrites are as their rows have
\* them in structure too; of the others this holds only of the text.
DeltaIsExact ==
    [][\A v \in Committed :
        LET n == Of[v] IN
        /\ \A u \in Uids : Home[u] = n => g'.block[u] = Rows(n)[u]
        /\ \A u \in Dirty(g, Rows(n)) : AsItsRow(g', sql[n], u)]_vars

\* IS_A and SYNONYM_OF edges accrete across edits: one disappears only with
\* the last mention of one of its concepts.
DurableStays ==
    [][\A r \in g.rel : r.edge[2] \in Durable /\ r \notin g'.rel
            => ~({r.edge[1], r.edge[3]} \subseteq Mentioned(g'))]_vars

\* Stale relation edges of a note do not accumulate: each is one the pipeline
\* derives from the version the Note node is stamped with.
RelationsCurrent ==
    \A r \in g.rel : r.owner # None =>
        /\ g.note[r.owner] # None
        /\ \E x \in Extractions[g.note[r.owner]] : r.edge \in x.rels
=============================================================================
