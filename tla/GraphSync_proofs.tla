-------------------------- MODULE GraphSync_proofs --------------------------
(***************************************************************************)
(* Proofs about GraphSync for all notes, versions, blocks, concepts and    *)
(* extraction results.  Each operator on graphs keeps what the invariant   *)
(* says of one graph; the invariant of the specification follows.          *)
(***************************************************************************)
EXTENDS GraphSync, TLAPS

\* What holds of the graph inside a transaction, before its sweep.  HAS_CHILD
\* stays within a note, so dropping a note cannot leave half of one.
Sound(h) ==
    /\ h \in Graphs
    /\ Endpoints(h)
    /\ Unowned(h)
    /\ \A e \in h.child : Home[e[1]] = Home[e[2]]

\* Registered concepts are still nodes: the sweep of a transaction that drops
\* their last mention finds them.
Registered(h) == h.registry \subseteq h.entity

-----------------------------------------------------------------------------
(********************* every operator keeps a graph sound ******************)

\* sweep_orphans (DETACH DELETE) leaves no half edge and no odd field.
LEMMA SweepSound ==
  ASSUME NEW h, Sound(h), NEW live \in SUBSET Subjects
  PROVE  Sound(Sweep(h, live))
<1> DEFINE s == Sweep(h, live)
<1>1. s \in Graphs
  BY DEF Sound, Sweep, Graphs
<1>2. Endpoints(s)
  BY SMT DEF Sound, Sweep, Endpoints, Graphs, Mentioned
<1>3. Unowned(s)
  BY DEF Sound, Sweep, Unowned, Graphs
<1>4. s.child = h.child
  BY DEF Sound, Sweep, Graphs
<1> QED BY <1>1, <1>2, <1>3, <1>4 DEF Sound

\* delete_source_artifacts takes with a note every edge that starts at it.
LEMMA DropNotesSound ==
  ASSUME NEW h, Sound(h), NEW N \in SUBSET Notes
  PROVE  Sound(DropNotes(h, N))
<1> DEFINE s == DropNotes(h, N)
<1>1. s \in Graphs
  BY GraphAssumption DEF Sound, DropNotes, Graphs
<1>2. Endpoints(s)
  <2>1. \A m \in s.mention : s.note[m[1]] # None /\ m[2] \in s.entity
    BY SMT DEF Sound, DropNotes, Endpoints, Graphs
  <2>2. \A e \in s.child : s.block[e[1]] # None /\ s.block[e[2]] # None
    <3>1. \A u \in Uids : s.block[u] = IF Home[u] \in N THEN None ELSE h.block[u]
      BY DEF Sound, DropNotes, Graphs
    <3>2. \A e \in s.child : /\ e \in h.child /\ Home[e[1]] \notin N
                             /\ e[1] \in Uids /\ e[2] \in Uids
      BY DEF Sound, DropNotes, Graphs
    <3> QED BY <3>1, <3>2 DEF Sound, Endpoints
  <2>3. \A e \in s.refers : /\ s.block[e[1]] # None
                            /\ s.block[e[2]] # None \/ e[2] \in s.stub
    <3>1. \A u \in Uids : s.block[u] = IF Home[u] \in N THEN None ELSE h.block[u]
      BY DEF Sound, DropNotes, Graphs
    <3>2. \A e \in s.refers : /\ e \in h.refers /\ Home[e[1]] \notin N
                              /\ Home[e[2]] \notin N \/ e[2] \in h.stub
                              /\ e[1] \in Uids /\ e[2] \in Uids
      BY DEF Sound, DropNotes, Graphs
    <3>3. s.stub = h.stub
      BY DEF Sound, DropNotes, Graphs
    <3> QED BY <3>1, <3>2, <3>3 DEF Sound, Endpoints
  <2>4. \A r \in s.rel : {r.edge[1], r.edge[3]} \subseteq s.concept
    BY DEF Sound, DropNotes, Endpoints, Graphs
  <2> QED BY <2>1, <2>2, <2>3, <2>4 DEF Endpoints
<1>3. Unowned(s)
  BY DEF Sound, DropNotes, Unowned, Graphs
<1>4. s.child \subseteq h.child
  BY DEF Sound, DropNotes, Graphs
<1> QED BY <1>1, <1>2, <1>3, <1>4 DEF Sound

\* delete_block_node detaches the blocks it deletes.
LEMMA DeleteBlocksSound ==
  ASSUME NEW h, Sound(h), NEW U \in SUBSET Uids
  PROVE  Sound(DeleteBlocks(h, U))
<1> DEFINE s == DeleteBlocks(h, U)
<1>1. s \in Graphs
  BY GraphAssumption DEF Sound, DeleteBlocks, Graphs
<1>2. Endpoints(s)
  BY SMT DEF Sound, DeleteBlocks, Endpoints, Graphs
<1>3. Unowned(s)
  BY DEF Sound, DeleteBlocks, Unowned, Graphs
<1>4. s.child \subseteq h.child
  BY DEF Sound, DeleteBlocks, Graphs
<1> QED BY <1>1, <1>2, <1>3, <1>4 DEF Sound

\* The note-level upsert creates the Entity nodes its mentions point to.
LEMMA UpsertNoteSound ==
  ASSUME NEW h, Sound(h), NEW v \in Versions, NEW x \in Results
  PROVE  Sound(UpsertNoteAndMentions(h, v, x))
<1> DEFINE s == UpsertNoteAndMentions(h, v, x)
<1>0. Of[v] \in Notes /\ v # None /\ SubjectOf[v] \in Subjects
  BY GraphAssumption
<1>1. s \in Graphs
  BY <1>0 DEF Sound, UpsertNoteAndMentions, Graphs, Results
<1>2. Endpoints(s)
  BY <1>0, SMT DEF Sound, UpsertNoteAndMentions, Endpoints, Graphs, Results
<1>3. Unowned(s) /\ s.child = h.child
  BY DEF Sound, UpsertNoteAndMentions, Unowned, Graphs
<1> QED BY <1>1, <1>2, <1>3 DEF Sound

\* Dropping relation edges breaks nothing.
LEMMA DeleteRelationsSound ==
  ASSUME NEW h, Sound(h), NEW n
  PROVE  Sound(DeleteRelations(h, n))
  BY DEF Sound, DeleteRelations, Graphs, Endpoints, Unowned

\* _upsert_relations creates both Concept nodes of each edge, and gives a
\* durable edge no owner.
LEMMA UpsertRelationsSound ==
  ASSUME NEW h, Sound(h), NEW n \in Notes, NEW x \in Results
  PROVE  Sound(UpsertRelations(h, n, x))
<1> DEFINE s == UpsertRelations(h, n, x)
           new == {e \in x.rels : e[2] \in Structural \cup Durable}
           own == {[edge |-> e, owner |-> IF e[2] \in Structural THEN n ELSE None] : e \in new}
<1>0. /\ s.concept = h.concept \cup {e[1] : e \in new} \cup {e[3] : e \in new}
      /\ s.rel = {r \in h.rel : r.edge \notin new} \cup own
      /\ s = [h EXCEPT !.concept = s.concept, !.rel = s.rel]
  BY DEF Sound, UpsertRelations, Graphs
<1>a. new \subseteq Edges /\ own \subseteq Owned
  BY DEF Results, Owned
<1>b. \A r \in own : r.edge \in new /\ (r.edge[2] \notin Structural => r.owner = None)
  OBVIOUS
<1>1. s \in Graphs
  <2>1. \A e \in new : e[1] \in Concepts /\ e[3] \in Concepts
    BY <1>a DEF Edges
  <2>2. s.concept \subseteq Concepts /\ s.rel \subseteq Owned
    <3>1. h.concept \subseteq Concepts /\ h.rel \subseteq Owned
      BY DEF Sound, Graphs
    <3>2. {e[1] : e \in new} \cup {e[3] : e \in new} \subseteq Concepts
      BY <2>1
    <3> HIDE DEF s, own, new
    <3> QED BY <1>0, <1>a, <3>1, <3>2
  <2> QED BY <1>0, <2>2 DEF Sound, Graphs
<1>2. Endpoints(s)
  <2>1. \A r \in s.rel : {r.edge[1], r.edge[3]} \subseteq s.concept
    <3>1. \A r \in h.rel : {r.edge[1], r.edge[3]} \subseteq h.concept
      BY DEF Sound, Endpoints
    <3>2. \A r \in own : {r.edge[1], r.edge[3]} \subseteq s.concept
      BY <1>0, <1>b
    <3> HIDE DEF s, own, new
    <3> QED BY <1>0, <3>1, <3>2
  <2>2. /\ s.mention = h.mention /\ s.note = h.note /\ s.entity = h.entity
        /\ s.child = h.child /\ s.refers = h.refers /\ s.block = h.block
        /\ s.stub = h.stub
    BY <1>0 DEF Sound, Graphs
  <2> HIDE DEF s
  <2> QED BY <2>1, <2>2 DEF Sound, Endpoints
<1>3. Unowned(s)
  <2>1. \A r \in own : r.edge[2] \in Durable => r.owner = None
    BY <1>b, GraphAssumption
  <2> HIDE DEF s, own, new
  <2> QED BY <1>0, <2>1 DEF Sound, Unowned
<1>4. s.child = h.child
  BY <1>0 DEF Sound, Graphs
<1> QED BY <1>1, <1>2, <1>3, <1>4 DEF Sound

\* The rows of a note are hashes of its own blocks.
LEMMA RowsType ==
  ASSUME TypeOK, NEW n \in Notes
  PROVE  /\ Rows(n) \in [Uids -> Hashes \cup {None}]
         /\ \A u \in Uids : Rows(n)[u] # None => Home[u] = n /\ sql[n] # None
  BY GraphAssumption, SMT DEF TypeOK, Rows

\* _upsert_dirty_blocks links a block only to a parent that has a row, whose
\* node therefore exists: it is dirty itself or was there before.
LEMMA UpsertDirtyBlocksSound ==
  ASSUME TypeOK, NEW h, Sound(h), NEW n \in Notes, NEW D \in SUBSET Uids,
         \A u \in D : Rows(n)[u] # None,
         \A u \in Uids \ D : Rows(n)[u] # None => h.block[u] # None
  PROVE  LET s == UpsertDirtyBlocks(h, n, Rows(n), D) IN
         Sound(s) /\ \A u \in D : s.block[u] # None
<1> DEFINE s == UpsertDirtyBlocks(h, n, Rows(n), D)
           new == {e \in Uids \X D : /\ Place[sql[n]][e[2]].parent = e[1]
                                    /\ Rows(n)[e[1]] # None}
<1>0. /\ \A u \in Uids : s.block[u] = IF u \in D THEN Rows(n)[u] ELSE h.block[u]
      /\ s.child = h.child \cup new
      /\ s.mention = h.mention /\ s.note = h.note /\ s.entity = h.entity
      /\ s.refers = h.refers /\ s.stub = h.stub /\ s.rel = h.rel
      /\ s.concept = h.concept
  BY DEF Sound, Graphs, UpsertDirtyBlocks
<1>a. \A e \in new : /\ e[1] \in Uids /\ e[2] \in D /\ Rows(n)[e[1]] # None
  OBVIOUS
<1>b. \A u \in Uids : h.block[u] # None \/ Rows(n)[u] # None => s.block[u] # None
  BY <1>0
<1>1. s \in Graphs
  <2>1. new \subseteq Uids \X Uids
    OBVIOUS
  <2>2. s = [h EXCEPT !.block = [u \in Uids |-> IF u \in D THEN Rows(n)[u] ELSE @[u]],
                      !.place = [u \in Uids |-> IF u \in D THEN Place[sql[n]][u] ELSE @[u]],
                      !.child = @ \cup new]
    BY DEF UpsertDirtyBlocks
  <2>3. [u \in Uids |-> IF u \in D THEN Rows(n)[u] ELSE h.block[u]]
            \in [Uids -> Hashes \cup {None}]
    BY RowsType DEF Sound, Graphs
  <2>4. [u \in Uids |-> IF u \in D THEN Place[sql[n]][u] ELSE h.place[u]]
            \in [Uids -> Places \cup {None}]
    <3>1. \A u \in D : sql[n] \in Versions
      BY RowsType DEF TypeOK
    <3> QED BY <3>1, GraphAssumption DEF Sound, Graphs
  <2> HIDE DEF s, new
  <2> QED BY <2>1, <2>2, <2>3, <2>4 DEF Sound, Graphs
<1>2. /\ \A e \in s.child : s.block[e[1]] # None /\ s.block[e[2]] # None
      /\ \A e \in s.child : Home[e[1]] = Home[e[2]]
  <2>1. \A e \in h.child : /\ e[1] \in Uids /\ e[2] \in Uids
                           /\ h.block[e[1]] # None /\ h.block[e[2]] # None
                           /\ Home[e[1]] = Home[e[2]]
    BY DEF Sound, Graphs, Endpoints
  <2>2. \A e \in new : Home[e[1]] = n /\ Home[e[2]] = n
    BY <1>a, RowsType
  <2> HIDE DEF s, new
  <2> QED BY <1>0, <1>a, <1>b, <2>1, <2>2
<1>3. \A e \in s.refers : s.block[e[1]] # None /\ (s.block[e[2]] # None \/ e[2] \in s.stub)
  <2>1. \A e \in h.refers : /\ e[1] \in Uids /\ e[2] \in Uids
                            /\ h.block[e[1]] # None
                            /\ h.block[e[2]] # None \/ e[2] \in h.stub
    BY DEF Sound, Graphs, Endpoints
  <2> HIDE DEF s
  <2> QED BY <1>0, <1>b, <2>1
<1>4. Endpoints(s)
  <2> HIDE DEF s
  <2> QED BY <1>0, <1>2, <1>3 DEF Sound, Endpoints
<1>5. Unowned(s)
  BY <1>0 DEF Sound, Unowned
<1> QED BY <1>0, <1>1, <1>2, <1>4, <1>5 DEF Sound

\* _upsert_block_refs starts from dirty blocks, whose nodes were just
\* created, and MERGE supplies the other end.
LEMMA UpsertBlockRefsSound ==
  ASSUME TypeOK, NEW h, Sound(h), NEW n \in Notes, NEW D \in SUBSET Uids,
         \A u \in D : h.block[u] # None
  PROVE  Sound(UpsertBlockRefs(h, n, D))
<1> DEFINE s == UpsertBlockRefs(h, n, D)
           refs == IF sql[n] = None THEN {} ELSE Refs[sql[n]]
           new == {e \in refs : /\ e[1] \in D /\ e[1] # e[2]
                                /\ Rows(Home[e[2]])[e[2]] # None}
           more == {w \in Uids : h.block[w] = None /\ \E e \in new : e[2] = w}
<1>0. s = [h EXCEPT !.refers = @ \cup new, !.stub = @ \cup more]
  BY DEF UpsertBlockRefs
<1>a. /\ new \subseteq Uids \X Uids
      /\ \A e \in new : e[1] \in D /\ e[2] \in Uids /\ (h.block[e[2]] = None => e[2] \in more)
  BY GraphAssumption DEF TypeOK
<1>b. more \subseteq Uids
  OBVIOUS
<1> HIDE DEF s, refs, new, more
<1>1. s \in Graphs
  BY <1>0, <1>a, <1>b DEF Sound, Graphs
<1>2. /\ s.refers = h.refers \cup new /\ s.stub = h.stub \cup more
      /\ s.mention = h.mention /\ s.note = h.note /\ s.entity = h.entity
      /\ s.child = h.child /\ s.block = h.block /\ s.rel = h.rel
      /\ s.concept = h.concept
  BY <1>0 DEF Sound, Graphs
<1>3. Endpoints(s)
  <2>1. \A e \in s.refers : s.block[e[1]] # None /\ (s.block[e[2]] # None \/ e[2] \in s.stub)
    BY <1>a, <1>2 DEF Sound, Endpoints
  <2> QED BY <1>2, <2>1 DEF Sound, Endpoints
<1>4. Unowned(s) /\ \A e \in s.child : Home[e[1]] = Home[e[2]]
  BY <1>2 DEF Sound, Unowned
<1>5. Sound(s)
  BY <1>1, <1>3, <1>4 DEF Sound
<1> QED BY <1>5 DEF s

-----------------------------------------------------------------------------
(**************************** sync_note_graph ******************************)

\* What each operator does to the fields other operators read.
LEMMA DeleteBlocksFrame ==
  ASSUME NEW h \in Graphs, NEW U
  PROVE  LET s == DeleteBlocks(h, U) IN
         /\ s.note = h.note /\ s.mention = h.mention /\ s.entity = h.entity
         /\ s.registry = h.registry /\ s.rel = h.rel
         /\ s.block = [u \in Uids |-> IF u \in U THEN None ELSE h.block[u]]
         /\ s.place = [u \in Uids |-> IF u \in U THEN None ELSE h.place[u]]
         /\ s.child = {e \in h.child : {e[1], e[2]} \cap U = {}}
         /\ s.refers = {e \in h.refers : {e[1], e[2]} \cap U = {}}
  BY DEF DeleteBlocks, Graphs

\* The note-level upsert: node, mentions and entities of the version.
LEMMA UpsertNoteFrame ==
  ASSUME NEW h \in Graphs, NEW v, NEW x
  PROVE  LET s == UpsertNoteAndMentions(h, v, x) IN
         /\ s.note = [h.note EXCEPT ![Of[v]] = v]
         /\ s.mention = {m \in h.mention : m[1] # Of[v]} \cup ({Of[v]} \X x.ents)
         /\ s.entity = h.entity \cup x.ents
         /\ s.registry = h.registry /\ s.rel = h.rel /\ s.block = h.block
         /\ s.place = h.place /\ s.child = h.child /\ s.refers = h.refers
  BY DEF UpsertNoteAndMentions, Graphs

\* The edges the block upsert and the reference upsert add.
ChildrenOf(n, D) ==
    {e \in Uids \X D : Place[sql[n]][e[2]].parent = e[1] /\ Rows(n)[e[1]] # None}
RefsOf(n, D) ==
    {e \in (IF sql[n] = None THEN {} ELSE Refs[sql[n]]) :
        e[1] \in D /\ e[1] # e[2] /\ Rows(Home[e[2]])[e[2]] # None}

\* The block upsert: the dirty Block nodes, with their places and parents.
LEMMA UpsertDirtyBlocksFrame ==
  ASSUME NEW h \in Graphs, NEW n, NEW D
  PROVE  LET rows == Rows(n)  s == UpsertDirtyBlocks(h, n, rows, D) IN
         /\ s.note = h.note /\ s.mention = h.mention /\ s.entity = h.entity
         /\ s.registry = h.registry /\ s.rel = h.rel
         /\ s.block = [u \in Uids |-> IF u \in D THEN rows[u] ELSE h.block[u]]
         /\ s.place = [u \in Uids |-> IF u \in D THEN Place[sql[n]][u] ELSE h.place[u]]
         /\ s.child = h.child \cup ChildrenOf(n, D) /\ s.refers = h.refers
  BY DEF UpsertDirtyBlocks, Graphs, ChildrenOf

\* The reference upsert: of the fields followed here, the references.
LEMMA UpsertBlockRefsFrame ==
  ASSUME NEW h \in Graphs, NEW n, NEW D
  PROVE  LET s == UpsertBlockRefs(h, n, D) IN
         /\ s.note = h.note /\ s.mention = h.mention /\ s.entity = h.entity
         /\ s.registry = h.registry /\ s.rel = h.rel /\ s.block = h.block
         /\ s.place = h.place /\ s.child = h.child
         /\ s.refers = h.refers \cup RefsOf(n, D)
  BY DEF UpsertBlockRefs, Graphs, RefsOf

\* The deletion of a note's relation edges: those it owns.
LEMMA DeleteRelationsFrame ==
  ASSUME NEW h \in Graphs, NEW n
  PROVE  LET s == DeleteRelations(h, n) IN
         /\ s.note = h.note /\ s.mention = h.mention /\ s.entity = h.entity
         /\ s.registry = h.registry /\ s.block = h.block
         /\ s.place = h.place /\ s.child = h.child /\ s.refers = h.refers
         /\ s.rel = {r \in h.rel : r.owner # n}
  BY DEF DeleteRelations, Graphs

\* The relation upsert: relation edges and their concepts only.
LEMMA UpsertRelationsFrame ==
  ASSUME NEW h \in Graphs, NEW n, NEW x
  PROVE  LET s == UpsertRelations(h, n, x) IN
         /\ s.note = h.note /\ s.mention = h.mention /\ s.entity = h.entity
         /\ s.registry = h.registry /\ s.block = h.block
         /\ s.place = h.place /\ s.child = h.child /\ s.refers = h.refers
  BY DEF UpsertRelations, Graphs

\* A durable edge survives the upsert of any relations: if it is among them it
\* is rewritten without an owner, as it was.
LEMMA UpsertKeepsDurable ==
  ASSUME NEW h, Sound(h), NEW n, NEW x, NEW r \in h.rel, r.edge[2] \in Durable
  PROVE  r \in UpsertRelations(h, n, x).rel
<1> DEFINE new == {e \in x.rels : e[2] \in Structural \cup Durable}
           own == {[edge |-> e, owner |-> IF e[2] \in Structural THEN n ELSE None] : e \in new}
<1>1. UpsertRelations(h, n, x).rel = {q \in h.rel : q.edge \notin new} \cup own
  BY DEF Sound, UpsertRelations, Graphs
<1>2. r = [edge |-> r.edge, owner |-> None]
  BY DEF Sound, Unowned, Graphs, Owned
<1>3. r.edge[2] \notin Structural
  BY GraphAssumption
<1>4. ASSUME r.edge \in new PROVE r \in own
  BY <1>2, <1>3, <1>4
<1> HIDE DEF new, own
<1> QED BY <1>1, <1>4

\* What the invariant needs of a synced graph, whichever path was taken.
Synced(h, s, v, x) ==
    /\ Sound(s)
    /\ s.note = [h.note EXCEPT ![Of[v]] = v]
    /\ s.mention = {m \in h.mention : m[1] # Of[v]} \cup ({Of[v]} \X x.ents)
    /\ s.entity = h.entity \cup x.ents
    /\ s.registry = h.registry
    /\ \A r \in h.rel : r.edge[2] \in Durable => r \in s.rel

\* What a sync of note n with the dirty blocks D and the gone blocks U leaves
\* of the blocks: their nodes, and the edges between them.
Rewritten(h, s, n, D, U) ==
    /\ \A u \in Uids :
        /\ s.block[u] = IF u \in D THEN Rows(n)[u]
                        ELSE IF u \in U THEN None ELSE h.block[u]
        /\ s.place[u] = IF u \in D THEN Place[sql[n]][u]
                        ELSE IF u \in U THEN None ELSE h.place[u]
    /\ s.child = {e \in h.child : {e[1], e[2]} \cap (D \cup U) = {}} \cup ChildrenOf(n, D)
    /\ s.refers = {e \in h.refers : {e[1], e[2]} \cap (D \cup U) = {}} \cup RefsOf(n, D)

\* The fast path, operator by operator.
LEMMA FastPathSynced ==
  ASSUME NEW h, Sound(h), NEW v \in Versions, NEW x \in Results
  PROVE  LET s == FastPath(h, v, x) IN
         /\ Synced(h, s, v, x)
         /\ s.block = h.block /\ s.place = h.place
         /\ s.child = h.child /\ s.refers = h.refers
<1> DEFINE n == Of[v]
           h1 == UpsertNoteAndMentions(h, v, x)
           h2 == DeleteRelations(h1, n)
           s == UpsertRelations(h2, n, x)
<1>0. n \in Notes /\ n # None
  BY GraphAssumption
<1>1. Sound(h1)
  BY UpsertNoteSound
<1>2. /\ h1.note = [h.note EXCEPT ![n] = v]
      /\ h1.mention = {m \in h.mention : m[1] # n} \cup ({n} \X x.ents)
      /\ h1.entity = h.entity \cup x.ents
      /\ h1.registry = h.registry /\ h1.rel = h.rel /\ h1.block = h.block
      /\ h1.place = h.place /\ h1.child = h.child /\ h1.refers = h.refers
  <2>1. h \in Graphs
    BY DEF Sound
  <2> QED BY <2>1 DEF UpsertNoteAndMentions, Graphs
<1>3. s = FastPath(h, v, x)
  BY DEF FastPath
<1> HIDE DEF h1
<1>4. Sound(h2)
  BY <1>1, DeleteRelationsSound
<1>5. /\ h2.note = h1.note /\ h2.mention = h1.mention /\ h2.entity = h1.entity
      /\ h2.registry = h1.registry /\ h2.block = h1.block
      /\ h2.place = h1.place /\ h2.child = h1.child /\ h2.refers = h1.refers
      /\ h2.rel = {r \in h1.rel : r.owner # n}
  BY <1>1, DeleteRelationsFrame DEF Sound
<1>6. \A r \in h.rel : r.edge[2] \in Durable => r \in h2.rel
  BY <1>0, <1>2, <1>5 DEF Sound, Unowned
<1> HIDE DEF h2
<1>7. Sound(s)
  BY <1>0, <1>4, UpsertRelationsSound
<1>8. /\ s.note = h2.note /\ s.mention = h2.mention /\ s.entity = h2.entity
      /\ s.registry = h2.registry /\ s.block = h2.block
      /\ s.place = h2.place /\ s.child = h2.child /\ s.refers = h2.refers
  BY <1>4, UpsertRelationsFrame DEF Sound
<1>9. \A r \in h2.rel : r.edge[2] \in Durable => r \in s.rel
  BY <1>4, UpsertKeepsDurable
<1> HIDE DEF s
<1>10. /\ Synced(h, s, v, x)
       /\ s.block = h.block /\ s.place = h.place
       /\ s.child = h.child /\ s.refers = h.refers
  BY <1>2, <1>5, <1>6, <1>7, <1>8, <1>9 DEF Synced
<1> QED BY <1>3, <1>10

\* The slow path, operator by operator: the blocks to rewrite go, the dirty
\* ones return with the hashes of their rows.
LEMMA SlowPathSynced ==
  ASSUME TypeOK, NEW h, Sound(h), NEW v \in Versions, NEW x \in Results,
         NEW D \in SUBSET Uids, NEW U \in SUBSET Uids,
         \A u \in D : Rows(Of[v])[u] # None,
         \A u \in Uids \ D : Rows(Of[v])[u] # None => u \notin U /\ h.block[u] # None
  PROVE  LET s == SlowPath(h, v, x, D, U) IN
         Synced(h, s, v, x) /\ Rewritten(h, s, Of[v], D, U)
<1> DEFINE n == Of[v]
           rows == Rows(n)
           h1 == DeleteBlocks(h, D \cup U)
           h2 == UpsertNoteAndMentions(h1, v, x)
           h3 == UpsertDirtyBlocks(h2, n, rows, D)
           h4 == UpsertBlockRefs(h3, n, D)
           s == UpsertRelations(h4, n, x)
<1>0. n \in Notes
  BY GraphAssumption
<1>1. Sound(h1)
  BY DeleteBlocksSound
<1>2. /\ h1.note = h.note /\ h1.mention = h.mention /\ h1.entity = h.entity
      /\ h1.registry = h.registry /\ h1.rel = h.rel
      /\ h1.block = [u \in Uids |-> IF u \in D \cup U THEN None ELSE h.block[u]]
      /\ h1.place = [u \in Uids |-> IF u \in D \cup U THEN None ELSE h.place[u]]
      /\ h1.child = {e \in h.child : {e[1], e[2]} \cap (D \cup U) = {}}
      /\ h1.refers = {e \in h.refers : {e[1], e[2]} \cap (D \cup U) = {}}
  BY DeleteBlocksFrame DEF Sound
<1>3. s = SlowPath(h, v, x, D, U)
  BY DEF SlowPath
<1> HIDE DEF h1
<1>4. Sound(h2)
  BY <1>1, UpsertNoteSound
<1>5. /\ h2.note = [h1.note EXCEPT ![n] = v]
      /\ h2.mention = {m \in h1.mention : m[1] # n} \cup ({n} \X x.ents)
      /\ h2.entity = h1.entity \cup x.ents
      /\ h2.registry = h1.registry /\ h2.rel = h1.rel /\ h2.block = h1.block
      /\ h2.place = h1.place /\ h2.child = h1.child /\ h2.refers = h1.refers
  <2>1. h1 \in Graphs
    BY <1>1 DEF Sound
  <2> QED BY <2>1, UpsertNoteFrame
<1>6. \A u \in Uids \ D : rows[u] # None => h2.block[u] # None
  BY <1>2, <1>5
<1> HIDE DEF h2
<1>7. Sound(h3) /\ \A u \in D : h3.block[u] # None
  BY <1>0, <1>4, <1>6, UpsertDirtyBlocksSound
<1>8. /\ h3.note = h2.note /\ h3.mention = h2.mention /\ h3.entity = h2.entity
      /\ h3.registry = h2.registry /\ h3.rel = h2.rel
      /\ h3.block = [u \in Uids |-> IF u \in D THEN rows[u] ELSE h2.block[u]]
      /\ h3.place = [u \in Uids |-> IF u \in D THEN Place[sql[n]][u] ELSE h2.place[u]]
      /\ h3.child = h2.child \cup ChildrenOf(n, D) /\ h3.refers = h2.refers
  <2>1. h2 \in Graphs
    BY <1>4 DEF Sound
  <2> QED BY <2>1, UpsertDirtyBlocksFrame
<1> HIDE DEF h3
<1>9. Sound(h4)
  BY <1>0, <1>7, UpsertBlockRefsSound
<1>10. /\ h4.note = h3.note /\ h4.mention = h3.mention /\ h4.entity = h3.entity
       /\ h4.registry = h3.registry /\ h4.rel = h3.rel /\ h4.block = h3.block
       /\ h4.place = h3.place /\ h4.child = h3.child
       /\ h4.refers = h3.refers \cup RefsOf(n, D)
  BY <1>7, UpsertBlockRefsFrame DEF Sound
<1> HIDE DEF h4
<1>11. Sound(s)
  BY <1>0, <1>9, UpsertRelationsSound
<1>12. /\ s.note = h4.note /\ s.mention = h4.mention /\ s.entity = h4.entity
       /\ s.registry = h4.registry /\ s.block = h4.block
       /\ s.place = h4.place /\ s.child = h4.child /\ s.refers = h4.refers
  BY <1>9, UpsertRelationsFrame DEF Sound
<1>13. \A r \in h4.rel : r.edge[2] \in Durable => r \in s.rel
  BY <1>9, UpsertKeepsDurable
<1> HIDE DEF s, rows
<1>14. Synced(h, s, v, x)
  BY <1>2, <1>5, <1>8, <1>10, <1>11, <1>12, <1>13 DEF Synced
<1>15. Rewritten(h, s, n, D, U)
  <2>1. \A u \in Uids :
            /\ s.block[u] = IF u \in D THEN rows[u]
                            ELSE IF u \in U THEN None ELSE h.block[u]
            /\ s.place[u] = IF u \in D THEN Place[sql[n]][u]
                            ELSE IF u \in U THEN None ELSE h.place[u]
    BY <1>2, <1>5, <1>8, <1>10, <1>12
  <2>2. /\ s.child = h1.child \cup ChildrenOf(n, D)
        /\ s.refers = h1.refers \cup RefsOf(n, D)
    BY <1>5, <1>8, <1>10, <1>12
  <2> QED BY <1>2, <2>1, <2>2 DEF Rewritten, rows
<1> QED BY <1>3, <1>14, <1>15

\* Whichever path the delta sync takes, it rewrites the dirty blocks and drops
\* the gone ones.
LEMMA SyncSynced ==
  ASSUME TypeOK, NEW h, Sound(h), NEW v \in Versions, NEW x \in Results
  PROVE  LET s == SyncNoteGraph(h, v, x)
             n == Of[v] IN
         /\ Synced(h, s, v, x)
         /\ Rewritten(h, s, n, Dirty(h, Rows(n)), Gone(h, n, Rows(n)))
<1> DEFINE n == Of[v]
           D == Dirty(h, Rows(n))
           U == Gone(h, n, Rows(n))
<1>1. /\ D \in SUBSET Uids /\ U \in SUBSET Uids
      /\ \A u \in Uids : u \in D <=> Rows(n)[u] # None /\ h.block[u] # Rows(n)[u]
      /\ \A u \in Uids : u \in U <=> Home[u] = n /\ h.block[u] # None /\ Rows(n)[u] = None
  BY DEF Dirty, Gone
<1>2. SyncNoteGraph(h, v, x) = IF D \cup U = {} THEN FastPath(h, v, x)
                               ELSE SlowPath(h, v, x, D, U)
  BY DEF SyncNoteGraph
<1> HIDE DEF D, U
<1>3. CASE D \cup U = {}
  <2> DEFINE s == FastPath(h, v, x)
  <2>1. /\ Synced(h, s, v, x)
        /\ s.block = h.block /\ s.place = h.place
        /\ s.child = h.child /\ s.refers = h.refers
    BY FastPathSynced
  <2>2. SyncNoteGraph(h, v, x) = s
    BY <1>2, <1>3
  <2> HIDE DEF s
  <2>3. ChildrenOf(n, D) = {} /\ RefsOf(n, D) = {}
    BY <1>3 DEF ChildrenOf, RefsOf
  <2>4. Rewritten(h, s, n, D, U)
    BY <1>3, <2>1, <2>3 DEF Rewritten
  <2> QED BY <2>1, <2>2, <2>4 DEF D, U
<1>4. CASE D \cup U # {}
  <2> DEFINE s == SlowPath(h, v, x, D, U)
  <2>1. /\ \A u \in D : Rows(n)[u] # None
        /\ \A u \in Uids \ D : Rows(n)[u] # None => u \notin U /\ h.block[u] # None
    BY <1>1
  <2>2. Synced(h, s, v, x) /\ Rewritten(h, s, n, D, U)
    BY <1>1, <2>1, SlowPathSynced
  <2>3. SyncNoteGraph(h, v, x) = s
    BY <1>2, <1>4
  <2> HIDE DEF s
  <2> QED BY <2>2, <2>3 DEF D, U
<1> QED BY <1>3, <1>4
-----------------------------------------------------------------------------
(*************************** the graph's invariant *************************)

\* A transaction's graph before its last sweep.
Settled(h) ==
    /\ Sound(h)
    /\ Registered(h)
    /\ \A n \in Notes : MentionsMatch(h, n)

\* The graph as every transaction leaves it.
Clean(h) == Settled(h) /\ h.entity \cup h.concept \cup h.registry \subseteq Mentioned(h)

\* The sweep makes a settled graph clean: a registered orphan is still a node,
\* so the sweep meets it.
LEMMA SweepCleans ==
  ASSUME NEW h, Settled(h), NEW live \in SUBSET Subjects
  PROVE  Clean(Sweep(h, live))
<1> DEFINE s == Sweep(h, live)
<1>1. Sound(s)
  BY SweepSound DEF Settled
<1>2. /\ s.entity = h.entity \cap Mentioned(h)
      /\ s.concept = h.concept \cap Mentioned(h)
      /\ s.registry = h.registry \ ((h.entity \cup h.concept) \ Mentioned(h))
      /\ s.mention = h.mention /\ s.note = h.note
  BY DEF Settled, Sound, Graphs, Sweep
<1> HIDE DEF s
<1>3. Mentioned(s) = Mentioned(h)
  BY <1>2 DEF Mentioned
<1>4. Registered(s) /\ s.entity \cup s.concept \cup s.registry \subseteq Mentioned(s)
  BY <1>2, <1>3 DEF Settled, Registered
<1>5. \A n \in Notes : MentionsMatch(s, n)
  BY <1>2 DEF Settled, MentionsMatch
<1>6. Clean(s)
  BY <1>1, <1>4, <1>5 DEF Clean, Settled
<1> QED BY <1>6 DEF s

\* The sweep spares an edge between mentioned concepts.
LEMMA SweepSpares ==
  ASSUME NEW h, Sound(h), NEW live
  PROVE  LET s == Sweep(h, live) IN
         /\ Mentioned(s) = Mentioned(h)
         /\ \A r \in h.rel : {r.edge[1], r.edge[3]} \subseteq Mentioned(s) => r \in s.rel
<1> DEFINE s == Sweep(h, live)
           orphans == (h.entity \cup h.concept) \ Mentioned(h)
<1>1. s.mention = h.mention /\ s.rel = {r \in h.rel : {r.edge[1], r.edge[3]} \cap orphans = {}}
  BY DEF Sound, Graphs, Sweep
<1> HIDE DEF s
<1>2. Mentioned(s) = Mentioned(h)
  BY <1>1 DEF Mentioned
<1> QED BY <1>1, <1>2 DEF s

\* Dropping notes keeps the graph settled, and the durable edges.
LEMMA DropNotesSettled ==
  ASSUME NEW h, Settled(h), NEW N \in SUBSET Notes
  PROVE  /\ Settled(DropNotes(h, N))
         /\ \A r \in h.rel : r.edge[2] \in Durable => r \in DropNotes(h, N).rel
<1> DEFINE s == DropNotes(h, N)
<1>1. Sound(s)
  BY DropNotesSound DEF Settled
<1>2. /\ s.note = [n \in Notes |-> IF n \in N THEN None ELSE h.note[n]]
      /\ s.mention = {m \in h.mention : m[1] \notin N}
      /\ s.rel = {r \in h.rel : r.owner \notin N}
      /\ s.entity = h.entity /\ s.registry = h.registry
  BY DEF Settled, Sound, Graphs, DropNotes
<1> HIDE DEF s
<1>3. ASSUME NEW n \in Notes PROVE MentionsMatch(s, n)
  <2>1. MentionsMatch(h, n)
    BY DEF Settled
  <2>2. CASE n \in N
    BY <1>2, <2>2 DEF MentionsMatch
  <2>3. CASE n \notin N
    <3>1. s.note[n] = h.note[n]
      BY <1>2, <2>3
    <3>2. \A e : <<n, e>> \in s.mention <=> <<n, e>> \in h.mention
      BY <1>2, <2>3
    <3>3. \A m \in s.mention : m \in h.mention
      BY <1>2
    <3> QED BY <2>1, <3>1, <3>2, <3>3 DEF MentionsMatch
  <2> QED BY <2>2, <2>3
<1>4. \A r \in h.rel : r.edge[2] \in Durable => r \in s.rel
  BY <1>2, GraphAssumption DEF Settled, Sound, Unowned
<1>5. Settled(s)
  BY <1>1, <1>2, <1>3 DEF Settled, Registered
<1> QED BY <1>4, <1>5 DEF s

\* Registering an extraction's entities and syncing the version with it.
LEMMA SyncSettled ==
  ASSUME TypeOK, NEW h, Settled(h), NEW v \in Versions, NEW x \in Extractions[v],
         NEW s, s = SyncNoteGraph([h EXCEPT !.registry = @ \cup x.ents], v, x)
  PROVE  /\ Settled(s)
         /\ \A r \in h.rel : r.edge[2] \in Durable => r \in s.rel
         /\ LET n == Of[v] IN
            Rewritten(h, s, n, Dirty(h, Rows(n)), Gone(h, n, Rows(n)))
<1> DEFINE k == [h EXCEPT !.registry = @ \cup x.ents]
<1>1. x \in Results /\ Of[v] \in Notes /\ v # None
  BY GraphAssumption
<1>2. /\ k \in Graphs
      /\ k.note = h.note /\ k.mention = h.mention /\ k.entity = h.entity
      /\ k.rel = h.rel /\ k.child = h.child /\ k.block = h.block
      /\ k.refers = h.refers /\ k.stub = h.stub /\ k.concept = h.concept
      /\ k.place = h.place
      /\ k.registry = h.registry \cup x.ents
  BY <1>1 DEF Settled, Sound, Graphs, Results
<1>3. s = SyncNoteGraph(k, v, x)
  OBVIOUS
<1> HIDE DEF k
<1>4. Sound(k)
  <2>1. Sound(h)
    BY DEF Settled
  <2>2. Endpoints(k)
    BY <1>2, <2>1 DEF Sound, Endpoints
  <2> QED BY <1>2, <2>1, <2>2 DEF Sound, Unowned
<1> DEFINE owner == Of[v]
<1>5. /\ Synced(k, s, v, x)
      /\ Rewritten(k, s, owner, Dirty(k, Rows(owner)), Gone(k, owner, Rows(owner)))
  BY <1>1, <1>3, <1>4, SyncSynced
<1>8. Rewritten(h, s, owner, Dirty(h, Rows(owner)), Gone(h, owner, Rows(owner)))
  <2>1. /\ Dirty(k, Rows(owner)) = Dirty(h, Rows(owner))
        /\ Gone(k, owner, Rows(owner)) = Gone(h, owner, Rows(owner))
    BY <1>2 DEF Dirty, Gone
  <2> QED BY <1>2, <1>5, <2>1 DEF Rewritten
<1>6. Registered(s)
  BY <1>2, <1>5 DEF Synced, Settled, Registered
<1>7. ASSUME NEW n \in Notes PROVE MentionsMatch(s, n)
  <2>1. CASE n = Of[v]
    <3>1. s.note[n] = v
      <4>1. k.note \in [Notes -> Versions \cup {None}]
        BY <1>2 DEF Graphs
      <4>2. s.note = [k.note EXCEPT ![n] = v]
        BY <1>5, <2>1 DEF Synced
      <4> QED BY <4>1, <4>2
    <3>2. \A e \in Concepts : <<n, e>> \in s.mention <=> e \in x.ents
      <4>1. s.mention = {m \in k.mention : m[1] # n} \cup ({n} \X x.ents)
        BY <1>5, <2>1 DEF Synced
      <4>2. \A e : <<n, e>>[1] = n
        OBVIOUS
      <4> QED BY <4>1, <4>2
    <3> QED BY <1>1, <3>1, <3>2 DEF MentionsMatch
  <2>2. CASE n # Of[v]
    <3>1. s.note[n] = h.note[n]
      <4>1. k.note \in [Notes -> Versions \cup {None}]
        BY <1>2 DEF Graphs
      <4>2. s.note = [k.note EXCEPT ![Of[v]] = v]
        BY <1>5 DEF Synced
      <4> QED BY <1>2, <2>2, <4>1, <4>2
    <3>2. \A m : m[1] = n => (m \in s.mention <=> m \in h.mention)
      <4>1. s.mention = {m \in k.mention : m[1] # Of[v]} \cup ({Of[v]} \X x.ents)
        BY <1>5 DEF Synced
      <4>2. \A m \in {Of[v]} \X x.ents : m[1] = Of[v]
        OBVIOUS
      <4> QED BY <1>2, <2>2, <4>1, <4>2
    <3>3. MentionsMatch(h, n)
      BY DEF Settled
    <3> QED BY <3>1, <3>2, <3>3 DEF MentionsMatch
  <2> QED BY <2>1, <2>2
<1> QED BY <1>2, <1>5, <1>6, <1>7, <1>8 DEF Settled, Synced
-----------------------------------------------------------------------------
(****************************** the steps **********************************)

GraphInv == TypeOK /\ Clean(g)

\* The empty graph is clean.
LEMMA InitClean == Init => GraphInv
<1> SUFFICES ASSUME Init PROVE GraphInv
  OBVIOUS
<1>1. Empty \in Graphs
  BY DEF Empty, Graphs
<1>2. Clean(Empty)
  BY <1>1 DEF Clean, Settled, Sound, Registered, MentionsMatch, Endpoints, Unowned,
              Empty, Mentioned
<1>3. TypeOK
  BY <1>1, GraphAssumption DEF Init, TypeOK, Idle
<1> QED BY <1>2, <1>3 DEF Init, GraphInv

\* The subjects of the live notes are subjects: the type of what a sweep and a
\* reconcile are given.
LEMMA LiveType ==
  ASSUME TypeOK
  PROVE  LiveNotes \in SUBSET Notes /\ LiveSubjects \in SUBSET Subjects
  BY GraphAssumption DEF TypeOK, LiveNotes, LiveSubjects

\* A sync transaction.
LEMMA PersistStep ==
  ASSUME GraphInv, NEW v \in Versions, Persist(v)
  PROVE  /\ GraphInv'
         /\ LET n == Of[v] IN
            Rewritten(g, g', n, Dirty(g, Rows(n)), Gone(g, n, Rows(n)))
         /\ \A r \in g.rel : r.edge[2] \in Durable /\ r \notin g'.rel
                => ~({r.edge[1], r.edge[3]} \subseteq Mentioned(g'))
<1>1. PICK x \in Extractions[v] :
        g' = Sweep(SyncNoteGraph([g EXCEPT !.registry = @ \cup x.ents], v, x), LiveSubjects)
  BY DEF Persist
<1> DEFINE s == SyncNoteGraph([g EXCEPT !.registry = @ \cup x.ents], v, x)
           n == Of[v]
<1>2. /\ Settled(s)
      /\ \A r \in g.rel : r.edge[2] \in Durable => r \in s.rel
      /\ Rewritten(g, s, n, Dirty(g, Rows(n)), Gone(g, n, Rows(n)))
  BY SyncSettled DEF GraphInv, Clean
<1>3. g' = Sweep(s, LiveSubjects)
  BY <1>1
<1> HIDE DEF s
<1>4. Clean(g') /\ g' \in Graphs
  BY <1>2, <1>3, LiveType, SweepCleans DEF GraphInv, Clean, Settled, Sound
<1>5. /\ Mentioned(g') = Mentioned(s)
      /\ \A r \in s.rel : {r.edge[1], r.edge[3]} \subseteq Mentioned(g') => r \in g'.rel
  BY <1>2, <1>3, SweepSpares DEF Settled
<1>6. /\ g'.block = s.block /\ g'.place = s.place
      /\ g'.child = s.child /\ g'.refers = s.refers
  BY <1>2, <1>3 DEF Settled, Sound, Graphs, Sweep
<1>7. TypeOK'
  BY <1>4 DEF GraphInv, TypeOK, Persist
<1>8. Rewritten(g, g', n, Dirty(g, Rows(n)), Gone(g, n, Rows(n)))
  BY <1>2, <1>6 DEF Rewritten
<1> QED BY <1>2, <1>4, <1>5, <1>7, <1>8 DEF GraphInv

\* A delete_note transaction.
LEMMA DeleteStep ==
  ASSUME GraphInv, NEW n \in Notes, Delete(n)
  PROVE  /\ GraphInv'
         /\ \A r \in g.rel : r.edge[2] \in Durable /\ r \notin g'.rel
                => ~({r.edge[1], r.edge[3]} \subseteq Mentioned(g'))
<1> DEFINE s == DropNotes(g, {n})
<1>1. Settled(s) /\ \A r \in g.rel : r.edge[2] \in Durable => r \in s.rel
  BY DropNotesSettled DEF GraphInv, Clean
<1>2. LiveSubjects' \in SUBSET Subjects
  BY GraphAssumption DEF GraphInv, TypeOK, LiveNotes, LiveSubjects, Delete
<1>3. g' = Sweep(s, LiveSubjects')
  BY DEF Delete
<1> HIDE DEF s
<1>4. Clean(g') /\ g' \in Graphs
  BY <1>1, <1>2, <1>3, SweepCleans DEF Clean, Settled, Sound
<1>5. /\ Mentioned(g') = Mentioned(s)
      /\ \A r \in s.rel : {r.edge[1], r.edge[3]} \subseteq Mentioned(g') => r \in g'.rel
  BY <1>1, <1>3, SweepSpares DEF Settled
<1>6. TypeOK'
  BY <1>4, GraphAssumption DEF GraphInv, TypeOK, Delete
<1> QED BY <1>1, <1>4, <1>5, <1>6 DEF GraphInv

\* A reconcile transaction, whatever ids it had listed.
LEMMA ReconcileStep ==
  ASSUME GraphInv, Reconcile
  PROVE  /\ GraphInv'
         /\ \A r \in g.rel : r.edge[2] \in Durable /\ r \notin g'.rel
                => ~({r.edge[1], r.edge[3]} \subseteq Mentioned(g'))
<1> DEFINE N == {n \in Notes : g.note[n] # None} \ pass.notes
           s == DropNotes(g, N)
           t == Sweep(s, pass.subjects)
<1>1. Settled(s) /\ \A r \in g.rel : r.edge[2] \in Durable => r \in s.rel
  <2>1. N \in SUBSET Notes
    OBVIOUS
  <2> HIDE DEF N
  <2> QED BY <2>1, DropNotesSettled DEF GraphInv, Clean
<1>2. pass.subjects \in SUBSET Subjects
  BY DEF GraphInv, TypeOK
<1>3. g' = [t EXCEPT !.registry = @ \cap Mentioned(t)]
  BY DEF Reconcile
<1> HIDE DEF s
<1>4. Clean(t)
  BY <1>1, <1>2, SweepCleans
<1>5. /\ Mentioned(t) = Mentioned(s)
      /\ \A r \in s.rel : {r.edge[1], r.edge[3]} \subseteq Mentioned(t) => r \in t.rel
  BY <1>1, SweepSpares DEF Settled
<1> HIDE DEF t
<1>6. /\ g'.note = t.note /\ g'.block = t.block /\ g'.place = t.place
      /\ g'.stub = t.stub
      /\ g'.child = t.child /\ g'.refers = t.refers /\ g'.mention = t.mention
      /\ g'.rel = t.rel /\ g'.entity = t.entity /\ g'.concept = t.concept
      /\ g'.registry = t.registry \cap Mentioned(t)
      /\ g' \in Graphs
  BY <1>3, <1>4 DEF Clean, Settled, Sound, Graphs
<1>7. Mentioned(g') = Mentioned(t)
  BY <1>6 DEF Mentioned
<1>8. Settled(g')
  BY <1>4, <1>6 DEF Clean, Settled, Sound, Registered, Endpoints, Unowned, MentionsMatch
<1>9. Clean(g')
  BY <1>4, <1>6, <1>7, <1>8 DEF Clean
<1>10. TypeOK'
  BY <1>6 DEF GraphInv, TypeOK, Reconcile, Idle
<1> QED BY <1>1, <1>5, <1>6, <1>7, <1>9, <1>10 DEF GraphInv

\* Saves, loads and listings leave the graph alone.
LEMMA OtherSteps ==
  ASSUME GraphInv,
         \/ \E v \in Versions : Save(v)
         \/ \E n \in Notes : Load(n)
         \/ ListIds
         \/ UNCHANGED vars
  PROVE  GraphInv' /\ g' = g
<1>1. g' = g
  BY DEF Save, Load, ListIds, vars
<1>2. CASE \E v \in Versions : Save(v)
  BY <1>1, <1>2, GraphAssumption DEF GraphInv, TypeOK, Save
<1>3. CASE \E n \in Notes : Load(n)
  BY <1>1, <1>3 DEF GraphInv, TypeOK, Load
<1>4. CASE ListIds
  BY <1>1, <1>4, LiveType DEF GraphInv, TypeOK, ListIds
<1>5. CASE UNCHANGED vars
  BY <1>5 DEF GraphInv, TypeOK, vars
<1> QED BY <1>1, <1>2, <1>3, <1>4, <1>5

\* Emptying the registry leaves the graph alone.
LEMMA ClearStep ==
  ASSUME GraphInv, ClearRegistry
  PROVE  GraphInv' /\ g'.rel = g.rel
<1>1. /\ g'.note = g.note /\ g'.block = g.block /\ g'.place = g.place
      /\ g'.stub = g.stub
      /\ g'.child = g.child /\ g'.refers = g.refers /\ g'.mention = g.mention
      /\ g'.rel = g.rel /\ g'.entity = g.entity /\ g'.concept = g.concept
      /\ g'.registry = {} /\ g' \in Graphs
  BY DEF ClearRegistry, GraphInv, TypeOK, Graphs
<1>2. Mentioned(g') = Mentioned(g)
  BY <1>1 DEF Mentioned
<1>3. Settled(g')
  BY <1>1 DEF GraphInv, Clean, Settled, Sound, Registered, Endpoints, Unowned,
              MentionsMatch
<1>4. TypeOK'
  BY <1>1 DEF GraphInv, TypeOK, ClearRegistry
<1> QED BY <1>1, <1>2, <1>3, <1>4 DEF GraphInv, Clean

\* No step removes a durable edge whose concepts both stay mentioned.
LEMMA NextClean ==
  ASSUME GraphInv, [Next]_vars
  PROVE  /\ GraphInv'
         /\ \A r \in g.rel : r.edge[2] \in Durable /\ r \notin g'.rel
                => ~({r.edge[1], r.edge[3]} \subseteq Mentioned(g'))
<1>1. CASE \E v \in Versions : Persist(v)
  BY <1>1, PersistStep
<1>2. CASE \E n \in Notes : Delete(n)
  BY <1>2, DeleteStep
<1>3. CASE Reconcile
  BY <1>3, ReconcileStep
<1>4. CASE ClearRegistry
  BY <1>4, ClearStep
<1>5. CASE \/ \E v \in Versions : Save(v)
           \/ \E n \in Notes : Load(n)
           \/ ListIds
           \/ UNCHANGED vars
  BY <1>5, OtherSteps
<1> QED BY <1>1, <1>2, <1>3, <1>4, <1>5 DEF Next
-----------------------------------------------------------------------------
(**************************** blocks over time *****************************)

\* A note's stored version is one of its own, and what each Block node stores
\* is of one version.
BlockInv ==
    /\ \A n \in Notes : sql[n] # None => Of[sql[n]] = n
    /\ BlocksOfOneVersion

\* A dirty block takes everything from the stored version, and loses its old
\* edges; a block that stays can only lose edges.
LEMMA RewrittenFromOneVersion ==
  ASSUME TypeOK, BlockInv, NEW n \in Notes, NEW h, NEW s,
         \A u \in Uids : FromOneVersion(h, u),
         Rewritten(h, s, n, Dirty(h, Rows(n)), Gone(h, n, Rows(n)))
  PROVE  \A u \in Uids : FromOneVersion(s, u)
<1> DEFINE D == Dirty(h, Rows(n))
           U == Gone(h, n, Rows(n))
<1>1. \A u \in D : Rows(n)[u] # None
  BY DEF Dirty
<1>2. Rewritten(h, s, n, D, U)
  OBVIOUS
<1> HIDE DEF D, U
<1>3. SUFFICES ASSUME NEW u \in Uids, s.block[u] # None
               PROVE  \E v \in Versions :
                          /\ Of[v] = Home[u] /\ s.block[u] = Text[v][u] /\ s.place[u] = Place[v][u]
                          /\ \A e \in s.child : e[2] = u => e[1] = Place[v][u].parent
                          /\ \A e \in s.refers : e[1] = u => e \in Refs[v]
  BY DEF FromOneVersion
<1>4. CASE u \in D
  <2>1. Home[u] = n /\ sql[n] # None /\ sql[n] \in Versions
    BY <1>1, <1>4, RowsType DEF TypeOK
  <2>2. Of[sql[n]] = n
    BY <2>1 DEF BlockInv
  <2>3. s.block[u] = Text[sql[n]][u] /\ s.place[u] = Place[sql[n]][u]
    BY <1>2, <1>4, <2>1 DEF Rewritten, Rows
  <2>4. \A e \in s.child : e[2] = u => e[1] = Place[sql[n]][u].parent
    BY <1>2, <1>4 DEF Rewritten, ChildrenOf
  <2>5. \A e \in s.refers : e[1] = u => e \in Refs[sql[n]]
    BY <1>2, <1>4, <2>1 DEF Rewritten, RefsOf
  <2> QED BY <2>1, <2>2, <2>3, <2>4, <2>5
<1>5. CASE u \notin D
  <2>1. h.block[u] # None /\ s.block[u] = h.block[u] /\ s.place[u] = h.place[u]
    BY <1>2, <1>3, <1>5 DEF Rewritten
  <2>2. PICK v \in Versions :
            /\ Of[v] = Home[u] /\ h.block[u] = Text[v][u] /\ h.place[u] = Place[v][u]
            /\ \A e \in h.child : e[2] = u => e[1] = Place[v][u].parent
            /\ \A e \in h.refers : e[1] = u => e \in Refs[v]
    BY <2>1 DEF FromOneVersion
  <2>3. \A e \in s.child : e[2] = u => e \in h.child
    BY <1>2, <1>5 DEF Rewritten, ChildrenOf
  <2>4. \A e \in s.refers : e[1] = u => e \in h.refers
    BY <1>2, <1>5 DEF Rewritten, RefsOf
  <2> QED BY <2>1, <2>2, <2>3, <2>4
<1> QED BY <1>4, <1>5

\* A sweep leaves blocks alone; dropping notes drops whole blocks and edges.
LEMMA DroppedFromOneVersion ==
  ASSUME NEW h \in Graphs, \A u \in Uids : FromOneVersion(h, u),
         NEW N \in SUBSET Notes, NEW live
  PROVE  \A u \in Uids : FromOneVersion(Sweep(DropNotes(h, N), live), u)
<1> DEFINE d == DropNotes(h, N)
           s == Sweep(d, live)
<1>1. /\ \A u \in Uids : /\ d.block[u] = IF Home[u] \in N THEN None ELSE h.block[u]
                         /\ d.place[u] = IF Home[u] \in N THEN None ELSE h.place[u]
      /\ d.child \subseteq h.child /\ d.refers \subseteq h.refers
  BY DEF DropNotes, Graphs
<1>2. s.block = d.block /\ s.place = d.place /\ s.child = d.child /\ s.refers = d.refers
  BY DEF Sweep, DropNotes, Graphs
<1> HIDE DEF d, s
<1>3. \A u \in Uids : FromOneVersion(s, u)
  BY <1>1, <1>2 DEF FromOneVersion
<1> QED BY <1>3 DEF s, d

\* No step gives a block what another version says of it.
LEMMA BlocksKept ==
  ASSUME GraphInv, BlockInv, [Next]_vars
  PROVE  BlockInv'
<1>0. TypeOK /\ g \in Graphs /\ \A u \in Uids : FromOneVersion(g, u)
  BY DEF GraphInv, TypeOK, BlockInv, BlocksOfOneVersion
<1>1. ASSUME NEW v \in Versions, Save(v) PROVE BlockInv'
  BY <1>1, GraphAssumption DEF Save, BlockInv, BlocksOfOneVersion, GraphInv, TypeOK
<1>2. ASSUME NEW v \in Versions, Persist(v) PROVE BlockInv'
  <2>1. Of[v] \in Notes
    BY GraphAssumption
  <2>2. \A u \in Uids : FromOneVersion(g', u)
    BY <1>0, <1>2, <2>1, PersistStep, RewrittenFromOneVersion
  <2> QED BY <1>2, <2>2 DEF Persist, BlockInv, BlocksOfOneVersion
<1>3. ASSUME NEW n \in Notes, Delete(n) PROVE BlockInv'
  <2>1. \A u \in Uids : FromOneVersion(g', u)
    BY <1>0, <1>3, DroppedFromOneVersion DEF Delete
  <2>2. \A m \in Notes : sql'[m] # None => Of[sql'[m]] = m
    BY <1>3 DEF Delete, BlockInv, GraphInv, TypeOK
  <2> QED BY <2>1, <2>2 DEF BlockInv, BlocksOfOneVersion
<1>4. ASSUME Reconcile PROVE BlockInv'
  <2> DEFINE N == {n \in Notes : g.note[n] # None} \ pass.notes
             s == Sweep(DropNotes(g, N), pass.subjects)
  <2>1. \A u \in Uids : FromOneVersion(s, u)
    BY <1>0, DroppedFromOneVersion
  <2>2. g' = [s EXCEPT !.registry = @ \cap Mentioned(s)]
    BY <1>4 DEF Reconcile
  <2>3. s.block = g'.block /\ s.place = g'.place /\ s.child = g'.child /\ s.refers = g'.refers
    <3>1. N \in SUBSET Notes /\ pass.subjects \in SUBSET Subjects
      BY DEF GraphInv, TypeOK
    <3>2. s \in Graphs
      BY <3>1, DropNotesSound, SweepSound DEF GraphInv, Clean, Settled, Sound
    <3> HIDE DEF s
    <3> QED BY <2>2, <3>2 DEF Graphs
  <2> HIDE DEF s
  <2>4. \A u \in Uids : FromOneVersion(g', u)
    BY <2>1, <2>3 DEF FromOneVersion
  <2> QED BY <1>4, <2>4 DEF Reconcile, BlockInv, BlocksOfOneVersion
<1>5. ASSUME ClearRegistry PROVE BlockInv'
  <2>1. g'.block = g.block /\ g'.place = g.place /\ g'.child = g.child /\ g'.refers = g.refers
    BY <1>0, <1>5 DEF ClearRegistry, Graphs
  <2>2. \A u \in Uids : FromOneVersion(g', u)
    BY <1>0, <2>1 DEF FromOneVersion
  <2> QED BY <1>5, <2>2 DEF ClearRegistry, BlockInv, BlocksOfOneVersion
<1>6. CASE (\E n \in Notes : Load(n)) \/ ListIds \/ UNCHANGED vars
  BY <1>6 DEF Load, ListIds, vars, BlockInv, BlocksOfOneVersion
<1> QED BY <1>1, <1>2, <1>3, <1>4, <1>5, <1>6 DEF Next

\* Only a sync takes a version out of calls.
LEMMA CommittedPersist ==
  ASSUME [Next]_vars, NEW v \in Committed
  PROVE  Persist(v)
  BY DEF Committed, Next, vars, Save, Delete, Load, Persist, ListIds, Reconcile, ClearRegistry

\* What the sync rewrites is what the rows it read say.
LEMMA PersistIsExact ==
  ASSUME GraphInv, BlockInv, NEW v \in Versions, Persist(v)
  PROVE  LET n == Of[v] IN
         /\ \A u \in Uids : Home[u] = n => g'.block[u] = Rows(n)[u]
         /\ \A u \in Dirty(g, Rows(n)) : AsItsRow(g', sql[n], u)
<1> DEFINE n == Of[v]
           D == Dirty(g, Rows(n))
           U == Gone(g, n, Rows(n))
<1>0. TypeOK /\ n \in Notes
  BY GraphAssumption DEF GraphInv
<1>1. Rewritten(g, g', n, D, U)
  BY PersistStep
<1>2. /\ \A u \in Uids : u \in D <=> Rows(n)[u] # None /\ g.block[u] # Rows(n)[u]
      /\ \A u \in Uids : u \in U <=> Home[u] = n /\ g.block[u] # None /\ Rows(n)[u] = None
      /\ D \subseteq Uids
  BY DEF Dirty, Gone
<1> HIDE DEF D, U
<1>3. \A u \in Uids : Home[u] = n => g'.block[u] = Rows(n)[u]
  BY <1>1, <1>2 DEF Rewritten
<1>4. ASSUME NEW u \in D PROVE AsItsRow(g', sql[n], u)
  <2>1. sql[n] # None /\ Of[sql[n]] = n
    BY <1>0, <1>2, RowsType DEF BlockInv
  <2>2. g'.place[u] = Place[sql[n]][u]
    BY <1>1, <1>2 DEF Rewritten
  <2>3. ASSUME NEW w \in Uids
        PROVE  <<w, u>> \in g'.child <=> w = Place[sql[n]][u].parent /\ Rows(n)[w] # None
    BY <1>1, <1>2 DEF Rewritten, ChildrenOf
  <2>4. ASSUME NEW w \in Uids
        PROVE  <<u, w>> \in g'.refers <=>
                   <<u, w>> \in Refs[sql[n]] /\ u # w /\ Rows(Home[w])[w] # None
    BY <1>1, <1>2, <2>1 DEF Rewritten, RefsOf
  <2> QED BY <2>1, <2>2, <2>3, <2>4 DEF AsItsRow
<1> QED BY <1>3, <1>4 DEF D
-----------------------------------------------------------------------------
(******************************* theorems **********************************)

\* GraphInv is an invariant of every interleaving of the transactions.
THEOREM GraphInvariance == Spec => []GraphInv
<1>1. Init => GraphInv
  BY InitClean
<1>2. GraphInv /\ [Next]_vars => GraphInv'
  BY NextClean
<1> QED BY <1>1, <1>2, PTL DEF Spec

\* The graph always has the shape the sync service expects of it.
THEOREM GraphTypeCorrect == Spec => []TypeOK
<1>1. GraphInv => TypeOK
  BY DEF GraphInv
<1> QED BY <1>1, GraphInvariance, PTL

\* sweep_orphans at the end of each transaction leaves no Concept, Entity or
\* registry row that no note mentions.
THEOREM NothingOrphaned == Spec => []NoOrphans
<1>1. GraphInv => NoOrphans
  BY DEF GraphInv, Clean, NoOrphans
<1> QED BY <1>1, GraphInvariance, PTL

\* On the fast and on the slow path alike, the MENTIONS edges of a note are
\* those of one extraction of the version stamped on its node.
THEOREM MentionsAreCurrent == Spec => []MentionsOfNode
<1>1. GraphInv => MentionsOfNode
  BY DEF GraphInv, Clean, Settled, MentionsOfNode
<1> QED BY <1>1, GraphInvariance, PTL

\* delete_dangling_edges has nothing to do: no transaction leaves an edge
\* without its endpoints.
THEOREM NothingDangles == Spec => []NoDanglingEdges
<1>1. GraphInv => NoDanglingEdges
  BY DEF GraphInv, Clean, Settled, Sound, NoDanglingEdges
<1> QED BY <1>1, GraphInvariance, PTL

\* BlockInv is an invariant beside GraphInv.
THEOREM BlockInvariance == Spec => []BlockInv
<1>1. Init => BlockInv
  BY DEF Init, Empty, BlockInv, BlocksOfOneVersion, FromOneVersion
<1>2. GraphInv /\ BlockInv /\ [Next]_vars => BlockInv'
  BY BlocksKept
<1> QED BY <1>1, <1>2, GraphInvariance, PTL DEF Spec

\* Hash, place, references and parent edge of a Block node are of one version
\* of its note, through every later sync, sweep and delete.
THEOREM BlockStaysWhole == Spec => []BlocksOfOneVersion
<1>1. BlockInv => BlocksOfOneVersion
  BY DEF BlockInv
<1> QED BY <1>1, BlockInvariance, PTL

\* sync_note_graph leaves exactly the Block nodes of the note's rows, by the
\* hash of their text, and what it rewrites has the structure of its row.
THEOREM DeltaIsComplete == Spec => DeltaIsExact
<1>1. ASSUME GraphInv, BlockInv, [Next]_vars, NEW v \in Committed
      PROVE  LET n == Of[v] IN
             /\ \A u \in Uids : Home[u] = n => g'.block[u] = Rows(n)[u]
             /\ \A u \in Dirty(g, Rows(n)) : AsItsRow(g', sql[n], u)
  <2>1. v \in Versions
    BY <1>1 DEF GraphInv, TypeOK, Committed
  <2> QED BY <1>1, <2>1, CommittedPersist, PersistIsExact
<1>2. GraphInv /\ BlockInv /\ [Next]_vars =>
        [\A v \in Committed :
            LET n == Of[v] IN
            /\ \A u \in Uids : Home[u] = n => g'.block[u] = Rows(n)[u]
            /\ \A u \in Dirty(g, Rows(n)) : AsItsRow(g', sql[n], u)]_vars
  BY <1>1
<1> QED BY <1>2, GraphInvariance, BlockInvariance, PTL DEF Spec, DeltaIsExact

\* A taxonomic edge (IS_A, SYNONYM_OF) outlives edits and deletes of the notes
\* it was derived from while both concepts are mentioned.
THEOREM TaxonomyAccretes == Spec => DurableStays
<1>1. GraphInv /\ [Next]_vars =>
        [\A r \in g.rel : r.edge[2] \in Durable /\ r \notin g'.rel
            => ~({r.edge[1], r.edge[3]} \subseteq Mentioned(g'))]_vars
  BY NextClean
<1> QED BY <1>1, GraphInvariance, PTL DEF Spec, DurableStays
=============================================================================
