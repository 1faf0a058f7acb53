# NeuroNote in TLA+

NeuroNote is a note editor (Next.js, `src/web`) with an API (FastAPI, `src/api`)
that extracts the concepts of every note in the background and keeps them in a
graph (PostgreSQL with Apache AGE, one schema and one graph per tenant). This
directory holds TLA+ models of it, TLC configurations that check them, and TLAPS
proofs of the safety properties. Everything is translated from the code; paths
below are relative to `src/api/src/app` unless they begin with `src/`.

## Inventory

| Part | State it keeps | Operations | What is hard | What makes it correct |
|---|---|---|---|---|
| Notes (`routes/notes.py`, `db/repositories/note_repository.py`) | note rows, `content_hash`, blocks | put, delete, list | a PUT that arrives late, title check-then-insert | row, blocks and hash change together; a delete takes the graph along |
| Processing jobs (`routes/process.py`, `core/job_store.py`) | `processing_jobs` rows, background tasks | create or reuse, mark running / completed / failed, startup clean-up | several worker processes, crashes, status writes that raise | one usable job per version, final statuses final, no job left unsettled |
| Note processing (`services/note_processing_service.py`) | a loaded snapshot | load, extract, persist | the note changes or goes while it is processed | nothing of a deleted note comes back unless it was being processed |
| Graph sync (`services/graph_sync_service.py`, `db/repositories/graph_repository.py`) | Note, Block, Entity, Concept, Subject nodes, edges with `source_note_id` | delta sync, fast path, upserts, artifact deletion | notes share concepts; a delta that sees changed texts only | no orphans, no half edges, mentions and texts of the synced version, nodes that mix no versions |
| Reconciliation (`services/graph_reconciliation_service.py`) | ids listed before the graph is read | sweep orphans, reconcile, delete a note's graph | the listing is stale when it is used | only notes that were gone are pruned |
| Startup backfill (`services/startup_backfill_service.py`, `main.py`, `routes/backfill.py`) | list of stale notes, progress file | reprocess stale or all notes, reconcile | runs in every worker, beside the jobs | adds nothing for deleted notes; ends |
| Backfill progress (`core/backfill_store.py`, `routes/backfill.py`) | a JSON file in the temporary directory, an executor per worker | submit a run, read, write | truncating write, check-then-act, overlapping runs, a worker that dies in mid-run | the file never refuses runs for good |
| Block extraction (`db/repositories/block_repository.py`, `utils/tiptap.py`) | block rows of a note | walk a document, replace rows | a uid twice in a document, a parent that was renamed | rows are those of the stored document, and stable |
| Media assets (`routes/media.py`, `services/note_asset_service.py`) | files and `note_assets` rows | upload, reconcile at a save, delete | file and row are not one transaction | an active row has its file; a save removes its own note's images only |
| Import and export (`import_/markdown_parser.py`, `export/markdown.py`, `routes/import_.py`) | none | render, parse, save | two formats of different reach | what both formats share comes back |
| NLP pipeline (`nlp/*.py`) | `concept_registry`, in-process extraction cache | extract, normalise, register | stages drop phrases later ones speak of; the cache key leaves out what the result depends on | relations join kept concepts; a note extracted again gives the same |
| Entity aliases (`nlp/resolution`, `routes/entity_aliases.py`) | `entity_aliases` | confirm, resolve | overlapping confirmations, layers with close scores | what was confirmed first with most confidence wins |
| Graph views (`core/graph_cache.py`, `services/local_graph_service.py`, `services/global_graph_service.py`) | LRU in the process | compile, cache | version read before the rows, truncation | a cached graph shows its seed as it was since the request began; a response is closed |
| Concept insight (`services/concept_insight_service.py`) | `concept_insight_cache` | find notes, call an LLM, cache | notes change during the call | an insight is about the notes it comes with |
| Tenant binding (`db/engine.py`, `db/tenant_session.py`) | tenant of a connection, context variable | bind, commit, check in | pooled connections, commits in mid-request, sessions closed by the event loop | no statement runs in another tenant; no request hangs |
| Provisioning, authentication (`db/tenant.py`, `routes/auth.py`) | users, schemas, AGE graphs, cookies | sign in, create schema, refresh, log out | two first logins, errors inside DDL | a token names a complete schema of its owner |
| Editor (`src/web/src/components/editor`, `src/web/src/lib/orchestration`) | snapshot, timers, requests in flight | autosave, flush, poll | debounce, aborts, late answers | the last edit is what is stored |
| Edge LLM, preferences in the browser, embeddings, workspace and graph UI, migrations | | | | see `PROJECT.json` |

Interactions. The editor PUTs a note and, after the save, posts
`process-note`. The route commits a job row and starts a background task in its
own worker process. The task marks the row, loads the note in one session,
extracts, and writes graph and embedding in another; a delete removes row and
graph in one transaction. Every worker runs, when it starts, the clean-up of job
rows and then a backfill and a reconcile in threads beside the requests.
`src/infra/docker-compose.yml:45-46` starts four workers. The only things shared
between workers are PostgreSQL, the media directory and the progress file.

`PROJECT.json` lists every hazard of this code at its line with the properties
that cover it, or why none does yet.

## Modules

| Module | Contents |
|---|---|
| `NoteProcessing` | who may do what when: users, requests, background tasks, backfills, reconciles, worker starts and deaths |
| `JobStore` | the abstract job store: `_mem_*` of `core/job_store.py`, the store the tests run on, which says what the database version promises |
| `GraphSync` | what a transaction does to the graph: the whole of `sync_note_graph`, the sweep, the deletion of a note's artifacts |
| `Editor` | one opened note in the browser: timers, saves and processing requests in flight, pollers |
| `NoteStore` | the note, block and asset rows and the media directory under saves, imports, deletes and uploads |
| `BlockTree` | the walk that makes block rows of a document; used by `NoteStore` |
| `Markdown` | the renderer and the parser of markdown; used by `NoteStore` and `Transfer` |
| `Transfer` | a note, the file it was exported to and the note imported last |
| `Tenancy` | sessions, connections, event loops, sign-in |
| `GraphViews` | local and global graph, their cache, concept insight |
| `Reprocess` | reprocessing runs and the progress file; extends `GraphViews`, whose graph they rebuild |
| `Aliases` | the alias table under confirmations, and the resolver that reads it |
| `Pipeline` | the extraction pipeline: its stages as operators, a note and the concept registry as state |
| `MCNoteProcessing`, `MCGraphSync`, `MCEditor`, `MCNoteStore`, `MCTenancy`, `MCViews`, `MCAliases`, `MCAlgorithms` | instances for TLC |
| `NoteProcessing_proofs` | theorems for any number of workers |
| `GraphSync_proofs` | theorems about the graph |
| `Editor_proofs` | theorems about the editor, for any number of edits |
| `Tenancy_proofs` | theorems about tenants, for any number of people, workers, connections and requests |
| `NoteStore_proofs` | theorems about titles, images, block rows, pages and files, for any number of notes, requests and uploads and documents of any length |
| `GraphViews_proofs` | theorems about cached and compiled graphs and insights, for any number of notes, hops, requests and workers |
| `Nlp_proofs` | theorems about aliases, for every table and any number of confirmations in flight, and about the extraction of any note |
| `Counting` | lemmas about ranks in an ordered finite set, windows of them, finite unions, greatest and least elements, recursion, used by the proofs |

### NoteProcessing

One tenant. `note` is the notes table reduced to the stored `content_hash`,
`status`/`key` the `processing_jobs` rows, `graph` the two stamps the graph has
per note: `node`, the version its mentions come from, and `blocks`, the version
its Block nodes come from. A thread is a job id (the request that may insert the
row, and then its task) or a worker (its backfill); `pc` is its control point,
`run` what its `process_note` call holds in memory, `rec` the reconcile of a
worker. An action is one committed transaction, or one read of committed data
(the engine runs READ COMMITTED) whose result a later action uses. So the
windows of the code are windows of the model: between the SELECT and the INSERT
of a job (`MissJob`, `InsertJob`), between snapshot, block read and commit
(`Load`, `ReadBlocks`, `CommitGraph`), between the live-id listing, the node
listing and the pruning of a reconcile (`ListLive`, `FindStale`, `Prune`).

Failures: `RaiseInProcess` (a step of `process_note` raises and its transaction
rolls back), `LoseTask` (a status write raises; it is outside the inner `try`
and the outer one only logs), `RaiseInReconcile`, the fault branch of
`ListBackfill` (the staleness check raises and everything is reprocessed),
`StartupUnmarked` (`mark_stale_jobs_as_failed` swallows its exception), `Crash`.

Processing requests come at any time: the editor's timer and its blur send one
whether or not the save before it has been answered, and several may ask for one
version. `Overlap` says whether two `process-note` requests may be in flight
together. `left` bounds saves and deletes, crashes, faults and administrator
calls; a guard `Spend` is each bound's only use.

### JobStore

`_mem_create_or_get_job` runs under one lock: a row that has not failed for the key, or a
new queued one, in one step. `Transition` and `Interrupt` complete it. `Store` in
`NoteProcessing` is its instance, with `key` hidden until the row exists.

### GraphSync

The transactions that `NoteProcessing` orders, each one step here, computed by
operators named after the repository and service functions they stand for.
`sql` holds the stored versions; a version is a constant with its blocks (hash of the
text, place, references), its subject and the extractions the pipeline may
return (`Extractions[v]` is a set: the registry and the models make the result vary).
A Block node has the hash (`block`) and the `place` that stand in it: `parent_block_uid`, and
`sibling_order` with `block_index` as one number. `child` and `refers` are its
`HAS_CHILD` and `REFERS_TO` edges. `Dirty` compares hashes only, as the code does, so a block
that was only moved keeps its place and its edges; `DeleteBlocks` takes every edge of
a rewritten block along, `UpsertDirtyBlocks` and `UpsertBlockRefs` write those of dirty blocks
again. Hence a delta does not equal a replacement, and the properties say what does hold:
`DeltaIsExact` of each sync, `BlocksOfOneVersion` of any number of them.
Edges carry what the code stores on them: `rel` has the owner note or, for
`IS_A` and `SYNONYM_OF`, none; `MERGE` on (subject, predicate, object) overwrites
the owner. `stub` are Block nodes that a reference's MERGE created. `calls` holds
loaded snapshots, so an old version may be persisted after a newer save or after
the delete; the blocks are read live, as in the code.

Left out: embeddings, aliases (`resolved_entities` is always `{}` where
`sync_note_graph` is called), confidence scores and every property of a node no
property of the model tells apart, and the conflicts of two transactions that
write the same AGE row at once.

### Editor

One mounted `NoteEditor` with the controllers of `src/web/src/lib/orchestration`.
`NotesWorkspace` gives it the note's id as key, so selecting another note unmounts it,
and what it has sent goes on without it. JavaScript runs one callback at a time: an
action is one callback up to its next `await`, or the server's commit of a PUT.

Snapshots are numbered: 0 is the empty note shown when loading failed, 1 the
note as loaded, then one number per edit, which stands for the `updatedAt` that tells
two snapshots apart. `meta[d]` numbers the title, subject, tags and flags
of snapshot `d`, which an edit may keep, change or change back. A
PUT is `sent`, then `committed` by the server, then `closed` by its answer;
`abandoned` is one the browser no longer waits for while the server may still commit
it. Any number of PUTs are in flight together and end in any order:
`performAutosave` aborts the one before, but `apiFetch` passes the signal of its own
timeout to `fetch`, so that abort reaches nobody. `Rerender` is a render of
`NotesWorkspace`: its inline `onMetadataSaved` is a new function, which makes a new
`performAutosave`, which makes the lifecycle effect dispose the controller with its
timers. A save that announces new metadata causes such a render itself
(`SaveAnswered`). `StartProcessing` may send nothing: a note without text asks for
nothing.

Left out: the text of the status badges, the local graph tab, wiki links, export,
the renewal of an expired token, and opening the note again after closing it.

### NoteStore, BlockTree, Markdown, Transfer

`row`, `blocks`, `asset` are the tables, `disk` the media directory. A save is three
steps: `Read` (title check and SELECT of the row), `Write` (the statements that take
row locks and unlink files) and `Commit`; `Abort` is a commit that fails. The two
statements that cannot succeed after another request won, an INSERT of a note that
exists by now and an UPDATE of one that does not, fail the request. `Import` makes its
document with `ParseMarkdown` and goes the same way. An upload is `Upload` (its note
exists), `Store` (bytes, then row) and `CommitUpload`; a deletion unlinks before it
commits. A document is a flat sequence of nodes with `up`, the position of the node
they are in; a node has at most the uid, parent attribute and reference that the walk
reads. `Rows` gives the block rows and `Stamped` the document as the walk leaves it.
`raced` notes which notes' last save overlapped another commit.

A file is a sequence of lines, each a mark and a text; `RenderBlock` and `RenderNoteMarkdown` write
it, `KindOf` says which of the parser's expressions a line matches, `BlockAt` and `NextLine` what is
read there and where the parser goes on. `Transfer` keeps one note (`original`), the last file
(`exported`) and the last import (`copy`); either note may be exported again. Left out: images,
whose references an export rewrites, and texts that look like a mark.

### Tenancy

A handler is the sequence of what it does with its session (`Handlers`), which is
read off the routes and the tasks they start: `bind`, statements by table, `commit`,
`close`, `set` and `clear` of the context variable, `enter` and `await` of async
handlers, which hold their worker's event loop. Each element is one action: a
session takes a connection at its first statement and returns it at a commit or its
end, where the tag is cleared (`Checkin`); the next statement gets any free connection,
tagged or not, which is how the import loses its tenant. Sign-in inserts the account
row (unique constraints make the second wait, then fail), provisions the schema in
the same transaction and sets the cookies. PostgreSQL only: with SQLite there are no tenants.

### GraphViews, Reprocess

`row` is the edit a note was last saved with, `extracted` the edit whose extraction
the graph holds. `Ask` reads the version that is the cache key, `Hit` or `Miss` looks the
cache up, `ReadOutgoing` and `ReadIncoming` are the two queries of a hop, and
`AnswerGraph` fetches the graph, compiles and caches. `Compile` is the response: nodes by
type and threshold, truncation with the root kept, edges within the kept nodes. An insight
finds its notes, looks its row up by digest, awaits the LLM, which may fail, and saves.
`Reprocess` adds workers, their executors and the progress file as "no", "yes" or
"torn" (emptied and not yet rewritten).

Left out: tenants, which share the process's cache while its key does not name them
(`local_graph_service.py:127-131`, `global_graph_service.py:86-91`); the limit on the notes of an
insight, which cuts the graph's ids before they are ordered (`concept_insight_service.py:301`);
relations that stay in the graph after a new extraction, which are `GraphSync`'s matter (`Process`
here replaces them); two processes that write the progress file in the same moment and
leave bytes of both, which is read like a torn file or like one of the two.

### Aliases

`table` is `entity_aliases` and begins as any table that `bootstrap_aliases_from_file` can
have left. A confirmation is `Read`, the SELECT of the alias's row, and `Write`, the INSERT or
UPDATE with its commit; an UPDATE names only the columns in which the new row differs from
the row that was read (`Updated`), and an INSERT that finds the alias taken by now fails
(`Refuse`). `history` lists the committed confirmations, `raced` the aliases of which one overlapped
another's commit. The resolver is a state function of the table: `Layers` proposes, `Winners` ranks.
String ratios and cosine similarities are constants.

### Pipeline

One operator per function of the stages; cosine similarities and the parse are inputs. `note`
is the note that is processed, `registry` the texts of `concept_registry`. `Process` is the
transaction of `note_processing_service.py:123-146` (extract, then register); `Others` adds what
other notes register or removes what sweeps prune, which is every row of an id. `ExtractionSound` is about
the note with any registry, and about extracting it once more when its entities are registered.

The stages compare texts, and so do the operators up to `Extraction`, which then gives every text the
id `_slugify` makes of it (`Entity`, `Extracted`). `Slug` is any function of phrases:
"neural-network" and "neural network" have one id, as have "c++" and "c#". What is stated of relations
is stated of texts: no relation joins a text with itself. It may join an
id with itself, when two synonyms, or two concepts of one block, have one slug; the instance has two such pairs,
and `graph_sync_service.py:374-399` merges the loop like any edge. A phrase stands
for the texts that differ in case only: `extract_concepts`, `_decide`, `_slugify` and the registry's key
lower-case, and that a registered text comes back in lower case is not modelled.

## Runs

| Run | Shows |
|---|---|
| `proc_single` | one worker, a client that waits for each answer, one crash, one fault, one administrator call: the job table implements `JobStore` (`JobStoreSpec`), a version has one usable job, final statuses are final; a deleted note stays out of the graph once no thread holds its content |
| `proc_live` | two workers, overlapping requests, a crash, fair threads: every unsettled row has a task or a coming restart and is settled in the end; a completed row stays completed |
| `proc_duplicate` | violation: two overlapping requests insert two jobs for one version |
| `graph_sync` | two notes, five versions, all orders of saves, deletes, syncs and reconciles: no orphans, mentions of the stamped version, no half edges, a delta leaves exactly the blocks of the rows and what it rewrites complete, each Block node is of one version, taxonomic edges stay |
| `graph_relations` | violation: relation edges of an earlier version stay after an edit of a block |
| `editor_life` | every order of edits, timers, blurs, renders, answers, refusals, timeouts and closing: what the editor calls clean was committed, no snapshot is sent twice, nothing is sent after closing, one poller runs and it stops |
| `editor_lost_edit` | violation: a render of the workspace drops a pending autosave |
| `note_store` | two saves or imports in flight, deletes, an upload, one failed commit: titles are unique unless saves overlapped, block rows are those of the stored document and stable, files match rows while nothing failed half-way, a save removes its own note's images only, pages partition the list, every save is answered |
| `tenancy` | any two requests of any kind by four people: no row lands with another tenant, what a session writes before its first commit lands at home, a token names a provisioned account, every request ends |
| `tenancy_import` | violation: the import's job row is written in the public schema |
| `views` | two requests, three saves in any order, deletes, extractions, two workers with reprocessing runs, a crash: graphs are closed, bounded, rooted and show the backlinks; cached ones show a seed no older than the request; an insight is about the notes it comes with; the progress file is reset |
| `algorithms` | every short text, every short document: relations join kept concepts, no salient phrase is lost, a second extraction gives the same; a document exported and imported any number of times comes back exactly when all its blocks are ones the two formats share; two confirmations in flight, three in all, over a bootstrapped row: an alias resolves to the entity confirmed first with most confidence, or to a stronger bootstrapped one, unless its confirmations overlapped |

Bounds. Two versions of one note distinguish "current", "earlier" and "edited
back". Job coalescing, stranding and
revival concern one note at a time, since threads of different notes share no row;
notes meet in the graph, and `GraphSync` has two that share a
concept. Two job ids are enough for a duplicate; two workers for a start
beside a live task. Three saves or deletes cover save, delete, save again
(`proc_live`, whose hazard is the other worker, has one);
four in `GraphSync`, which has two notes: of `p` four versions (`b` nested in `a` and referred to by it;
the same texts with `b` moved out; `a` edited around an unchanged `b`; `b` alone, edited and moved),
of `q` one that refers to `b`. Two edits in `Editor` put two saves and two
processing requests in flight together, beside the blank or the loaded note, which
is what late and reordered answers need. One crash, fault and administrator call
each, in any place: two in a row only repeat the restart. `proc_single` lets four of
these six events happen in one behaviour (`FourEvents`), in any choice and order. In `note_store` two
notes and two requests give a title race, three saves a save, a rename and a late
save; one image, named by one of two documents, is enough for a copy in another note.
The documents hold a duplicated uid, a child that names the duplicate as its parent and
a nested block without uid. In `tenancy` each worker's pool has one connection, so that
exhaustion and reuse by another tenant happen at once; two requests are two tenants,
two sign-ins of one person or of two with one address, or a request beside a backfill.
In `views` note 1 is saved twice and note 2 once, so a late save, a delete between two
queries and a cache entry of an older version happen; the cache holds one entry. Requests
in flight are local graphs and insights; global graphs and the other types,
thresholds and hops are compiled in every state. Two events are requests or crashes or
calls of reprocess-all. In `algorithms` documents have at most two blocks of at
most two texts, which is a list beside a list or a quote beside a paragraph; three confirmations of two aliases, with two entities and the
confidences below, at and above the bootstrapped one, give every tie and every overwriting; the
bootstrapped entity's name is long and all texts are similar, so that every layer
proposes it. `Editor_*.cfg`, `Proc_*.cfg` and the later ones switch
the deadlock check off: the bounded events run out, a
system nobody uses may idle, and a closed editor does nothing more. `Graph_sync.cfg` keeps it.

Fairness. In `proc_live`, weak fairness of each request with its task, of each
backfill and reconcile thread (thread pools of a live process run what was
submitted) and of the restart of a dead worker (the process manager's work).
Nothing a user, an administrator or an accident does is fair. `MaxFaults` is 0
there: `LoseTask` does strand a row, and the row stays until a worker starts.
In `editor_life`, weak fairness of each poller (a status fetch is answered or
`apiFetch` times it out, and the browser fires the timer) and of the settling of
jobs, which is what `proc_live` shows of the server. No edit, blur, save or answer
to a save has to happen. In `note_store`, weak fairness of the server as a whole:
some transaction that is not blocked goes on. In `tenancy`, weak fairness of each
request's steps: a thread of the pool runs, the event loop takes its next callback when it
is free, and the pool gives up on a connection after its timeout. In `views`, of each
worker: its executor and its startup thread go on and a dead worker is restarted;
`BackfillEnds` assumes that a run started by a restart lists its notes without raising.

## What the code does otherwise than it says

Checked by a violation run:

- `core/job_store.py:125-161` selects and inserts in two statements; "insert or
  return existing" (`:280`) does not hold for overlapping requests (`proc_duplicate`).
- `services/graph_sync_service.py:447-480` does not delete earlier relation
  edges when a block changed; `graph_repository.py:438-439` says re-emission does
  (`graph_relations`).
- `src/web/src/components/workspace/NotesWorkspace.tsx:1405` passes a new function at
  every render, which cancels a pending autosave; `NoteEditor.test.tsx:120` expects
  that an edit "autosaves after debounce". The edit is saved with the next one, if any
  (`editor_lost_edit`).
- `routes/import_.py:83-98` writes the job row after a commit has returned the bound
  connection; `core/job_store.py:9-13` makes the binding the caller's duty
  (`tenancy_import`).

Met while modelling; the models behave so, and the properties are stated around it:

- `core/job_store.py:97` fails every active row whenever any worker starts, while
  `main.py:6` and `core/job_store.py:4-5` speak of the process that died. The row's own
  task then revives the row (`mark_job_completed` is unconditional).
- `services/graph_sync_service.py:417-427` takes a moved block of unchanged text for unchanged ("blocks
  didn't change", `:423`; the hash is that of the text, `block_repository.py:224`): its node keeps the old
  `parent_block_uid`, `sibling_order`, `block_index` and `HAS_CHILD` edge until it is edited.
- `services/graph_sync_service.py:447-453` deletes an edited block with all its edges and writes only
  those of dirty blocks again. The edges into its unchanged children, and the references of unchanged blocks to
  it, of other notes too, are lost until those are edited ("Unchanged blocks are left untouched", `:74`). `DeltaIsExact`
  and `BlocksOfOneVersion` are stated around both.
- `core/job_store.py:131` reuses completed rows for ever: a note edited back is answered
  with a job whose extraction the graph no longer holds (`src/README.md:51`: "Every note
  save triggers background concept extraction").
- `src/web/src/lib/api-client.ts:92` replaces the caller's abort signal;
  `NoteEditor.tsx:375-376` relies on it against "stale responses". The editor still
  clears its dirty flag for the current snapshot only, so `BelievesStored` holds.
- Overlapping saves may give two notes one title and lose a count of the version
  (`note_repository.py:97`, `227`); a PUT that arrives after the delete makes the note again.
- Two notes may hold a block of one uid (a pasted block), for which the block backlinks
  route raises (`block_repository.py:404`). `ensure_block_uids` (`utils/tiptap.py`) is
  documented as called by storage and import, and only tests call it. Parent attributes may
  form a cycle.
- A stale autosave deletes an image just uploaded; a save deletes an image that only
  another note still shows. Files of failed uploads and of deleted notes stay on disk.
- `note_assets_table_exists` takes a second pool connection: when there is none, a save
  skips the image reconciliation silently and an upload is answered 503.
- An exported quote of several lines or a heading of level 4 to 6 does not come back from import, and an
  imported note's searchable text leaves list and quote text out.
- An AGE error in provisioning is swallowed but the transaction is aborted by then, so the
  sign-in fails; a new identity with a known address is refused by a unique constraint.
- The cached graph's key changes with a save and not with the job that follows, so a
  graph compiled in between stays; `graph_cache.py` says a failed version read is a
  cache miss, and "" is a key as any other.
- A link with inner spaces is a backlink, and the hop that looks for notes linking in
  (`local_graph_service.py:97-109`) misses it.
- The insight's SYNONYM_OF and SUBTOPIC_OF branches match `Entity` nodes while those
  edges join `Concept` nodes (`concept_insight_service.py:258-304`): they find nothing.
- Texts of one slug are one node: a relation between them is a loop in the graph, and pruning one
  prunes the registry rows of both (`nlp/pipeline.py:63-75`, `concept_registry.py:114-133`).
- "The most-salient concept always survives" (`nlp/salience.py`) is false below the
  floor. The source of a SYNONYM_OF edge has no mention, so the next sweep deletes it.
- `db/repositories/entity_alias_repository.py:76-106` decides by a row it has read without a lock
  what it writes, so of two overlapping confirmations the last to commit stays, however weak;
  `src/tests/unit/test_entity_alias_repository.py:42` calls the policy one that keeps the higher
  confidence. `ConfirmedAliasWins` is stated around it (`raced`).
- A confirmation with a lower confidence than the stored one is ignored. Of two overlapping first
  confirmations of an alias the second is answered 500. Two that confirm one entity by different names and
  another entity may leave a row with the id of one and the name of the other.
- A forced run whose clearing of the insights fails goes on in an aborted transaction and ends
  at its listing; overlapping runs reset the progress file while another is running.

## Proofs

`tlapm` proves these for all constants that meet the named assumptions
(`ConstantsAssumption`, `GraphAssumption`, `EditorAssumption`, `TenancyAssumption`,
`NoteStoreAssumption`, `TextsAssumption`, `TransferAssumption`, `GraphViewsAssumption`, `AliasesAssumption`,
`PipelineAssumption`: disjoint ids, types of the constant functions, natural bounds; of `Slug` only its type).

`NoteProcessing_proofs`. The inductive invariant is `IInv == TypeOK /\ ThreadsOK`.
`ThreadsOK` says what each thread relies on: an open request or task lives in a
live worker and has looked its key up, `process_note` runs on a note and has a
real snapshot, a completed row's thread has ended, a reconcile's stale set is
disjoint from its live set. `CompletedStays` needs "a completed row's thread has
ended", since the writes are unconditional; `ReconcileSparesListed`, which no run checks, the disjoint sets (it spares what was
listed; a note saved and extracted between the listing and the pruning is pruned, as in the code);
`NobodyStranded` is inductive relative to `IInv`: every action that takes a
thread from an active row either settles the row, leaves it "lost", or kills it with
its worker. `ForgottenNotRevived` follows from `IInv` per action: what brings a note
into the graph is a commit, whose thread holds a snapshot.

The last section of `NoteProcessing_proofs` assumes `SingleWorker` (one worker, `~Overlap`) and
strengthens `IInv` with what those give: at most one request is between its read
and its insert, a row that is not "none" has left that window, an active row's task is
the only thing that may write it. From it follow that a version has one usable
job, that final statuses are final, and that the database store implements `JobStore`
(each step maps to one of its steps or a stutter). Without either half of the
assumption they fail: a second worker's start fails a live job, and `proc_duplicate`
shows the second insert.

`GraphSync_proofs`. `GraphInv == TypeOK /\ Clean(g)`. Each operator on graphs
keeps `Sound`: the shape, that edges have their endpoints, that durable edges have no owner, that
`HAS_CHILD` stays within a note. A frame lemma per operator says what it leaves
alone, so that `FastPathSynced` and `SlowPathSynced` give the blocks and mentions of a
sync. In mid-transaction a graph is only `Settled`: it may hold orphans, but the
registry names none without an Entity node, so the sweep meets every one;
`SweepCleans` makes it `Clean` again.
`BlockInv` adds `BlocksOfOneVersion`: a rewritten node has its text, place and edges from the
rows read (`Rewritten`, `RewrittenFromOneVersion`), any other keeps them or loses edges
(`DroppedFromOneVersion`, `BlocksKept`), which is why the property speaks of edges in one direction.
`PersistIsExact` gives `DeltaIsExact`, in which the rewritten nodes have all their edges.

`Editor_proofs`. `EditorInv` adds `Fresh` to the three invariants of the run:
snapshots after the current one were never sent, polled or stored, so that an edit starts
with a clean slate, and a PUT that is committed is in `saved`, so that its answer is
evidence. `BelievesStored` then survives a late answer because the dirty flag is
cleared only for the current snapshot; `OneLoop` because an answer stops the poller
of `active` before it replaces it; `ClosedIsQuiet` because a closed editor has no timer.

`Tenancy_proofs`. `IInv` ties each connection to its holder: its tag is none or the
holder's tenant, and the holder's handler still has a release ahead of it (`Returns`). The second
half is a fact about every handler's sequence (`Program`, proved by cases in `Programs`): after the
last release no step takes a connection, whichever steps a probe, a cached answer or a
lookup skips. Without it a request could end and leave its tag on a free connection. A statement
then runs with its own tenant or none (`TargetOwn`), and `NeverAnotherTenant` follows from what is
pending. For `TokenNamesAccount` a second invariant, `FlowInv`, says what a sign-in has done by each
step: it answers only after its commit, with the schema it provisioned or looked up.
For `BoundWritesAtHome` a third, `RouteInv`, says of every handler's steps at which of them its
session holds a connection tagged with its tenant, at which the context variable has that tenant, and
at which the session has given a connection back (`Standings`, again by cases): a statement
runs at one of these steps only, and what skips steps lands where it starts none.

`NoteStore_proofs`. `IInv` adds two things to the three properties. `Clear`: a save past its
title check, beside which nothing else has committed, still has no other note with its title; so the
commit that would make a second one has `raced` set. `Unlinked`: the images a writing save
drops are active images of a note that it alone has locked, and are off the disk
already; so its commit marks only files that are gone and disturbs no other save.

`BlocksOfRow` is about the walk of a document of any length. Its uids differ, because a uid seen
before is replaced by a minted one and clients send none that the server mints from `FirstMint` on
(`Sendable`; `uuid4` in the code); two siblings differ in the counter of their parent; and the
document as stamped, walked again, renames nothing and finds the same parents, so gives the same
rows. `RowsInv` says that every stored document is one that such a walk has stamped and that
`blocks` are its rows. An imported file keeps to this: the parser ends, its tree is in document order
and its nodes have no uid (`ParsedIs`, `TreeIs`). `CountInv` counts, for `TypeOK`: versions and save
times plus the saves still to come never exceed `MaxSaves`. `PagesPartition` rests on `Counting`: the
order of the list is total, since ids break the ties of `saved_at`, so ranks are a bijection to
`0 .. n - 1`, and a page is a window of ranks.

`RoundTrip` (`ComesBackExactly`) follows the parser through what the renderer writes, for documents of
any length. A block whose lines stand in a file with a blank line or the end behind them is read by
itself (`Stands`, one lemma per kind): a run of items ends at the blank line, a quote at its first
unmarked line, a code block at its second fence, since rendered code has none. So a block that
survives is read as itself (`SurvivorRead`), and whatever else is written is read as blocks that
survive (`SharedRead`): a heading of four hashes as a paragraph, a text of two lines as two
paragraphs, a list without its empty items. `ReadsDocument` puts this together from the last block
to the first. Hence a copy is made of surviving blocks and is copied to itself (`RereadAgain`);
so what the first transfer changes stays as it left it, and `TransferInv` needs only two files, that
of the note and that of its copy.

These facts about recursive functions are proved without the library's induction theorems, which
take an operator as a parameter: a statement that fails somewhere fails at a least position
(`LeastNumber`), and the step from below refutes that.

`GraphViews_proofs` is about `Reprocess!Spec`. `FreshInv` rests on `Known(q, v, x)`, said of
each cache entry and each request that has read its seed `x`: no save to come brings version `v` of
the note back, so while the note has version `v` its row is `x`; and every request with the same key
has overlapped `x`. So a hit is fresh although an entry may be newer than its key: the
version is read before the rows. That versions do not come back is the assumption
that two edits of a note differ in `at`, the client's `updatedAt` in milliseconds; two clients that save one
note in the same millisecond are outside it. `InsightInv` keeps each cached text with the
digest it was written from.

`ViewsSound` there is about every graph that could be compiled from the rows and the
extractions, whatever is asked (`Queries` and `OtherQueries`). The hops are a recursive function:
`Reachable` of any number of hops holds only rows, the seed, and after the first hop every note with
a tidy link to it (`ReachableIs`, by the least hop at which that fails). The nodes are
finitely many (`FiniteInv` bounds notes and mentions, `FiniteUnion` their concepts) and totally
ordered by type and id, so what truncation keeps is a window of ranks: exactly
`limit` of them, or all (`KeptIs`), with the root put in the place of the last. Edges are closed since
they are filtered by the kept nodes, and the links to the seed are among them when both ends are (`LinksShown`).

`Nlp_proofs`, aliases. The resolver first: a text with a row resolves to that row's entity
(`DirectWins`), because the weakest direct match scores 12500 and the strongest abbreviation 11975, for
every similarity and length of names. Then `Inv` says which row the confirmations of an alias leave
(`Held`): besides the entity also its confidence, the larger of the bootstrapped and the strongest
confirmed one, and its source, "user_confirmed" exactly when a confirmation took it over or
named its entity (`Taken`). Without the source the invariant is not inductive: a
confirmation as strong as a bootstrapped row replaces it only while no user has confirmed it. `Fresh`
says that what an unmarked request has read is still there, so a commit that nobody
overlapped applies `Upserted` to the row itself (`WriteDecides`).

`Nlp_proofs`, extraction. Nothing is assumed of the note but its shape, so the invariant is only that
`registry` holds phrases (`PipelineInv`); the work is about the operators, each of which gets a lemma
that says what it returns (`CandidatesAre`, `RankedIs`, `KeptIs`, `VariantsIs`, `CompoundsAre`,
`ClosestIs`, `StructureIs`, `ForwardIs`, `OtherIs`). `ExtractionSound` has five parts:

- *Nothing salient is lost* (`NothingIsLost`): salience with the alphabet as tie-breaker is a total
  order of the candidates (`SalienceOrders`), so by `Counting` ranks list each of them once, and
  the recursion that keeps one drops another only for one that stands before it.
- *Chains* (`CompoundsAre`): what survives has one span per lemma (`SurvivingAre`, `Separate`), and of two
  suffixes of a lemma the shorter one is a suffix of the longer.
- *Found again* (`CanonicalAgain`, `ExtractedAgain`): a canonical text is in the registry or joins it as
  itself, and registering the texts of one note does not give another of its concepts a
  nearer phrase, since two kept concepts are not as close as `Redundancy`. This is where the
  assumption `Redundancy <= Synonymous` is used: the defaults are 0.86 (`salience.py:36`) and 0.88
  (`normalisation.py:27`). The first is a setting (`config.py:67`); above 0.88 two kept
  concepts may be synonyms, and the second extraction of a note differs from the first.
- *Closed relations* (`ClosedIs`): the ends are values of `names`, whose range the texts of the entities
  are, and an id is a function of its text; that `Slug` keeps texts apart is neither assumed nor concluded.
- *Phrasings* (`PhrasingsAre`): where the trigger is the only one in the text, either pattern sees
  the hypernym on one side and the hyponym on the other, and the concept nearest to the trigger is the
  whole or what it ends with. An earlier form of `PhrasingsAgree` did not survive the proof: where a concept
  also occurs inside or at the beginning of the hypernym, `_nearest_to_start` finds that one, and "M and other H"
  makes M an instance of it. The property now excludes these hypernyms (`inside = {}`).

The nearest phrase is exact in the model and approximate in PostgreSQL (an HNSW index); a phrase has one
embedding, so `Similar` is symmetric, and each phrase is similar to itself.

The parser of `tlapm` 1.4.5 reads `UNION a \cup b` as the union of `a \cup b`, SANY and TLC as that of
`a`, joined with `b`. The modules have parentheses wherever the two differ.

Model-checked only: what needs fairness (`EveryJobSettles`, `PollerStops`, `EveryRequestAnswered`,
`EveryRequestEnds`, `BackfillEnds`), and the violations.

## Not modelled

Embeddings and similarities (real arithmetic of external models), spaCy's parse, the edge LLM
and the workspace UI (browser state that no other part depends on), migrations, the OAuth exchange, rate
limits, the process-wide extraction cache (its staleness is listed as a hazard), read-only
queries that nothing above depends on (search, block lists, connections), the zip
archives of export, and the conflicts of two AGE transactions on one row.

## Plan

1. `NoteProcessing` with `JobStore`, `GraphSync`, `Editor`, `Tenancy`, `NoteStore`, `GraphViews`
   with `Reprocess`: done, proved.
2. `BlockTree`, `Markdown` with `Transfer`, `Aliases` and `Pipeline`: done, proved.
3. Composing `Editor` with `NoteStore` and `NoteProcessing`, against the abstract promise
   that the last edit is stored and extracted; the badge's status.
4. The extraction cache between tenants; the relation refinement of `GraphSync` (whose
   edge a shared relation is).
