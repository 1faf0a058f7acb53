----------------------------- MODULE GraphViews -----------------------------
(***************************************************************************)
(* What one tenant sees of the knowledge graph: the local and the global   *)
(* graph compiled from note rows and from the graph the jobs extracted,    *)
(* the process-wide cache of compiled graphs, the backlinks of a note, and *)
(* the insight an LLM writes about a concept, cached in a table.           *)
(*                                                                         *)
(* A request is split at its SQL statements, each of which sees the rows   *)
(* committed by then, and at the LLM call.  Note ids, concepts and         *)
(* updated_at are numbers; a title is lower-cased and unique (NoteStore);  *)
(* a link is tidy when its text is that of the title, spaces included.     *)
(***************************************************************************)
EXTENDS Integers, Sequences, FiniteSets, FiniteSetsExt, SequencesExt

CONSTANTS
    NoteIds, Concepts,
    Edits,       \* the saves clients make: [note, title, at, subject, tags,
                 \*   links, mentions, relations, words]
    Queries,     \* the graph requests that are made: [kind, note, hops, limit, types,
                 \*   salience, confidence, subject, tag]
    OtherQueries, \* more of them, of which ViewsSound speaks only
    Labels,      \* concepts an insight is asked for
    Requests,    \* requests in flight together
    CacheMax,    \* _GRAPH_CACHE_MAX
    InsightMax,  \* _MAX_NOTES
    NoRow,
    MaxEvents    \* bound on requests (and crashes, see Reprocess)

ASSUME GraphViewsAssumption ==
    /\ NoteIds \subseteq Nat /\ Concepts \subseteq Nat /\ Requests \subseteq Nat
    /\ \A e \in Edits : e.note \in NoteIds /\ e.at \in Nat \ {0}
    /\ \A d, e \in Edits : d.note = e.note /\ d.at = e.at => d = e
    /\ \A e \in Edits : /\ IsFiniteSet(e.mentions)
                       /\ \A m \in e.mentions : m.concept \in Concepts
    /\ NoRow \notin Edits
    /\ \A q \in Queries \cup OtherQueries :
          /\ q.note \in NoteIds /\ q.limit \in Nat \ {0}
          /\ q.kind = "local" => q.hops \in Nat \ {0}
    /\ CacheMax \in Nat \ {0} /\ InsightMax \in Nat \ {0}
    /\ MaxEvents \in Nat

VARIABLES
    row,        \* notes: the edit last committed
    waiting,    \* edits whose PUT has not arrived yet
    extracted,  \* the edit whose extraction the graph holds of each note
    cache,      \* _GRAPH_CACHE, oldest entry first
    insight,    \* concept_insight_cache: [digest, text] per label
    req,        \* the requests
    left        \* events left

vars == <<row, waiting, extracted, cache, insight, req, left>>

Live(rows) == {n \in DOMAIN rows : rows[n] # NoRow}
Idle == [pc |-> "idle"]
\* A graph request at work, and any request at work.
Looking(r) == req[r].pc \in {"asked", "outgoing", "incoming", "read"}
Open(r) == Looking(r) \/ req[r].pc \in {"finding", "calling"}
Spend == left > 0 /\ left' = left - 1
-----------------------------------------------------------------------------
(***************************** links of notes ******************************)

\* extract_wiki_link_titles.
Titles(links) == {l.to : l \in links}

\* list_backlinks_for_note: every other note whose links name the title; its
\* LIKE pattern tolerates other spacing.
Backlinks(rows, n) ==
    {m \in Live(rows) \ {n} : rows[n].title \in Titles(rows[m].links)}

\* title_index.get(linked_title) for each link of n.
Linked(notes, n) ==
    {m \in DOMAIN notes \ {n} : notes[m].title \in Titles(notes[n].links)}

\* The two queries of a hop of _fetch_reachable_notes, from the notes that the
\* hop before found: the notes they link to, by normalised title ...
Outgoing(rows, notes, front) ==
    {m \in Live(rows) \ DOMAIN notes :
        \E n \in front : rows[m].title \in Titles(notes[n].links)}

\* ... and those whose text has [[title]] of one of them.
Incoming(rows, notes, front) ==
    {m \in Live(rows) \ DOMAIN notes :
        \E n \in front, l \in rows[m].links : l.tidy /\ l.to = notes[n].title}

\* A note is shown as the query that found it read it.
Visit(rows, notes, ids) ==
    [n \in DOMAIN notes \cup ids |-> IF n \in DOMAIN notes THEN notes[n] ELSE rows[n]]

\* One hop when no save commits between its two queries, and all of them.
Hop(rows, v) ==
    LET out == Visit(rows, v.notes, Outgoing(rows, v.notes, v.front))
        all == Visit(rows, out, Incoming(rows, out, v.front))
    IN  [notes |-> all, front |-> DOMAIN all \ DOMAIN v.notes]

Reachable(rows, seed, hops) ==
    LET after[k \in 0 .. hops] ==
            IF k = 0 THEN [notes |-> [n \in {seed} |-> rows[n]], front |-> {seed}]
                     ELSE Hop(rows, after[k - 1])
    IN  after[hops].notes

\* _list_notes: the latest limit notes of the subject and tag asked for.
Latest(rows, found, limit) ==
    [n \in {m \in found : Cardinality({k \in found : rows[k].at > rows[m].at}) < limit}
        |-> rows[n]]

Listed(rows, q) ==
    Latest(rows, {n \in Live(rows) : /\ q.subject \in {"", rows[n].subject}
                                     /\ q.tag \in {""} \cup rows[n].tags}, 2 * q.limit)
-----------------------------------------------------------------------------
(************************** fetch_graph_for_notes **************************)

Mentions(graph, ids) ==
    UNION {{[note |-> n, concept |-> m.concept, salience |-> m.salience] :
               m \in graph[n].mentions} : n \in ids \cap Live(graph)}

\* Relations of these notes, and the ones no note owns between concepts these
\* notes mention.
Relations(graph, ids, floor) ==
    LET mentioned == {m.concept : m \in Mentions(graph, ids)}
        of(n, durable) == {r \in graph[n].relations : r.durable = durable /\ r.conf >= floor}
    IN  (UNION {of(n, FALSE) : n \in ids \cap Live(graph)})
          \cup {r \in UNION {of(n, TRUE) : n \in Live(graph)} :
                    {r.from, r.to} \subseteq mentioned}

\* normalize_salience, in percent: 60 and more is 100.
Normalized(raw) == IF raw <= 0 THEN 0 ELSE Min({100, (raw * 100) \div 60})

\* Entities at or above the threshold by their best mention.
Shown(mentions, threshold) ==
    {c \in {m.concept : m \in mentions} :
        Normalized(Max({m.salience : m \in {k \in mentions : k.concept = c}})) >= threshold}
-----------------------------------------------------------------------------
(**************************** compiling a graph ****************************)

Note(n) == [type |-> "note", id |-> n]
Entity(c) == [type |-> "entity", id |-> c]
Edge(type, from, to) == [type |-> type, from |-> from, to |-> to]

\* The order of the response: by type, entities first, then by id.
Before(x, y) ==
    \/ x.type = "entity" /\ y.type = "note"
    \/ x.type = y.type /\ x.id < y.id

\* Mutant: the first limit nodes, the root or not.
KeptFirst(nodes, limit, root) ==
    {x \in nodes : Cardinality({y \in nodes : Before(y, x)}) < limit}

\* Truncation; the root of a local graph takes the last place if need be.
Kept(nodes, limit, root) ==
    LET first(k) == {x \in nodes : Cardinality({y \in nodes : Before(y, x)}) < k}
    IN  IF root \in nodes \ first(limit) THEN {root} \cup first(limit - 1)
                                         ELSE first(limit)

AllNodes(notes, graph, q) ==
    (IF "note" \in q.types THEN {Note(n) : n \in DOMAIN notes} ELSE {})
      \cup (IF "entity" \in q.types
            THEN {Entity(c) : c \in Shown(Mentions(graph, DOMAIN notes), q.salience)}
            ELSE {})

LinkEdges(notes) ==
    UNION {{Edge("LINKS_TO", Note(n), Note(m)) : m \in Linked(notes, n)} :
              n \in DOMAIN notes}

EntityEdges(notes, graph, q) ==
    {Edge("MENTIONS", Note(m.note), Entity(m.concept)) : m \in Mentions(graph, DOMAIN notes)}
      \cup {Edge(r.type, Entity(r.from), Entity(r.to)) :
               r \in Relations(graph, DOMAIN notes, q.confidence)}

AllEdges(notes, graph, q) ==
    IF "relation" \notin q.types THEN {}
    ELSE LinkEdges(notes)
           \cup (IF "entity" \in q.types THEN EntityEdges(notes, graph, q) ELSE {})

\* Edges whose two ends are shown.
Within(edges, nodes) == {e \in edges : e.from \in nodes /\ e.to \in nodes}

\* The response of both services: a global graph has no root.
Compile(notes, graph, q) ==
    LET all == AllNodes(notes, graph, q)
        kept == Kept(all, q.limit, IF q.kind = "local" THEN Note(q.note) ELSE NoRow)
    IN  [nodes |-> kept, edges |-> Within(AllEdges(notes, graph, q), kept),
         notes |-> notes, truncated |-> Cardinality(all) > q.limit]
-----------------------------------------------------------------------------
(*************************** _GRAPH_CACHE, an LRU **************************)

Places(key) == {i \in DOMAIN cache : cache[i].key = key}
Others(key) ==
    IF Places(key) = {} THEN cache ELSE RemoveAt(cache, CHOOSE i \in Places(key) : TRUE)

\* set_cached: to the end, the oldest entry out when over capacity.
SetCached(key, view) ==
    LET filled == Append(Others(key), [key |-> key, view |-> view])
    IN  IF Len(filled) > CacheMax THEN Tail(filled) ELSE filled

NoVersion == 0

\* get_note_version: updated_at of the note, "" when there is none.
\* get_notes_version: the latest updated_at of all.
VersionNow(q) ==
    IF q.kind = "local"
    THEN IF row[q.note] = NoRow THEN NoVersion ELSE row[q.note].at
    ELSE Max({NoVersion} \cup {row[n].at : n \in Live(row)})
-----------------------------------------------------------------------------
Init ==
    /\ row = [n \in NoteIds |-> NoRow]
    /\ waiting = Edits
    /\ extracted = [n \in NoteIds |-> NoRow]
    /\ cache = <<>>
    /\ insight = [l \in Labels |-> NoRow]
    /\ req = [r \in Requests |-> Idle]
    /\ left = MaxEvents

\* Requests in flight remember the rows of their seed that they overlapped.
Seen(n, now) ==
    [r \in Requests |->
        IF Looking(r) /\ req[r].q.note = n
        THEN [req[r] EXCEPT !.seen = @ \cup {now}] ELSE req[r]]

\* put_note: each PUT arrives once, in any order, and overwrites.
Save(e) ==
    /\ e \in waiting
    /\ waiting' = waiting \ {e}
    /\ row' = [row EXCEPT ![e.note] = e]
    /\ req' = Seen(e.note, e)
    /\ UNCHANGED <<extracted, cache, insight, left>>

\* delete_note: the note and its part of the graph in one transaction.
Delete(n) ==
    /\ row[n] # NoRow
    /\ row' = [row EXCEPT ![n] = NoRow]
    /\ extracted' = [extracted EXCEPT ![n] = NoRow]
    /\ req' = Seen(n, NoRow)
    /\ UNCHANGED <<waiting, cache, insight, left>>

\* A processing job or a backfill has committed its graph transaction; what
\* happens inside it is NoteProcessing's.
Process(n) ==
    /\ row[n] # NoRow /\ extracted[n] # row[n]
    /\ extracted' = [extracted EXCEPT ![n] = row[n]]
    /\ UNCHANGED <<row, waiting, cache, insight, req, left>>
-----------------------------------------------------------------------------
(************** GET /v1/graph/local/{id}, GET /v1/graph/global *************)

FirstFree(r) == ~Open(r) /\ \A p \in Requests : p < r => Open(p)
Answer(r, view) == req' = [req EXCEPT ![r] = [pc |-> "shown", q |-> @.q, version |-> @.version,
                                             seen |-> @.seen, view |-> view]]

\* A miss goes on to its step pc, with the notes read so far, those of the
\* hop before, and what the present hop has found.
GoOn(r, pc, hops, notes, front, found) ==
    req' = [req EXCEPT ![r] =
              [pc |-> pc, q |-> @.q, version |-> @.version, seen |-> @.seen,
               hops |-> hops, notes |-> notes, front |-> front, found |-> found]]

\* The version is read first: it is the cache key.
Ask(r, q) ==
    /\ FirstFree(r)
    /\ Spend
    /\ req' = [req EXCEPT ![r] =
                 [pc |-> "asked", q |-> q, version |-> VersionNow(q), hops |-> 0,
                  notes |-> <<>>, front |-> {}, found |-> {}, seen |-> {row[q.note]}]]
    /\ UNCHANGED <<row, waiting, extracted, cache, insight>>

KeyOf(r) == [q |-> req[r].q, version |-> req[r].version]

Hit(r) ==
    /\ req[r].pc = "asked"
    /\ \E i \in Places(KeyOf(r)) :
        /\ cache' = Append(RemoveAt(cache, i), cache[i])
        /\ Answer(r, cache[i].view)
    /\ UNCHANGED <<row, waiting, extracted, insight, left>>

\* A miss: the seed is read, and is a 404 if it is gone; a global graph reads
\* all its notes at once.
Miss(r) ==
    /\ req[r].pc = "asked"
    /\ Places(KeyOf(r)) = {}
    /\ LET q == req[r].q
           read(pc, notes) == GoOn(r, pc, 0, notes, DOMAIN notes, {})
       IN  IF q.kind = "global" THEN read("read", Listed(row, q))
           ELSE IF row[q.note] = NoRow THEN req' = [req EXCEPT ![r] = Idle]
           ELSE read("outgoing", [n \in {q.note} |-> row[n]])
    /\ UNCHANGED <<row, waiting, extracted, cache, insight, left>>

ReadOutgoing(r) ==
    /\ req[r].pc = "outgoing"
    /\ LET ids == Outgoing(row, req[r].notes, req[r].front)
       IN  GoOn(r, "incoming", req[r].hops, Visit(row, req[r].notes, ids), req[r].front, ids)
    /\ UNCHANGED <<row, waiting, extracted, cache, insight, left>>

\* The next hop starts from what this one found; there is none from nothing.
ReadIncoming(r) ==
    /\ req[r].pc = "incoming"
    /\ LET ids == Incoming(row, req[r].notes, req[r].front)
           new == req[r].found \cup ids
           hops == req[r].hops + 1
       IN  GoOn(r, IF new = {} \/ hops = req[r].q.hops THEN "read" ELSE "outgoing",
                hops, Visit(row, req[r].notes, ids), new, {})
    /\ UNCHANGED <<row, waiting, extracted, cache, insight, left>>

\* Mutant: the version is read again when the graph is cached.
AnswerLateKey(r) ==
    /\ req[r].pc = "read"
    /\ LET view == Compile(req[r].notes, extracted, req[r].q)
       IN  /\ cache' = SetCached([q |-> req[r].q, version |-> VersionNow(req[r].q)], view)
           /\ Answer(r, view)
    /\ UNCHANGED <<row, waiting, extracted, insight, left>>

\* The graph is fetched, the response compiled and cached.
AnswerGraph(r) ==
    /\ req[r].pc = "read"
    /\ LET view == Compile(req[r].notes, extracted, req[r].q)
       IN  /\ cache' = SetCached(KeyOf(r), view)
           /\ Answer(r, view)
    /\ UNCHANGED <<row, waiting, extracted, insight, left>>
-----------------------------------------------------------------------------
(*********************** GET /v1/concepts/insight **************************)

\* _find_note_ids_via_graph.  Its two other branches follow SYNONYM_OF and
\* SUBTOPIC_OF between Entity nodes, and the graph has them between Concept
\* nodes only: they find nothing.
ViaGraph(l) ==
    {n \in Live(extracted) : \E m \in extracted[n].mentions : m.concept = l}

\* _find_notes: the latest notes whose title or text has the word; if none,
\* those the graph has as mentioning it.
FindNotes(l) ==
    LET said == {n \in Live(row) : l \in row[n].words}
    IN  Latest(row, IF said # {} THEN said ELSE ViaGraph(l) \cap Live(row), InsightMax)

\* _compute_digest: note ids with their content hashes; the hash is of the
\* title and the text.
Digest(notes) ==
    {<<n, notes[n].title, notes[n].links, notes[n].words>> : n \in DOMAIN notes}

AskInsight(r, l) ==
    /\ FirstFree(r)
    /\ Spend
    /\ req' = [req EXCEPT ![r] = [pc |-> "finding", label |-> l]]
    /\ UNCHANGED <<row, waiting, extracted, cache, insight>>

AnswerInsight(r, notes, text) ==
    req' = [req EXCEPT ![r] = [pc |-> "told", label |-> @.label, refs |-> notes,
                               text |-> text]]

\* Mutant: the cache is looked up by label alone.
LookupInsightByLabel(r) ==
    /\ req[r].pc = "finding"
    /\ LET l == req[r].label
           notes == FindNotes(l)
       IN  IF DOMAIN notes = {} THEN AnswerInsight(r, notes, NoRow)
           ELSE IF insight[l] # NoRow
           THEN AnswerInsight(r, notes, insight[l].text)
           ELSE req' = [req EXCEPT ![r] =
                          [pc |-> "calling", label |-> l, notes |-> notes]]
    /\ UNCHANGED <<row, waiting, extracted, cache, insight, left>>

\* The notes are found and the cache is looked up by label and digest; a miss
\* awaits the LLM.  No notes, no insight.
LookupInsight(r) ==
    /\ req[r].pc = "finding"
    /\ LET l == req[r].label
           notes == FindNotes(l)
       IN  IF DOMAIN notes = {} THEN AnswerInsight(r, notes, NoRow)
           ELSE IF insight[l] # NoRow /\ insight[l].digest = Digest(notes)
           THEN AnswerInsight(r, notes, insight[l].text)
           ELSE req' = [req EXCEPT ![r] =
                          [pc |-> "calling", label |-> l, notes |-> notes]]
    /\ UNCHANGED <<row, waiting, extracted, cache, insight, left>>

\* _save_cached_insight: one row per label, digest and text replaced together.
Saved(l, notes) == [digest |-> Digest(notes), text |-> Digest(notes)]

\* The LLM answers from the notes it was given, the last one to answer owns
\* the row; a write that fails is skipped ...
Generated(r) ==
    /\ req[r].pc = "calling"
    /\ AnswerInsight(r, req[r].notes, Digest(req[r].notes))
    /\ \/ insight' = [insight EXCEPT ![req[r].label] = Saved(req[r].label, req[r].notes)]
       \/ UNCHANGED insight
    /\ UNCHANGED <<row, waiting, extracted, cache, left>>

\* ... or the call fails, or its JSON is malformed.
NotGenerated(r) ==
    /\ req[r].pc = "calling"
    /\ AnswerInsight(r, req[r].notes, NoRow)
    /\ UNCHANGED <<row, waiting, extracted, cache, insight, left>>
-----------------------------------------------------------------------------
Handling(r) ==
    \/ Hit(r) \/ Miss(r) \/ ReadOutgoing(r) \/ ReadIncoming(r) \/ AnswerGraph(r)
    \/ LookupInsight(r) \/ Generated(r) \/ NotGenerated(r)

ViewsNext ==
    \/ \E e \in Edits : Save(e)
    \/ \E n \in NoteIds : Delete(n) \/ Process(n)
    \/ \E r \in Requests :
        \/ \E q \in Queries : Ask(r, q)
        \/ \E l \in Labels : AskInsight(r, l)
        \/ Handling(r)
-----------------------------------------------------------------------------
(******************************** properties *******************************)

\* A local graph, fresh or from the cache, shows its seed as the note was at
\* some moment since the request began, in whatever order saves arrive and
\* whichever requests fill the cache (local_graph_service.py:127-136); a
\* request that began without the note is left out (its key has no version).
FreshSeed ==
    \A r \in Requests :
        (req[r].pc = "shown" /\ req[r].q.kind = "local" /\ req[r].version # NoVersion) =>
            req[r].view.notes[req[r].q.note] \in req[r].seen

\* A response is a graph of at most limit nodes: no edge ends outside it, the
\* root of a local graph is in it, and it says so when something was cut
\* (local_graph_service.py:256-273, global_graph_service.py:215-232).  What a
\* note's local graph shows as linking to it are backlinks of it, and every
\* backlink in the title's own spelling is shown
\* (local_graph_service.py:141-164, note_repository.py:352-398).
ViewSound(rows, graph, q) ==
    LET view == IF q.kind = "local"
                THEN Compile(Reachable(rows, q.note, q.hops), graph, q)
                ELSE Compile(Listed(rows, q), graph, q)
        into == {e.from.id : e \in {d \in view.edges :
                     d.type = "LINKS_TO" /\ d.to = Note(q.note)}}
        tidy == {m \in Backlinks(rows, q.note) :
                    \E l \in rows[m].links : l.tidy /\ l.to = rows[q.note].title}
    IN  /\ \A e \in view.edges : {e.from, e.to} \subseteq view.nodes
        /\ Cardinality(view.nodes) <= q.limit
        /\ view.truncated <=> view.nodes # AllNodes(view.notes, graph, q)
        /\ (q.kind = "local" /\ "note" \in q.types) =>
               /\ Note(q.note) \in view.nodes
               /\ into \subseteq Backlinks(rows, q.note)
               /\ (~view.truncated /\ "relation" \in q.types) => tidy \subseteq into

\* Every response that could be compiled now is sound
\* (local_graph_service.py:50-293, global_graph_service.py:82-252).
ViewsSound ==
    \A q \in Queries \cup OtherQueries :
        (q.kind = "global" \/ row[q.note] # NoRow) => ViewSound(row, extracted, q)

\* An insight is about the notes it is answered with: what the LLM wrote, now
\* or for an earlier request, it wrote from their present titles and texts
\* (concept_insight_service.py:93-143).
InsightOfItsNotes ==
    \A r \in Requests :
        (req[r].pc = "told" /\ req[r].text # NoRow) =>
            req[r].text = Digest(req[r].refs)
=============================================================================
