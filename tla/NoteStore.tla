----------------------------- MODULE NoteStore ------------------------------
(***************************************************************************)
(* One tenant's notes as the REST routes store them: note rows with their  *)
(* unique titles, the block rows extracted from their documents, and the   *)
(* images uploaded into them, which are a note_assets row in PostgreSQL    *)
(* and a file in the media directory.                                      *)
(*                                                                         *)
(* A request is a transaction of several statements under READ COMMITTED.  *)
(* It is split where another request can change what it has read: after    *)
(* its reads, and between its writes (which hold row locks and have        *)
(* already touched the media directory) and its commit.                    *)
(***************************************************************************)
EXTENDS BlockTree, Markdown, FiniteSetsExt

CONSTANTS
    NoteIds,      \* note ids, ordered
    Assets,       \* asset ids, one per upload
    Payloads,     \* what a save may say: [title, tags, pinned, doc, assets]
    Requests,     \* PUT /v1/notes/{id} and import requests in flight together
    Files,        \* markdown files to import, see Markdown
    Untitled,     \* the title of a file without text
    NoRow,        \* "no row"
    FirstMint,    \* the server mints uids from here on, clients send smaller ones
    Limits,       \* page sizes a client may ask for
    MaxSaves, MaxDeletes, MaxFaults      \* bounds on those events

ASSUME NoteStoreAssumption ==
    /\ NoteIds \subseteq Nat
    /\ Requests \subseteq Nat
    /\ \A p \in Payloads :
          /\ p.pinned \in BOOLEAN /\ p.assets \subseteq Assets /\ p.doc \in Docs
          /\ \A i \in DOMAIN p.doc :
                {p.doc[i].uid, p.doc[i].parent} \subseteq 0 .. FirstMint - 1 \cup {NoUid}
    /\ FirstMint \in Nat
    /\ Limits \subseteq Nat \ {0}
    /\ Files \subseteq Seq(Lines)
    /\ {MaxSaves, MaxDeletes, MaxFaults} \subseteq Nat

VARIABLES
    row,       \* notes: the stored payload with its version and saved_at
    blocks,    \* blocks: the set of block rows of each note
    asset,     \* note_assets: the note and the stage of each upload
    disk,      \* asset ids whose bytes are in the media directory
    req,       \* the save requests
    raced,     \* notes whose last save overlapped the commit of another
    left       \* remaining bounded events, and the clock

vars == <<row, blocks, asset, disk, req, raced, left>>

Live == {n \in NoteIds : row[n] # NoRow}
Idle == [pc |-> "idle"]
NoAsset == [at |-> "none", note |-> NoRow]

\* Stages of an upload: "checked" (its note exists), "stored" (bytes written,
\* row inserted but not committed), "active" (row committed), "removing"
\* (DELETE /v1/media has unlinked the bytes), "deleted" (deleted_at set),
\* "cascaded" (row gone with its note), "failed" (no row).
Stages == {"none", "checked", "stored", "active", "removing", "deleted",
           "cascaded", "failed"}

Open(r) == req[r].pc # "idle"
Writing(r) == req[r].pc = "writing"
\* Requests are interchangeable: a new one takes the first free place.
FirstFree(r) == ~Open(r) /\ \A q \in Requests : q < r => Open(q)
Spend(what) == left[what] > 0 /\ left' = [left EXCEPT ![what] = @ - 1]

\* Mutant: the assets of every note are listed.
ActiveOfAll(n) == {a \in Assets : asset[a].at \in {"active", "removing"}}

\* list_active_assets_for_note: what another transaction is still removing
\* counts, its deleted_at is not committed.
ActiveAssets(n) ==
    {a \in Assets : asset[a].at \in {"active", "removing"} /\ asset[a].note = n}

\* Row locks of the transactions that have written.
LockedNote(n) == \E r \in Requests : Writing(r) /\ req[r].note = n
Removing == {a \in Assets : asset[a].at = "removing"}
Dropping == UNION {req[r].dropped : r \in {q \in Requests : Writing(q)}}
-----------------------------------------------------------------------------
Init ==
    /\ row = [n \in NoteIds |-> NoRow]
    /\ blocks = [n \in NoteIds |-> {}]
    /\ asset = [a \in Assets |-> NoAsset]
    /\ disk = {}
    /\ req = [r \in Requests |-> Idle]
    /\ raced = {}
    /\ left = [save |-> MaxSaves, delete |-> MaxDeletes, fault |-> MaxFaults,
               clock |-> 0]
-----------------------------------------------------------------------------
(************************* PUT /v1/notes/{note_id} *************************)

\* A client sends a save.  It may name any image whose upload was answered,
\* also one of another note (copied), deleted or unknown to the server now.
Send(r, n, p) ==
    /\ FirstFree(r)
    /\ \A a \in p.assets : asset[a].at \notin {"none", "checked", "stored", "failed"}
    /\ Spend("save")
    /\ req' = [req EXCEPT ![r] =
                 [pc |-> "sent", note |-> n, payload |-> p, ordinal |-> left["save"]]]
    /\ UNCHANGED <<row, blocks, asset, disk, raced>>

\* The nodes a parsed block becomes, the first of them at position at: a list
\* of items holding a paragraph each, a quote holding one, or a lone block.
\* None has a uid yet.
NodesOf(b, at) ==
    LET node(kind, up) == [kind |-> kind, up |-> up, uid |-> NoUid,
                           parent |-> NoUid, ref |-> NoUid]
    IN  CASE b.kind \in Lists ->
               <<node("container", 0)>>
                 \o [k \in 1 .. 2 * Len(b.texts) |->
                        IF k % 2 = 1 THEN node("container", at)
                                     ELSE node("leaf", at + k - 1)]
          [] b.kind = "blockquote" -> <<node("container", 0), node("leaf", at)>>
          [] OTHER -> <<node("leaf", 0)>>

TreeOf(doc) ==
    LET tree[k \in 0 .. Len(doc)] ==
            IF k = 0 THEN <<>>
            ELSE tree[k - 1] \o NodesOf(doc[k], Len(tree[k - 1]) + 1)
    IN  tree[Len(doc)]

ImportPayload(file) ==
    [title |-> ExtractTitle(file, Untitled), tags |-> {}, pinned |-> FALSE,
     assets |-> {}, doc |-> TreeOf(ParseMarkdown(file))]

PayloadSet == Payloads \cup {ImportPayload(f) : f \in Files}

RowType == [title : {p.title : p \in PayloadSet}, tags : {p.tags : p \in PayloadSet},
            pinned : BOOLEAN, assets : SUBSET Assets, doc : Docs, version : Nat,
            saved : Nat]

ASSUME NoRowAssumption == NoRow \notin RowType

\* POST /v1/notes/import: the parsed file goes through upsert_note under an id
\* of its own; a title conflict is not caught and answered 500.
Import(r, n, file) ==
    /\ FirstFree(r)
    /\ n \notin Live
    /\ \A q \in Requests : Open(q) => req[q].note # n
    /\ Spend("save")
    /\ req' = [req EXCEPT ![r] =
                 [pc |-> "sent", note |-> n, payload |-> ImportPayload(file),
                  ordinal |-> left["save"]]]
    /\ UNCHANGED <<row, blocks, asset, disk, raced>>

\* _assert_unique_title_for_note.
TitleConflict(n, title) == \E m \in Live \ {n} : row[m].title = title

\* Mutant: no title check.
ReadUnchecked(r) ==
    /\ req[r].pc = "sent"
    /\ req' = [req EXCEPT ![r] =
                 [pc |-> "read", note |-> @.note, payload |-> @.payload,
                  ordinal |-> @.ordinal, raced |-> FALSE,
                  version |-> IF row[req[r].note] = NoRow THEN 0
                              ELSE row[req[r].note].version]]
    /\ UNCHANGED <<row, blocks, asset, disk, raced, left>>

\* upsert_note up to its first write: the title check (409 ends the request)
\* and the SELECT of the note's row, whose version will be counted up.
Read(r) ==
    /\ req[r].pc = "sent"
    /\ IF TitleConflict(req[r].note, req[r].payload.title)
       THEN req' = [req EXCEPT ![r] = Idle]
       ELSE req' = [req EXCEPT ![r] =
                      [pc |-> "read", note |-> @.note, payload |-> @.payload,
                       ordinal |-> @.ordinal, raced |-> FALSE,
                       version |-> IF row[req[r].note] = NoRow THEN 0
                                   ELSE row[req[r].note].version]]
    /\ UNCHANGED <<row, blocks, asset, disk, raced, left>>

\* The images reconcile_note_assets_for_note deletes: active in this note and
\* not named by the document being saved.
ToDelete(r) == ActiveAssets(req[r].note) \ req[r].payload.assets

\* Mutant: the two failing statements are waited out.
WriteAwait(r) ==
    /\ req[r].pc = "read"
    /\ ~LockedNote(req[r].note)
    /\ (req[r].version = 0) # (req[r].note \in Live)
    /\ req' = [req EXCEPT ![r] =
                 [pc |-> "writing", note |-> @.note, payload |-> @.payload,
                  ordinal |-> @.ordinal, raced |-> @.raced, version |-> @.version,
                  dropped |-> ToDelete(r)]]
    /\ disk' = disk \ ToDelete(r)
    /\ UNCHANGED <<row, blocks, asset, raced, left>>

\* The writes, up to the commit.  An INSERT of a note that exists by now and
\* an UPDATE of one that does not raise, and the transaction rolls back.  The
\* row locks are held until the commit; the files are unlinked at once.  The
\* images are left alone when the probe of their table gets no connection
\* (Probe in Tenancy).
Write(r) ==
    /\ req[r].pc = "read"
    /\ ~LockedNote(req[r].note)
    /\ IF (req[r].version = 0) = (req[r].note \in Live)
       THEN /\ req' = [req EXCEPT ![r] = Idle]
            /\ UNCHANGED disk
       ELSE \E gone \in {ToDelete(r), {}} :
            /\ gone \cap (Removing \cup Dropping) = {}
            /\ req' = [req EXCEPT ![r] =
                 [pc |-> "writing", note |-> @.note, payload |-> @.payload,
                  ordinal |-> @.ordinal, raced |-> @.raced, version |-> @.version,
                  dropped |-> gone]]
            /\ disk' = disk \ gone
    /\ UNCHANGED <<row, blocks, asset, raced, left>>

\* uuid4: fresh for every node of every save.
Mint(r) == [i \in 0 .. Len(req[r].payload.doc) |-> FirstMint + 10 * req[r].ordinal + i]

\* Mutant: the rows of the previous version stay.
BlocksKept(r) ==
    [blocks EXCEPT ![req[r].note] = @ \cup Rows(req[r].payload.doc, Mint(r))]

\* replace_blocks.
ReplaceBlocks(r) ==
    [blocks EXCEPT ![req[r].note] = Rows(req[r].payload.doc, Mint(r))]

\* Mutant: the version is stored as it was read.
RowUncounted(r, saved) ==
    [title |-> req[r].payload.title, tags |-> req[r].payload.tags,
     pinned |-> req[r].payload.pinned, assets |-> req[r].payload.assets,
     doc |-> Stamped(req[r].payload.doc, Mint(r)),
     version |-> req[r].version, saved |-> saved]

\* The row as committed: the document normalised by the block walk, the
\* version counted up from the one read, saved_at from the server's clock,
\* which may not have moved since the last save.
NewRow(r, saved) ==
    [title |-> req[r].payload.title, tags |-> req[r].payload.tags,
     pinned |-> req[r].payload.pinned, assets |-> req[r].payload.assets,
     doc |-> Stamped(req[r].payload.doc, Mint(r)),
     version |-> req[r].version + 1, saved |-> saved]

Commit(r) ==
    /\ Writing(r)
    /\ \E saved \in {left["clock"], left["clock"] + 1} :
        /\ row' = [row EXCEPT ![req[r].note] = NewRow(r, saved)]
        /\ left' = [left EXCEPT !["clock"] = saved]
    /\ blocks' = ReplaceBlocks(r)
    /\ asset' = [a \in Assets |-> IF a \in req[r].dropped
                                  THEN [asset[a] EXCEPT !.at = "deleted"]
                                  ELSE asset[a]]
    /\ raced' = IF req[r].raced THEN raced \cup {req[r].note}
                                ELSE raced \ {req[r].note}
    /\ req' = [q \in Requests |->
                  IF q = r THEN Idle
                  ELSE IF req[q].pc \in {"read", "writing"}
                       THEN [req[q] EXCEPT !.raced = TRUE]
                       ELSE req[q]]
    /\ UNCHANGED disk

\* The commit fails, or the worker dies before it: the rows roll back, the
\* files stay unlinked.
Abort(r) ==
    /\ Writing(r)
    /\ Spend("fault")
    /\ req' = [req EXCEPT ![r] = Idle]
    /\ UNCHANGED <<row, blocks, asset, disk, raced>>
-----------------------------------------------------------------------------
(***************** DELETE /v1/notes/{note_id}, the rows only ***************)

\* The note's blocks and asset rows go with it; its files are not touched.
\* The delete waits for every transaction that has written to those rows.
DeleteNote(n) ==
    /\ n \in Live
    /\ ~LockedNote(n)
    /\ \A a \in Assets : asset[a].note = n => asset[a].at \notin {"stored", "removing"}
    /\ Spend("delete")
    /\ row' = [row EXCEPT ![n] = NoRow]
    /\ blocks' = [blocks EXCEPT ![n] = {}]
    /\ asset' = [a \in Assets |->
                    IF asset[a].note = n /\ asset[a].at \in {"active", "deleted"}
                    THEN [asset[a] EXCEPT !.at = "cascaded"] ELSE asset[a]]
    /\ raced' = raced \ {n}
    /\ UNCHANGED <<disk, req>>
-----------------------------------------------------------------------------
(****************** POST /v1/media/uploads, DELETE /v1/media ***************)

Stage(a, at) == asset' = [asset EXCEPT ![a].at = at]

\* The note must exist (404) ...
Upload(a, n) ==
    /\ asset[a].at = "none"
    /\ n \in Live
    /\ asset' = [asset EXCEPT ![a] = [at |-> "checked", note |-> n]]
    /\ UNCHANGED <<row, blocks, disk, req, raced, left>>

\* Mutant: the row is inserted first, the bytes are written after the commit.
StoreRowOnly(a) ==
    /\ asset[a].at = "checked"
    /\ Stage(a, IF asset[a].note \in Live THEN "stored" ELSE "failed")
    /\ UNCHANGED <<row, blocks, disk, req, raced, left>>

\* ... the bytes are written, then the row is inserted, which needs the note
\* row still there ...
Store(a) ==
    /\ asset[a].at = "checked"
    /\ disk' = disk \cup {a}
    /\ Stage(a, IF asset[a].note \in Live THEN "stored" ELSE "failed")
    /\ UNCHANGED <<row, blocks, req, raced, left>>

\* ... and the transaction commits,
CommitUpload(a) ==
    /\ asset[a].at = "stored"
    /\ Stage(a, "active")
    /\ UNCHANGED <<row, blocks, disk, req, raced, left>>

\* or does not, and leaves the bytes behind.
AbortUpload(a) ==
    /\ asset[a].at = "stored"
    /\ Spend("fault")
    /\ Stage(a, "failed")
    /\ UNCHANGED <<row, blocks, disk, req, raced>>

\* delete_media: deleted_at is set, the file unlinked, then it commits; a
\* row marked before stays so.
RemoveMedia(a) ==
    /\ asset[a].at = "active"
    /\ a \notin Dropping
    /\ Spend("delete")
    /\ Stage(a, "removing")
    /\ disk' = disk \ {a}
    /\ UNCHANGED <<row, blocks, req, raced>>

CommitRemoveMedia(a) ==
    /\ asset[a].at = "removing"
    /\ Stage(a, "deleted")
    /\ UNCHANGED <<row, blocks, disk, req, raced, left>>

AbortRemoveMedia(a) ==
    /\ asset[a].at = "removing"
    /\ Spend("fault")
    /\ Stage(a, "active")
    /\ UNCHANGED <<row, blocks, disk, req, raced>>
-----------------------------------------------------------------------------
Client ==
    \/ \E r \in Requests, n \in NoteIds, p \in Payloads : Send(r, n, p)
    \/ \E r \in Requests, n \in NoteIds, f \in Files : Import(r, n, f)
    \/ \E n \in NoteIds : DeleteNote(n)
    \/ \E a \in Assets, n \in NoteIds : Upload(a, n)
    \/ \E a \in Assets : RemoveMedia(a)

Saving(r) == Read(r) \/ Write(r) \/ Commit(r)
Moving(a) == Store(a) \/ CommitUpload(a) \/ CommitRemoveMedia(a)
Trouble ==
    \/ \E r \in Requests : Abort(r)
    \/ \E a \in Assets : AbortUpload(a) \/ AbortRemoveMedia(a)

Server ==
    \/ \E r \in Requests : Saving(r)
    \/ \E a \in Assets : Moving(a)

Next == Client \/ Server \/ Trouble

Spec == Init /\ [][Next]_vars

\* Some thread of the server goes on while one can: PostgreSQL grants a lock
\* that is free.  Clients and faults are never forced.
FairSpec == Spec /\ WF_vars(Server)
-----------------------------------------------------------------------------
(******************************* read routes *******************************)

\* Mutant: saved_at alone decides the order.
BeforeBySaved(m, n) == row[m].saved > row[n].saved

\* The order of list_notes: pinned first, then saved_at descending, then id.
ListedBefore(m, n) ==
    \/ row[m].pinned /\ ~row[n].pinned
    \/ /\ row[m].pinned = row[n].pinned
       /\ \/ row[m].saved > row[n].saved
          \/ row[m].saved = row[n].saved /\ m < n

\* _build_list_query with the filters tag and is_pinned ("any": not given).
Matching(tag, pinned) ==
    {n \in Live : /\ tag = "any" \/ tag \in row[n].tags
                  /\ pinned = "any" \/ row[n].pinned = (pinned = "yes")}

\* The page of list_notes at an offset.
ListNotes(found, limit, offset) ==
    {n \in found : LET rank == Cardinality({m \in found \ {n} : ListedBefore(m, n)})
                   IN  offset <= rank /\ rank < offset + limit}

-----------------------------------------------------------------------------
(******************************** properties *******************************)

\* Every table holds values of its columns' types; a request's fields follow
\* its progress.
TypeOK ==
    /\ \A n \in Live :
          /\ row[n].version \in 1 .. MaxSaves
          /\ row[n].saved \in 0 .. MaxSaves
          /\ row[n].assets \subseteq Assets
          /\ \A i \in DOMAIN row[n].doc : row[n].doc[i].uid \in Uids
    /\ \A n \in NoteIds : \A b \in blocks[n] :
          b.uid \in Uids \ {NoUid} /\ b.parent \in Uids /\ b.order \in Nat
    /\ asset \in [Assets -> [at : Stages, note : NoteIds \cup {NoRow}]]
    /\ disk \subseteq Assets
    /\ \A r \in Requests :
          /\ req[r].pc \in {"idle", "sent", "read", "writing"}
          /\ Open(r) =>
              /\ req[r].note \in NoteIds
              /\ req[r].payload \in Payloads \cup {ImportPayload(f) : f \in Files}
          /\ req[r].pc \in {"read", "writing"} => req[r].version \in 0 .. MaxSaves
          /\ Writing(r) => req[r].dropped \subseteq Assets
    /\ raced \subseteq NoteIds

\* Two notes have the same title only if the last save of one of them
\* overlapped the commit of another: through the deletes, late saves and
\* renames of a client that waits, upsert_note's check (note_repository.py:97)
\* keeps titles unique.
OneNotePerTitle ==
    \A m, n \in Live : m # n /\ row[m].title = row[n].title => {m, n} \cap raced # {}

\* The block rows of a note are those of the document stored beside them,
\* keyed as the table's unique constraints demand, and walking the stored
\* document again would rename nothing: a client that reloads the note and
\* saves it leaves every block where it is.
BlocksOfRow ==
    /\ \A n \in NoteIds \ Live : blocks[n] = {}
    /\ \A n \in Live :
        /\ \A b, c \in blocks[n] :
              b.uid = c.uid \/ (b.parent = c.parent /\ b.order = c.order) => b = c
        /\ Blocks(row[n].doc) # {} =>
              blocks[n] = Rows(row[n].doc, [i \in 0 .. Len(row[n].doc) |-> NoUid])

\* While no transaction has failed half-way: an image whose row is active has
\* its bytes, unless a transaction that deletes it is about to commit, and an
\* image marked deleted has none.  Uploads write the bytes before the row,
\* saves and deletes unlink them before the row is marked.
BytesMatchRows ==
    left["fault"] = MaxFaults =>
        \A a \in Assets :
            /\ asset[a].at = "active" /\ a \notin Dropping => a \in disk
            /\ asset[a].at \in {"deleted", "removing"} => a \notin disk

\* A save unlinks nothing but images of its own note that its document does
\* not name, whatever else is in flight.
SaveSparesOthers ==
    [][\A a \in disk \ disk' :
         \/ asset'[a].at = "removing"
         \/ \E r \in Requests : /\ Writing(r)' /\ ~Writing(r)
                                /\ asset[a].note = req[r].note
                                /\ a \notin req[r].payload.assets]_vars

\* What the filters can select now.
Listings ==
    {Matching(tag, pinned) : tag \in {"any"} \cup UNION {row[n].tags : n \in Live},
                             pinned \in {"any", "yes", "no"}}

\* The pages of GET /v1/notes, read with nothing in between, show every
\* matching note once whatever the limit: the order is total
\* (note_repository.py:322-329).
PagesPartition ==
    \A found \in Listings, limit \in Limits :
        \A page \in 0 .. Cardinality(found) :
            Cardinality(ListNotes(found, limit, page * limit))
              = Max({0, Min({limit, Cardinality(found) - page * limit})})

\* Every save is answered: no transaction waits for ever for another's locks.
EveryRequestAnswered == \A r \in Requests : Open(r) ~> ~Open(r)
=============================================================================
