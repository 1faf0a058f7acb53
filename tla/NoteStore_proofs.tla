-------------------------- MODULE NoteStore_proofs --------------------------
(***************************************************************************)
(* Proofs about NoteStore for any number of notes, requests and uploads:   *)
(* titles, images and their bytes from IInv; then the walk of a document,  *)
(* the rows it leaves, the versions and the pages of a listing.  Then the  *)
(* files of a note, for any number of exports and imports (Transfer): what *)
(* the parser reads of every line the renderer writes, and from it that a  *)
(* document comes back exactly when markdown can hold it.                  *)
(***************************************************************************)
EXTENDS NoteStore, Transfer, Counting, SequenceTheorems, TLAPS

\* The requests by their progress.
Sent == [pc : {"sent"}, note : NoteIds, payload : PayloadSet, ordinal : Nat]
Reading == [pc : {"read"}, note : NoteIds, payload : PayloadSet, ordinal : Nat,
            raced : BOOLEAN, version : Nat]
Written == [pc : {"writing"}, note : NoteIds, payload : PayloadSet, ordinal : Nat,
            raced : BOOLEAN, version : Nat, dropped : SUBSET Assets]
RequestType == {Idle} \cup Sent \cup Reading \cup Written

AssetType == [at : Stages, note : NoteIds \cup {NoRow}]

\* The versions of the rows are numbers.
Versions == \A n \in NoteIds : row[n] # NoRow => row[n].version \in Nat

Shape ==
    /\ DOMAIN row = NoteIds
    /\ Versions
    /\ req \in [Requests -> RequestType]
    /\ asset \in [Assets -> AssetType]
    /\ disk \subseteq Assets
    /\ raced \subseteq NoteIds
    /\ left \in [{"save", "delete", "fault", "clock"} -> Nat]

LEMMA InitShape == Init => Shape
BY NoteStoreAssumption, SMT DEF Init, Shape, RequestType, AssetType, Stages, NoAsset, Versions

LEMMA SpendShape ==
    ASSUME Shape, NEW what \in {"save", "delete", "fault"}, Spend(what)
    PROVE  left' \in [{"save", "delete", "fault", "clock"} -> Nat]
BY SMT DEF Spend, Shape

LEMMA ReadyType ==
    ASSUME Shape, NEW r \in Requests
    PROVE  /\ req[r].pc = "sent" => req[r] \in Sent
           /\ req[r].pc = "read" => req[r] \in Reading
           /\ Writing(r) => req[r] \in Written
           /\ req[r].pc \in {"idle", "sent", "read", "writing"}
BY SMT DEF Shape, RequestType, Sent, Reading, Written, Idle, Writing
-----------------------------------------------------------------------------
\* A request with a title that it checked, and that no other save's commit
\* has overlapped since, is still alone with it.
Clear(x) ==
    x.pc \in {"read", "writing"} => x.raced \/ ~TitleConflict(x.note, x.payload.title)

TitlesInv == OneNotePerTitle /\ \A r \in Requests : Clear(req[r])

\* The images a save drops are active images of its note, which it alone has
\* locked, and have been unlinked.
Unlinked ==
    /\ \A r \in Requests : Writing(r) =>
        /\ req[r].dropped \cap disk = {}
        /\ \A a \in req[r].dropped : asset[a].at = "active" /\ asset[a].note = req[r].note
    /\ \A q, r \in Requests : Writing(q) /\ Writing(r) /\ req[q].note = req[r].note => q = r

BytesInv ==
    /\ left["fault"] <= MaxFaults
    /\ left["fault"] = MaxFaults =>
          \A a \in Assets : asset[a].at = "stored" => a \in disk
    /\ BytesMatchRows

IInv == Shape /\ TitlesInv /\ Unlinked /\ BytesInv

LEMMA InitIInv == Init => IInv
<1> SUFFICES ASSUME Init PROVE IInv
  OBVIOUS
<1>1. Live = {} /\ \A r \in Requests : req[r].pc = "idle"
  BY DEF Init, Live, Idle
<1>2. \A a \in Assets : asset[a].at = "none"
  BY DEF Init, NoAsset
<1>3. TitlesInv
  BY <1>1 DEF TitlesInv, OneNotePerTitle, Clear
<1>4. Unlinked
  BY <1>1 DEF Unlinked, Writing
<1>5. BytesInv
  BY <1>2, NoteStoreAssumption, SMT DEF BytesInv, BytesMatchRows, Init
<1> QED BY <1>3, <1>4, <1>5, InitShape DEF IInv
-----------------------------------------------------------------------------
(******************************* the shape *********************************)

\* A step that changes request r only.
LEMMA RequestShape ==
    ASSUME Shape, NEW r \in Requests, NEW new \in RequestType,
           req' = [req EXCEPT ![r] = new]
    PROVE  /\ req' \in [Requests -> RequestType]
           /\ req'[r] = new
           /\ \A q \in Requests \ {r} : req'[q] = req[q]
BY DEF Shape

\* A step that changes upload a only.
LEMMA StageShape ==
    ASSUME Shape, NEW a \in Assets, NEW at \in Stages, Stage(a, at)
    PROVE  /\ asset' \in [Assets -> AssetType]
           /\ asset'[a].at = at /\ asset'[a].note = asset[a].note
           /\ \A b \in Assets \ {a} : asset'[b] = asset[b]
BY SMT DEF Shape, AssetType, Stage

NewSent(n, p, k) == [pc |-> "sent", note |-> n, payload |-> p, ordinal |-> k]

LEMMA SendShape ==
    ASSUME Shape, NEW r \in Requests, NEW n \in NoteIds, NEW p \in PayloadSet,
           Spend("save"), req' = [req EXCEPT ![r] = NewSent(n, p, left["save"])],
           UNCHANGED <<row, asset, disk, raced>>
    PROVE  /\ Shape'
           /\ req'[r].pc = "sent"
           /\ \A q \in Requests \ {r} : req'[q] = req[q]
<1>1. left["save"] \in Nat
  BY DEF Shape
<1>2. NewSent(n, p, left["save"]) \in RequestType
  BY <1>1 DEF NewSent, RequestType, Sent
<1>3. left' \in [{"save", "delete", "fault", "clock"} -> Nat]
  BY SpendShape
<1> DEFINE new == NewSent(n, p, left["save"])
<1>4. new.pc = "sent"
  BY DEF NewSent
<1> HIDE DEF new
<1> QED BY <1>2, <1>3, <1>4, RequestShape DEF Shape, new, Versions

LEMMA DroppingIs ==
    ASSUME NEW a
    PROVE  a \in Dropping <=> \E r \in Requests : Writing(r) /\ a \in req[r].dropped
BY DEF Dropping

LEMMA DroppingWas ==
    ASSUME NEW a
    PROVE  (a \in Dropping)' <=> \E r \in Requests : Writing(r)' /\ a \in req'[r].dropped
BY DEF Dropping
-----------------------------------------------------------------------------
(*************************** steps of one request **************************)

\* The tables stay, and request r was not writing and does not write now.
LEMMA QuietIInv ==
    ASSUME IInv, Shape', NEW r \in Requests, ~Writing(r), ~Writing(r)',
           \A q \in Requests \ {r} : req'[q] = req[q], Clear(req'[r]),
           left'["fault"] = left["fault"], UNCHANGED <<row, asset, disk, raced>>
    PROVE  IInv'
<1>1. TitlesInv'
  BY DEF IInv, TitlesInv, OneNotePerTitle, Clear, TitleConflict, Live
<1>2. \A q \in Requests : Writing(q)' => Writing(q) /\ req'[q] = req[q]
  BY DEF Writing
<1>3. \A q \in Requests : Writing(q) => Writing(q)' /\ req'[q] = req[q]
  BY DEF Writing
<1>4. Unlinked'
  BY <1>2 DEF IInv, Unlinked
<1>5. \A a \in Assets : (a \in Dropping)' <=> a \in Dropping
  BY <1>2, <1>3, DroppingIs, DroppingWas
<1>6. BytesInv'
  BY <1>5 DEF IInv, BytesInv, BytesMatchRows
<1> QED BY <1>1, <1>4, <1>6 DEF IInv

LEMMA Faultless == ASSUME IInv, Spend("save") \/ Spend("delete") PROVE left'["fault"] = left["fault"]
BY SMT DEF IInv, Shape, Spend

LEMMA SendIInv ==
    ASSUME IInv, NEW r \in Requests, NEW n \in NoteIds, NEW p \in Payloads, Send(r, n, p)
    PROVE  IInv'
<1>1. Shape' /\ req'[r].pc = "sent" /\ \A q \in Requests \ {r} : req'[q] = req[q]
  BY SendShape DEF IInv, Send, NewSent, PayloadSet
<1>2. ~Writing(r) /\ ~Writing(r)'
  BY <1>1 DEF Send, FirstFree, Open, Writing
<1>3. Clear(req'[r])
  BY <1>1 DEF Clear
<1> QED BY <1>1, <1>2, <1>3, QuietIInv, Faultless DEF Send

LEMMA ImportIInv ==
    ASSUME IInv, NEW r \in Requests, NEW n \in NoteIds, NEW f \in Files, Import(r, n, f)
    PROVE  IInv'
<1>0. ImportPayload(f) \in PayloadSet
  BY DEF PayloadSet
<1> DEFINE p == ImportPayload(f)
<1>5. p \in PayloadSet /\ Spend("save") /\ UNCHANGED <<row, asset, disk, raced>>
      /\ req' = [req EXCEPT ![r] = NewSent(n, p, left["save"])]
  BY <1>0 DEF Import, NewSent
<1> HIDE DEF p
<1>1. Shape' /\ req'[r].pc = "sent" /\ \A q \in Requests \ {r} : req'[q] = req[q]
  BY <1>5, SendShape DEF IInv
<1>2. ~Writing(r) /\ ~Writing(r)'
  BY <1>1 DEF Import, FirstFree, Open, Writing
<1>3. Clear(req'[r])
  BY <1>1 DEF Clear
<1> QED BY <1>1, <1>2, <1>3, QuietIInv, Faultless DEF Import

NewRead(x, v) ==
    [pc |-> "read", note |-> x.note, payload |-> x.payload, ordinal |-> x.ordinal,
     raced |-> FALSE, version |-> v]

LEMMA ReadIInv == ASSUME IInv, NEW r \in Requests, Read(r) PROVE IInv'
<1> DEFINE v == IF row[req[r].note] = NoRow THEN 0 ELSE row[req[r].note].version
           refused == TitleConflict(req[r].note, req[r].payload.title)
<1>1. req[r] \in Sent /\ ~Writing(r)
  BY ReadyType DEF IInv, Read, Writing
<1>2. CASE refused
  <2>1. req' = [req EXCEPT ![r] = Idle]
    BY <1>2 DEF Read
  <2>2. Idle \in RequestType /\ Idle.pc = "idle"
    BY DEF RequestType, Idle
  <2>3. req' \in [Requests -> RequestType] /\ req'[r] = Idle
        /\ \A q \in Requests \ {r} : req'[q] = req[q]
    BY <2>1, <2>2, RequestShape DEF IInv
  <2>4. ~Writing(r)' /\ Clear(req'[r])
    BY <2>3, <2>2 DEF Writing, Clear
  <2>5. Shape'
    BY <2>3 DEF Read, IInv, Shape, Versions
  <2> QED BY <1>1, <2>3, <2>4, <2>5, QuietIInv DEF Read
<1>3. CASE ~refused
  <2>1. req' = [req EXCEPT ![r] = NewRead(req[r], v)]
    BY <1>3 DEF Read, NewRead
  <2>2. v \in Nat
    BY <1>1 DEF IInv, Shape, Versions, Sent
  <2>3. NewRead(req[r], v) \in Reading
    BY <1>1, <2>2 DEF NewRead, Reading, Sent
  <2>4. req' \in [Requests -> RequestType] /\ req'[r] = NewRead(req[r], v)
        /\ \A q \in Requests \ {r} : req'[q] = req[q]
    BY <2>1, <2>3, RequestShape DEF IInv, RequestType
  <2>5. ~Writing(r)' /\ Clear(req'[r])
    BY <1>3, <2>4 DEF Writing, Clear, NewRead
  <2>6. Shape'
    BY <2>4 DEF Read, IInv, Shape, Versions
  <2> QED BY <1>1, <2>4, <2>5, <2>6, QuietIInv DEF Read
<1> QED BY <1>2, <1>3
-----------------------------------------------------------------------------
(*************************** steps of one upload ***************************)

LEMMA OnlyActiveDropped ==
    ASSUME IInv, NEW a \in Assets, asset[a].at # "active"
    PROVE  a \notin Dropping
BY DroppingIs DEF IInv, Unlinked

\* A step of upload a that agrees with the media directory.
LEMMA AssetIInv ==
    ASSUME IInv, NEW a \in Assets, a \notin Dropping,
           UNCHANGED <<row, req, raced>>,
           asset' \in [Assets -> AssetType], disk' \subseteq Assets,
           \A b \in Assets \ {a} : asset'[b] = asset[b] /\ (b \in disk' <=> b \in disk),
           left' \in [{"save", "delete", "fault", "clock"} -> Nat],
           left'["fault"] <= left["fault"],
           left'["fault"] = MaxFaults =>
               /\ asset'[a].at \in {"stored", "active"} => a \in disk'
               /\ asset'[a].at \in {"deleted", "removing"} => a \notin disk'
    PROVE  IInv'
<1>1. Shape'
  BY DEF IInv, Shape, Versions
<1>2. TitlesInv'
  BY DEF IInv, TitlesInv, OneNotePerTitle, Clear, TitleConflict, Live
<1>3. \A q \in Requests : (Writing(q)' <=> Writing(q)) /\ req'[q] = req[q]
  BY DEF Writing
<1>4. \A q \in Requests : Writing(q) => a \notin req[q].dropped
  BY DroppingIs
<1>5. \A q \in Requests : Writing(q) => req[q].dropped \subseteq Assets
  BY ReadyType DEF IInv, Written
<1>6. Unlinked'
  <2>1. ASSUME NEW q \in Requests, Writing(q)'
        PROVE  /\ req'[q].dropped \cap disk' = {}
               /\ \A b \in req'[q].dropped :
                     asset'[b].at = "active" /\ asset'[b].note = req'[q].note
    <3>1. Writing(q) /\ req'[q] = req[q]
      BY <2>1, <1>3
    <3>2. \A b \in req[q].dropped : b \in Assets \ {a}
      BY <3>1, <1>4, <1>5
    <3> QED BY <3>1, <3>2 DEF IInv, Unlinked
  <2> QED BY <2>1, <1>3 DEF IInv, Unlinked
<1>7. \A b \in Assets : (b \in Dropping)' <=> b \in Dropping
  BY <1>3, DroppingIs, DroppingWas
<1>8. left["fault"] \in Nat /\ left'["fault"] \in Nat /\ left["fault"] <= MaxFaults
  BY DEF IInv, Shape, BytesInv
<1>9. left'["fault"] <= MaxFaults
      /\ (left'["fault"] = MaxFaults => left["fault"] = MaxFaults)
  BY <1>8, NoteStoreAssumption, SMT
<1>10. BytesInv'
  BY <1>7, <1>9 DEF IInv, BytesInv, BytesMatchRows
<1> QED BY <1>1, <1>2, <1>6, <1>10 DEF IInv

LEMMA LeftType ==
    ASSUME IInv
    PROVE  /\ left \in [{"save", "delete", "fault", "clock"} -> Nat]
           /\ left["fault"] \in Nat /\ left["fault"] <= MaxFaults
           /\ asset \in [Assets -> AssetType] /\ disk \subseteq Assets
BY DEF IInv, Shape, BytesInv

LEMMA SpendLeft ==
    ASSUME IInv, NEW what \in {"save", "delete", "fault"}, Spend(what)
    PROVE  /\ left' \in [{"save", "delete", "fault", "clock"} -> Nat]
           /\ left'["fault"] <= left["fault"]
           /\ what = "fault" => left'["fault"] # MaxFaults
<1>1. left' \in [{"save", "delete", "fault", "clock"} -> Nat]
  BY SpendShape DEF IInv
<1>2. left'["fault"] = IF what = "fault" THEN left["fault"] - 1 ELSE left["fault"]
  BY LeftType, SMT DEF Spend
<1> QED BY <1>1, <1>2, LeftType, NoteStoreAssumption, SMT

LEMMA UploadIInv ==
    ASSUME IInv, NEW a \in Assets, NEW n \in NoteIds, Upload(a, n) PROVE IInv'
<1>1. asset' = [asset EXCEPT ![a] = [at |-> "checked", note |-> n]]
      /\ asset[a].at = "none" /\ UNCHANGED <<row, disk, req, raced, left>>
  BY DEF Upload
<1>2. asset' \in [Assets -> AssetType] /\ asset'[a].at = "checked"
      /\ \A b \in Assets \ {a} : asset'[b] = asset[b]
  BY <1>1, LeftType, SMT DEF AssetType, Stages
<1>3. left'["fault"] <= left["fault"]
  BY <1>1, LeftType, SMT
<1> QED BY <1>1, <1>2, <1>3, LeftType, OnlyActiveDropped, AssetIInv

LEMMA StoreIInv == ASSUME IInv, NEW a \in Assets, Store(a) PROVE IInv'
<1> DEFINE at == IF asset[a].note \in Live THEN "stored" ELSE "failed"
<1>1. Stage(a, at) /\ disk' = disk \cup {a} /\ asset[a].at = "checked"
      /\ UNCHANGED <<row, req, raced, left>>
  BY DEF Store
<1>2. at \in {"stored", "failed"}
  OBVIOUS
<1> HIDE DEF at
<1>3. asset' \in [Assets -> AssetType] /\ asset'[a].at = at
      /\ \A b \in Assets \ {a} : asset'[b] = asset[b]
  BY <1>1, <1>2, StageShape DEF IInv, Stages
<1>4. left'["fault"] <= left["fault"]
  BY <1>1, LeftType, SMT
<1>5. disk' \subseteq Assets /\ a \in disk' /\ \A b \in Assets \ {a} : b \in disk' <=> b \in disk
  BY <1>1, LeftType
<1> QED BY <1>1, <1>2, <1>3, <1>4, <1>5, LeftType, OnlyActiveDropped, AssetIInv

\* A step that only moves the row of upload a.
LEMMA StageIInv ==
    ASSUME IInv, NEW a \in Assets, NEW at \in {"active", "deleted", "failed"}, Stage(a, at),
           asset[a].at \in {"stored", "removing"},
           UNCHANGED <<row, req, raced, disk>>,
           left' = left \/ Spend("fault"),
           left' = left => \/ asset[a].at = "stored" /\ at = "active"
                           \/ asset[a].at = "removing" /\ at = "deleted"
    PROVE  IInv'
<1>1. asset' \in [Assets -> AssetType] /\ asset'[a].at = at
      /\ \A b \in Assets \ {a} : asset'[b] = asset[b]
  BY StageShape DEF IInv, Stages
<1>2. /\ left' \in [{"save", "delete", "fault", "clock"} -> Nat]
      /\ left'["fault"] <= left["fault"]
      /\ left'["fault"] = MaxFaults => left' = left
  <2>1. CASE left' = left
    BY <2>1, LeftType, SMT
  <2>2. CASE Spend("fault")
    BY <2>2, SpendLeft
  <2> QED BY <2>1, <2>2
<1>3. left'["fault"] = MaxFaults =>
               /\ asset'[a].at \in {"stored", "active"} => a \in disk'
               /\ asset'[a].at \in {"deleted", "removing"} => a \notin disk'
  BY <1>1, <1>2 DEF IInv, BytesInv, BytesMatchRows
<1> QED BY <1>1, <1>2, <1>3, LeftType, OnlyActiveDropped, AssetIInv

LEMMA RemoveMediaIInv == ASSUME IInv, NEW a \in Assets, RemoveMedia(a) PROVE IInv'
<1>1. asset' \in [Assets -> AssetType] /\ asset'[a].at = "removing"
      /\ \A b \in Assets \ {a} : asset'[b] = asset[b]
  BY StageShape DEF IInv, Stages, RemoveMedia
<1>2. left' \in [{"save", "delete", "fault", "clock"} -> Nat]
      /\ left'["fault"] <= left["fault"]
  BY SpendLeft DEF RemoveMedia
<1>3. disk' \subseteq Assets /\ a \notin disk'
      /\ \A b \in Assets \ {a} : b \in disk' <=> b \in disk
  BY LeftType DEF RemoveMedia
<1> QED BY <1>1, <1>2, <1>3, AssetIInv DEF RemoveMedia
-----------------------------------------------------------------------------
(*********************** the writes and their commit ***********************)

NewWriting(x, gone) ==
    [pc |-> "writing", note |-> x.note, payload |-> x.payload, ordinal |-> x.ordinal,
     raced |-> x.raced, version |-> x.version, dropped |-> gone]

LEMMA GoneWere ==
    ASSUME IInv, NEW r \in Requests, NEW gone \in {ToDelete(r), {}},
           gone \cap (Removing \cup Dropping) = {}
    PROVE  /\ gone \subseteq Assets
           /\ \A a \in gone : /\ asset[a].at = "active" /\ asset[a].note = req[r].note
                              /\ a \notin req[r].payload.assets /\ a \notin Dropping
<1> SUFFICES ASSUME NEW a \in gone
             PROVE  /\ a \in Assets /\ asset[a].at = "active" /\ asset[a].note = req[r].note
                    /\ a \notin req[r].payload.assets /\ a \notin Dropping
  OBVIOUS
<1>1. a \in ActiveAssets(req[r].note) /\ a \notin req[r].payload.assets
  BY DEF ToDelete
<1>2. a \in Assets /\ asset[a].at \in {"active", "removing"} /\ asset[a].note = req[r].note
  BY <1>1 DEF ActiveAssets
<1>3. a \notin Removing /\ a \notin Dropping
  OBVIOUS
<1> QED BY <1>1, <1>2, <1>3 DEF Removing

\* Request r locks its note and unlinks the images in gone.
LEMMA WritingIInv ==
    ASSUME IInv, NEW r \in Requests, req[r].pc = "read", ~LockedNote(req[r].note),
           NEW gone \in SUBSET Assets,
           \A a \in gone : asset[a].at = "active" /\ asset[a].note = req[r].note,
           req' = [req EXCEPT ![r] = NewWriting(req[r], gone)], disk' = disk \ gone,
           UNCHANGED <<row, asset, raced, left>>
    PROVE  IInv'
<1>1. req[r] \in Reading /\ ~Writing(r)
  BY ReadyType DEF IInv, Writing
<1>2. NewWriting(req[r], gone) \in Written
  BY <1>1 DEF NewWriting, Reading, Written
<1> DEFINE new == NewWriting(req[r], gone)
<1>3. new.pc = "writing" /\ new.note = req[r].note /\ new.payload = req[r].payload
      /\ new.raced = req[r].raced /\ new.dropped = gone
  BY DEF NewWriting
<1>4. new \in RequestType
  BY <1>2 DEF RequestType
<1> HIDE DEF new
<1>5. req' \in [Requests -> RequestType] /\ req'[r] = new
      /\ \A q \in Requests \ {r} : req'[q] = req[q]
  BY <1>4, RequestShape DEF IInv, new
<1>6. Shape'
  BY <1>5, LeftType DEF IInv, Shape, Versions
<1>7. Clear(req'[r])
  <2>1. Clear(req[r])
    BY DEF IInv, TitlesInv
  <2> QED BY <2>1, <1>3, <1>5 DEF Clear
<1>8. TitlesInv'
  BY <1>5, <1>7 DEF IInv, TitlesInv, OneNotePerTitle, Clear, TitleConflict, Live
<1>9. \A q \in Requests : Writing(q)' => q = r \/ (q # r /\ Writing(q) /\ req'[q] = req[q])
  BY <1>5 DEF Writing
<1>10. \A q \in Requests : Writing(q) => q # r /\ Writing(q)' /\ req'[q] = req[q]
  BY <1>1, <1>5 DEF Writing
<1>11. Unlinked'
  <2>1. ASSUME NEW q \in Requests, Writing(q)'
        PROVE  /\ req'[q].dropped \cap disk' = {}
               /\ \A b \in req'[q].dropped :
                     asset'[b].at = "active" /\ asset'[b].note = req'[q].note
    <3>1. CASE q = r
      BY <3>1, <1>3, <1>5
    <3>2. CASE q # r
      BY <3>2, <2>1, <1>9 DEF IInv, Unlinked
    <3> QED BY <3>1, <3>2
  <2>2. \A q \in Requests : Writing(q) => req[q].note # req[r].note
    BY DEF LockedNote
  <2>3. ASSUME NEW p \in Requests, NEW q \in Requests, Writing(p)', Writing(q)',
               req'[p].note = req'[q].note
        PROVE  p = q
    BY <2>2, <2>3, <1>3, <1>5, <1>9 DEF IInv, Unlinked
  <2> QED BY <2>1, <2>3 DEF Unlinked
<1>12. Writing(r)'
  BY <1>3, <1>5 DEF Writing
<1>13. \A a \in Assets : (a \in Dropping)' <=> a \in Dropping \/ a \in gone
  BY <1>3, <1>5, <1>9, <1>10, <1>12, DroppingIs, DroppingWas
<1>14. \A a \in Assets : asset[a].at = "stored" => a \notin gone
  OBVIOUS
<1>15. BytesInv'
  BY <1>13, <1>14 DEF IInv, BytesInv, BytesMatchRows
<1> QED BY <1>6, <1>8, <1>11, <1>15 DEF IInv

LEMMA EndShape ==
    ASSUME Shape, NEW r \in Requests, req' = [req EXCEPT ![r] = Idle]
    PROVE  /\ req' \in [Requests -> RequestType] /\ req'[r].pc = "idle"
           /\ \A q \in Requests \ {r} : req'[q] = req[q]
BY RequestShape DEF RequestType, Idle

LEMMA WriteIInv == ASSUME IInv, NEW r \in Requests, Write(r) PROVE IInv'
<1>1. CASE (req[r].version = 0) = (req[r].note \in Live)
  <2>1. req' = [req EXCEPT ![r] = Idle] /\ UNCHANGED <<row, asset, disk, raced, left>>
        /\ ~Writing(r)
    BY <1>1 DEF Write, Writing
  <2>2. /\ req' \in [Requests -> RequestType] /\ req'[r].pc = "idle"
        /\ \A q \in Requests \ {r} : req'[q] = req[q]
    BY <2>1, EndShape DEF IInv
  <2>3. Shape' /\ ~Writing(r)' /\ Clear(req'[r])
    BY <2>1, <2>2 DEF IInv, Shape, Versions, Writing, Clear
  <2> QED BY <2>1, <2>2, <2>3, QuietIInv
<1>2. CASE ~((req[r].version = 0) = (req[r].note \in Live))
  <2>1. PICK gone \in {ToDelete(r), {}} :
            /\ gone \cap (Removing \cup Dropping) = {}
            /\ req' = [req EXCEPT ![r] = NewWriting(req[r], gone)]
            /\ disk' = disk \ gone
    BY <1>2 DEF Write, NewWriting
  <2>2. gone \in SUBSET Assets
        /\ \A a \in gone : asset[a].at = "active" /\ asset[a].note = req[r].note
    BY <2>1, GoneWere
  <2> QED BY <2>1, <2>2, WritingIInv DEF Write
<1> QED BY <1>1, <1>2

LEMMA AbortIInv == ASSUME IInv, NEW r \in Requests, Abort(r) PROVE IInv'
<1>1. /\ req' \in [Requests -> RequestType] /\ req'[r].pc = "idle"
      /\ \A q \in Requests \ {r} : req'[q] = req[q]
      /\ UNCHANGED <<row, asset, disk, raced>>
  BY EndShape DEF Abort, IInv
<1>2. left' \in [{"save", "delete", "fault", "clock"} -> Nat]
      /\ left'["fault"] # MaxFaults /\ left'["fault"] <= left["fault"]
  BY SpendLeft DEF Abort
<1>3. Shape'
  BY <1>1, <1>2 DEF IInv, Shape, Versions
<1>4. TitlesInv'
  BY <1>1 DEF IInv, TitlesInv, OneNotePerTitle, Clear, TitleConflict, Live
<1>5. \A q \in Requests : Writing(q)' => Writing(q) /\ req'[q] = req[q]
  BY <1>1 DEF Writing
<1>6. Unlinked'
  BY <1>1, <1>5 DEF IInv, Unlinked
<1>7. left'["fault"] <= MaxFaults
  BY <1>2, LeftType, NoteStoreAssumption, SMT
<1>8. BytesInv'
  BY <1>2, <1>7 DEF BytesInv, BytesMatchRows
<1> QED BY <1>3, <1>4, <1>6, <1>8 DEF IInv

\* What a commit does to the other requests.
LEMMA CommitRequests ==
    ASSUME IInv, NEW r \in Requests, Commit(r)
    PROVE  /\ req' \in [Requests -> RequestType] /\ req'[r].pc = "idle"
           /\ \A q \in Requests \ {r} :
                /\ req'[q].pc = req[q].pc
                /\ req'[q].pc \in {"read", "writing"} => req'[q].raced
                /\ Writing(q) => req'[q].note = req[q].note /\ req'[q].dropped = req[q].dropped
<1>1. req' = [q \in Requests |->
                  IF q = r THEN Idle
                  ELSE IF req[q].pc \in {"read", "writing"}
                       THEN [req[q] EXCEPT !.raced = TRUE]
                       ELSE req[q]]
  BY DEF Commit
<1>2. Idle \in RequestType /\ Idle.pc = "idle"
  BY DEF RequestType, Idle
<1>3. ASSUME NEW q \in Requests, req[q].pc \in {"read", "writing"}
      PROVE  /\ [req[q] EXCEPT !.raced = TRUE] \in RequestType
             /\ [req[q] EXCEPT !.raced = TRUE].pc = req[q].pc
             /\ [req[q] EXCEPT !.raced = TRUE].raced = TRUE
             /\ Writing(q) => /\ [req[q] EXCEPT !.raced = TRUE].note = req[q].note
                              /\ [req[q] EXCEPT !.raced = TRUE].dropped = req[q].dropped
  <2>1. CASE req[q].pc = "read"
    <3>1. req[q] \in Reading
      BY <2>1, ReadyType DEF IInv
    <3>2. ~Writing(q)
      BY <2>1 DEF Writing
    <3>3. [req[q] EXCEPT !.raced = TRUE] \in Reading
          /\ [req[q] EXCEPT !.raced = TRUE].pc = req[q].pc
          /\ [req[q] EXCEPT !.raced = TRUE].raced = TRUE
      BY <3>1 DEF Reading
    <3> QED BY <3>2, <3>3 DEF RequestType
  <2>2. CASE req[q].pc = "writing"
    <3>1. req[q] \in Written
      BY <2>2, ReadyType DEF IInv, Writing
    <3>2. [req[q] EXCEPT !.raced = TRUE] \in Written
          /\ [req[q] EXCEPT !.raced = TRUE].pc = req[q].pc
          /\ [req[q] EXCEPT !.raced = TRUE].raced = TRUE
          /\ [req[q] EXCEPT !.raced = TRUE].note = req[q].note
          /\ [req[q] EXCEPT !.raced = TRUE].dropped = req[q].dropped
      BY <3>1 DEF Written
    <3> QED BY <3>2 DEF RequestType
  <2> QED BY <1>3, <2>1, <2>2
<1>4. ASSUME NEW q \in Requests
      PROVE  req'[q] \in RequestType
  <2>1. req[q] \in RequestType
    BY DEF IInv, Shape
  <2>2. CASE q = r
    BY <1>1, <1>2, <2>2
  <2>3. CASE q # r /\ req[q].pc \in {"read", "writing"}
    <3>1. req'[q] = [req[q] EXCEPT !.raced = TRUE]
      BY <1>1, <2>3
    <3> QED BY <3>1, <2>3, <1>3
  <2>4. CASE q # r /\ req[q].pc \notin {"read", "writing"}
    <3>1. req'[q] = req[q]
      BY <1>1, <2>4
    <3> QED BY <3>1, <2>1
  <2> QED BY <2>2, <2>3, <2>4
<1>5. req' \in [Requests -> RequestType]
  BY <1>1, <1>4
<1>6. ASSUME NEW q \in Requests \ {r}
      PROVE  /\ req'[q].pc = req[q].pc
             /\ req'[q].pc \in {"read", "writing"} => req'[q].raced
             /\ Writing(q) => req'[q].note = req[q].note /\ req'[q].dropped = req[q].dropped
  <2>1. CASE req[q].pc \in {"read", "writing"}
    <3>1. req'[q] = [req[q] EXCEPT !.raced = TRUE]
      BY <2>1, <1>1
    <3> QED BY <3>1, <2>1, <1>3
  <2>2. CASE req[q].pc \notin {"read", "writing"}
    <3>1. req'[q] = req[q]
      BY <2>2, <1>1
    <3> QED BY <3>1, <2>2 DEF Writing
  <2> QED BY <2>1, <2>2
<1> QED BY <1>1, <1>2, <1>5, <1>6

\* The new row of the note and the clock.
LEMMA CommitShape == ASSUME IInv, NEW r \in Requests, Commit(r)
    PROVE  /\ Shape' /\ left'["fault"] = left["fault"]
           /\ req[r].note \in NoteIds
           /\ row'[req[r].note].title = req[r].payload.title
           /\ \A n \in NoteIds \ {req[r].note} : row'[n] = row[n]
<1>1. PICK saved \in {left["clock"], left["clock"] + 1} :
            /\ row' = [row EXCEPT ![req[r].note] = NewRow(r, saved)]
            /\ left' = [left EXCEPT !["clock"] = saved]
  BY DEF Commit
<1>2. req[r] \in Written
  BY ReadyType DEF IInv, Commit
<1>3. req[r].note \in NoteIds /\ req[r].version + 1 \in Nat
  BY <1>2 DEF Written
<1> DEFINE new == NewRow(r, saved)
<1>4. new.version \in Nat /\ new.title = req[r].payload.title
  BY <1>3 DEF NewRow
<1> HIDE DEF new
<1>5. DOMAIN row = NoteIds
  BY DEF IInv, Shape
<1>6. DOMAIN row' = NoteIds /\ row'[req[r].note] = new
      /\ \A n \in NoteIds \ {req[r].note} : row'[n] = row[n]
  BY <1>1, <1>3, <1>5 DEF new
<1>7. Versions'
  BY <1>4, <1>6 DEF Versions, IInv, Shape
<1>8. left' \in [{"save", "delete", "fault", "clock"} -> Nat]
      /\ left'["fault"] = left["fault"]
  BY <1>1, LeftType, SMT
<1>9. asset' \in [Assets -> AssetType]
  <2>1. asset' = [a \in Assets |-> IF a \in req[r].dropped
                                   THEN [asset[a] EXCEPT !.at = "deleted"]
                                   ELSE asset[a]]
    BY DEF Commit
  <2> QED BY <2>1, LeftType, SMT DEF AssetType, Stages
<1>10. raced' \subseteq NoteIds
  <2>1. raced \subseteq NoteIds
    BY DEF IInv, Shape
  <2> QED BY <2>1, <1>3, Zenon DEF Commit
<1>11. disk' \subseteq Assets /\ req' \in [Requests -> RequestType]
  BY LeftType, CommitRequests DEF Commit
<1>12. Shape'
  BY <1>6, <1>7, <1>8, <1>9, <1>10, <1>11 DEF Shape
<1> QED BY <1>3, <1>4, <1>6, <1>8, <1>12

LEMMA CommitTitles == ASSUME IInv, NEW r \in Requests, Commit(r) PROVE TitlesInv'
<1> DEFINE n == req[r].note
<1>1. n \in NoteIds /\ row'[n].title = req[r].payload.title
      /\ \A m \in NoteIds \ {n} : row'[m] = row[m]
  BY CommitShape
<1>2. \A q \in Requests : Clear(req[q])'
  <2> SUFFICES ASSUME NEW q \in Requests, req'[q].pc \in {"read", "writing"}
               PROVE  req'[q].raced
    BY Zenon DEF Clear
  <2>1. q # r
    BY CommitRequests
  <2> QED BY <2>1, CommitRequests
<1>3. raced \ {n} \subseteq raced' /\ (req[r].raced => n \in raced')
  BY Zenon DEF Commit
<1>4. req[r].raced \/ ~TitleConflict(n, req[r].payload.title)
  BY DEF IInv, TitlesInv, Clear, Commit, Writing
<1>5. \A m \in NoteIds \ {n} : m \in Live' <=> m \in Live
  BY <1>1 DEF Live
<1>6. ASSUME NEW m \in NoteIds, NEW k \in NoteIds, m \in Live', k \in Live', m # k,
             row'[m].title = row'[k].title
      PROVE  {m, k} \cap raced' # {}
  <2>1. CASE m # n /\ k # n
    <3>1. {m, k} \cap raced # {}
      BY <1>1, <1>5, <1>6, <2>1 DEF IInv, TitlesInv, OneNotePerTitle
    <3> QED BY <3>1, <2>1, <1>3
  <2>2. CASE m = n
    <3>1. TitleConflict(n, req[r].payload.title)
      BY <1>1, <1>5, <1>6, <2>2 DEF TitleConflict
    <3> QED BY <3>1, <2>2, <1>3, <1>4
  <2>3. CASE k = n
    <3>1. TitleConflict(n, req[r].payload.title)
      BY <1>1, <1>5, <1>6, <2>3 DEF TitleConflict
    <3> QED BY <3>1, <2>3, <1>3, <1>4
  <2> QED BY <2>1, <2>2, <2>3
<1>7. \A m \in Live' : m \in NoteIds
  BY DEF Live
<1> QED BY <1>2, <1>6, <1>7 DEF TitlesInv, OneNotePerTitle

LEMMA CommitIInv == ASSUME IInv, NEW r \in Requests, Commit(r) PROVE IInv'
<1>1. Writing(r) /\ disk' = disk /\ \A a \in Assets :
         /\ a \in req[r].dropped => asset'[a].at = "deleted"
         /\ a \notin req[r].dropped => asset'[a] = asset[a]
  <2>1. asset' = [a \in Assets |-> IF a \in req[r].dropped
                                   THEN [asset[a] EXCEPT !.at = "deleted"]
                                   ELSE asset[a]]
        /\ Writing(r) /\ disk' = disk
    BY DEF Commit
  <2> QED BY <2>1, LeftType, SMT DEF AssetType
<1>2. ~Writing(r)' /\ \A q \in Requests \ {r} : Writing(q)' <=> Writing(q)
  BY CommitRequests DEF Writing
<1>3. \A q \in Requests \ {r} : Writing(q) =>
         /\ req'[q].note = req[q].note /\ req'[q].dropped = req[q].dropped
         /\ req[q].note # req[r].note /\ req[q].dropped \subseteq Assets
  BY <1>1, CommitRequests, ReadyType DEF IInv, Unlinked, Written
<1>4. \A q \in Requests \ {r} : Writing(q) => req[q].dropped \cap req[r].dropped = {}
  BY <1>1, <1>3 DEF IInv, Unlinked
<1>5. Unlinked'
  <2>1. ASSUME NEW q \in Requests, Writing(q)'
        PROVE  /\ req'[q].dropped \cap disk' = {}
               /\ \A b \in req'[q].dropped :
                     asset'[b].at = "active" /\ asset'[b].note = req'[q].note
    <3>1. q \in Requests \ {r} /\ Writing(q)
      BY <2>1, <1>2
    <3>2. req'[q].dropped = req[q].dropped /\ req'[q].note = req[q].note
          /\ \A b \in req[q].dropped : asset'[b] = asset[b]
      BY <3>1, <1>1, <1>3, <1>4
    <3> QED BY <3>1, <3>2, <1>1 DEF IInv, Unlinked
  <2>2. ASSUME NEW p \in Requests, NEW q \in Requests, Writing(p)', Writing(q)',
               req'[p].note = req'[q].note
        PROVE  p = q
    BY <2>2, <1>2, <1>3 DEF IInv, Unlinked
  <2> QED BY <2>1, <2>2 DEF Unlinked
<1>6. \A a \in Assets : a \notin req[r].dropped => ((a \in Dropping)' <=> a \in Dropping)
  BY <1>1, <1>2, <1>3, DroppingIs, DroppingWas
<1>7. \A a \in Assets : a \in req[r].dropped => a \notin disk
  BY <1>1 DEF IInv, Unlinked
<1>8. left'["fault"] = left["fault"]
  BY CommitShape
<1>9. BytesInv'
  BY <1>1, <1>6, <1>7, <1>8 DEF IInv, BytesInv, BytesMatchRows
<1> QED BY <1>5, <1>9, CommitShape, CommitTitles DEF IInv

LEMMA DeleteIInv == ASSUME IInv, NEW n \in NoteIds, DeleteNote(n) PROVE IInv'
<1>1. /\ row' = [row EXCEPT ![n] = NoRow] /\ UNCHANGED <<disk, req>>
      /\ raced' = raced \ {n} /\ ~LockedNote(n) /\ Spend("delete")
      /\ asset' = [a \in Assets |->
                    IF asset[a].note = n /\ asset[a].at \in {"active", "deleted"}
                    THEN [asset[a] EXCEPT !.at = "cascaded"] ELSE asset[a]]
  BY DEF DeleteNote
<1>2. DOMAIN row = NoteIds
  BY DEF IInv, Shape
<1>3. DOMAIN row' = NoteIds /\ row'[n] = NoRow
      /\ \A m \in NoteIds \ {n} : row'[m] = row[m]
  BY <1>1, <1>2
<1>4. left' \in [{"save", "delete", "fault", "clock"} -> Nat] /\ left'["fault"] = left["fault"]
  BY <1>1, SpendLeft, Faultless
<1>5. \A a \in Assets :
         /\ asset'[a] \in AssetType
         /\ \/ asset'[a] = asset[a]
            \/ asset[a].note = n /\ asset'[a].at = "cascaded"
  BY <1>1, LeftType, SMT DEF AssetType, Stages
<1>6. asset' \in [Assets -> AssetType]
  BY <1>1, <1>5
<1>7. Versions'
  BY <1>3 DEF IInv, Shape, Versions
<1>8. Shape'
  BY <1>1, <1>3, <1>4, <1>6, <1>7 DEF IInv, Shape
<1>9. Live' = Live \ {n}
  BY <1>3 DEF Live
<1>10. TitlesInv'
  <2>1. \A r \in Requests : Clear(req[r])'
    BY <1>1, <1>3, <1>9 DEF IInv, TitlesInv, Clear, TitleConflict, Live
  <2>2. OneNotePerTitle'
    <3> SUFFICES ASSUME NEW m \in Live', NEW k \in Live', m # k, row'[m].title = row'[k].title
                 PROVE  {m, k} \cap raced' # {}
      BY DEF OneNotePerTitle
    <3>1. m \in Live \ {n} /\ k \in Live \ {n} /\ m \in NoteIds /\ k \in NoteIds
      BY <1>9 DEF Live
    <3>2. {m, k} \cap raced # {}
      BY <3>1, <1>3 DEF IInv, TitlesInv, OneNotePerTitle
    <3> QED BY <3>1, <3>2, <1>1
  <2> QED BY <2>1, <2>2 DEF TitlesInv
<1>11. \A r \in Requests : Writing(r) =>
          /\ req[r].note # n /\ req[r].dropped \subseteq Assets
          /\ \A a \in req[r].dropped : asset[a].note = req[r].note
  BY <1>1, ReadyType DEF IInv, Unlinked, LockedNote, Written
<1>12. Unlinked'
  <2>1. ASSUME NEW q \in Requests, Writing(q)'
        PROVE  /\ req'[q].dropped \cap disk' = {}
               /\ \A b \in req'[q].dropped :
                     asset'[b].at = "active" /\ asset'[b].note = req'[q].note
    <3>1. Writing(q) /\ req' = req /\ disk' = disk
      BY <1>1, <2>1 DEF Writing
    <3>2. \A b \in req[q].dropped : asset'[b] = asset[b]
      BY <3>1, <1>5, <1>11
    <3> QED BY <3>1, <3>2 DEF IInv, Unlinked
  <2>2. \A p, q \in Requests : Writing(p)' /\ Writing(q)' /\ req'[p].note = req'[q].note => p = q
    BY <1>1 DEF IInv, Unlinked, Writing
  <2> QED BY <2>1, <2>2 DEF Unlinked
<1>13. Dropping' = Dropping
  BY <1>1 DEF Dropping, Writing
<1>14. BytesInv'
  BY <1>1, <1>4, <1>5, <1>13 DEF IInv, BytesInv, BytesMatchRows
<1> QED BY <1>8, <1>10, <1>12, <1>14 DEF IInv

LEMMA StutterIInv == IInv /\ UNCHANGED vars => IInv'
<1> SUFFICES ASSUME IInv, UNCHANGED vars PROVE IInv'
  OBVIOUS
<1>1. UNCHANGED <<row, asset, disk, req, raced, left>>
  BY DEF vars
<1>2. Live' = Live /\ Dropping' = Dropping
  BY <1>1 DEF Live, Dropping, Writing
<1>3. Shape'
  BY <1>1 DEF IInv, Shape, Versions
<1>4. TitlesInv'
  BY <1>1, <1>2 DEF IInv, TitlesInv, OneNotePerTitle, Clear, TitleConflict
<1>5. Unlinked'
  BY <1>1 DEF IInv, Unlinked, Writing
<1>6. BytesInv'
  BY <1>1, <1>2 DEF IInv, BytesInv, BytesMatchRows
<1> QED BY <1>3, <1>4, <1>5, <1>6 DEF IInv
-----------------------------------------------------------------------------
(****************************** all the steps ******************************)

LEMMA NextIInv == IInv /\ [Next]_vars => IInv'
<1> SUFFICES ASSUME IInv, [Next]_vars PROVE IInv'
  OBVIOUS
<1>1. CASE Client
  BY <1>1, SendIInv, ImportIInv, DeleteIInv, UploadIInv, RemoveMediaIInv DEF Client
<1>2. ASSUME NEW r \in Requests, Saving(r) PROVE IInv'
  BY <1>2, ReadIInv, WriteIInv, CommitIInv DEF Saving
<1>3. ASSUME NEW a \in Assets, Moving(a) PROVE IInv'
  <2>1. CASE Store(a)
    BY <2>1, StoreIInv
  <2>2. CASE CommitUpload(a)
    BY <2>2, StageIInv DEF CommitUpload
  <2>3. CASE CommitRemoveMedia(a)
    BY <2>3, StageIInv DEF CommitRemoveMedia
  <2> QED BY <1>3, <2>1, <2>2, <2>3 DEF Moving
<1>4. ASSUME NEW a \in Assets, AbortUpload(a) \/ AbortRemoveMedia(a) PROVE IInv'
  <2>1. Spend("fault") /\ left' # left
    <3>1. Spend("fault")
      BY <1>4 DEF AbortUpload, AbortRemoveMedia
    <3> QED BY <3>1, LeftType, SMT DEF Spend
  <2> QED BY <1>4, <2>1, StageIInv DEF AbortUpload, AbortRemoveMedia
<1>5. CASE Trouble
  BY <1>5, <1>4, AbortIInv DEF Trouble
<1>6. CASE Server
  BY <1>6, <1>2, <1>3 DEF Server
<1> QED BY <1>1, <1>5, <1>6, StutterIInv DEF Next

LEMMA AlwaysIInv == Spec => []IInv
BY InitIInv, NextIInv, PTL DEF Spec

\* At most one of two notes with a title was last saved without another save
\* committing beside it: the check of upsert_note, for any number of requests.
THEOREM Titles == Spec => []OneNotePerTitle
<1>1. IInv => OneNotePerTitle
  BY DEF IInv, TitlesInv
<1> QED BY <1>1, AlwaysIInv, PTL

\* Without a failed transaction, active images have their bytes and deleted
\* ones have none, for any number of uploads, deletes and saves in flight.
THEOREM Bytes == Spec => []BytesMatchRows
<1>1. IInv => BytesMatchRows
  BY DEF IInv, BytesInv
<1> QED BY <1>1, AlwaysIInv, PTL

Spared ==
    \A a \in disk \ disk' :
         \/ asset'[a].at = "removing"
         \/ \E r \in Requests : /\ Writing(r)' /\ ~Writing(r)
                                /\ asset[a].note = req[r].note
                                /\ a \notin req[r].payload.assets

LEMMA WriteSpares == ASSUME IInv, NEW r \in Requests, Write(r) PROVE Spared
<1>1. CASE (req[r].version = 0) = (req[r].note \in Live)
  BY <1>1 DEF Write, Spared
<1>2. CASE ~((req[r].version = 0) = (req[r].note \in Live))
  <2>1. PICK gone \in {ToDelete(r), {}} :
            /\ gone \cap (Removing \cup Dropping) = {}
            /\ req' = [req EXCEPT ![r] = NewWriting(req[r], gone)]
            /\ disk' = disk \ gone
    BY <1>2 DEF Write, NewWriting
  <2>2. \A a \in gone : asset[a].note = req[r].note /\ a \notin req[r].payload.assets
    BY <2>1, GoneWere
  <2>3. Writing(r)' /\ ~Writing(r)
    <3>1. DOMAIN req = Requests /\ NewWriting(req[r], gone).pc = "writing"
      BY DEF IInv, Shape, NewWriting
    <3> HIDE DEF NewWriting
    <3>2. req'[r].pc = "writing"
      BY <3>1, <2>1
    <3> QED BY <3>2 DEF Writing, Write
  <2> QED BY <2>1, <2>2, <2>3 DEF Spared
<1> QED BY <1>1, <1>2

LEMMA NextSpares == IInv /\ [Next]_vars => Spared \/ UNCHANGED vars
<1> SUFFICES ASSUME IInv, Next PROVE Spared
  OBVIOUS
<1>1. CASE Client
  <2>1. ASSUME NEW a \in Assets, RemoveMedia(a) PROVE Spared
    <3>1. disk' = disk \ {a}
      BY <2>1 DEF RemoveMedia
    <3>2. asset'[a].at = "removing"
      BY <2>1, StageShape DEF RemoveMedia, IInv, Stages
    <3> QED BY <3>1, <3>2 DEF Spared
  <2>2. CASE UNCHANGED disk
    BY <2>2 DEF Spared
  <2>3. UNCHANGED disk \/ \E a \in Assets : RemoveMedia(a)
    BY <1>1 DEF Client, Send, Import, DeleteNote, Upload
  <2> QED BY <2>1, <2>2, <2>3
<1>2. CASE Trouble
  BY <1>2 DEF Trouble, Abort, AbortUpload, AbortRemoveMedia, Spared
<1>3. CASE Server
  <2>1. ASSUME NEW r \in Requests, Saving(r) PROVE Spared
    <3>1. CASE UNCHANGED disk
      BY <3>1 DEF Spared
    <3> QED BY <2>1, <3>1, WriteSpares DEF Saving, Read, Commit
  <2>2. ASSUME NEW a \in Assets, Moving(a) PROVE disk \subseteq disk'
    BY <2>2 DEF Moving, Store, CommitUpload, CommitRemoveMedia
  <2> QED BY <1>3, <2>1, <2>2 DEF Server, Spared
<1> QED BY <1>1, <1>2, <1>3 DEF Next

\* No save, of any number in flight, unlinks an image of another note or one
\* its own document names: reconcile_note_assets_for_note.
THEOREM Spares == Spec => SaveSparesOthers
<1>1. IInv /\ [Next]_vars =>
        [\A a \in disk \ disk' :
           \/ asset'[a].at = "removing"
           \/ \E r \in Requests : /\ Writing(r)' /\ ~Writing(r)
                                  /\ asset[a].note = req[r].note
                                  /\ a \notin req[r].payload.assets]_vars
  BY NextSpares DEF Spared
<1> QED BY <1>1, AlwaysIInv, PTL DEF Spec, SaveSparesOthers
-----------------------------------------------------------------------------
(************************* the walk of a document *************************)

NoMint(doc) == [i \in 0 .. Len(doc) |-> NoUid]

\* The length, and what is nested where.
LEMMA DocShape ==
    ASSUME NEW doc \in Docs
    PROVE  /\ Len(doc) \in Nat /\ DOMAIN doc = 1 .. Len(doc)
           /\ \A i \in DOMAIN doc :
                 /\ doc[i] \in Node
                 /\ doc[i].up \in 0 .. i - 1 /\ doc[i].up \in 0 .. Len(doc)
<1>1. doc \in Seq(Node) /\ \A i \in DOMAIN doc : doc[i].up \in 0 .. i - 1
  BY Zenon DEF Docs, Preorder
<1>2. Len(doc) \in Nat /\ DOMAIN doc = 1 .. Len(doc) /\ \A i \in DOMAIN doc : doc[i] \in Node
  BY <1>1
<1> QED BY <1>1, <1>2

\* Enclosing as an equation.
LEMMA EnclosingStep ==
    ASSUME NEW doc \in Docs, NEW mint, NEW i \in 0 .. Len(doc)
    PROVE  Enclosing(doc, mint, i) =
             IF i = 0 \/ doc[i].up = 0 THEN NoUid
             ELSE IF doc[doc[i].up].kind = "container"
                  THEN UidOf(doc, mint, doc[i].up)
                  ELSE Enclosing(doc, mint, doc[i].up)
<1> DEFINE n == Len(doc)
           Eq(f) == f = [k \in 0 .. n |->
                          IF k = 0 \/ doc[k].up = 0 THEN NoUid
                          ELSE IF doc[doc[k].up].kind = "container"
                               THEN UidOf(doc, mint, doc[k].up)
                               ELSE f[doc[k].up]]
           F == CHOOSE f : Eq(f)
           stop == {k \in 0 .. n : \/ k = 0 \/ doc[k].up = 0
                                   \/ doc[doc[k].up].kind = "container"}
           up == [k \in 0 .. n |-> doc[k].up]
           val == [k \in 0 .. n |-> IF k = 0 \/ doc[k].up = 0 THEN NoUid
                                    ELSE UidOf(doc, mint, doc[k].up)]
<1>1. \A j : Enclosing(doc, mint, j) = F[j]
  BY DEF Enclosing
<1>2. n \in Nat /\ \A k \in 1 .. n : doc[k].up \in Nat /\ doc[k].up < k
  BY DocShape
<1> HIDE DEF n
<1>3. \E f : Climbs(f, n, up, stop, val)
  <2>1. \A k \in (0 .. n) \ stop : up[k] \in Nat /\ up[k] < k
    BY <1>2
  <2> HIDE DEF up, stop, val
  <2> QED BY <1>2, <2>1, Climb
<1>4. \E f : Eq(f)
  <2>1. PICK f : f = [k \in 0 .. n |-> IF k \in stop THEN val[k] ELSE f[up[k]]]
    BY <1>3 DEF Climbs
  <2>2. \A k \in 0 .. n : (IF k \in stop THEN val[k] ELSE f[up[k]])
                           = IF k = 0 \/ doc[k].up = 0 THEN NoUid
                             ELSE IF doc[doc[k].up].kind = "container"
                                  THEN UidOf(doc, mint, doc[k].up)
                                  ELSE f[doc[k].up]
    OBVIOUS
  <2> QED BY <2>1, <2>2, ZenonT(60)
<1>5. Eq(F)
  BY <1>4
<1> HIDE DEF F
<1> QED BY <1>1, <1>5 DEF n

\* Inside as an equation.
Climbed(doc, i, k) ==
    Inside(doc, i, k) =
        IF k = i THEN TRUE ELSE IF k = 0 THEN FALSE ELSE Inside(doc, i, doc[k].up)

LEMMA InsideStep ==
    ASSUME NEW doc \in Docs, NEW i \in DOMAIN doc, NEW k \in 0 .. Len(doc)
    PROVE  Climbed(doc, i, k)
<1> DEFINE n == Len(doc)
           Eq(f) == f = [x \in 0 .. n |->
                          IF x = i THEN TRUE ELSE IF x = 0 THEN FALSE ELSE f[doc[x].up]]
           F == CHOOSE f : Eq(f)
           stop == {0, i}
           up == [x \in 0 .. n |-> doc[x].up]
           val == [x \in 0 .. n |-> x = i]
<1>1. \A j : Inside(doc, i, j) = F[j]
  BY DEF Inside
<1>2. n \in Nat /\ \A x \in 1 .. n : doc[x].up \in Nat /\ doc[x].up < x
  BY DocShape
<1> HIDE DEF n
<1>3. \E f : Climbs(f, n, up, stop, val)
  <2>1. \A x \in (0 .. n) \ stop : up[x] \in Nat /\ up[x] < x
    BY <1>2
  <2> HIDE DEF up, stop, val
  <2> QED BY <1>2, <2>1, Climb
<1>4. \E f : Eq(f)
  <2>1. PICK f : f = [x \in 0 .. n |-> IF x \in stop THEN val[x] ELSE f[up[x]]]
    BY <1>3 DEF Climbs
  <2>2. \A x \in 0 .. n : (IF x \in stop THEN val[x] ELSE f[up[x]])
                           = IF x = i THEN TRUE ELSE IF x = 0 THEN FALSE ELSE f[doc[x].up]
    OBVIOUS
  <2>3. f = [x \in 0 .. n |-> IF x = i THEN TRUE ELSE IF x = 0 THEN FALSE ELSE f[doc[x].up]]
    <3> HIDE DEF stop, up, val
    <3> QED BY <2>1, <2>2, ZenonT(60)
  <2> QED BY <2>3, Zenon
<1>5. Eq(F)
  BY <1>4
<1> HIDE DEF F
<1> QED BY <1>1, <1>5 DEF n, Climbed

\* A document with the uids minted for it.
Proper(doc, mint) ==
    doc \in Docs /\ mint \in [0 .. Len(doc) -> Nat] /\ FreshMint(doc, mint)

LEMMA UidType ==
    ASSUME NEW doc, NEW mint, Proper(doc, mint), NEW i \in Blocks(doc)
    PROVE  UidOf(doc, mint, i) \in Nat
BY DocShape, SMT DEF Proper, UidOf, Blocks, Node, Uids, Before

\* No two blocks bear the same uid once the walk is done.
LEMMA UidsDiffer ==
    ASSUME NEW doc, NEW mint, Proper(doc, mint), NEW i \in Blocks(doc), NEW k \in Blocks(doc),
           UidOf(doc, mint, i) = UidOf(doc, mint, k)
    PROVE  i = k
<1> SUFFICES ASSUME NEW a \in Blocks(doc), NEW b \in Blocks(doc), a < b
             PROVE  UidOf(doc, mint, a) # UidOf(doc, mint, b)
  <2>1. i \in Nat /\ k \in Nat
    BY DocShape DEF Blocks, Proper
  <2> QED BY <2>1, SMT
<1>1. a \in DOMAIN doc /\ b \in DOMAIN doc /\ a \in Before(doc, b)
  BY DEF Blocks, Before
<1>2. mint[a] # mint[b] /\ mint[a] # doc[b].uid /\ mint[b] # doc[a].uid /\ mint[a] # NoUid /\ mint[b] # NoUid
  <2>1. a # b
    BY DocShape, SMT DEF Proper, Blocks
  <2> QED BY <1>1, <2>1, Zenon DEF Proper, FreshMint
<1> QED BY <1>1, <1>2 DEF UidOf

\* The earlier blocks of node x's parent.
Elder(doc, mint, x) == {j \in Before(doc, x) : ParentOf(doc, mint, j) = ParentOf(doc, mint, x)}

LEMMA OrderType ==
    ASSUME NEW doc, NEW mint, Proper(doc, mint), NEW x \in Blocks(doc)
    PROVE  /\ IsFiniteSet(Elder(doc, mint, x)) /\ x \in Nat
           /\ OrderOf(doc, mint, x) = Cardinality(Elder(doc, mint, x))
           /\ OrderOf(doc, mint, x) \in Nat
<1>1. IsFiniteSet(1 .. Len(doc)) /\ Elder(doc, mint, x) \subseteq 1 .. Len(doc) /\ x \in Nat
  <2>1. Len(doc) \in Nat /\ DOMAIN doc = 1 .. Len(doc)
    BY DocShape DEF Proper
  <2>2. IsFiniteSet(1 .. Len(doc))
    BY <2>1, FS_Interval
  <2>3. Elder(doc, mint, x) \subseteq DOMAIN doc
    BY DEF Before, Blocks, Elder
  <2> QED BY <2>1, <2>2, <2>3 DEF Blocks
<1>2. IsFiniteSet(Elder(doc, mint, x)) /\ Cardinality(Elder(doc, mint, x)) \in Nat
  BY <1>1, FS_Subset, FS_CardinalityType
<1> QED BY <1>1, <1>2 DEF OrderOf, Elder

\* Two blocks of one parent have different orders.
LEMMA OrdersDiffer ==
    ASSUME NEW doc, NEW mint, Proper(doc, mint), NEW i \in Blocks(doc), NEW k \in Blocks(doc),
           ParentOf(doc, mint, i) = ParentOf(doc, mint, k),
           OrderOf(doc, mint, i) = OrderOf(doc, mint, k)
    PROVE  i = k
<1>1. ASSUME NEW x \in Blocks(doc)
      PROVE  IsFiniteSet(Elder(doc, mint, x)) /\ OrderOf(doc, mint, x) = Cardinality(Elder(doc, mint, x))
             /\ Cardinality(Elder(doc, mint, x)) \in Nat /\ x \in Nat
  BY OrderType
<1>2. ASSUME NEW a \in Blocks(doc), NEW b \in Blocks(doc), a < b,
             ParentOf(doc, mint, a) = ParentOf(doc, mint, b)
      PROVE  OrderOf(doc, mint, a) # OrderOf(doc, mint, b)
  <2>1. a \in Elder(doc, mint, b) /\ a \notin Elder(doc, mint, a)
    <3>1. a \in Nat /\ b \in Nat
      BY <1>1
    <3>2. a \in Before(doc, b) /\ a \notin Before(doc, a)
      BY <1>2, <3>1 DEF Before
    <3> QED BY <1>2, <3>2 DEF Elder
  <2>2. Elder(doc, mint, a) \subseteq Elder(doc, mint, b)
    <3>1. Before(doc, a) \subseteq Before(doc, b)
      <4>1. \A j \in Blocks(doc) : j \in Nat
        BY <1>1
      <4> QED BY <1>1, <1>2, <4>1, SMT DEF Before
    <3> QED BY <3>1, <1>2 DEF Elder
  <2>3. Elder(doc, mint, a) # Elder(doc, mint, b)
    BY <2>1
  <2>4. Cardinality(Elder(doc, mint, a)) # Cardinality(Elder(doc, mint, b))
    BY <1>1, <2>2, <2>3, FS_Subset
  <2> QED BY <1>1, <2>4
<1>3. i \in Nat /\ k \in Nat
  BY <1>1
<1>4. i < k \/ k < i \/ i = k
  BY <1>3
<1> QED BY <1>2, <1>4

\* The parent attribute: a uid, or none.
LEMMA LatestIs ==
    ASSUME NEW doc, NEW mint, Proper(doc, mint), NEW i \in Blocks(doc), NEW raw
    PROVE  \/ Latest(doc, mint, i, raw) = raw /\ \A j \in Before(doc, i) \cup {i} : doc[j].uid # raw
           \/ \E j \in Before(doc, i) \cup {i} :
                 doc[j].uid = raw /\ Latest(doc, mint, i, raw) = UidOf(doc, mint, j)
<1> DEFINE bearers == {j \in Before(doc, i) \cup {i} : doc[j].uid = raw}
           last == CHOOSE j \in bearers : \A k \in bearers : k <= j
<1>1. Latest(doc, mint, i, raw) = IF bearers = {} THEN raw ELSE UidOf(doc, mint, last)
  BY DEF Latest
<1>2. bearers \in SUBSET Nat /\ i \in Nat /\ \A j \in bearers : j <= i
  BY DocShape, SMT DEF Proper, Blocks, Before
<1>3. bearers # {} => last \in bearers
  <2> HIDE DEF bearers
  <2>1. bearers # {} => \E j \in bearers : \A k \in bearers : k <= j
    BY <1>2, GreatestNumber
  <2> QED BY <2>1
<1> HIDE DEF last
<1> QED BY <1>1, <1>3

LEMMA ParentAttrType ==
    ASSUME NEW doc, NEW mint, Proper(doc, mint), NEW i \in Blocks(doc)
    PROVE  ParentAttr(doc, mint, i) \in Uids
<1>1. doc[i].parent \in Uids
  BY DocShape DEF Proper, Blocks, Node
<1>2. Latest(doc, mint, i, doc[i].parent) \in Uids
  <2>1. \A j \in Before(doc, i) \cup {i} : UidOf(doc, mint, j) \in Nat
    BY UidType DEF Before
  <2> QED BY <1>1, <2>1, LatestIs DEF Uids
<1> QED BY <1>1, <1>2 DEF ParentAttr

LEMMA EnclosingType ==
    ASSUME NEW doc, NEW mint, Proper(doc, mint), NEW i \in 0 .. Len(doc)
    PROVE  Enclosing(doc, mint, i) \in Uids
<1> DEFINE T == {k \in 0 .. Len(doc) : Enclosing(doc, mint, k) \notin Uids}
<1>1. doc \in Docs /\ T \in SUBSET Nat
  BY DocShape DEF Proper
<1>2. CASE T # {}
  <2>1. PICK k \in T : \A j \in T : k <= j
    <3> HIDE DEF T
    <3> QED BY <1>1, <1>2, LeastNumber
  <2>2. k # 0 /\ doc[k].up # 0 /\ doc[doc[k].up].kind # "container"
    <3>1. CASE k = 0 \/ doc[k].up = 0
      BY <3>1, <1>1, <2>1, EnclosingStep DEF Uids
    <3>2. CASE k # 0 /\ doc[k].up # 0 /\ doc[doc[k].up].kind = "container"
      <4>1. doc[k].up \in Blocks(doc)
        BY <3>2, <1>1, <2>1, DocShape, SMT DEF Blocks
      <4>2. Enclosing(doc, mint, k) = UidOf(doc, mint, doc[k].up)
        BY <3>2, <1>1, <2>1, EnclosingStep
      <4> QED BY <4>1, <4>2, <2>1, UidType DEF Uids
    <3> QED BY <3>1, <3>2
  <2>3. Enclosing(doc, mint, k) = Enclosing(doc, mint, doc[k].up)
    BY <1>1, <2>1, <2>2, EnclosingStep
  <2>4. doc[k].up \in 0 .. Len(doc) /\ doc[k].up < k
    BY <1>1, <2>1, <2>2, DocShape, SMT
  <2>5. doc[k].up \in T
    BY <2>1, <2>3, <2>4
  <2> QED BY <1>1, <2>1, <2>4, <2>5, SMT
<1> QED BY <1>2

LEMMA ParentType ==
    ASSUME NEW doc, NEW mint, Proper(doc, mint), NEW i \in Blocks(doc)
    PROVE  ParentOf(doc, mint, i) \in Uids
<1>1. i \in 0 .. Len(doc)
  BY DocShape, SMT DEF Proper, Blocks
<1> QED BY <1>1, ParentAttrType, EnclosingType DEF ParentOf

\* What stamping leaves alone.
LEMMA StampedShape ==
    ASSUME NEW doc, NEW mint, Proper(doc, mint)
    PROVE  /\ Stamped(doc, mint) \in Docs /\ Len(Stamped(doc, mint)) = Len(doc)
           /\ DOMAIN Stamped(doc, mint) = DOMAIN doc
           /\ Blocks(Stamped(doc, mint)) = Blocks(doc)
           /\ \A i \in DOMAIN doc :
                 /\ Stamped(doc, mint)[i].up = doc[i].up
                 /\ Stamped(doc, mint)[i].kind = doc[i].kind
                 /\ Stamped(doc, mint)[i].ref = doc[i].ref
           /\ \A i \in Blocks(doc) :
                 /\ Stamped(doc, mint)[i].uid = UidOf(doc, mint, i)
                 /\ Stamped(doc, mint)[i].parent = ParentAttr(doc, mint, i)
<1> DEFINE sd == Stamped(doc, mint)
<1>1. Len(doc) \in Nat /\ DOMAIN doc = 1 .. Len(doc) /\ Blocks(doc) \subseteq DOMAIN doc
      /\ \A i \in DOMAIN doc : doc[i] \in Node /\ doc[i].up \in 0 .. i - 1
  BY DocShape DEF Proper, Blocks
<1>2. ASSUME NEW i \in Blocks(doc)
      PROVE  /\ sd[i] \in Node /\ sd[i].up = doc[i].up /\ sd[i].kind = doc[i].kind
             /\ sd[i].ref = doc[i].ref /\ sd[i].uid = UidOf(doc, mint, i)
             /\ sd[i].parent = ParentAttr(doc, mint, i)
  <2>1. UidOf(doc, mint, i) \in Uids /\ ParentAttr(doc, mint, i) \in Uids
    BY UidType, ParentAttrType DEF Uids
  <2> DEFINE u == UidOf(doc, mint, i)
             p == ParentAttr(doc, mint, i)
  <2>2. sd[i] = [doc[i] EXCEPT !.uid = u, !.parent = p] /\ doc[i] \in Node
    BY <1>1 DEF Stamped
  <2> HIDE DEF u, p, sd
  <2> QED BY <2>1, <2>2 DEF Node, u, p
<1>3. ASSUME NEW i \in DOMAIN doc, i \notin Blocks(doc) PROVE sd[i] = doc[i]
  BY <1>3 DEF Stamped
<1>4. DOMAIN sd = DOMAIN doc
  BY DEF Stamped
<1>5. sd \in [1 .. Len(doc) -> Node]
  <2>1. sd = [i \in 1 .. Len(doc) |-> sd[i]]
    BY <1>1 DEF Stamped
  <2>2. \A i \in 1 .. Len(doc) : sd[i] \in Node
    BY <1>1, <1>2, <1>3
  <2> HIDE DEF sd
  <2> QED BY <2>1, <2>2
<1> HIDE DEF sd
<1>6. sd \in Seq(Node) /\ Len(sd) = Len(doc)
  BY <1>1, <1>5
<1>7. \A i \in DOMAIN doc : sd[i].up = doc[i].up /\ sd[i].kind = doc[i].kind /\ sd[i].ref = doc[i].ref
  BY <1>2, <1>3
<1>8. sd \in Docs
  BY <1>1, <1>4, <1>6, <1>7 DEF Docs, Preorder
<1>9. Blocks(sd) = Blocks(doc)
  BY <1>4, <1>7 DEF Blocks
<1> QED BY <1>2, <1>4, <1>6, <1>7, <1>8, <1>9 DEF sd

\* Walking a stamped document again renames nothing.
LEMMA StampedUids ==
    ASSUME NEW doc, NEW mint, Proper(doc, mint), NEW i \in Blocks(doc)
    PROVE  UidOf(Stamped(doc, mint), NoMint(doc), i) = UidOf(doc, mint, i)
<1> DEFINE sd == Stamped(doc, mint)
<1>1. sd[i].uid = UidOf(doc, mint, i) /\ UidOf(doc, mint, i) # NoUid
  BY StampedShape, UidType, NoUidAssumption
<1>2. Before(sd, i) = Before(doc, i)
  BY StampedShape DEF Before
<1>3. ASSUME NEW j \in Before(doc, i) PROVE sd[j].uid # UidOf(doc, mint, i)
  <2>1. j \in Blocks(doc) /\ j # i /\ sd[j].uid = UidOf(doc, mint, j)
    BY StampedShape, DocShape, SMT DEF Before, Blocks, Proper
  <2> QED BY <2>1, UidsDiffer
<1> HIDE DEF sd
<1> QED BY <1>1, <1>2, <1>3 DEF UidOf, sd

LEMMA StampedParentAttr ==
    ASSUME NEW doc, NEW mint, Proper(doc, mint), NEW i \in Blocks(doc)
    PROVE  ParentAttr(Stamped(doc, mint), NoMint(doc), i) = ParentAttr(doc, mint, i)
<1> DEFINE sd == Stamped(doc, mint)
           raw == ParentAttr(doc, mint, i)
           bearers == {j \in Before(sd, i) \cup {i} : sd[j].uid = raw}
           last == CHOOSE j \in bearers : \A k \in bearers : k <= j
<1>1. sd[i].parent = raw /\ UidOf(sd, NoMint(doc), i) = UidOf(doc, mint, i)
  BY StampedShape, StampedUids
<1>2. \A j \in Before(sd, i) \cup {i} :
          j \in Blocks(doc) /\ sd[j].uid = UidOf(doc, mint, j)
          /\ UidOf(sd, NoMint(doc), j) = UidOf(doc, mint, j)
  BY StampedShape, StampedUids DEF Before
<1>3. Latest(sd, NoMint(doc), i, raw)
        = IF bearers = {} THEN raw ELSE UidOf(sd, NoMint(doc), last)
  BY DEF Latest
<1>4. bearers # {} => last \in bearers
  <2>1. \A j, k \in bearers : j = k
    BY <1>2, UidsDiffer
  <2>2. \A j \in bearers : j \in Nat
    BY <1>2, DocShape, SMT DEF Blocks, Proper
  <2> HIDE DEF bearers
  <2>3. \A j \in bearers : \A k \in bearers : k <= j
    BY <2>1, <2>2
  <2> QED BY <2>3
<1> HIDE DEF last
<1>5. Latest(sd, NoMint(doc), i, raw) = raw
  BY <1>2, <1>3, <1>4
<1> HIDE DEF sd, raw
<1> QED BY <1>1, <1>5 DEF ParentAttr, sd, raw

LEMMA StampedEnclosing ==
    ASSUME NEW doc, NEW mint, Proper(doc, mint), NEW i \in 0 .. Len(doc)
    PROVE  Enclosing(Stamped(doc, mint), NoMint(doc), i) = Enclosing(doc, mint, i)
<1> DEFINE sd == Stamped(doc, mint)
           T == {k \in 0 .. Len(doc) :
                   Enclosing(sd, NoMint(doc), k) # Enclosing(doc, mint, k)}
<1>1. doc \in Docs /\ sd \in Docs /\ Len(sd) = Len(doc) /\ T \in SUBSET Nat
  BY DocShape, StampedShape DEF Proper
<1>2. CASE T # {}
  <2>1. PICK k \in T : \A j \in T : k <= j
    <3> HIDE DEF T
    <3> QED BY <1>1, <1>2, LeastNumber
  <2>2. k # 0 => k \in DOMAIN doc /\ doc[k].up \in 0 .. Len(doc) /\ doc[k].up < k
                 /\ sd[k].up = doc[k].up
    BY <1>1, <2>1, DocShape, StampedShape, SMT
  <2>3. k # 0 /\ doc[k].up # 0 =>
           /\ doc[k].up \in DOMAIN doc /\ sd[doc[k].up].kind = doc[doc[k].up].kind
           /\ doc[doc[k].up].kind = "container" =>
                UidOf(sd, NoMint(doc), doc[k].up) = UidOf(doc, mint, doc[k].up)
    <3>1. SUFFICES ASSUME k # 0, doc[k].up # 0
                   PROVE  /\ doc[k].up \in DOMAIN doc
                          /\ sd[doc[k].up].kind = doc[doc[k].up].kind
                          /\ doc[doc[k].up].kind = "container" =>
                               UidOf(sd, NoMint(doc), doc[k].up) = UidOf(doc, mint, doc[k].up)
      OBVIOUS
    <3>2. doc[k].up \in DOMAIN doc
      BY <1>1, <2>2, <3>1, DocShape, SMT
    <3>3. doc[doc[k].up].kind = "container" => doc[k].up \in Blocks(doc)
      BY <3>2 DEF Blocks
    <3> QED BY <3>2, <3>3, StampedShape, StampedUids
  <2>4. Enclosing(doc, mint, k) =
             IF k = 0 \/ doc[k].up = 0 THEN NoUid
             ELSE IF doc[doc[k].up].kind = "container"
                  THEN UidOf(doc, mint, doc[k].up)
                  ELSE Enclosing(doc, mint, doc[k].up)
    BY <1>1, <2>1, EnclosingStep
  <2>5. Enclosing(sd, NoMint(doc), k) =
             IF k = 0 \/ sd[k].up = 0 THEN NoUid
             ELSE IF sd[sd[k].up].kind = "container"
                  THEN UidOf(sd, NoMint(doc), sd[k].up)
                  ELSE Enclosing(sd, NoMint(doc), sd[k].up)
    <3>1. k \in 0 .. Len(sd)
      BY <1>1, <2>1
    <3> HIDE DEF sd, T
    <3> QED BY <1>1, <3>1, EnclosingStep
  <2> HIDE DEF sd
  <2>6. k # 0 /\ doc[k].up # 0
        /\ Enclosing(sd, NoMint(doc), doc[k].up) # Enclosing(doc, mint, doc[k].up)
    BY <2>1, <2>2, <2>3, <2>4, <2>5
  <2>7. doc[k].up \in T
    BY <2>2, <2>6
  <2> QED BY <1>1, <2>1, <2>2, <2>6, <2>7, SMT
<1> QED BY <1>2

LEMMA StampedInside ==
    ASSUME NEW doc, NEW mint, Proper(doc, mint), NEW i \in DOMAIN doc, NEW k \in 0 .. Len(doc)
    PROVE  Inside(Stamped(doc, mint), i, k) = Inside(doc, i, k)
<1> DEFINE sd == Stamped(doc, mint)
           T == {x \in 0 .. Len(doc) : Inside(sd, i, x) # Inside(doc, i, x)}
<1>1. doc \in Docs /\ sd \in Docs /\ Len(sd) = Len(doc) /\ T \in SUBSET Nat /\ i \in DOMAIN sd
  BY DocShape, StampedShape DEF Proper
<1>2. CASE T # {}
  <2>1. PICK x \in T : \A j \in T : x <= j
    <3> HIDE DEF T
    <3> QED BY <1>1, <1>2, LeastNumber
  <2>2. x # 0 => doc[x].up \in 0 .. Len(doc) /\ doc[x].up < x /\ sd[x].up = doc[x].up
    BY <1>1, <2>1, DocShape, StampedShape, SMT
  <2>0. x \in 0 .. Len(doc) /\ x \in 0 .. Len(sd) /\ Inside(sd, i, x) # Inside(doc, i, x)
    BY <1>1, <2>1
  <2> HIDE DEF sd
  <2>3. Climbed(doc, i, x)
    BY <1>1, <2>0, InsideStep
  <2>4. Climbed(sd, i, x)
    BY <1>1, <2>0, InsideStep
  <2>5. x # 0 /\ Inside(sd, i, doc[x].up) # Inside(doc, i, doc[x].up)
    <3>1. x # i
      BY <2>0, <2>3, <2>4, Zenon DEF Climbed
    <3>2. x # 0
      BY <2>0, <2>3, <2>4, <3>1, Zenon DEF Climbed
    <3>3. sd[x].up = doc[x].up
      BY <2>2, <3>2
    <3>4. Inside(doc, i, x) = Inside(doc, i, doc[x].up)
      BY <2>3, <3>1, <3>2, Zenon DEF Climbed
    <3>5. Inside(sd, i, x) = Inside(sd, i, doc[x].up)
      BY <2>4, <3>1, <3>2, <3>3, Zenon DEF Climbed
    <3> QED BY <2>0, <3>2, <3>4, <3>5, Zenon DEF Climbed
  <2>6. doc[x].up \in T
    BY <2>2, <2>5
  <2> QED BY <1>1, <2>1, <2>2, <2>5, <2>6, SMT
<1> QED BY <1>2

\* The rows of the stamped document are those stored beside it.
LEMMA StampedRows ==
    ASSUME NEW doc, NEW mint, Proper(doc, mint), Blocks(doc) # {}
    PROVE  Rows(Stamped(doc, mint), NoMint(doc)) = Rows(doc, mint)
<1> DEFINE sd == Stamped(doc, mint)
           nm == NoMint(doc)
<1>1. /\ Blocks(sd) = Blocks(doc) /\ DOMAIN sd = DOMAIN doc
      /\ Blocks(doc) \subseteq DOMAIN doc
      /\ \A x \in DOMAIN doc : sd[x].ref = doc[x].ref /\ x \in 0 .. Len(doc)
  BY StampedShape, DocShape, SMT DEF Blocks, Proper
<1>2. \A i : Before(sd, i) = Before(doc, i)
  BY <1>1 DEF Before
<1>3. ASSUME NEW i \in Blocks(doc)
      PROVE  ParentOf(sd, nm, i) = ParentOf(doc, mint, i)
  <2>1. /\ ParentAttr(sd, nm, i) = ParentAttr(doc, mint, i)
        /\ UidOf(sd, nm, i) = UidOf(doc, mint, i)
        /\ Enclosing(sd, nm, i) = Enclosing(doc, mint, i)
    BY <1>1, StampedParentAttr, StampedUids, StampedEnclosing
  <2> HIDE DEF sd, nm
  <2> QED BY <2>1 DEF ParentOf
<1>4. ASSUME NEW i \in Blocks(doc) PROVE RefsOf(sd, i) = RefsOf(doc, i)
  <2>1. {k \in DOMAIN sd : Inside(sd, i, k)} = {k \in DOMAIN doc : Inside(doc, i, k)}
    BY <1>1, StampedInside
  <2> HIDE DEF sd
  <2> QED BY <1>1, <2>1 DEF RefsOf
<1>5. ASSUME NEW i \in Blocks(doc) PROVE OrderOf(sd, nm, i) = OrderOf(doc, mint, i)
  <2>1. {j \in Before(sd, i) : ParentOf(sd, nm, j) = ParentOf(sd, nm, i)}
          = {j \in Before(doc, i) : ParentOf(doc, mint, j) = ParentOf(doc, mint, i)}
    <3>1. Before(doc, i) \subseteq Blocks(doc)
      BY DEF Before
    <3> HIDE DEF sd, nm
    <3> QED BY <1>2, <1>3, <3>1
  <2> HIDE DEF sd, nm
  <2> QED BY <2>1 DEF OrderOf
<1>6. ASSUME NEW i \in Blocks(doc) PROVE RowOf(sd, nm, i) = RowOf(doc, mint, i)
  <2>1. UidOf(sd, nm, i) = UidOf(doc, mint, i)
    BY StampedUids
  <2> HIDE DEF sd, nm
  <2> QED BY <1>2, <1>3, <1>4, <1>5, <2>1 DEF RowOf
<1> HIDE DEF sd, nm
<1> QED BY <1>1, <1>6 DEF Rows, sd, nm
-----------------------------------------------------------------------------
(**************************** imported documents ***************************)

\* Where a fence and a run of lines end.
LEMMA FenceEndIs ==
    ASSUME NEW file, Len(file) \in Nat, NEW i \in 1 .. Len(file)
    PROVE  FenceEnd(file, i) \in i + 1 .. Len(file) + 1
<1> DEFINE n == Len(file)
           T == {j \in i + 1 .. n + 1 : j = n + 1 \/ file[j].mark = "fence"}
           Ends(j) == /\ \A k \in i + 1 .. j - 1 : file[k].mark # "fence"
                      /\ j <= n => file[j].mark = "fence"
<1>1. PICK j \in T : \A k \in T : j <= k
  <2>1. T \in SUBSET Nat /\ n + 1 \in T
    OBVIOUS
  <2> HIDE DEF T
  <2> QED BY <2>1, LeastNumber
<1>2. j \in i + 1 .. n + 1 /\ Ends(j)
  <2>1. \A k \in i + 1 .. j - 1 : file[k].mark # "fence"
    <3> SUFFICES ASSUME NEW k \in i + 1 .. j - 1, file[k].mark = "fence" PROVE FALSE
      OBVIOUS
    <3>1. k \in i + 1 .. n + 1 /\ k < j
      BY <1>1
    <3> QED BY <1>1, <3>1
  <2> QED BY <1>1, <2>1
<1> HIDE DEF Ends
<1> QED BY <1>2 DEF FenceEnd, Ends

LEMMA RunEndIs ==
    ASSUME NEW file, Len(file) \in Nat, NEW i \in 1 .. Len(file)
    PROVE  RunEnd(file, i) \in i + 1 .. Len(file) + 1
<1> DEFINE n == Len(file)
           T == {j \in i .. n + 1 : j = n + 1 \/ KindOf(file[j]) # KindOf(file[i])}
           Ends(j) == /\ \A k \in i .. j - 1 : KindOf(file[k]) = KindOf(file[i])
                      /\ j <= n => KindOf(file[j]) # KindOf(file[i])
<1>1. PICK j \in T : \A k \in T : j <= k
  <2>1. T \in SUBSET Nat /\ n + 1 \in T
    OBVIOUS
  <2> HIDE DEF T
  <2> QED BY <2>1, LeastNumber
<1>2. j \in i .. n + 1 /\ Ends(j)
  <2>1. \A k \in i .. j - 1 : KindOf(file[k]) = KindOf(file[i])
    <3> SUFFICES ASSUME NEW k \in i .. j - 1, KindOf(file[k]) # KindOf(file[i]) PROVE FALSE
      OBVIOUS
    <3>1. k \in i .. n + 1 /\ k < j
      BY <1>1
    <3> QED BY <1>1, <3>1
  <2> QED BY <1>1, <2>1
<1>3. \A e : e \in i .. n + 1 /\ Ends(e) => e # i
  OBVIOUS
<1> HIDE DEF Ends
<1>4. RunEnd(file, i) \in i .. n + 1 /\ Ends(RunEnd(file, i))
  BY <1>2 DEF RunEnd, Ends
<1>5. RunEnd(file, i) # i
  BY <1>3, <1>4
<1> QED BY <1>4, <1>5

\* The parser moves on, and past the end of the file by at most one line.
LEMMA NextLineIs ==
    ASSUME NEW file, Len(file) \in Nat, NEW i \in 1 .. Len(file)
    PROVE  NextLine(file, i) \in i + 1 .. Len(file) + 2
<1>1. FenceEnd(file, i) + 1 \in i + 1 .. Len(file) + 2
  BY FenceEndIs, SMT
<1>2. RunEnd(file, i) \in i + 1 .. Len(file) + 2
  BY RunEndIs, SMT
<1>3. i + 1 \in i + 1 .. Len(file) + 2
  OBVIOUS
<1> QED BY <1>1, <1>2, <1>3, Zenon DEF NextLine

\* What parse_markdown_to_tiptap gives back are blocks of the file.
BlocksAt(file) == {BlockAt(file, i) : i \in 1 .. Len(file)}

Parses(file, from, lo) ==
    from = [i \in lo .. Len(file) + 2 |->
              IF i > Len(file) THEN <<>>
              ELSE IF KindOf(file[i]) = "blank" THEN from[i + 1]
                   ELSE <<BlockAt(file, i)>> \o from[NextLine(file, i)]]

LEMMA ParseExists ==
    ASSUME NEW file, Len(file) \in Nat PROVE \E from : Parses(file, from, 1)
<1> DEFINE n == Len(file)
           T == {d \in 0 .. n + 1 : ~ \E from : Parses(file, from, n + 2 - d)}
<1>1. CASE T = {}
  <2>1. n + 1 \in 0 .. n + 1 /\ n + 2 - (n + 1) = 1
    OBVIOUS
  <2>2. \E from : Parses(file, from, n + 2 - (n + 1))
    BY <1>1, <2>1
  <2> HIDE DEF T
  <2> QED BY <2>1, <2>2
<1>2. CASE T # {}
  <2>1. PICK d \in T : \A k \in T : d <= k
    <3>1. T \in SUBSET Nat
      OBVIOUS
    <3> HIDE DEF T
    <3> QED BY <1>2, <3>1, LeastNumber
  <2> DEFINE lo == n + 2 - d
             ext(h) == [i \in lo .. n + 2 |->
                          IF i > n THEN <<>>
                          ELSE IF KindOf(file[i]) = "blank" THEN h[i + 1]
                               ELSE <<BlockAt(file, i)>> \o h[NextLine(file, i)]]
  <2>2. CASE d = 0
    <3>1. Parses(file, [i \in n + 2 .. n + 2 |-> <<>>], n + 2)
      BY DEF Parses
    <3> QED BY <3>1, <2>1, <2>2
  <2>3. CASE d # 0
    <3>1. d - 1 \in 0 .. n + 1 /\ d - 1 \notin T
      BY <2>1, <2>3
    <3>2. PICK h : Parses(file, h, n + 2 - (d - 1))
      BY <3>1
    <3>3. n + 2 - (d - 1) = lo + 1 /\ lo \in 1 .. n + 1
      BY <2>1, <2>3
    <3> DEFINE f == ext(h)
    <3>4. h = [i \in lo + 1 .. n + 2 |->
                          IF i > n THEN <<>>
                          ELSE IF KindOf(file[i]) = "blank" THEN h[i + 1]
                               ELSE <<BlockAt(file, i)>> \o h[NextLine(file, i)]]
      BY <3>2, <3>3 DEF Parses
    <3>5. ASSUME NEW i \in lo + 1 .. n + 2 PROVE f[i] = h[i]
      <4>1. i \in lo .. n + 2
        BY <3>3
      <4> HIDE DEF lo
      <4> QED BY <3>4, <4>1, Zenon
    <3>6. \A i \in lo .. n : i + 1 \in lo + 1 .. n + 2 /\ NextLine(file, i) \in lo + 1 .. n + 2
      BY <3>3, NextLineIs
    <3>7. \A i \in lo .. n : f[i + 1] = h[i + 1] /\ f[NextLine(file, i)] = h[NextLine(file, i)]
      BY <3>5, <3>6
    <3>8. f = ext(f)
      <4>1. \A i \in lo .. n + 2 : i > n \/ i \in lo .. n
        BY <3>3
      <4>2. \A i \in lo .. n + 2 :
              (IF i > n THEN <<>>
               ELSE IF KindOf(file[i]) = "blank" THEN h[i + 1]
                    ELSE <<BlockAt(file, i)>> \o h[NextLine(file, i)])
              = (IF i > n THEN <<>>
                 ELSE IF KindOf(file[i]) = "blank" THEN f[i + 1]
                      ELSE <<BlockAt(file, i)>> \o f[NextLine(file, i)])
        <5> HIDE DEF f
        <5> QED BY <3>7, <4>1
      <4>3. ext(h) = ext(f)
        <5> HIDE DEF f
        <5> QED BY <4>2, Zenon
      <4> QED BY <4>3
    <3>9. Parses(file, f, lo)
      <4> HIDE DEF f
      <4> QED BY <3>8 DEF Parses
    <3> QED BY <3>9, <2>1
  <2> QED BY <2>2, <2>3
<1> QED BY <1>1, <1>2

\* The parser from a line on.
Parser(file) == CHOOSE from : Parses(file, from, 1)

\* The parser, position by position.
LEMMA ParserIs ==
    ASSUME NEW file, Len(file) \in Nat
    PROVE  /\ ParseMarkdown(file) = Parser(file)[1]
           /\ \A i \in 1 .. Len(file) + 2 :
                 Parser(file)[i] = IF i > Len(file) THEN <<>>
                                   ELSE IF KindOf(file[i]) = "blank" THEN Parser(file)[i + 1]
                                        ELSE <<BlockAt(file, i)>> \o Parser(file)[NextLine(file, i)]
<1>1. Parses(file, Parser(file), 1)
  BY ParseExists DEF Parser
<1>2. ParseMarkdown(file) = Parser(file)[1]
  BY DEF ParseMarkdown, Parses, Parser
<1> QED BY <1>1, <1>2 DEF Parses

LEMMA ParserBlocks ==
    ASSUME NEW file, Len(file) \in Nat
    PROVE  \A i \in 1 .. Len(file) + 2 : Parser(file)[i] \in Seq(BlocksAt(file))
<1> DEFINE n == Len(file)
           F == Parser(file)
           T == {d \in 0 .. n + 1 : F[n + 2 - d] \notin Seq(BlocksAt(file))}
<1>3. ASSUME NEW i \in 1 .. n + 2
      PROVE  F[i] = IF i > n THEN <<>>
                    ELSE IF KindOf(file[i]) = "blank" THEN F[i + 1]
                         ELSE <<BlockAt(file, i)>> \o F[NextLine(file, i)]
  BY ParserIs
<1> HIDE DEF F
<1>4. CASE T # {}
  <2>1. PICK d \in T : \A k \in T : d <= k
    <3>1. T \in SUBSET Nat
      OBVIOUS
    <3> HIDE DEF T
    <3> QED BY <1>4, <3>1, LeastNumber
  <2> DEFINE i == n + 2 - d
  <2>2. i \in 1 .. n + 2 /\ F[i] \notin Seq(BlocksAt(file))
    BY <2>1
  <2>3. ASSUME NEW j \in i + 1 .. n + 2 PROVE F[j] \in Seq(BlocksAt(file))
    <3>1. n + 2 - j \in 0 .. n + 1 /\ n + 2 - j < d /\ n + 2 - (n + 2 - j) = j
      BY <2>1, <2>2
    <3> QED BY <2>1, <3>1
  <2> HIDE DEF i, T
  <2>4. i \in 1 .. n
    <3>1. <<>> \in Seq(BlocksAt(file))
      OBVIOUS
    <3>2. ~(i > n)
      BY <2>2, <1>3, <3>1
    <3> QED BY <2>2, <3>2
  <2>5. F[i + 1] \in Seq(BlocksAt(file)) /\ F[NextLine(file, i)] \in Seq(BlocksAt(file))
    BY <2>3, <2>4, NextLineIs, SMT
  <2>6. <<BlockAt(file, i)>> \o F[NextLine(file, i)] \in Seq(BlocksAt(file))
    <3>1. BlockAt(file, i) \in BlocksAt(file)
      BY <2>4 DEF BlocksAt
    <3> QED BY <2>5, <3>1
  <2>7. ~(i > n)
    BY <2>4
  <2> QED BY <1>3, <2>2, <2>5, <2>6, <2>7
<1>5. CASE T = {}
  <2> SUFFICES ASSUME NEW i \in 1 .. n + 2 PROVE F[i] \in Seq(BlocksAt(file))
    BY DEF F
  <2>1. n + 2 - i \in 0 .. n + 1 /\ n + 2 - (n + 2 - i) = i
    OBVIOUS
  <2> QED BY <1>5, <2>1
<1> QED BY <1>4, <1>5

LEMMA ParsedIs ==
    ASSUME NEW file, Len(file) \in Nat
    PROVE  ParseMarkdown(file) \in Seq(BlocksAt(file))
<1>1. 1 \in 1 .. Len(file) + 2
  OBVIOUS
<1> QED BY <1>1, ParserIs, ParserBlocks

LEMMA Concatenated ==
    ASSUME NEW S, NEW s \in Seq(S), NEW t \in Seq(S)
    PROVE  /\ s \o t \in Seq(S) /\ Len(s \o t) = Len(s) + Len(t)
           /\ DOMAIN (s \o t) = 1 .. Len(s) + Len(t)
           /\ \A i \in 1 .. Len(s) : (s \o t)[i] = s[i]
           /\ \A i \in Len(s) + 1 .. Len(s) + Len(t) : (s \o t)[i] = t[i - Len(s)]
BY SMT

\* What TreeOf needs of a block: a list's items are a sequence.
Itemised(b) == b.kind \in Lists => Len(b.texts) \in Nat

LEMMA BlocksItemised ==
    ASSUME NEW file, Len(file) \in Nat, NEW i \in 1 .. Len(file) PROVE Itemised(BlockAt(file, i))
<1> DEFINE kind == KindOf(file[i])
           j == RunEnd(file, i)
           b == BlockAt(file, i)
<1>1. CASE kind \in Lists
  <2>1. kind \notin {"codeBlock", "heading", "horizontalRule", "paragraph"}
    BY <1>1 DEF Lists
  <2>2. b = Block(kind, 0, TextsOf(file, i, j))
    <3> HIDE DEF kind, j
    <3> QED BY <2>1, Zenon DEF BlockAt, b, kind, j
  <2>3. b.texts = [k \in 1 .. j - i |-> file[i + k - 1].text]
    BY <2>2 DEF Block, TextsOf
  <2>4. j - i \in Nat
    BY RunEndIs
  <2> HIDE DEF b, j
  <2> QED BY <2>3, <2>4 DEF Itemised
<1>2. CASE kind \notin Lists
  <2>1. b.kind = kind
    <3> DEFINE level == CHOOSE l \in 1 .. 6 : kind = "heading" => Hashes[l] = file[i].mark
    <3>1. \/ b = Block(kind, 0, [k \in 1 .. FenceEnd(file, i) - i - 1 |-> Raw(file[i + k])])
          \/ b = Block(kind, level, <<file[i].text>>)
          \/ b = Block(kind, 0, <<>>)
          \/ b = Block(kind, 0, <<Raw(file[i])>>)
          \/ b = Block(kind, 0, TextsOf(file, i, j))
      BY Zenon DEF BlockAt
    <3> HIDE DEF kind, b, level
    <3> QED BY <3>1 DEF Block
  <2> QED BY <1>2, <2>1 DEF Itemised
<1> QED BY <1>1, <1>2

\* The nodes of a block from position at on, each nested in an earlier one.
Nested(nodes, at) ==
    /\ nodes \in Seq(Node)
    /\ \A i \in DOMAIN nodes :
          /\ nodes[i].up \in 0 .. at + i - 2
          /\ nodes[i].uid = NoUid /\ nodes[i].parent = NoUid

LEMMA NodesNested ==
    ASSUME NEW b, Itemised(b), NEW at \in Nat \ {0} PROVE Nested(NodesOf(b, at), at)
<1> DEFINE node(kind, up) == [kind |-> kind, up |-> up, uid |-> NoUid,
                              parent |-> NoUid, ref |-> NoUid]
<1>1. ASSUME NEW kind \in {"container", "leaf"}, NEW up \in Nat
      PROVE  /\ node(kind, up) \in Node /\ node(kind, up).up = up
             /\ node(kind, up).uid = NoUid /\ node(kind, up).parent = NoUid
  BY DEF Node, Kinds, Uids
<1> HIDE DEF node
<1>2. CASE b.kind \in Lists
  <2> DEFINE n == 2 * Len(b.texts)
             items == [k \in 1 .. n |-> IF k % 2 = 1 THEN node("container", at)
                                                    ELSE node("leaf", at + k - 1)]
             head == <<node("container", 0)>>
  <2>1. n \in Nat
    BY <1>2 DEF Itemised
  <2>2. NodesOf(b, at) = head \o items
    <3> HIDE DEF node
    <3>1. NodesOf(b, at) = <<node("container", 0)>> \o
             [k \in 1 .. 2 * Len(b.texts) |-> IF k % 2 = 1 THEN node("container", at)
                                                    ELSE node("leaf", at + k - 1)]
      BY <1>2, Zenon DEF NodesOf, node, Lists
    <3> QED BY <3>1
  <2> HIDE DEF n
  <2>3. head \in Seq(Node) /\ Len(head) = 1 /\ head[1] = node("container", 0)
    BY <1>1
  <2>4. ASSUME NEW k \in 1 .. n
        PROVE  items[k] \in Node /\ items[k].up \in 0 .. at + k - 1
               /\ items[k].uid = NoUid /\ items[k].parent = NoUid
    <3>1. at \in Nat /\ at + k - 1 \in Nat /\ at \in 0 .. at + k - 1
      OBVIOUS
    <3>2. items[k] = node("container", at) \/ items[k] = node("leaf", at + k - 1)
      BY Zenon
    <3> HIDE DEF items
    <3> QED BY <1>1, <3>1, <3>2
  <2>5. items \in Seq(Node) /\ Len(items) = n
    <3>1. items = [k \in 1 .. n |-> items[k]]
      BY Zenon
    <3> HIDE DEF items
    <3> QED BY <2>1, <2>4, <3>1
  <2> HIDE DEF items, head
  <2> DEFINE all == head \o items
  <2>0. /\ all \in Seq(Node) /\ Len(all) = Len(head) + Len(items)
        /\ \A i \in 1 .. Len(head) : all[i] = head[i]
        /\ \A i \in Len(head) + 1 .. Len(head) + Len(items) : all[i] = items[i - Len(head)]
    <3>1. head \in Seq(Node) /\ items \in Seq(Node)
      BY <2>3, <2>5
    <3> HIDE DEF node
    <3> QED BY <3>1, Concatenated
  <2>6. /\ all \in Seq(Node) /\ Len(all) = n + 1 /\ all[1] = head[1]
        /\ \A i \in 2 .. n + 1 : all[i] = items[i - 1]
    <3> HIDE DEF all
    <3> QED BY <2>0, <2>1, <2>3, <2>5
  <2> HIDE DEF all
  <2>7. ASSUME NEW i \in DOMAIN all
        PROVE  all[i].up \in 0 .. at + i - 2 /\ all[i].uid = NoUid /\ all[i].parent = NoUid
    <3>1. CASE i = 1
      BY <3>1, <1>1, <2>3, <2>6
    <3>2. CASE i # 1
      <4>1. i \in 2 .. n + 1 /\ i - 1 \in 1 .. n
        BY <2>1, <2>6, <3>2
      <4> QED BY <2>4, <2>6, <4>1
    <3> QED BY <3>1, <3>2
  <2> QED BY <2>2, <2>6, <2>7 DEF Nested, all
<1>3. CASE b.kind \notin Lists
  <2> DEFINE quote == <<node("container", 0), node("leaf", at)>>
             lone == <<node("leaf", 0)>>
  <2>1. NodesOf(b, at) = quote \/ NodesOf(b, at) = lone
    BY <1>3, Zenon DEF NodesOf, node
  <2>2. Nested(quote, at)
    BY <1>1 DEF Nested
  <2>3. Nested(lone, at)
    BY <1>1 DEF Nested
  <2> QED BY <2>1, <2>2, <2>3
<1> QED BY <1>2, <1>3

\* The tree of a document of blocks.
LEMMA TreeIs ==
    ASSUME NEW doc, Len(doc) \in Nat, \A k \in 1 .. Len(doc) : Itemised(doc[k])
    PROVE  Nested(TreeOf(doc), 1)
<1> DEFINE n == Len(doc)
           Step(t, k) == t \o NodesOf(doc[k], Len(t) + 1)
           Grows(t, m) == t = [k \in 0 .. m |-> IF k = 0 THEN <<>> ELSE Step(t[k - 1], k)]
           F == CHOOSE t : Grows(t, n)
<1>1. TreeOf(doc) = F[n]
  BY DEF TreeOf
<1>2. ASSUME NEW t, NEW k \in 1 .. n, Nested(t, 1) PROVE Nested(Step(t, k), 1)
  <2> DEFINE more == NodesOf(doc[k], Len(t) + 1)
             all == t \o more
  <2>1. t \in Seq(Node) /\ Len(t) \in Nat /\ Nested(more, Len(t) + 1)
    BY <1>2, NodesNested DEF Nested
  <2> HIDE DEF more
  <2>2. more \in Seq(Node) /\ \A i \in DOMAIN more :
          more[i].up \in 0 .. Len(t) + 1 + i - 2 /\ more[i].uid = NoUid /\ more[i].parent = NoUid
    BY <2>1 DEF Nested
  <2>3. /\ all \in Seq(Node) /\ Len(all) = Len(t) + Len(more)
        /\ \A i \in 1 .. Len(t) : all[i] = t[i]
        /\ \A i \in Len(t) + 1 .. Len(t) + Len(more) : all[i] = more[i - Len(t)]
    BY <2>1, <2>2
  <2> HIDE DEF all
  <2>4. ASSUME NEW i \in DOMAIN all
        PROVE  all[i].up \in 0 .. 1 + i - 2 /\ all[i].uid = NoUid /\ all[i].parent = NoUid
    <3>1. CASE i <= Len(t)
      <4>1. i \in DOMAIN t /\ all[i] = t[i]
        BY <2>1, <2>3, <3>1
      <4> QED BY <1>2, <4>1 DEF Nested
    <3>2. CASE i > Len(t)
      <4>1. i - Len(t) \in DOMAIN more /\ all[i] = more[i - Len(t)] /\ i \in Nat
        <5>1. i \in 1 .. Len(t) + Len(more) /\ Len(more) \in Nat /\ DOMAIN more = 1 .. Len(more)
          BY <2>1, <2>2, <2>3
        <5>2. i - Len(t) \in 1 .. Len(more)
          BY <2>1, <5>1, <3>2
        <5>3. i \in Len(t) + 1 .. Len(t) + Len(more)
          BY <2>1, <5>1, <3>2
        <5>4. all[i] = more[i - Len(t)]
          BY <2>3, <5>3, Zenon
        <5> QED BY <5>1, <5>2, <5>4
      <4>2. Len(t) + 1 + (i - Len(t)) - 2 = 1 + i - 2
        BY <2>1, <4>1
      <4> QED BY <2>2, <4>1, <4>2
    <3> QED BY <2>1, <2>3, <3>1, <3>2
  <2>5. Nested(all, 1)
    BY <2>3, <2>4 DEF Nested
  <2> QED BY <2>5 DEF all, more
<1> HIDE DEF Step
<1>3. \E t : Grows(t, n)
  <2> DEFINE T == {m \in 0 .. n : ~ \E t : Grows(t, m)}
  <2>1. CASE T # {}
    <3>1. PICK m \in T : \A k \in T : m <= k
      <4>1. T \in SUBSET Nat
        OBVIOUS
      <4> HIDE DEF T
      <4> QED BY <2>1, <4>1, LeastNumber
    <3>2. CASE m = 0
      <4>1. Grows([k \in 0 .. 0 |-> <<>>], 0)
        OBVIOUS
      <4> QED BY <4>1, <3>1, <3>2
    <3>3. CASE m # 0
      <4>1. m - 1 \in 0 .. n /\ m - 1 \notin T
        BY <3>1, <3>3
      <4>2. PICK h : Grows(h, m - 1)
        BY <4>1
      <4> DEFINE f == [k \in 0 .. m |-> IF k = 0 THEN <<>> ELSE Step(h[k - 1], k)]
      <4>3. ASSUME NEW k \in 0 .. m - 1 PROVE f[k] = h[k]
        <5>1. k \in 0 .. m
          BY <3>1
        <5> QED BY <4>2, <5>1, Zenon
      <4>4. \A k \in 0 .. m : k # 0 => f[k - 1] = h[k - 1]
        <5> HIDE DEF f
        <5> QED BY <4>3, <3>1
      <4>5. Grows(f, m)
        <5> DEFINE g == [k \in 0 .. m |-> IF k = 0 THEN <<>> ELSE Step(f[k - 1], k)]
        <5>1. f = g
          BY <4>4, Zenon
        <5> QED BY <5>1
      <4> HIDE DEF f
      <4> QED BY <4>5, <3>1
    <3> QED BY <3>2, <3>3
  <2>2. CASE T = {}
    BY <2>2
  <2> QED BY <2>1, <2>2
<1>4. Grows(F, n)
  BY <1>3
<1> HIDE DEF F
<1>5. F[0] = <<>> /\ \A k \in 1 .. n : F[k] = Step(F[k - 1], k)
  BY <1>4
<1> HIDE DEF Grows
<1>6. ASSUME NEW k \in 0 .. n PROVE Nested(F[k], 1)
  <2> DEFINE T == {m \in 0 .. n : ~Nested(F[m], 1)}
  <2>1. CASE T # {}
    <3>1. PICK m \in T : \A j \in T : m <= j
      <4>1. T \in SUBSET Nat
        OBVIOUS
      <4> HIDE DEF T
      <4> QED BY <2>1, <4>1, LeastNumber
    <3>2. m # 0
      <4>1. Nested(<<>>, 1)
        BY DEF Nested
      <4> QED BY <1>5, <3>1, <4>1
    <3>3. Nested(F[m - 1], 1)
      BY <3>1, <3>2
    <3>4. Nested(F[m], 1)
      BY <1>2, <1>5, <3>1, <3>2, <3>3
    <3> QED BY <3>1, <3>4
  <2> QED BY <2>1
<1> QED BY <1>1, <1>6

\* uids a client sends are below the server's.
Sendable(doc) ==
    /\ doc \in Docs
    /\ \A i \in DOMAIN doc : {doc[i].uid, doc[i].parent} \subseteq 0 .. FirstMint - 1 \cup {NoUid}

LEMMA PayloadIs ==
    ASSUME NEW p \in PayloadSet
    PROVE  p.pinned \in BOOLEAN /\ p.assets \subseteq Assets /\ Sendable(p.doc)
<1>1. CASE p \in Payloads
  BY <1>1, NoteStoreAssumption DEF Sendable
<1>2. ASSUME NEW f \in Files, p = ImportPayload(f)
      PROVE  p.pinned \in BOOLEAN /\ p.assets \subseteq Assets /\ Sendable(p.doc)
  <2> DEFINE doc == ParseMarkdown(f)
             tree == TreeOf(doc)
  <2>1. Len(f) \in Nat
    BY NoteStoreAssumption
  <2>2. doc \in Seq(BlocksAt(f))
    BY <2>1, ParsedIs
  <2>3. \A k \in 1 .. Len(doc) : Itemised(doc[k])
    <3> HIDE DEF doc
    <3>1. \A k \in 1 .. Len(doc) : doc[k] \in BlocksAt(f)
      BY <2>2
    <3> QED BY <2>1, <3>1, BlocksItemised DEF BlocksAt
  <2>4. Nested(tree, 1)
    <3> HIDE DEF doc
    <3>1. Len(doc) \in Nat
      BY <2>2
    <3> QED BY <2>3, <3>1, TreeIs
  <2>5. p.pinned = FALSE /\ p.assets = {} /\ p.doc = tree
    BY <1>2 DEF ImportPayload
  <2> HIDE DEF tree
  <2>6. tree \in Docs /\ \A i \in DOMAIN tree : tree[i].uid = NoUid /\ tree[i].parent = NoUid
    <3>1. \A i \in DOMAIN tree : 1 + i - 2 = i - 1
      BY <2>4 DEF Nested
    <3> QED BY <2>4, <3>1 DEF Nested, Docs, Preorder
  <2> QED BY <2>5, <2>6 DEF Sendable
<1> QED BY <1>1, <1>2 DEF PayloadSet
-----------------------------------------------------------------------------
(************************ rows and their documents *************************)

\* What uuid4 gives the k-th save of a document.
MintFor(doc, k) == [i \in 0 .. Len(doc) |-> FirstMint + 10 * k + i]

LEMMA MintProper ==
    ASSUME NEW doc, Sendable(doc), NEW k \in Nat PROVE Proper(doc, MintFor(doc, k))
<1> DEFINE mint == MintFor(doc, k)
<1>1. Len(doc) \in Nat /\ DOMAIN doc = 1 .. Len(doc) /\ doc \in Docs
  BY DocShape DEF Sendable
<1>2. FirstMint \in Nat
  BY NoteStoreAssumption
<1>3. \A i \in 0 .. Len(doc) : mint[i] = FirstMint + 10 * k + i
  BY DEF MintFor
<1>4. mint \in [0 .. Len(doc) -> Nat]
  BY <1>1, <1>2 DEF MintFor
<1> HIDE DEF mint
<1>5. ASSUME NEW i \in DOMAIN doc
      PROVE  i \in 0 .. Len(doc) /\ mint[i] \in Nat /\ mint[i] >= FirstMint
  BY <1>1, <1>2, <1>3, SMT
<1>6. ASSUME NEW j \in DOMAIN doc, NEW i \in DOMAIN doc
      PROVE  mint[i] \notin {NoUid, doc[j].uid, doc[j].parent}
  <2>1. \A u \in 0 .. FirstMint - 1 \cup {NoUid} : mint[i] # u
    BY <1>2, <1>5, NoUidAssumption
  <2>2. doc[j].uid \in 0 .. FirstMint - 1 \cup {NoUid} /\ doc[j].parent \in 0 .. FirstMint - 1 \cup {NoUid}
    BY DEF Sendable
  <2> QED BY <1>5, <2>1, <2>2, NoUidAssumption
<1>7. ASSUME NEW i \in DOMAIN doc, NEW j \in DOMAIN doc, mint[i] = mint[j] PROVE i = j
  BY <1>1, <1>2, <1>3, <1>5, <1>7, SMT
<1>8. FreshMint(doc, mint)
  BY <1>6, <1>7 DEF FreshMint
<1> QED BY <1>1, <1>4, <1>8 DEF Proper, mint

\* The row and the block rows of note n are those of one save.
StoredAs(n, p, k) ==
    /\ row[n].pinned = p.pinned /\ row[n].assets = p.assets
    /\ row[n].doc = Stamped(p.doc, MintFor(p.doc, k))
    /\ row[n].saved \in Nat
    /\ blocks[n] = Rows(p.doc, MintFor(p.doc, k))

RowsInv ==
    /\ DOMAIN blocks = NoteIds
    /\ IsFiniteSet(Live)
    /\ \A n \in NoteIds : row[n] = NoRow => blocks[n] = {}
    /\ \A n \in Live : \E p \in PayloadSet, k \in Nat : StoredAs(n, p, k)

LEMMA InitRows == Init => RowsInv
<1> SUFFICES ASSUME Init PROVE RowsInv
  OBVIOUS
<1>1. Live = {}
  BY DEF Init, Live
<1>2. DOMAIN blocks = NoteIds /\ \A n \in NoteIds : blocks[n] = {}
  BY DEF Init
<1> QED BY <1>1, <1>2, FS_EmptySet DEF RowsInv

LEMMA CommitRows == ASSUME IInv, RowsInv, NEW r \in Requests, Commit(r) PROVE RowsInv'
<1>0. PICK n \in NoteIds, p \in PayloadSet, k \in Nat :
            n = req[r].note /\ p = req[r].payload /\ k = req[r].ordinal
  <2>1. req[r] \in Written
    BY ReadyType DEF IInv, Commit
  <2> QED BY <2>1 DEF Written
<1> DEFINE mint == MintFor(p.doc, k)
<1>1. PICK saved \in {left["clock"], left["clock"] + 1} :
            row' = [row EXCEPT ![n] = NewRow(r, saved)]
  BY <1>0 DEF Commit
<1>2. p \in PayloadSet /\ k \in Nat /\ n \in NoteIds /\ req[r].version + 1 \in Nat /\ saved \in Nat
  <2>1. req[r] \in Written
    BY ReadyType DEF IInv, Commit
  <2>2. left["clock"] \in Nat
    BY DEF IInv, Shape
  <2> QED BY <1>1, <2>1, <2>2 DEF Written
<1>3. Mint(r) = mint
  BY <1>0 DEF Mint, MintFor
<1> DEFINE new == NewRow(r, saved)
<1>4. new = [title |-> p.title, tags |-> p.tags, pinned |-> p.pinned, assets |-> p.assets,
             doc |-> Stamped(p.doc, mint), version |-> req[r].version + 1, saved |-> saved]
  BY <1>0, <1>3 DEF NewRow
<1>5. Stamped(p.doc, mint) \in Docs
  <2>1. Sendable(p.doc)
    BY <1>2, PayloadIs
  <2> QED BY <1>2, <2>1, MintProper, StampedShape
<1>6. new # NoRow
  <2>1. p.pinned \in BOOLEAN /\ p.assets \in SUBSET Assets
    BY <1>2, PayloadIs
  <2> DEFINE doc == Stamped(p.doc, mint)
             v == req[r].version + 1
  <2>2. p.title \in {q.title : q \in PayloadSet} /\ p.tags \in {q.tags : q \in PayloadSet}
    BY <1>2
  <2>3. doc \in Docs /\ v \in Nat
    BY <1>2, <1>5
  <2> HIDE DEF doc, v
  <2>4. [title |-> p.title, tags |-> p.tags, pinned |-> p.pinned, assets |-> p.assets,
             doc |-> doc, version |-> v, saved |-> saved] \in RowType
    BY <1>2, <2>1, <2>2, <2>3 DEF RowType
  <2> HIDE DEF new
  <2> QED BY <1>4, <2>4, NoRowAssumption DEF doc, v
<1> HIDE DEF new
<1>7. row'[n] = new /\ \A m \in NoteIds \ {n} : row'[m] = row[m]
  BY <1>1, <1>2 DEF new, IInv, Shape
<1>8. DOMAIN blocks' = NoteIds /\ blocks'[n] = Rows(p.doc, mint)
      /\ \A m \in NoteIds \ {n} : blocks'[m] = blocks[m]
  <2>1. blocks' = [blocks EXCEPT ![n] = Rows(p.doc, mint)]
    BY <1>0, <1>3 DEF Commit, ReplaceBlocks
  <2> HIDE DEF mint
  <2> QED BY <1>2, <2>1 DEF RowsInv
<1>9. IsFiniteSet(Live')
  <2>1. IsFiniteSet(Live \cup {n})
    BY FS_AddElement DEF RowsInv
  <2>2. Live' \subseteq Live \cup {n}
    BY <1>7 DEF Live
  <2> QED BY <2>1, <2>2, FS_Subset
<1>10. StoredAs(n, p, k)'
  BY <1>2, <1>4, <1>7, <1>8 DEF StoredAs
<1>11. ASSUME NEW m \in Live', m # n PROVE (\E q \in PayloadSet, j \in Nat : StoredAs(m, q, j))'
  <2>1. m \in Live /\ row'[m] = row[m] /\ blocks'[m] = blocks[m]
    BY <1>7, <1>8, <1>11 DEF Live
  <2> QED BY <2>1 DEF RowsInv, StoredAs
<1>12. ASSUME NEW m \in NoteIds, row'[m] = NoRow PROVE blocks'[m] = {}
  BY <1>6, <1>7, <1>8, <1>12 DEF RowsInv
<1>13. \A m \in Live' : (\E q \in PayloadSet, j \in Nat : StoredAs(m, q, j))'
  <2>1. \A m \in Live' : m = n => (\E q \in PayloadSet, j \in Nat : StoredAs(m, q, j))'
    BY <1>10
  <2> QED BY <1>11, <2>1
<1> QED BY <1>8, <1>9, <1>12, <1>13 DEF RowsInv

LEMMA DeleteRows == ASSUME IInv, RowsInv, NEW n \in NoteIds, DeleteNote(n) PROVE RowsInv'
<1>1. row' = [row EXCEPT ![n] = NoRow] /\ blocks' = [blocks EXCEPT ![n] = {}]
  BY DEF DeleteNote
<1>2. row'[n] = NoRow /\ \A m \in NoteIds \ {n} : row'[m] = row[m]
  BY <1>1 DEF IInv, Shape
<1>3. DOMAIN blocks' = NoteIds /\ blocks'[n] = {} /\ \A m \in NoteIds \ {n} : blocks'[m] = blocks[m]
  BY <1>1 DEF RowsInv
<1>4. IsFiniteSet(Live')
  <2>1. Live' \subseteq Live
    BY <1>2 DEF Live
  <2> QED BY <2>1, FS_Subset DEF RowsInv
<1>5. ASSUME NEW m \in Live' PROVE (\E q \in PayloadSet, j \in Nat : StoredAs(m, q, j))'
  <2>1. m \in Live /\ row'[m] = row[m] /\ blocks'[m] = blocks[m]
    BY <1>2, <1>3 DEF Live
  <2> QED BY <2>1 DEF RowsInv, StoredAs
<1>6. ASSUME NEW m \in NoteIds, row'[m] = NoRow PROVE blocks'[m] = {}
  BY <1>2, <1>3, <1>6 DEF RowsInv
<1> QED BY <1>3, <1>4, <1>5, <1>6 DEF RowsInv

LEMMA NextRows == IInv /\ RowsInv /\ [Next]_vars => RowsInv'
<1> SUFFICES ASSUME IInv, RowsInv, [Next]_vars PROVE RowsInv'
  OBVIOUS
<1>1. CASE UNCHANGED <<row, blocks>>
  BY <1>1 DEF RowsInv, Live, StoredAs
<1>2. \/ UNCHANGED <<row, blocks>>
      \/ \E n \in NoteIds : DeleteNote(n)
      \/ \E r \in Requests : Commit(r)
  BY DEF Next, Client, Server, Trouble, Saving, Moving, Send, Import, Upload, RemoveMedia,
         Read, Write, Abort, Store, CommitUpload, CommitRemoveMedia, AbortUpload,
         AbortRemoveMedia, vars
<1> QED BY <1>1, <1>2, CommitRows, DeleteRows

LEMMA AlwaysRows == Spec => []RowsInv
BY InitRows, NextRows, AlwaysIInv, PTL DEF Spec

\* The rows of a note and the document beside them.
LEMMA StoredBlocks ==
    ASSUME RowsInv, NEW n \in Live
    PROVE  /\ \A b, c \in blocks[n] :
              b.uid = c.uid \/ (b.parent = c.parent /\ b.order = c.order) => b = c
           /\ Blocks(row[n].doc) # {} =>
              blocks[n] = Rows(row[n].doc, [i \in 0 .. Len(row[n].doc) |-> NoUid])
<1>1. PICK p \in PayloadSet, k \in Nat : StoredAs(n, p, k)
  BY DEF RowsInv
<1> DEFINE doc == p.doc
           mint == MintFor(doc, k)
<1>2. Proper(doc, mint)
  BY PayloadIs, MintProper
<1>3. row[n].doc = Stamped(doc, mint) /\ blocks[n] = Rows(doc, mint)
  BY <1>1 DEF StoredAs
<1> HIDE DEF doc, mint
<1>4. ASSUME Blocks(row[n].doc) # {}
      PROVE  blocks[n] = Rows(row[n].doc, [i \in 0 .. Len(row[n].doc) |-> NoUid])
  <2>1. Blocks(doc) # {} /\ Len(row[n].doc) = Len(doc)
    BY <1>2, <1>3, <1>4, StampedShape
  <2> QED BY <1>2, <1>3, <2>1, StampedRows DEF NoMint
<1>5. ASSUME NEW b \in blocks[n], NEW c \in blocks[n],
             b.uid = c.uid \/ (b.parent = c.parent /\ b.order = c.order)
      PROVE  b = c
  <2>1. CASE Blocks(doc) = {}
    BY <1>3, <2>1 DEF Rows
  <2>2. CASE Blocks(doc) # {}
    <3>1. PICK i \in Blocks(doc) : b = RowOf(doc, mint, i)
      BY <1>3, <2>2 DEF Rows
    <3>2. PICK j \in Blocks(doc) : c = RowOf(doc, mint, j)
      BY <1>3, <2>2 DEF Rows
    <3>3. /\ b.uid = UidOf(doc, mint, i) /\ c.uid = UidOf(doc, mint, j)
          /\ b.parent = ParentOf(doc, mint, i) /\ c.parent = ParentOf(doc, mint, j)
          /\ b.order = OrderOf(doc, mint, i) /\ c.order = OrderOf(doc, mint, j)
      BY <3>1, <3>2 DEF RowOf
    <3>4. i = j
      BY <1>2, <1>5, <3>3, UidsDiffer, OrdersDiffer
    <3> QED BY <3>1, <3>2, <3>4
  <2> QED BY <2>1, <2>2
<1> QED BY <1>4, <1>5

\* Block rows are those of the stored document, unique as the table demands,
\* and walking the document again changes none: _extract_blocks and the stamping
\* of utils/tiptap.py, for every document, imported or saved.
THEOREM BlocksOfRowHolds == Spec => []BlocksOfRow
<1>1. RowsInv => BlocksOfRow
  <2> SUFFICES ASSUME RowsInv PROVE BlocksOfRow
    OBVIOUS
  <2>1. \A n \in NoteIds \ Live : blocks[n] = {}
    BY DEF RowsInv, Live
  <2> QED BY <2>1, StoredBlocks, Zenon DEF BlocksOfRow
<1> QED BY <1>1, AlwaysRows, PTL
-----------------------------------------------------------------------------
(***************************** what is counted *****************************)

Opened == {r \in Requests : Open(r)}

\* The saves that have not ended.
Outstanding == left["save"] + Cardinality(Opened)

\* A save ends once, so neither the versions nor the clock outrun the saves.
CountInv ==
    /\ IsFiniteSet(Opened)
    /\ left["clock"] + Outstanding <= MaxSaves
    /\ \A n \in Live : /\ row[n].version > 0
                       /\ row[n].version + Outstanding <= MaxSaves
                       /\ row[n].saved \in 0 .. left["clock"]
    /\ \A r \in Requests : req[r].pc \in {"read", "writing"} =>
                            req[r].version + Outstanding <= MaxSaves

LEMMA InitCount == Init => CountInv
<1> SUFFICES ASSUME Init PROVE CountInv
  OBVIOUS
<1>1. Live = {} /\ Opened = {} /\ \A r \in Requests : req[r].pc = "idle"
  BY DEF Init, Live, Opened, Open, Idle
<1>2. left["clock"] = 0 /\ left["save"] = MaxSaves /\ MaxSaves \in Nat
  BY NoteStoreAssumption DEF Init
<1>3. IsFiniteSet({}) /\ Cardinality({}) = 0
  BY FS_EmptySet
<1> QED BY <1>1, <1>2, <1>3 DEF CountInv, Outstanding

\* The number of requests, as one opens or ends.
LEMMA OpenedAdds ==
    ASSUME CountInv, NEW r \in Requests, ~Open(r), Open(r)',
           \A q \in Requests \ {r} : Open(q)' <=> Open(q)
    PROVE  IsFiniteSet(Opened') /\ Cardinality(Opened') = Cardinality(Opened) + 1
<1>1. Opened' = Opened \cup {r} /\ r \notin Opened
  BY DEF Opened
<1> QED BY <1>1, FS_AddElement DEF CountInv

LEMMA OpenedDrops ==
    ASSUME CountInv, NEW r \in Requests, Open(r), ~Open(r)',
           \A q \in Requests \ {r} : Open(q)' <=> Open(q)
    PROVE  IsFiniteSet(Opened') /\ Cardinality(Opened') = Cardinality(Opened) - 1
<1>1. Opened' = Opened \ {r} /\ r \in Opened
  BY DEF Opened
<1> QED BY <1>1, FS_RemoveElement DEF CountInv

LEMMA OpenedStays ==
    ASSUME CountInv, \A q \in Requests : Open(q)' <=> Open(q)
    PROVE  IsFiniteSet(Opened') /\ Cardinality(Opened') = Cardinality(Opened)
<1>1. Opened' = Opened
  BY DEF Opened
<1> QED BY <1>1 DEF CountInv

LEMMA OutstandingType ==
    IInv /\ CountInv => /\ Outstanding \in Nat /\ left["save"] \in Nat /\ left["clock"] \in Nat
                        /\ Cardinality(Opened) \in Nat /\ MaxSaves \in Nat
                        /\ Outstanding = left["save"] + Cardinality(Opened)
BY FS_CardinalityType, NoteStoreAssumption DEF CountInv, IInv, Shape, Outstanding

LEMMA Less ==
    ASSUME NEW a \in Nat, NEW b \in Nat, b <= a, NEW v \in Nat, NEW m \in Nat, v + a <= m
    PROVE  v + b <= m
OBVIOUS

\* A step that frees no save and gives no request or row a version of its own.
LEMMA CountKeeps ==
    ASSUME IInv, IInv', CountInv, IsFiniteSet(Opened'), Outstanding' <= Outstanding,
           left'["clock"] = left["clock"],
           \A n \in Live' : n \in Live /\ row'[n] = row[n],
           \A q \in Requests : req'[q].pc \in {"read", "writing"} =>
               \/ req[q].pc \in {"read", "writing"} /\ req'[q].version = req[q].version
               \/ req'[q].version + Outstanding <= MaxSaves
    PROVE  CountInv'
<1>1. Outstanding \in Nat /\ Outstanding' \in Nat /\ left["clock"] \in Nat /\ MaxSaves \in Nat
  <2>1. left'["save"] \in Nat /\ Cardinality(Opened') \in Nat
    BY FS_CardinalityType DEF IInv, Shape
  <2>2. Outstanding' = left'["save"] + Cardinality(Opened')
    BY DEF Outstanding
  <2> QED BY <2>1, <2>2, OutstandingType
<1>2. ASSUME NEW v \in Nat, v + Outstanding <= MaxSaves PROVE v + Outstanding' <= MaxSaves
  BY <1>1, <1>2, Less
<1>3. \A n \in Live : row[n].version \in Nat
  BY DEF IInv, Shape, Versions, Live
<1>4. \A q \in Requests : req'[q].pc \in {"read", "writing"} => req'[q].version \in Nat
  <2>1. \A q \in Requests : req'[q] \in RequestType
    BY DEF IInv, Shape
  <2> QED BY <2>1 DEF RequestType, Idle, Sent, Reading, Written
<1>5. left'["clock"] + Outstanding' <= MaxSaves
  BY <1>1, <1>2 DEF CountInv
<1>6. \A n \in Live' : row'[n].version > 0 /\ row'[n].version + Outstanding' <= MaxSaves
                       /\ row'[n].saved \in 0 .. left'["clock"]
  BY <1>2, <1>3 DEF CountInv
<1>7. \A q \in Requests : req'[q].pc \in {"read", "writing"} =>
                          req'[q].version + Outstanding' <= MaxSaves
  BY <1>2, <1>4 DEF CountInv
<1> QED BY <1>5, <1>6, <1>7 DEF CountInv

LEMMA SaveLeft ==
    ASSUME IInv, NEW what \in {"save", "delete", "fault"}, Spend(what)
    PROVE  /\ left["save"] \in Nat /\ left'["clock"] = left["clock"]
           /\ left'["save"] = IF what = "save" THEN left["save"] - 1 ELSE left["save"]
BY LeftType, SMT DEF Spend

LEMMA CommitCount == ASSUME IInv, IInv', CountInv, NEW r \in Requests, Commit(r) PROVE CountInv'
<1> DEFINE v == req[r].version
<1>1. PICK n \in NoteIds : n = req[r].note
  BY ReadyType DEF IInv, Commit, Written
<1>2. PICK saved \in {left["clock"], left["clock"] + 1} :
            /\ row' = [row EXCEPT ![n] = NewRow(r, saved)]
            /\ left' = [left EXCEPT !["clock"] = saved]
  BY <1>1 DEF Commit
<1>3. v \in Nat /\ left["clock"] \in Nat /\ left["save"] \in Nat /\ saved \in Nat
      /\ left'["save"] = left["save"] /\ left'["clock"] = saved /\ saved <= left["clock"] + 1
  <2>1. v \in Nat
    BY ReadyType DEF IInv, Commit, Written
  <2>2. left \in [{"save", "delete", "fault", "clock"} -> Nat]
    BY LeftType
  <2> HIDE DEF v
  <2> QED BY <1>2, <2>1, <2>2
<1>4. /\ req'[r].pc = "idle"
      /\ \A q \in Requests \ {r} : req'[q].pc = req[q].pc
  BY CommitRequests
<1>5. \A q \in Requests : req'[q].pc \in {"read", "writing"} =>
          req[q].pc \in {"read", "writing"} /\ req'[q].version = req[q].version
                                          /\ req'[q].version \in Nat
  <2> SUFFICES ASSUME NEW q \in Requests, req'[q].pc \in {"read", "writing"}
               PROVE  req[q].pc \in {"read", "writing"} /\ req'[q].version = req[q].version
                      /\ req'[q].version \in Nat
    OBVIOUS
  <2>1. q # r /\ req[q].pc \in {"read", "writing"}
    BY <1>4
  <2>2. req'[q] = [req[q] EXCEPT !.raced = TRUE]
    BY <2>1 DEF Commit
  <2>3. req[q] \in Reading \/ req[q] \in Written
    BY <2>1, ReadyType DEF IInv, Writing
  <2> QED BY <2>1, <2>2, <2>3 DEF Reading, Written
<1>6. IsFiniteSet(Opened') /\ Cardinality(Opened') = Cardinality(Opened) - 1
      /\ Cardinality(Opened) \in Nat
  <2>1. Open(r) /\ ~Open(r)' /\ \A q \in Requests \ {r} : Open(q)' <=> Open(q)
    BY <1>4 DEF Open, Commit, Writing
  <2> QED BY <2>1, OpenedDrops, FS_CardinalityType DEF CountInv
<1>7. Outstanding \in Nat /\ Outstanding' = Outstanding - 1 /\ MaxSaves \in Nat
  BY <1>3, <1>6, OutstandingType DEF Outstanding
<1>8. \A w \in Nat : w + Outstanding <= MaxSaves =>
            w + Outstanding' <= MaxSaves /\ w + 1 + Outstanding' <= MaxSaves
  BY <1>7
<1>9. left["clock"] + Outstanding <= MaxSaves /\ v + Outstanding <= MaxSaves
  <2>1. Writing(r)
    BY DEF Commit
  <2> QED BY <2>1 DEF CountInv, Writing
<1>10. saved + Outstanding' <= MaxSaves /\ v + 1 + Outstanding' <= MaxSaves
  <2> HIDE DEF v
  <2> QED BY <1>2, <1>3, <1>8, <1>9
<1> DEFINE new == NewRow(r, saved)
<1>11. new.version = v + 1 /\ new.saved = saved
  BY DEF NewRow
<1> HIDE DEF new, v
<1>12. /\ row'[n] = new
       /\ \A m \in NoteIds \ {n} : row'[m] = row[m]
  BY <1>2 DEF new, IInv, Shape
<1>13. ASSUME NEW m \in Live'
       PROVE  /\ row'[m].version > 0 /\ row'[m].version + Outstanding' <= MaxSaves
              /\ row'[m].saved \in 0 .. saved
  <2>1. CASE m = n
    BY <1>3, <1>10, <1>11, <1>12, <2>1
  <2>2. CASE m # n
    <3>1. m \in Live /\ row'[m] = row[m] /\ row[m].version \in Nat
      BY <1>12, <2>2 DEF Live, IInv, Shape, Versions
    <3>2. /\ row[m].version > 0 /\ row[m].version + Outstanding <= MaxSaves
          /\ row[m].saved \in 0 .. left["clock"]
      BY <3>1 DEF CountInv
    <3>3. left["clock"] <= saved
      BY <1>2, <1>3
    <3>4. row[m].version + Outstanding' <= MaxSaves
      BY <1>8, <3>1, <3>2
    <3> QED BY <1>3, <3>1, <3>2, <3>3, <3>4
  <2> QED BY <2>1, <2>2
<1>14. \A q \in Requests : req'[q].pc \in {"read", "writing"} =>
                           req'[q].version + Outstanding' <= MaxSaves
  BY <1>5, <1>8 DEF CountInv
<1> QED BY <1>3, <1>6, <1>10, <1>13, <1>14 DEF CountInv

\* A request that ends without a commit.
LEMMA EndCount ==
    ASSUME IInv, IInv', CountInv, NEW r \in Requests, Open(r), req' = [req EXCEPT ![r] = Idle],
           left' = left \/ Spend("fault"), UNCHANGED row
    PROVE  CountInv'
<1>1. req'[r].pc = "idle" /\ \A q \in Requests \ {r} : req'[q] = req[q]
  BY DEF IInv, Shape, Idle
<1>2. ~Open(r)' /\ \A q \in Requests \ {r} : Open(q)' <=> Open(q)
  BY <1>1 DEF Open
<1>3. IsFiniteSet(Opened') /\ Cardinality(Opened') = Cardinality(Opened) - 1
  BY <1>2, OpenedDrops
<1>4. left'["save"] = left["save"] /\ left'["clock"] = left["clock"]
  BY SaveLeft
<1>5. Outstanding' <= Outstanding
  BY <1>3, <1>4, OutstandingType DEF Outstanding
<1>6. \A n \in Live' : n \in Live /\ row'[n] = row[n]
  BY DEF Live
<1> QED BY <1>1, <1>3, <1>4, <1>5, <1>6, CountKeeps

\* A request that opens.
LEMMA SendCount ==
    ASSUME IInv, IInv', CountInv, NEW r \in Requests, FirstFree(r), Spend("save"),
           NEW new, new.pc = "sent", req' = [req EXCEPT ![r] = new], UNCHANGED row
    PROVE  CountInv'
<1>1. req'[r].pc = "sent" /\ \A q \in Requests \ {r} : req'[q] = req[q]
  BY DEF IInv, Shape
<1>2. ~Open(r) /\ Open(r)' /\ \A q \in Requests \ {r} : Open(q)' <=> Open(q)
  BY <1>1 DEF Open, FirstFree
<1>3. IsFiniteSet(Opened') /\ Cardinality(Opened') = Cardinality(Opened) + 1
  BY <1>2, OpenedAdds
<1>4. left'["save"] = left["save"] - 1 /\ left'["clock"] = left["clock"]
  BY SaveLeft
<1>5. Outstanding' <= Outstanding
  BY <1>3, <1>4, OutstandingType DEF Outstanding
<1>6. \A n \in Live' : n \in Live /\ row'[n] = row[n]
  BY DEF Live
<1> QED BY <1>1, <1>3, <1>4, <1>5, <1>6, CountKeeps

\* A request that goes on.
LEMMA GoCount ==
    ASSUME IInv, IInv', CountInv, NEW r \in Requests, Open(r),
           req'[r].pc \in {"read", "writing"}, req'[r].version + Outstanding <= MaxSaves,
           \A q \in Requests \ {r} : req'[q] = req[q], UNCHANGED row, UNCHANGED left
    PROVE  CountInv'
<1>2. \A q \in Requests : Open(q)' <=> Open(q)
  BY DEF Open
<1>3. IsFiniteSet(Opened') /\ Cardinality(Opened') = Cardinality(Opened)
  BY <1>2, OpenedStays
<1>4. Outstanding' <= Outstanding
  BY <1>3, OutstandingType DEF Outstanding
<1>5. \A n \in Live' : n \in Live /\ row'[n] = row[n]
  BY DEF Live
<1> QED BY <1>3, <1>4, <1>5, CountKeeps

LEMMA ReadCount == ASSUME IInv, IInv', CountInv, NEW r \in Requests, Read(r) PROVE CountInv'
<1> DEFINE v == IF row[req[r].note] = NoRow THEN 0 ELSE row[req[r].note].version
<1>0. Open(r) /\ UNCHANGED row /\ UNCHANGED left
  BY DEF Read, Open
<1>1. \/ req' = [req EXCEPT ![r] = Idle]
      \/ req' = [req EXCEPT ![r] = NewRead(req[r], v)]
  BY DEF Read, NewRead
<1>2. v + Outstanding <= MaxSaves
  <2>1. req[r].note \in NoteIds
    BY ReadyType DEF IInv, Read, Sent
  <2>2. Outstanding \in Nat /\ left["clock"] \in Nat /\ MaxSaves \in Nat
        /\ left["clock"] + Outstanding <= MaxSaves
    BY OutstandingType DEF CountInv
  <2>3. CASE v = 0
    BY <2>2, <2>3
  <2>4. CASE v # 0
    <3>1. req[r].note \in Live
      BY <2>1, <2>4 DEF Live
    <3> QED BY <3>1 DEF CountInv, Live
  <2> QED BY <2>3, <2>4
<1>3. NewRead(req[r], v).pc = "read" /\ NewRead(req[r], v).version = v
  BY DEF NewRead
<1> DEFINE new == NewRead(req[r], v)
<1> HIDE DEF new, v
<1>4. CASE req' = [req EXCEPT ![r] = new]
  <2>1. new.pc \in {"read", "writing"} /\ new.version + Outstanding <= MaxSaves
    BY <1>2, <1>3 DEF new
  <2>2. req'[r] = new /\ \A q \in Requests \ {r} : req'[q] = req[q]
    BY <1>4 DEF IInv, Shape
  <2> QED BY <1>0, <2>1, <2>2, GoCount
<1> QED BY <1>0, <1>1, <1>4, EndCount DEF new

LEMMA WriteCount == ASSUME IInv, IInv', CountInv, NEW r \in Requests, Write(r) PROVE CountInv'
<1>1. CASE (req[r].version = 0) = (req[r].note \in Live)
  BY <1>1, EndCount DEF Write, Open
<1>2. CASE ~((req[r].version = 0) = (req[r].note \in Live))
  <2>1. PICK gone \in {ToDelete(r), {}} : req' = [req EXCEPT ![r] = NewWriting(req[r], gone)]
    BY <1>2 DEF Write, NewWriting
  <2> DEFINE new == NewWriting(req[r], gone)
  <2>2. new.pc = "writing" /\ new.version = req[r].version
    BY DEF NewWriting
  <2> HIDE DEF new
  <2>3. Open(r) /\ UNCHANGED row /\ UNCHANGED left /\ req[r].version + Outstanding <= MaxSaves
    BY DEF Write, Open, CountInv
  <2>4. req' = [req EXCEPT ![r] = new]
    BY <2>1 DEF new
  <2>5. new.pc \in {"read", "writing"} /\ new.version + Outstanding <= MaxSaves
    BY <2>2, <2>3
  <2>6. req'[r] = new /\ \A q \in Requests \ {r} : req'[q] = req[q]
    BY <2>4 DEF IInv, Shape
  <2> QED BY <2>3, <2>5, <2>6, GoCount
<1> QED BY <1>1, <1>2

\* A step of no request.
LEMMA OtherCount ==
    ASSUME IInv, IInv', CountInv, UNCHANGED req,
           left' = left \/ Spend("delete") \/ Spend("fault"),
           \A n \in NoteIds : row'[n] = row[n] \/ row'[n] = NoRow
    PROVE  CountInv'
<1>1. \A q \in Requests : Open(q)' <=> Open(q)
  BY DEF Open
<1>2. IsFiniteSet(Opened') /\ Cardinality(Opened') = Cardinality(Opened)
  BY <1>1, OpenedStays
<1>3. left'["save"] = left["save"] /\ left'["clock"] = left["clock"]
  BY SaveLeft
<1>4. Outstanding' <= Outstanding
  BY <1>2, <1>3, OutstandingType DEF Outstanding
<1>5. \A n \in Live' : n \in Live /\ row'[n] = row[n]
  BY DEF Live
<1> QED BY <1>2, <1>3, <1>4, <1>5, CountKeeps

LEMMA NextCount == IInv /\ IInv' /\ CountInv /\ [Next]_vars => CountInv'
<1> SUFFICES ASSUME IInv, IInv', CountInv, [Next]_vars PROVE CountInv'
  OBVIOUS
<1>1. ASSUME NEW r \in Requests, NEW n \in NoteIds, NEW p \in Payloads, Send(r, n, p) PROVE CountInv'
  <2> DEFINE new == NewSent(n, p, left["save"])
  <2>1. FirstFree(r) /\ Spend("save") /\ req' = [req EXCEPT ![r] = new] /\ UNCHANGED row
        /\ new.pc = "sent"
    BY <1>1 DEF Send, NewSent
  <2> HIDE DEF new
  <2> QED BY <2>1, SendCount
<1>2. ASSUME NEW r \in Requests, NEW n \in NoteIds, NEW f \in Files, Import(r, n, f) PROVE CountInv'
  <2> DEFINE new == NewSent(n, ImportPayload(f), left["save"])
  <2>1. FirstFree(r) /\ Spend("save") /\ req' = [req EXCEPT ![r] = new] /\ UNCHANGED row
        /\ new.pc = "sent"
    BY <1>2 DEF Import, NewSent
  <2> HIDE DEF new
  <2> QED BY <2>1, SendCount
<1>3. ASSUME NEW n \in NoteIds, DeleteNote(n) PROVE CountInv'
  <2>1. row' = [row EXCEPT ![n] = NoRow] /\ UNCHANGED req /\ Spend("delete")
    BY <1>3 DEF DeleteNote
  <2>2. \A m \in NoteIds : row'[m] = row[m] \/ row'[m] = NoRow
    BY <2>1 DEF IInv, Shape
  <2> QED BY <2>1, <2>2, OtherCount
<1>4. ASSUME NEW r \in Requests, Saving(r) PROVE CountInv'
  BY <1>4, ReadCount, WriteCount, CommitCount DEF Saving
<1>5. ASSUME NEW r \in Requests, Abort(r) PROVE CountInv'
  BY <1>5, EndCount DEF Abort, Writing, Open
<1>6. ASSUME UNCHANGED <<req, row>>, left' = left \/ Spend("delete") \/ Spend("fault") PROVE CountInv'
  BY <1>6, OtherCount
<1>7. ASSUME NEW a \in Assets, Moving(a) PROVE CountInv'
  BY <1>7, <1>6 DEF Moving, Store, CommitUpload, CommitRemoveMedia
<1>8. ASSUME NEW a \in Assets, AbortUpload(a) \/ AbortRemoveMedia(a) \/ RemoveMedia(a) PROVE CountInv'
  BY <1>8, <1>6 DEF AbortUpload, AbortRemoveMedia, RemoveMedia
<1>9. ASSUME NEW a \in Assets, NEW n \in NoteIds, Upload(a, n) PROVE CountInv'
  BY <1>9, <1>6 DEF Upload
<1>10. CASE UNCHANGED vars
  BY <1>10, <1>6 DEF vars
<1> QED BY <1>1, <1>2, <1>3, <1>4, <1>5, <1>7, <1>8, <1>9, <1>10
    DEF Next, Client, Server, Trouble

LEMMA AlwaysCount == Spec => []CountInv
<1>1. Spec => []IInv
  BY AlwaysIInv
<1> QED BY <1>1, InitCount, NextCount, PTL DEF Spec

\* The tables are typed, for any number of saves: an import's document too is
\* one the block walk can take, and no save's version is used twice over.
THEOREM Typed == Spec => []TypeOK
<1> SUFFICES ASSUME IInv, RowsInv, CountInv PROVE TypeOK
  <2>1. IInv /\ RowsInv /\ CountInv => TypeOK
    OBVIOUS
  <2> QED BY <2>1, AlwaysIInv, AlwaysRows, AlwaysCount, PTL
<1>1. Outstanding \in Nat /\ MaxSaves \in Nat /\ left["clock"] \in Nat
  BY OutstandingType
<1>2. ASSUME NEW n \in Live
      PROVE  /\ row[n].version \in 1 .. MaxSaves /\ row[n].saved \in 0 .. MaxSaves
             /\ row[n].assets \subseteq Assets
             /\ \A i \in DOMAIN row[n].doc : row[n].doc[i].uid \in Uids
             /\ \A b \in blocks[n] :
                   b.uid \in Uids \ {NoUid} /\ b.parent \in Uids /\ b.order \in Nat
  <2>1. PICK p \in PayloadSet, k \in Nat : StoredAs(n, p, k)
    BY DEF RowsInv
  <2> DEFINE doc == p.doc
             mint == MintFor(doc, k)
  <2>2. Proper(doc, mint) /\ p.assets \subseteq Assets
    BY PayloadIs, MintProper
  <2>3. row[n].version \in Nat /\ row[n].version > 0 /\ row[n].version + Outstanding <= MaxSaves
        /\ row[n].saved \in 0 .. left["clock"] /\ left["clock"] + Outstanding <= MaxSaves
    BY DEF CountInv, IInv, Shape, Versions, Live
  <2>4. row[n].version \in 1 .. MaxSaves /\ row[n].saved \in 0 .. MaxSaves
    BY <1>1, <2>3
  <2>5. row[n].doc = Stamped(doc, mint) /\ blocks[n] = Rows(doc, mint) /\ row[n].assets = p.assets
    BY <2>1 DEF StoredAs
  <2> HIDE DEF doc, mint
  <2>6. \A i \in DOMAIN row[n].doc : row[n].doc[i].uid \in Uids
    <3>1. row[n].doc \in Docs
      BY <2>2, <2>5, StampedShape
    <3> QED BY <3>1, DocShape DEF Node
  <2>7. ASSUME NEW b \in blocks[n]
        PROVE  b.uid \in Uids \ {NoUid} /\ b.parent \in Uids /\ b.order \in Nat
    <3>1. CASE Blocks(doc) = {}
      <4>1. b = FallbackRow(mint[0])
        BY <2>5, <3>1 DEF Rows
      <4>2. mint[0] \in Nat
        BY <2>2, DocShape, SMT DEF Proper
      <4> QED BY <4>1, <4>2, NoUidAssumption DEF FallbackRow, Uids
    <3>2. CASE Blocks(doc) # {}
      <4>1. PICK i \in Blocks(doc) : b = RowOf(doc, mint, i)
        BY <2>5, <3>2 DEF Rows
      <4>2. b.uid = UidOf(doc, mint, i) /\ b.parent = ParentOf(doc, mint, i)
            /\ b.order = OrderOf(doc, mint, i)
        BY <4>1 DEF RowOf
      <4>3. OrderOf(doc, mint, i) \in Nat
        BY <2>2, OrderType
      <4> QED BY <2>2, <4>2, <4>3, UidType, ParentType, NoUidAssumption DEF Uids
    <3> QED BY <3>1, <3>2
  <2> QED BY <2>2, <2>4, <2>5, <2>6, <2>7
<1>3. ASSUME NEW r \in Requests
      PROVE  /\ req[r].pc \in {"idle", "sent", "read", "writing"}
             /\ Open(r) => req[r].note \in NoteIds /\ req[r].payload \in PayloadSet
             /\ req[r].pc \in {"read", "writing"} => req[r].version \in 0 .. MaxSaves
             /\ Writing(r) => req[r].dropped \subseteq Assets
  <2>1. req[r].pc \in {"read", "writing"} => req[r].version + Outstanding <= MaxSaves
    BY DEF CountInv
  <2>2. req[r].pc \in {"idle", "sent", "read", "writing"}
        /\ (Open(r) => req[r].note \in NoteIds /\ req[r].payload \in PayloadSet)
        /\ (req[r].pc \in {"read", "writing"} => req[r].version \in Nat)
        /\ (Writing(r) => req[r].dropped \subseteq Assets)
    BY ReadyType DEF IInv, Open, Writing, Sent, Reading, Written
  <2> QED BY <1>1, <2>1, <2>2
<1>4. \A n \in NoteIds : n \notin Live => blocks[n] = {}
  BY DEF RowsInv, Live
<1>5. asset \in [Assets -> [at : Stages, note : NoteIds \cup {NoRow}]]
      /\ disk \subseteq Assets /\ raced \subseteq NoteIds
  BY DEF IInv, Shape, AssetType
<1>6. \A n \in NoteIds : \A b \in blocks[n] :
          b.uid \in Uids \ {NoUid} /\ b.parent \in Uids /\ b.order \in Nat
  BY <1>2, <1>4
<1> QED BY <1>2, <1>3, <1>5, <1>6, Zenon DEF TypeOK, PayloadSet
-----------------------------------------------------------------------------
(********************************** pages **********************************)

\* What list_notes puts before each note it found.
ListedUp(found) == [n \in found |-> {m \in found \ {n} : ListedBefore(m, n)}]

LEMMA ListOrder ==
    ASSUME IInv, RowsInv, NEW found \in SUBSET Live PROVE Ordered(found, ListedUp(found))
<1>1. ASSUME NEW n \in found
      PROVE  n \in Nat /\ row[n].pinned \in BOOLEAN /\ row[n].saved \in Nat
  <2>1. PICK p \in PayloadSet, k \in Nat : StoredAs(n, p, k)
    BY DEF RowsInv
  <2>2. p.pinned \in BOOLEAN /\ row[n].pinned = p.pinned /\ row[n].saved \in Nat
    BY <2>1, PayloadIs DEF StoredAs
  <2>3. n \in Nat
    BY NoteStoreAssumption DEF Live
  <2> QED BY <2>2, <2>3
<1> DEFINE P == {n \in found : row[n].pinned}
           s == [n \in found |-> row[n].saved]
<1>2. s \in [found -> Nat] /\ found \subseteq Nat
  BY <1>1
<1>3. \A m, n \in found : ListedBefore(m, n) <=>
          \/ m \in P /\ n \notin P
          \/ (m \in P <=> n \in P) /\ (s[m] > s[n] \/ (s[m] = s[n] /\ m < n))
  <2> SUFFICES ASSUME NEW m \in found, NEW n \in found
               PROVE  ListedBefore(m, n) <=>
                        \/ m \in P /\ n \notin P
                        \/ (m \in P <=> n \in P) /\ (s[m] > s[n] \/ (s[m] = s[n] /\ m < n))
    OBVIOUS
  <2>1. (row[m].pinned = row[n].pinned) <=> (m \in P <=> n \in P)
    BY <1>1
  <2>2. (m \in P <=> row[m].pinned) /\ (n \in P <=> row[n].pinned) /\ s[m] = row[m].saved /\ s[n] = row[n].saved
    OBVIOUS
  <2> HIDE DEF P, s
  <2> QED BY <2>1, <2>2, Zenon DEF ListedBefore
<1> DEFINE L(m, n) == ListedBefore(m, n)
           before == ListedUp(found)
<1> HIDE DEF P, s
<1>4. \A m, n \in found : m # n => L(m, n) \/ L(n, m)
  BY <1>2, <1>3
<1>5. \A m, n \in found : L(m, n) => ~L(n, m)
  BY <1>2, <1>3
<1>6. \A m, n, o \in found : L(o, m) /\ L(m, n) => L(o, n)
  BY <1>2, <1>3
<1> HIDE DEF L
<1>7. \A n \in found : before[n] = {m \in found \ {n} : L(m, n)}
  BY Zenon DEF ListedUp, L
<1>8. before \in [found -> SUBSET found]
  BY DEF ListedUp
<1> HIDE DEF before
<1>9. \A n \in found : n \notin before[n]
  BY <1>7
<1>10. \A m, n \in found : m \in before[n] => before[m] \subseteq before[n]
  BY <1>5, <1>6, <1>7
<1>11. \A m, n \in found : m # n => m \in before[n] \/ n \in before[m]
  BY <1>4, <1>7
<1> QED BY <1>8, <1>9, <1>10, <1>11 DEF Ordered, before

\* The pages of a listing tile it.
LEMMA PageSize ==
    ASSUME IInv, RowsInv, NEW found \in SUBSET Live, NEW limit \in Nat \ {0},
           NEW offset \in Nat
    PROVE  Cardinality(ListNotes(found, limit, offset))
             = Max({0, Min({limit, Cardinality(found) - offset})})
<1> DEFINE before == ListedUp(found)
           c == Cardinality(found)
           hi == offset + limit
<1>1. IsFiniteSet(found) /\ c \in Nat
  BY FS_Subset, FS_CardinalityType DEF RowsInv
<1>2. Ordered(found, before)
  BY ListOrder
<1>3. ListNotes(found, limit, offset) = RankedIn(before, offset, hi)
  BY DEF ListNotes, RankedIn, Rank, ListedUp
<1> HIDE DEF before
<1>4. offset <= hi /\ hi \in Nat
  OBVIOUS
<1> DEFINE size == Cardinality(RankedIn(before, offset, hi))
<1>5. /\ hi <= c => size = limit
      /\ hi > c /\ offset <= c => size = c - offset
      /\ offset > c => size = 0
  <2>1. /\ hi <= c => size = hi - offset
        /\ hi > c /\ offset <= c => size = c - offset
        /\ offset > c => size = 0
    <3> HIDE DEF hi, c
    <3> QED BY <1>1, <1>2, <1>4, WindowSize DEF c
  <2>2. hi - offset = limit
    OBVIOUS
  <2> QED BY <2>1, <2>2
<1> HIDE DEF size, c
<1> DEFINE rest == c - offset
           least == Min({limit, rest})
<1>6. least = IF limit <= rest THEN limit ELSE rest
  BY <1>1 DEF Min
<1> HIDE DEF least
<1>7. Max({0, least}) = IF least >= 0 THEN least ELSE 0
  BY <1>1, <1>6 DEF Max
<1> QED BY <1>1, <1>3, <1>5, <1>6, <1>7 DEF size, c, least

\* list_notes shows every matching note once: pinned, saved_at and id order the
\* notes totally, so the pages of any number of notes have no gap and no overlap.
THEOREM Pages == Spec => []PagesPartition
<1>1. ASSUME IInv, RowsInv PROVE PagesPartition
  <2>1. \A found \in Listings : found \in SUBSET Live
    BY DEF Listings, Matching
  <2>2. ASSUME NEW found \in Listings, NEW limit \in Limits,
               NEW page \in 0 .. Cardinality(found)
        PROVE  Cardinality(ListNotes(found, limit, page * limit))
                 = Max({0, Min({limit, Cardinality(found) - page * limit})})
    <3>1. found \in SUBSET Live /\ Cardinality(found) \in Nat
      BY <1>1, <2>1, FS_Subset, FS_CardinalityType DEF RowsInv
    <3>2. limit \in Nat \ {0} /\ page * limit \in Nat
      BY <3>1, NoteStoreAssumption
    <3> QED BY <1>1, <3>1, <3>2, PageSize
  <2> QED BY <2>2, Zenon DEF PagesPartition
<1> QED BY <1>1, AlwaysIInv, AlwaysRows, PTL
-----------------------------------------------------------------------------
(************************* the parser, line by line ************************)

\* Which expression a line matches.
LEMMA PlainKind ==
    ASSUME NEW t
    PROVE  /\ t = Empty => KindOf(Line("", t)) = "blank"
           /\ t # Empty => KindOf(Line("", t)) = "paragraph"
<1> DEFINE line == Line("", t)
<1>1. (line = Blank <=> t = Empty) /\ line.mark = ""
  BY DEF Line, Blank
<1> HIDE DEF line
<1>2. t = Empty => KindOf(line) = "blank"
  BY <1>1 DEF KindOf
<1>3. t # Empty => KindOf(line) = "paragraph"
  BY <1>1 DEF KindOf
<1> QED BY <1>2, <1>3, Zenon DEF line

LEMMA ItemKind ==
    ASSUME NEW t, t # Empty
    PROVE  KindOf(Line("-", t)) = "bulletList" /\ KindOf(Line("1.", t)) = "orderedList"
<1>1. ASSUME NEW line, line # Blank, line.text # Empty, line.mark = "-"
      PROVE  KindOf(line) = "bulletList"
  BY <1>1 DEF KindOf
<1>2. ASSUME NEW line, line # Blank, line.text # Empty, line.mark = "1."
      PROVE  KindOf(line) = "orderedList"
  BY <1>2 DEF KindOf
<1>3. /\ Line("-", t) # Blank /\ Line("-", t).text # Empty /\ Line("-", t).mark = "-"
      /\ Line("1.", t) # Blank /\ Line("1.", t).text # Empty /\ Line("1.", t).mark = "1."
  BY DEF Line, Blank
<1> QED BY <1>1, <1>2, <1>3, Zenon

LEMMA OtherKind ==
    ASSUME NEW t
    PROVE  /\ KindOf(Line(">", t)) = "blockquote" /\ KindOf(Line("fence", t)) = "codeBlock"
           /\ KindOf(Line("---", t)) = "horizontalRule"
<1>1. ASSUME NEW line, line # Blank, line.mark = ">" PROVE KindOf(line) = "blockquote"
  BY <1>1 DEF KindOf
<1>2. ASSUME NEW line, line # Blank, line.mark = "fence" PROVE KindOf(line) = "codeBlock"
  BY <1>2 DEF KindOf
<1>3. ASSUME NEW line, line # Blank, line.mark = "---" PROVE KindOf(line) = "horizontalRule"
  BY <1>3 DEF KindOf
<1>4. /\ Line(">", t) # Blank /\ Line(">", t).mark = ">"
      /\ Line("fence", t) # Blank /\ Line("fence", t).mark = "fence"
      /\ Line("---", t) # Blank /\ Line("---", t).mark = "---"
  BY DEF Line, Blank
<1> QED BY <1>1, <1>2, <1>3, <1>4, Zenon

LEMMA HashesAre ==
    /\ \A l \in 1 .. 6 : Hashes[l] \notin {"", "fence", "---", "-", "1.", ">"}
    /\ \A l \in 1 .. 6 : Hashes[l] \in {"#", "##", "###"} <=> l <= 3
    /\ \A l, m \in 1 .. 6 : Hashes[l] = Hashes[m] => l = m
<1>1. /\ Hashes[1] = "#" /\ Hashes[2] = "##" /\ Hashes[3] = "###"
      /\ Hashes[4] = "####" /\ Hashes[5] = "#####" /\ Hashes[6] = "######"
  BY DEF Hashes
<1>2. \A l \in 1 .. 6 : \/ l = 1 /\ Hashes[l] = "#"
                        \/ l = 2 /\ Hashes[l] = "##"
                        \/ l = 3 /\ Hashes[l] = "###"
                        \/ l = 4 /\ Hashes[l] = "####"
                        \/ l = 5 /\ Hashes[l] = "#####"
                        \/ l = 6 /\ Hashes[l] = "######"
  <2>1. \A l \in 1 .. 6 : l = 1 \/ l = 2 \/ l = 3 \/ l = 4 \/ l = 5 \/ l = 6
    OBVIOUS
  <2> QED BY <1>1, <2>1
<1>3. \A l \in 1 .. 6 : Hashes[l] \notin {"", "fence", "---", "-", "1.", ">"}
  BY <1>2
<1>4. \A l \in 1 .. 6 : Hashes[l] \in {"#", "##", "###"} <=> l <= 3
  BY <1>2
<1>5. \A l, m \in 1 .. 6 : Hashes[l] = Hashes[m] => l = m
  BY <1>2
<1> QED BY <1>3, <1>4, <1>5

LEMMA HeadingKind ==
    ASSUME NEW t, NEW l \in 1 .. 6
    PROVE  KindOf(Line(Hashes[l], t)) = IF l <= 3 /\ t # Empty THEN "heading" ELSE "paragraph"
<1> DEFINE line == Line(Hashes[l], t)
<1>1. line.mark = Hashes[l] /\ line.text = t /\ (line = Blank => Hashes[l] = "")
  BY DEF Line, Blank
<1>2. /\ Hashes[l] \notin {"", "fence", "---", "-", "1.", ">"}
      /\ Hashes[l] \in {"#", "##", "###"} <=> l <= 3
  BY HashesAre
<1> HIDE DEF line
<1>3. line.mark \notin {"", "fence", "---", "-", "1.", ">"} /\ line # Blank /\ line.text = t
  BY <1>1, <1>2
<1>4. CASE l <= 3 /\ t # Empty
  <2>1. line.mark \in {"#", "##", "###"}
    BY <1>1, <1>2, <1>4
  <2>2. KindOf(line) = "heading"
    BY <1>3, <1>4, <2>1 DEF KindOf
  <2> QED BY <1>4, <2>2 DEF line
<1>5. CASE ~(l <= 3 /\ t # Empty)
  <2>1. line.mark \notin {"#", "##", "###"} \/ t = Empty
    BY <1>1, <1>2, <1>5
  <2>2. KindOf(line) = "paragraph"
    BY <1>3, <2>1 DEF KindOf
  <2> QED BY <1>5, <2>2 DEF line
<1> QED BY <1>4, <1>5

\* A blank line is skipped, and nothing follows the end of the file.
LEMMA SkipsBlank ==
    ASSUME NEW file, Len(file) \in Nat, NEW i \in 1 .. Len(file) + 1,
           i <= Len(file) => KindOf(file[i]) = "blank"
    PROVE  /\ i <= Len(file) => Parser(file)[i] = Parser(file)[i + 1]
           /\ i > Len(file) => Parser(file)[i] = <<>>
<1>1. i \in 1 .. Len(file) + 2
  OBVIOUS
<1>2. CASE i <= Len(file)
  <2>1. ~(i > Len(file))
    BY <1>2
  <2>2. Parser(file)[i] = Parser(file)[i + 1]
    BY <1>1, <1>2, <2>1, ParserIs, Zenon
  <2> QED BY <2>1, <2>2
<1>3. CASE i > Len(file)
  <2>1. Parser(file)[i] = <<>>
    BY <1>1, <1>3, ParserIs, Zenon
  <2>2. ~(i <= Len(file))
    BY <1>3
  <2> QED BY <2>1, <2>2
<1> QED BY <1>2, <1>3

\* A line that is a block of its own.
LEMMA ReadsLine ==
    ASSUME NEW file, Len(file) \in Nat, NEW i \in 1 .. Len(file),
           KindOf(file[i]) \in {"heading", "horizontalRule", "paragraph"}
    PROVE  Parser(file)[i] = <<BlockAt(file, i)>> \o Parser(file)[i + 1]
<1>1. NextLine(file, i) = i + 1
  BY DEF NextLine, Lists
<1>2. i \in 1 .. Len(file) + 2 /\ ~(i > Len(file)) /\ KindOf(file[i]) # "blank"
  OBVIOUS
<1> QED BY <1>1, <1>2, ParserIs, Zenon

LEMMA ReadsRun ==
    ASSUME NEW file, Len(file) \in Nat, NEW i \in 1 .. Len(file), NEW j \in i + 1 .. Len(file) + 1,
           NEW kind \in Lists \cup {"blockquote"},
           \A k \in i .. j - 1 : KindOf(file[k]) = kind,
           j <= Len(file) => KindOf(file[j]) # kind
    PROVE  Parser(file)[i] = <<Block(kind, 0, TextsOf(file, i, j))>> \o Parser(file)[j]
<1> DEFINE Ends(m) == /\ \A k \in i .. m - 1 : KindOf(file[k]) = KindOf(file[i])
                      /\ m <= Len(file) => KindOf(file[m]) # KindOf(file[i])
<1>1. KindOf(file[i]) = kind
  OBVIOUS
<1>2. j \in i .. Len(file) + 1 /\ Ends(j)
  BY <1>1
<1>3. ASSUME NEW m \in i .. Len(file) + 1, Ends(m) PROVE m = j
  <2>1. CASE m < j
    <3>1. m \in i .. j - 1 /\ m <= Len(file)
      BY <2>1
    <3> QED BY <1>1, <1>3, <3>1
  <2>2. CASE j < m
    <3>1. j \in i .. m - 1 /\ j <= Len(file)
      BY <2>2
    <3> QED BY <1>1, <1>3, <3>1
  <2> QED BY <2>1, <2>2
<1> HIDE DEF Ends
<1>4. RunEnd(file, i) = j
  BY <1>2, <1>3 DEF RunEnd, Ends
<1>5. /\ kind # "codeBlock" /\ kind # "heading" /\ kind # "horizontalRule"
      /\ kind # "paragraph" /\ kind # "blank"
  BY DEF Lists
<1>6. NextLine(file, i) = j
  BY <1>1, <1>4, <1>5 DEF NextLine
<1>7. BlockAt(file, i) = Block(kind, 0, TextsOf(file, i, j))
  BY <1>1, <1>4, <1>5 DEF BlockAt
<1>8. i \in 1 .. Len(file) + 2 /\ ~(i > Len(file)) /\ KindOf(file[i]) # "blank"
  BY <1>1, <1>5
<1> QED BY <1>6, <1>7, <1>8, ParserIs, Zenon

LEMMA ReadsCode ==
    ASSUME NEW file, Len(file) \in Nat, NEW i \in 1 .. Len(file), NEW j \in i + 1 .. Len(file),
           KindOf(file[i]) = "codeBlock", file[j].mark = "fence",
           \A k \in i + 1 .. j - 1 : file[k].mark # "fence"
    PROVE  Parser(file)[i] = <<Block("codeBlock", 0, [k \in 1 .. j - i - 1 |-> Raw(file[i + k])])>>
                               \o Parser(file)[j + 1]
<1> DEFINE Ends(m) == /\ \A k \in i + 1 .. m - 1 : file[k].mark # "fence"
                      /\ m <= Len(file) => file[m].mark = "fence"
<1>2. j \in i + 1 .. Len(file) + 1 /\ Ends(j)
  OBVIOUS
<1>3. ASSUME NEW m \in i + 1 .. Len(file) + 1, Ends(m) PROVE m = j
  <2>1. CASE m < j
    <3>1. m \in i + 1 .. j - 1 /\ m <= Len(file)
      BY <2>1
    <3> QED BY <1>3, <3>1
  <2>2. CASE j < m
    <3>1. j \in i + 1 .. m - 1
      BY <2>2
    <3> QED BY <1>3, <3>1
  <2> QED BY <2>1, <2>2
<1> HIDE DEF Ends
<1>4. FenceEnd(file, i) = j
  BY <1>2, <1>3 DEF FenceEnd, Ends
<1>5. NextLine(file, i) = j + 1
  BY <1>4 DEF NextLine, Lists
<1>6. BlockAt(file, i) = Block("codeBlock", 0, [k \in 1 .. j - i - 1 |-> Raw(file[i + k])])
  BY <1>4 DEF BlockAt
<1>7. i \in 1 .. Len(file) + 2 /\ ~(i > Len(file)) /\ KindOf(file[i]) # "blank"
  OBVIOUS
<1> QED BY <1>5, <1>6, <1>7, ParserIs, Zenon

\* Lines without a mark are paragraphs, as are lines whose mark needs a text.
LEMMA BlockOfLine ==
    ASSUME NEW file, NEW i
    PROVE  /\ KindOf(file[i]) = "paragraph" => BlockAt(file, i) = Block("paragraph", 0, <<Raw(file[i])>>)
           /\ KindOf(file[i]) = "horizontalRule" => BlockAt(file, i) = Block("horizontalRule", 0, <<>>)
           /\ \A l \in 1 .. 6 : KindOf(file[i]) = "heading" /\ file[i].mark = Hashes[l]
                => BlockAt(file, i) = Block("heading", l, <<file[i].text>>)
<1>1. KindOf(file[i]) = "paragraph" => BlockAt(file, i) = Block("paragraph", 0, <<Raw(file[i])>>)
  BY DEF BlockAt
<1>2. KindOf(file[i]) = "horizontalRule" => BlockAt(file, i) = Block("horizontalRule", 0, <<>>)
  BY DEF BlockAt
<1>3. ASSUME NEW l \in 1 .. 6, KindOf(file[i]) = "heading", file[i].mark = Hashes[l]
      PROVE  BlockAt(file, i) = Block("heading", l, <<file[i].text>>)
  <2> DEFINE level == CHOOSE m \in 1 .. 6 : KindOf(file[i]) = "heading" => Hashes[m] = file[i].mark
  <2>1. level = l
    <3>1. \A m \in 1 .. 6 : Hashes[m] = Hashes[l] => m = l
      BY HashesAre
    <3> QED BY <1>3, <3>1
  <2> HIDE DEF level
  <2>2. BlockAt(file, i) = Block("heading", level, <<file[i].text>>)
    BY <1>3 DEF BlockAt, level
  <2> QED BY <2>1, <2>2
<1> QED BY <1>1, <1>2, <1>3

\* Blocks that export and import share.
Shared(texts) == {b \in BlocksOver(texts) : Survives(b)}
TextOrLine == Texts \cup {Empty} \cup Lines

LEMMA ParagraphShared ==
    ASSUME NEW r \in TextOrLine, r # Empty
    PROVE  Block("paragraph", 0, <<r>>) \in Shared(TextOrLine)
<1> DEFINE b == Block("paragraph", 0, <<r>>)
<1>1. b.kind = "paragraph" /\ b.level = 0 /\ b.texts = <<r>>
  BY DEF Block
<1>2. b \in BlocksOver(TextOrLine)
  <2>1. <<r>> \in Seq(TextOrLine)
    OBVIOUS
  <2> QED BY <2>1 DEF BlocksOver, Block
<1>3. Survives(b)
  <2>1. Len(<<r>>) = 1 /\ <<r>> # <<Empty>>
    OBVIOUS
  <2> HIDE DEF b
  <2> QED BY <1>1, <2>1 DEF Survives, Lists
<1> QED BY <1>2, <1>3 DEF Shared

LEMMA Prepend ==
    ASSUME NEW S, NEW s \in Seq(S), NEW e \in S PROVE <<e>> \o s \in Seq(S)
OBVIOUS

LEMMA ReadsParagraph ==
    ASSUME NEW file, Len(file) \in Nat, NEW i \in 1 .. Len(file),
           KindOf(file[i]) = "paragraph", Raw(file[i]) \in TextOrLine, Raw(file[i]) # Empty,
           Parser(file)[i + 1] \in Seq(Shared(TextOrLine))
    PROVE  Parser(file)[i] \in Seq(Shared(TextOrLine))
<1>1. Parser(file)[i] = <<BlockAt(file, i)>> \o Parser(file)[i + 1]
  BY ReadsLine
<1>2. BlockAt(file, i) \in Shared(TextOrLine)
  BY BlockOfLine, ParagraphShared
<1> QED BY <1>1, <1>2, Prepend

\* Lines of a file that have no mark.
Plain(t) == Line("", t)
Unmarked(file, i, j) == \A k \in i .. j - 1 : \E t \in Texts \cup {Empty} : file[k] = Plain(t)

LEMMA ReadsPlain ==
    ASSUME NEW file, Len(file) \in Nat, NEW i \in 1 .. Len(file) + 1, NEW j \in i .. Len(file) + 1,
           Unmarked(file, i, j),
           Parser(file)[j] \in Seq(Shared(TextOrLine))
    PROVE  Parser(file)[i] \in Seq(Shared(TextOrLine))
<1> DEFINE R == Shared(TextOrLine)
           T == {d \in 0 .. j - i : Parser(file)[j - d] \in Seq(R)}
<1>1. 0 \in T
  BY DEF R
<1>2. ASSUME NEW d \in 1 .. j - i, d - 1 \in T PROVE d \in T
  <2> DEFINE k == j - d
  <2>1. k \in i .. j - 1 /\ k \in 1 .. Len(file) /\ k + 1 = j - (d - 1) /\ d \in 0 .. j - i
    OBVIOUS
  <2>2. Parser(file)[k + 1] \in Seq(R)
    BY <1>2, <2>1
  <2>3. PICK t \in Texts \cup {Empty} : file[k] = Line("", t)
    BY <2>1 DEF Unmarked, Plain
  <2>4. CASE t = Empty
    <3>1. KindOf(file[k]) = "blank"
      <4>1. KindOf(Line("", t)) = "blank"
        BY <2>4, PlainKind, Zenon
      <4> QED BY <2>3, <4>1, Zenon
    <3>2. Parser(file)[k] = Parser(file)[k + 1]
      <4> HIDE DEF k
      <4>1. k \in 1 .. Len(file) + 1 /\ k <= Len(file)
        BY <2>1
      <4> QED BY <3>1, <4>1, SkipsBlank
    <3> QED BY <2>1, <2>2, <3>2
  <2>5. CASE t # Empty
    <3>1. KindOf(file[k]) = "paragraph"
      <4>1. KindOf(Line("", t)) = "paragraph"
        BY <2>5, PlainKind, Zenon
      <4> QED BY <2>3, <4>1, Zenon
    <3>2. Raw(file[k]) = t
      <4>1. Raw(Line("", t)) = t
        BY DEF Raw, Line
      <4> QED BY <2>3, <4>1, Zenon
    <3>3. t \in TextOrLine
      BY DEF TextOrLine
    <3>4. Parser(file)[k] \in Seq(R)
      <4> HIDE DEF k
      <4> QED BY <2>1, <2>2, <2>5, <3>1, <3>2, <3>3, ReadsParagraph DEF R
    <3> QED BY <2>1, <3>4
  <2> QED BY <2>4, <2>5
<1>3. j - i \in Nat
  OBVIOUS
<1> HIDE DEF T
<1>4. \A d \in 0 .. j - i : d \in T
  BY <1>1, <1>2, <1>3, UpTo
<1>5. j - i \in T /\ j - (j - i) = i
  BY <1>3, <1>4
<1> QED BY <1>5 DEF T, R
-----------------------------------------------------------------------------
(************************* the lines of a block ****************************)

LEMMA StripIs ==
    ASSUME NEW U, NEW texts \in Seq(U)
    PROVE  /\ Strip(texts) \in Seq(U)
           /\ Strip(texts) # <<>> =>
                 Strip(texts)[1] # Empty /\ Strip(texts)[Len(Strip(texts))] # Empty
           /\ (\A k \in DOMAIN texts : texts[k] = Empty) => Strip(texts) = <<>>
           /\ texts # <<>> /\ texts[1] # Empty /\ texts[Len(texts)] # Empty => Strip(texts) = texts
<1> DEFINE inked == {k \in DOMAIN texts : texts[k] # Empty}
           first == CHOOSE k \in inked : \A l \in inked : k <= l
           last == CHOOSE k \in inked : \A l \in inked : k >= l
           s == Strip(texts)
<1>1. s = IF inked = {} THEN <<>> ELSE SubSeq(texts, first, last)
  BY DEF Strip
<1>2. DOMAIN texts = 1 .. Len(texts) /\ Len(texts) \in Nat /\ inked \in SUBSET Nat
  OBVIOUS
<1> HIDE DEF s
<1>3. texts # <<>> /\ texts[1] # Empty => 1 \in inked
  BY <1>2
<1>4. CASE inked = {}
  <2>1. s = <<>>
    BY <1>1, <1>4
  <2>2. <<>> \in Seq(U)
    OBVIOUS
  <2> QED BY <1>3, <1>4, <2>1, <2>2 DEF s
<1>5. CASE inked # {}
  <2>1. first \in inked /\ \A l \in inked : first <= l
    <3>1. \E k \in inked : \A l \in inked : k <= l
      <4> HIDE DEF inked
      <4> QED BY <1>2, <1>5, LeastNumber
    <3> HIDE DEF inked
    <3> QED BY <3>1
  <2>2. last \in inked /\ \A l \in inked : last >= l
    <3>1. \E k \in inked : \A l \in inked : l <= k
      <4>1. \A k \in inked : k <= Len(texts)
        BY <1>2
      <4> HIDE DEF inked
      <4> QED BY <1>2, <1>5, <4>1, GreatestNumber
    <3>2. \E k \in inked : \A l \in inked : k >= l
      BY <1>2, <3>1
    <3> HIDE DEF inked
    <3> QED BY <3>2
  <2> HIDE DEF first, last
  <2>3. first \in 1 .. Len(texts) /\ last \in first .. Len(texts)
    BY <1>2, <2>1, <2>2
  <2>4. texts[first] # Empty /\ texts[last] # Empty
    BY <2>1, <2>2
  <2>5. s = SubSeq(texts, first, last)
    BY <1>1, <1>5
  <2>6. /\ s \in Seq(U) /\ Len(s) = last - first + 1
        /\ \A i \in 1 .. last - first + 1 : s[i] = texts[first + i - 1]
    <3>1. \A i \in first .. last : texts[i] \in U
      BY <2>3
    <3> QED BY <2>3, <2>5, <3>1, SubSeqProperties
  <2>7. s[1] = texts[first] /\ s[Len(s)] = texts[last]
    <3>1. 1 \in 1 .. last - first + 1 /\ first + 1 - 1 = first
          /\ last - first + 1 \in 1 .. last - first + 1 /\ first + (last - first + 1) - 1 = last
      BY <2>3
    <3> HIDE DEF inked
    <3> QED BY <2>6, <3>1
  <2>8. texts # <<>> /\ texts[1] # Empty /\ texts[Len(texts)] # Empty => s = texts
    <3> SUFFICES ASSUME texts # <<>>, texts[1] # Empty, texts[Len(texts)] # Empty PROVE s = texts
      OBVIOUS
    <3>1. 1 \in inked /\ Len(texts) \in inked
      BY <1>2
    <3>2. first = 1 /\ last = Len(texts)
      BY <1>2, <2>1, <2>2, <2>3, <3>1
    <3> QED BY <2>5, <3>2, SubSeqFull
  <2>9. ~ \A k \in DOMAIN texts : texts[k] = Empty
    BY <1>5
  <2> QED BY <2>4, <2>6, <2>7, <2>8, <2>9 DEF s
<1> QED BY <1>4, <1>5

\* The lines of the first n items of a list.
ItemsOf(U, mark, items, n, lines) ==
    /\ lines \in Seq({Line(mark, t) : t \in U \ {Empty}})
    /\ (\A k \in 1 .. n : items[k] # Empty) =>
          Len(lines) = n /\ \A k \in 1 .. n : lines[k] = Line(mark, items[k])

LEMMA ItemStep ==
    ASSUME NEW U, NEW mark, NEW items \in Seq(U), NEW n \in 1 .. Len(items),
           NEW lines, ItemsOf(U, mark, items, n - 1, lines)
    PROVE  ItemsOf(U, mark, items, n, IF items[n] = Empty THEN lines
                                      ELSE Append(lines, Line(mark, items[n])))
<1> DEFINE S == {Line(mark, t) : t \in U \ {Empty}}
<1>1. n \in 1 .. n /\ \A k \in 1 .. n : k = n \/ k \in 1 .. n - 1
  OBVIOUS
<1>2. CASE items[n] = Empty
  <2>1. ~ \A k \in 1 .. n : items[k] # Empty
    BY <1>1, <1>2
  <2> QED BY <1>2, <2>1 DEF ItemsOf
<1>3. CASE items[n] # Empty
  <2> DEFINE l == Line(mark, items[n])
             longer == Append(lines, l)
  <2>1. items[n] \in U \ {Empty}
    BY <1>3, ElementOfSeq
  <2>2. l \in S /\ lines \in Seq(S)
    BY <2>1 DEF ItemsOf
  <2> HIDE DEF S, l
  <2>3. /\ longer \in Seq(S) /\ Len(longer) = Len(lines) + 1 /\ longer[Len(lines) + 1] = l
        /\ \A k \in 1 .. Len(lines) : longer[k] = lines[k]
    BY <2>2, AppendProperties
  <2> HIDE DEF longer
  <2>4. ASSUME \A k \in 1 .. n : items[k] # Empty
        PROVE  Len(longer) = n /\ \A k \in 1 .. n : longer[k] = Line(mark, items[k])
    <3>1. Len(lines) = n - 1 /\ \A k \in 1 .. n - 1 : lines[k] = Line(mark, items[k])
      <4>1. \A k \in 1 .. n - 1 : items[k] # Empty
        BY <2>4
      <4> QED BY <4>1 DEF ItemsOf
    <3>2. Len(longer) = n /\ longer[n] = l /\ \A k \in 1 .. n - 1 : longer[k] = lines[k]
      BY <2>3, <3>1
    <3> QED BY <1>1, <3>1, <3>2, Zenon DEF l
  <2>5. ItemsOf(U, mark, items, n, longer)
    BY <2>3, <2>4, Zenon DEF ItemsOf, S
  <2> QED BY <1>3, <2>5, Zenon DEF longer, l
<1> QED BY <1>2, <1>3

LEMMA ItemLinesIs ==
    ASSUME NEW U, NEW mark, NEW items \in Seq(U)
    PROVE  ItemsOf(U, mark, items, Len(items), ItemLines(mark, items))
<1> DEFINE n == Len(items)
           S == Seq({Line(mark, t) : t \in U \ {Empty}})
           Add(x, i) == IF items[i] = Empty THEN x ELSE Append(x, Line(mark, items[i]))
           step == [i \in 1 .. n |-> [x \in S |-> Add(x, i)]]
           Eq(f) == f = [i \in 0 .. n |-> IF i = 0 THEN <<>> ELSE Add(f[i - 1], i)]
           F == CHOOSE f : Eq(f)
<1>1. ItemLines(mark, items) = F[n]
  BY DEF ItemLines
<1>2. n \in Nat /\ \A i \in 1 .. n : items[i] \in U
  BY ElementOfSeq
<1>3. step \in [1 .. n -> [S -> S]]
  <2>1. ASSUME NEW i \in 1 .. n, NEW x \in S PROVE Add(x, i) \in S
    <3>1. CASE items[i] = Empty
      BY <3>1
    <3>2. CASE items[i] # Empty
      <4>1. Line(mark, items[i]) \in {Line(mark, t) : t \in U \ {Empty}}
        BY <1>2, <3>2
      <4>2. Append(x, Line(mark, items[i])) \in S
        BY <4>1, AppendProperties, Zenon
      <4> QED BY <3>2, <4>2
    <3> QED BY <3>1, <3>2
  <2> HIDE DEF Add, S, n
  <2> QED BY <2>1
<1> HIDE DEF n, Add
<1>4. \E f : Eq(f)
  <2>1. <<>> \in S
    BY EmptySeq
  <2> HIDE DEF S
  <2>2. PICK f \in [0 .. n -> S] : Iterates(f, n, <<>>, step)
    <3> HIDE DEF step
    <3> QED BY <1>2, <1>3, <2>1, Iteration
  <2>3. \A i \in 0 .. n : i # 0 => step[i][f[i - 1]] = Add(f[i - 1], i)
    <3>1. \A i \in 0 .. n : i # 0 => i \in 1 .. n /\ f[i - 1] \in S
      BY <1>2
    <3> QED BY <3>1, Zenon
  <2>4. f = [i \in 0 .. n |-> IF i = 0 THEN <<>> ELSE step[i][f[i - 1]]]
    BY <2>2, Zenon DEF Iterates
  <2> HIDE DEF step
  <2> QED BY <2>3, <2>4, Zenon
<1>5. Eq(F)
  BY <1>4
<1> HIDE DEF F
<1>6. F[0] = <<>> /\ \A i \in 1 .. n : F[i] = Add(F[i - 1], i)
  <2>1. 0 \in 0 .. n /\ \A i \in 1 .. n : i \in 0 .. n /\ i # 0
    BY <1>2
  <2> QED BY <1>5, <2>1, Zenon
<1> DEFINE T == {i \in 0 .. n : ItemsOf(U, mark, items, i, F[i])}
<1>7. 0 \in T
  <2>1. <<>> \in S /\ Len(<<>>) = 0
    BY EmptySeq
  <2>2. ItemsOf(U, mark, items, 0, <<>>)
    BY <2>1 DEF ItemsOf
  <2> QED BY <1>2, <1>6, <2>2
<1>8. ASSUME NEW i \in 1 .. n, i - 1 \in T PROVE i \in T
  <2>1. ItemsOf(U, mark, items, i, F[i])
    BY <1>6, <1>8, ItemStep, Zenon DEF n, Add
  <2>2. i \in 0 .. n
    BY <1>2
  <2> QED BY <2>1, <2>2
<1>9. n \in T
  <2>1. \A i \in 0 .. n : i \in T
    <3> HIDE DEF T
    <3> QED BY <1>2, <1>7, <1>8, UpTo
  <2>2. n \in 0 .. n
    BY <1>2
  <2> QED BY <2>1, <2>2
<1> QED BY <1>1, <1>9 DEF n

\* The shapes of the blocks.
LEMMA BlocksAre ==
    ASSUME NEW U, NEW b \in BlocksOver(U)
    PROVE  /\ b = Block(b.kind, b.level, b.texts)
           /\ \/ b.kind = "heading" /\ b.level \in 1 .. 6 /\ \E t \in U : b.texts = <<t>>
              \/ b.kind = "horizontalRule" /\ b.level = 0 /\ b.texts = <<>>
              \/ b.kind = "mathBlock" /\ b.level = 0 /\ \E t \in U \ {Empty} : b.texts = <<t>>
              \/ /\ b.kind \in Lists \cup {"paragraph", "blockquote", "codeBlock"}
                 /\ b.level = 0 /\ b.texts \in Seq(U)
BY DEF BlocksOver, Block

LEMMA RenderIs ==
    ASSUME NEW b
    PROVE  LET texts == Strip(b.texts) IN
           /\ b.kind = "heading" => RenderBlock(b) =
                 <<Line(Hashes[b.level], IF texts = <<>> THEN Empty ELSE texts[1])>>
           /\ b.kind = "paragraph" => RenderBlock(b) = PlainLines(texts)
           /\ b.kind = "bulletList" => RenderBlock(b) = ItemLines("-", b.texts)
           /\ b.kind = "orderedList" => RenderBlock(b) = ItemLines("1.", b.texts)
           /\ b.kind = "blockquote" => RenderBlock(b) =
                 IF texts = <<>> THEN <<>> ELSE <<Line(">", texts[1])>> \o PlainLines(Tail(texts))
           /\ b.kind = "codeBlock" => RenderBlock(b) =
                 <<Line("fence", Empty)>> \o (IF texts = <<>> THEN <<Blank>> ELSE PlainLines(texts))
                    \o <<Line("fence", Empty)>>
           /\ b.kind = "horizontalRule" => RenderBlock(b) = <<Line("---", Empty)>>
           /\ b.kind = "mathBlock" => RenderBlock(b) =
                 IF texts = <<>> THEN <<>> ELSE <<Line("", texts[1])>>
BY DEF RenderBlock

LEMMA PlainLinesIs ==
    ASSUME NEW U, NEW texts \in Seq(U)
    PROVE  /\ PlainLines(texts) \in Seq({Line("", t) : t \in U})
           /\ Len(PlainLines(texts)) = Len(texts)
           /\ \A k \in 1 .. Len(texts) : PlainLines(texts)[k] = Line("", texts[k])
<1>1. DOMAIN texts = 1 .. Len(texts) /\ Len(texts) \in Nat /\ \A k \in 1 .. Len(texts) : texts[k] \in U
  OBVIOUS
<1>2. PlainLines(texts) = [k \in 1 .. Len(texts) |-> Line("", texts[k])]
  BY <1>1, Zenon DEF PlainLines
<1> DEFINE S == {Line("", t) : t \in U}
           n == Len(texts)
           f == PlainLines(texts)
<1>3. /\ \A k \in 1 .. n : Line("", texts[k]) \in S
      /\ \A k \in 1 .. n : f[k] = Line("", texts[k])
      /\ f = [k \in 1 .. n |-> f[k]]
  BY <1>1, <1>2, Zenon
<1> HIDE DEF S, f, n
<1>4. \A k \in 1 .. n : f[k] \in S
  BY <1>3, Zenon
<1>5. f \in Seq(S) /\ Len(f) = n
  <2>1. n \in Nat
    BY <1>1 DEF n
  <2>2. f \in [1 .. n -> S] /\ DOMAIN f = 1 .. n
    BY <1>3, <1>4, Zenon
  <2>3. f \in Seq(S)
    BY <2>1, <2>2, SeqDef
  <2>4. DOMAIN f = 1 .. Len(f) /\ Len(f) \in Nat
    BY <2>3, LenProperties
  <2> QED BY <2>1, <2>2, <2>3, <2>4
<1> QED BY <1>3, <1>5, Zenon DEF S, f, n
-----------------------------------------------------------------------------
(************************* the parser, block by block **********************)

\* Where lines sit in a file, and where they stand there with a blank line or
\* the end of the file behind them.
Sits(file, s, ls) ==
    /\ s \in Nat \ {0} /\ Len(ls) \in Nat /\ Len(file) \in Nat
    /\ s + Len(ls) <= Len(file) + 1
    /\ \A k \in 1 .. Len(ls) : file[s + k - 1] = ls[k]

Stands(file, s, ls) ==
    /\ Sits(file, s, ls)
    /\ s + Len(ls) <= Len(file) => file[s + Len(ls)] = Blank

LEMMA SitsConcat ==
    ASSUME NEW S, NEW a \in Seq(S), NEW b \in Seq(S), NEW file, NEW s, Sits(file, s, a \o b)
    PROVE  /\ Len(a \o b) = Len(a) + Len(b) /\ Len(a) \in Nat /\ Len(b) \in Nat
           /\ Sits(file, s, a) /\ Sits(file, s + Len(a), b)
<1> DEFINE c == a \o b
           m == Len(a)
           n == Len(b)
<1>1. /\ m \in Nat /\ n \in Nat /\ Len(c) = m + n
      /\ \A k \in 1 .. m + n : c[k] = IF k <= m THEN a[k] ELSE b[k - m]
  BY ConcatProperties, LenProperties
<1>2. /\ s \in Nat \ {0} /\ Len(c) \in Nat /\ Len(file) \in Nat
      /\ s + Len(c) <= Len(file) + 1
      /\ \A k \in 1 .. Len(c) : file[s + k - 1] = c[k]
  BY DEF Sits
<1> HIDE DEF c, m, n
<1>3. ASSUME NEW k \in 1 .. m PROVE file[s + k - 1] = a[k]
  <2>1. k \in 1 .. m + n /\ k <= m
    BY <1>1
  <2> QED BY <1>1, <1>2, <2>1
<1>4. ASSUME NEW k \in 1 .. n PROVE file[s + m + k - 1] = b[k]
  <2>1. m + k \in 1 .. m + n /\ ~(m + k <= m) /\ m + k - m = k /\ s + (m + k) - 1 = s + m + k - 1
    BY <1>1, <1>2
  <2>2. c[m + k] = b[k] /\ file[s + (m + k) - 1] = c[m + k]
    BY <1>1, <1>2, <2>1
  <2> QED BY <2>1, <2>2
<1>5. s + m <= Len(file) + 1 /\ s + m + n <= Len(file) + 1 /\ s + m \in Nat \ {0}
  BY <1>1, <1>2
<1>6. Sits(file, s, a)
  BY <1>1, <1>2, <1>3, <1>5 DEF Sits, m
<1>7. Sits(file, s + m, b)
  BY <1>1, <1>2, <1>4, <1>5, Zenon DEF Sits, n
<1> QED BY <1>1, <1>6, <1>7 DEF c, m, n

LEMMA SitsOne ==
    ASSUME NEW file, NEW s, NEW line, Sits(file, s, <<line>>)
    PROVE  s \in 1 .. Len(file) /\ Len(file) \in Nat /\ file[s] = line
<1>1. Len(<<line>>) = 1 /\ <<line>>[1] = line /\ 1 \in 1 .. 1
  OBVIOUS
<1> DEFINE ls == <<line>>
<1> HIDE DEF ls
<1>2. s \in Nat \ {0} /\ Len(file) \in Nat /\ s + 1 <= Len(file) + 1 /\ file[s + 1 - 1] = ls[1]
  BY <1>1 DEF Sits, ls
<1>3. s + 1 - 1 = s
  BY <1>2
<1> QED BY <1>1, <1>2, <1>3 DEF ls

LEMMA StandsAt ==
    ASSUME NEW file, NEW s, NEW ls, Stands(file, s, ls)
    PROVE  /\ Len(file) \in Nat /\ Len(ls) \in Nat
           /\ s \in 1 .. Len(file) + 1 /\ s + Len(ls) \in s .. Len(file) + 1
           /\ \A i \in s .. s + Len(ls) - 1 :
                 i \in 1 .. Len(file) /\ i - s + 1 \in 1 .. Len(ls) /\ file[i] = ls[i - s + 1]
           /\ s + Len(ls) <= Len(file) => KindOf(file[s + Len(ls)]) = "blank"
<1> DEFINE n == Len(ls)
           m == Len(file)
<1>1. n \in Nat /\ m \in Nat /\ s \in Nat \ {0} /\ s + n <= m + 1
  BY DEF Stands, Sits
<1>2. \A k \in 1 .. n : file[s + k - 1] = ls[k]
  BY DEF Stands, Sits
<1>3. s + n <= m => KindOf(file[s + n]) = "blank"
  <2>1. KindOf(Blank) = "blank"
    BY PlainKind DEF Blank
  <2> QED BY <2>1 DEF Stands
<1> HIDE DEF n, m
<1>4. ASSUME NEW i \in s .. s + n - 1
      PROVE  i \in 1 .. m /\ i - s + 1 \in 1 .. n /\ file[i] = ls[i - s + 1]
  <2>1. i \in 1 .. m /\ i - s + 1 \in 1 .. n /\ s + (i - s + 1) - 1 = i
    BY <1>1
  <2> QED BY <1>2, <2>1
<1>5. s \in 1 .. m + 1 /\ s + n \in s .. m + 1
  BY <1>1
<1> QED BY <1>1, <1>3, <1>4, <1>5 DEF n, m

\* A block of one line.
LEMMA ReadsOne ==
    ASSUME NEW file, NEW s, NEW line, Stands(file, s, <<line>>),
           KindOf(line) \in {"heading", "horizontalRule", "paragraph"}
    PROVE  /\ file[s] = line /\ s \in 1 .. Len(file) /\ Len(file) \in Nat
           /\ Parser(file)[s] = <<BlockAt(file, s)>> \o Parser(file)[s + 1]
<1>1. file[s] = line /\ s \in 1 .. Len(file) /\ Len(file) \in Nat
  BY SitsOne DEF Stands
<1> QED BY <1>1, ReadsLine

LEMMA ReadsList ==
    ASSUME NEW file, NEW s, NEW ls, Stands(file, s, ls), ls # <<>>,
           NEW U, NEW kind \in Lists,
           ls \in Seq({Line(IF kind = "bulletList" THEN "-" ELSE "1.", t) : t \in U \ {Empty}})
    PROVE  Parser(file)[s] = <<Block(kind, 0, [k \in 1 .. Len(ls) |-> ls[k].text])>>
                               \o Parser(file)[s + Len(ls)]
<1> DEFINE n == Len(ls)
           e == s + n
           S == {Line(IF kind = "bulletList" THEN "-" ELSE "1.", t) : t \in U \ {Empty}}
<1>1. /\ Len(file) \in Nat /\ n \in Nat /\ s \in 1 .. Len(file) + 1 /\ e \in s .. Len(file) + 1
      /\ \A i \in s .. e - 1 : i \in 1 .. Len(file) /\ i - s + 1 \in 1 .. n /\ file[i] = ls[i - s + 1]
      /\ e <= Len(file) => KindOf(file[e]) = "blank"
  BY StandsAt
<1>2. n # 0
  BY EmptySeq
<1>3. \A l \in S : KindOf(l) = kind
  <2> SUFFICES ASSUME NEW t \in U \ {Empty}
               PROVE  KindOf(Line(IF kind = "bulletList" THEN "-" ELSE "1.", t)) = kind
    OBVIOUS
  <2>1. CASE kind = "bulletList"
    <3>1. KindOf(Line("-", t)) = "bulletList"
      BY ItemKind
    <3> QED BY <2>1, <3>1
  <2>2. CASE kind = "orderedList"
    <3>1. KindOf(Line("1.", t)) = "orderedList"
      BY ItemKind
    <3>2. kind # "bulletList"
      BY <2>2
    <3> QED BY <2>2, <3>1, <3>2, Zenon
  <2> QED BY <2>1, <2>2 DEF Lists
<1>4. \A i \in 1 .. n : ls[i] \in S
  BY ElementOfSeq
<1> HIDE DEF S, n, e
<1>5. \A i \in s .. e - 1 : KindOf(file[i]) = kind
  BY <1>1, <1>3, <1>4
<1>6. kind \in Lists \cup {"blockquote"} /\ kind # "blank"
  BY DEF Lists
<1>7. s \in 1 .. Len(file) /\ e \in s + 1 .. Len(file) + 1
  BY <1>1, <1>2 DEF e
<1>8. Parser(file)[s] = <<Block(kind, 0, TextsOf(file, s, e))>> \o Parser(file)[e]
  <2>1. e <= Len(file) => KindOf(file[e]) # kind
    BY <1>1, <1>6
  <2> QED BY <1>1, <1>5, <1>6, <1>7, <2>1, ReadsRun
<1>9. TextsOf(file, s, e) = [k \in 1 .. n |-> ls[k].text]
  <2>1. e - s = n
    BY <1>1 DEF e
  <2>2. \A k \in 1 .. n : file[s + k - 1] = ls[k]
    BY DEF Stands, Sits, n
  <2> QED BY <2>1, <2>2, Zenon DEF TextsOf
<1> QED BY <1>8, <1>9 DEF e, n

\* Lines without a mark, as they sit in a file.
LEMMA PlainIs ==
    ASSUME NEW t
    PROVE  /\ t = Empty => KindOf(Plain(t)) = "blank"
           /\ t # Empty => KindOf(Plain(t)) = "paragraph"
           /\ Plain(t).mark # "fence" /\ Raw(Plain(t)) = t
<1>1. Plain(t).mark # "fence" /\ Raw(Plain(t)) = t
  BY DEF Plain, Line, Raw
<1> QED BY <1>1, PlainKind DEF Plain

LEMMA Single == ASSUME NEW S, NEW e \in S PROVE <<e>> \in Seq(S) /\ Len(<<e>>) = 1
OBVIOUS

LEMMA SitsPlain ==
    ASSUME NEW U, NEW ts \in Seq(U), NEW file, NEW s, Sits(file, s, PlainLines(ts))
    PROVE  /\ Len(PlainLines(ts)) = Len(ts) /\ Len(ts) \in Nat
           /\ s \in Nat \ {0} /\ Len(file) \in Nat /\ s + Len(ts) <= Len(file) + 1
           /\ \A k \in 1 .. Len(ts) : file[s + k - 1] = Plain(ts[k])
           /\ \A i \in s .. s + Len(ts) - 1 : \E t \in U : file[i] = Plain(t)
<1> DEFINE n == Len(ts)
<1>1. Len(PlainLines(ts)) = n /\ \A k \in 1 .. n : PlainLines(ts)[k] = Plain(ts[k])
  BY PlainLinesIs DEF Plain
<1>2. n \in Nat /\ \A k \in 1 .. n : ts[k] \in U
  BY ElementOfSeq, LenProperties
<1> HIDE DEF n
<1>3. /\ s \in Nat \ {0} /\ Len(file) \in Nat /\ s + n <= Len(file) + 1
      /\ \A k \in 1 .. n : file[s + k - 1] = Plain(ts[k])
  BY <1>1 DEF Sits
<1>4. ASSUME NEW i \in s .. s + n - 1 PROVE \E t \in U : file[i] = Plain(t)
  <2>1. i - s + 1 \in 1 .. n /\ s + (i - s + 1) - 1 = i
    BY <1>2, <1>3
  <2> QED BY <1>2, <1>3, <2>1
<1> QED BY <1>1, <1>2, <1>3, <1>4 DEF n

\* The first line of a quote is a quote, the others are not.
QuoteLines(t, more) == <<Line(">", t)>> \o PlainLines(more)

QuoteRead(file, s, t, U, more) ==
    /\ Len(QuoteLines(t, more)) = 1 + Len(more) /\ Len(more) \in Nat
    /\ s \in 1 .. Len(file) /\ Len(file) \in Nat
    /\ s + 1 + Len(more) <= Len(file) + 1
    /\ Parser(file)[s] = <<Block("blockquote", 0, <<t>>)>> \o Parser(file)[s + 1]
    /\ \A i \in s + 1 .. s + 1 + Len(more) - 1 : \E u \in U : file[i] = Plain(u)

LEMMA ReadsQuote ==
    ASSUME NEW file, NEW s, NEW t, NEW U, NEW more \in Seq(U),
           Stands(file, s, QuoteLines(t, more))
    PROVE  QuoteRead(file, s, t, U, more)
<1> DEFINE q == Line(">", t)
           plain == PlainLines(more)
           S == {q} \cup {Plain(u) : u \in U}
<1>1. <<q>> \in Seq(S) /\ plain \in Seq(S) /\ Len(<<q>>) = 1
  <2>1. plain \in Seq({Plain(u) : u \in U})
    BY PlainLinesIs DEF Plain
  <2>2. {Plain(u) : u \in U} \subseteq S /\ q \in S
    OBVIOUS
  <2> HIDE DEF q, S, plain
  <2>3. plain \in Seq(S)
    BY <2>1, <2>2, SeqMonotonic
  <2>4. <<q>> \in Seq(S) /\ Len(<<q>>) = 1
    BY <2>2, Single
  <2> QED BY <2>3, <2>4
<1>2. Sits(file, s, <<q>> \o plain)
  BY DEF Stands, QuoteLines
<1>3. s + Len(<<q>> \o plain) <= Len(file) => file[s + Len(<<q>> \o plain)] = Blank
  BY DEF Stands, QuoteLines
<1>4. KindOf(q) = "blockquote" /\ q.text = t
  <2>1. KindOf(q) = "blockquote"
    BY OtherKind
  <2>2. q.text = t
    BY DEF Line
  <2> QED BY <2>1, <2>2
<1> HIDE DEF q, S, plain
<1>5. /\ Len(<<q>> \o plain) = 1 + Len(plain)
      /\ Sits(file, s, <<q>>) /\ Sits(file, s + 1, plain)
  BY <1>1, <1>2, SitsConcat, Zenon
<1>6. s \in 1 .. Len(file) /\ Len(file) \in Nat /\ file[s] = q
  BY <1>5, SitsOne
<1>7. /\ Len(plain) = Len(more) /\ Len(more) \in Nat /\ s + 1 + Len(more) <= Len(file) + 1
      /\ \A i \in s + 1 .. s + 1 + Len(more) - 1 : \E u \in U : file[i] = Plain(u)
  BY <1>5, SitsPlain DEF plain
<1>8. s + 1 <= Len(file) => KindOf(file[s + 1]) # "blockquote"
  <2>1. CASE Len(more) = 0
    <3>1. s + Len(<<q>> \o plain) = s + 1
      BY <1>5, <1>7, <2>1
    <3>2. KindOf(Blank) # "blockquote"
      BY PlainKind DEF Blank
    <3> QED BY <1>3, <3>1, <3>2
  <2>2. CASE Len(more) # 0
    <3>1. s + 1 \in s + 1 .. s + 1 + Len(more) - 1
      <4>1. Len(more) \in Nat /\ s \in Nat
        BY <1>6, <1>7
      <4> QED BY <2>2, <4>1
    <3>2. PICK u \in U : file[s + 1] = Plain(u)
      BY <1>7, <3>1
    <3>3. KindOf(Plain(u)) \in {"blank", "paragraph"}
      BY PlainIs
    <3> QED BY <3>2, <3>3
  <2> QED BY <2>1, <2>2
<1>9. Parser(file)[s] = <<Block("blockquote", 0, TextsOf(file, s, s + 1))>> \o Parser(file)[s + 1]
  <2>1. s + 1 \in s + 1 .. Len(file) + 1 /\ \A k \in s .. (s + 1) - 1 : k = s
    BY <1>6
  <2>2. \A k \in s .. (s + 1) - 1 : KindOf(file[k]) = "blockquote"
    BY <1>4, <1>6, <2>1
  <2> QED BY <1>6, <1>8, <2>1, <2>2, ReadsRun
<1>10. TextsOf(file, s, s + 1) = <<t>>
  <2>1. (s + 1) - s = 1 /\ s + 1 - 1 = s
    BY <1>6
  <2>2. \A k \in 1 .. 1 : file[s + k - 1].text = t
    BY <1>4, <1>6
  <2>3. TextsOf(file, s, s + 1) = [k \in 1 .. 1 |-> t]
    BY <2>1, <2>2, Zenon DEF TextsOf
  <2>4. [k \in 1 .. 1 |-> t] = <<t>>
    OBVIOUS
  <2> QED BY <2>3, <2>4
<1>11. Len(QuoteLines(t, more)) = 1 + Len(more)
  BY <1>5, <1>7 DEF QuoteLines, q, plain
<1> QED BY <1>6, <1>7, <1>9, <1>10, <1>11 DEF QuoteRead

\* A code block between its fences.
Fence == Line("fence", Empty)
CodeLines(ts) == <<Fence>> \o PlainLines(ts) \o <<Fence>>

LEMMA ReadsFenced ==
    ASSUME NEW file, NEW s, NEW U, NEW ts \in Seq(U), Stands(file, s, CodeLines(ts))
    PROVE  Parser(file)[s] = <<Block("codeBlock", 0, ts)>> \o Parser(file)[s + Len(CodeLines(ts))]
<1> DEFINE plain == PlainLines(ts)
           n == Len(ts)
           S == {Fence} \cup {Plain(u) : u \in U}
<1>1. <<Fence>> \in Seq(S) /\ plain \in Seq(S) /\ Len(<<Fence>>) = 1
  <2>1. plain \in Seq({Plain(u) : u \in U})
    BY PlainLinesIs DEF Plain
  <2>2. {Plain(u) : u \in U} \subseteq S /\ Fence \in S
    OBVIOUS
  <2> HIDE DEF S, plain
  <2>3. plain \in Seq(S)
    BY <2>1, <2>2, SeqMonotonic
  <2>4. <<Fence>> \in Seq(S) /\ Len(<<Fence>>) = 1
    BY <2>2, Single
  <2> QED BY <2>3, <2>4
<1>2. Sits(file, s, (<<Fence>> \o plain) \o <<Fence>>)
  BY DEF Stands, CodeLines
<1>3. KindOf(Fence) = "codeBlock" /\ Fence.mark = "fence" /\ \A t : Plain(t).mark # "fence" /\ Raw(Plain(t)) = t
  <2>1. KindOf(Fence) = "codeBlock"
    BY OtherKind DEF Fence
  <2>2. Fence.mark = "fence"
    BY DEF Fence, Line
  <2> QED BY <2>1, <2>2, PlainIs
<1> HIDE DEF S, plain
<1>4. /\ <<Fence>> \o plain \in Seq(S) /\ Len(<<Fence>> \o plain) = 1 + Len(plain)
  BY <1>1, ConcatProperties
<1>5. /\ Len((<<Fence>> \o plain) \o <<Fence>>) = Len(<<Fence>> \o plain) + 1
      /\ Sits(file, s, <<Fence>> \o plain)
      /\ Sits(file, s + Len(<<Fence>> \o plain), <<Fence>>)
  BY <1>1, <1>2, <1>4, SitsConcat, Zenon
<1>6. Sits(file, s, <<Fence>>) /\ Sits(file, s + 1, plain)
  BY <1>1, <1>5, SitsConcat, Zenon
<1>7. s \in 1 .. Len(file) /\ Len(file) \in Nat /\ file[s] = Fence
  BY <1>6, SitsOne
<1>8. /\ Len(plain) = n /\ n \in Nat
      /\ \A k \in 1 .. n : file[s + 1 + k - 1] = Plain(ts[k])
      /\ \A i \in s + 1 .. s + 1 + n - 1 : \E t \in U : file[i] = Plain(t)
  BY <1>6, SitsPlain DEF plain
<1> DEFINE j == s + (1 + n)
<1>9. j \in 1 .. Len(file) /\ file[j] = Fence
  <2>1. Sits(file, s + (1 + n), <<Fence>>)
    BY <1>4, <1>5, <1>8
  <2> QED BY <2>1, SitsOne
<1>10. j \in s + 1 .. Len(file) /\ j - s - 1 = n /\ s + 1 + n - 1 = j - 1
  <2>1. s \in Nat /\ n \in Nat
    BY <1>7, <1>8
  <2> QED BY <1>9, <2>1
<1> HIDE DEF j, n
<1>11. \A k \in s + 1 .. j - 1 : file[k].mark # "fence"
  BY <1>3, <1>8, <1>10
<1>12. Parser(file)[s] = <<Block("codeBlock", 0, [k \in 1 .. j - s - 1 |-> Raw(file[s + k])])>>
                           \o Parser(file)[j + 1]
  BY <1>3, <1>7, <1>9, <1>10, <1>11, ReadsCode
<1>13. [k \in 1 .. j - s - 1 |-> Raw(file[s + k])] = ts
  <2>1. \A k \in 1 .. n : s + 1 + k - 1 = s + k
    BY <1>7, <1>8
  <2>2. \A k \in 1 .. n : Raw(file[s + k]) = ts[k]
    BY <1>3, <1>8, <2>1
  <2>3. ts = [k \in 1 .. n |-> ts[k]]
    BY DEF n
  <2> QED BY <1>10, <2>2, <2>3, Zenon
<1>14. s + Len(CodeLines(ts)) = j + 1
  <2>1. Len(CodeLines(ts)) = (1 + n) + 1
    BY <1>4, <1>5, <1>8 DEF CodeLines, plain
  <2>2. s \in Nat /\ n \in Nat
    BY <1>7, <1>8
  <2> QED BY <2>1, <2>2 DEF j
<1> QED BY <1>12, <1>13, <1>14
-----------------------------------------------------------------------------
(************************ what is read of a block **************************)

LEMMA PlainOne == ASSUME NEW t PROVE PlainLines(<<t>>) = <<Plain(t)>>
<1> DEFINE one == <<t>>
           f == PlainLines(one)
           S == {Plain(u) : u \in {t}}
<1>1. one \in Seq({t}) /\ Len(one) = 1 /\ one[1] = t /\ 1 \in 1 .. 1
  OBVIOUS
<1> HIDE DEF one
<1>2. f \in Seq(S) /\ Len(f) = Len(one) /\ \A k \in 1 .. Len(one) : f[k] = Plain(one[k])
  BY <1>1, PlainLinesIs, Zenon DEF Plain
<1> HIDE DEF f, S
<1>3. f = <<Plain(t)>>
  BY <1>1, <1>2
<1> QED BY <1>3 DEF f, one

LEMMA QuoteNotEmpty ==
    ASSUME NEW t, NEW U, NEW more \in Seq(U)
    PROVE  QuoteLines(t, more) # <<>>
<1> DEFINE q == Line(">", t)
           S == {q} \cup {Plain(u) : u \in U}
<1>1. <<q>> \in Seq(S)
  BY Single
<1>2. PlainLines(more) \in Seq(S)
  <2>1. PlainLines(more) \in Seq({Plain(u) : u \in U}) /\ {Plain(u) : u \in U} \subseteq S
    BY PlainLinesIs DEF Plain
  <2> HIDE DEF S
  <2> QED BY <2>1, SeqMonotonic
<1> HIDE DEF q, S
<1>3. Len(<<q>> \o PlainLines(more)) = 1 + Len(PlainLines(more)) /\ Len(PlainLines(more)) \in Nat
  BY <1>1, <1>2
<1>4. <<q>> \o PlainLines(more) # <<>>
  BY <1>3, EmptySeq
<1> QED BY <1>4 DEF QuoteLines, q

LEMMA CodeNotEmpty ==
    ASSUME NEW U, NEW ts \in Seq(U)
    PROVE  CodeLines(ts) # <<>>
<1> DEFINE S == {Fence} \cup {Plain(u) : u \in U}
<1>1. <<Fence>> \in Seq(S)
  BY Single
<1>2. PlainLines(ts) \in Seq(S)
  <2>1. PlainLines(ts) \in Seq({Plain(u) : u \in U}) /\ {Plain(u) : u \in U} \subseteq S
    BY PlainLinesIs DEF Plain
  <2> HIDE DEF S
  <2> QED BY <2>1, SeqMonotonic
<1> HIDE DEF S
<1>3. <<Fence>> \o PlainLines(ts) \in Seq(S)
  BY <1>1, <1>2, ConcatProperties
<1> DEFINE a == <<Fence>> \o PlainLines(ts)
<1> HIDE DEF a
<1>4. a \in Seq(S)
  BY <1>3 DEF a
<1>5. Len(a \o <<Fence>>) = Len(a) + 1 /\ Len(a) \in Nat
  BY <1>1, <1>4
<1>6. a \o <<Fence>> # <<>>
  BY <1>5, EmptySeq
<1> QED BY <1>6 DEF CodeLines, a

LEMMA StripOne ==
    ASSUME NEW t
    PROVE  Strip(<<t>>) = IF t = Empty THEN <<>> ELSE <<t>>
<1> DEFINE ts == <<t>>
<1>1. /\ ts \in Seq({t}) /\ ts # <<>> /\ Len(ts) = 1 /\ ts[1] = t /\ DOMAIN ts = {1}
      /\ ts[Len(ts)] = t
  OBVIOUS
<1> HIDE DEF ts
<1>2. t = Empty => Strip(ts) = <<>>
  BY <1>1, StripIs
<1>3. t # Empty => Strip(ts) = ts
  BY <1>1, StripIs
<1> QED BY <1>2, <1>3 DEF ts

LEMMA HeadingLine ==
    ASSUME NEW b, b.kind = "heading", NEW t, b.texts = <<t>>
    PROVE  RenderBlock(b) = <<Line(Hashes[b.level], t)>>
<1>1. (IF Strip(<<t>>) = <<>> THEN Empty ELSE Strip(<<t>>)[1]) = t
  <2>1. <<t>> # <<>> /\ <<t>>[1] = t
    OBVIOUS
  <2> QED BY <2>1, StripOne
<1> QED BY <1>1, RenderIs

\* A heading comes back when the parser reads its level and it has a text.
LEMMA HeadingRead ==
    ASSUME NEW b, b.kind = "heading", b.level \in 1 .. 6, NEW t, b.texts = <<t>>,
           NEW file, NEW s, Stands(file, s, RenderBlock(b))
    PROVE  /\ Len(RenderBlock(b)) = 1 /\ s \in 1 .. Len(file) /\ Len(file) \in Nat
           /\ file[s] = Line(Hashes[b.level], t)
           /\ KindOf(file[s]) = IF b.level <= 3 /\ t # Empty THEN "heading" ELSE "paragraph"
           /\ b.level <= 3 /\ t # Empty =>
                 Parser(file)[s] = <<Block("heading", b.level, <<t>>)>> \o Parser(file)[s + 1]
<1> DEFINE line == Line(Hashes[b.level], t)
<1>1. RenderBlock(b) = <<line>>
  BY HeadingLine
<1>2. line.mark = Hashes[b.level] /\ line.text = t
  BY DEF Line
<1>3. KindOf(line) = IF b.level <= 3 /\ t # Empty THEN "heading" ELSE "paragraph"
  BY HeadingKind
<1> HIDE DEF line
<1>4. Len(<<line>>) = 1 /\ Stands(file, s, <<line>>)
  BY <1>1
<1>5. KindOf(line) \in {"heading", "horizontalRule", "paragraph"}
  BY <1>3
<1>6. /\ file[s] = line /\ s \in 1 .. Len(file) /\ Len(file) \in Nat
      /\ Parser(file)[s] = <<BlockAt(file, s)>> \o Parser(file)[s + 1]
  BY <1>4, <1>5, ReadsOne
<1>7. ASSUME b.level <= 3 /\ t # Empty
      PROVE  BlockAt(file, s) = Block("heading", b.level, <<t>>)
  <2>1. KindOf(file[s]) = "heading" /\ file[s].mark = Hashes[b.level] /\ file[s].text = t
    BY <1>2, <1>3, <1>6, <1>7
  <2> QED BY <2>1, BlockOfLine
<1> QED BY <1>1, <1>3, <1>4, <1>6, <1>7 DEF line

LEMMA RuleRead ==
    ASSUME NEW b, b.kind = "horizontalRule",
           NEW file, NEW s, Stands(file, s, RenderBlock(b))
    PROVE  /\ Len(RenderBlock(b)) = 1
           /\ Parser(file)[s] = <<Block("horizontalRule", 0, <<>>)>> \o Parser(file)[s + 1]
<1> DEFINE line == Line("---", Empty)
<1>1. RenderBlock(b) = <<line>>
  BY RenderIs
<1>2. KindOf(line) = "horizontalRule"
  BY OtherKind
<1> HIDE DEF line
<1>3. Len(<<line>>) = 1 /\ Stands(file, s, <<line>>)
  BY <1>1
<1>4. KindOf(line) \in {"heading", "horizontalRule", "paragraph"}
  BY <1>2
<1>5. file[s] = line /\ Parser(file)[s] = <<BlockAt(file, s)>> \o Parser(file)[s + 1]
  BY <1>3, <1>4, ReadsOne
<1>6. BlockAt(file, s) = Block("horizontalRule", 0, <<>>)
  BY <1>2, <1>5, BlockOfLine
<1> QED BY <1>1, <1>3, <1>5, <1>6

LEMMA CodeRendered ==
    ASSUME NEW U, NEW b, b.kind = "codeBlock", b.texts \in Seq(U)
    PROVE  LET ts == IF Strip(b.texts) = <<>> THEN <<Empty>> ELSE Strip(b.texts)
           IN  RenderBlock(b) = CodeLines(ts) /\ ts \in Seq(U \cup {Empty})
<1> DEFINE strip == Strip(b.texts)
           ts == IF strip = <<>> THEN <<Empty>> ELSE strip
<1>1. PlainLines(<<Empty>>) = <<Blank>>
  BY PlainOne DEF Plain, Blank
<1>2. RenderBlock(b) = <<Fence>> \o (IF strip = <<>> THEN <<Blank>> ELSE PlainLines(strip)) \o <<Fence>>
  BY RenderIs DEF Fence
<1>3. strip \in Seq(U)
  BY StripIs
<1>4. ts \in Seq(U \cup {Empty})
  <2>1. <<Empty>> \in Seq(U \cup {Empty})
    BY Single
  <2>2. strip \in Seq(U \cup {Empty})
    BY <1>3, SeqMonotonic
  <2> QED BY <2>1, <2>2
<1> HIDE DEF strip
<1>5. RenderBlock(b) = CodeLines(ts)
  <2>1. PlainLines(ts) = IF strip = <<>> THEN <<Blank>> ELSE PlainLines(strip)
    BY <1>1
  <2> QED BY <1>2, <2>1, Zenon DEF CodeLines
<1> QED BY <1>4, <1>5 DEF strip

LEMMA CodeRead ==
    ASSUME NEW U, NEW b, b.kind = "codeBlock", b.texts \in Seq(U),
           NEW file, NEW s, Stands(file, s, RenderBlock(b))
    PROVE  LET ts == IF Strip(b.texts) = <<>> THEN <<Empty>> ELSE Strip(b.texts)
           IN  Parser(file)[s] = <<Block("codeBlock", 0, ts)>>
                                   \o Parser(file)[s + Len(RenderBlock(b))]
<1> DEFINE ts == IF Strip(b.texts) = <<>> THEN <<Empty>> ELSE Strip(b.texts)
<1>1. RenderBlock(b) = CodeLines(ts) /\ ts \in Seq(U \cup {Empty})
  BY CodeRendered
<1> HIDE DEF ts
<1>2. Parser(file)[s] = <<Block("codeBlock", 0, ts)>> \o Parser(file)[s + Len(CodeLines(ts))]
  BY <1>1, ReadsFenced
<1> QED BY <1>1, <1>2 DEF ts

\* What is read of a list: its items that have a text.
ListRead(U, b, file, s) ==
    /\ RenderBlock(b) # <<>> => \E texts \in Seq(U \ {Empty}) :
          /\ texts # <<>>
          /\ Parser(file)[s] = <<Block(b.kind, 0, texts)>> \o Parser(file)[s + Len(RenderBlock(b))]
    /\ b.texts # <<>> /\ Empty \notin ToSet(b.texts) =>
          /\ RenderBlock(b) # <<>>
          /\ Parser(file)[s] = <<Block(b.kind, 0, b.texts)>> \o Parser(file)[s + Len(RenderBlock(b))]

LEMMA ReadsItems ==
    ASSUME NEW U, NEW b, b.kind \in Lists, b.texts \in Seq(U),
           NEW file, NEW s, RenderBlock(b) # <<>> => Stands(file, s, RenderBlock(b))
    PROVE  ListRead(U, b, file, s)
<1> DEFINE kind == b.kind
           mark == IF kind = "bulletList" THEN "-" ELSE "1."
           items == b.texts
           n == Len(items)
           ls == RenderBlock(b)
           S == {Line(mark, t) : t \in U \ {Empty}}
           texts == [k \in 1 .. Len(ls) |-> ls[k].text]
<1>1. ls = ItemLines(mark, items)
  <2>1. kind = "bulletList" => ls = ItemLines("-", items)
    BY RenderIs
  <2>2. kind = "orderedList" => ls = ItemLines("1.", items)
    BY RenderIs
  <2>3. kind = "orderedList" => kind # "bulletList"
    OBVIOUS
  <2>4. kind = "bulletList" \/ kind = "orderedList"
    BY DEF Lists
  <2> HIDE DEF ls, items, kind
  <2> QED BY <2>1, <2>2, <2>3, <2>4, Zenon
<1>2. ItemsOf(U, mark, items, n, ls)
  BY <1>1, ItemLinesIs
<1>3. \A l \in S : l.text \in U \ {Empty}
  BY DEF Line
<1>4. \A t : Line(mark, t).text = t
  BY DEF Line
<1>5. n \in Nat /\ DOMAIN items = 1 .. n
  BY LenProperties
<1>6. ls # <<>> => Parser(file)[s] = <<Block(kind, 0, texts)>> \o Parser(file)[s + Len(ls)]
  <2>1. ls \in Seq(S)
    BY <1>2 DEF ItemsOf
  <2> HIDE DEF ls
  <2> QED BY <2>1, ReadsList, ZenonT(30) DEF ls
<1>7. ls \in Seq(S)
  BY <1>2 DEF ItemsOf
<1>8. (\A k \in 1 .. n : items[k] # Empty) =>
         Len(ls) = n /\ \A k \in 1 .. n : ls[k] = Line(mark, items[k])
  BY <1>2 DEF ItemsOf
<1> HIDE DEF ls, mark, S, items, n
<1>9. Len(ls) \in Nat /\ \A k \in 1 .. Len(ls) : ls[k] \in S
  BY <1>7, ElementOfSeq, LenProperties
<1>10. texts \in Seq(U \ {Empty}) /\ Len(texts) = Len(ls)
  <2>1. \A k \in 1 .. Len(ls) : ls[k].text \in U \ {Empty}
    BY <1>3, <1>9
  <2> QED BY <1>9, <2>1
<1>11. ls # <<>> => texts # <<>>
  BY <1>7, <1>9, <1>10, EmptySeq
<1>12. ASSUME items # <<>>, Empty \notin ToSet(items)
       PROVE  ls # <<>> /\ texts = items
  <2>1. \A k \in 1 .. n : items[k] # Empty
    BY <1>5, <1>12 DEF ToSet
  <2>2. Len(ls) = n /\ \A k \in 1 .. n : ls[k] = Line(mark, items[k])
    BY <1>8, <2>1
  <2>3. \A k \in 1 .. n : ls[k].text = items[k]
    BY <1>4, <2>2
  <2>4. items \in Seq(U) /\ n = Len(items)
    BY DEF items, n
  <2>5. items = [k \in 1 .. n |-> items[k]]
    BY <2>4
  <2>6. texts = items
    BY <2>2, <2>3, <2>5, Zenon
  <2>7. n # 0
    BY <1>12, <2>4, EmptySeq
  <2>8. ls # <<>>
    BY <2>2, <2>7, EmptySeq
  <2> QED BY <2>6, <2>8
<1> HIDE DEF texts
<1>13. ls # <<>> => \E x \in Seq(U \ {Empty}) :
          x # <<>> /\ Parser(file)[s] = <<Block(kind, 0, x)>> \o Parser(file)[s + Len(ls)]
  BY <1>6, <1>10, <1>11
<1>14. items # <<>> /\ Empty \notin ToSet(items) =>
          ls # <<>> /\ Parser(file)[s] = <<Block(kind, 0, items)>> \o Parser(file)[s + Len(ls)]
  BY <1>6, <1>12
<1> QED BY <1>13, <1>14, Zenon DEF ListRead, ls, items
-----------------------------------------------------------------------------
(********************** what comes back, block by block ********************)

LEMMA NotEmpty == ASSUME NEW e PROVE <<e>> # <<>>
OBVIOUS

\* The one line of a paragraph or quote that survives.
LEMMA OneLine ==
    ASSUME NEW texts, Len(texts) = 1, texts # <<Empty>>, NEW U, texts \in Seq(U)
    PROVE  \E t \in U : t # Empty /\ texts = <<t>>
<1>1. texts = <<texts[1]>> /\ texts[1] \in U
  OBVIOUS
<1> QED BY <1>1

LEMMA ListBack ==
    ASSUME NEW U, NEW b, b.kind \in Lists, b.texts \in Seq(U), b.texts # <<>>, Empty \notin ToSet(b.texts),
           NEW file, NEW s, RenderBlock(b) # <<>> => Stands(file, s, RenderBlock(b))
    PROVE  /\ RenderBlock(b) # <<>>
           /\ Parser(file)[s] = <<Block(b.kind, 0, b.texts)>> \o Parser(file)[s + Len(RenderBlock(b))]
<1>1. ListRead(U, b, file, s)
  BY ReadsItems
<1> QED BY <1>1, Zenon DEF ListRead

LEMMA QuoteBack ==
    ASSUME NEW file, NEW s, NEW t, Stands(file, s, QuoteLines(t, <<>>))
    PROVE  /\ Len(QuoteLines(t, <<>>)) = 1
           /\ Parser(file)[s] = <<Block("blockquote", 0, <<t>>)>> \o Parser(file)[s + 1]
<1> DEFINE more == <<>>
           U == {t}
<1>1. more \in Seq(U) /\ Len(more) = 0
  BY EmptySeq
<1> HIDE DEF more, U
<1>2. Stands(file, s, QuoteLines(t, more))
  BY DEF more
<1>3. /\ Len(QuoteLines(t, more)) = 1 + Len(more)
      /\ Parser(file)[s] = <<Block("blockquote", 0, <<t>>)>> \o Parser(file)[s + 1]
  <2>1. QuoteRead(file, s, t, U, more)
    BY <1>1, <1>2, ReadsQuote
  <2> QED BY <2>1, Zenon DEF QuoteRead
<1>4. 1 + 0 = 1
  OBVIOUS
<1> QED BY <1>1, <1>3, <1>4, Zenon DEF more

\* A block that the two formats share comes back as it was.
LEMMA SurvivorRead ==
    ASSUME NEW U, NEW b \in BlocksOver(U), Survives(b), NEW file, NEW s,
           RenderBlock(b) # <<>> => Stands(file, s, RenderBlock(b))
    PROVE  /\ RenderBlock(b) # <<>>
           /\ Parser(file)[s] = <<b>> \o Parser(file)[s + Len(RenderBlock(b))]
<1> DEFINE ls == RenderBlock(b)
<1>1. /\ b = Block(b.kind, b.level, b.texts)
      /\ \/ b.kind = "heading" /\ b.level \in 1 .. 6 /\ \E t \in U : b.texts = <<t>>
         \/ b.kind = "horizontalRule" /\ b.level = 0 /\ b.texts = <<>>
         \/ b.kind = "mathBlock" /\ b.level = 0 /\ \E t \in U \ {Empty} : b.texts = <<t>>
         \/ /\ b.kind \in Lists \cup {"paragraph", "blockquote", "codeBlock"}
            /\ b.level = 0 /\ b.texts \in Seq(U)
  BY BlocksAre, Zenon
<1>2. CASE b.kind = "heading"
  <2>1. b.level \in 1 .. 6 /\ \E t \in U : b.texts = <<t>>
    BY <1>1, <1>2 DEF Lists
  <2>2. PICK t \in U : b.texts = <<t>>
    BY <2>1
  <2>3. b.level <= 3 /\ b.texts # <<Empty>>
    BY <1>2 DEF Survives
  <2>4. t # Empty
    BY <2>2, <2>3
  <2>5. ls # <<>>
    BY <1>2, <2>2, HeadingLine, NotEmpty, Zenon
  <2>6. Len(ls) = 1 /\ Parser(file)[s] = <<Block("heading", b.level, <<t>>)>> \o Parser(file)[s + 1]
    BY <1>2, <2>1, <2>2, <2>3, <2>4, <2>5, HeadingRead
  <2> QED BY <1>1, <1>2, <2>2, <2>5, <2>6, Zenon
<1>3. CASE b.kind = "horizontalRule"
  <2>1. b.level = 0 /\ b.texts = <<>>
    BY <1>1, <1>3 DEF Lists
  <2>2. ls # <<>>
    BY <1>3, RenderIs, NotEmpty, Zenon
  <2>3. Len(ls) = 1 /\ Parser(file)[s] = <<Block("horizontalRule", 0, <<>>)>> \o Parser(file)[s + 1]
    BY <1>3, <2>2, RuleRead
  <2> QED BY <1>1, <1>3, <2>1, <2>2, <2>3, Zenon
<1>4. CASE b.kind = "paragraph"
  <2>1. b.level = 0 /\ b.texts \in Seq(U)
    BY <1>1, <1>4 DEF Lists
  <2>2. Len(b.texts) = 1 /\ b.texts # <<Empty>>
    BY <1>4 DEF Survives
  <2>3. PICK t \in U : t # Empty /\ b.texts = <<t>>
    BY <2>1, <2>2, OneLine
  <2>4. ls = PlainLines(<<t>>)
    BY <1>4, <2>3, RenderIs, StripOne
  <2>5. ls = <<Plain(t)>>
    BY <2>4, PlainOne
  <2>6. ls # <<>> /\ Len(ls) = 1
    BY <2>5
  <2>7. KindOf(Plain(t)) = "paragraph" /\ Raw(Plain(t)) = t
    BY <2>3, PlainIs
  <2>8. file[s] = Plain(t) /\ Parser(file)[s] = <<BlockAt(file, s)>> \o Parser(file)[s + 1]
    BY <2>5, <2>6, <2>7, ReadsOne
  <2>9. BlockAt(file, s) = Block("paragraph", 0, <<t>>)
    BY <2>7, <2>8, BlockOfLine
  <2> QED BY <1>1, <1>4, <2>1, <2>3, <2>6, <2>8, <2>9, Zenon
<1>5. CASE b.kind = "blockquote"
  <2>1. b.level = 0 /\ b.texts \in Seq(U)
    BY <1>1, <1>5 DEF Lists
  <2>2. Len(b.texts) = 1 /\ b.texts # <<Empty>>
    BY <1>5 DEF Survives
  <2>3. PICK t \in U : t # Empty /\ b.texts = <<t>>
    BY <2>1, <2>2, OneLine
  <2>4. <<t>> # <<>> /\ <<t>>[1] = t /\ Tail(<<t>>) = <<>>
    OBVIOUS
  <2>5. ls = QuoteLines(t, <<>>)
    <3>1. ls = IF Strip(b.texts) = <<>> THEN <<>>
               ELSE <<Line(">", Strip(b.texts)[1])>> \o PlainLines(Tail(Strip(b.texts)))
      BY <1>5, RenderIs
    <3>2. Strip(b.texts) = <<t>>
      BY <2>3, StripOne
    <3> HIDE DEF ls
    <3> QED BY <2>4, <3>1, <3>2, Zenon DEF QuoteLines
  <2>6. ls # <<>>
    <3>1. <<>> \in Seq(U)
      BY EmptySeq
    <3> QED BY <2>5, <3>1, QuoteNotEmpty
  <2>7. Len(ls) = 1 /\ Parser(file)[s] = <<Block("blockquote", 0, <<t>>)>> \o Parser(file)[s + 1]
    BY <2>5, <2>6, QuoteBack, Zenon
  <2> QED BY <1>1, <1>5, <2>1, <2>3, <2>6, <2>7, Zenon
<1>6. CASE b.kind = "codeBlock"
  <2>1. b.level = 0 /\ b.texts \in Seq(U)
    BY <1>1, <1>6 DEF Lists
  <2>2. b.texts = <<Empty>> \/ (b.texts # <<>> /\ Strip(b.texts) = b.texts)
    BY <1>6 DEF Survives
  <2>3. (IF Strip(b.texts) = <<>> THEN <<Empty>> ELSE Strip(b.texts)) = b.texts
    BY <2>2, StripOne
  <2>4. ls # <<>>
    <3> DEFINE ts == IF Strip(b.texts) = <<>> THEN <<Empty>> ELSE Strip(b.texts)
    <3>1. ts \in Seq(U) /\ ls = CodeLines(ts)
      BY <1>6, <2>1, <2>3, CodeRendered, Zenon
    <3> HIDE DEF ts, ls
    <3> QED BY <3>1, CodeNotEmpty
  <2>5. Parser(file)[s] = <<Block("codeBlock", 0, b.texts)>> \o Parser(file)[s + Len(ls)]
    BY <1>6, <2>1, <2>3, <2>4, CodeRead
  <2> QED BY <1>1, <1>6, <2>1, <2>4, <2>5, Zenon
<1>7. CASE b.kind \in Lists
  <2>1. b.level = 0 /\ b.texts \in Seq(U)
    BY <1>1, <1>7 DEF Lists
  <2>2. b.texts # <<>> /\ Empty \notin ToSet(b.texts)
    BY <1>7 DEF Survives
  <2>3. ls # <<>> /\ Parser(file)[s] = <<Block(b.kind, 0, b.texts)>> \o Parser(file)[s + Len(ls)]
    BY <1>7, <2>1, <2>2, ListBack, Zenon
  <2> QED BY <1>1, <2>1, <2>3, Zenon
<1>8. b.kind # "mathBlock"
  BY DEF Survives
<1> QED BY <1>1, <1>2, <1>3, <1>4, <1>5, <1>6, <1>7, <1>8, Zenon
-----------------------------------------------------------------------------
(************************ all that is read is shared ***********************)

LEMMA HeadingShared ==
    ASSUME NEW l \in 1 .. 3, NEW t \in TextOrLine, t # Empty
    PROVE  Block("heading", l, <<t>>) \in Shared(TextOrLine)
<1> DEFINE b == Block("heading", l, <<t>>)
<1>1. b.kind = "heading" /\ b.level = l /\ b.texts = <<t>>
  BY DEF Block
<1>2. b \in BlocksOver(TextOrLine)
  BY DEF BlocksOver, Block
<1>3. Survives(b)
  <2>1. <<t>> # <<Empty>> /\ l <= 3
    OBVIOUS
  <2> HIDE DEF b
  <2> QED BY <1>1, <2>1 DEF Survives, Lists
<1> QED BY <1>2, <1>3 DEF Shared

LEMMA QuoteShared ==
    ASSUME NEW t \in TextOrLine, t # Empty
    PROVE  Block("blockquote", 0, <<t>>) \in Shared(TextOrLine)
<1> DEFINE b == Block("blockquote", 0, <<t>>)
<1>1. b.kind = "blockquote" /\ b.level = 0 /\ b.texts = <<t>>
  BY DEF Block
<1>2. b \in BlocksOver(TextOrLine)
  <2>1. <<t>> \in Seq(TextOrLine)
    OBVIOUS
  <2> QED BY <2>1 DEF BlocksOver, Block
<1>3. Survives(b)
  <2>1. <<t>> # <<Empty>> /\ Len(<<t>>) = 1
    OBVIOUS
  <2> HIDE DEF b
  <2> QED BY <1>1, <2>1 DEF Survives, Lists
<1> QED BY <1>2, <1>3 DEF Shared

LEMMA RuleShared == Block("horizontalRule", 0, <<>>) \in Shared(TextOrLine)
<1> DEFINE b == Block("horizontalRule", 0, <<>>)
<1>1. b.kind = "horizontalRule" /\ b.level = 0 /\ b.texts = <<>>
  BY DEF Block
<1>2. b \in BlocksOver(TextOrLine)
  BY DEF BlocksOver, Block
<1> HIDE DEF b
<1>3. Survives(b)
  BY <1>1 DEF Survives, Lists
<1> QED BY <1>2, <1>3 DEF Shared, b

LEMMA ListShared ==
    ASSUME NEW kind \in Lists, NEW texts \in Seq(TextOrLine \ {Empty}), texts # <<>>
    PROVE  Block(kind, 0, texts) \in Shared(TextOrLine)
<1> DEFINE b == Block(kind, 0, texts)
<1>1. b.kind = kind /\ b.level = 0 /\ b.texts = texts
  BY DEF Block
<1>2. b \in BlocksOver(TextOrLine)
  <2>1. texts \in Seq(TextOrLine)
    <3>1. TextOrLine \ {Empty} \subseteq TextOrLine
      OBVIOUS
    <3> QED BY <3>1, SeqMonotonic
  <2> QED BY <2>1 DEF BlocksOver, Block
<1>3. Survives(b)
  <2>1. Empty \notin ToSet(texts)
    <3>1. \A k \in DOMAIN texts : texts[k] # Empty
      <4>1. DOMAIN texts = 1 .. Len(texts)
        BY LenProperties
      <4> QED BY <4>1, ElementOfSeq
    <3> QED BY <3>1 DEF ToSet
  <2>2. /\ kind # "mathBlock" /\ kind # "heading" /\ kind # "codeBlock"
        /\ kind # "paragraph" /\ kind # "blockquote"
    BY DEF Lists
  <2> HIDE DEF b
  <2> QED BY <1>1, <2>1, <2>2 DEF Survives
<1> QED BY <1>2, <1>3 DEF Shared

LEMMA CodeShared ==
    ASSUME NEW texts \in Seq(TextOrLine),
           texts = <<Empty>> \/ (texts # <<>> /\ Strip(texts) = texts)
    PROVE  Block("codeBlock", 0, texts) \in Shared(TextOrLine)
<1> DEFINE b == Block("codeBlock", 0, texts)
<1>1. b.kind = "codeBlock" /\ b.level = 0 /\ b.texts = texts
  BY DEF Block
<1>2. b \in BlocksOver(TextOrLine)
  BY DEF BlocksOver, Block
<1> HIDE DEF b
<1>3. Survives(b)
  BY <1>1 DEF Survives, Lists
<1> QED BY <1>2, <1>3 DEF Shared, b

\* What is read of a text that lost its mark.
LEMMA PlainShared ==
    ASSUME NEW ts \in Seq(Texts \cup {Empty}), NEW file, NEW s, Sits(file, s, PlainLines(ts)),
           Parser(file)[s + Len(ts)] \in Seq(Shared(TextOrLine))
    PROVE  Parser(file)[s] \in Seq(Shared(TextOrLine))
<1>1. /\ Len(ts) \in Nat /\ s \in Nat \ {0} /\ Len(file) \in Nat /\ s + Len(ts) <= Len(file) + 1
      /\ \A i \in s .. s + Len(ts) - 1 : \E t \in Texts \cup {Empty} : file[i] = Plain(t)
  BY SitsPlain
<1>2. Unmarked(file, s, s + Len(ts))
  BY <1>1 DEF Unmarked
<1>3. s \in 1 .. Len(file) + 1 /\ s + Len(ts) \in s .. Len(file) + 1
  BY <1>1
<1> QED BY <1>1, <1>2, <1>3, ReadsPlain

LEMMA MarkedShared ==
    ASSUME NEW file, Len(file) \in Nat, NEW s \in 1 .. Len(file), KindOf(file[s]) = "paragraph",
           NEW l \in 1 .. 6, NEW t \in Texts \cup {Empty}, file[s] = Line(Hashes[l], t),
           Parser(file)[s + 1] \in Seq(Shared(TextOrLine))
    PROVE  Parser(file)[s] \in Seq(Shared(TextOrLine))
<1> DEFINE line == Line(Hashes[l], t)
<1>1. line.mark # "" /\ line \in Lines
  <2>1. Hashes[l] # "" /\ Hashes[l] \in Marks
    BY HashesAre DEF Marks
  <2> QED BY <2>1 DEF Line, Lines
<1> HIDE DEF line
<1>2. Raw(line) = line
  BY <1>1 DEF Raw
<1>3. line \in TextOrLine /\ line # Empty
  BY <1>1, TransferAssumption DEF TextOrLine
<1>4. file[s] = line
  BY DEF line
<1> QED BY <1>2, <1>3, <1>4, ReadsParagraph

LEMMA SharedRead ==
    ASSUME NEW b \in BlocksOver(Texts \cup {Empty}), NEW file, NEW s,
           RenderBlock(b) # <<>>, Stands(file, s, RenderBlock(b)),
           Parser(file)[s + Len(RenderBlock(b))] \in Seq(Shared(TextOrLine))
    PROVE  Parser(file)[s] \in Seq(Shared(TextOrLine))
<1> DEFINE ls == RenderBlock(b)
           U == Texts \cup {Empty}
           R == Shared(TextOrLine)
<1>1. \/ b.kind = "heading" /\ b.level \in 1 .. 6 /\ \E t \in U : b.texts = <<t>>
      \/ b.kind = "horizontalRule" /\ b.level = 0 /\ b.texts = <<>>
      \/ b.kind = "mathBlock" /\ b.level = 0 /\ \E t \in U \ {Empty} : b.texts = <<t>>
      \/ /\ b.kind \in Lists \cup {"paragraph", "blockquote", "codeBlock"}
         /\ b.level = 0 /\ b.texts \in Seq(U)
  BY BlocksAre, Zenon
<1>2. U \subseteq TextOrLine /\ Empty \in U
  BY DEF TextOrLine
<1> HIDE DEF U
<1>3. CASE b.kind = "heading"
  <2>1. b.level \in 1 .. 6 /\ \E t \in U : b.texts = <<t>>
    BY <1>1, <1>3 DEF Lists
  <2>2. PICK t \in U : b.texts = <<t>>
    BY <2>1
  <2>3. /\ Len(ls) = 1 /\ s \in 1 .. Len(file) /\ Len(file) \in Nat
        /\ file[s] = Line(Hashes[b.level], t)
        /\ KindOf(file[s]) = IF b.level <= 3 /\ t # Empty THEN "heading" ELSE "paragraph"
        /\ b.level <= 3 /\ t # Empty =>
              Parser(file)[s] = <<Block("heading", b.level, <<t>>)>> \o Parser(file)[s + 1]
    BY <1>3, <2>1, <2>2, HeadingRead
  <2>4. CASE b.level <= 3 /\ t # Empty
    <3>1. Block("heading", b.level, <<t>>) \in R
      <4>1. b.level \in 1 .. 3 /\ t \in TextOrLine
        BY <1>2, <2>1, <2>4
      <4> QED BY <2>4, <4>1, HeadingShared
    <3> QED BY <2>3, <2>4, <3>1, Prepend
  <2>5. CASE ~(b.level <= 3 /\ t # Empty)
    <3>1. KindOf(file[s]) = "paragraph" /\ Parser(file)[s + 1] \in Seq(R) /\ t \in Texts \cup {Empty}
      BY <2>3, <2>5 DEF U
    <3> QED BY <2>1, <2>3, <3>1, MarkedShared
  <2> QED BY <2>4, <2>5
<1>4. CASE b.kind = "horizontalRule"
  <2>1. Len(ls) = 1 /\ Parser(file)[s] = <<Block("horizontalRule", 0, <<>>)>> \o Parser(file)[s + 1]
    BY <1>4, RuleRead
  <2> QED BY <2>1, RuleShared, Prepend
<1>5. CASE b.kind = "mathBlock"
  <2>1. \E t \in U : t # Empty /\ b.texts = <<t>>
    BY <1>1, <1>5 DEF Lists
  <2>2. PICK t \in U : t # Empty /\ b.texts = <<t>>
    BY <2>1
  <2>3. Strip(b.texts) = <<t>>
    BY <2>2, StripOne
  <2>4. <<t>> # <<>> /\ <<t>>[1] = t /\ <<t>> \in Seq(U) /\ Len(<<t>>) = 1
    OBVIOUS
  <2>5. ls = PlainLines(<<t>>)
    <3>1. ls = IF Strip(b.texts) = <<>> THEN <<>> ELSE <<Plain(Strip(b.texts)[1])>>
      BY <1>5, RenderIs DEF Plain
    <3> HIDE DEF ls
    <3> QED BY <2>3, <2>4, <3>1, PlainOne
  <2>6. Len(ls) = 1
    BY <2>5, PlainOne
  <2>7. Sits(file, s, PlainLines(<<t>>)) /\ Parser(file)[s + Len(<<t>>)] \in Seq(Shared(TextOrLine))
    BY <2>4, <2>5, <2>6 DEF Stands
  <2> QED BY <2>4, <2>7, PlainShared DEF U
<1>6. CASE b.kind = "paragraph"
  <2> DEFINE ts == Strip(b.texts)
  <2>1. b.texts \in Seq(U)
    BY <1>1, <1>6 DEF Lists
  <2>2. ts \in Seq(U)
    BY <2>1, StripIs
  <2>3. ls = PlainLines(ts)
    BY <1>6, RenderIs
  <2> HIDE DEF ts
  <2>4. Len(ls) = Len(ts)
    BY <2>2, <2>3, PlainLinesIs
  <2>5. Sits(file, s, PlainLines(ts)) /\ Parser(file)[s + Len(ts)] \in Seq(Shared(TextOrLine))
    BY <2>3, <2>4 DEF Stands
  <2> QED BY <2>2, <2>5, PlainShared DEF U
<1>7. CASE b.kind = "blockquote"
  <2> DEFINE ts == Strip(b.texts)
             more == Tail(ts)
  <2>1. b.texts \in Seq(U)
    BY <1>1, <1>7 DEF Lists
  <2>2. ts \in Seq(U) /\ (ts # <<>> => ts[1] # Empty)
    BY <2>1, StripIs
  <2>3. ls = IF ts = <<>> THEN <<>> ELSE QuoteLines(ts[1], more)
    BY <1>7, RenderIs DEF QuoteLines
  <2>4. ts # <<>> /\ ls = QuoteLines(ts[1], more)
    BY <2>3
  <2> HIDE DEF ts
  <2>5. ts[1] \in U /\ more \in Seq(U)
    BY <2>2, <2>4
  <2> DEFINE t == ts[1]
  <2> HIDE DEF more, t
  <2>6. QuoteRead(file, s, t, U, more)
    <3>1. Stands(file, s, QuoteLines(t, more))
      BY <2>4 DEF t
    <3> QED BY <2>5, <3>1, ReadsQuote
  <2>7. /\ Len(ls) = 1 + Len(more) /\ Len(more) \in Nat /\ s \in 1 .. Len(file) /\ Len(file) \in Nat
        /\ s + 1 + Len(more) <= Len(file) + 1
        /\ Parser(file)[s] = <<Block("blockquote", 0, <<t>>)>> \o Parser(file)[s + 1]
        /\ \A i \in s + 1 .. s + 1 + Len(more) - 1 : \E u \in U : file[i] = Plain(u)
    BY <2>4, <2>6, Zenon DEF QuoteRead, t
  <2>8. Parser(file)[s + 1] \in Seq(R)
    <3> DEFINE i == s + 1
               j == s + 1 + Len(more)
    <3>1. i \in 1 .. Len(file) + 1 /\ j \in i .. Len(file) + 1 /\ s + (1 + Len(more)) = j
      BY <2>7
    <3>2. Unmarked(file, i, j)
      BY <2>7, SMTT(20) DEF Unmarked, U
    <3>3. Parser(file)[j] \in Seq(Shared(TextOrLine))
      BY <2>7, <3>1
    <3>4. Len(file) \in Nat
      BY <2>7
    <3> HIDE DEF i, j
    <3>5. Parser(file)[i] \in Seq(Shared(TextOrLine))
      BY <3>1, <3>2, <3>3, <3>4, ReadsPlain
    <3> QED BY <3>5 DEF i
  <2>9. Block("blockquote", 0, <<t>>) \in R
    BY <1>2, <2>2, <2>4, <2>5, QuoteShared DEF t
  <2> QED BY <2>7, <2>8, <2>9, Prepend
<1>8. CASE b.kind = "codeBlock"
  <2> DEFINE strip == Strip(b.texts)
             ts == IF strip = <<>> THEN <<Empty>> ELSE strip
  <2>1. b.texts \in Seq(U)
    BY <1>1, <1>8 DEF Lists
  <2>2. Parser(file)[s] = <<Block("codeBlock", 0, ts)>> \o Parser(file)[s + Len(ls)]
    BY <1>8, <2>1, CodeRead
  <2>3. strip \in Seq(U) /\ (strip # <<>> => strip[1] # Empty /\ strip[Len(strip)] # Empty)
    BY <2>1, StripIs
  <2> HIDE DEF strip
  <2>4. strip # <<>> => Strip(strip) = strip
    BY <2>3, StripIs
  <2>5. ts \in Seq(TextOrLine)
    <3>1. strip \in Seq(TextOrLine)
      BY <1>2, <2>3, SeqMonotonic
    <3>2. <<Empty>> \in Seq(TextOrLine)
      BY <1>2, Single
    <3> QED BY <3>1, <3>2
  <2>6. ts = <<Empty>> \/ (ts # <<>> /\ Strip(ts) = ts)
    BY <2>4
  <2> HIDE DEF ts
  <2>7. Block("codeBlock", 0, ts) \in R
    BY <2>5, <2>6, CodeShared
  <2> QED BY <2>2, <2>7, Prepend
<1>9. CASE b.kind \in Lists
  <2>1. b.texts \in Seq(U)
    BY <1>1, <1>9 DEF Lists
  <2>2. ListRead(U, b, file, s)
    BY <1>9, <2>1, ReadsItems
  <2>3. PICK texts \in Seq(U \ {Empty}) :
            texts # <<>> /\ Parser(file)[s] = <<Block(b.kind, 0, texts)>> \o Parser(file)[s + Len(ls)]
    BY <2>2, Zenon DEF ListRead
  <2>4. texts \in Seq(TextOrLine \ {Empty})
    <3>1. U \ {Empty} \subseteq TextOrLine \ {Empty}
      BY <1>2
    <3> QED BY <3>1, SeqMonotonic
  <2>5. Block(b.kind, 0, texts) \in R
    BY <1>9, <2>3, <2>4, ListShared
  <2> QED BY <2>3, <2>5, Prepend
<1> QED BY <1>1, <1>3, <1>4, <1>5, <1>6, <1>7, <1>8, <1>9, Zenon
-----------------------------------------------------------------------------
(*************************** the whole document ****************************)

AllLines(U) == {Line(m, t) : m \in Marks, t \in U \cup {Empty}}

LEMMA Rendered ==
    ASSUME NEW U, NEW b \in BlocksOver(U)
    PROVE  RenderBlock(b) \in Seq(AllLines(U))
<1> DEFINE ls == RenderBlock(b)
           S == AllLines(U)
<1>1. \/ b.kind = "heading" /\ b.level \in 1 .. 6 /\ \E t \in U : b.texts = <<t>>
      \/ b.kind = "horizontalRule" /\ b.level = 0 /\ b.texts = <<>>
      \/ b.kind = "mathBlock" /\ b.level = 0 /\ \E t \in U \ {Empty} : b.texts = <<t>>
      \/ /\ b.kind \in Lists \cup {"paragraph", "blockquote", "codeBlock"}
         /\ b.level = 0 /\ b.texts \in Seq(U)
  BY BlocksAre, Zenon
<1>2. \A m \in Marks, t \in U \cup {Empty} : Line(m, t) \in S
  BY DEF AllLines
<1>3. {"", "-", "1.", ">", "fence", "---"} \subseteq Marks /\ \A l \in 1 .. 6 : Hashes[l] \in Marks
  BY DEF Marks
<1>4. /\ \A t \in U \cup {Empty} : Plain(t) \in S
      /\ Fence \in S /\ Line("---", Empty) \in S
  BY <1>2, <1>3 DEF Plain, Fence
<1>5. \A V : \A ts \in Seq(V) : V \subseteq U \cup {Empty} => PlainLines(ts) \in Seq(S)
  <2> SUFFICES ASSUME NEW V, NEW ts \in Seq(V), V \subseteq U \cup {Empty}
               PROVE  PlainLines(ts) \in Seq(S)
    BY Zenon
  <2>1. PlainLines(ts) \in Seq({Plain(t) : t \in V})
    BY PlainLinesIs DEF Plain
  <2>2. {Plain(t) : t \in V} \subseteq S
    BY <1>4
  <2> QED BY <2>1, <2>2, SeqMonotonic
<1>6. \A mark \in {"-", "1."} : \A ts \in Seq(U) : ItemLines(mark, ts) \in Seq(S)
  <2> SUFFICES ASSUME NEW mark \in {"-", "1."}, NEW ts \in Seq(U) PROVE ItemLines(mark, ts) \in Seq(S)
    OBVIOUS
  <2> DEFINE X == {Line(mark, t) : t \in U \ {Empty}}
  <2>1. ItemLines(mark, ts) \in Seq(X)
    BY ItemLinesIs DEF ItemsOf
  <2>2. X \subseteq S
    <3>1. mark \in Marks
      BY <1>3
    <3> QED BY <1>2, <3>1
  <2> HIDE DEF X
  <2> QED BY <2>1, <2>2, SeqMonotonic
<1>7. CASE b.kind = "heading"
  <2>1. b.level \in 1 .. 6 /\ \E t \in U : b.texts = <<t>>
    BY <1>1, <1>7 DEF Lists
  <2>2. PICK t \in U : b.texts = <<t>>
    BY <2>1
  <2>3. ls = <<Line(Hashes[b.level], t)>>
    BY <1>7, <2>2, HeadingLine
  <2>4. Line(Hashes[b.level], t) \in S
    BY <1>2, <1>3, <2>1
  <2> QED BY <2>3, <2>4, Single, Zenon
<1>8. CASE b.kind = "horizontalRule"
  <2>1. ls = <<Line("---", Empty)>>
    BY <1>8, RenderIs
  <2> QED BY <1>4, <2>1, Single, Zenon
<1>9. CASE b.kind = "mathBlock"
  <2>1. \E t \in U \ {Empty} : b.texts = <<t>>
    BY <1>1, <1>9 DEF Lists
  <2>2. PICK t \in U \ {Empty} : b.texts = <<t>>
    BY <2>1
  <2>3. ls = <<Plain(t)>>
    <3>1. Strip(b.texts) = <<t>>
      BY <2>2, StripOne
    <3>2. <<t>> # <<>> /\ <<t>>[1] = t
      OBVIOUS
    <3>3. ls = IF Strip(b.texts) = <<>> THEN <<>> ELSE <<Plain(Strip(b.texts)[1])>>
      BY <1>9, RenderIs DEF Plain
    <3> HIDE DEF ls
    <3> QED BY <3>1, <3>2, <3>3
  <2>4. Plain(t) \in S
    BY <1>4
  <2> QED BY <2>3, <2>4, Single, Zenon
<1>10. CASE b.kind = "paragraph"
  <2>1. Strip(b.texts) \in Seq(U)
    BY <1>1, <1>10, StripIs DEF Lists
  <2>2. ls = PlainLines(Strip(b.texts))
    BY <1>10, RenderIs
  <2>3. U \subseteq U \cup {Empty}
    OBVIOUS
  <2> QED BY <1>5, <2>1, <2>2, <2>3, Zenon
<1>11. CASE b.kind = "blockquote"
  <2> DEFINE ts == Strip(b.texts)
  <2>1. ts \in Seq(U)
    BY <1>1, <1>11, StripIs DEF Lists
  <2>2. ls = IF ts = <<>> THEN <<>> ELSE QuoteLines(ts[1], Tail(ts))
    BY <1>11, RenderIs DEF QuoteLines
  <2> HIDE DEF ts, ls
  <2>3. CASE ts = <<>>
    <3>1. <<>> \in Seq(S)
      OBVIOUS
    <3> QED BY <2>2, <2>3, <3>1 DEF ls
  <2>4. CASE ts # <<>>
    <3>1. ts[1] \in U /\ Tail(ts) \in Seq(U)
      BY <2>1, <2>4
    <3>2. Line(">", ts[1]) \in S
      BY <1>2, <1>3, <3>1
    <3>3. PlainLines(Tail(ts)) \in Seq(S)
      BY <1>5, <3>1
    <3> DEFINE q == Line(">", ts[1])
               more == PlainLines(Tail(ts))
    <3>4. ls = <<q>> \o more
      BY <2>2, <2>4 DEF QuoteLines
    <3> HIDE DEF q, more, S
    <3>5. <<q>> \o more \in Seq(S)
      BY <3>2, <3>3, Prepend DEF q, more
    <3> QED BY <3>4, <3>5 DEF ls, S
  <2> QED BY <2>3, <2>4 DEF ls
<1>12. CASE b.kind = "codeBlock"
  <2> DEFINE ts == IF Strip(b.texts) = <<>> THEN <<Empty>> ELSE Strip(b.texts)
             plain == PlainLines(ts)
  <2>1. b.texts \in Seq(U)
    BY <1>1, <1>12 DEF Lists
  <2>2. ls = CodeLines(ts) /\ ts \in Seq(U \cup {Empty})
    BY <1>12, <2>1, CodeRendered
  <2> HIDE DEF ts, ls
  <2>3. plain \in Seq(S)
    BY <1>5, <2>2
  <2>4. ls = (<<Fence>> \o plain) \o <<Fence>>
    BY <2>2 DEF CodeLines
  <2> HIDE DEF plain, S
  <2>5. <<Fence>> \in Seq(S)
    BY <1>4, Single DEF S
  <2>6. (<<Fence>> \o plain) \o <<Fence>> \in Seq(S)
    BY <2>3, <2>5, ConcatProperties
  <2> QED BY <2>4, <2>6 DEF ls, S
<1>13. CASE b.kind \in Lists
  <2>1. b.texts \in Seq(U)
    BY <1>1, <1>13 DEF Lists
  <2>2. CASE b.kind = "bulletList"
    <3>1. ls = ItemLines("-", b.texts)
      BY <2>2, RenderIs
    <3> QED BY <1>6, <2>1, <3>1
  <2>3. CASE b.kind = "orderedList"
    <3>1. ls = ItemLines("1.", b.texts)
      BY <2>3, RenderIs
    <3> QED BY <1>6, <2>1, <3>1
  <2> QED BY <1>13, <2>2, <2>3 DEF Lists
<1> QED BY <1>1, <1>7, <1>8, <1>9, <1>10, <1>11, <1>12, <1>13, Zenon

LEMMA BlankIn == ASSUME NEW U PROVE Blank \in AllLines(U)
<1>1. "" \in Marks
  BY DEF Marks
<1>2. \A m \in Marks, t \in U \cup {Empty} : Line(m, t) \in AllLines(U)
  BY DEF AllLines
<1>3. Empty \in U \cup {Empty}
  OBVIOUS
<1> QED BY <1>1, <1>2, <1>3, Zenon DEF Blank

LEMMA JoinedIn ==
    ASSUME NEW S, Blank \in S, NEW a \in Seq(S), NEW r \in Seq(S)
    PROVE  Joined(a, r) \in Seq(S)
<1>1. <<Blank>> \in Seq(S)
  BY Single
<1>2. (a \o <<Blank>>) \o r \in Seq(S)
  BY <1>1, ConcatProperties
<1> QED BY <1>2 DEF Joined

\* What the renderer has written of the blocks from k on.
Rendering(f, doc) ==
    f = [k \in 1 .. Len(doc) + 1 |-> IF k > Len(doc) THEN <<>> ELSE Joined(RenderBlock(doc[k]), f[k + 1])]
Rest(doc) == CHOOSE f : Rendering(f, doc)

LEMMA RestIs ==
    ASSUME NEW U, NEW doc \in Seq(BlocksOver(U))
    PROVE  /\ RenderNoteMarkdown(doc) = Rest(doc)[1]
           /\ Rest(doc)[Len(doc) + 1] = <<>>
           /\ \A k \in 1 .. Len(doc) : Rest(doc)[k] = Joined(RenderBlock(doc[k]), Rest(doc)[k + 1])
           /\ \A k \in 1 .. Len(doc) + 1 : Rest(doc)[k] \in Seq(AllLines(U))
<1> DEFINE n == Len(doc)
           S == Seq(AllLines(U))
           block(d) == RenderBlock(doc[n + 1 - d])
           step == [d \in 1 .. n |-> [x \in S |-> Joined(block(d), x)]]
<1>1. RenderNoteMarkdown(doc) = Rest(doc)[1]
  BY DEF RenderNoteMarkdown, Rest, Rendering
<1>2. n \in Nat
  BY LenProperties
<1>3. step \in [1 .. n -> [S -> S]]
  <2>1. ASSUME NEW d \in 1 .. n, NEW x \in S PROVE Joined(block(d), x) \in S
    <3>1. n + 1 - d \in 1 .. n
      BY <1>2
    <3>2. block(d) \in S
      BY <3>1, Rendered, ElementOfSeq
    <3> HIDE DEF block
    <3> QED BY <3>2, BlankIn, JoinedIn
  <2> HIDE DEF block, S, n
  <2> QED BY <2>1
<1>4. <<>> \in S
  BY EmptySeq
<1> HIDE DEF S
<1>5. PICK g \in [0 .. n -> S] : Iterates(g, n, <<>>, step)
  <2> HIDE DEF step, n
  <2> QED BY <1>2, <1>3, <1>4, Iteration
<1> DEFINE f == [k \in 1 .. n + 1 |-> g[n + 1 - k]]
<1>6. g[0] = <<>> /\ \A d \in 1 .. n : g[d] = Joined(block(d), g[d - 1])
  <2> HIDE DEF n, block
  <2>1. 0 \in 0 .. n /\ \A d \in 1 .. n : d \in 0 .. n /\ d # 0 /\ g[d - 1] \in S
    BY <1>2
  <2>2. g = [d \in 0 .. n |-> IF d = 0 THEN <<>> ELSE step[d][g[d - 1]]]
    BY <1>5, Zenon DEF Iterates
  <2>3. \A d \in 1 .. n : g[d] = step[d][g[d - 1]]
    <3> HIDE DEF step
    <3> QED BY <2>1, <2>2, Zenon
  <2>4. g[0] = <<>>
    <3> HIDE DEF step
    <3> QED BY <2>1, <2>2, Zenon
  <2> QED BY <2>1, <2>3, <2>4, Zenon
<1>7. ASSUME NEW k \in 1 .. n PROVE f[k] = Joined(RenderBlock(doc[k]), f[k + 1])
  <2> DEFINE d == n + 1 - k
  <2>1. /\ d \in 1 .. n /\ n + 1 - d = k /\ d - 1 = n + 1 - (k + 1)
        /\ k \in 1 .. n + 1 /\ k + 1 \in 1 .. n + 1
    BY <1>2
  <2>2. f[k] = g[d] /\ f[k + 1] = g[d - 1]
    BY <2>1, Zenon
  <2>3. block(d) = RenderBlock(doc[k])
    BY <2>1, Zenon
  <2> HIDE DEF d, block, f
  <2> QED BY <1>6, <2>1, <2>2, <2>3
<1>8. f[n + 1] = <<>>
  <2>1. n + 1 \in 1 .. n + 1 /\ n + 1 - (n + 1) = 0
    BY <1>2
  <2> QED BY <1>6, <2>1
<1>9. Rendering(f, doc)
  <2>1. f = [k \in 1 .. n + 1 |-> f[k]]
    OBVIOUS
  <2> HIDE DEF f
  <2>2. \A k \in 1 .. n + 1 : (k > n /\ k = n + 1) \/ (~(k > n) /\ k \in 1 .. n)
    BY <1>2
  <2>3. \A k \in 1 .. n + 1 : f[k] = IF k > n THEN <<>> ELSE Joined(RenderBlock(doc[k]), f[k + 1])
    <3> HIDE DEF n
    <3> QED BY <1>7, <1>8, <2>2, Zenon
  <2> QED BY <2>1, <2>3, Zenon DEF Rendering
<1> DEFINE F == Rest(doc)
<1>10. F = [k \in 1 .. n + 1 |-> IF k > n THEN <<>> ELSE Joined(RenderBlock(doc[k]), F[k + 1])]
  <2>1. Rendering(F, doc)
    <3> HIDE DEF f
    <3> QED BY <1>9, Zenon DEF Rest
  <2> HIDE DEF F
  <2> QED BY <2>1 DEF Rendering
<1> HIDE DEF F, n
<1>11. F[n + 1] = <<>> /\ \A k \in 1 .. n : F[k] = Joined(RenderBlock(doc[k]), F[k + 1])
  <2>1. /\ n + 1 \in 1 .. n + 1 /\ n + 1 > n
        /\ \A k \in 1 .. n : k \in 1 .. n + 1 /\ ~(k > n)
    BY <1>2
  <2> QED BY <1>10, <2>1, Zenon
<1> DEFINE T == {d \in 0 .. n : F[n + 1 - d] \in S}
<1>12. 0 \in T
  <2>1. n + 1 - 0 = n + 1 /\ 0 \in 0 .. n
    BY <1>2
  <2> QED BY <1>4, <1>11, <2>1
<1>13. ASSUME NEW d \in 1 .. n, d - 1 \in T PROVE d \in T
  <2> DEFINE k == n + 1 - d
  <2>1. k \in 1 .. n /\ d \in 0 .. n /\ n + 1 - (d - 1) = k + 1
    BY <1>2
  <2>2. F[k + 1] \in S
    BY <1>13, <2>1
  <2>3. RenderBlock(doc[k]) \in S
    <3>1. doc[k] \in BlocksOver(U)
      BY <2>1, ElementOfSeq DEF n
    <3> QED BY <3>1, Rendered DEF S
  <2>4. F[k] \in S
    <3>1. Joined(RenderBlock(doc[k]), F[k + 1]) \in S
      BY <2>2, <2>3, BlankIn, JoinedIn DEF S
    <3> HIDE DEF k
    <3> QED BY <1>11, <2>1, <3>1
  <2> QED BY <2>1, <2>4
<1>14. ASSUME NEW k \in 1 .. n + 1 PROVE F[k] \in S
  <2>1. \A d \in 0 .. n : d \in T
    <3> HIDE DEF T
    <3> QED BY <1>2, <1>12, <1>13, UpTo
  <2>2. n + 1 - k \in 0 .. n /\ n + 1 - (n + 1 - k) = k
    BY <1>2
  <2> QED BY <2>1, <2>2
<1> QED BY <1>1, <1>11, <1>14 DEF F, n, S

\* A file that ends with these lines.
Ends(file, s, ls) == Sits(file, s, ls) /\ s + Len(ls) = Len(file) + 1

LEMMA EndsAt ==
    ASSUME NEW file, NEW s, Ends(file, s, <<>>)
    PROVE  Parser(file)[s] = <<>>
<1>1. Len(<<>>) = 0
  OBVIOUS
<1> DEFINE ls == <<>>
<1> HIDE DEF ls
<1>2. Len(ls) = 0 /\ Ends(file, s, ls)
  BY <1>1 DEF ls
<1>3. Len(file) \in Nat /\ s \in Nat \ {0} /\ s = Len(file) + 1
  BY <1>2 DEF Ends, Sits
<1>4. s \in 1 .. Len(file) + 1 /\ ~(s <= Len(file)) /\ s > Len(file)
  BY <1>3
<1> QED BY <1>3, <1>4, SkipsBlank

LEMMA JoinedRead ==
    ASSUME NEW S, Blank \in S, NEW a \in Seq(S), NEW r \in Seq(S),
           NEW file, NEW s, Ends(file, s, Joined(a, r))
    PROVE  /\ a # <<>> => Stands(file, s, a)
           /\ a = <<>> => Ends(file, s, r)
           /\ \E e : Ends(file, e, r) /\ Parser(file)[s + Len(a)] = Parser(file)[e]
<1> DEFINE j == Joined(a, r)
           m == Len(a)
<1>1. m \in Nat
  BY LenProperties
<1>2. Sits(file, s, j) /\ s + Len(j) = Len(file) + 1 /\ s \in Nat \ {0} /\ Len(file) \in Nat
  BY DEF Ends, Sits
<1>3. CASE a = <<>>
  <2>1. j = r
    BY <1>3 DEF Joined
  <2>2. s + Len(a) = s
    BY <1>2, <1>3
  <2>3. Ends(file, s, r)
    BY <2>1
  <2> QED BY <1>3, <2>2, <2>3
<1>4. CASE a # <<>> /\ r = <<>>
  <2>1. j = a
    BY <1>4 DEF Joined
  <2>2. s + m = Len(file) + 1
    BY <1>2, <2>1
  <2>3. ~(s + m <= Len(file))
    BY <1>2, <2>2
  <2>4. Stands(file, s, a)
    BY <1>2, <2>1, <2>3 DEF Stands
  <2>5. Ends(file, s + m, r)
    <3> DEFINE e == s + m
    <3>1. e \in Nat \ {0} /\ e = Len(file) + 1
      BY <1>2, <2>2
    <3> HIDE DEF e
    <3>2. Len(r) = 0
      BY <1>4
    <3>3. Ends(file, e, r)
      BY <1>2, <3>1, <3>2 DEF Ends, Sits
    <3> QED BY <3>3 DEF e
  <2> QED BY <1>4, <2>4, <2>5
<1>5. CASE a # <<>> /\ r # <<>>
  <2> DEFINE ab == a \o <<Blank>>
  <2>1. j = ab \o r
    BY <1>5 DEF Joined
  <2>2. <<Blank>> \in Seq(S) /\ Len(<<Blank>>) = 1
    BY Single
  <2>3. ab \in Seq(S)
    BY <2>2, ConcatProperties
  <2>4. /\ Len(j) = Len(ab) + Len(r) /\ Len(r) \in Nat /\ Sits(file, s, ab)
        /\ Sits(file, s + Len(ab), r)
    <3> HIDE DEF ab, j
    <3>1. Sits(file, s, ab \o r)
      BY <1>2, <2>1
    <3> QED BY <2>1, <2>3, <3>1, SitsConcat, Zenon
  <2>5. /\ Len(ab) = m + 1 /\ Sits(file, s, a) /\ Sits(file, s + m, <<Blank>>)
    BY <2>2, <2>4, SitsConcat
  <2> HIDE DEF ab, m, j
  <2>6. s + m \in 1 .. Len(file) /\ file[s + m] = Blank
    BY <2>5, SitsOne
  <2>7. Stands(file, s, a)
    BY <2>5, <2>6 DEF Stands, m
  <2>8. s + Len(ab) = (s + m) + 1 /\ (s + m) + 1 + Len(r) = Len(file) + 1
    BY <1>1, <1>2, <2>4, <2>5
  <2>9. Ends(file, (s + m) + 1, r)
    BY <2>4, <2>8 DEF Ends
  <2>10. Parser(file)[s + m] = Parser(file)[(s + m) + 1]
    <3>1. KindOf(Blank) = "blank"
      BY PlainIs DEF Plain, Blank
    <3>2. s + m \in 1 .. Len(file) + 1 /\ s + m <= Len(file)
      BY <1>2, <2>6
    <3> QED BY <1>2, <2>6, <3>1, <3>2, SkipsBlank
  <2> QED BY <1>5, <2>7, <2>9, <2>10 DEF m
<1> QED BY <1>3, <1>4, <1>5

\* A document is read when each of its blocks is, from the last to the first.
LEMMA ReadsDocument ==
    ASSUME NEW U, NEW doc \in Seq(BlocksOver(U)), NEW G, <<>> \in G[Len(doc) + 1],
           \A k \in 1 .. Len(doc) : RenderBlock(doc[k]) = <<>> => G[k + 1] \subseteq G[k],
           \A k \in 1 .. Len(doc) : \A file, s :
              /\ RenderBlock(doc[k]) # <<>> /\ Stands(file, s, RenderBlock(doc[k]))
              /\ Parser(file)[s + Len(RenderBlock(doc[k]))] \in G[k + 1]
              => Parser(file)[s] \in G[k]
    PROVE  ParseMarkdown(RenderNoteMarkdown(doc)) \in G[1]
<1> DEFINE n == Len(doc)
           F == Rest(doc)
           file == RenderNoteMarkdown(doc)
           S == AllLines(U)
           T == {d \in 0 .. n : \A s : Ends(file, s, F[n + 1 - d]) => Parser(file)[s] \in G[n + 1 - d]}
<1>1. /\ file = F[1] /\ F[n + 1] = <<>>
      /\ \A k \in 1 .. n : F[k] = Joined(RenderBlock(doc[k]), F[k + 1])
      /\ \A k \in 1 .. n + 1 : F[k] \in Seq(S)
  BY RestIs
<1>2. n \in Nat /\ <<>> \in G[n + 1]
  BY LenProperties
<1>3. /\ \A k \in 1 .. n : RenderBlock(doc[k]) \in Seq(S)
      /\ Blank \in S
  BY Rendered, BlankIn, ElementOfSeq
<1>4. /\ \A k \in 1 .. n : RenderBlock(doc[k]) = <<>> => G[k + 1] \subseteq G[k]
      /\ \A k \in 1 .. n : \A f, s :
            /\ RenderBlock(doc[k]) # <<>> /\ Stands(f, s, RenderBlock(doc[k]))
            /\ Parser(f)[s + Len(RenderBlock(doc[k]))] \in G[k + 1]
            => Parser(f)[s] \in G[k]
  OBVIOUS
<1> HIDE DEF n, F, file, S
<1>5. 0 \in T
  <2>1. n + 1 - 0 = n + 1 /\ 0 \in 0 .. n
    BY <1>2
  <2>2. \A s : Ends(file, s, F[n + 1]) => Parser(file)[s] \in G[n + 1]
    BY <1>1, <1>2, EndsAt
  <2> QED BY <2>1, <2>2
<1>6. ASSUME NEW d \in 1 .. n, d - 1 \in T PROVE d \in T
  <2> DEFINE k == n + 1 - d
             block == RenderBlock(doc[k])
  <2>1. k \in 1 .. n /\ k + 1 \in 1 .. n + 1 /\ d \in 0 .. n /\ n + 1 - (d - 1) = k + 1
    BY <1>2
  <2>2. \A s : Ends(file, s, F[k + 1]) => Parser(file)[s] \in G[k + 1]
    BY <1>6, <2>1
  <2> HIDE DEF k
  <2>3. ASSUME NEW s, Ends(file, s, F[k]) PROVE Parser(file)[s] \in G[k]
    <3>1. block \in Seq(S) /\ F[k + 1] \in Seq(S) /\ Ends(file, s, Joined(block, F[k + 1]))
      BY <1>1, <1>3, <2>1, <2>3
    <3> HIDE DEF block
    <3>2. /\ block # <<>> => Stands(file, s, block)
          /\ block = <<>> => Ends(file, s, F[k + 1])
          /\ \E e : Ends(file, e, F[k + 1]) /\ Parser(file)[s + Len(block)] = Parser(file)[e]
      BY <1>3, <3>1, JoinedRead
    <3>3. CASE block = <<>>
      <4>1. Parser(file)[s] \in G[k + 1]
        BY <2>2, <3>2, <3>3
      <4>2. G[k + 1] \subseteq G[k]
        BY <1>4, <2>1, <3>3 DEF block
      <4> QED BY <4>1, <4>2
    <3>4. CASE block # <<>>
      <4>1. Parser(file)[s + Len(block)] \in G[k + 1]
        BY <2>2, <3>2
      <4> QED BY <1>4, <2>1, <3>2, <3>4, <4>1 DEF block
    <3> QED BY <3>3, <3>4
  <2> QED BY <2>1, <2>3 DEF k
<1>7. n \in T
  <2>1. \A d \in 0 .. n : d \in T
    <3> HIDE DEF T
    <3> QED BY <1>2, <1>5, <1>6, UpTo
  <2>2. n \in 0 .. n
    BY <1>2
  <2> QED BY <2>1, <2>2, Zenon
<1>8. \A s : Ends(file, s, F[1]) => Parser(file)[s] \in G[1]
  <2>1. n + 1 - n = 1
    BY <1>2
  <2> QED BY <1>7, <2>1
<1>9. Ends(file, 1, F[1])
  <2>1. 1 \in 1 .. n + 1
    BY <1>2
  <2>2. Len(file) \in Nat
    BY <1>1, <2>1, LenProperties
  <2>3. \A k \in 1 .. Len(file) : 1 + k - 1 = k
    BY <2>2
  <2> QED BY <1>1, <2>2, <2>3 DEF Ends, Sits
<1>10. Parser(file)[1] \in G[1] /\ Len(file) \in Nat
  BY <1>8, <1>9 DEF Ends, Sits
<1> QED BY <1>10, ParserIs DEF file

\* A document of blocks that survive is read as it was written.
LEMMA ComesBack ==
    ASSUME NEW U, NEW doc \in Seq(BlocksOver(U)), \A k \in 1 .. Len(doc) : Survives(doc[k])
    PROVE  ParseMarkdown(RenderNoteMarkdown(doc)) = doc
<1> DEFINE n == Len(doc)
           B == BlocksOver(U)
           G == [k \in 1 .. n + 1 |-> {SubSeq(doc, k, n)}]
<1>1. n \in Nat /\ doc \in Seq(B)
  BY LenProperties
<1>2. \A k \in 1 .. n : doc[k] \in B
  BY ElementOfSeq
<1> HIDE DEF B
<1>3. /\ n + 1 \in 1 .. n + 1 /\ 1 \in 1 .. n + 1
      /\ \A k \in 1 .. n : k \in 1 .. n + 1 /\ k + 1 \in 1 .. n + 1
  BY <1>1
<1>4. \A k \in 1 .. n + 1 : G[k] = {SubSeq(doc, k, n)}
  BY Zenon
<1>5. SubSeq(doc, n + 1, n) = <<>> /\ SubSeq(doc, 1, n) = doc
  BY <1>1, SubSeqEmpty, SubSeqFull
<1>6. ASSUME NEW k \in 1 .. n
      PROVE  SubSeq(doc, k, n) = <<doc[k]>> \o SubSeq(doc, k + 1, n)
  <2>1. \A i \in k .. n : doc[i] \in B
    BY <1>1, <1>2
  <2> QED BY <1>1, <1>6, <2>1, SubSeqRecursiveFirst
<1> HIDE DEF n, G
<1>7. <<>> \in G[n + 1]
  BY <1>3, <1>4, <1>5
<1>8. ASSUME NEW k \in 1 .. n, RenderBlock(doc[k]) = <<>> PROVE G[k + 1] \subseteq G[k]
  <2>1. RenderBlock(doc[k]) # <<>>
    BY <1>2, <1>8, SurvivorRead DEF B, n
  <2> QED BY <1>8, <2>1
<1>9. ASSUME NEW k \in 1 .. n, NEW file, NEW s,
             RenderBlock(doc[k]) # <<>>, Stands(file, s, RenderBlock(doc[k])),
             Parser(file)[s + Len(RenderBlock(doc[k]))] \in G[k + 1]
      PROVE  Parser(file)[s] \in G[k]
  <2>1. Parser(file)[s] = <<doc[k]>> \o Parser(file)[s + Len(RenderBlock(doc[k]))]
    BY <1>2, <1>9, SurvivorRead DEF B, n
  <2>2. Parser(file)[s + Len(RenderBlock(doc[k]))] = SubSeq(doc, k + 1, n)
    BY <1>3, <1>4, <1>9
  <2>3. Parser(file)[s] = SubSeq(doc, k, n)
    BY <1>6, <2>1, <2>2, Zenon
  <2>4. G[k] = {SubSeq(doc, k, n)}
    BY <1>3, <1>4
  <2> QED BY <2>3, <2>4
<1>10. ParseMarkdown(RenderNoteMarkdown(doc)) \in G[1]
  BY <1>7, <1>8, <1>9, ReadsDocument DEF n
<1> QED BY <1>3, <1>4, <1>5, <1>10

\* What an import reads of an export is made of blocks the two share.
LEMMA ReadsShared ==
    ASSUME NEW doc \in Seq(BlocksOver(Texts \cup {Empty}))
    PROVE  ParseMarkdown(RenderNoteMarkdown(doc)) \in Seq(Shared(TextOrLine))
<1> DEFINE n == Len(doc)
           R == Seq(Shared(TextOrLine))
           G == [k \in 1 .. n + 1 |-> R]
<1>1. n \in Nat /\ \A k \in 1 .. n : doc[k] \in BlocksOver(Texts \cup {Empty})
  BY ElementOfSeq, LenProperties
<1>2. /\ n + 1 \in 1 .. n + 1 /\ 1 \in 1 .. n + 1
      /\ \A k \in 1 .. n : k \in 1 .. n + 1 /\ k + 1 \in 1 .. n + 1
  BY <1>1
<1>3. \A k \in 1 .. n + 1 : G[k] = R
  BY Zenon
<1>4. <<>> \in R
  BY EmptySeq
<1> HIDE DEF n, G
<1>5. <<>> \in G[n + 1]
  BY <1>2, <1>3, <1>4
<1>6. ASSUME NEW k \in 1 .. n, RenderBlock(doc[k]) = <<>> PROVE G[k + 1] \subseteq G[k]
  BY <1>2, <1>3
<1>7. ASSUME NEW k \in 1 .. n, NEW file, NEW s,
             RenderBlock(doc[k]) # <<>>, Stands(file, s, RenderBlock(doc[k])),
             Parser(file)[s + Len(RenderBlock(doc[k]))] \in G[k + 1]
      PROVE  Parser(file)[s] \in G[k]
  <2>1. Parser(file)[s] \in R
    BY <1>1, <1>2, <1>3, <1>7, SharedRead
  <2> QED BY <1>2, <1>3, <2>1
<1>8. ParseMarkdown(RenderNoteMarkdown(doc)) \in G[1]
  BY <1>5, <1>6, <1>7, ReadsDocument DEF n
<1> QED BY <1>2, <1>3, <1>8
-----------------------------------------------------------------------------
(****************************** the round trip *****************************)

Reread(doc) == ParseMarkdown(RenderNoteMarkdown(doc))

\* What has been imported once is imported again as it is.
LEMMA RereadAgain ==
    ASSUME NEW doc \in Documents
    PROVE  /\ doc \in Seq(BlocksOver(Texts \cup {Empty}))
           /\ \A k \in DOMAIN Reread(doc) : Survives(Reread(doc)[k])
           /\ Reread(Reread(doc)) = Reread(doc)
<1> DEFINE c == Reread(doc)
<1>1. doc \in Seq(BlocksOver(Texts \cup {Empty}))
  BY TransferAssumption
<1>2. c \in Seq(Shared(TextOrLine))
  BY <1>1, ReadsShared DEF Reread
<1> HIDE DEF c
<1>3. /\ DOMAIN c = 1 .. Len(c)
      /\ \A k \in 1 .. Len(c) : c[k] \in Shared(TextOrLine)
  BY <1>2, ElementOfSeq, LenProperties
<1>4. \A k \in 1 .. Len(c) : Survives(c[k])
  BY <1>3 DEF Shared
<1>5. c \in Seq(BlocksOver(TextOrLine))
  <2>1. Shared(TextOrLine) \subseteq BlocksOver(TextOrLine)
    BY DEF Shared
  <2> QED BY <1>2, <2>1, SeqMonotonic
<1>6. Reread(c) = c
  BY <1>4, <1>5, ComesBack DEF Reread
<1> QED BY <1>1, <1>3, <1>4, <1>6 DEF c

\* The file and the copy are those of the note, or of its copy.
TransferInv ==
    /\ original \in Documents \cup {NoDoc}
    /\ copy # NoDoc => original \in Documents /\ copy = Reread(original)
    /\ exported # NoDoc => /\ original \in Documents
                           /\ exported \in {RenderNoteMarkdown(original),
                                            RenderNoteMarkdown(Reread(original))}

LEMMA TransferInvariant == TransferSpec => []TransferInv
<1>1. TransferInit => TransferInv
  BY DEF TransferInit, TransferInv
<1>2. TransferInv /\ [TransferNext]_<<original, exported, copy>> => TransferInv'
  <2> SUFFICES ASSUME TransferInv, [TransferNext]_<<original, exported, copy>>
               PROVE  TransferInv'
    OBVIOUS
  <2>1. ASSUME NEW doc \in {original, copy}, ExportNote(doc) PROVE TransferInv'
    <3>1. /\ original' = original /\ copy' = copy
          /\ exported' = RenderNoteMarkdown(doc) /\ doc # NoDoc
      BY <2>1 DEF ExportNote
    <3>2. original \in Documents /\ doc \in {original, Reread(original)}
      BY <3>1 DEF TransferInv
    <3> QED BY <3>1, <3>2 DEF TransferInv
  <2>2. CASE ImportFile
    <3>1. /\ original' = original /\ exported' = exported
          /\ copy' = ParseMarkdown(exported) /\ exported # NoDoc
      BY <2>2 DEF ImportFile
    <3>2. /\ original \in Documents
          /\ exported \in {RenderNoteMarkdown(original), RenderNoteMarkdown(Reread(original))}
      BY <3>1 DEF TransferInv
    <3>3. ParseMarkdown(exported) \in {Reread(original), Reread(Reread(original))}
      BY <3>2 DEF Reread
    <3>4. copy' = Reread(original)
      BY <3>1, <3>2, <3>3, RereadAgain
    <3> QED BY <3>1, <3>2, <3>4 DEF TransferInv
  <2>3. CASE UNCHANGED <<original, exported, copy>>
    BY <2>3 DEF TransferInv
  <2> QED BY <2>1, <2>2, <2>3 DEF TransferNext
<1> QED BY <1>1, <1>2, PTL DEF TransferSpec

\* A document that is exported and imported, any number of times, comes back
\* as it was exactly when each of its blocks is one that markdown and the
\* editor share; the others lose a level, an empty item or a line once, and
\* nothing after that (markdown_parser.py, markdown.py).
THEOREM ComesBackExactly == TransferSpec => []RoundTrip
<1>1. TransferInv => RoundTrip
  <2> SUFFICES ASSUME TransferInv, copy # NoDoc
               PROVE  copy = original <=> \A i \in DOMAIN original : Survives(original[i])
    BY DEF RoundTrip
  <2>1. original \in Documents /\ copy = Reread(original)
    BY DEF TransferInv
  <2>2. copy = original => \A i \in DOMAIN original : Survives(original[i])
    BY <2>1, RereadAgain
  <2>3. (\A i \in DOMAIN original : Survives(original[i])) => copy = original
    <3> SUFFICES ASSUME \A i \in DOMAIN original : Survives(original[i]) PROVE copy = original
      OBVIOUS
    <3>1. original \in Seq(BlocksOver(Texts \cup {Empty}))
      BY <2>1, RereadAgain
    <3>2. DOMAIN original = 1 .. Len(original)
      BY <3>1, LenProperties
    <3> QED BY <2>1, <3>1, <3>2, ComesBack DEF Reread
  <2> QED BY <2>2, <2>3
<1> QED BY <1>1, TransferInvariant, PTL
=============================================================================
