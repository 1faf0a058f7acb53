----------------------------- MODULE BlockTree ------------------------------
(***************************************************************************)
(* The block rows of one TipTap document: block_repository._extract_blocks *)
(* and the uid stamping of utils/tiptap.py.                                *)
(*                                                                         *)
(* A document is the sequence of its nodes in document order (the order in *)
(* which _walk_nodes meets them).  Node i has                              *)
(*   kind    "leaf": a block type that passes its parent on (paragraph,    *)
(*           heading, image, ...); "container": one of                     *)
(*           _CHILD_CONTAINER_TYPES; "inline": not a block (text, unknown) *)
(*   up      index of the node it is nested in, 0 at the top level         *)
(*   uid     attrs.blockUid, parent attrs.parentBlockUid (or NoUid)        *)
(*   ref     block uid its own text or reference mark names (or NoUid)     *)
(* The random uids a walk may need are an argument: mint[i] is what uuid4  *)
(* gives node i, if the walk asks for one.                                 *)
(***************************************************************************)
EXTENDS Naturals, Sequences, FiniteSets

CONSTANT NoUid

ASSUME NoUidAssumption == NoUid \notin Nat

Kinds == {"leaf", "container", "inline"}
Uids == Nat \cup {NoUid}
Node == [kind : Kinds, up : Nat, uid : Uids, parent : Uids, ref : Uids]

\* Every node is nested in an earlier one.
Preorder(doc) == \A i \in DOMAIN doc : doc[i].up \in 0 .. i - 1

Docs == {doc \in Seq(Node) : Preorder(doc)}

\* Positions of the block nodes of a document, and those before node i.
Blocks(doc) == {i \in DOMAIN doc : doc[i].kind # "inline"}
Before(doc, i) == {j \in Blocks(doc) : j < i}

\* Mutant: a uid seen before is kept.
UidAsGiven(doc, mint, i) ==
    IF doc[i].uid = NoUid THEN mint[i] ELSE doc[i].uid

\* _ensure_block_uid: a block keeps its uid unless it has none or an earlier
\* block of the document carries the same one.
UidOf(doc, mint, i) ==
    IF doc[i].uid = NoUid \/ \E j \in Before(doc, i) : doc[j].uid = doc[i].uid
    THEN mint[i]
    ELSE doc[i].uid

\* latest_uid_by_raw once node i is stamped: the uid now borne by the last
\* block that came with uid raw, raw itself when none has.
Latest(doc, mint, i, raw) ==
    LET bearers == {j \in Before(doc, i) \cup {i} : doc[j].uid = raw}
        last == CHOOSE j \in bearers : \A k \in bearers : k <= j
    IN  IF bearers = {} THEN raw ELSE UidOf(doc, mint, last)

\* attrs.parentBlockUid after _extract_explicit_parent_uid, which follows a
\* renamed parent and rewrites the attribute.
ParentAttr(doc, mint, i) ==
    IF doc[i].parent \in {NoUid, UidOf(doc, mint, i)}
    THEN doc[i].parent
    ELSE Latest(doc, mint, i, doc[i].parent)

\* The uid _walk_nodes hands down to node i: that of its nearest enclosing
\* container.
Enclosing(doc, mint, i) ==
    LET from[k \in 0 .. Len(doc)] ==
            IF k = 0 \/ doc[k].up = 0 THEN NoUid
            ELSE IF doc[doc[k].up].kind = "container"
                 THEN UidOf(doc, mint, doc[k].up)
                 ELSE from[doc[k].up]
    IN  from[i]

\* The explicit parent wins over the enclosing one unless it names the block
\* itself.
ParentOf(doc, mint, i) ==
    IF ParentAttr(doc, mint, i) \in {NoUid, UidOf(doc, mint, i)}
    THEN Enclosing(doc, mint, i)
    ELSE ParentAttr(doc, mint, i)

\* sibling_counter_by_parent: the number of earlier blocks of that parent.
OrderOf(doc, mint, i) ==
    Cardinality({j \in Before(doc, i) :
                    ParentOf(doc, mint, j) = ParentOf(doc, mint, i)})

\* Node k is node i or lies inside it.
Inside(doc, i, k) ==
    LET reach[x \in 0 .. Len(doc)] ==
            IF x = i THEN TRUE ELSE IF x = 0 THEN FALSE ELSE reach[doc[x].up]
    IN  reach[k]

\* extract_block_refs_from_rich_content: the references in a block's subtree.
RefsOf(doc, i) ==
    {doc[k].ref : k \in {k \in DOMAIN doc : Inside(doc, i, k)}} \ {NoUid}

\* One _ExtractionRow.
RowOf(doc, mint, i) ==
    [uid |-> UidOf(doc, mint, i), parent |-> ParentOf(doc, mint, i),
     order |-> OrderOf(doc, mint, i), index |-> Cardinality(Before(doc, i)),
     refs |-> RefsOf(doc, i)]

\* The row of a document without blocks.
FallbackRow(uid) ==
    [uid |-> uid, parent |-> NoUid, order |-> 0, index |-> 0, refs |-> {}]

\* _extract_blocks: the rows, with one fallback row if there is no block ...
Rows(doc, mint) ==
    IF Blocks(doc) = {} THEN {FallbackRow(mint[0])}
    ELSE {RowOf(doc, mint, i) : i \in Blocks(doc)}

\* ... and the document as the walk leaves it, stamped in place.
Stamped(doc, mint) ==
    [i \in DOMAIN doc |->
        IF i \in Blocks(doc)
        THEN [doc[i] EXCEPT !.uid = UidOf(doc, mint, i),
                            !.parent = ParentAttr(doc, mint, i)]
        ELSE doc[i]]

\* uuid4 never returns a uid of the document nor the same one twice.
FreshMint(doc, mint) ==
    /\ \A i, k \in DOMAIN doc : mint[i] \notin {NoUid, doc[k].uid, doc[k].parent}
    /\ \A i, k \in DOMAIN doc : mint[i] = mint[k] => i = k
=============================================================================
