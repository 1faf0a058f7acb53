---------------------------- MODULE MCNoteStore -----------------------------
(* A small instance of NoteStore for TLC. *)
EXTENDS NoteStore, TLC

CONSTANTS a1, x, y

Leaf(up, uid, parent) ==
    [kind |-> "leaf", up |-> up, uid |-> uid, parent |-> parent, ref |-> NoUid]
Container(up, uid) == [Leaf(up, uid, NoUid) EXCEPT !.kind = "container"]

\* A pasted copy of a block with a child moved under it, and a list whose
\* paragraph has no uid yet.
Copied == <<Leaf(0, 1, NoUid), Leaf(0, 1, NoUid), Leaf(0, 2, 1)>>
Nested == <<Container(0, 1), Leaf(1, NoUid, NoUid), Leaf(0, 2, NoUid)>>

Payload(title, tags, pinned, doc, assets) ==
    [title |-> title, tags |-> tags, pinned |-> pinned, doc |-> doc, assets |-> assets]

MCPayloads ==
    {Payload("t1", {}, TRUE, Copied, {a1}), Payload("t2", {"x"}, FALSE, Nested, {})}

\* A heading and a list of one item.
MCFiles == {<<Line("##", x), Blank, Line("-", y)>>}
=============================================================================
