------------------------------ MODULE MCViews -------------------------------
(* A small instance of Reprocess and GraphViews for TLC. *)
EXTENDS Reprocess

Link(to, tidy) == [to |-> to, tidy |-> tidy]
Mention(concept, salience) == [concept |-> concept, salience |-> salience]
Relation(type, from, to, durable) ==
    [type |-> type, from |-> from, to |-> to, conf |-> 90, durable |-> durable]

Edit(note, at, links, mentions, relations, words) ==
    [note |-> note, title |-> note, at |-> at, subject |-> "s", tags |-> {},
     links |-> links, mentions |-> mentions, relations |-> relations, words |-> words]

\* Note 1 saved twice, and note 2, which links to it with spaces.
MCEdits ==
    {Edit(1, 1, {}, {Mention(1, 60)}, {}, {}),
     Edit(1, 2, {Link(2, TRUE)}, {Mention(1, 30), Mention(2, 60)},
          {Relation("SUBTOPIC_OF", 1, 2, FALSE), Relation("IS_A", 1, 2, TRUE)}, {1}),
     Edit(2, 3, {Link(1, FALSE)}, {Mention(2, 30)}, {}, {1})}

Local(note, hops, limit, types, salience) ==
    [kind |-> "local", note |-> note, hops |-> hops, limit |-> limit, types |-> types,
     salience |-> salience, confidence |-> 50, subject |-> "", tag |-> ""]
Global(limit, types, salience) ==
    [Local(1, 0, limit, types, salience) EXCEPT !.kind = "global"]
AllTypes == {"note", "entity", "relation"}

\* Asked while notes change.
MCQueries == {Local(1, 1, 2, AllTypes, 50)}

\* What else may be asked of any rows and graph.
MCOtherQueries ==
    {Local(n, 2, limit, types, 60) :
        n \in NoteIds, limit \in {3}, types \in {AllTypes, {"note", "relation"}}}
      \cup {Global(2, AllTypes, 50), Global(1, {"entity", "relation"}, 0)}
=============================================================================
