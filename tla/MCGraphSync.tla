---------------------------- MODULE MCGraphSync -----------------------------
(***************************************************************************)
(* Two notes.  p has four versions: b nested in a, which refers to it; the *)
(* same texts with b moved out of a, no reference, another title and other *)
(* concepts; a edited, with no reference, so that its child b stays; and b *)
(* alone, edited and moved.  q has one block, which refers to b of p.      *)
(* Both notes relate x and y.                                              *)
(***************************************************************************)
EXTENDS GraphSync, TLC

CONSTANTS p, q, v1, v2, v3, v4, w1, a, b, c, x, y, together, isa, h1, h2, s, t

MCNotes == {p, q}
MCVersions == {v1, v2, v3, v4, w1}
MCUids == {a, b, c}
MCOf == [v \in MCVersions |-> IF v = w1 THEN q ELSE p]
MCHome == a :> p @@ b :> p @@ c :> q
Blocks(ha, hb, hc) == a :> ha @@ b :> hb @@ c :> hc
MCText == v1 :> Blocks(h1, h1, None) @@ v2 :> Blocks(h1, h1, None)
            @@ v3 :> Blocks(h2, h1, None) @@ v4 :> Blocks(None, h2, None)
            @@ w1 :> Blocks(None, None, h1)
Nested == [u \in MCUids |-> IF u = b THEN [parent |-> a, order |-> 1]
                                     ELSE [parent |-> None, order |-> 0]]
Flat == [u \in MCUids |-> [parent |-> None, order |-> IF u = b THEN 1 ELSE 0]]
MCPlace == [v \in MCVersions |-> IF v \in {v1, v3} THEN Nested ELSE Flat]
MCRefs == [v \in MCVersions |-> IF v = v1 THEN {<<a, b>>}
                                 ELSE IF v = w1 THEN {<<c, b>>} ELSE {}]
MCSubjectOf == [v \in MCVersions |-> IF v \in {v1, v2} THEN s ELSE t]
Result(E, R) == [ents |-> E, rels |-> R]
Pair == <<x, together, y>>
MCExtractions ==
    v1 :> {Result({x, y}, {Pair, <<x, isa, y>>}), Result({x}, {})}
    @@ v2 :> {Result({y}, {})}
    @@ v3 :> {Result({x, y}, {})} @@ v4 :> {Result({}, {})}
    @@ w1 :> {Result({x, y}, {Pair})}
=============================================================================
