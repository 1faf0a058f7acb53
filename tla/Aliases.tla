------------------------------ MODULE Aliases -------------------------------
(***************************************************************************)
(* Entity aliases: the table users confirm aliases in, and the layered     *)
(* resolver that finds the canonical entity of a mention by it.            *)
(*                                                                         *)
(* A confirmation is two steps, the SELECT of the alias's row and the      *)
(* statement that commits.  Texts are numbers, normalised and in the order *)
(* of their letters; confidences are in percent, scores in hundredths of a *)
(* percent.                                                                *)
(***************************************************************************)
EXTENDS Integers, Sequences, FiniteSets, FiniteSetsExt

CONSTANTS
    Terms,         \* what may be an alias or a name
    Words,         \* the number of words of each
    Short,         \* those of one word, of 2 to 10 letters
    Fuzzy,         \* SequenceMatcher ratio of two texts, in percent
    Embedded,      \* cosine similarity of build_embedding of two, in percent
    FuzzyThreshold, EmbeddingThreshold, MinResolutionScore,
    Bootstrapped,  \* the rows bootstrap_aliases_from_file left, if it was run
    Confirmations, \* what users may confirm: [alias, id, name, confidence]
    Requests, NoRow,
    MaxConfirmations  \* bound on confirmations

RowType == [id : Nat, name : Terms, confidence : 0 .. 100,
            source : {"bootstrap", "user_confirmed"}]

ASSUME AliasesAssumption ==
    /\ Terms \subseteq Nat /\ Short \subseteq Terms /\ Requests \subseteq Nat
    /\ Words \in [Terms -> Nat]
    /\ {Fuzzy, Embedded} \subseteq [Terms -> [Terms -> Int]]
    /\ {FuzzyThreshold, EmbeddingThreshold} \subseteq Int
    /\ MinResolutionScore \in 0 .. 100
    /\ NoRow \notin RowType
    /\ Bootstrapped \in [Terms -> RowType \cup {NoRow}]
    /\ \A a \in Terms : Bootstrapped[a] # NoRow => Bootstrapped[a].source = "bootstrap"
    /\ Confirmations \subseteq [alias : Terms, id : Nat, name : Terms, confidence : Int]
    /\ MaxConfirmations \in Nat

VARIABLES
    table,    \* entity_aliases: the row of each alias, or NoRow
    req,      \* requests: what a confirmation has read
    history,  \* the confirmations in the order of their commits
    raced     \* aliases with a confirmation that overlapped another's commit

vars == <<table, req, history, raced>>

Idle == [pc |-> "idle"]
Open(r) == req[r].pc = "read"
Known(rows) == {a \in Terms : rows[a] # NoRow}
-----------------------------------------------------------------------------
(******************************* the table *********************************)

Bounded(confidence) == Max({0, Min({100, confidence})})

\* Mutant: of equal confirmations the last wins.
ShouldReplaceEqual(row, confidence) == confidence >= row.confidence

\* A user's confirmation replaces another entity's row.
ShouldReplace(row, confidence) ==
    confidence > row.confidence
      \/ (confidence = row.confidence /\ row.source # "user_confirmed")

\* upsert_alias for a user: what it makes of the row that it has read.
Upserted(row, c) ==
    LET strength == Bounded(c.confidence)
        new == [id |-> c.id, name |-> c.name, confidence |-> strength,
                source |-> "user_confirmed"]
    IN  IF row = NoRow THEN new
        ELSE IF row.id = c.id THEN [new EXCEPT !.confidence = Max({row.confidence, strength})]
        ELSE IF ShouldReplace(row, strength) THEN new
        ELSE row

\* The UPDATE names the columns that have changed since the row was read.
Column(seen, new, now) == IF new = seen THEN now ELSE new
Updated(seen, new, now) ==
    [id |-> Column(seen.id, new.id, now.id),
     name |-> Column(seen.name, new.name, now.name),
     confidence |-> Column(seen.confidence, new.confidence, now.confidence),
     source |-> Column(seen.source, new.source, now.source)]
-----------------------------------------------------------------------------
Init ==
    /\ table = Bootstrapped
    /\ req = [r \in Requests |-> Idle]
    /\ history = <<>>
    /\ raced = {}

\* confirm_entity_alias reads the alias's row ...
Read(r, c) ==
    /\ ~Open(r) /\ \A p \in Requests : p < r => Open(p)
    /\ Len(history) + Cardinality({p \in Requests : Open(p)}) < MaxConfirmations
    /\ req' = [req EXCEPT ![r] =
                 [pc |-> "read", c |-> c, row |-> table[c.alias], raced |-> FALSE]]
    /\ UNCHANGED <<table, history, raced>>

\* Every other request on the alias overlaps this commit.
Overlap(r, alias) ==
    [p \in Requests |->
        IF p = r THEN Idle
        ELSE IF Open(p) /\ req[p].c.alias = alias THEN [req[p] EXCEPT !.raced = TRUE]
        ELSE req[p]]

\* ... and inserts or updates it, and commits.
Write(r) ==
    LET c == req[r].c
        seen == req[r].row
        now == table[c.alias]
        new == Upserted(seen, c)
    IN  /\ Open(r)
        /\ seen = NoRow => now = NoRow
        /\ table' = [table EXCEPT ![c.alias] =
                       IF seen = NoRow THEN new ELSE Updated(seen, new, now)]
        /\ history' = Append(history, c)
        /\ raced' = IF req[r].raced THEN raced \cup {c.alias} ELSE raced
        /\ req' = Overlap(r, c.alias)

\* An INSERT of an alias that has a row by now violates its unique constraint:
\* the request is answered 500.
Refuse(r) ==
    /\ Open(r)
    /\ req[r].row = NoRow /\ table[req[r].c.alias] # NoRow
    /\ req' = [req EXCEPT ![r] = Idle]
    /\ UNCHANGED <<table, history, raced>>

Next ==
    \E r \in Requests :
        \/ \E c \in Confirmations : Read(r, c)
        \/ Write(r)
        \/ Refuse(r)

Spec == Init /\ [][Next]_vars
-----------------------------------------------------------------------------
(****************************** the resolver *******************************)

Weight(layer) ==
    CASE layer = "alias_table" -> 10000 [] layer = "abbreviation" -> 9200
      [] layer = "fuzzy" -> 8200 [] layer = "embedding" -> 7400

\* Mutant: long names outrank better layers.
ScoreByName(c) == Weight(c.layer) + 25 * Bounded(c.confidence) + 100 * Words[c.name]

\* _score.
Score(c) == Weight(c.layer) + 25 * Bounded(c.confidence) + 100 * Min({Words[c.name], 4})

Candidate(layer, row, confidence) ==
    [layer |-> layer, id |-> row.id, name |-> row.name, confidence |-> confidence]

\* find_fuzzy_candidate, find_embedding_candidate: the most similar alias, the
\* first of the sorted ones, if it reaches the threshold.
Nearest(rows, layer, similarity, threshold) ==
    LET best == {a \in Known(rows) : \A b \in Known(rows) :
                    \/ similarity[a] > similarity[b]
                    \/ similarity[a] = similarity[b] /\ a <= b}
    IN  {Candidate(layer, rows[a], similarity[a]) :
            a \in {b \in best : similarity[b] >= threshold}}

\* resolve_entities_preview maps an abbreviation to its row's canonical name,
\* which must itself be an alias.
Abbreviated(rows, text) ==
    IF text \in Short \cap Known(rows)
    THEN {Candidate("abbreviation", rows[a], 95) : a \in {rows[text].name} \cap Known(rows)}
    ELSE {}

Layers(rows, text) ==
    {Candidate("alias_table", rows[a], 100) : a \in {text} \cap Known(rows)}
      \cup Abbreviated(rows, text)
      \cup Nearest(rows, "fuzzy", Fuzzy[text], FuzzyThreshold)
      \cup Nearest(rows, "embedding", Embedded[text], EmbeddingThreshold)

\* rank_resolution_candidates: by score, then by entity id.
Winners(rows, text) ==
    {c \in Layers(rows, text) : \A d \in Layers(rows, text) :
        \/ Score(c) > Score(d)
        \/ Score(c) = Score(d) /\ c.id <= d.id}

\* EntityResolver.resolve: the entity's id, none when unresolved.
Resolved(rows, text) ==
    {c.id : c \in {w \in Winners(rows, text) : w.confidence >= MinResolutionScore}}
-----------------------------------------------------------------------------
(******************************** properties *******************************)

Of(alias) == {i \in DOMAIN history : history[i].alias = alias}
Strength(i) == Bounded(history[i].confidence)

\* The first of the strongest confirmations of an alias.
Strongest(alias, i) ==
    /\ i \in Of(alias)
    /\ \A j \in Of(alias) : Strength(i) > Strength(j) \/ (Strength(i) = Strength(j) /\ i <= j)

\* The entity that i, the first strongest confirmation of the alias, leaves it
\* with: its own unless the bootstrapped one is stronger, or is as strong and
\* the user had confirmed it before.
Left(alias, i) ==
    LET seed == Bootstrapped[alias]
        before == {j \in Of(alias) : j < i /\ history[j].id = seed.id}
    IN  IF \/ seed = NoRow
           \/ Strength(i) > seed.confidence
           \/ Strength(i) = seed.confidence /\ before = {}
        THEN history[i].id
        ELSE seed.id

\* The text of an alias resolves to one entity, the one confirmed first with
\* the highest confidence, or the bootstrapped one if that is stronger, unless
\* two confirmations of the alias overlapped: a long name found by a fuzzier
\* layer never overrules it (entity_alias_repository.py:76-107,
\* ranking.py:23-41, resolver.py:88-197).
ConfirmedAliasWins ==
    \A alias \in Terms \ raced :
        IF Of(alias) = {}
        THEN table[alias] = Bootstrapped[alias]
               /\ table[alias] # NoRow => Resolved(table, alias) = {table[alias].id}
        ELSE \E i \in Of(alias) :
                 Strongest(alias, i) /\ Resolved(table, alias) = {Left(alias, i)}
=============================================================================
