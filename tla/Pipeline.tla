------------------------------ MODULE Pipeline ------------------------------
(***************************************************************************)
(* The deterministic pipeline that turns one note into entities and        *)
(* relations (nlp/pipeline.py), as operators on its stages: candidates,    *)
(* salience, variants and compounds, Hearst patterns, normalisation        *)
(* against the registry, relations from the structure of the document.     *)
(*                                                                         *)
(* A note is [sentences, chunks, score, blocks, lists, refs]: what spaCy   *)
(* finds in its text (sequences of lemmas; noun chunks of tokens), the     *)
(* similarity of each phrase to the whole text, in percent, and which      *)
(* phrases find_concept_mentions finds in each block, list item and block  *)
(* reference.  A phrase is a sequence of lower-cased words: it stands for  *)
(* the texts that differ in case only, as the registry's key does.         *)
(* The stages compare texts; what the pipeline emits has ids, the slugs of *)
(* the texts, and two phrases may have one.                                *)
(*                                                                         *)
(* The registry is what changes: the note, which may be none, registers    *)
(* its entities when it is processed, and other notes register or remove   *)
(* theirs.                                                                 *)
(***************************************************************************)
EXTENDS Integers, Sequences, FiniteSets, FiniteSetsExt, SequencesExt

CONSTANTS
    Vocabulary,   \* words and lemmas
    Phrases,      \* the phrases that notes and the registry hold
    Ids, Slug,    \* entity ids, and the one _slugify makes of each phrase
    Similar,      \* cosine similarity of two phrases, in percent
    Alphabetical, \* rank of a phrase among all of them
    Verbs,        \* lemmas spaCy tags as verbs
    Floor, Delta, Redundancy,   \* thresholds of salience.py
    Synonymous,                 \* DEFAULT_COSINE_THRESHOLD
    Notes, NoNote

Tokens == [word : Vocabulary, lemma : Vocabulary, stop : BOOLEAN]
NoteType ==
    [chunks : Seq(Seq(Tokens)),
     score : [Phrases -> -100 .. 100],
     sentences : SUBSET Seq(Vocabulary),
     blocks : Seq([kind : STRING, says : SUBSET Phrases]),
     lists : SUBSET Seq(SUBSET Phrases),
     refs : SUBSET ((SUBSET Phrases) \X (SUBSET Phrases))]

\* _candidate_from_span: without leading stop words.
Trimmed(chunk) ==
    LET content == {i \in DOMAIN chunk : ~chunk[i].stop}
    IN  IF content = {} THEN <<>> ELSE SubSeq(chunk, Min(content), Len(chunk))

Phrase(chunk) == [i \in DOMAIN chunk |-> chunk[i].word]
Span(chunk) == [text |-> Phrase(chunk), lemma |-> [i \in DOMAIN chunk |-> chunk[i].lemma]]

\* Similarities are those of one embedder, so symmetric; the default of
\* salience_redundancy_threshold is below DEFAULT_COSINE_THRESHOLD.  Nothing
\* makes Slug injective: "c++" and "c#" are one id.
ASSUME PipelineAssumption ==
    /\ Phrases \subseteq Seq(Vocabulary)
    /\ Slug \in [Phrases -> Ids]
    /\ Similar \in [Phrases -> [Phrases -> -100 .. 100]]
    /\ \A p, q \in Phrases : Similar[p][q] = Similar[q][p]
    /\ \A p \in Phrases : Similar[p][p] >= Synonymous
    /\ Alphabetical \in [Phrases -> Nat]
    /\ \A p, q \in Phrases : Alphabetical[p] = Alphabetical[q] => p = q
    /\ {Floor, Delta, Redundancy, Synonymous} \subseteq Int /\ Redundancy <= Synonymous
    /\ Notes \subseteq NoteType /\ NoNote \notin Notes
    /\ \A n \in Notes : \A i \in DOMAIN n.chunks :
           Trimmed(n.chunks[i]) # <<>> => Phrase(Trimmed(n.chunks[i])) \in Phrases

VARIABLES
    note,      \* the note that is processed, or NoNote
    registry   \* concept_registry
-----------------------------------------------------------------------------
(************************ candidates and salience **************************)

\* extract_concepts: one candidate per surface, the first.
Candidates(n) ==
    LET content(i) == Trimmed(n.chunks[i])
    IN  {Span(content(i)) :
            i \in {j \in DOMAIN n.chunks :
                     /\ content(j) # <<>>
                     /\ \A k \in 1 .. (j - 1) : Phrase(content(k)) # Phrase(content(j))}}

Threshold(n, spans) == Max({Floor, Max({n.score[s.text] : s \in spans}) - Delta})

\* Candidates that are salient enough, and which come before which.
Salient(n, spans) == {s \in spans : n.score[s.text] >= Threshold(n, spans)}
MoreSalient(n, spans) ==
    [s \in Salient(n, spans) |->
        {t \in Salient(n, spans) :
            \/ n.score[t.text] > n.score[s.text]
            \/ /\ n.score[t.text] = n.score[s.text]
               /\ Alphabetical[t.text] < Alphabetical[s.text]}]

\* The most salient first.
Ranked(n, spans) ==
    LET before == MoreSalient(n, spans)
    IN  [i \in 1 .. Cardinality(DOMAIN before) |->
            CHOOSE s \in DOMAIN before : Cardinality(before[s]) = i - 1]

\* Mutant: only the candidate kept last is compared.
KeepUnlessLast(kept, s) ==
    IF kept # <<>> /\ Similar[Last(kept).text][s.text] >= Redundancy THEN kept
    ELSE Append(kept, s)

\* A candidate close to one already kept is dropped.
Keep(kept, s) ==
    IF \E k \in Range(kept) : Similar[k.text][s.text] >= Redundancy THEN kept
    ELSE Append(kept, s)

Kept(ranked) ==
    LET kept[i \in 0 .. Len(ranked)] == IF i = 0 THEN <<>> ELSE Keep(kept[i - 1], ranked[i])
    IN  kept[Len(ranked)]

\* rank_and_filter.
RankAndFilter(n, spans) == IF spans = {} THEN <<>> ELSE Kept(Ranked(n, spans))
-----------------------------------------------------------------------------
(************************* variants and compounds **************************)

Merge(n, out, s) ==
    LET better(t) == \/ n.score[s.text] > n.score[t.text]
                     \/ /\ n.score[s.text] = n.score[t.text]
                        /\ Len(s.text) < Len(t.text)
    IN  IF \E t \in Range(out) : t.lemma = s.lemma
        THEN [i \in DOMAIN out |-> IF out[i].lemma = s.lemma /\ better(out[i]) THEN s
                                                                               ELSE out[i]]
        ELSE Append(out, s)

\* merge_and_subsume: one span per lemma, where its first variant stood.
Variants(n, spans) ==
    LET merged[i \in 0 .. Len(spans)] ==
            IF i = 0 THEN <<>> ELSE Merge(n, merged[i - 1], spans[i])
    IN  merged[Len(spans)]

Heads(concepts, c) ==
    {p \in Range(concepts) : /\ Len(p.lemma) < Len(c.lemma)
                             /\ IsSuffix(p.lemma, c.lemma)}

IsA(child, parent) == [child |-> child.text, parent |-> parent.text]

\* A compound is what its longest suffix among the concepts is.
CompoundIsA(concepts) ==
    {IsA(c[1], c[2]) :
        c \in {d \in Range(concepts) \X Range(concepts) :
                  /\ d[2] \in Heads(concepts, d[1])
                  /\ \A p \in Heads(concepts, d[1]) : Len(p.lemma) <= Len(d[2].lemma)}}
-----------------------------------------------------------------------------
(***************************** Hearst patterns *****************************)

\* _match_positions.
At(words, c) == {i \in DOMAIN words : IsPrefix(c.lemma, SubSeq(words, i, Len(words)))}

Present(words, concepts) == {c \in Range(concepts) : At(words, c) # {}}

\* The first of the concepts whose match starts latest: a concept nested at
\* the end of another one wins.
NearestToEnd(words, concepts) ==
    LET found == {i \in DOMAIN concepts : At(words, concepts[i]) # {}}
        last(i) == Max(At(words, concepts[i]))
    IN  {concepts[i] : i \in {j \in found :
            \A k \in found : last(k) < last(j) \/ (last(k) = last(j) /\ j <= k)}}

\* The first of those whose match starts earliest.
NearestToStart(words, concepts) ==
    LET found == {i \in DOMAIN concepts : At(words, concepts[i]) # {}}
        first(i) == Min(At(words, concepts[i]))
    IN  {concepts[i] : i \in {j \in found :
            \A k \in found : first(k) > first(j) \/ (first(k) = first(j) /\ j <= k)}}

\* _first_verb_offset bounds the list after a trigger.
UpToVerb(words) ==
    LET verbs == {i \in DOMAIN words : words[i] \in Verbs}
    IN  IF verbs = {} THEN words ELSE SubSeq(words, 1, Min(verbs) - 1)

From(words, i) == SubSeq(words, i, Len(words))
Until(words, i) == SubSeq(words, 1, i)
Says(words, i, phrase) == IsPrefix(phrase, From(words, i))
Emit(hypos, hypers) == {IsA(e[1], e[2]) : e \in {d \in hypos \X hypers : d[1] # d[2]}}

SuchAsAndForward(words, concepts) ==
    UNION {Emit(Present(UpToVerb(From(words, m[1] + Len(m[2]))), concepts),
                NearestToEnd(Until(words, m[1] - 1), concepts)) :
              m \in {t \in (DOMAIN words) \X {<<"such", "as">>, <<"including">>, <<"especially">>} :
                      Says(words, t[1], t[2])}}

AndOther(words, concepts) ==
    UNION {Emit(Present(Until(words, i - 1), concepts),
                NearestToStart(From(words, i + 2), concepts)) :
              i \in {j \in DOMAIN words : \E o \in {"and", "or"} : Says(words, j, <<o, "other">>)}}

Copular(words, concepts) ==
    UNION {Emit(NearestToEnd(Until(words, i - 1), concepts),
                NearestToStart(From(words, i + 2), concepts)) :
              i \in {j \in DOMAIN words : \E a \in {"a", "an"} : Says(words, j, <<"is", a>>)}}

HearstIsA(sentences, concepts) ==
    UNION {SuchAsAndForward(s, concepts) \cup AndOther(s, concepts) \cup Copular(s, concepts) :
              s \in sentences}
-----------------------------------------------------------------------------
(****************************** normalisation ******************************)

\* The registered phrases that are nearest to one.
Closest(text, known) ==
    {r \in known : \A o \in known : Similar[text][o] <= Similar[text][r]}

\* The nearest registered phrase, if it is near enough, else the phrase.
Canonical(text, known) ==
    IF \E r \in known : Similar[text][r] >= Synonymous
    THEN CHOOSE r \in Closest(text, known) : TRUE
    ELSE text

\* normalise_concepts: the canonical text of each concept's surface.
Normalised(concepts, known) ==
    [t \in {c.text : c \in Range(concepts)} |-> Canonical(t, known)]
-----------------------------------------------------------------------------
(************************ relations of the structure ***********************)

Relation(type, from, to) == [type |-> type, from |-> from, to |-> to]
Between(type, xs, ys) == {Relation(type, e[1], e[2]) : e \in {d \in xs \X ys : d[1] # d[2]}}
BothWays(type, xs, ys) == Between(type, xs, ys) \cup Between(type, ys, xs)

\* Concepts of the last heading before block i.
HeadingOf(blocks, present, i) ==
    LET before == {j \in 1 .. (i - 1) : blocks[j].kind = "heading"}
    IN  IF before = {} THEN {} ELSE present[Max(before)]

\* The canonical concepts whose surface a text says.
Named(names, says) == {names[t] : t \in says \cap DOMAIN names}

\* derive_relations; DEFINED_BY, which the pipeline skips, is left out.
Structure(n, names) ==
    LET blocks == n.blocks
        present == [i \in DOMAIN blocks |-> Named(names, blocks[i].says)]
        adjacent(items) ==
            UNION {BothWays("SIBLING_OF", Named(names, items[p[1]]), Named(names, items[p[2]])) :
                      p \in {q \in (DOMAIN items) \X (DOMAIN items) : q[1] < q[2]}}
    IN  UNION ({Between("MENTIONED_TOGETHER", present[i], present[i]) : i \in DOMAIN blocks}
                 \cup {Between("SUBTOPIC_OF", present[i], HeadingOf(blocks, present, i)) :
                          i \in {j \in DOMAIN blocks : blocks[j].kind # "heading"}}
                 \cup {adjacent(items) : items \in n.lists}
                 \cup {Between("REFERENCES", Named(names, r[1]), Named(names, r[2])) : r \in n.refs})
-----------------------------------------------------------------------------
(******************************* the pipeline ******************************)

Surviving(n) == Variants(n, RankAndFilter(n, Candidates(n)))

Synonyms(names) == {Relation("SYNONYM_OF", t, names[t]) : t \in {s \in DOMAIN names : names[s] # s}}
Hierarchy(isA, names) ==
    {Relation("IS_A", names[e.child], names[e.parent]) :
        e \in {d \in isA : names[d.child] # names[d.parent]}}

\* An id beside the text it is the slug of (ExtractedEntity, ExtractedRelation).
Entity(text) == [id |-> Slug[text], text |-> text]
Extracted(r) == [type |-> r.type, subject |-> Entity(r.from), object |-> Entity(r.to)]

\* NoteNlpPipeline.extract without its cache.
Extraction(n, known) ==
    LET concepts == Surviving(n)
        names == Normalised(concepts, known)
        isA == CompoundIsA(concepts) \cup HearstIsA(n.sentences, concepts)
    IN  [entities |-> {Entity(t) : t \in Range(names)},
         relations |-> {Extracted(r) : r \in Structure(n, names) \cup Synonyms(names)
                                                \cup Hierarchy(isA, names)}]

\* register_concepts_with_embeddings: the text is the key of a row.
Registered(known, extraction) == known \cup {e.text : e \in extraction.entities}

\* prune_registry_rows: every row of an id goes.
Pruned(known, id) == {p \in known : Slug[p] # id}
-----------------------------------------------------------------------------
(********************** the note and the registry **************************)

PipelineInit == note \in Notes \cup {NoNote} /\ registry = {}

\* The note is processed, and its entities registered.
Process ==
    /\ note # NoNote
    /\ registry' = Registered(registry, Extraction(note, registry))
    /\ UNCHANGED note

\* Other notes register what they mention, or the last one goes.
Others(phrase) ==
    /\ note # NoNote
    /\ registry' \in {registry \cup {phrase}, Pruned(registry, Slug[phrase])}
    /\ UNCHANGED note

PipelineNext == Process \/ \E phrase \in Phrases : Others(phrase)
PipelineSpec == PipelineInit /\ [][PipelineNext]_<<note, registry>>
-----------------------------------------------------------------------------
(******************************** properties *******************************)

\* A dropped candidate is off topic or close to a kept one at least as salient,
\* and the most salient one survives if it reaches the floor
\* (salience.py:69-91).
NothingLost(n) ==
    LET spans == Candidates(n)
        kept == Range(RankAndFilter(n, spans))
        score(s) == n.score[s.text]
    IN  \A s \in spans :
            \/ s \in kept
            \/ score(s) < Threshold(n, spans)
            \/ \E k \in kept : score(k) >= score(s) /\ Similar[k.text][s.text] >= Redundancy

\* The compounds form chains: one parent each, and no edge that others imply
\* (subsumption.py:67-80).
ChainsOnly(concepts) ==
    \A e, f \in CompoundIsA(concepts) :
        /\ e.child = f.child => e = f
        /\ \A s \in Range(concepts) : e.parent = s.text =>
               \A p \in Heads(concepts, s) : IsA([text |-> e.child], p) \notin CompoundIsA(concepts)

\* A lemma without verbs and words that a pattern begins with.
Plain(lemma) ==
    Range(lemma) \cap ({"such", "including", "especially", "and", "or", "is"} \cup Verbs) = {}

\* "H such as M" and "M and other H" both make M an H; the first one makes it
\* what H ends with when a concept is nested there.  Where a concept occurs in
\* H otherwise than at its end, the patterns may find that one
\* (hierarchy.py:54-77).
PhrasingsAgree(concepts) ==
    \A h, m \in Range(concepts) :
        LET inside == {c \in Range(concepts) :
                         \E i \in At(h.lemma, c) : i + Len(c.lemma) # Len(h.lemma) + 1}
            forward == HearstIsA({h.lemma \o <<"such", "as">> \o m.lemma}, concepts)
            other == HearstIsA({m.lemma \o <<"and", "other">> \o h.lemma}, concepts)
            plain == Plain(h.lemma) /\ Plain(m.lemma)
        IN  (plain /\ inside = {} /\ h \notin Present(m.lemma, concepts)) =>
                /\ IsA(m, h) \in other
                /\ Heads(concepts, h) = {} => forward = other
                /\ \A e \in forward : \E p \in Heads(concepts, h) \cup {h} : e.parent = p.text

Reversed(r) == [type |-> r.type, subject |-> r.object, object |-> r.subject]

\* Relations join entities of the note (the surface that became a synonym
\* excepted), never a text with itself, and the symmetric types go both ways.
\* Two texts of one slug are one node, and a relation between them is a loop.
RelationsClosed(x) ==
    \A r \in x.relations :
        /\ r.object \in x.entities /\ r.subject.text # r.object.text
        /\ r.type # "SYNONYM_OF" => r.subject \in x.entities
        /\ r.type \in {"MENTIONED_TOGETHER", "SIBLING_OF"} =>
               Reversed(r) \in x.relations

\* What the pipeline extracts is a graph over the note's own entities, loses
\* no salient concept, and is found again when the note is extracted once its
\* entities are registered (pipeline.py:86-215, normalisation.py:84-119).
ExtractionSound ==
    note # NoNote =>
        LET x == Extraction(note, registry)
        IN  /\ RelationsClosed(x)
            /\ Extraction(note, Registered(registry, x)) = x
            /\ NothingLost(note)
            /\ ChainsOnly(Surviving(note))
            /\ PhrasingsAgree(Surviving(note))
=============================================================================
