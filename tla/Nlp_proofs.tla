----------------------------- MODULE Nlp_proofs -----------------------------
(***************************************************************************)
(* Proofs about the algorithms of nlp/: that the entity an alias resolves  *)
(* to is the one its confirmations decide, for every alias table, every    *)
(* similarity of texts and any number of requests; and that what the       *)
(* pipeline extracts is sound, for notes of any length, every similarity   *)
(* of phrases and every registry.                                          *)
(***************************************************************************)
EXTENDS Aliases, Pipeline, Counting, SequenceTheorems, TLAPS
-----------------------------------------------------------------------------
(******************************** numbers **********************************)

\* The larger of two numbers.
LEMMA MaxOfTwo ==
    ASSUME NEW a \in Int, NEW b \in Int
    PROVE  Max({a, b}) = IF a >= b THEN a ELSE b
<1> DEFINE Largest(x) == x \in {a, b} /\ \A y \in {a, b} : x >= y
<1>1. \E x : Largest(x)
    OBVIOUS
<1>2. Max({a, b}) = CHOOSE x : Largest(x)
    BY DEF Max
<1>3. Largest(CHOOSE x : Largest(x))
    BY <1>1
<1> QED
    BY <1>2, <1>3

\* The smaller of two numbers.
LEMMA MinOfTwo ==
    ASSUME NEW a \in Int, NEW b \in Int
    PROVE  Min({a, b}) = IF a <= b THEN a ELSE b
<1> DEFINE Smallest(x) == x \in {a, b} /\ \A y \in {a, b} : x <= y
<1>1. \E x : Smallest(x)
    OBVIOUS
<1>2. Min({a, b}) = CHOOSE x : Smallest(x)
    BY DEF Min
<1>3. Smallest(CHOOSE x : Smallest(x))
    BY <1>1
<1> QED
    BY <1>2, <1>3

\* A confidence is clamped to a percentage.
LEMMA BoundedPercent ==
    ASSUME NEW confidence \in Int
    PROVE  /\ Bounded(confidence) \in 0 .. 100
           /\ confidence \in 0 .. 100 => Bounded(confidence) = confidence
<1>1. Min({100, confidence}) = IF 100 <= confidence THEN 100 ELSE confidence
    BY MinOfTwo
<1>2. Min({100, confidence}) \in Int
    BY <1>1
<1>3. Max({0, Min({100, confidence})})
        = IF 0 >= Min({100, confidence}) THEN 0 ELSE Min({100, confidence})
    BY <1>2, MaxOfTwo
<1> QED
    BY <1>1, <1>2, <1>3 DEF Bounded
-----------------------------------------------------------------------------
(****************************** the resolver *******************************)

\* The similarities of two texts are numbers.
LEMMA SimilarityInt ==
    ASSUME NEW text \in Terms, NEW a \in Terms
    PROVE  Fuzzy[text][a] \in Int /\ Embedded[text][a] \in Int
<1>1. Fuzzy \in [Terms -> [Terms -> Int]] /\ Embedded \in [Terms -> [Terms -> Int]]
    BY AliasesAssumption
<1>2. Fuzzy[text] \in [Terms -> Int] /\ Embedded[text] \in [Terms -> Int]
    BY <1>1
<1> QED
    BY <1>2

\* The score of a candidate is its layer's weight and at most 29 percent more.
LEMMA ScoreBounds ==
    ASSUME NEW c, c.name \in Terms, c.confidence \in Int, Weight(c.layer) \in Int
    PROVE  /\ Score(c) \in Int
           /\ Score(c) >= Weight(c.layer) + 25 * Bounded(c.confidence)
           /\ Score(c) <= Weight(c.layer) + 25 * Bounded(c.confidence) + 400
<1>1. Words[c.name] \in Nat
    BY AliasesAssumption
<1>2. Min({Words[c.name], 4}) = IF Words[c.name] <= 4 THEN Words[c.name] ELSE 4
    BY <1>1, MinOfTwo
<1>3. Min({Words[c.name], 4}) \in 0 .. 4
    BY <1>1, <1>2
<1>4. Bounded(c.confidence) \in 0 .. 100
    BY BoundedPercent
<1> HIDE DEF Weight
<1> QED
    BY <1>3, <1>4 DEF Score

\* The direct layer outweighs every other one: the weakest direct match has
\* more than the strongest abbreviation.
LEMMA DirectOutweighs ==
    ASSUME NEW rows \in [Terms -> RowType \cup {NoRow}], NEW text \in Terms,
           rows[text] # NoRow,
           NEW d \in Layers(rows, text),
           d # Candidate("alias_table", rows[text], 100)
    PROVE  Score(d) < Score(Candidate("alias_table", rows[text], 100))
<1> DEFINE direct == Candidate("alias_table", rows[text], 100)
<1>1. \A a \in Known(rows) : rows[a] \in RowType /\ a \in Terms
    BY DEF Known
<1>2. text \in Known(rows)
    BY DEF Known
<1>3. Score(direct) >= 12500 /\ Score(direct) \in Int
  <2>1. direct.name \in Terms /\ direct.confidence = 100 /\ direct.layer = "alias_table"
      BY <1>1, <1>2 DEF Candidate, RowType
  <2>2. Weight(direct.layer) = 10000
      BY <2>1 DEF Weight
  <2>3. Bounded(direct.confidence) = 100
      BY <2>1, BoundedPercent
  <2> QED
      BY <2>1, <2>2, <2>3, ScoreBounds
<1>4. PICK a \in Known(rows) :
        \/ d = Candidate("abbreviation", rows[a], 95)
        \/ d = Candidate("fuzzy", rows[a], Fuzzy[text][a])
        \/ d = Candidate("embedding", rows[a], Embedded[text][a])
    BY DEF Layers, Abbreviated, Nearest
<1>5. d.name \in Terms /\ d.confidence \in Int
  <2>1. Fuzzy[text][a] \in Int /\ Embedded[text][a] \in Int
      BY <1>1, SimilarityInt
  <2> QED
      BY <1>1, <1>4, <2>1 DEF Candidate, RowType
<1>6. Bounded(d.confidence) \in 0 .. 100
    BY <1>5, BoundedPercent
<1>7. d.layer \in {"abbreviation", "fuzzy", "embedding"}
        /\ (d.layer = "abbreviation" => d.confidence = 95)
    BY <1>4 DEF Candidate
<1>8. Weight(d.layer) + 25 * Bounded(d.confidence) <= 11575 /\ Weight(d.layer) \in Int
  <2>1. CASE d.layer = "abbreviation"
    <3>1. Bounded(d.confidence) = 95
        BY <2>1, <1>7, BoundedPercent
    <3>2. Weight(d.layer) = 9200
        BY <2>1 DEF Weight
    <3> QED
        BY <3>1, <3>2
  <2>2. CASE d.layer = "fuzzy"
    <3>1. Weight(d.layer) = 8200
        BY <2>2 DEF Weight
    <3> QED
        BY <3>1, <1>6
  <2>3. CASE d.layer = "embedding"
    <3>1. Weight(d.layer) = 7400
        BY <2>3 DEF Weight
    <3> QED
        BY <3>1, <1>6
  <2> QED
      BY <1>7, <2>1, <2>2, <2>3
<1>9. Score(d) <= 11975 /\ Score(d) \in Int
    BY <1>5, <1>6, <1>8, ScoreBounds
<1> QED
    BY <1>3, <1>9

\* A text with a row resolves to that row's entity, whatever the other layers
\* propose (resolver.py:106-187, ranking.py:26-41).
LEMMA DirectWins ==
    ASSUME NEW rows \in [Terms -> RowType \cup {NoRow}], NEW text \in Terms,
           rows[text] # NoRow
    PROVE  Resolved(rows, text) = {rows[text].id}
<1> DEFINE direct == Candidate("alias_table", rows[text], 100)
<1>1. text \in Known(rows)
    BY DEF Known
<1>2. direct \in Layers(rows, text)
    BY <1>1 DEF Layers
<1>3. \A d \in Layers(rows, text) : d # direct => Score(d) < Score(direct)
    BY DirectOutweighs
<1>4. direct.id = rows[text].id /\ direct.confidence = 100 /\ direct.id \in Int
    BY DEF Candidate, RowType
<1>5. \A d \in Layers(rows, text) : Score(d) \in Int
  <2> SUFFICES ASSUME NEW d \in Layers(rows, text) PROVE Score(d) \in Int
      OBVIOUS
  <2>1. PICK a \in Known(rows) :
          \/ d = Candidate("alias_table", rows[a], 100)
          \/ d = Candidate("abbreviation", rows[a], 95)
          \/ d = Candidate("fuzzy", rows[a], Fuzzy[text][a])
          \/ d = Candidate("embedding", rows[a], Embedded[text][a])
      BY DEF Layers, Abbreviated, Nearest
  <2>2. a \in Terms /\ rows[a].name \in Terms
      BY DEF Known, RowType
  <2>3. Fuzzy[text][a] \in Int /\ Embedded[text][a] \in Int
      BY <2>2, SimilarityInt
  <2>4. d.name \in Terms /\ d.confidence \in Int
          /\ d.layer \in {"alias_table", "abbreviation", "fuzzy", "embedding"}
      BY <2>1, <2>2, <2>3 DEF Candidate
  <2>5. Weight(d.layer) \in Int
    <3>1. CASE d.layer = "alias_table"
        BY <3>1 DEF Weight
    <3>2. CASE d.layer = "abbreviation"
        BY <3>2 DEF Weight
    <3>3. CASE d.layer = "fuzzy"
        BY <3>3 DEF Weight
    <3>4. CASE d.layer = "embedding"
        BY <3>4 DEF Weight
    <3> QED
        BY <2>4, <3>1, <3>2, <3>3, <3>4
  <2> QED
      BY <2>4, <2>5, ScoreBounds
<1> HIDE DEF direct
<1>6. Winners(rows, text) = {direct}
    BY <1>2, <1>3, <1>4, <1>5 DEF Winners
<1>7. {w \in Winners(rows, text) : w.confidence >= MinResolutionScore} = {direct}
    BY <1>4, <1>6, AliasesAssumption
<1> QED
    BY <1>4, <1>7 DEF Resolved
-----------------------------------------------------------------------------
(************************ the inductive invariant **************************)

OpenType ==
    [pc : {"read"}, c : Confirmations, row : RowType \cup {NoRow}, raced : BOOLEAN]
RequestType == {Idle} \cup OpenType

Typed ==
    /\ table \in [Terms -> RowType \cup {NoRow}]
    /\ req \in [Requests -> RequestType]
    /\ history \in Seq(Confirmations)
    /\ raced \subseteq Terms

\* What a request has read is still there, unless it is marked.
Fresh ==
    \A r \in Requests :
        Open(r) /\ ~req[r].raced => req[r].row = table[req[r].c.alias]

\* The user has confirmed the row itself, or outdone it.
Taken(alias, i) ==
    LET seed == Bootstrapped[alias]
    IN  \/ seed = NoRow
        \/ Strength(i) >= seed.confidence
        \/ \E j \in Of(alias) : history[j].id = seed.id

\* The row that the confirmations of an alias, i the first of the strongest,
\* leave it with.
Held(alias, i) ==
    LET seed == Bootstrapped[alias]
        row == table[alias]
    IN  /\ row # NoRow
        /\ row.id = Left(alias, i)
        /\ row.confidence = IF seed # NoRow /\ seed.confidence >= Strength(i)
                            THEN seed.confidence ELSE Strength(i)
        /\ row.source = "user_confirmed" <=> Taken(alias, i)

Decided(alias) ==
    IF Of(alias) = {} THEN table[alias] = Bootstrapped[alias]
    ELSE \E i \in Of(alias) : Strongest(alias, i) /\ Held(alias, i)

\* Nor does a row ever go.
Remembered ==
    \A r \in Requests :
        Open(r) /\ req[r].row # NoRow => table[req[r].c.alias] # NoRow

Inv ==
    /\ Typed
    /\ Fresh
    /\ Remembered
    /\ \A alias \in Terms \ raced : Decided(alias)
-----------------------------------------------------------------------------
(***************************** a confirmation ******************************)

\* What upsert_alias makes of a row, case by case.
LEMMA UpsertedRow ==
    ASSUME NEW row \in RowType \cup {NoRow}, NEW c \in Confirmations,
           NEW strength, strength = Bounded(c.confidence)
    PROVE  /\ Upserted(row, c) \in RowType
           /\ row = NoRow \/ row.id = c.id \/ ShouldReplace(row, strength) =>
                /\ Upserted(row, c).id = c.id
                /\ Upserted(row, c).source = "user_confirmed"
           /\ row = NoRow => Upserted(row, c).confidence = strength
           /\ row # NoRow /\ row.id = c.id =>
                Upserted(row, c).confidence
                  = IF row.confidence >= strength THEN row.confidence ELSE strength
           /\ row # NoRow /\ row.id # c.id /\ ShouldReplace(row, strength) =>
                Upserted(row, c).confidence = strength
           /\ row # NoRow /\ row.id # c.id /\ ~ShouldReplace(row, strength) =>
                Upserted(row, c) = row
<1>1. c.id \in Nat /\ c.name \in Terms /\ c.confidence \in Int
    BY AliasesAssumption
<1>2. strength \in 0 .. 100
    BY <1>1, BoundedPercent
<1> DEFINE new == [id |-> c.id, name |-> c.name, confidence |-> strength,
                   source |-> "user_confirmed"]
<1>3. new \in RowType
    BY <1>1, <1>2 DEF RowType
<1>4. Upserted(row, c) =
        IF row = NoRow THEN new
        ELSE IF row.id = c.id THEN [new EXCEPT !.confidence = Max({row.confidence, strength})]
        ELSE IF ShouldReplace(row, strength) THEN new
        ELSE row
    BY DEF Upserted
<1>5. CASE row # NoRow /\ row.id = c.id
  <2>1. row.confidence \in 0 .. 100
      BY <1>5 DEF RowType
  <2> row.confidence \in Int /\ strength \in Int
      BY <1>2, <2>1
  <2>2. Max({row.confidence, strength})
          = IF row.confidence >= strength THEN row.confidence ELSE strength
      BY MaxOfTwo
  <2>3. Max({row.confidence, strength}) \in 0 .. 100
      BY <1>2, <2>1, <2>2
  <2> HIDE DEF ShouldReplace
  <2> QED
      BY <1>1, <1>4, <1>5, <2>2, <2>3 DEF RowType
<1>6. CASE ~(row # NoRow /\ row.id = c.id)
    BY <1>3, <1>4, <1>6
<1> QED
    BY <1>5, <1>6

\* An UPDATE over a row nobody has touched writes the whole new row.
LEMMA UpdatedFresh ==
    ASSUME NEW row \in RowType, NEW new \in RowType
    PROVE  Updated(row, new, row) = new
BY DEF Updated, Column, RowType

\* An UPDATE over any row leaves a row.
LEMMA UpdatedRow ==
    ASSUME NEW seen \in RowType, NEW new \in RowType, NEW now \in RowType
    PROVE  Updated(seen, new, now) \in RowType
BY DEF Updated, Column, RowType

\* The invariant holds of the bootstrapped table.
LEMMA InitInv == Init => Inv
<1> SUFFICES ASSUME Init PROVE Inv
    OBVIOUS
<1> USE DEF Init
<1>1. Typed
    BY AliasesAssumption, EmptySeq DEF Typed, RequestType, OpenType
<1>2. Fresh
    BY DEF Fresh, Open, Idle
<1>3. Remembered
    BY DEF Remembered, Open, Idle
<1>4. ASSUME NEW alias \in Terms PROVE Decided(alias)
  <2>1. Of(alias) = {}
      BY DEF Of
  <2> QED
      BY <2>1 DEF Decided
<1> QED
    BY <1>1, <1>2, <1>3, <1>4 DEF Inv

\* A request that is opened or closed says nothing of the rows.
LEMMA DecidedSame ==
    ASSUME UNCHANGED <<table, history>>, NEW alias \in Terms, Decided(alias)
    PROVE  Decided(alias)'
BY DEF Decided, Of, Strongest, Held, Left, Taken, Strength

\* Reading keeps the invariant.
LEMMA ReadInv ==
    ASSUME Inv, NEW r \in Requests, NEW c \in Confirmations, Read(r, c)
    PROVE  Inv'
<1>1. c.alias \in Terms
    BY AliasesAssumption
<1> DEFINE opened == [pc |-> "read", c |-> c, row |-> table[c.alias], raced |-> FALSE]
<1>2. opened \in RequestType
    BY <1>1 DEF RequestType, OpenType, Inv, Typed
<1>3. req' = [req EXCEPT ![r] = opened] /\ UNCHANGED <<table, history, raced>>
    BY DEF Read
<1>4. opened.row = table[opened.c.alias]
    OBVIOUS
<1> HIDE DEF opened
<1>5. Typed'
    BY <1>2, <1>3 DEF Inv, Typed
<1>6. Fresh'
  <2> SUFFICES ASSUME NEW p \in Requests, Open(p)', ~req'[p].raced
               PROVE  req'[p].row = table'[req'[p].c.alias]
      BY DEF Fresh
  <2>1. CASE p = r
      BY <1>3, <1>4, <2>1 DEF Inv, Typed
  <2>2. CASE p # r
      BY <1>3, <2>2 DEF Inv, Typed, Fresh, Open
  <2> QED
      BY <2>1, <2>2
<1>7. Remembered'
  <2> SUFFICES ASSUME NEW p \in Requests, Open(p)', req'[p].row # NoRow
               PROVE  table'[req'[p].c.alias] # NoRow
      BY DEF Remembered
  <2>1. CASE p = r
      BY <1>3, <1>4, <2>1 DEF Inv, Typed
  <2>2. CASE p # r
      BY <1>3, <2>2 DEF Inv, Typed, Remembered, Open
  <2> QED
      BY <2>1, <2>2
<1>8. \A alias \in Terms \ raced' : Decided(alias)'
    BY <1>3, DecidedSame DEF Inv
<1> QED
    BY <1>5, <1>6, <1>7, <1>8 DEF Inv

\* So does a refused insert.
LEMMA RefuseInv ==
    ASSUME Inv, NEW r \in Requests, Refuse(r)
    PROVE  Inv'
<1>1. req' = [req EXCEPT ![r] = Idle] /\ UNCHANGED <<table, history, raced>>
    BY DEF Refuse
<1>2. Typed'
    BY <1>1 DEF Inv, Typed, RequestType, OpenType
<1>3. Fresh'
    BY <1>1 DEF Inv, Typed, Fresh, Open, Idle
<1>4. Remembered'
    BY <1>1 DEF Inv, Typed, Remembered, Open, Idle
<1>5. \A alias \in Terms \ raced' : Decided(alias)'
    BY <1>1, DecidedSame DEF Inv
<1> QED
    BY <1>2, <1>3, <1>4, <1>5 DEF Inv

\* A confirmation of an alias that nobody raced leaves the row that is due.
LEMMA WriteDecides ==
    ASSUME Inv, NEW c \in Confirmations,
           history' = Append(history, c),
           table'[c.alias] = Upserted(table[c.alias], c),
           Decided(c.alias)
    PROVE  Decided(c.alias)'
<1>0. PICK a, n, strength, row, seed :
        /\ a = c.alias /\ n = Len(history) + 1
        /\ strength = Bounded(c.confidence)
        /\ row = table[a] /\ seed = Bootstrapped[a]
    OBVIOUS
<1>1. /\ a \in Terms
      /\ row \in RowType \cup {NoRow}
      /\ row # NoRow => row.confidence \in Int
      /\ seed # NoRow => seed.source = "bootstrap" /\ seed.confidence \in Int
  <2>1. /\ a \in Terms
        /\ row \in RowType \cup {NoRow}
        /\ seed \in RowType \cup {NoRow}
        /\ seed # NoRow => seed.source = "bootstrap"
      BY <1>0, AliasesAssumption DEF Inv, Typed
  <2>2. ASSUME NEW r \in RowType PROVE r.confidence \in 0 .. 100
      BY DEF RowType
  <2>3. \A r \in RowType : r.confidence \in Int
    <3>1. \A x \in 0 .. 100 : x \in Int
        OBVIOUS
    <3> QED
        BY <2>2, <3>1, Zenon
  <2> QED
      BY <2>1, <2>3
<1>2. strength \in Int
  <2>1. c.confidence \in Int
      BY AliasesAssumption
  <2>2. Bounded(c.confidence) \in 0 .. 100
      BY <2>1, BoundedPercent
  <2> QED
      BY <1>0, <2>2
<1>3. /\ history \in Seq(Confirmations) /\ Len(history) \in Nat
      /\ DOMAIN history = 1 .. Len(history) /\ DOMAIN history' = 1 .. n
      /\ history'[n] = c
      /\ \A i \in 1 .. Len(history) : history'[i] = history[i]
    BY <1>0 DEF Inv, Typed
<1>4. /\ n \in Nat /\ Of(a) \subseteq 1 .. Len(history)
      /\ Of(a)' = Of(a) \cup {n} /\ n \notin Of(a)
      /\ Strength(n)' = strength
      /\ \A i \in Of(a) : Strength(i)' = Strength(i) /\ i < n
    BY <1>0, <1>3 DEF Of, Strength
<1>5. \A i \in Of(a) : Strength(i) \in Int
  <2> SUFFICES ASSUME NEW i \in Of(a) PROVE Strength(i) \in Int
      OBVIOUS
  <2>1. history[i] \in Confirmations
      BY <1>0, <1>3, <1>4
  <2>2. history[i].confidence \in Int
      BY <1>0, <2>1, AliasesAssumption
  <2>3. Bounded(history[i].confidence) \in 0 .. 100
      BY <2>2, BoundedPercent
  <2>4. Strength(i) \in 0 .. 100
      BY <2>3, Zenon DEF Strength
  <2>5. \A x \in 0 .. 100 : x \in Int
      OBVIOUS
  <2> QED
      BY <2>4, <2>5, Zenon
<1>6. PICK new : new = Upserted(row, c)
    OBVIOUS
<1>7. /\ new \in RowType /\ new # NoRow
      /\ row = NoRow \/ row.id = c.id \/ ShouldReplace(row, strength) =>
           new.id = c.id /\ new.source = "user_confirmed"
      /\ row = NoRow => new.confidence = strength
      /\ row # NoRow /\ row.id = c.id =>
           new.confidence = IF row.confidence >= strength THEN row.confidence ELSE strength
      /\ row # NoRow /\ row.id # c.id /\ ShouldReplace(row, strength) =>
           new.confidence = strength
      /\ row # NoRow /\ row.id # c.id /\ ~ShouldReplace(row, strength) => new = row
  <2> HIDE DEF ShouldReplace
  <2>1. NoRow \notin RowType
      BY AliasesAssumption
  <2> QED
      BY <1>0, <1>1, <1>6, <2>1, UpsertedRow
<1>8. table'[a] = new
    BY <1>0, <1>6
<1>9. CASE Of(a) = {}
  <2>1. Of(a)' = {n} /\ Strongest(a, n)'
      BY <1>0, <1>2, <1>4, <1>9 DEF Strongest
  <2>2. row = seed
      BY <1>0, <1>9 DEF Decided
  <2>3. Left(a, n)' = IF seed = NoRow \/ strength >= seed.confidence THEN c.id ELSE seed.id
      BY <1>0, <1>1, <1>2, <1>3, <1>4, <2>1 DEF Left
  <2>4. Taken(a, n)' <=> seed = NoRow \/ strength >= seed.confidence \/ c.id = seed.id
      BY <1>0, <1>3, <1>4, <2>1 DEF Taken
  <2>5. Held(a, n)'
      BY <1>0, <1>1, <1>2, <1>4, <1>7, <1>8, <2>2, <2>3, <2>4 DEF Held, ShouldReplace
  <2> QED
      BY <1>0, <2>1, <2>5 DEF Decided
<1>10. CASE Of(a) # {}
  <2>1. PICK i \in Of(a) : Strongest(a, i) /\ Held(a, i)
      BY <1>0, <1>10 DEF Decided
  <2>2. /\ row # NoRow
        /\ row.id = Left(a, i)
        /\ row.confidence = IF seed # NoRow /\ seed.confidence >= Strength(i)
                            THEN seed.confidence ELSE Strength(i)
        /\ row.source = "user_confirmed" <=> Taken(a, i)
      BY <1>0, <2>1 DEF Held
  <2>3. CASE strength <= Strength(i)
    <3>1. Strongest(a, i)'
        BY <1>0, <1>2, <1>3, <1>4, <1>5, <2>1, <2>3 DEF Strongest
    <3>2. Left(a, i)' = Left(a, i)
        BY <1>0, <1>3, <1>4, <2>1 DEF Left
    <3>3. Taken(a, i)' <=> Taken(a, i) \/ c.id = seed.id
        BY <1>0, <1>3, <1>4, <2>1 DEF Taken
    <3>4. seed = NoRow \/ Strength(i) >= seed.confidence => Taken(a, i)
        BY <1>0 DEF Taken
    <3>5. ~(seed = NoRow \/ Strength(i) >= seed.confidence) => Left(a, i) = seed.id
        BY <1>0, <1>1, <1>5, <2>1 DEF Left
    <3>6. Held(a, i)'
        BY <1>0, <1>1, <1>2, <1>4, <1>5, <1>7, <1>8, <2>1, <2>2, <2>3, <3>2, <3>3, <3>4, <3>5
           DEF Held, ShouldReplace
    <3> QED
        BY <1>0, <1>4, <2>1, <3>1, <3>6 DEF Decided
  <2>4. CASE strength > Strength(i)
    <3>1. Strongest(a, n)'
        BY <1>0, <1>2, <1>3, <1>4, <1>5, <2>1, <2>4 DEF Strongest
    <3>2. /\ seed # NoRow /\ seed.confidence >= strength => Left(a, i) = seed.id
          /\ seed # NoRow /\ seed.confidence >= strength =>
               (Taken(a, i) <=> \E j \in Of(a) : history[j].id = seed.id)
        BY <1>0, <1>1, <1>2, <1>5, <2>1, <2>4 DEF Left, Taken
    <3>3. Left(a, n)'
            = IF \/ seed = NoRow
                 \/ strength > seed.confidence
                 \/ strength = seed.confidence /\ ~\E j \in Of(a) : history[j].id = seed.id
              THEN c.id ELSE seed.id
        BY <1>0, <1>3, <1>4 DEF Left
    <3>4. Taken(a, n)' <=> \/ seed = NoRow
                           \/ strength >= seed.confidence
                           \/ c.id = seed.id
                           \/ \E j \in Of(a) : history[j].id = seed.id
        BY <1>0, <1>3, <1>4 DEF Taken
    <3>5. Held(a, n)'
        BY <1>0, <1>1, <1>2, <1>4, <1>5, <1>7, <1>8, <2>1, <2>2, <2>4, <3>2, <3>3, <3>4
           DEF Held, ShouldReplace
    <3> QED
        BY <1>0, <1>4, <3>1, <3>5 DEF Decided
  <2> QED
      BY <1>0, <1>2, <1>5, <2>1, <2>3, <2>4
<1> QED
    BY <1>0, <1>9, <1>10

\* Elsewhere a confirmation leaves things as they are.
LEMMA WriteElsewhere ==
    ASSUME Inv, NEW c \in Confirmations, history' = Append(history, c),
           NEW alias \in Terms, alias # c.alias,
           table'[alias] = table[alias],
           Decided(alias)
    PROVE  Decided(alias)'
<1>1. /\ DOMAIN history = 1 .. Len(history) /\ DOMAIN history' = 1 .. (Len(history) + 1)
      /\ history'[Len(history) + 1] = c
      /\ \A i \in 1 .. Len(history) : history'[i] = history[i]
      /\ Len(history) \in Nat
    BY DEF Inv, Typed
<1>2. Of(alias)' = Of(alias) /\ \A i \in Of(alias) : history'[i] = history[i]
    BY <1>1 DEF Of
<1>3. CASE Of(alias) = {}
    BY <1>2, <1>3 DEF Decided
<1>4. CASE Of(alias) # {}
  <2>1. PICK i \in Of(alias) : Strongest(alias, i) /\ Held(alias, i)
      BY <1>4 DEF Decided
  <2>2. \A j \in Of(alias) : Strength(j)' = Strength(j)
      BY <1>2 DEF Strength
  <2>3. Strongest(alias, i)'
      BY <1>2, <2>1, <2>2 DEF Strongest
  <2>4. Left(alias, i)' = Left(alias, i)
      BY <1>2, <2>1, <2>2 DEF Left
  <2>5. Taken(alias, i)' <=> Taken(alias, i)
      BY <1>2, <2>1, <2>2 DEF Taken
  <2>6. Held(alias, i)'
      BY <2>1, <2>2, <2>4, <2>5 DEF Held
  <2> QED
      BY <1>2, <2>1, <2>3, <2>6 DEF Decided
<1> QED
    BY <1>3, <1>4

\* Writing keeps the invariant.
LEMMA WriteInv ==
    ASSUME Inv, NEW r \in Requests, Write(r)
    PROVE  Inv'
<1>1. PICK c, seen, now, new :
        /\ c = req[r].c /\ seen = req[r].row /\ now = table[c.alias]
        /\ new = Upserted(seen, c)
    OBVIOUS
<1>2. /\ req[r].pc = "read"
      /\ seen = NoRow => now = NoRow
      /\ table' = [table EXCEPT ![c.alias] =
                     IF seen = NoRow THEN new ELSE Updated(seen, new, now)]
      /\ history' = Append(history, c)
      /\ raced' = IF req[r].raced THEN raced \cup {c.alias} ELSE raced
      /\ req' = Overlap(r, c.alias)
    BY <1>1 DEF Write, Open
<1>3. req[r] \in OpenType
    BY <1>2 DEF Inv, Typed, RequestType, OpenType, Idle
<1>4. c \in Confirmations /\ c.alias \in Terms
        /\ seen \in RowType \cup {NoRow} /\ now \in RowType \cup {NoRow}
  <2>1. c \in Confirmations /\ seen \in RowType \cup {NoRow}
      BY <1>1, <1>3 DEF OpenType
  <2>2. c.alias \in Terms
      BY <2>1, AliasesAssumption
  <2> QED
      BY <1>1, <2>1, <2>2 DEF Inv, Typed
<1>5. new \in RowType
    BY <1>1, <1>4, UpsertedRow
<1>6. PICK written : written = IF seen = NoRow THEN new ELSE Updated(seen, new, now)
    OBVIOUS
<1>7. table' = [table EXCEPT ![c.alias] = written]
    BY <1>2, <1>6
<1>8. Open(r) /\ (~req[r].raced => seen = now)
    BY <1>1, <1>2 DEF Inv, Fresh, Open
<1>9. seen # NoRow => now # NoRow
    BY <1>1, <1>8 DEF Inv, Remembered
<1>10. written \in RowType
    BY <1>4, <1>5, <1>6, <1>9, UpdatedRow
<1>11. \A p \in Requests :
         /\ p = r => req'[p] = Idle
         /\ p # r /\ ~(Open(p) /\ req[p].c.alias = c.alias) => req'[p] = req[p]
         /\ p # r /\ Open(p) /\ req[p].c.alias = c.alias =>
              req'[p] = [req[p] EXCEPT !.raced = TRUE]
    BY <1>2 DEF Overlap
<1>12. \A p \in Requests : Open(p) =>
         /\ req[p] \in OpenType
         /\ req[p].c.alias \in Terms
  <2> SUFFICES ASSUME NEW p \in Requests, Open(p)
               PROVE  req[p] \in OpenType /\ req[p].c.alias \in Terms
      OBVIOUS
  <2>1. req[p] \in OpenType
      BY DEF Inv, Typed, RequestType, OpenType, Open, Idle
  <2>2. req[p].c.alias \in Terms
      BY <2>1, AliasesAssumption DEF OpenType
  <2> QED
      BY <2>1, <2>2
<1>13. Typed'
  <2>1. table' \in [Terms -> RowType \cup {NoRow}]
      BY <1>7, <1>10 DEF Inv, Typed
  <2>2. history' \in Seq(Confirmations)
      BY <1>2, <1>4 DEF Inv, Typed
  <2>3. raced' \subseteq Terms
      BY <1>2, <1>4 DEF Inv, Typed
  <2>4. req' \in [Requests -> RequestType]
    <3>1. ASSUME NEW p \in Requests PROVE req'[p] \in RequestType
      <4>1. CASE p = r
          BY <1>11, <4>1 DEF RequestType, OpenType
      <4>2. CASE p # r /\ ~(Open(p) /\ req[p].c.alias = c.alias)
          BY <1>11, <4>2 DEF Inv, Typed
      <4>3. CASE p # r /\ Open(p) /\ req[p].c.alias = c.alias
          BY <1>11, <1>12, <4>3 DEF RequestType, OpenType
      <4> QED
          BY <4>1, <4>2, <4>3
    <3> QED
        BY <1>2, <3>1 DEF Overlap
  <2> QED
      BY <2>1, <2>2, <2>3, <2>4 DEF Typed
<1>14. ASSUME NEW p \in Requests, Open(p)'
       PROVE  /\ p # r /\ Open(p)
              /\ req'[p].row = req[p].row /\ req'[p].c = req[p].c
              /\ req[p].c.alias \in Terms
              /\ ~req'[p].raced => ~req[p].raced /\ req[p].c.alias # c.alias
  <2>1. p # r
    <3>1. req'[r] = Idle
        BY <1>11
    <3>2. Idle.pc = "idle"
        BY DEF Idle
    <3>3. req'[p].pc = "read"
        BY <1>14 DEF Open
    <3> QED
        BY <3>1, <3>2, <3>3
  <2>2. CASE ~(Open(p) /\ req[p].c.alias = c.alias)
      BY <1>11, <1>12, <1>14, <2>1, <2>2 DEF Open
  <2>3. CASE Open(p) /\ req[p].c.alias = c.alias
      BY <1>11, <1>12, <2>1, <2>3 DEF OpenType
  <2> QED
      BY <2>2, <2>3
<1>15. Fresh'
    BY <1>7, <1>14 DEF Inv, Typed, Fresh
<1>16. Remembered'
    BY <1>4, <1>7, <1>10, <1>14, AliasesAssumption DEF Inv, Typed, Remembered
<1>17. ASSUME NEW alias \in Terms \ raced' PROVE Decided(alias)'
  <2>1. alias \notin raced /\ Decided(alias)
      BY <1>2, <1>17 DEF Inv
  <2>2. CASE alias = c.alias
    <3>1. seen = now
        BY <1>2, <1>8, <1>17, <2>2
    <3>2. written = new
        BY <1>4, <1>5, <1>6, <3>1, UpdatedFresh
    <3>3. table'[c.alias] = Upserted(table[c.alias], c)
        BY <1>1, <1>4, <1>7, <3>1, <3>2 DEF Inv, Typed
    <3> QED
        BY <1>2, <1>4, <2>1, <2>2, <3>3, WriteDecides
  <2>3. CASE alias # c.alias
    <3>1. table'[alias] = table[alias]
        BY <1>7, <2>3 DEF Inv, Typed
    <3> QED
        BY <1>2, <1>4, <2>1, <2>3, <3>1, WriteElsewhere
  <2> QED
      BY <2>2, <2>3
<1> QED
    BY <1>13, <1>15, <1>16, <1>17 DEF Inv

\* Every step keeps the invariant.
LEMMA NextInv == Inv /\ [Next]_vars => Inv'
<1> SUFFICES ASSUME Inv, [Next]_vars PROVE Inv'
    OBVIOUS
<1>1. ASSUME NEW r \in Requests, NEW c \in Confirmations, Read(r, c) PROVE Inv'
    BY <1>1, ReadInv
<1>2. ASSUME NEW r \in Requests, Write(r) PROVE Inv'
    BY <1>2, WriteInv
<1>3. ASSUME NEW r \in Requests, Refuse(r) PROVE Inv'
    BY <1>3, RefuseInv
<1>4. CASE UNCHANGED vars
  <2>1. Typed' /\ Fresh' /\ Remembered'
      BY <1>4 DEF vars, Inv, Typed, Fresh, Remembered, Open
  <2>2. \A alias \in Terms \ raced' : Decided(alias)'
      BY <1>4, DecidedSame DEF vars, Inv
  <2> QED
      BY <2>1, <2>2 DEF Inv
<1> QED
    BY <1>1, <1>2, <1>3, <1>4 DEF Next

\* Under the invariant the resolver finds what is due.
LEMMA InvConfirmed == Inv => ConfirmedAliasWins
<1> SUFFICES ASSUME Inv, NEW alias \in Terms \ raced
             PROVE  IF Of(alias) = {}
                    THEN table[alias] = Bootstrapped[alias]
                           /\ table[alias] # NoRow => Resolved(table, alias) = {table[alias].id}
                    ELSE \E i \in Of(alias) :
                             Strongest(alias, i) /\ Resolved(table, alias) = {Left(alias, i)}
    BY DEF ConfirmedAliasWins
<1>1. Decided(alias)
    BY DEF Inv
<1>2. table[alias] # NoRow => Resolved(table, alias) = {table[alias].id}
    BY DirectWins DEF Inv, Typed
<1>3. CASE Of(alias) = {}
    BY <1>1, <1>2, <1>3 DEF Decided
<1>4. CASE Of(alias) # {}
  <2>1. PICK i \in Of(alias) : Strongest(alias, i) /\ Held(alias, i)
      BY <1>1, <1>4 DEF Decided
  <2>2. table[alias] # NoRow /\ table[alias].id = Left(alias, i)
      BY <2>1 DEF Held
  <2> QED
      BY <1>2, <1>4, <2>1, <2>2
<1> QED
    BY <1>3, <1>4

\* The text of an alias resolves to the entity confirmed first with the highest
\* confidence, or to the bootstrapped one if that is stronger, unless two of its
\* confirmations overlapped: for every table, every similarity of texts and
\* any number of users (entity_alias_repository.py:76-107, ranking.py:23-41).
THEOREM Confirmed == Spec => []ConfirmedAliasWins
<1>1. Inv /\ [Next]_vars => Inv'
    BY NextInv
<1> QED
    BY <1>1, InitInv, InvConfirmed, PTL DEF Spec
-----------------------------------------------------------------------------
(************************ candidates and salience ************************)

\* What a candidate is.
SpanType == [text : Phrases, lemma : Seq(Vocabulary) \ {<<>>}]

\* Candidates, no two of one surface.
Distinct(spans) ==
    /\ spans \subseteq SpanType /\ IsFiniteSet(spans)
    /\ \A s, t \in spans : s.text = t.text => s = t

\* A set of bounded integers has its maximum.
LEMMA MaxOf ==
    ASSUME NEW T \in SUBSET Int, T # {}, NEW top \in Int, \A k \in T : k <= top
    PROVE  Max(T) \in T /\ \A k \in T : k <= Max(T)
<1>1. \E m \in T : \A k \in T : m >= k
  BY GreatestInteger
<1> QED BY <1>1 DEF Max

\* And a set of naturals its minimum.
LEMMA MinOf ==
    ASSUME NEW T \in SUBSET Nat, T # {}
    PROVE  Min(T) \in T /\ \A k \in T : Min(T) <= k
<1>1. \E m \in T : \A k \in T : m <= k
  BY LeastNumber
<1> QED BY <1>1 DEF Min

\* A chunk without its leading stop words is a chunk.
LEMMA TrimmedIs ==
    ASSUME NEW chunk \in Seq(Tokens), Trimmed(chunk) # <<>>
    PROVE  Trimmed(chunk) \in Seq(Tokens)
<1> DEFINE content == {i \in DOMAIN chunk : ~chunk[i].stop}
<1>1. CASE content = {}
  BY <1>1 DEF Trimmed
<1>2. CASE content # {}
  <2>1. content \in SUBSET Nat
    OBVIOUS
  <2>2. Min(content) \in content
    <3> HIDE DEF content
    <3> QED BY <1>2, <2>1, MinOf
  <2>3. Trimmed(chunk) = SubSeq(chunk, Min(content), Len(chunk))
    BY <1>2, Zenon DEF Trimmed
  <2>4. Min(content) \in 1 .. Len(chunk) /\ Len(chunk) \in Nat
    BY <2>2
  <2>5. \A i \in Min(content) .. Len(chunk) : chunk[i] \in Tokens
    BY <2>4
  <2> HIDE DEF content
  <2>6. SubSeq(chunk, Min(content), Len(chunk)) \in Seq(Tokens)
    BY <2>4, <2>5, SubSeqProperties
  <2> QED BY <2>3, <2>6
<1> QED BY <1>1, <1>2

\* The span of a chunk.
LEMMA SpanIs ==
    ASSUME NEW chunk \in Seq(Tokens), chunk # <<>>, Phrase(chunk) \in Phrases
    PROVE  Span(chunk) \in SpanType
<1>1. Len(chunk) \in Nat /\ Len(chunk) # 0 /\ DOMAIN chunk = 1 .. Len(chunk)
  BY EmptySeq, LenProperties
<1> DEFINE lemma == [i \in DOMAIN chunk |-> chunk[i].lemma]
<1>2. lemma \in Seq(Vocabulary) /\ Len(lemma) = Len(chunk)
  <2>1. \A i \in DOMAIN chunk : chunk[i] \in Tokens
    BY <1>1, ElementOfSeq
  <2>2. \A i \in DOMAIN chunk : chunk[i].lemma \in Vocabulary
    BY <2>1 DEF Tokens
  <2> QED BY <1>1, <2>2
<1>3. lemma # <<>>
  BY <1>1, <1>2
<1> QED BY <1>2, <1>3 DEF Span, SpanType

\* The candidates of a note.
LEMMA CandidatesAre ==
    ASSUME NEW n \in Notes PROVE Distinct(Candidates(n))
<1> DEFINE content(i) == Trimmed(n.chunks[i])
           first == {j \in DOMAIN n.chunks :
                       /\ content(j) # <<>>
                       /\ \A k \in 1 .. (j - 1) : Phrase(content(k)) # Phrase(content(j))}
<1>1. /\ n.chunks \in Seq(Seq(Tokens)) /\ Len(n.chunks) \in Nat
      /\ DOMAIN n.chunks = 1 .. Len(n.chunks)
  BY PipelineAssumption DEF NoteType
<1>2. Candidates(n) = {Span(content(i)) : i \in first}
  BY DEF Candidates
<1>3. ASSUME NEW i \in first PROVE Span(content(i)) \in SpanType
  <2>1. i \in DOMAIN n.chunks /\ content(i) # <<>> /\ n.chunks[i] \in Seq(Tokens)
    BY <1>1
  <2>2. content(i) \in Seq(Tokens)
    BY <2>1, TrimmedIs
  <2>3. Phrase(content(i)) \in Phrases
    BY <2>1, PipelineAssumption
  <2> QED BY <2>1, <2>2, <2>3, SpanIs
<1>4. ASSUME NEW i \in first, NEW k \in first, Span(content(i)).text = Span(content(k)).text
      PROVE  i = k
  <2>1. Phrase(content(i)) = Phrase(content(k))
    BY <1>4, Zenon DEF Span
  <2>2. i \in Nat /\ k \in Nat /\ i >= 1 /\ k >= 1
    BY <1>1
  <2>3. ~(i < k)
    BY <2>1, <2>2
  <2>4. ~(k < i)
    BY <2>1, <2>2
  <2> QED BY <2>2, <2>3, <2>4
<1>5. IsFiniteSet(first)
  <2>1. IsFiniteSet(1 .. Len(n.chunks))
    BY <1>1, FS_Interval
  <2>2. first \subseteq 1 .. Len(n.chunks)
    BY <1>1
  <2> QED BY <2>1, <2>2, FS_Subset
<1>6. IsFiniteSet(Candidates(n))
  <2> DEFINE f == [i \in first |-> Span(content(i))]
  <2> HIDE DEF content, first
  <2>1. f \in Surjection(first, Candidates(n))
    BY <1>2 DEF Surjection
  <2> QED BY <1>5, <2>1, FS_Surjection
<1> HIDE DEF content, first
<1>7. \A s, t \in Candidates(n) : s.text = t.text => s = t
  BY <1>2, <1>4
<1>8. Candidates(n) \subseteq SpanType
  BY <1>2, <1>3
<1> QED BY <1>6, <1>7, <1>8 DEF Distinct

\* Scores are percentages and the threshold is a number.
LEMMA ScoreInt ==
    ASSUME NEW n \in Notes, NEW s \in SpanType
    PROVE  n.score[s.text] \in Int /\ n.score[s.text] <= 100
<1>1. n.score \in [Phrases -> -100 .. 100] /\ s.text \in Phrases
  BY PipelineAssumption DEF NoteType, SpanType
<1>2. n.score[s.text] \in -100 .. 100
  BY <1>1
<1> QED BY <1>2

LEMMA ThresholdInt ==
    ASSUME NEW n \in Notes, NEW spans, Distinct(spans), spans # {}
    PROVE  Threshold(n, spans) \in Int
<1> DEFINE scores == {n.score[s.text] : s \in spans}
<1>1. scores \in SUBSET Int /\ scores # {} /\ \A k \in scores : k <= 100
  BY ScoreInt DEF Distinct
<1> HIDE DEF scores
<1>2. Max(scores) \in Int
  <2>1. 100 \in Int /\ \A k \in scores : k <= 100
    BY <1>1
  <2>2. Max(scores) \in scores
    BY <1>1, <2>1, MaxOf, Zenon
  <2> QED BY <1>1, <2>2
<1> DEFINE two == {Floor, Max(scores) - Delta}
<1>3. Floor \in Int /\ Max(scores) - Delta \in Int
  BY <1>2, PipelineAssumption
<1>4. \E top \in Int : \A k \in two : k <= top
  BY <1>3
<1>5. Max(two) \in Int
  <2>1. two \in SUBSET Int /\ two # {}
    BY <1>3
  <2> HIDE DEF two
  <2> QED BY <1>4, <2>1, MaxOf
<1> QED BY <1>5 DEF Threshold, scores

\* Salience is a total order.
LEMMA SalienceOrders ==
    ASSUME NEW n \in Notes, NEW spans, Distinct(spans)
    PROVE  /\ Ordered(Salient(n, spans), MoreSalient(n, spans))
           /\ IsFiniteSet(Salient(n, spans))
           /\ \A s \in Salient(n, spans) : \A t \in MoreSalient(n, spans)[s] :
                  n.score[t.text] >= n.score[s.text]
<1> DEFINE S == Salient(n, spans)
           before == MoreSalient(n, spans)
           score(s) == n.score[s.text]
           rank(s) == Alphabetical[s.text]
<1>1. \A s \in S : s \in spans /\ s \in SpanType
  BY DEF Salient, Distinct
<1>2. \A s \in S : score(s) \in Int /\ rank(s) \in Nat /\ s.text \in Phrases
  <2>1. \A s \in S : s.text \in Phrases
    BY <1>1 DEF SpanType
  <2> QED BY <1>1, <2>1, ScoreInt, PipelineAssumption
<1>3. \A s, t \in S : rank(s) = rank(t) => s = t
  BY <1>1, <1>2, PipelineAssumption DEF Distinct
<1>4. DOMAIN before = S /\ \A s \in S : before[s] \in SUBSET S
  BY DEF MoreSalient
<1>5. \A s, t \in S : t \in before[s] <=> \/ score(t) > score(s)
                                          \/ score(t) = score(s) /\ rank(t) < rank(s)
  BY DEF MoreSalient
<1>6. before \in [S -> SUBSET S]
  BY DEF MoreSalient
<1>7. IsFiniteSet(S)
  <2>1. S \subseteq spans
    BY <1>1
  <2> QED BY <2>1, FS_Subset DEF Distinct
<1> HIDE DEF S, before, score, rank
<1>8. \A s \in S : s \notin before[s]
  BY <1>2, <1>5
<1>9. \A s, t \in S : s \in before[t] => before[s] \subseteq before[t]
  <2> SUFFICES ASSUME NEW s \in S, NEW t \in S, s \in before[t], NEW u \in before[s]
               PROVE  u \in before[t]
    OBVIOUS
  <2>1. u \in S
    BY <1>4
  <2> QED BY <1>2, <1>5, <2>1
<1>10. \A s, t \in S : s # t => s \in before[t] \/ t \in before[s]
  BY <1>2, <1>3, <1>5
<1>11. Ordered(S, before)
  BY <1>6, <1>8, <1>9, <1>10 DEF Ordered
<1>12. \A s \in S : \A t \in before[s] : score(t) >= score(s)
  BY <1>2, <1>4, <1>5
<1> QED BY <1>7, <1>11, <1>12 DEF S, before, score

\* The ranked candidates: each salient one once, by falling salience.
LEMMA RankedIs ==
    ASSUME NEW n \in Notes, NEW spans, Distinct(spans)
    PROVE  LET ranked == Ranked(n, spans)
               score(i) == n.score[ranked[i].text]
           IN  /\ ranked \in Seq(SpanType)
               /\ Range(ranked) = Salient(n, spans)
               /\ \A i, j \in 1 .. Len(ranked) : i < j => score(i) >= score(j)
<1> DEFINE S == Salient(n, spans)
           before == MoreSalient(n, spans)
           c == Cardinality(S)
           ranked == Ranked(n, spans)
<1>1. /\ Ordered(S, before) /\ IsFiniteSet(S)
      /\ \A s \in S : \A t \in before[s] : n.score[t.text] >= n.score[s.text]
  BY SalienceOrders
<1>2. DOMAIN before = S /\ \A s \in S : Rank(before)[s] = Cardinality(before[s])
  BY <1>1 DEF Ordered, Rank
<1>3. ranked = [i \in 1 .. c |-> CHOOSE s \in S : Cardinality(before[s]) = i - 1]
  BY <1>2 DEF Ranked
<1>4. c \in Nat /\ Rank(before) \in Bijection(S, 0 .. c - 1)
  BY <1>1, RankBijection
<1>5. \A s \in S : s \in SpanType /\ n.score[s.text] \in Int
  BY ScoreInt DEF Salient, Distinct
<1> HIDE DEF S, before, c, ranked
<1>6. \A i \in 1 .. c : ranked[i] \in S /\ Rank(before)[ranked[i]] = i - 1
  <2> SUFFICES ASSUME NEW i \in 1 .. c
               PROVE  ranked[i] \in S /\ Rank(before)[ranked[i]] = i - 1
    OBVIOUS
  <2>1. i - 1 \in 0 .. c - 1
    BY <1>4
  <2>2. \E s \in S : Rank(before)[s] = i - 1
    BY <1>4, <2>1 DEF Bijection, Surjection
  <2>3. \E s \in S : Cardinality(before[s]) = i - 1
    BY <1>2, <2>2
  <2>4. ranked[i] = CHOOSE s \in S : Cardinality(before[s]) = i - 1
    BY <1>3
  <2> QED BY <1>2, <2>3, <2>4, Zenon
<1>7. ranked \in Seq(SpanType) /\ Len(ranked) = c /\ DOMAIN ranked = 1 .. c
  <2>1. DOMAIN ranked = 1 .. c /\ ranked = [i \in 1 .. c |-> ranked[i]]
    BY <1>3
  <2>2. \A i \in 1 .. c : ranked[i] \in SpanType
    BY <1>5, <1>6
  <2>3. ranked \in [1 .. c -> SpanType]
    BY <2>1, <2>2
  <2> QED BY <1>4, <2>3
<1>8. Range(ranked) = S
  <2>1. \A s \in S : \E i \in 1 .. c : ranked[i] = s
    <3> SUFFICES ASSUME NEW s \in S PROVE \E i \in 1 .. c : ranked[i] = s
      OBVIOUS
    <3>1. /\ Rank(before)[s] \in 0 .. c - 1
          /\ \A x, y \in S : Rank(before)[x] = Rank(before)[y] => x = y
      BY <1>4 DEF Bijection, Injection, IsInjective
    <3>2. Rank(before)[s] + 1 \in 1 .. c /\ (Rank(before)[s] + 1) - 1 = Rank(before)[s]
      BY <1>4, <3>1
    <3> DEFINE i == Rank(before)[s] + 1
    <3>3. i \in 1 .. c /\ ranked[i] \in S /\ Rank(before)[ranked[i]] = Rank(before)[s]
      BY <1>6, <3>2
    <3> HIDE DEF i
    <3> QED BY <3>1, <3>3
  <2> QED BY <1>6, <1>7, <2>1 DEF Range
<1>9. ASSUME NEW i \in 1 .. c, NEW j \in 1 .. c, i < j
      PROVE  n.score[ranked[i].text] >= n.score[ranked[j].text]
  <2>1. i - 1 < j - 1
    BY <1>9
  <2>2. Rank(before)[ranked[i]] < Rank(before)[ranked[j]] /\ ranked[i] \in S /\ ranked[j] \in S
    BY <1>6, <2>1
  <2>3. ranked[i] \in before[ranked[j]]
    BY <1>1, <2>2, RankMonotone
  <2> QED BY <1>1, <2>2, <2>3
<1> QED BY <1>7, <1>8, <1>9, Zenon DEF S, ranked
-----------------------------------------------------------------------------
(************************* the redundancy filter *************************)

\* What adding to a sequence gives.
LEMMA AppendIs ==
    ASSUME NEW S, NEW s \in Seq(S), NEW e \in S
    PROVE  /\ Append(s, e) \in Seq(S) /\ Len(Append(s, e)) = Len(s) + 1
           /\ \A i \in 1 .. Len(s) : Append(s, e)[i] = s[i]
           /\ Append(s, e)[Len(s) + 1] = e
           /\ Range(Append(s, e)) = Range(s) \cup {e}
<1>1. Len(s) \in Nat /\ DOMAIN s = 1 .. Len(s)
  OBVIOUS
<1>2. /\ Append(s, e) \in Seq(S) /\ Len(Append(s, e)) = Len(s) + 1
      /\ \A i \in 1 .. Len(s) : Append(s, e)[i] = s[i]
      /\ Append(s, e)[Len(s) + 1] = e
      /\ DOMAIN Append(s, e) = 1 .. Len(s) + 1
  OBVIOUS
<1>3. \A i \in 1 .. Len(s) + 1 : i \in 1 .. Len(s) \/ i = Len(s) + 1
  BY <1>1
<1>4. Range(Append(s, e)) = Range(s) \cup {e}
  <2>1. Range(s) = {s[i] : i \in 1 .. Len(s)}
    BY <1>1 DEF Range
  <2>2. Range(Append(s, e)) = {Append(s, e)[i] : i \in 1 .. Len(s) + 1}
    BY <1>2 DEF Range
  <2>3. \A x \in Range(Append(s, e)) : x \in Range(s) \cup {e}
    BY <1>2, <1>3, <2>1, <2>2
  <2>4. \A x \in Range(s) \cup {e} : x \in Range(Append(s, e))
    <3>1. Len(s) + 1 \in 1 .. Len(s) + 1 /\ \A i \in 1 .. Len(s) : i \in 1 .. Len(s) + 1
      BY <1>1
    <3> QED BY <1>2, <2>1, <2>2, <3>1
  <2> QED BY <2>3, <2>4, Zenon
<1> QED BY <1>2, <1>4
Apart(kept) ==
    \A a, b \in DOMAIN kept : a < b => Similar[kept[a].text][kept[b].text] < Redundancy

\* What the filter has kept of the first m candidates.
KeptOf(ranked, m, kept) ==
    /\ kept \in Seq(SpanType) /\ Apart(kept)
    /\ \A k \in Range(kept) : \E i \in 1 .. m : ranked[i] = k
    /\ \A i \in 1 .. m :
           \/ ranked[i] \in Range(kept)
           \/ \E j \in 1 .. i : /\ ranked[j] \in Range(kept)
                                /\ Similar[ranked[j].text][ranked[i].text] >= Redundancy

LEMMA SimilarInt ==
    ASSUME NEW p \in Phrases, NEW q \in Phrases
    PROVE  Similar[p][q] \in Int /\ Similar[p][q] <= 100 /\ Redundancy \in Int /\ Synonymous \in Int
<1>1. Similar[p] \in [Phrases -> -100 .. 100]
  BY PipelineAssumption
<1>2. Similar[p][q] \in -100 .. 100
  BY <1>1
<1>3. Redundancy \in Int /\ Synonymous \in Int
  BY PipelineAssumption
<1> QED BY <1>2, <1>3

LEMMA KeepStep ==
    ASSUME NEW ranked \in Seq(SpanType), NEW m \in 1 .. Len(ranked), NEW kept,
           KeptOf(ranked, m - 1, kept)
    PROVE  KeptOf(ranked, m, Keep(kept, ranked[m]))
<1> DEFINE s == ranked[m]
<1>1. s \in SpanType /\ kept \in Seq(SpanType) /\ Apart(kept) /\ m \in Nat
  BY ElementOfSeq DEF KeptOf
<1>2. \A i \in 1 .. m : i \in 1 .. (m - 1) \/ i = m
  BY <1>1
<1>3. CASE \E k \in Range(kept) : Similar[k.text][s.text] >= Redundancy
  <2>1. Keep(kept, s) = kept
    BY <1>3 DEF Keep
  <2>2. PICK k \in Range(kept) : Similar[k.text][s.text] >= Redundancy
    BY <1>3
  <2>3. PICK j \in 1 .. (m - 1) : ranked[j] = k
    BY DEF KeptOf
  <2>4. j \in 1 .. m /\ m \in 1 .. m
    BY <1>1
  <2>5. \A k2 \in Range(kept) : \E i \in 1 .. m : ranked[i] = k2
    <3>1. \A i \in 1 .. (m - 1) : i \in 1 .. m
      BY <1>1
    <3> QED BY <3>1, Zenon DEF KeptOf
  <2>6. \E x \in 1 .. m : /\ ranked[x] \in Range(kept)
                          /\ Similar[ranked[x].text][ranked[m].text] >= Redundancy
    BY <2>2, <2>3, <2>4
  <2> HIDE DEF s
  <2>7. KeptOf(ranked, m, kept)
    BY <1>1, <1>2, <2>5, <2>6, Zenon DEF KeptOf
  <2> QED BY <2>1, <2>7 DEF s
<1>4. CASE ~ \E k \in Range(kept) : Similar[k.text][s.text] >= Redundancy
  <2> DEFINE new == Append(kept, s)
  <2>1. Keep(kept, s) = new
    BY <1>4, Zenon DEF Keep
  <2>2. /\ new \in Seq(SpanType) /\ Len(new) = Len(kept) + 1 /\ Len(kept) \in Nat
        /\ \A i \in 1 .. Len(kept) : new[i] = kept[i]
        /\ new[Len(kept) + 1] = s
        /\ Range(new) = Range(kept) \cup {s}
    BY <1>1, AppendIs
  <2>3. DOMAIN new = 1 .. Len(kept) + 1 /\ DOMAIN kept = 1 .. Len(kept)
    BY <1>1, <2>2
  <2> HIDE DEF new
  <2>4. Apart(new)
    <3> SUFFICES ASSUME NEW a \in DOMAIN new, NEW b \in DOMAIN new, a < b
                 PROVE  Similar[new[a].text][new[b].text] < Redundancy
      BY DEF Apart
    <3>1. a \in 1 .. Len(kept) /\ new[a] = kept[a] /\ kept[a] \in SpanType
      <4>1. a \in 1 .. Len(kept)
        BY <2>2, <2>3
      <4> QED BY <1>1, <2>2, <4>1, ElementOfSeq
    <3>2. CASE b \in 1 .. Len(kept)
      BY <1>1, <2>2, <2>3, <3>1, <3>2 DEF Apart
    <3>3. CASE b = Len(kept) + 1
      <4>1. kept[a] \in Range(kept)
        BY <2>3, <3>1 DEF Range
      <4>2. ~(Similar[kept[a].text][s.text] >= Redundancy)
        BY <1>4, <4>1
      <4>3. kept[a].text \in Phrases /\ s.text \in Phrases
        BY <1>1, <3>1 DEF SpanType
      <4>4. Similar[kept[a].text][s.text] \in Int /\ Redundancy \in Int
        BY <4>3, SimilarInt
      <4>5. Similar[kept[a].text][s.text] < Redundancy
        BY <4>2, <4>4
      <4> QED BY <2>2, <3>1, <3>3, <4>5
    <3> QED BY <2>2, <2>3, <3>2, <3>3
  <2>5. \A k \in Range(new) : \E i \in 1 .. m : ranked[i] = k
    <3>1. \A i \in 1 .. (m - 1) : i \in 1 .. m
      BY <1>1
    <3>2. m \in 1 .. m
      BY <1>1
    <3> QED BY <2>2, <3>1, <3>2, Zenon DEF KeptOf
  <2>6. s \in Range(new) /\ \A k \in Range(kept) : k \in Range(new)
    BY <2>2
  <2>7. KeptOf(ranked, m, new)
    BY <1>2, <2>2, <2>4, <2>5, <2>6, Zenon DEF KeptOf
  <2> QED BY <2>1, <2>7
<1> QED BY <1>3, <1>4

\* What is kept of all.
LEMMA KeptIs ==
    ASSUME NEW ranked \in Seq(SpanType) PROVE KeptOf(ranked, Len(ranked), Kept(ranked))
<1> DEFINE n == Len(ranked)
           S == Seq(SpanType)
           step == [i \in 1 .. n |-> [x \in S |-> Keep(x, ranked[i])]]
           Eq(f) == f = [i \in 0 .. n |-> IF i = 0 THEN <<>> ELSE Keep(f[i - 1], ranked[i])]
           F == CHOOSE f : Eq(f)
<1>1. Kept(ranked) = F[n]
  BY DEF Kept
<1>2. n \in Nat /\ \A i \in 1 .. n : ranked[i] \in SpanType
  BY ElementOfSeq
<1>3. step \in [1 .. n -> [S -> S]]
  <2>1. \A i \in 1 .. n : \A x \in S : Keep(x, ranked[i]) \in S
    BY <1>2, AppendIs DEF Keep
  <2> QED BY <2>1
<1> HIDE DEF n
<1>4. \E f : Eq(f)
  <2>1. <<>> \in S
    BY EmptySeq
  <2> HIDE DEF S
  <2>2. PICK f \in [0 .. n -> S] : Iterates(f, n, <<>>, step)
    <3> HIDE DEF step
    <3> QED BY <1>2, <1>3, <2>1, Iteration
  <2>3. \A i \in 0 .. n : i # 0 => step[i][f[i - 1]] = Keep(f[i - 1], ranked[i])
    <3>1. \A i \in 0 .. n : i # 0 => i \in 1 .. n /\ f[i - 1] \in S
      BY <1>2
    <3> QED BY <3>1, Zenon
  <2>4. f = [i \in 0 .. n |-> IF i = 0 THEN <<>> ELSE step[i][f[i - 1]]]
    BY <2>2, Zenon DEF Iterates
  <2> HIDE DEF step
  <2> QED BY <2>3, <2>4, Zenon
<1>5. Eq(F)
  BY <1>4
<1> HIDE DEF F
<1>6. F[0] = <<>> /\ \A i \in 1 .. n : F[i] = Keep(F[i - 1], ranked[i])
  <2>1. 0 \in 0 .. n /\ \A i \in 1 .. n : i \in 0 .. n /\ i # 0
    BY <1>2
  <2> QED BY <1>5, <2>1, Zenon
<1> DEFINE T == {i \in 0 .. n : KeptOf(ranked, i, F[i])}
<1>7. 0 \in T
  <2>1. <<>> \in Seq(SpanType) /\ Apart(<<>>) /\ Range(<<>>) = {}
    BY EmptySeq DEF Apart, Range
  <2>2. KeptOf(ranked, 0, <<>>)
    BY <2>1 DEF KeptOf
  <2> QED BY <1>2, <1>6, <2>2
<1>8. ASSUME NEW i \in 1 .. n, i - 1 \in T PROVE i \in T
  <2>1. KeptOf(ranked, i, F[i])
    BY <1>6, <1>8, KeepStep, Zenon DEF n
  <2>2. i \in 0 .. n
    BY <1>2
  <2> QED BY <2>1, <2>2
<1>9. n \in T
  <2>1. \A i \in 0 .. n : i \in T
    <3> HIDE DEF T
    <3> QED BY <1>2, <1>7, <1>8, UpTo
  <2>2. n \in 0 .. n
    BY <1>2
  <2> QED BY <2>1, <2>2
<1> QED BY <1>1, <1>9 DEF n
-----------------------------------------------------------------------------
(******************************* variants ********************************)

\* What is merged of some of the spans: one per lemma.
Merged(spans, out) ==
    /\ out \in Seq(SpanType)
    /\ \A a, b \in DOMAIN out : out[a].lemma = out[b].lemma => a = b
    /\ Range(out) \subseteq Range(spans)

LEMMA MergeStep ==
    ASSUME NEW n, NEW spans \in Seq(SpanType), NEW m \in DOMAIN spans, NEW out,
           Merged(spans, out)
    PROVE  Merged(spans, Merge(n, out, spans[m]))
<1> DEFINE s == spans[m]
           better(t) == \/ n.score[s.text] > n.score[t.text]
                        \/ /\ n.score[s.text] = n.score[t.text]
                           /\ Len(s.text) < Len(t.text)
           new == [i \in DOMAIN out |-> IF out[i].lemma = s.lemma /\ better(out[i]) THEN s
                                                                                   ELSE out[i]]
<1>1. s \in SpanType /\ s \in Range(spans) /\ out \in Seq(SpanType)
  BY ElementOfSeq DEF Merged, Range
<1>2. DOMAIN out = 1 .. Len(out) /\ Len(out) \in Nat /\ \A i \in DOMAIN out : out[i] \in SpanType
  BY <1>1
<1>3. CASE \E t \in Range(out) : t.lemma = s.lemma
  <2>1. Merge(n, out, s) = new
    BY <1>3, Zenon DEF Merge
  <2>2. \A i \in DOMAIN out : new[i] \in {s, out[i]} /\ new[i].lemma = out[i].lemma
    <3> HIDE DEF better
    <3> QED OBVIOUS
  <2>3. DOMAIN new = DOMAIN out
    OBVIOUS
  <2>4. new = [i \in 1 .. Len(out) |-> new[i]] /\ \A i \in 1 .. Len(out) : new[i] \in SpanType
    <3>1. new = [i \in DOMAIN out |-> new[i]]
      BY Zenon
    <3> HIDE DEF new
    <3> QED BY <1>1, <1>2, <2>2, <3>1
  <2> HIDE DEF new
  <2>5. new \in Seq(SpanType)
    BY <1>2, <2>4, IsASeq
  <2>6. Range(new) \subseteq Range(spans)
    <3>1. \A i \in DOMAIN out : out[i] \in Range(spans)
      BY DEF Merged, Range
    <3> QED BY <1>1, <2>2, <2>3, <3>1 DEF Range
  <2>7. \A a, b \in DOMAIN new : new[a].lemma = new[b].lemma => a = b
    BY <2>2, <2>3 DEF Merged
  <2> QED BY <2>1, <2>5, <2>6, <2>7 DEF Merged
<1>4. CASE ~ \E t \in Range(out) : t.lemma = s.lemma
  <2> DEFINE add == Append(out, s)
  <2>1. Merge(n, out, s) = add
    BY <1>4, Zenon DEF Merge
  <2>2. /\ add \in Seq(SpanType) /\ Len(add) = Len(out) + 1
        /\ \A i \in 1 .. Len(out) : add[i] = out[i]
        /\ add[Len(out) + 1] = s
        /\ Range(add) = Range(out) \cup {s}
    BY <1>1, AppendIs
  <2>3. DOMAIN add = 1 .. Len(out) + 1
    BY <2>2
  <2> HIDE DEF add
  <2>4. \A i \in DOMAIN out : out[i].lemma # s.lemma
    <3>1. \A i \in DOMAIN out : out[i] \in Range(out)
      BY DEF Range
    <3> QED BY <1>4, <3>1
  <2> HIDE DEF s
  <2>5. ASSUME NEW a \in DOMAIN add, NEW b \in DOMAIN add, add[a].lemma = add[b].lemma
        PROVE  a = b
    <3>1. a \in DOMAIN out \/ a = Len(out) + 1
      BY <1>2, <2>3
    <3>2. b \in DOMAIN out \/ b = Len(out) + 1
      BY <1>2, <2>3
    <3>3. CASE a \in DOMAIN out /\ b \in DOMAIN out
      BY <1>2, <2>2, <2>5, <3>3 DEF Merged
    <3> QED BY <1>2, <2>2, <2>4, <2>5, <3>1, <3>2, <3>3
  <2>6. Range(add) \subseteq Range(spans)
    BY <1>1, <2>2 DEF Merged
  <2> QED BY <2>1, <2>2, <2>5, <2>6 DEF Merged, s
<1> QED BY <1>3, <1>4

\* And what is merged of all.
LEMMA VariantsIs ==
    ASSUME NEW n, NEW spans \in Seq(SpanType) PROVE Merged(spans, Variants(n, spans))
<1> DEFINE c == Len(spans)
           S == {out \in Seq(SpanType) : Merged(spans, out)}
           step == [i \in 1 .. c |-> [x \in S |-> Merge(n, x, spans[i])]]
           Eq(f) == f = [i \in 0 .. c |-> IF i = 0 THEN <<>> ELSE Merge(n, f[i - 1], spans[i])]
           F == CHOOSE f : Eq(f)
<1>1. Variants(n, spans) = F[c]
  BY DEF Variants
<1>2. c \in Nat /\ DOMAIN spans = 1 .. c
  OBVIOUS
<1>3. \A i \in 1 .. c : \A x \in S : Merge(n, x, spans[i]) \in S
  <2> SUFFICES ASSUME NEW i \in 1 .. c, NEW x \in S PROVE Merge(n, x, spans[i]) \in S
    OBVIOUS
  <2>1. Merged(spans, Merge(n, x, spans[i]))
    BY MergeStep
  <2> QED BY <2>1 DEF Merged
<1>4. step \in [1 .. c -> [S -> S]]
  <2> HIDE DEF S
  <2> QED BY <1>3
<1>5. <<>> \in S
  <2>1. <<>> \in Seq(SpanType) /\ DOMAIN <<>> = {} /\ Range(<<>>) = {}
    BY EmptySeq DEF Range
  <2> QED BY <2>1 DEF Merged
<1>6. \A x \in S : Merged(spans, x)
  OBVIOUS
<1> HIDE DEF c, S
<1>7. \E f : Eq(f)
  <2>1. PICK f \in [0 .. c -> S] : Iterates(f, c, <<>>, step)
    <3> HIDE DEF step
    <3> QED BY <1>2, <1>4, <1>5, Iteration
  <2>2. \A i \in 0 .. c : i # 0 => step[i][f[i - 1]] = Merge(n, f[i - 1], spans[i])
    <3>1. \A i \in 0 .. c : i # 0 => i \in 1 .. c /\ f[i - 1] \in S
      BY <1>2
    <3> QED BY <3>1, Zenon
  <2>3. f = [i \in 0 .. c |-> IF i = 0 THEN <<>> ELSE step[i][f[i - 1]]]
    BY <2>1, Zenon DEF Iterates
  <2> HIDE DEF step
  <2> QED BY <2>2, <2>3, Zenon
<1>8. Eq(F)
  BY <1>7
<1> HIDE DEF F
<1>9. F[0] = <<>> /\ \A i \in 1 .. c : F[i] = Merge(n, F[i - 1], spans[i])
  <2>1. 0 \in 0 .. c /\ \A i \in 1 .. c : i \in 0 .. c /\ i # 0
    BY <1>2
  <2> QED BY <1>8, <2>1, Zenon
<1> DEFINE T == {i \in 0 .. c : F[i] \in S}
<1>10. 0 \in T
  BY <1>2, <1>5, <1>9
<1>11. ASSUME NEW i \in 1 .. c, i - 1 \in T PROVE i \in T
  <2>1. i \in 0 .. c
    BY <1>2
  <2> QED BY <1>3, <1>9, <1>11, <2>1
<1>12. c \in T
  <2>1. \A i \in 0 .. c : i \in T
    <3> HIDE DEF T
    <3> QED BY <1>2, <1>10, <1>11, UpTo
  <2>2. c \in 0 .. c
    BY <1>2
  <2> QED BY <2>1, <2>2
<1> QED BY <1>1, <1>6, <1>12
\* The concepts that survive: no two of one lemma, of one text, or too close.
Separate(concepts) ==
    /\ concepts \in Seq(SpanType)
    /\ \A a, b \in Range(concepts) : a.lemma = b.lemma => a = b
    /\ \A a, b \in Range(concepts) : a.text = b.text => a = b
    /\ \A a, b \in Range(concepts) : a # b => Similar[a.text][b.text] < Redundancy

LEMMA FilteredIs ==
    ASSUME NEW n \in Notes, NEW spans, Distinct(spans)
    PROVE  /\ RankAndFilter(n, spans) \in Seq(SpanType)
           /\ Apart(RankAndFilter(n, spans))
<1>1. CASE spans = {}
  <2>1. RankAndFilter(n, spans) = <<>>
    BY <1>1 DEF RankAndFilter
  <2> QED BY <2>1, EmptySeq DEF Apart
<1>2. CASE spans # {}
  <2>1. RankAndFilter(n, spans) = Kept(Ranked(n, spans))
    BY <1>2 DEF RankAndFilter
  <2>2. Ranked(n, spans) \in Seq(SpanType)
    BY RankedIs, Zenon
  <2> QED BY <2>1, <2>2, KeptIs, Zenon DEF KeptOf
<1> QED BY <1>1, <1>2

LEMMA SurvivingAre ==
    ASSUME NEW n \in Notes PROVE Separate(Surviving(n))
<1> DEFINE kept == RankAndFilter(n, Candidates(n))
           concepts == Surviving(n)
<1>1. kept \in Seq(SpanType) /\ Apart(kept)
  BY CandidatesAre, FilteredIs
<1>2. Merged(kept, concepts)
  BY <1>1, VariantsIs DEF Surviving
<1> HIDE DEF kept, concepts
<1>3. concepts \in Seq(SpanType) /\ \A a \in Range(concepts) : a \in SpanType /\ a \in Range(kept)
  <2>1. \A a \in Range(concepts) : a \in SpanType
    BY <1>2, ElementOfSeq DEF Merged, Range
  <2> QED BY <1>2, <2>1 DEF Merged
<1>4. \A a, b \in Range(concepts) : a.lemma = b.lemma => a = b
  BY <1>2 DEF Merged, Range
<1>5. ASSUME NEW a \in Range(concepts), NEW b \in Range(concepts), a # b
      PROVE  Similar[a.text][b.text] < Redundancy
  <2>1. a.text \in Phrases /\ b.text \in Phrases
    BY <1>3 DEF SpanType
  <2>2. PICK i \in DOMAIN kept : kept[i] = a
    BY <1>3 DEF Range
  <2>3. PICK j \in DOMAIN kept : kept[j] = b
    BY <1>3 DEF Range
  <2>4. i \in Nat /\ j \in Nat /\ i # j
    BY <1>1, <1>5, <2>2, <2>3
  <2>5. CASE i < j
    BY <1>1, <2>2, <2>3, <2>5 DEF Apart
  <2>6. CASE j < i
    <3>1. Similar[b.text][a.text] < Redundancy
      BY <1>1, <2>2, <2>3, <2>6 DEF Apart
    <3>2. Similar[a.text][b.text] = Similar[b.text][a.text]
      BY <2>1, PipelineAssumption
    <3> QED BY <3>1, <3>2
  <2> QED BY <2>4, <2>5, <2>6
<1>6. ASSUME NEW a \in Range(concepts), NEW b \in Range(concepts), a.text = b.text, a # b
      PROVE  FALSE
  <2>1. Similar[a.text][a.text] < Redundancy
    BY <1>5, <1>6
  <2>2. a.text \in Phrases
    BY <1>3 DEF SpanType
  <2>3. Similar[a.text][a.text] >= Synonymous /\ Redundancy <= Synonymous
    BY <2>2, PipelineAssumption
  <2>4. Similar[a.text][a.text] \in Int /\ Redundancy \in Int /\ Synonymous \in Int
    BY <2>2, SimilarInt
  <2> QED BY <2>1, <2>3, <2>4
<1> QED BY <1>3, <1>4, <1>5, <1>6 DEF Separate, concepts

\* Nothing salient is lost.
LEMMA NothingIsLost ==
    ASSUME NEW n \in Notes PROVE NothingLost(n)
<1> DEFINE spans == Candidates(n)
           ranked == Ranked(n, spans)
           kept == RankAndFilter(n, spans)
           score(s) == n.score[s.text]
<1> SUFFICES ASSUME NEW s \in spans
             PROVE  \/ s \in Range(kept)
                    \/ score(s) < Threshold(n, spans)
                    \/ \E k \in Range(kept) : /\ score(k) >= score(s)
                                              /\ Similar[k.text][s.text] >= Redundancy
  BY Zenon DEF NothingLost
<1>1. Distinct(spans) /\ spans # {}
  BY CandidatesAre
<1>2. kept = Kept(ranked)
  BY <1>1 DEF RankAndFilter
<1>3. /\ ranked \in Seq(SpanType) /\ Range(ranked) = Salient(n, spans)
      /\ \A i, j \in 1 .. Len(ranked) : i < j => n.score[ranked[i].text] >= n.score[ranked[j].text]
  BY <1>1, RankedIs, Zenon
<1>4. KeptOf(ranked, Len(ranked), kept)
  BY <1>2, <1>3, KeptIs
<1>5. s \in SpanType /\ score(s) \in Int /\ Threshold(n, spans) \in Int
  BY <1>1, ScoreInt, ThresholdInt DEF Distinct
<1>6. CASE s \in Salient(n, spans)
  <2>1. PICK i \in 1 .. Len(ranked) : ranked[i] = s
    BY <1>3, <1>6 DEF Range
  <2> HIDE DEF ranked, kept, spans
  <2>2. CASE ranked[i] \in Range(kept)
    BY <2>1, <2>2
  <2>3. CASE \E j \in 1 .. i : /\ ranked[j] \in Range(kept)
                               /\ Similar[ranked[j].text][ranked[i].text] >= Redundancy
    <3>1. PICK j \in 1 .. i : /\ ranked[j] \in Range(kept)
                              /\ Similar[ranked[j].text][ranked[i].text] >= Redundancy
      BY <2>3
    <3>2. j \in 1 .. Len(ranked) /\ (j < i \/ j = i)
      BY <1>3, <2>1
    <3>3. score(ranked[j]) >= score(s)
      BY <1>3, <1>5, <2>1, <3>2
    <3> QED BY <2>1, <3>1, <3>3
  <2> QED BY <1>4, <2>2, <2>3, Zenon DEF KeptOf
<1>7. CASE s \notin Salient(n, spans)
  <2>1. ~(score(s) >= Threshold(n, spans))
    BY <1>7 DEF Salient
  <2> QED BY <1>5, <2>1
<1> QED BY <1>6, <1>7
-----------------------------------------------------------------------------
(******************************* compounds *******************************)

\* Prefixes and suffixes, place by place.
LEMMA PrefixIs ==
    ASSUME NEW S, NEW s \in Seq(S), NEW t \in Seq(S)
    PROVE  IsPrefix(s, t) <=> /\ Len(s) <= Len(t)
                              /\ \A i \in 1 .. Len(s) : s[i] = t[i]
<1>1. Len(s) \in Nat /\ Len(t) \in Nat
  OBVIOUS
<1>2. SubSeq(s, 1, Len(s)) = s
  BY SubSeqFull
<1>3. ASSUME Len(s) <= Len(t)
      PROVE  s = SubSeq(t, 1, Len(s)) <=> \A i \in 1 .. Len(s) : s[i] = t[i]
  <2>1. \A i \in 1 .. Len(s) : t[i] \in S
    BY <1>1, <1>3
  <2>2. /\ SubSeq(t, 1, Len(s)) \in Seq(S) /\ Len(SubSeq(t, 1, Len(s))) = Len(s)
        /\ \A i \in 1 .. Len(s) : SubSeq(t, 1, Len(s))[i] = t[i]
    <3>1. /\ SubSeq(t, 1, Len(s)) \in Seq(S)
          /\ Len(SubSeq(t, 1, Len(s))) = IF 1 <= Len(s) THEN Len(s) - 1 + 1 ELSE 0
          /\ \A i \in 1 .. Len(s) - 1 + 1 : SubSeq(t, 1, Len(s))[i] = t[1 + i - 1]
      BY <1>1, <2>1, SubSeqProperties
    <3>2. \A i \in 1 .. Len(s) : i \in 1 .. Len(s) - 1 + 1 /\ 1 + i - 1 = i
      BY <1>1
    <3> QED BY <1>1, <3>1, <3>2
  <2>3. (\A i \in 1 .. Len(s) : s[i] = t[i]) => s = SubSeq(t, 1, Len(s))
    BY <2>2, SeqEqual
  <2> QED BY <2>2, <2>3
<1> QED BY <1>2, <1>3 DEF IsPrefix

LEMMA SuffixIs ==
    ASSUME NEW S, NEW s \in Seq(S), NEW t \in Seq(S)
    PROVE  IsSuffix(s, t) <=> /\ Len(s) <= Len(t)
                              /\ \A i \in 1 .. Len(s) : s[i] = t[Len(t) - Len(s) + i]
<1>1. Len(s) \in Nat /\ Len(t) \in Nat
  OBVIOUS
<1>2. /\ Reverse(s) \in Seq(S) /\ Len(Reverse(s)) = Len(s)
      /\ \A i \in 1 .. Len(s) : Reverse(s)[i] = s[Len(s) - i + 1]
  <2>1. \A i \in 1 .. Len(s) : s[Len(s) - i + 1] \in S
    BY <1>1
  <2> QED BY <1>1, <2>1 DEF Reverse
<1>3. /\ Reverse(t) \in Seq(S) /\ Len(Reverse(t)) = Len(t)
      /\ \A i \in 1 .. Len(t) : Reverse(t)[i] = t[Len(t) - i + 1]
  <2>1. \A i \in 1 .. Len(t) : t[Len(t) - i + 1] \in S
    BY <1>1
  <2> QED BY <1>1, <2>1 DEF Reverse
<1>4. IsSuffix(s, t) <=> /\ Len(s) <= Len(t)
                         /\ \A i \in 1 .. Len(s) : Reverse(s)[i] = Reverse(t)[i]
  <2>1. IsPrefix(Reverse(s), Reverse(t)) <=>
           /\ Len(Reverse(s)) <= Len(Reverse(t))
           /\ \A i \in 1 .. Len(Reverse(s)) : Reverse(s)[i] = Reverse(t)[i]
    BY <1>2, <1>3, PrefixIs
  <2> QED BY <1>2, <1>3, <2>1 DEF IsSuffix
<1>5. ASSUME Len(s) <= Len(t)
      PROVE  (\A i \in 1 .. Len(s) : Reverse(s)[i] = Reverse(t)[i])
                <=> \A i \in 1 .. Len(s) : s[i] = t[Len(t) - Len(s) + i]
  <2>1. \A i \in 1 .. Len(s) : i \in 1 .. Len(t) /\ Reverse(s)[i] = s[Len(s) - i + 1]
                                                 /\ Reverse(t)[i] = t[Len(t) - i + 1]
    BY <1>1, <1>2, <1>3, <1>5
  <2>2. ASSUME \A i \in 1 .. Len(s) : Reverse(s)[i] = Reverse(t)[i], NEW i \in 1 .. Len(s)
        PROVE  s[i] = t[Len(t) - Len(s) + i]
    <3> DEFINE k == Len(s) - i + 1
    <3>1. k \in 1 .. Len(s) /\ Len(s) - k + 1 = i /\ Len(t) - k + 1 = Len(t) - Len(s) + i
      BY <1>1
    <3> HIDE DEF k
    <3> QED BY <2>1, <2>2, <3>1
  <2>3. ASSUME \A i \in 1 .. Len(s) : s[i] = t[Len(t) - Len(s) + i], NEW i \in 1 .. Len(s)
        PROVE  Reverse(s)[i] = Reverse(t)[i]
    <3> DEFINE k == Len(s) - i + 1
    <3>1. k \in 1 .. Len(s) /\ k = Len(s) - i + 1 /\ Len(t) - Len(s) + k = Len(t) - i + 1
      BY <1>1
    <3> HIDE DEF k
    <3>2. s[k] = t[Len(t) - Len(s) + k]
      BY <2>3, <3>1
    <3>3. Reverse(s)[i] = s[k] /\ Reverse(t)[i] = t[Len(t) - Len(s) + k]
      BY <2>1, <3>1
    <3> QED BY <3>2, <3>3
  <2> QED BY <2>2, <2>3
<1> QED BY <1>4, <1>5

\* Two suffixes of one length are the same.
LEMMA SameSuffix ==
    ASSUME NEW S, NEW s \in Seq(S), NEW t \in Seq(S), NEW u \in Seq(S),
           IsSuffix(s, u), IsSuffix(t, u), Len(s) = Len(t)
    PROVE  s = t
<1>1. \A i \in 1 .. Len(s) : s[i] = t[i]
  BY SuffixIs
<1> QED BY <1>1, SeqEqual

LEMMA SeparateType ==
    ASSUME NEW concepts, Separate(concepts), NEW c \in Range(concepts)
    PROVE  /\ c \in SpanType /\ c.text \in Phrases /\ c.lemma \in Seq(Vocabulary)
           /\ Len(c.lemma) \in Nat /\ Len(c.lemma) >= 1
<1>1. c \in SpanType
  BY ElementOfSeq DEF Separate, Range
<1>2. c.text \in Phrases /\ c.lemma \in Seq(Vocabulary) /\ c.lemma # <<>>
  BY <1>1 DEF SpanType
<1>3. Len(c.lemma) \in Nat /\ Len(c.lemma) # 0
  BY <1>2, EmptySeq
<1> QED BY <1>1, <1>2, <1>3

\* The compounds form chains.
LEMMA CompoundsAre ==
    ASSUME NEW concepts, Separate(concepts) PROVE ChainsOnly(concepts)
<1> DEFINE R == Range(concepts)
           Longest(c, p) == p \in Heads(concepts, c)
                            /\ \A q \in Heads(concepts, c) : Len(q.lemma) <= Len(p.lemma)
<1>1. \A e \in CompoundIsA(concepts) :
         \E c, p \in R : Longest(c, p) /\ e.child = c.text /\ e.parent = p.text /\ e = IsA(c, p)
  <2> SUFFICES ASSUME NEW e \in CompoundIsA(concepts)
               PROVE  \E c, p \in R : Longest(c, p) /\ e.child = c.text /\ e.parent = p.text
                                                    /\ e = IsA(c, p)
    OBVIOUS
  <2>1. PICK d \in R \X R : Longest(d[1], d[2]) /\ e = IsA(d[1], d[2])
    BY DEF CompoundIsA
  <2>2. d[1] \in R /\ d[2] \in R /\ e.child = d[1].text /\ e.parent = d[2].text
    BY <2>1 DEF IsA
  <2> QED BY <2>1, <2>2
<1>2. \A c, p \in R : p \in Heads(concepts, c) =>
          Len(p.lemma) < Len(c.lemma) /\ IsSuffix(p.lemma, c.lemma)
  BY DEF Heads
<1>3. \A c, p, q \in R : Longest(c, p) /\ Longest(c, q) => p = q
  <2> SUFFICES ASSUME NEW c \in R, NEW p \in R, NEW q \in R, Longest(c, p), Longest(c, q)
               PROVE  p = q
    OBVIOUS
  <2>1. Len(p.lemma) = Len(q.lemma)
    <3>1. Len(p.lemma) <= Len(q.lemma) /\ Len(q.lemma) <= Len(p.lemma)
      OBVIOUS
    <3> QED BY <3>1, SeparateType
  <2>2. IsSuffix(p.lemma, c.lemma) /\ IsSuffix(q.lemma, c.lemma)
    BY <1>2
  <2>3. p.lemma = q.lemma
    BY <2>1, <2>2, SeparateType, SameSuffix
  <2> QED BY <2>3 DEF Separate
<1>4. \A a, b \in R : a.text = b.text => a = b
  BY DEF Separate
<1> SUFFICES ASSUME NEW e \in CompoundIsA(concepts), NEW f \in CompoundIsA(concepts)
             PROVE  /\ e.child = f.child => e = f
                    /\ \A s \in R : e.parent = s.text =>
                          \A p \in Heads(concepts, s) :
                              IsA([text |-> e.child], p) \notin CompoundIsA(concepts)
  BY Zenon DEF ChainsOnly
<1>5. PICK c \in R, p \in R :
          Longest(c, p) /\ e.child = c.text /\ e.parent = p.text /\ e = IsA(c, p)
  BY <1>1
<1>6. PICK d \in R, q \in R :
          Longest(d, q) /\ f.child = d.text /\ f.parent = q.text /\ f = IsA(d, q)
  BY <1>1
<1>7. e.child = f.child => e = f
  <2> HIDE DEF Longest
  <2> QED BY <1>3, <1>4, <1>5, <1>6
<1>8. ASSUME NEW s \in R, e.parent = s.text, NEW h \in Heads(concepts, s),
             IsA([text |-> e.child], h) \in CompoundIsA(concepts)
      PROVE  FALSE
  <2>1. s = p /\ h \in R
    BY <1>4, <1>5, <1>8 DEF Heads
  <2>2. PICK g \in R, k \in R :
            Longest(g, k) /\ e.child = g.text /\ h.text = k.text
    <3>1. /\ IsA([text |-> e.child], h).child = e.child
          /\ IsA([text |-> e.child], h).parent = h.text
      BY DEF IsA
    <3>2. PICK g \in R, k \in R :
              /\ Longest(g, k)
              /\ IsA([text |-> e.child], h).child = g.text
              /\ IsA([text |-> e.child], h).parent = k.text
      <4> HIDE DEF Longest
      <4> QED BY <1>1, <1>8
    <3> QED BY <3>1, <3>2
  <2>3. g = c /\ k = h
    BY <1>4, <1>5, <2>1, <2>2
  <2>4. Len(p.lemma) <= Len(h.lemma)
    BY <1>5, <2>2, <2>3
  <2>5. Len(h.lemma) < Len(p.lemma)
    BY <1>2, <1>8, <2>1
  <2>6. Len(h.lemma) \in Nat /\ Len(p.lemma) \in Nat
    BY <2>1, SeparateType
  <2> QED BY <2>4, <2>5, <2>6
<1> QED BY <1>7, <1>8
-----------------------------------------------------------------------------
(*************************** canonical phrases ***************************)

Surfaces(concepts) == {c.text : c \in Range(concepts)}

LEMMA SynonymousInt == Synonymous \in Int /\ Redundancy \in Int /\ Redundancy <= Synonymous
BY PipelineAssumption

\* Where a registered phrase is near enough, some are nearest.
LEMMA ClosestIs ==
    ASSUME NEW text \in Phrases, NEW known \in SUBSET Phrases, NEW r \in known,
           Similar[text][r] >= Synonymous
    PROVE  /\ Closest(text, known) # {}
           /\ \A c \in Closest(text, known) : c \in known /\ Similar[text][c] >= Synonymous
<1> DEFINE near == {Similar[text][o] : o \in known}
<1>1. near \in SUBSET Int /\ near # {} /\ \A k \in near : k <= 100
  BY SimilarInt
<1>2. PICK m \in near : \A k \in near : k <= m
  <2>1. 100 \in Int
    OBVIOUS
  <2> HIDE DEF near
  <2> QED BY <1>1, <2>1, GreatestInteger
<1>3. PICK c \in known : Similar[text][c] = m
  BY <1>2
<1>4. c \in Closest(text, known)
  BY <1>2, <1>3 DEF Closest
<1>5. ASSUME NEW d \in Closest(text, known)
      PROVE  d \in known /\ Similar[text][d] >= Synonymous
  <2>1. d \in known /\ Similar[text][r] <= Similar[text][d]
    BY DEF Closest
  <2>2. Similar[text][r] \in Int /\ Similar[text][d] \in Int /\ Synonymous \in Int
    BY <2>1, SimilarInt
  <2> QED BY <2>1, <2>2
<1> QED BY <1>4, <1>5

LEMMA CanonicalIs ==
    ASSUME NEW text \in Phrases, NEW known \in SUBSET Phrases
    PROVE  /\ (\A r \in known : ~(Similar[text][r] >= Synonymous)) => Canonical(text, known) = text
           /\ (\E r \in known : Similar[text][r] >= Synonymous) => Canonical(text, known) \in known
           /\ Canonical(text, known) \in Phrases
<1>1. CASE \E r \in known : Similar[text][r] >= Synonymous
  <2>1. Canonical(text, known) = CHOOSE r \in Closest(text, known) : TRUE
    BY <1>1 DEF Canonical
  <2>2. Closest(text, known) # {} /\ \A c \in Closest(text, known) : c \in known
    BY <1>1, ClosestIs
  <2>3. Canonical(text, known) \in known
    BY <2>1, <2>2
  <2> QED BY <1>1, <2>3
<1>2. CASE ~ \E r \in known : Similar[text][r] >= Synonymous
  BY <1>2, Zenon DEF Canonical
<1> QED BY <1>1, <1>2

\* Registering the canonical phrases of texts that are not close to one
\* another changes the canonical phrase of none.
LEMMA CanonicalAgain ==
    ASSUME NEW concepts, Separate(concepts), NEW known \in SUBSET Phrases,
           NEW text \in Surfaces(concepts)
    PROVE  Canonical(text, known \cup {Canonical(t, known) : t \in Surfaces(concepts)})
              = Canonical(text, known)
<1> DEFINE E == {Canonical(t, known) : t \in Surfaces(concepts)}
           both == known \cup E
           Near(t, r) == Similar[t][r] >= Synonymous
<1>1. \A t \in Surfaces(concepts) : t \in Phrases
  BY SeparateType DEF Surfaces
<1>2. \A t, u \in Surfaces(concepts) : t # u => ~Near(t, u)
  <2> SUFFICES ASSUME NEW t \in Surfaces(concepts), NEW u \in Surfaces(concepts), t # u
               PROVE  ~Near(t, u)
    OBVIOUS
  <2>1. PICK a \in Range(concepts), b \in Range(concepts) : t = a.text /\ u = b.text
    BY DEF Surfaces
  <2>2. Similar[t][u] < Redundancy
    BY <2>1 DEF Separate
  <2>3. Similar[t][u] \in Int
    BY <1>1, SimilarInt
  <2> QED BY <2>2, <2>3, SynonymousInt
<1>3. both \in SUBSET Phrases
  BY <1>1, CanonicalIs
<1>4. \A u \in both : u \in known \/ (u \in Surfaces(concepts) /\ \A r \in known : ~Near(u, r))
  <2> SUFFICES ASSUME NEW t \in Surfaces(concepts), Canonical(t, known) \notin known
               PROVE  /\ Canonical(t, known) = t
                      /\ \A r \in known : ~Near(t, r)
    OBVIOUS
  <2>1. t \in Phrases
    BY <1>1
  <2> QED BY <2>1, CanonicalIs
<1>5. text \in Phrases /\ \A u \in both : Similar[text][u] \in Int
  BY <1>1, <1>3, SimilarInt
<1>6. CASE \E r \in known : Near(text, r)
  <2>1. PICK r \in known : Near(text, r)
    BY <1>6
  <2>2. \A u \in both : u \in known \/ ~Near(text, u)
    <3> SUFFICES ASSUME NEW u \in both, u \notin known PROVE ~Near(text, u)
      OBVIOUS
    <3>1. u \in Surfaces(concepts) /\ u # text
      BY <1>4, <2>1
    <3> QED BY <1>2, <3>1
  <2>3. \A c \in Closest(text, known) : c \in known /\ Near(text, c)
    BY <1>5, <2>1, ClosestIs
  <2>4. \A c \in Closest(text, both) : c \in both /\ Near(text, c)
    BY <1>3, <1>5, <2>1, ClosestIs
  <2> HIDE DEF both, Near
  <2>5. \A c \in Closest(text, known) : c \in Closest(text, both)
    <3> SUFFICES ASSUME NEW c \in Closest(text, known)
                 PROVE  c \in both /\ \A o \in both : Similar[text][o] <= Similar[text][c]
      BY DEF Closest
    <3> SUFFICES ASSUME NEW o \in both PROVE Similar[text][o] <= Similar[text][c]
      BY DEF Closest, both
    <3>1. c \in known /\ c \in both /\ \A k \in known : Similar[text][k] <= Similar[text][c]
      BY DEF Closest, both
    <3>2. CASE o \in known
      BY <3>1, <3>2
    <3>3. CASE o \notin known
      <4>1. ~Near(text, o) /\ Near(text, c)
        BY <2>2, <2>3, <3>3
      <4>2. Similar[text][o] \in Int /\ Similar[text][c] \in Int
        BY <1>5, <3>1
      <4> QED BY <3>1, <4>1, <4>2, SynonymousInt DEF Near
    <3> QED BY <3>2, <3>3
  <2>6. \A c \in Closest(text, both) : c \in Closest(text, known)
    <3> SUFFICES ASSUME NEW c \in Closest(text, both) PROVE c \in Closest(text, known)
      OBVIOUS
    <3>1. c \in known
      BY <2>2, <2>4
    <3>2. \A k \in known : Similar[text][k] <= Similar[text][c]
      BY DEF Closest, both
    <3> QED BY <3>1, <3>2 DEF Closest
  <2>7. Closest(text, both) = Closest(text, known)
    BY <2>5, <2>6
  <2>8. Canonical(text, both) = CHOOSE c \in Closest(text, both) : TRUE
    BY <2>1 DEF Canonical, Near, both
  <2>9. Canonical(text, known) = CHOOSE c \in Closest(text, known) : TRUE
    BY <2>1 DEF Canonical, Near
  <2> QED BY <2>7, <2>8, <2>9 DEF both
<1>7. CASE ~ \E r \in known : Near(text, r)
  <2>1. Canonical(text, known) = text
    BY <1>5, <1>7, CanonicalIs
  <2>2. text \in both /\ Near(text, text)
    BY <1>5, <2>1, PipelineAssumption
  <2>3. \A u \in both : u = text \/ ~Near(text, u)
    BY <1>2, <1>4, <1>7
  <2>4. Closest(text, both) # {} /\ \A c \in Closest(text, both) : c \in both /\ Near(text, c)
    BY <1>3, <1>5, <2>2, ClosestIs
  <2>5. \A c \in Closest(text, both) : c = text
    BY <2>3, <2>4
  <2>6. Canonical(text, both) = CHOOSE c \in Closest(text, both) : TRUE
    BY <2>2 DEF Canonical
  <2> HIDE DEF both, Near
  <2>7. Canonical(text, both) = text
    BY <2>4, <2>5, <2>6
  <2> QED BY <2>1, <2>7 DEF both
<1> QED BY <1>6, <1>7

\* The names of the concepts.
LEMMA NormalisedIs ==
    ASSUME NEW concepts, Separate(concepts), NEW known \in SUBSET Phrases
    PROVE  LET names == Normalised(concepts, known)
           IN  /\ DOMAIN names = Surfaces(concepts)
               /\ \A t \in Surfaces(concepts) : names[t] = Canonical(t, known)
               /\ Range(names) = {Canonical(t, known) : t \in Surfaces(concepts)}
               /\ Range(names) \in SUBSET Phrases
<1> DEFINE names == Normalised(concepts, known)
<1>1. names = [t \in Surfaces(concepts) |-> Canonical(t, known)]
  BY DEF Normalised, Surfaces
<1>2. /\ DOMAIN names = Surfaces(concepts)
      /\ \A t \in Surfaces(concepts) : names[t] = Canonical(t, known)
  BY <1>1
<1> HIDE DEF names
<1>3. Range(names) = {Canonical(t, known) : t \in Surfaces(concepts)}
  BY <1>2 DEF Range
<1>4. \A t \in Surfaces(concepts) : t \in Phrases
  BY SeparateType DEF Surfaces
<1>5. Range(names) \in SUBSET Phrases
  BY <1>3, <1>4, CanonicalIs
<1> QED BY <1>2, <1>3, <1>5 DEF names

\* The note is read the same again once its entities are registered.
LEMMA ExtractedAgain ==
    ASSUME NEW n \in Notes, NEW known \in SUBSET Phrases
    PROVE  LET x == Extraction(n, known)
           IN  /\ Extraction(n, Registered(known, x)) = x
               /\ Registered(known, x) \in SUBSET Phrases
<1> DEFINE concepts == Surviving(n)
           x == Extraction(n, known)
           E == {Canonical(t, known) : t \in Surfaces(concepts)}
<1>1. Separate(concepts)
  BY SurvivingAre
<1>2. Range(Normalised(concepts, known)) = E /\ E \in SUBSET Phrases
  BY <1>1, NormalisedIs, Zenon
<1>3. x.entities = {Entity(t) : t \in E}
  BY <1>2, Zenon DEF Extraction
<1>4. Registered(known, x) = known \cup E
  <2>1. \A t : Entity(t).text = t
    BY DEF Entity
  <2>2. {e.text : e \in {Entity(t) : t \in E}} = E
    <3> HIDE DEF E
    <3> QED BY <2>1
  <2> HIDE DEF x, E
  <2> QED BY <1>3, <2>2 DEF Registered
<1> HIDE DEF concepts, x
<1>5. \A t \in Surfaces(concepts) : Canonical(t, known \cup E) = Canonical(t, known)
  BY <1>1, CanonicalAgain
<1>6. Normalised(concepts, known \cup E) = Normalised(concepts, known)
  <2> HIDE DEF E
  <2> QED BY <1>5 DEF Normalised, Surfaces
<1>7. Extraction(n, known \cup E) = Extraction(n, known)
  <2> HIDE DEF E
  <2> QED BY <1>6, Zenon DEF Extraction, concepts
<1> QED BY <1>2, <1>4, <1>7 DEF x
-----------------------------------------------------------------------------
(******************************* relations *******************************)

\* Edges whose ends are texts of the concepts.
Joins(isA, concepts) ==
    \A e \in isA : e.child \in Surfaces(concepts) /\ e.parent \in Surfaces(concepts)

LEMMA EmitIs ==
    ASSUME NEW hypos, NEW hypers
    PROVE  \A e \in Emit(hypos, hypers) :
              \E c \in hypos, p \in hypers : c # p /\ e = IsA(c, p)
                                             /\ e.child = c.text /\ e.parent = p.text
<1> SUFFICES ASSUME NEW e \in Emit(hypos, hypers)
             PROVE  \E c \in hypos, p \in hypers : c # p /\ e = IsA(c, p)
                                             /\ e.child = c.text /\ e.parent = p.text
  OBVIOUS
<1>1. PICK d \in hypos \X hypers : d[1] # d[2] /\ e = IsA(d[1], d[2])
  BY DEF Emit
<1>2. d[1] \in hypos /\ d[2] \in hypers /\ e.child = d[1].text /\ e.parent = d[2].text
  BY <1>1 DEF IsA
<1> QED BY <1>1, <1>2

LEMMA EmitJoins ==
    ASSUME NEW concepts, NEW hypos \in SUBSET Range(concepts), NEW hypers \in SUBSET Range(concepts)
    PROVE  Joins(Emit(hypos, hypers), concepts)
BY EmitIs DEF Joins, Surfaces

LEMMA FoundAre ==
    ASSUME NEW words, NEW concepts
    PROVE  /\ Present(words, concepts) \in SUBSET Range(concepts)
           /\ NearestToEnd(words, concepts) \in SUBSET Range(concepts)
           /\ NearestToStart(words, concepts) \in SUBSET Range(concepts)
<1>1. Present(words, concepts) \in SUBSET Range(concepts)
  BY DEF Present
<1>2. NearestToEnd(words, concepts) \in SUBSET Range(concepts)
  BY DEF NearestToEnd, Range
<1>3. NearestToStart(words, concepts) \in SUBSET Range(concepts)
  BY DEF NearestToStart, Range
<1> QED BY <1>1, <1>2, <1>3

LEMMA IsAJoins ==
    ASSUME NEW concepts, NEW sentences
    PROVE  Joins(CompoundIsA(concepts) \cup HearstIsA(sentences, concepts), concepts)
<1>1. Joins(CompoundIsA(concepts), concepts)
  <2> SUFFICES ASSUME NEW e \in CompoundIsA(concepts)
               PROVE  e.child \in Surfaces(concepts) /\ e.parent \in Surfaces(concepts)
    BY DEF Joins
  <2>1. PICK c \in Range(concepts) \X Range(concepts) : e = IsA(c[1], c[2])
    BY DEF CompoundIsA
  <2>2. c[1] \in Range(concepts) /\ c[2] \in Range(concepts)
        /\ e.child = c[1].text /\ e.parent = c[2].text
    BY <2>1 DEF IsA
  <2> QED BY <2>2 DEF Surfaces
<1>2. ASSUME NEW s PROVE Joins(SuchAsAndForward(s, concepts), concepts)
  <2> SUFFICES ASSUME NEW e \in SuchAsAndForward(s, concepts)
               PROVE  e.child \in Surfaces(concepts) /\ e.parent \in Surfaces(concepts)
    BY DEF Joins
  <2>1. \E hypos, hypers \in SUBSET Range(concepts) : e \in Emit(hypos, hypers)
    BY FoundAre DEF SuchAsAndForward
  <2> QED BY <2>1, EmitJoins DEF Joins
<1>3. ASSUME NEW s PROVE Joins(AndOther(s, concepts), concepts)
  BY FoundAre, EmitJoins, Zenon DEF AndOther, Joins
<1>4. ASSUME NEW s PROVE Joins(Copular(s, concepts), concepts)
  BY FoundAre, EmitJoins, Zenon DEF Copular, Joins
<1>5. Joins(HearstIsA(sentences, concepts), concepts)
  BY <1>2, <1>3, <1>4, Zenon DEF HearstIsA, Joins
<1> QED BY <1>1, <1>5 DEF Joins

\* A relation of the structure joins two of the names, and has its reverse.
Structural(r, all, E) ==
    /\ r.from \in E /\ r.to \in E /\ r.from # r.to
    /\ r.type \in {"MENTIONED_TOGETHER", "SIBLING_OF"} => Relation(r.type, r.to, r.from) \in all

LEMMA BetweenIs ==
    ASSUME NEW type, NEW xs, NEW ys
    PROVE  /\ \A r \in Between(type, xs, ys) :
                  /\ r.type = type /\ r.from \in xs /\ r.to \in ys /\ r.from # r.to
                  /\ r = Relation(type, r.from, r.to)
           /\ \A x \in xs, y \in ys : x # y => Relation(type, x, y) \in Between(type, xs, ys)
<1>1. ASSUME NEW r \in Between(type, xs, ys)
      PROVE  /\ r.type = type /\ r.from \in xs /\ r.to \in ys /\ r.from # r.to
             /\ r = Relation(type, r.from, r.to)
  <2>1. PICK e \in xs \X ys : e[1] # e[2] /\ r = Relation(type, e[1], e[2])
    BY DEF Between
  <2>2. e[1] \in xs /\ e[2] \in ys /\ r.type = type /\ r.from = e[1] /\ r.to = e[2]
    BY <2>1 DEF Relation
  <2> QED BY <2>1, <2>2
<1>2. ASSUME NEW x \in xs, NEW y \in ys, x # y
      PROVE  Relation(type, x, y) \in Between(type, xs, ys)
  <2>1. <<x, y>> \in xs \X ys /\ <<x, y>>[1] = x /\ <<x, y>>[2] = y
    OBVIOUS
  <2> QED BY <1>2, <2>1, Zenon DEF Between
<1> QED BY <1>1, <1>2

LEMMA NamedIs ==
    ASSUME NEW names, NEW says PROVE Named(names, says) \in SUBSET Range(names)
BY DEF Named, Range

\* The concepts of the heading are names too.
LEMMA HeadingIs ==
    ASSUME NEW blocks, NEW E, NEW present \in [DOMAIN blocks -> SUBSET E],
           NEW i \in DOMAIN blocks, NEW c \in Nat, DOMAIN blocks = 1 .. c
    PROVE  HeadingOf(blocks, present, i) \in SUBSET E
<1> DEFINE before == {j \in 1 .. (i - 1) : blocks[j].kind = "heading"}
<1>1. CASE before = {}
  BY <1>1, Zenon DEF HeadingOf
<1>2. CASE before # {}
  <2>1. before \in SUBSET Int /\ i \in Int /\ (\A k \in before : k <= i)
        /\ \A k \in before : k \in DOMAIN blocks
    OBVIOUS
  <2>2. HeadingOf(blocks, present, i) = present[Max(before)]
    BY <1>2, Zenon DEF HeadingOf
  <2> HIDE DEF before
  <2>3. Max(before) \in before
    BY <1>2, <2>1, MaxOf
  <2> QED BY <2>1, <2>2, <2>3
<1> QED BY <1>1, <1>2

LEMMA StructureIs ==
    ASSUME NEW n \in Notes, NEW names
    PROVE  \A r \in Structure(n, names) :
              Structural(r, Structure(n, names), Range(names)) /\ r.type # "SYNONYM_OF"
<1> DEFINE blocks == n.blocks
           E == Range(names)
           all == Structure(n, names)
           present == [i \in DOMAIN blocks |-> Named(names, blocks[i].says)]
           adjacent(items) ==
             UNION {BothWays("SIBLING_OF", Named(names, items[p[1]]), Named(names, items[p[2]])) :
                      p \in {q \in (DOMAIN items) \X (DOMAIN items) : q[1] < q[2]}}
           together == UNION {Between("MENTIONED_TOGETHER", present[i], present[i]) :
                                i \in DOMAIN blocks}
           subtopics == UNION {Between("SUBTOPIC_OF", present[i], HeadingOf(blocks, present, i)) :
                                 i \in {j \in DOMAIN blocks : blocks[j].kind # "heading"}}
           siblings == UNION {adjacent(items) : items \in n.lists}
           refs == UNION {Between("REFERENCES", Named(names, r[1]), Named(names, r[2])) : r \in n.refs}
<1>1. all = together \cup subtopics \cup siblings \cup refs
  BY DEF Structure
<1>2. present \in [DOMAIN blocks -> SUBSET E]
  BY NamedIs
<1>3. blocks \in Seq([kind : STRING, says : SUBSET Phrases])
  BY PipelineAssumption DEF NoteType
<1>4. Len(blocks) \in Nat /\ DOMAIN blocks = 1 .. Len(blocks)
  BY <1>3
<1> HIDE DEF all, present, blocks, E
<1>5. ASSUME NEW r \in together PROVE Structural(r, all, E) /\ r.type # "SYNONYM_OF"
  <2>1. PICK i \in DOMAIN blocks : r \in Between("MENTIONED_TOGETHER", present[i], present[i])
    OBVIOUS
  <2>2. /\ r.type = "MENTIONED_TOGETHER" /\ r.from \in present[i] /\ r.to \in present[i]
        /\ r.from # r.to
    BY <2>1, BetweenIs
  <2>3. Relation(r.type, r.to, r.from) \in Between("MENTIONED_TOGETHER", present[i], present[i])
    BY <2>2, BetweenIs
  <2>4. Relation(r.type, r.to, r.from) \in together
    BY <2>3
  <2> HIDE DEF together, subtopics, siblings, refs
  <2> QED BY <1>1, <1>2, <2>2, <2>4 DEF Structural
<1>6. ASSUME NEW r \in subtopics PROVE Structural(r, all, E) /\ r.type # "SYNONYM_OF"
  <2>1. PICK i \in DOMAIN blocks :
            r \in Between("SUBTOPIC_OF", present[i], HeadingOf(blocks, present, i))
    OBVIOUS
  <2>2. /\ r.type = "SUBTOPIC_OF" /\ r.from \in present[i] /\ r.to \in HeadingOf(blocks, present, i)
        /\ r.from # r.to
    BY <2>1, BetweenIs
  <2>3. HeadingOf(blocks, present, i) \in SUBSET E
    BY <1>2, <1>4, HeadingIs
  <2> HIDE DEF together, subtopics, siblings, refs
  <2> QED BY <1>2, <2>2, <2>3 DEF Structural
<1>7. ASSUME NEW r \in siblings PROVE Structural(r, all, E) /\ r.type # "SYNONYM_OF"
  <2>1. PICK items \in n.lists : r \in adjacent(items)
    OBVIOUS
  <2>2. PICK p \in {q \in (DOMAIN items) \X (DOMAIN items) : q[1] < q[2]} :
            r \in BothWays("SIBLING_OF", Named(names, items[p[1]]), Named(names, items[p[2]]))
    BY <2>1
  <2> DEFINE xs == Named(names, items[p[1]])
             ys == Named(names, items[p[2]])
  <2>3. xs \in SUBSET E /\ ys \in SUBSET E
    BY NamedIs DEF E
  <2>4. \/ r \in Between("SIBLING_OF", xs, ys)
        \/ r \in Between("SIBLING_OF", ys, xs)
    BY <2>2 DEF BothWays
  <2>5. BothWays("SIBLING_OF", xs, ys) \subseteq adjacent(items)
    BY <2>2
  <2>6. adjacent(items) \subseteq siblings
    BY <2>1
  <2> HIDE DEF together, subtopics, siblings, refs, adjacent, xs, ys
  <2>7. /\ r.type = "SIBLING_OF" /\ r.from # r.to /\ r.from \in E /\ r.to \in E
        /\ \/ r.from \in xs /\ r.to \in ys
           \/ r.from \in ys /\ r.to \in xs
    BY <2>3, <2>4, BetweenIs
  <2>8. Relation(r.type, r.to, r.from) \in BothWays("SIBLING_OF", xs, ys)
    BY <2>7, BetweenIs DEF BothWays
  <2>9. Relation(r.type, r.to, r.from) \in all
    BY <1>1, <2>5, <2>6, <2>8
  <2> QED BY <2>7, <2>9 DEF Structural
<1>8. ASSUME NEW r \in refs PROVE Structural(r, all, E) /\ r.type # "SYNONYM_OF"
  <2>1. PICK q \in n.refs : r \in Between("REFERENCES", Named(names, q[1]), Named(names, q[2]))
    OBVIOUS
  <2>2. /\ r.type = "REFERENCES" /\ r.from \in Named(names, q[1]) /\ r.to \in Named(names, q[2])
        /\ r.from # r.to
    BY <2>1, BetweenIs
  <2>3. Named(names, q[1]) \in SUBSET E /\ Named(names, q[2]) \in SUBSET E
    BY NamedIs DEF E
  <2> HIDE DEF together, subtopics, siblings, refs
  <2> QED BY <2>2, <2>3 DEF Structural
<1> HIDE DEF together, subtopics, siblings, refs
<1> QED BY <1>1, <1>5, <1>6, <1>7, <1>8 DEF all, E

\* What the pipeline extracts is closed: every stage is, in the texts it
\* compares, and the ends of a relation have the ids of their texts.
LEMMA ClosedIs ==
    ASSUME NEW n \in Notes, NEW known \in SUBSET Phrases
    PROVE  RelationsClosed(Extraction(n, known))
<1> DEFINE concepts == Surviving(n)
           names == Normalised(concepts, known)
           isA == CompoundIsA(concepts) \cup HearstIsA(n.sentences, concepts)
           E == Range(names)
           x == Extraction(n, known)
           all == Structure(n, names) \cup Synonyms(names) \cup Hierarchy(isA, names)
<1>1. x.entities = {Entity(t) : t \in E} /\ x.relations = {Extracted(r) : r \in all}
  BY DEF Extraction
<1>2. DOMAIN names = Surfaces(concepts)
  BY SurvivingAre, NormalisedIs, Zenon
<1>3. \A t \in DOMAIN names : names[t] \in E
  BY DEF Range
<1>4. Joins(isA, concepts)
  BY IsAJoins
<1> HIDE DEF concepts, names, isA, x, E
<1>5. ASSUME NEW r \in all
      PROVE  /\ r.to \in E /\ r.from # r.to
             /\ r.type # "SYNONYM_OF" => r.from \in E
             /\ r.type \in {"MENTIONED_TOGETHER", "SIBLING_OF"} =>
                    Relation(r.type, r.to, r.from) \in all
  <2>1. CASE r \in Structure(n, names)
    <3>1. Structural(r, Structure(n, names), Range(names))
      BY <2>1, StructureIs
    <3> QED BY <3>1 DEF Structural, E
  <2>2. CASE r \in Synonyms(names)
    <3>1. PICK t \in DOMAIN names : names[t] # t /\ r = Relation("SYNONYM_OF", t, names[t])
      BY <2>2 DEF Synonyms
    <3>2. r.type = "SYNONYM_OF" /\ r.from = t /\ r.to = names[t]
      BY <3>1 DEF Relation
    <3> QED BY <1>3, <3>1, <3>2
  <2>3. CASE r \in Hierarchy(isA, names)
    <3>1. PICK e \in isA : /\ names[e.child] # names[e.parent]
                           /\ r = Relation("IS_A", names[e.child], names[e.parent])
      BY <2>3 DEF Hierarchy
    <3>2. r.type = "IS_A" /\ r.from = names[e.child] /\ r.to = names[e.parent]
      BY <3>1 DEF Relation
    <3>3. e.child \in DOMAIN names /\ e.parent \in DOMAIN names
      BY <1>2, <1>4 DEF Joins
    <3> QED BY <1>3, <3>1, <3>2, <3>3
  <2> QED BY <2>1, <2>2, <2>3
<1> HIDE DEF all
<1>6. ASSUME NEW q \in x.relations
      PROVE  /\ q.object \in x.entities /\ q.subject.text # q.object.text
             /\ q.type # "SYNONYM_OF" => q.subject \in x.entities
             /\ q.type \in {"MENTIONED_TOGETHER", "SIBLING_OF"} =>
                    Reversed(q) \in x.relations
  <2>1. PICK r \in all : q = Extracted(r)
    BY <1>1
  <2>2. q.type = r.type /\ q.subject = Entity(r.from) /\ q.object = Entity(r.to)
    BY <2>1 DEF Extracted
  <2>3. q.subject.text = r.from /\ q.object.text = r.to
    BY <2>2 DEF Entity
  <2>4. \A t \in E : Entity(t) \in x.entities
    BY <1>1
  <2>5. Extracted(Relation(r.type, r.to, r.from)) = Reversed(q)
    <3>1. LET b == Relation(r.type, r.to, r.from)
          IN  b.type = r.type /\ b.from = r.to /\ b.to = r.from
      BY DEF Relation
    <3> QED BY <3>1, <2>2 DEF Extracted, Reversed
  <2>6. Relation(r.type, r.to, r.from) \in all =>
            Reversed(q) \in x.relations
    BY <1>1, <2>5
  <2> QED BY <1>5, <2>2, <2>3, <2>4, <2>6
<1> QED BY <1>6 DEF RelationsClosed, x
-----------------------------------------------------------------------------
(**************************** Hearst patterns ****************************)

\* What is left of a sequence, and what comes before, place by place.
LEMMA FromIs ==
    ASSUME NEW S, NEW words \in Seq(S), NEW i \in 1 .. Len(words)
    PROVE  /\ From(words, i) \in Seq(S) /\ Len(From(words, i)) = Len(words) - i + 1
           /\ \A k \in 1 .. Len(words) - i + 1 : From(words, i)[k] = words[i + k - 1]
<1>1. Len(words) \in Nat /\ i \in Int /\ \A k \in i .. Len(words) : words[k] \in S
  OBVIOUS
<1>2. /\ SubSeq(words, i, Len(words)) \in Seq(S)
      /\ Len(SubSeq(words, i, Len(words))) = IF i <= Len(words) THEN Len(words) - i + 1 ELSE 0
      /\ \A k \in 1 .. Len(words) - i + 1 : SubSeq(words, i, Len(words))[k] = words[i + k - 1]
  BY <1>1, SubSeqProperties
<1> QED BY <1>1, <1>2 DEF From

\* A text says a phrase of one or more words.
LEMMA SaysIs ==
    ASSUME NEW S, NEW words \in Seq(S), NEW i \in 1 .. Len(words), NEW p \in Seq(S)
    PROVE  Says(words, i, p) <=> /\ i + Len(p) <= Len(words) + 1
                                 /\ \A k \in 1 .. Len(p) : p[k] = words[i + k - 1]
<1>1. Len(words) \in Nat /\ i \in Int /\ Len(p) \in Nat
  OBVIOUS
<1>2. /\ From(words, i) \in Seq(S) /\ Len(From(words, i)) = Len(words) - i + 1
      /\ \A k \in 1 .. Len(words) - i + 1 : From(words, i)[k] = words[i + k - 1]
  BY FromIs
<1>3. Says(words, i, p) <=> /\ Len(p) <= Len(words) - i + 1
                            /\ \A k \in 1 .. Len(p) : p[k] = From(words, i)[k]
  BY <1>2, PrefixIs DEF Says
<1>4. Len(p) <= Len(words) - i + 1 <=> i + Len(p) <= Len(words) + 1
  BY <1>1
<1>5. ASSUME Len(p) <= Len(words) - i + 1
      PROVE  \A k \in 1 .. Len(p) : From(words, i)[k] = words[i + k - 1]
  BY <1>1, <1>2, <1>5
<1> QED BY <1>3, <1>4, <1>5

\* A concept occurs in a text.
LEMMA AtIs ==
    ASSUME NEW words \in Seq(Vocabulary), NEW c \in SpanType
    PROVE  \A i : i \in At(words, c) <=>
              /\ i \in 1 .. Len(words) /\ i + Len(c.lemma) <= Len(words) + 1
              /\ \A k \in 1 .. Len(c.lemma) : c.lemma[k] = words[i + k - 1]
<1>1. c.lemma \in Seq(Vocabulary) /\ DOMAIN words = 1 .. Len(words)
  BY DEF SpanType
<1>2. \A i \in 1 .. Len(words) : i \in At(words, c) <=> Says(words, i, c.lemma)
  BY <1>1 DEF At, Says, From
<1>3. \A i : i \in At(words, c) => i \in 1 .. Len(words)
  BY <1>1 DEF At
<1>4. \A i \in 1 .. Len(words) :
         Says(words, i, c.lemma) <=> /\ i + Len(c.lemma) <= Len(words) + 1
                                     /\ \A k \in 1 .. Len(c.lemma) : c.lemma[k] = words[i + k - 1]
  <2> DEFINE lemma == c.lemma
  <2> HIDE DEF lemma
  <2>1. lemma \in Seq(Vocabulary)
    BY <1>1 DEF lemma
  <2>2. \A i \in 1 .. Len(words) :
           Says(words, i, lemma) <=> /\ i + Len(lemma) <= Len(words) + 1
                                     /\ \A k \in 1 .. Len(lemma) : lemma[k] = words[i + k - 1]
    <3> SUFFICES ASSUME NEW i \in 1 .. Len(words)
                 PROVE  Says(words, i, lemma) <=>
                           /\ i + Len(lemma) <= Len(words) + 1
                           /\ \A k \in 1 .. Len(lemma) : lemma[k] = words[i + k - 1]
      OBVIOUS
    <3> QED BY <2>1, SaysIs
  <2> QED BY <2>2 DEF lemma
<1> QED BY <1>2, <1>3, <1>4, Zenon
Triggers == {"such", "including", "especially", "and", "or", "is"}
Spoken == Vocabulary \cup Triggers \cup {"as", "other", "a", "an"}

\* A sentence made of a trigger of two words between two lemmas.
Joined(words, s, x, y, t) ==
    /\ words \in Seq(Spoken) /\ Len(words) = Len(s) + 2 + Len(t)
    /\ \A i \in 1 .. Len(s) : words[i] = s[i]
    /\ words[Len(s) + 1] = x /\ words[Len(s) + 2] = y
    /\ \A i \in 1 .. Len(t) : words[Len(s) + 2 + i] = t[i]

LEMMA Joining ==
    ASSUME NEW s \in Seq(Vocabulary), NEW t \in Seq(Vocabulary), NEW x \in Spoken, NEW y \in Spoken
    PROVE  Joined(s \o <<x, y>> \o t, s, x, y, t)
<1>1. s \in Seq(Spoken) /\ t \in Seq(Spoken) /\ Len(s) \in Nat /\ Len(t) \in Nat
  <2>1. Vocabulary \subseteq Spoken
    BY DEF Spoken
  <2> QED BY <2>1, SeqMonotonic
<1>2. <<x, y>> \in Seq(Spoken) /\ Len(<<x, y>>) = 2 /\ <<x, y>>[1] = x /\ <<x, y>>[2] = y
  OBVIOUS
<1> DEFINE two == <<x, y>>
           u == s \o two
           w == u \o t
<1> HIDE DEF two
<1>3. /\ u \in Seq(Spoken) /\ Len(u) = Len(s) + 2
      /\ \A i \in 1 .. Len(s) + 2 : u[i] = IF i <= Len(s) THEN s[i] ELSE two[i - Len(s)]
  BY <1>1, <1>2, ConcatProperties DEF two
<1> HIDE DEF u
<1>4. /\ w \in Seq(Spoken) /\ Len(w) = Len(u) + Len(t)
      /\ \A i \in 1 .. Len(u) + Len(t) : w[i] = IF i <= Len(u) THEN u[i] ELSE t[i - Len(u)]
  <2>1. u \in Seq(Spoken) /\ t \in Seq(Spoken)
    BY <1>1, <1>3
  <2> QED BY <2>1, ConcatProperties, Zenon
<1> HIDE DEF w
<1>5. ASSUME NEW i \in 1 .. Len(s) PROVE w[i] = s[i]
  <2>1. i \in 1 .. Len(s) + 2 /\ i <= Len(s)
    BY <1>1
  <2>2. i \in 1 .. Len(u) + Len(t) /\ i <= Len(u)
    BY <1>1, <1>3, <2>1
  <2>3. u[i] = s[i]
    BY <1>3, <2>1
  <2> QED BY <1>4, <2>2, <2>3
<1>6. w[Len(s) + 1] = x /\ w[Len(s) + 2] = y
  BY <1>1, <1>2, <1>3, <1>4 DEF two
<1>7. ASSUME NEW i \in 1 .. Len(t) PROVE w[Len(s) + 2 + i] = t[i]
  <2>1. Len(s) + 2 + i \in 1 .. Len(u) + Len(t) /\ ~(Len(s) + 2 + i <= Len(u))
        /\ Len(s) + 2 + i - Len(u) = i
    BY <1>1, <1>3
  <2> QED BY <1>4, <2>1
<1>8. Len(w) = Len(s) + 2 + Len(t)
  BY <1>1, <1>3, <1>4
<1> QED BY <1>4, <1>5, <1>6, <1>7, <1>8 DEF Joined, w, u, two

\* Before and after the trigger are the two lemmas.
LEMMA Halves ==
    ASSUME NEW s \in Seq(Vocabulary), NEW t \in Seq(Vocabulary), t # <<>>,
           NEW x, NEW y, NEW words, Joined(words, s, x, y, t)
    PROVE  /\ Until(words, Len(s)) = s
           /\ From(words, Len(s) + 3) = t
<1>1. /\ words \in Seq(Spoken) /\ Len(words) = Len(s) + 2 + Len(t)
      /\ Len(s) \in Nat /\ Len(t) \in Nat /\ Len(t) # 0
      /\ s \in Seq(Spoken) /\ t \in Seq(Spoken)
  <2>1. Vocabulary \subseteq Spoken
    BY DEF Spoken
  <2> QED BY <2>1, SeqMonotonic, EmptySeq DEF Joined
<1>2. Until(words, Len(s)) = s
  <2>1. \A i \in 1 .. Len(s) : words[i] \in Spoken
    BY <1>1
  <2>2. /\ Until(words, Len(s)) \in Seq(Spoken)
        /\ Len(Until(words, Len(s))) = IF 1 <= Len(s) THEN Len(s) - 1 + 1 ELSE 0
        /\ \A i \in 1 .. Len(s) - 1 + 1 : Until(words, Len(s))[i] = words[1 + i - 1]
    BY <1>1, <2>1, SubSeqProperties DEF Until
  <2>3. Len(Until(words, Len(s))) = Len(s)
        /\ \A i \in 1 .. Len(s) : Until(words, Len(s))[i] = s[i]
    <3>1. \A i \in 1 .. Len(s) : words[i] = s[i]
      BY DEF Joined
    <3>2. \A i \in 1 .. Len(s) : i \in 1 .. Len(s) - 1 + 1 /\ 1 + i - 1 = i
      BY <1>1
    <3> QED BY <1>1, <2>2, <3>1, <3>2
  <2> QED BY <1>1, <2>2, <2>3, SeqEqual
<1>3. From(words, Len(s) + 3) = t
  <2> DEFINE i == Len(s) + 3
  <2>1. i \in 1 .. Len(words) /\ Len(words) - i + 1 = Len(t)
    BY <1>1
  <2>2. /\ From(words, i) \in Seq(Spoken) /\ Len(From(words, i)) = Len(t)
        /\ \A k \in 1 .. Len(t) : From(words, i)[k] = words[i + k - 1]
    <3> HIDE DEF i
    <3>1. /\ From(words, i) \in Seq(Spoken) /\ Len(From(words, i)) = Len(words) - i + 1
          /\ \A k \in 1 .. Len(words) - i + 1 : From(words, i)[k] = words[i + k - 1]
      BY <1>1, <2>1, FromIs
    <3> QED BY <2>1, <3>1
  <2>3. \A k \in 1 .. Len(t) : i + k - 1 = Len(s) + 2 + k
    BY <1>1
  <2>4. \A k \in 1 .. Len(t) : From(words, i)[k] = t[k]
    <3> HIDE DEF i
    <3>1. \A k \in 1 .. Len(t) : words[Len(s) + 2 + k] = t[k]
      BY DEF Joined
    <3> QED BY <2>2, <2>3, <3>1
  <2> QED BY <1>1, <2>2, <2>4, SeqEqual
<1> QED BY <1>2, <1>3

\* The only word a pattern begins with is the trigger's.
LEMMA OneTrigger ==
    ASSUME NEW s \in Seq(Vocabulary), NEW t \in Seq(Vocabulary), Plain(s), Plain(t),
           NEW x, NEW y, y \notin Triggers, NEW words, Joined(words, s, x, y, t),
           NEW i \in 1 .. Len(words), words[i] \in Triggers
    PROVE  i = Len(s) + 1
<1>1. /\ Len(s) \in Nat /\ Len(t) \in Nat /\ Len(words) = Len(s) + 2 + Len(t)
      /\ DOMAIN s = 1 .. Len(s) /\ DOMAIN t = 1 .. Len(t)
  BY DEF Joined
<1>2. \A k \in 1 .. Len(s) : s[k] \notin Triggers
  BY <1>1 DEF Plain, Range, Triggers
<1>3. \A k \in 1 .. Len(t) : t[k] \notin Triggers
  BY <1>1 DEF Plain, Range, Triggers
<1>4. CASE i \in 1 .. Len(s)
  BY <1>2, <1>4 DEF Joined
<1>5. CASE i = Len(s) + 2
  BY <1>5 DEF Joined
<1>6. CASE i > Len(s) + 2
  <2> DEFINE k == i - Len(s) - 2
  <2>1. k \in 1 .. Len(t) /\ i = Len(s) + 2 + k
    BY <1>1, <1>6
  <2> HIDE DEF k
  <2>2. words[i] = t[k]
    BY <2>1 DEF Joined
  <2> QED BY <1>3, <2>1, <2>2
<1> QED BY <1>1, <1>4, <1>5, <1>6

\* A pattern of two words.
LEMMA SaysTwo ==
    ASSUME NEW words \in Seq(Spoken), NEW i \in 1 .. Len(words), NEW p \in Spoken, NEW q \in Spoken
    PROVE  Says(words, i, <<p, q>>) <=> i + 1 <= Len(words) /\ words[i] = p /\ words[i + 1] = q
<1> DEFINE two == <<p, q>>
<1>1. two \in Seq(Spoken) /\ Len(two) = 2 /\ two[1] = p /\ two[2] = q
  OBVIOUS
<1> HIDE DEF two
<1>2. Says(words, i, two) <=> /\ i + 2 <= Len(words) + 1
                              /\ \A k \in 1 .. 2 : two[k] = words[i + k - 1]
  <2>1. Says(words, i, two) <=> /\ i + Len(two) <= Len(words) + 1
                                /\ \A k \in 1 .. Len(two) : two[k] = words[i + k - 1]
    <3>1. two \in Seq(Spoken)
      BY <1>1
    <3> QED BY <3>1, SaysIs
  <2> QED BY <1>1, <2>1
<1>3. (\A k \in 1 .. 2 : two[k] = words[i + k - 1]) <=> p = words[i] /\ q = words[i + 1]
  <2>1. \A k \in 1 .. 2 : k = 1 \/ k = 2
    OBVIOUS
  <2>2. i + 1 - 1 = i /\ i + 2 - 1 = i + 1 /\ 1 \in 1 .. 2 /\ 2 \in 1 .. 2
    OBVIOUS
  <2> QED BY <1>1, <2>1, <2>2
<1>4. Len(words) \in Nat /\ (i + 2 <= Len(words) + 1 <=> i + 1 <= Len(words))
  OBVIOUS
<1> QED BY <1>2, <1>3, <1>4 DEF two

\* And of one.
LEMMA SaysOne ==
    ASSUME NEW words \in Seq(Spoken), NEW i \in 1 .. Len(words), NEW p \in Spoken
    PROVE  Says(words, i, <<p>>) => words[i] = p
<1> DEFINE one == <<p>>
<1>1. one \in Seq(Spoken) /\ Len(one) = 1 /\ one[1] = p
  OBVIOUS
<1> HIDE DEF one
<1>2. Says(words, i, one) => \A k \in 1 .. 1 : one[k] = words[i + k - 1]
  BY <1>1, SaysIs
<1>3. 1 \in 1 .. 1 /\ i + 1 - 1 = i
  OBVIOUS
<1> QED BY <1>1, <1>2, <1>3 DEF one

\* Where the trigger of a sentence is another one, a pattern does not fire.
LEMMA NoOther ==
    ASSUME NEW s \in Seq(Vocabulary), NEW t \in Seq(Vocabulary), Plain(s), Plain(t),
           NEW x \in Triggers, NEW y \in Spoken \ Triggers, NEW words, Joined(words, s, x, y, t),
           NEW p \in Triggers, NEW q \in Spoken, NEW i \in 1 .. Len(words)
    PROVE  /\ Says(words, i, <<p, q>>) => i = Len(s) + 1 /\ p = x /\ q = y
           /\ Says(words, i, <<p>>) => i = Len(s) + 1 /\ p = x
<1>1. words \in Seq(Spoken) /\ p \in Spoken
  BY DEF Joined, Spoken
<1>2. ASSUME words[i] = p PROVE i = Len(s) + 1 /\ p = x
  <2>1. i = Len(s) + 1
    BY <1>2, OneTrigger
  <2> QED BY <1>2, <2>1 DEF Joined
<1>3. Says(words, i, <<p, q>>) => words[i] = p /\ words[i + 1] = q
  BY <1>1, SaysTwo
<1>4. Says(words, i, <<p>>) => words[i] = p
  BY <1>1, SaysOne
<1>5. ASSUME i = Len(s) + 1, words[i + 1] = q PROVE q = y
  <2>1. i + 1 = Len(s) + 2
    BY <1>5
  <2> QED BY <1>5, <2>1 DEF Joined
<1> QED BY <1>2, <1>3, <1>4, <1>5

\* The trigger of a sentence does fire.
LEMMA Fires ==
    ASSUME NEW s \in Seq(Vocabulary), NEW t \in Seq(Vocabulary), NEW x \in Spoken, NEW y \in Spoken,
           NEW words, Joined(words, s, x, y, t)
    PROVE  Len(s) + 1 \in 1 .. Len(words) /\ Says(words, Len(s) + 1, <<x, y>>)
<1>1. /\ words \in Seq(Spoken) /\ Len(words) = Len(s) + 2 + Len(t)
      /\ Len(s) \in Nat /\ Len(t) \in Nat
      /\ words[Len(s) + 1] = x /\ words[Len(s) + 2] = y
  BY DEF Joined
<1> DEFINE i == Len(s) + 1
<1>2. i \in 1 .. Len(words) /\ i + 1 <= Len(words) /\ words[i] = x /\ words[i + 1] = y
  BY <1>1
<1> HIDE DEF i
<1>3. Says(words, i, <<x, y>>)
  BY <1>1, <1>2, SaysTwo
<1> QED BY <1>2, <1>3 DEF i

\* A list without verbs is bounded by none.
LEMMA NoVerb ==
    ASSUME NEW s \in Seq(Vocabulary), Plain(s) PROVE UpToVerb(s) = s
<1>1. \A i \in DOMAIN s : s[i] \notin Verbs
  BY DEF Plain, Range
<1>2. {i \in DOMAIN s : s[i] \in Verbs} = {}
  BY <1>1
<1> QED BY <1>2 DEF UpToVerb

\* What "H such as M" gives.
LEMMA ForwardIs ==
    ASSUME NEW h \in Seq(Vocabulary), NEW m \in Seq(Vocabulary), m # <<>>, Plain(h), Plain(m),
           NEW concepts
    PROVE  HearstIsA({h \o <<"such", "as">> \o m}, concepts)
              = Emit(Present(m, concepts), NearestToEnd(h, concepts))
<1> DEFINE words == h \o <<"such", "as">> \o m
           a == Len(h)
           E == Emit(Present(m, concepts), NearestToEnd(h, concepts))
           G(t) == Emit(Present(UpToVerb(From(words, t[1] + Len(t[2]))), concepts),
                        NearestToEnd(Until(words, t[1] - 1), concepts))
           phrases == {<<"such", "as">>, <<"including">>, <<"especially">>}
           where == {t \in (DOMAIN words) \X phrases : Says(words, t[1], t[2])}
<1>1. /\ "such" \in Triggers /\ "including" \in Triggers /\ "especially" \in Triggers
      /\ "and" \in Triggers /\ "or" \in Triggers /\ "is" \in Triggers
      /\ "as" \in Spoken \ Triggers /\ "other" \in Spoken /\ "a" \in Spoken /\ "an" \in Spoken
      /\ "such" \in Spoken
  BY DEF Triggers, Spoken
<1>2. Joined(words, h, "such", "as", m)
  BY <1>1, Joining
<1>3. Until(words, a) = h /\ From(words, a + 3) = m
  BY <1>2, Halves
<1>4. words \in Seq(Spoken) /\ DOMAIN words = 1 .. Len(words) /\ a \in Nat
  BY <1>2 DEF Joined
<1> HIDE DEF words
<1>5. \A i \in 1 .. Len(words) : \A p \in Triggers : \A q \in Spoken :
         /\ Says(words, i, <<p, q>>) => i = a + 1 /\ p = "such" /\ q = "as"
         /\ Says(words, i, <<p>>) => i = a + 1 /\ p = "such"
  BY <1>1, <1>2, NoOther
<1>6. a + 1 \in 1 .. Len(words) /\ Says(words, a + 1, <<"such", "as">>)
  BY <1>1, <1>2, Fires
<1>7. SuchAsAndForward(words, concepts) = UNION {G(t) : t \in where}
  BY DEF SuchAsAndForward
<1> HIDE DEF a
<1>8. where = {<<a + 1, <<"such", "as">>>>}
  <2>1. ASSUME NEW i \in DOMAIN words, NEW p \in phrases, Says(words, i, p)
        PROVE  i = a + 1 /\ p = <<"such", "as">>
    <3>1. CASE p = <<"such", "as">>
      BY <1>1, <1>4, <1>5, <2>1, <3>1
    <3>2. CASE p = <<"including">>
      <4>1. Says(words, i, <<"including">>) /\ i \in 1 .. Len(words)
        BY <1>4, <2>1, <3>2
      <4>2. "including" = "such"
        BY <1>1, <1>5, <4>1
      <4> QED BY <4>2
    <3>3. CASE p = <<"especially">>
      <4>1. Says(words, i, <<"especially">>) /\ i \in 1 .. Len(words)
        BY <1>4, <2>1, <3>3
      <4>2. "especially" = "such"
        BY <1>1, <1>5, <4>1
      <4> QED BY <4>2
    <3> QED BY <3>1, <3>2, <3>3
  <2>2. <<a + 1, <<"such", "as">>>> \in where
    BY <1>4, <1>6
  <2>3. ASSUME NEW t \in where PROVE t = <<a + 1, <<"such", "as">>>>
    <3>1. t \in (DOMAIN words) \X phrases /\ Says(words, t[1], t[2])
      OBVIOUS
    <3> HIDE DEF phrases
    <3>2. t[1] \in DOMAIN words /\ t[2] \in phrases /\ t = <<t[1], t[2]>>
      BY <3>1
    <3>3. t[1] = a + 1 /\ t[2] = <<"such", "as">>
      BY <2>1, <3>1, <3>2, Zenon
    <3> QED BY <3>2, <3>3
  <2> HIDE DEF where
  <2> QED BY <2>2, <2>3
<1>9. G(<<a + 1, <<"such", "as">>>>) = E
  <2> DEFINE t == <<a + 1, <<"such", "as">>>>
  <2>1. t[1] - 1 = a /\ t[1] + Len(t[2]) = a + 3
    BY <1>4
  <2> HIDE DEF t
  <2>2. G(t) = Emit(Present(UpToVerb(m), concepts), NearestToEnd(h, concepts))
    BY <1>3, <2>1 DEF a
  <2> HIDE DEF G
  <2> QED BY <2>2, NoVerb DEF t
<1>10. SuchAsAndForward(words, concepts) = E
  <2> HIDE DEF G, E, where
  <2>1. UNION {G(t) : t \in where} = E
    BY <1>8, <1>9
  <2> QED BY <1>7, <2>1
<1>11. AndOther(words, concepts) = {}
  <2>1. \A i \in DOMAIN words : \A o \in {"and", "or"} : ~Says(words, i, <<o, "other">>)
    BY <1>1, <1>4, <1>5
  <2> QED BY <2>1 DEF AndOther
<1>12. Copular(words, concepts) = {}
  <2>1. \A i \in DOMAIN words : \A o \in {"a", "an"} : ~Says(words, i, <<"is", o>>)
    BY <1>1, <1>4, <1>5
  <2> QED BY <2>1 DEF Copular
<1>13. HearstIsA({words}, concepts) = E
  BY <1>10, <1>11, <1>12 DEF HearstIsA
<1> QED BY <1>13 DEF words

\* What "M and other H" gives.
LEMMA OtherIs ==
    ASSUME NEW h \in Seq(Vocabulary), NEW m \in Seq(Vocabulary), h # <<>>, Plain(h), Plain(m),
           NEW concepts
    PROVE  HearstIsA({m \o <<"and", "other">> \o h}, concepts)
              = Emit(Present(m, concepts), NearestToStart(h, concepts))
<1> DEFINE words == m \o <<"and", "other">> \o h
           b == Len(m)
           E == Emit(Present(m, concepts), NearestToStart(h, concepts))
           G(i) == Emit(Present(Until(words, i - 1), concepts),
                        NearestToStart(From(words, i + 2), concepts))
           where == {j \in DOMAIN words : \E o \in {"and", "or"} : Says(words, j, <<o, "other">>)}
<1>1. /\ "such" \in Triggers /\ "including" \in Triggers /\ "especially" \in Triggers
      /\ "and" \in Triggers /\ "or" \in Triggers /\ "is" \in Triggers
      /\ "other" \in Spoken \ Triggers /\ "as" \in Spoken /\ "a" \in Spoken /\ "an" \in Spoken
      /\ "and" \in Spoken
  BY DEF Triggers, Spoken
<1>2. Joined(words, m, "and", "other", h)
  BY <1>1, Joining
<1>3. Until(words, b) = m /\ From(words, b + 3) = h
  BY <1>2, Halves
<1>4. words \in Seq(Spoken) /\ DOMAIN words = 1 .. Len(words) /\ b \in Nat
  BY <1>2 DEF Joined
<1> HIDE DEF words
<1>5. \A i \in 1 .. Len(words) : \A p \in Triggers : \A q \in Spoken :
         /\ Says(words, i, <<p, q>>) => i = b + 1 /\ p = "and" /\ q = "other"
         /\ Says(words, i, <<p>>) => i = b + 1 /\ p = "and"
  BY <1>1, <1>2, NoOther
<1>6. b + 1 \in 1 .. Len(words) /\ Says(words, b + 1, <<"and", "other">>)
  BY <1>1, <1>2, Fires
<1>7. AndOther(words, concepts) = UNION {G(i) : i \in where}
  BY DEF AndOther
<1> HIDE DEF b
<1>8. where = {b + 1}
  <2>1. ASSUME NEW i \in where PROVE i = b + 1
    BY <1>1, <1>4, <1>5
  <2>2. b + 1 \in where
    BY <1>4, <1>6
  <2> HIDE DEF where
  <2> QED BY <2>1, <2>2
<1>9. G(b + 1) = E
  <2>1. (b + 1) - 1 = b /\ (b + 1) + 2 = b + 3
    BY <1>4
  <2> QED BY <1>3, <2>1 DEF b
<1>10. AndOther(words, concepts) = E
  <2> HIDE DEF G, E, where
  <2>1. UNION {G(t) : t \in where} = E
    BY <1>8, <1>9
  <2> QED BY <1>7, <2>1
<1>11. SuchAsAndForward(words, concepts) = {}
  <2> DEFINE phrases == {<<"such", "as">>, <<"including">>, <<"especially">>}
  <2>1. \A i \in DOMAIN words : /\ ~Says(words, i, <<"such", "as">>)
                                /\ ~Says(words, i, <<"including">>)
                                /\ ~Says(words, i, <<"especially">>)
    BY <1>1, <1>4, <1>5
  <2>2. {t \in (DOMAIN words) \X phrases : Says(words, t[1], t[2])} = {}
    BY <2>1
  <2> QED BY <2>2 DEF SuchAsAndForward
<1>12. Copular(words, concepts) = {}
  <2>1. \A i \in DOMAIN words : \A o \in {"a", "an"} : ~Says(words, i, <<"is", o>>)
    BY <1>1, <1>4, <1>5
  <2> QED BY <2>1 DEF Copular
<1>13. HearstIsA({words}, concepts) = E
  BY <1>10, <1>11, <1>12 DEF HearstIsA
<1> QED BY <1>13 DEF words
-----------------------------------------------------------------------------
(**************************** both phrasings *****************************)

\* Concepts occur in one of them at its end alone.
AtEnd(concepts, h) ==
    \A c \in Range(concepts) : \A i \in At(h.lemma, c) : i + Len(c.lemma) = Len(h.lemma) + 1

\* Then they are this one, which starts at its beginning, and its heads, which
\* start later.
LEMMA Occurrences ==
    ASSUME NEW concepts, Separate(concepts), NEW h \in Range(concepts), AtEnd(concepts, h)
    PROVE  /\ At(h.lemma, h) = {1}
           /\ \A c \in Range(concepts) : At(h.lemma, c) \in SUBSET Nat
           /\ \A c \in Range(concepts) : At(h.lemma, c) # {} /\ c # h =>
                  c \in Heads(concepts, h) /\ \A i \in At(h.lemma, c) : i > 1
<1> DEFINE H == h.lemma
<1>1. h \in SpanType /\ H \in Seq(Vocabulary) /\ Len(H) \in Nat /\ Len(H) >= 1
  BY SeparateType
<1>2. \A c \in Range(concepts) : \A i : i \in At(H, c) <=>
         /\ i \in 1 .. Len(H) /\ i + Len(c.lemma) <= Len(H) + 1
         /\ \A k \in 1 .. Len(c.lemma) : c.lemma[k] = H[i + k - 1]
  <2> SUFFICES ASSUME NEW c \in Range(concepts), NEW i
               PROVE  i \in At(H, c) <=>
                         /\ i \in 1 .. Len(H) /\ i + Len(c.lemma) <= Len(H) + 1
                         /\ \A k \in 1 .. Len(c.lemma) : c.lemma[k] = H[i + k - 1]
    OBVIOUS
  <2>1. c \in SpanType
    BY SeparateType
  <2> QED BY <1>1, <2>1, AtIs
<1>3. \A c \in Range(concepts) : \A i \in At(H, c) : i + Len(c.lemma) = Len(H) + 1
  BY DEF AtEnd
<1>4. 1 \in At(H, h)
  <2>1. 1 \in 1 .. Len(H) /\ 1 + Len(H) <= Len(H) + 1 /\ \A k \in 1 .. Len(H) : 1 + k - 1 = k
    BY <1>1
  <2> HIDE DEF H
  <2>2. \A k \in 1 .. Len(H) : H[k] = H[1 + k - 1]
    BY <2>1
  <2> QED BY <1>2, <2>1, <2>2 DEF H
<1>5. \A i \in At(H, h) : i = 1
  <2> SUFFICES ASSUME NEW i \in At(H, h) PROVE i = 1
    OBVIOUS
  <2>1. i \in 1 .. Len(H) /\ i + Len(H) = Len(H) + 1
    BY <1>2, <1>3
  <2> QED BY <1>1, <2>1
<1>6. \A c \in Range(concepts) : At(H, c) \in SUBSET Nat
  BY <1>2
<1>7. ASSUME NEW c \in Range(concepts), c # h, NEW i \in At(H, c)
      PROVE  i > 1 /\ c \in Heads(concepts, h)
  <2> DEFINE L == c.lemma
  <2>1. L \in Seq(Vocabulary) /\ Len(L) \in Nat /\ Len(L) >= 1
    BY SeparateType
  <2>2. /\ i \in 1 .. Len(H) /\ i + Len(L) = Len(H) + 1
        /\ \A k \in 1 .. Len(L) : L[k] = H[i + k - 1]
    BY <1>2, <1>3
  <2>3. L # H
    BY <1>7 DEF Separate
  <2> HIDE DEF L, H
  <2>4. i # 1
    <3> SUFFICES ASSUME i = 1 PROVE FALSE
      OBVIOUS
    <3>1. Len(L) = Len(H) /\ \A k \in 1 .. Len(L) : i + k - 1 = k
      BY <1>1, <2>1, <2>2
    <3>2. \A k \in 1 .. Len(L) : L[k] = H[k]
      BY <2>2, <3>1
    <3> QED BY <1>1, <2>1, <2>3, <3>1, <3>2, SeqEqual
  <2>5. i > 1 /\ Len(L) < Len(H)
    BY <1>1, <2>1, <2>2, <2>4
  <2>6. \A k \in 1 .. Len(L) : L[k] = H[Len(H) - Len(L) + k]
    <3>1. i \in Int /\ i + Len(L) = Len(H) + 1 /\ Len(L) \in Int /\ Len(H) \in Int
      BY <1>1, <2>1, <2>2
    <3>2. \A k \in 1 .. Len(L) : i + k - 1 = Len(H) - Len(L) + k
      BY <3>1
    <3> QED BY <2>2, <3>2
  <2>7. IsSuffix(L, H)
    BY <1>1, <2>1, <2>5, <2>6, SuffixIs
  <2> QED BY <2>5, <2>7 DEF Heads, L, H
<1>8. At(H, h) = {1}
  BY <1>4, <1>5
<1> HIDE DEF H
<1> QED BY <1>6, <1>7, <1>8 DEF H

\* The first of the concepts that is h.
LEMMA FirstOf ==
    ASSUME NEW concepts \in Seq(SpanType), NEW h \in Range(concepts)
    PROVE  \E j \in DOMAIN concepts : concepts[j] = h
              /\ \A k \in DOMAIN concepts : concepts[k] = h => j <= k
<1> DEFINE T == {i \in DOMAIN concepts : concepts[i] = h}
<1>1. T \in SUBSET Nat /\ T # {}
  BY DEF Range
<1>2. \E j \in T : \A k \in T : j <= k
  <2> HIDE DEF T
  <2> QED BY <1>1, LeastNumber
<1> QED BY <1>2

LEMMA StartIs ==
    ASSUME NEW concepts, Separate(concepts), NEW h \in Range(concepts), AtEnd(concepts, h)
    PROVE  NearestToStart(h.lemma, concepts) = {h}
<1> DEFINE at(i) == At(h.lemma, concepts[i])
           found == {i \in DOMAIN concepts : at(i) # {}}
           first(i) == Min(at(i))
           won == {j \in found : \A k \in found : first(k) > first(j)
                                                  \/ (first(k) = first(j) /\ j <= k)}
<1>1. concepts \in Seq(SpanType) /\ \A i \in DOMAIN concepts : concepts[i] \in Range(concepts)
  BY DEF Separate, Range
<1>2. \A i \in found : first(i) \in at(i) /\ first(i) \in Nat
  <2> SUFFICES ASSUME NEW i \in found PROVE first(i) \in at(i) /\ first(i) \in Nat
    OBVIOUS
  <2>1. at(i) \in SUBSET Nat /\ at(i) # {}
    BY <1>1, Occurrences
  <2> HIDE DEF at, found
  <2> QED BY <2>1, MinOf
<1>3. \A i \in DOMAIN concepts : concepts[i] = h => i \in found /\ at(i) = {1}
  BY Occurrences
<1>4. \A i \in found : concepts[i] # h => \A k \in at(i) : k > 1
  BY <1>1, Occurrences
<1>5. NearestToStart(h.lemma, concepts) = {concepts[i] : i \in won}
  BY DEF NearestToStart
<1>6. found \subseteq DOMAIN concepts /\ DOMAIN concepts \subseteq Nat
  BY <1>1
<1> HIDE DEF at, found, first
<1>7. \A i \in found : (concepts[i] = h => first(i) = 1) /\ (concepts[i] # h => first(i) > 1)
  <2> SUFFICES ASSUME NEW i \in found
               PROVE  (concepts[i] = h => first(i) = 1) /\ (concepts[i] # h => first(i) > 1)
    OBVIOUS
  <2>1. first(i) \in at(i) /\ i \in DOMAIN concepts
    BY <1>2, <1>6
  <2> QED BY <1>3, <1>4, <2>1
<1>8. PICK j \in DOMAIN concepts : concepts[j] = h
              /\ \A k \in DOMAIN concepts : concepts[k] = h => j <= k
  BY <1>1, FirstOf
<1>9. j \in won
  <2>1. j \in found /\ first(j) = 1
    BY <1>3, <1>7, <1>8
  <2>2. ASSUME NEW k \in found
        PROVE  first(k) > first(j) \/ (first(k) = first(j) /\ j <= k)
    <3>1. k \in DOMAIN concepts
      BY <1>6
    <3> QED BY <1>7, <1>8, <2>1, <3>1
  <2> QED BY <2>1, <2>2
<1>10. ASSUME NEW i \in won PROVE concepts[i] = h
  <2>1. i \in found /\ j \in found
    BY <1>9
  <2>2. first(j) > first(i) \/ first(j) = first(i)
    BY <2>1
  <2>3. first(j) = 1
    BY <1>7, <1>8, <2>1
  <2> QED BY <1>2, <1>7, <2>1, <2>2, <2>3
<1> HIDE DEF won
<1> QED BY <1>5, <1>8, <1>9, <1>10

LEMMA EndIs ==
    ASSUME NEW concepts, Separate(concepts), NEW h \in Range(concepts), AtEnd(concepts, h)
    PROVE  /\ NearestToEnd(h.lemma, concepts) \subseteq Heads(concepts, h) \cup {h}
           /\ Heads(concepts, h) = {} => NearestToEnd(h.lemma, concepts) = {h}
<1> DEFINE at(i) == At(h.lemma, concepts[i])
           found == {i \in DOMAIN concepts : at(i) # {}}
           last(i) == Max(at(i))
           won == {j \in found : \A k \in found : last(k) < last(j)
                                                  \/ (last(k) = last(j) /\ j <= k)}
<1>1. concepts \in Seq(SpanType) /\ \A i \in DOMAIN concepts : concepts[i] \in Range(concepts)
  BY DEF Separate, Range
<1>2. NearestToEnd(h.lemma, concepts) = {concepts[i] : i \in won}
  BY DEF NearestToEnd
<1>3. \A i \in found : concepts[i] \in Heads(concepts, h) \cup {h}
  BY <1>1, Occurrences
<1>4. won \subseteq found
  OBVIOUS
<1>5. ASSUME Heads(concepts, h) = {} PROVE NearestToEnd(h.lemma, concepts) = {h}
  <2>1. PICK j \in DOMAIN concepts : concepts[j] = h
                /\ \A k \in DOMAIN concepts : concepts[k] = h => j <= k
    BY <1>1, FirstOf
  <2>2. j \in found
    BY <2>1, Occurrences
  <2>3. \A k \in found : concepts[k] = h /\ last(k) = last(j) /\ j <= k
    BY <1>3, <1>5, <2>1
  <2>4. j \in won
    <3> HIDE DEF last, found
    <3> QED BY <2>2, <2>3
  <2> HIDE DEF won, found, last
  <2> QED BY <1>2, <1>4, <2>1, <2>3, <2>4
<1> HIDE DEF won, found
<1> QED BY <1>2, <1>3, <1>4, <1>5

\* Both phrasings say the same.
LEMMA PhrasingsAre ==
    ASSUME NEW concepts, Separate(concepts) PROVE PhrasingsAgree(concepts)
<1> DEFINE R == Range(concepts)
           inside(h) == {c \in R : \E i \in At(h.lemma, c) : i + Len(c.lemma) # Len(h.lemma) + 1}
           forward(h, m) == HearstIsA({h.lemma \o <<"such", "as">> \o m.lemma}, concepts)
           other(h, m) == HearstIsA({m.lemma \o <<"and", "other">> \o h.lemma}, concepts)
           Agree(h, m) == /\ IsA(m, h) \in other(h, m)
                          /\ Heads(concepts, h) = {} => forward(h, m) = other(h, m)
                          /\ \A e \in forward(h, m) :
                                \E p \in Heads(concepts, h) \cup {h} : e.parent = p.text
<1>1. ASSUME NEW h \in R, NEW m \in R, Plain(h.lemma), Plain(m.lemma), inside(h) = {},
             h \notin Present(m.lemma, concepts)
      PROVE  Agree(h, m)
  <2>1. /\ h.lemma \in Seq(Vocabulary) /\ m.lemma \in Seq(Vocabulary)
        /\ h.lemma # <<>> /\ m.lemma # <<>> /\ m \in SpanType
        /\ Len(m.lemma) \in Nat /\ Len(m.lemma) >= 1
    <3>1. h \in SpanType /\ m \in SpanType
      BY SeparateType
    <3> QED BY <3>1, SeparateType DEF SpanType
  <2>2. AtEnd(concepts, h)
    BY <1>1 DEF AtEnd
  <2> DEFINE S == Present(m.lemma, concepts)
             end == NearestToEnd(h.lemma, concepts)
  <2>3. forward(h, m) = Emit(S, end)
    BY <1>1, <2>1, ForwardIs
  <2>4. other(h, m) = Emit(S, {h})
    <3>1. other(h, m) = Emit(S, NearestToStart(h.lemma, concepts))
      BY <1>1, <2>1, OtherIs
    <3>2. NearestToStart(h.lemma, concepts) = {h}
      BY <2>2, StartIs
    <3> QED BY <3>1, <3>2
  <2>5. m \in S /\ m # h
    <3> DEFINE M == m.lemma
    <3>1. 1 \in 1 .. Len(M) /\ 1 + Len(M) <= Len(M) + 1 /\ \A k \in 1 .. Len(M) : 1 + k - 1 = k
      BY <2>1
    <3>2. 1 \in At(M, m)
      <4>1. \A k \in 1 .. Len(M) : M[k] = M[1 + k - 1]
        <5> HIDE DEF M
        <5> QED BY <3>1
      <4> QED BY <2>1, <3>1, <4>1, AtIs
    <3>3. m \in S
      BY <3>2 DEF Present
    <3> QED BY <1>1, <3>3
  <2>6. IsA(m, h) \in Emit(S, {h})
    <3> HIDE DEF S
    <3>1. <<m, h>> \in S \X {h} /\ <<m, h>>[1] = m /\ <<m, h>>[2] = h
      BY <2>5
    <3> QED BY <2>5, <3>1, Zenon DEF Emit
  <2>7. end \subseteq Heads(concepts, h) \cup {h} /\ (Heads(concepts, h) = {} => end = {h})
    BY <2>2, EndIs
  <2>8. \A e \in Emit(S, end) : \E p \in end : e.parent = p.text
    <3> HIDE DEF S, end
    <3> QED BY EmitIs
  <2> HIDE DEF forward, other, S, end
  <2> QED BY <2>3, <2>4, <2>6, <2>7, <2>8
<1> HIDE DEF Agree
<1>2. \A h, m \in R : (Plain(h.lemma) /\ Plain(m.lemma)) /\ inside(h) = {}
                          /\ h \notin Present(m.lemma, concepts) => Agree(h, m)
  BY <1>1
<1> QED BY <1>2, Zenon DEF PhrasingsAgree, Agree
-----------------------------------------------------------------------------
(**************************** the extraction *****************************)

PipelineInv == note \in Notes \cup {NoNote} /\ registry \in SUBSET Phrases

\* What is extracted of any note, whatever is registered, is sound.
LEMMA ExtractionIsSound ==
    ASSUME PipelineInv PROVE ExtractionSound
<1> SUFFICES ASSUME note # NoNote
             PROVE  LET x == Extraction(note, registry)
                    IN  /\ RelationsClosed(x)
                        /\ Extraction(note, Registered(registry, x)) = x
                        /\ NothingLost(note)
                        /\ ChainsOnly(Surviving(note))
                        /\ PhrasingsAgree(Surviving(note))
  BY DEF ExtractionSound
<1>1. note \in Notes /\ registry \in SUBSET Phrases
  BY DEF PipelineInv
<1>2. Separate(Surviving(note))
  BY <1>1, SurvivingAre
<1>3. NothingLost(note) /\ ChainsOnly(Surviving(note)) /\ PhrasingsAgree(Surviving(note))
  BY <1>1, <1>2, NothingIsLost, CompoundsAre, PhrasingsAre
<1>4. RelationsClosed(Extraction(note, registry))
  BY <1>1, ClosedIs
<1>5. Extraction(note, Registered(registry, Extraction(note, registry))) = Extraction(note, registry)
  BY <1>1, ExtractedAgain, Zenon
<1> QED BY <1>3, <1>4, <1>5, Zenon

LEMMA PipelineInitial == PipelineInit => PipelineInv
BY DEF PipelineInit, PipelineInv

LEMMA PipelineStep == PipelineInv /\ [PipelineNext]_<<note, registry>> => PipelineInv'
<1> SUFFICES ASSUME PipelineInv, [PipelineNext]_<<note, registry>> PROVE PipelineInv'
  OBVIOUS
<1>1. CASE Process
  <2>1. note \in Notes
    BY <1>1 DEF Process, PipelineInv
  <2>2. Registered(registry, Extraction(note, registry)) \in SUBSET Phrases
    BY <2>1, ExtractedAgain, Zenon DEF PipelineInv
  <2> QED BY <1>1, <2>2 DEF Process, PipelineInv
<1>2. ASSUME NEW phrase \in Phrases, Others(phrase) PROVE PipelineInv'
  BY <1>2 DEF Others, Pruned, PipelineInv
<1>3. CASE UNCHANGED <<note, registry>>
  BY <1>3 DEF PipelineInv
<1> QED BY <1>1, <1>2, <1>3 DEF PipelineNext

\* Whatever the registry holds, what is extracted of a note is a graph over the
\* note's own entities, loses no salient concept, and is found again once they
\* are registered (NoteNlpPipeline.extract, register_concepts_with_embeddings).
THEOREM Extracts == PipelineSpec => []ExtractionSound
<1>1. PipelineInv => ExtractionSound
  BY ExtractionIsSound
<1> QED BY <1>1, PipelineInitial, PipelineStep, PTL DEF PipelineSpec
=============================================================================
