---------------------------- MODULE MCAlgorithms ----------------------------
(* The algorithms over many small inputs: the extraction pipeline with     *)
(* every registry that other notes can leave, the markdown export and      *)
(* import of every short document, and the alias table under overlapping   *)
(* confirmations.  The three share nothing, a behaviour is about one.      *)
EXTENDS MCAliases, Pipeline, Transfer

allvars == <<vars, note, registry, original, exported, copy>>
-----------------------------------------------------------------------------
Network == <<"network">>
Neural == <<"neural", "network">>
Neurals == <<"neural", "networks">>
Net == <<"net">>
Networking == <<"networking">>
MCPhrases == {Network, Neural, Neurals, Net, Networking}
MCVocabulary ==
    {"neural", "network", "networks", "net", "networking", "the",
     "such", "as", "and", "or", "other", "is", "a", "store"}

\* Two pairs of synonyms have one slug each, as texts have that differ in
\* punctuation only.
MCIds == {"network", "net", "neural-network"}
MCSlug ==
    (Network :> "network") @@ (Networking :> "network") @@ (Net :> "net")
      @@ (Neural :> "neural-network") @@ (Neurals :> "neural-network")

\* Cosine similarities, in percent.
Near == (<<Network, Net>> :> 92) @@ (<<Neural, Neurals>> :> 97)
          @@ (<<Network, Networking>> :> 89) @@ (<<Net, Networking>> :> 80)
MCSimilar ==
    [p \in MCPhrases |-> [q \in MCPhrases |->
        IF p = q THEN 100
        ELSE IF <<p, q>> \in DOMAIN Near THEN Near[<<p, q>>]
        ELSE IF <<q, p>> \in DOMAIN Near THEN Near[<<q, p>>]
        ELSE 50]]
MCAlphabetical ==
    (Net :> 1) @@ (Network :> 2) @@ (Networking :> 3) @@ (Neural :> 4) @@ (Neurals :> 5)

Token(word, lemma) == [word |-> word, lemma |-> lemma, stop |-> word = "the"]
Chunk(i) == CASE i = 1 -> <<Token("neural", "neural"), Token("network", "network")>>
              [] i = 2 -> <<Token("the", "the"), Token("network", "network")>>
              [] i = 3 -> <<Token("the", "the"), Token("net", "net")>>
              [] i = 4 -> <<Token("neural", "neural"), Token("networks", "network")>>
              [] i = 5 -> <<Token("network", "network")>>
              [] i = 6 -> <<Token("the", "the")>>

MCNotes ==
    [chunks : {<<>>, <<Chunk(6)>>, <<Chunk(2), Chunk(5)>>, <<Chunk(1), Chunk(4)>>,
               <<Chunk(1), Chunk(2), Chunk(3)>>, <<Chunk(3), Chunk(4), Chunk(1), Chunk(2)>>},
     score : {s \in [MCPhrases -> {1, 40, 60}] : s[Networking] = 1},
     sentences :
         {{<<"network", "such", "as", "neural", "network", "and", "net", "store", "network">>,
           <<"net", "or", "other", "network">>, <<"neural", "network", "is", "a", "net">>}},
     blocks : {<<[kind |-> "heading", says |-> {Neural, Network}],
                 [kind |-> "paragraph", says |-> {Net, Network}],
                 [kind |-> "heading", says |-> {}],
                 [kind |-> "listItem", says |-> {Neurals, Net}]>>},
     lists : {{<<{Network}, {Net}, {Neural}>>}},
     refs : {{<<{Net}, {Neural, Network}>>}}]
-----------------------------------------------------------------------------
TextSeqs == UNION {[1 .. n -> Texts \cup {Empty}] : n \in 0 .. 2}
BlockSet ==
    {Block("heading", l, <<t>>) : l \in {1, 3, 4}, t \in Texts \cup {Empty}}
      \cup {Block("horizontalRule", 0, <<>>)}
      \cup {Block("mathBlock", 0, <<t>>) : t \in Texts}
      \cup {Block(k, 0, ts) : k \in Lists \cup {"paragraph", "blockquote", "codeBlock"},
                              ts \in TextSeqs}
MCDocuments == UNION {[1 .. n -> BlockSet] : n \in 0 .. 2}
-----------------------------------------------------------------------------
AlgorithmsInit ==
    /\ Init
    /\ PipelineInit
    /\ TransferInit
    /\ note = NoNote \/ original = NoDoc

Extract == PipelineNext /\ UNCHANGED <<vars, original, exported, copy>>
Transfers == TransferNext /\ UNCHANGED <<vars, note, registry>>
Confirm ==
    /\ note = NoNote /\ original = NoDoc
    /\ Next
    /\ UNCHANGED <<note, registry, original, exported, copy>>

AlgorithmsNext == Extract \/ Transfers \/ Confirm
AlgorithmsSpec == AlgorithmsInit /\ [][AlgorithmsNext]_allvars
=============================================================================
