\* Six shapes of notes with every salience of four phrases and every registry,
\* documents of one or two blocks, two confirmations in flight of three.
CONSTANTS
    NoDoc = NoDoc
    Documents <- MCDocuments
    Texts = {x, y}
    Empty = Empty
    NoNote = NoNote
    Notes <- MCNotes
    Phrases <- MCPhrases
    Ids <- MCIds
    Slug <- MCSlug
    Vocabulary <- MCVocabulary
    Similar <- MCSimilar
    Alphabetical <- MCAlphabetical
    Verbs = {"store"}
    Floor = 2
    Delta = 30
    Redundancy = 86
    Synonymous = 88
    Terms <- MCTerms
    Words <- MCWords
    Short = {1}
    Fuzzy <- MCFuzzy
    Embedded <- MCEmbedded
    FuzzyThreshold = 90
    EmbeddingThreshold = 85
    MinResolutionScore = 72
    Bootstrapped <- MCBootstrapped
    Confirmations <- MCConfirmations
    Requests = {1, 2}
    NoRow = NoRow
    MaxConfirmations = 3
SPECIFICATION AlgorithmsSpec
INVARIANTS ExtractionSound ConfirmedAliasWins RoundTrip
CHECK_DEADLOCK FALSE
