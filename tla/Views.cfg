\* Two notes, two requests while they are saved and reprocessed.
CONSTANTS
    NoteIds = {1, 2}
    Concepts = {1, 2}
    Edits <- MCEdits
    Queries <- MCQueries
    OtherQueries <- MCOtherQueries
    Labels = {1}
    Requests = {1, 2}
    CacheMax = 1
    InsightMax = 1
    NoRow = NoRow
    MaxEvents = 2
    Workers = {w1,w2}
SPECIFICATION FairSpec
INVARIANTS ViewsSound FreshSeed InsightOfItsNotes
PROPERTIES BackfillEnds
CHECK_DEADLOCK FALSE
