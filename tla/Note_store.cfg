\* Two saves in flight, two uploads, deletes and one failed commit.
CONSTANTS
    NoteIds = {1, 2}
    Assets = {a1}
    a1 = a1
    Payloads <- MCPayloads
    Requests = {1, 2}
    NoRow = NoRow
    NoUid = NoUid
    FirstMint = 100
    Limits = {1, 2}
    MaxSaves = 3
    MaxDeletes = 1
    MaxFaults = 1
    Files <- MCFiles
    Untitled = Untitled
    x = x
    y = y
    Texts = {x, y}
    Empty = Empty
SPECIFICATION FairSpec
INVARIANTS TypeOK OneNotePerTitle BlocksOfRow BytesMatchRows PagesPartition
PROPERTIES SaveSparesOthers EveryRequestAnswered
CHECK_DEADLOCK FALSE
