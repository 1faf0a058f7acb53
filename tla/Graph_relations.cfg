\* Two notes, five versions; every order of saves, syncs and reconciles.
CONSTANTS
    p = p  q = q  v1 = v1  v2 = v2  v3 = v3  v4 = v4  w1 = w1
    a = a  b = b  c = c
    x = x  y = y  together = together  isa = isa  h1 = h1  h2 = h2  s = s  t = t
    None = None
    Notes <- MCNotes
    Versions <- MCVersions
    Uids <- MCUids
    Hashes = {h1, h2}
    Concepts = {x, y}
    Subjects = {s, t}
    Predicates = {together, isa}
    Structural = {together}
    Durable = {isa}
    Of <- MCOf
    Home <- MCHome
    Text <- MCText
    Place <- MCPlace
    Refs <- MCRefs
    SubjectOf <- MCSubjectOf
    Extractions <- MCExtractions
    MaxEdits = 4
SPECIFICATION Spec
INVARIANTS RelationsCurrent
