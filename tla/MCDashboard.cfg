SPECIFICATION MCSpec
CONSTANTS
    p1 = p1
    p2 = p2
    b1 = b1
    b2 = b2
    plain = plain
    odd = odd
    wide = wide
    l1 = l1
    l2 = l2
    torn = torn
    Projects = {p1, p2}
    Bytes = {b1, b2}
    Settings = {plain, wide, odd}
    UnknownKey = odd
    LogTexts = {l1, l2, torn}
    TornLog = torn
    QueueLimit = 1
    LogReads = 3
    MaxAsks = 3
    MaxEdits = 1
INVARIANT AnswersOwnManifest
PROPERTIES OneSnapshot EveryRequestAnswered
