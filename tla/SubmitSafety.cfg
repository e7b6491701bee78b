CONSTANTS
    r1 = r1
    r2 = r2
    r3 = r3
    f1 = f1
    f2 = f2
    b1 = b1
    b2 = b2
    c1 = c1
    c2 = c2
    Fp = {f1, f2}
    Body = {b1, b2}
    Issuer = {c1, c2}
    StageOneCap = 2
    StageTwoCap = 1
    MaxPool = 2
    FlushInterval = 2
    Request = {r1, r2, r3}
    Timestamp = {1}
    EntryOf <- CopiesAndOther
SPECIFICATION Spec
INVARIANTS
    TypeOK
    SctIncluded
    PublishedIsServed
    CheckpointBehindSth
    DedupeRefersToTree
    AnsweredIsDeduped
    OpenPoolIsFlushedInTime
PROPERTIES
    DedupeStable
    SthAppendOnly
