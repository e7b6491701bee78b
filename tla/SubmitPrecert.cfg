CONSTANTS
    r1 = r1
    r2 = r2
    r3 = r3
    f1 = f1
    f2 = f2
    b1 = b1
    b2 = b2
    c1 = c1
    c2 = c2
    Fp = {f1, f2}
    Body = {b1, b2}
    Issuer = {c1, c2}
    StageOneCap = 2
    StageTwoCap = 1
    MaxPool = 2
    FlushInterval = 1
    Request = {r1, r2}
    Timestamp = {1}
    EntryOf <- TwoIssuerKeys
SPECIFICATION Spec
INVARIANTS
    DuplicateSctIdentical
