\* Two requests of one session and three tokens; two calls, two secrets, a recovery code.
CONSTANTS
    r1 = r1
    r2 = r2
    f1 = f1
    t1 = t1
    t2 = t2
    t3 = t3
    w1 = w1
    w2 = w2
    Requests = {r1, r2}
    FamilyIds = {f1}
    TokenIds = {t1, t2, t3}
    Passwords = {w1, w2}
    RefreshTTL = 2
    SessionLifetime = 2
    MaxWall = 2
    MaxEpoch = 1
    Nobody = Nobody
    k1 = k1
    Calls = {r1, r2}
    Secrets = {w1, w2}
    RecoveryCodes = {k1}
    SkewSteps = 1
    LastStep = 2
    MaxMints = 2
    NoRow = NoRow
SPECIFICATION AuthSpec
SYMMETRY MCSymmetry
INVARIANTS
    AccountCorrect
PROPERTIES
    AccountSteps
CHECK_DEADLOCK FALSE
