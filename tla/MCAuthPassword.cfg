\* A login of a weak hash and a password change.
CONSTANTS
    r1 = r1
    r2 = r2
    f1 = f1
    t1 = t1
    t2 = t2
    t3 = t3
    w1 = w1
    w2 = w2
    Requests = {r1, r2}
    FamilyIds = {f1}
    TokenIds = {t1}
    Passwords = {w1, w2}
    RefreshTTL = 2
    SessionLifetime = 2
    MaxWall = 1
    MaxEpoch = 1
    Nobody = Nobody
    k1 = k1
    Calls = {r1}
    Secrets = {w1}
    RecoveryCodes = {k1}
    SkewSteps = 1
    LastStep = 1
    MaxMints = 1
    NoRow = NoRow
SPECIFICATION AuthSpec
INVARIANTS
    LastPasswordStays
CHECK_DEADLOCK FALSE
