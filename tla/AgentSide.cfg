\* two jobs of any kind, two ingestions, one regeneration, one reader;
\* two events, two overlapping requests, three agents of two tenants
CONSTANTS
    Jobs = {j1, j2}
    Ingests = {i1, i2}
    Regens = {g1}
    Readers = {d1}
    MaxRetries = 1
    j1 = j1
    j2 = j2
    i1 = i1
    i2 = i2
    g1 = g1
    e1 = e1
    e2 = e2
    r1 = r1
    r2 = r2
    t1 = t1
    t2 = t2
    u1 = u1
    u2 = u2
    u3 = u3
    Events = {e1, e2}
    Tenants = {t1, t2}
    Users = {u1, u2, u3}
    TenantOf <- TeamOf
    Signals = {s1, s2}
    Requests = {r1, r2}
SPECIFICATION AgentSide
INVARIANTS
    TypeOK
    AcknowledgedIsFinished
    IngestedOnce
    ClaimsBacked
    AlertsConsumable
SYMMETRY Alike
\* every job may be done, every signal claimed and nothing on its way
CHECK_DEADLOCK FALSE
