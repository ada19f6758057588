\* one sign-up hands its ZIP over; one ingestion, two regenerations, one reader
CONSTANTS
    Jobs = {j1}
    Ingests = {i1}
    Regens = {g1, g2}
    Readers = {d1}
    MaxRetries = 1
SPECIFICATION Spec
INVARIANTS
    DashboardFills
SYMMETRY Interchangeable
CHECK_DEADLOCK FALSE
