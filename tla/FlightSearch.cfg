\* two requests; a tick is 30 seconds or more, stale lasts longer than fresh
CONSTANTS
    Searches = {q1, q2}
    FreshTtl = 1
    StaleTtl = 3
    MaxTime = 5
    Offerings <- SmallOfferings
    Wishes <- SmallWishes
SPECIFICATION SearchSpec
INVARIANTS
    AnswersAreRecent
    PicksUndominated
SYMMETRY Interchangeable
\* time is bounded, and a ranking is the end of its behaviour
CHECK_DEADLOCK FALSE
