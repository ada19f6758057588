\* chains: two runs and two monitors, two at once, a home and a hub, chains of two legs;
\* market: two lanes from one origin, three hours, three reports
CONSTANTS
    h = h
    a = a
    m1 = m1
    l1 = l1
    l2 = l2
    Runs = {x1, x2}
    Monitors = {w1, w2}
    Zips = {h, a}
    Home = h
    Board <- SmallBoard
    Brokers = {m1}
    NoBroker = NoBroker
    Hubs <- SmallHubs
    LaneLists <- SmallLists
    SyntheticTo <- SmallLastResort
    Days = 2
    Troubled = {a}
    Tracked <- SmallTracked
    Rates = {0, 230}
    MaxWeek = 0
    MaxChains = 3
    MaxSessions = 2
    MaxChanges = 1
    MaxRereads = 1
    Lanes = {l1, l2}
    Origin <- OneOrigin
    LongHaul = {l1}
    Corridors = {c1}
    Demands = {"DOWN"}
    PortMoves <- SmallMoves
    Dats = {d1}
    Scorers = {x1, x2}
    Graders = {w1, w2}
    Answers <- SmallAnswers
    Schedule <- SmallSchedule
    DayHours = 2
    WeekHours = 4
    Window = 1
    MaxTime = 2
    MaxOpen = 2
    MaxReports = 3
    MaxPredictions = 2
SPECIFICATION FreightSpec
INVARIANTS
    ReroutesExplained
    OneChainPerCause
    AdviceBacked
PROPERTY GradesStand
SYMMETRY Interchangeable
\* the bounds are reached
CHECK_DEADLOCK FALSE
