SPECIFICATION FairSpec
\* the system is at rest once every delivery is dealt with
CHECK_DEADLOCK FALSE
CONSTANTS
    MaxDeliveries = 3
    f1 = f1
    Events <- MCEvents
    Flights = {f1}
    Unknown = Unknown
    Drainers = {w1, w2}
    Renderers = {p1}
    MaxBookings = 1
INVARIANTS
    TypeOK
    AlertedOnceWithAlternatives
    CardsOnlyForConfirmed
    ConfirmationsNotReused
PROPERTIES
    LifeSpec
    PushedOrLost
    ConfirmedGetsCard
