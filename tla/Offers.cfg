\* two clients that search and book, the user row of one of them is gone
CONSTANTS
    Clients = {c1, c2}
    Strangers = {c2}
    Prices = {p1, p2}
    NoPrice = NoPrice
SPECIFICATION Spec
INVARIANTS
    FareShownOrWarned
    HandoffMonitored
