\* two alerts and two overlapping runs that read both of them;
\* prices ten and eleven apart tell a drop from none
CONSTANTS
    Flights = {f1}
    Prices = {1, 11, 12}
    Trips = {t1}
    Monitors = {m1, m2}
    Limit = 2
    MaxAlerts = 2
SPECIFICATION Spec
INVARIANTS
    DropIsReal
    MarkMeansOneMail
PROPERTIES
    HeldDropsAreMarked
