SPECIFICATION FairSpec
\* the system is at rest once every registration is settled
CHECK_DEADLOCK FALSE
CONSTANTS
    Items = {i1}
    Emails = {e1, e2}
    Workers = {w1}
    NoItem = NoItem
PROPERTY AcceptedBecomesActive
