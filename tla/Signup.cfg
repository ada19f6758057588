SPECIFICATION FairSpec
\* the system is at rest once every registration is settled
CHECK_DEADLOCK FALSE
CONSTANTS
    Items = {i1, i2, i3}
    Emails = {e1, e2}
    Workers = {w1, w2}
    NoItem = NoItem
INVARIANTS
    TypeOK
    OneAccountPerEmail
    ActiveAccountsAreBacked
    AcceptedIsSomewhere
PROPERTY AcceptedIsSettled
