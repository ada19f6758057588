SPECIFICATION Spec
CONSTANTS
    r1 = r1
    r2 = r2
    r3 = r3
    u1 = u1
    u2 = u2
    s1 = s1
    s2 = s2
    o1 = o1
    o2 = o2
    Requests = {r1, r2, r3}
    Users = {u1, u2}
    Signals = {s1, s2}
    Offers = {o1, o2}
    Owner <- MCOwner
    Asks <- MCAsks
    Price <- MCPrice
    Fee = 5
    Customers = {u1, u2}
    Monthly = {u1}
    Travellers = {u1}
SYMMETRY Interchangeable
INVARIANTS
    TypeOK
    ChargedOnlyWithTicket
    BookingBacked
    PaymentCancelledIsTrue
    ChargedOnceByOwner
    AnswersAreTrue
PROPERTY ContractSpec
