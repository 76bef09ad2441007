SPECIFICATION Spec
CONSTANTS
    Rids = {r1}
    Sids = {s1, s2}
    Procs = {p1}
    car1 = car1
    NoSid = NoSid
    NoRid = NoRid
    NoCar = NoCar
    Admins = {a1, a2}
    Workers = {w1}
    NoRefund = NoRefund
PROPERTIES PaymentIsNoticed LapsedHoldEnds MoneyIsBooked
CHECK_DEADLOCK FALSE
