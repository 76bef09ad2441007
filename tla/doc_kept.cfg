SPECIFICATION Spec
CONSTANTS
    Rids = {r1}
    Sids = {s1}
    Procs = {p1}
    car1 = car1
    car2 = car2
    Cars <- OneCar
    Trips <- OneTrip
    Prices <- TwoPrices
    StaffStatuses <- CancelOnly
    MaxCrashes = 0
    MaxRequests = 1
    MaxRefunds = 0
    NoSid = NoSid
    NoRid = NoRid
    NoCar = NoCar
INVARIANTS AcknowledgedPaymentKept
CHECK_DEADLOCK FALSE
