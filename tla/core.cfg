SPECIFICATION Spec
CONSTANTS
    Rids = {r1, r2}
    Sids = {s1, s2}
    Procs = {p1, p2}
    car1 = car1
    car2 = car2
    Cars <- OneCar
    Trips <- OverlappingTrips
    Prices <- OnePrice
    StaffStatuses <- CancelOnly
    MaxCrashes = 0
    MaxRequests = 1
    MaxRefunds = 0
    NoSid = NoSid
    NoRid = NoRid
    NoCar = NoCar
SYMMETRY Symmetric
INVARIANTS TypeOK HoldsExclusive BookedHasBlock NoDoubleBookingButGaps OrderIsPaid
CHECK_DEADLOCK FALSE
