SPECIFICATION Spec
CONSTANTS
    Rids = {r1}
    Sids = {s1, s2}
    Procs = {p1}
    car1 = car1
    car2 = car2
    Cars <- BothCars
    Trips <- TwoCars
    Prices <- TwoPrices
    StaffStatuses <- DeskStatuses
    MaxCrashes = 1
    MaxRequests = 2
    MaxRefunds = 1
    NoSid = NoSid
    NoRid = NoRid
    NoCar = NoCar
SYMMETRY Symmetric
INVARIANTS PayableIsLinked OrderMatchesLifecycle BookingHasOrder RefundMatchesStatus
PROPERTY RefundsKeepPromise
CHECK_DEADLOCK FALSE
