SPECIFICATION Spec
CONSTANTS
    Rids = {r1, r2}
    Sids = {s1, s2}
    Procs = {p1}
    car1 = car1
    car2 = car2
    Cars <- OneCar
    Trips <- OneTrip
    Prices <- OnePrice
    StaffStatuses <- CancelOnly
    MaxCrashes = 0
    MaxRequests = 1
    MaxRefunds = 0
    NoSid = NoSid
    NoRid = NoRid
    NoCar = NoCar
INVARIANTS ConfirmedHasBlock
CHECK_DEADLOCK FALSE
