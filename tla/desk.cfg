SPECIFICATION Spec
CONSTANTS
    Rids = {r1, r2}
    Oids = {o1, o2}
    Clerks = {k1}
    car1 = car1
    car2 = car2
    Cars <- BothCars
    Trips <- TwoCarTrips
    StaffStatuses <- Desk
    FleetChoices = {"available"}
    MaxTime = 1
    Forces = {TRUE}
    MaxManual = 1
    MaxAsked = 1
    NoRid = NoRid
    NoOid = NoOid
SYMMETRY Symmetric
INVARIANTS TypeOK BookingOwnsBlock OrderFollowsReservation NoGhostBlock
PROPERTIES StatusByGraph OutStaysRented
CHECK_DEADLOCK FALSE
