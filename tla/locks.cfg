SPECIFICATION Spec
CONSTANTS
    g1 = g1
    g2 = g2
    Guests <- TwoGuests
    Requests = {p1, p2}
    Cleanup = Cleanup
    Cars <- TwoCars
    Listings <- OneMissing
    MaxRows = 4
    Before <- OneEach
SYMMETRY Symmetric
INVARIANTS TypeOK CirclesNeedSweep CheckedIsStillFree
PROPERTY RefusedForAReason
CHECK_DEADLOCK FALSE
