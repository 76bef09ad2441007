---------------------------- MODULE CarCalendar ----------------------------
(***************************************************************************)
(* The booked ranges of the fleet: the rows of car_date_blocks, each a     *)
(* half-open interval of one car, and the operations that the application  *)
(* performs on them (services/sql/bookingSyncSqlService.js and             *)
(* services/admin/order/orderMapper.js).  A calendar is a set of ranges;   *)
(* the exclusion constraint no_overlapping_car_blocks keeps them apart.    *)
(***************************************************************************)
EXTENDS Naturals

CONSTANT Cars

\* A booked or requested range: car, and the half-open interval [from, to).
Ranges == {t \in [car : Cars, from : Nat, to : Nat] : t.from < t.to}

Overlaps(a, b) == a.car = b.car /\ a.from < b.to /\ b.from < a.to

\* assertNoOverlap and the exclusion constraint: the range may be inserted.
Free(calendar, t) == \A b \in calendar : ~Overlaps(b, t)

\* extractStoredRange: the range a release is about to delete is the first
\* block, by start date, that overlaps the reservation's dates, whoever
\* booked it; when no block overlaps there is nothing to delete.
StoredRange(calendar, t) ==
    {b \in calendar :
        /\ Overlaps(b, t)
        /\ \A c \in calendar : Overlaps(c, t) => b.from <= c.from}

\* removeRange after resolveStoredDateRange.
ReleaseRange(calendar, t) == calendar \ StoredRange(calendar, t)

\* No two blocks of one car overlap (the exclusion constraint).
Disjoint(calendar) ==
    \A a, b \in calendar : a # b => ~Overlaps(a, b)
=============================================================================
