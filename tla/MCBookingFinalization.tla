----------------------- MODULE MCBookingFinalization -----------------------
(* Instances of BookingFinalization that TLC can exhaust. *)
EXTENDS BookingFinalization, TLC

CONSTANTS car1, car2

\* Trips of one car: the first two overlap in one day, the first and the last
\* meet without overlapping.
OverlappingTrips == { [car |-> car1, from |-> 1, to |-> 3],
                      [car |-> car1, from |-> 2, to |-> 4],
                      [car |-> car1, from |-> 3, to |-> 5] }
OneTrip == { [car |-> car1, from |-> 1, to |-> 3] }
TwoCars == { [car |-> c, from |-> 1, to |-> 3] : c \in {car1, car2} }
OnePrice == {100}
TwoPrices == {100, 120}

BothCars == {car1, car2}
OneCar   == {car1}

NoStaff == {}
CancelOnly == {"cancelled"}
\* Guests cancel as well.
DeskStatuses == {"car_prepared", "picked_up", "no_show"}

Symmetric == Permutations(Rids) \cup Permutations(Sids) \cup Permutations(Procs)
=============================================================================
