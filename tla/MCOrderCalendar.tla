-------------------------- MODULE MCOrderCalendar --------------------------
(* Instances of OrderCalendar that TLC can exhaust. *)
EXTENDS OrderCalendar, TLC

CONSTANTS car1, car2

\* Two adjacent days on one car: a rental of the first that stays out runs into
\* the second.  And one day on another car to move to.
DeskTrips == { [car |-> car1, from |-> 0, to |-> 1],
               [car |-> car1, from |-> 1, to |-> 2] }

TwoCarTrips == DeskTrips \cup { [car |-> car2, from |-> 0, to |-> 1] }

BothCars == {car1, car2}

Desk == {"car_prepared", "picked_up", "returned", "refunded"}

Symmetric == Permutations(Rids) \cup Permutations(Oids) \cup Permutations(Clerks)
=============================================================================
