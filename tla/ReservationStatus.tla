------------------------- MODULE ReservationStatus -------------------------
(***************************************************************************)
(* The reservation lifecycle: which statuses exist, which of them block a  *)
(* car, and which status changes the application accepts.                  *)
(* Translated from backend/src/domain/reservationStatus.js and from the    *)
(* status rules of services/payment/refund/refundPolicy.js.  Every other   *)
(* module takes its status rules from here, as every service of the        *)
(* application takes them from those two files.                            *)
(***************************************************************************)

\* "none" stands for a reservation row that does not exist yet
\* (canTransition's fromStatus == null).
ActiveHoldStatuses == {"pending_payment", "processing_payment"}

OpsStatuses == {"confirmed", "car_prepared", "picked_up", "active_rental",
                "returned", "completed"}

OpenRentalStatuses == {"picked_up", "active_rental"}

RefundableStatuses == {"paid", "manual_review", "confirmed", "car_prepared"}

AdminOpsStatuses == OpsStatuses \cup {"cancelled", "no_show"}

Statuses == ActiveHoldStatuses \cup OpsStatuses \cup
            {"paid", "manual_review", "cancelled", "expired", "no_show",
             "refunded"}

\* Reaching one of these from another status gives the car's dates back.
ReleasingStatuses == {"cancelled", "no_show", "refunded"}

Transitions ==
    [ pending_payment    |-> {"processing_payment", "expired", "cancelled"},
      processing_payment |-> {"paid", "pending_payment", "expired",
                              "cancelled", "manual_review"},
      paid               |-> {"confirmed", "manual_review", "refunded",
                              "cancelled"},
      manual_review      |-> {"confirmed", "refunded", "cancelled"},
      confirmed          |-> {"car_prepared", "cancelled", "no_show",
                              "refunded"},
      car_prepared       |-> {"picked_up", "cancelled", "no_show", "refunded"},
      picked_up          |-> {"active_rental", "returned"},
      active_rental      |-> {"returned"},
      returned           |-> {"completed"},
      completed          |-> {},
      cancelled          |-> {"manual_review"},
      expired            |-> {"paid", "manual_review"},
      no_show            |-> {},
      refunded           |-> {} ]

\* Mutant: any status may follow any other.
CanTransition_Any(old, new) == old \in Statuses

\* Whether the lifecycle graph lets an existing row go from old to new; a
\* row may always keep its status.
CanTransition(old, new) ==
    old \in Statuses /\ (old = new \/ new \in Transitions[old])

\* Where a reservation goes when its money has gone back: refunded if the
\* graph has the edge, a manual review otherwise, or nowhere.
Settled(old) ==
    IF CanTransition(old, "refunded") THEN "refunded"
    ELSE IF CanTransition(old, "manual_review") THEN "manual_review" ELSE old

\* While a refund is pending, only these target statuses stay open.
AllowedDuringPendingRefund == RefundableStatuses \cup {"refunded"}
=============================================================================
