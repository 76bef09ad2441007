--------------------------- MODULE RefundPromise ---------------------------
(***************************************************************************)
(* What the refund service promises about one reservation, whatever number *)
(* of attempts, administrators, webhooks and reconciling jobs it takes: the *)
(* refund as the rest of the application sees it is one value, success is   *)
(* final, a reservation becomes refunded in the very step in which the      *)
(* refund succeeds, and while a refund is pending nothing moves the         *)
(* reservation to a status that hands the car over or cancels.              *)
(* RefundLedger implements this, and BookingFinalization relies on it.      *)
(***************************************************************************)
EXTENDS ReservationStatus

VARIABLES status, refund

Init ==
    /\ status \in (Statuses \cup {"none"}) \ {"refunded"}
    /\ refund = "none"

\* A first refund starts from a refundable status.
Start ==
    /\ refund = "none" /\ status \in RefundableStatuses
    /\ refund' = "pending" /\ UNCHANGED status

\* A failed refund is tried again, or turns out to be still under way.
Resume ==
    /\ refund = "failed" /\ refund' = "pending" /\ UNCHANGED status

Fail ==
    /\ refund = "pending" /\ refund' = "failed" /\ UNCHANGED status

Succeed ==
    /\ refund \in {"pending", "failed"}
    /\ refund' = "succeeded" /\ status' = Settled(status)

\* Every other change of the reservation: one edge of the lifecycle at a time
\* once there is a refund, and never one that a pending refund forbids.
Move ==
    /\ status' \in Statuses \ {"refunded"}
    /\ refund # "none" => CanTransition(status, status')
    /\ refund = "pending" => status' \in AllowedDuringPendingRefund
    /\ UNCHANGED refund

Next == Start \/ Resume \/ Fail \/ Succeed \/ Move

Spec == Init /\ [][Next]_<<status, refund>>
=============================================================================
