--------------------------- MODULE MCRefundLedger ---------------------------
(* Instances of RefundLedger that TLC can exhaust. *)
EXTENDS RefundLedger

PaidStatuses == {"paid"}
CancelOnly == {"cancelled"}
=============================================================================
