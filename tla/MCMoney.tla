------------------------------ MODULE MCMoney ------------------------------
(* What becomes of money in the end: of a payment, in one instance of the   *)
(* booking core, and of a refund, in one of the refund ledger.  The two     *)
(* share no state, so a behaviour follows one and leaves the other at rest, *)
(* and each is judged under its own fairness.                               *)
EXTENDS Naturals

CONSTANTS Rids, Sids, Procs, car1, NoSid, NoRid, NoCar,
          Admins, Workers, NoRefund

VARIABLES res, blocks, orders, refunds, events, reviewed, gap, stripe, fin,
          checkout, release, staff, sweep, crashes
VARIABLES status, ops, refundsAtStripe, inbox, admin, worker, requests, deaths
VARIABLE watched

Booking == INSTANCE BookingFinalization WITH
    Cars <- {car1}, Trips <- {[car |-> car1, from |-> 1, to |-> 3]},
    Prices <- {100}, StaffStatuses <- {"cancelled"},
    MaxCrashes <- 1, MaxRequests <- 1, MaxRefunds <- 0

Ledger == INSTANCE RefundLedger WITH
    stripe <- refundsAtStripe, crashes <- deaths,
    MaxAttempts <- 2, Paid <- 2,
    StaffStatuses <- {"cancelled"}, FirstStatuses <- {"paid"},
    MaxRequests <- 2, MaxCrashes <- 1

booking == <<res, blocks, orders, refunds, events, reviewed, gap, stripe, fin,
             checkout, release, staff, sweep, crashes>>
ledger  == <<status, ops, refundsAtStripe, inbox, admin, worker, requests, deaths>>

Init ==
    /\ Booking!Init /\ Ledger!Init
    /\ watched \in {"booking", "ledger"}

BookingStep ==
    watched = "booking" /\ Booking!Next /\ UNCHANGED <<ledger, watched>>

\* With nobody else refunding in the dashboard.
LedgerStep ==
    watched = "ledger" /\ Ledger!OwnStep /\ UNCHANGED <<booking, watched>>

Spec == Init /\ [][BookingStep \/ LedgerStep]_<<booking, ledger, watched>>

\* Money that Stripe took is noticed in the end, given what Stripe's
\* redelivery and the cleanup job grant (BookingFinalization).
PaymentIsNoticed == Booking!Fairness => Booking!PaymentIsNoticed

\* A hold whose time is over gives the car back, given the same
\* (BookingFinalization).
LapsedHoldEnds == Booking!Fairness => Booking!LapsedHoldEnds

\* Money the application gave back is in its books in the end, given what
\* Stripe's redelivery and the refund job grant (RefundLedger).
MoneyIsBooked == Ledger!Fairness => Ledger!MoneyIsBooked
=============================================================================
