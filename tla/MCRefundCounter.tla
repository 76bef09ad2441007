-------------------------- MODULE MCRefundCounter --------------------------
(* The refund ledger, which keeps RefundPromise, and the counter, which      *)
(* relies on it.  The promise stands between the two and they share no       *)
(* state, so a behaviour follows one of them and leaves the other at rest.   *)
EXTENDS MCRefundLedger, RentalCounter, TLC

VARIABLE watched

\* The booking is ready for the guest, who comes for it or cancels.
ReadyOnly      == {"car_prepared"}
PickUpOrCancel == {"picked_up", "cancelled"}

InHand == {"confirmed"}
\* A booking that knows of a session does all that one with an intent, or
\* without any payment, does.
SessionOnly == {"session"}

MCInit ==
    /\ Init /\ CounterInit
    /\ watched \in {"ledger", "counter"}

\* Bound: a worker dies in behaviours without a refund in the dashboard.
OneAccident == crashes = 0 \/ stripe[0].status = "none"

LedgerStep  ==
    /\ watched = "ledger" /\ Next /\ OneAccident'
    /\ UNCHANGED <<counterVars, watched>>
CounterStep == watched = "counter" /\ CounterNext /\ UNCHANGED <<vars, watched>>

MCSpec == MCInit /\ [][LedgerStep \/ CounterStep]_<<vars, counterVars, watched>>

Alike == Permutations(Clerks) \cup Permutations(Admins)
=============================================================================
