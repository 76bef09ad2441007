--------------------------- MODULE RentalCounter ---------------------------
(***************************************************************************)
(* The counter: one booking whose guest may ask to cancel it, and the      *)
(* clerks who answer the request and fill in the pickup and the return     *)
(* checklist (services/admin/checklist/*, services/account/                *)
(* accountReservationService.js).  A clerk reads the booking once, without *)
(* a lock, and then works in steps that each commit on their own; only     *)
(* changeStatus and the refund look at the booking again.  The refund is   *)
(* taken as RefundPromise promises it.                                     *)
(***************************************************************************)
EXTENDS ReservationStatus, Naturals, FiniteSets

CONSTANTS
    Clerks,           \* requests of staff
    Tabs,             \* requests of the guest
    Asks,             \* bound: cancellation requests of the booking
    FoundStatuses,    \* statuses in which the booking is found
    FoundPayments,    \* what it may know of its payment
    HandStatuses,     \* statuses the staff sets by hand
    MaxSheets,        \* bound: checklists handed in
    MaxBroken,        \* bound: crashes and errors in between
    NoAsk

ASSUME CounterAssumption ==
    /\ NoAsk \notin Asks /\ MaxSheets \in Nat /\ MaxBroken \in Nat
    /\ FoundStatuses \subseteq {"paid", "manual_review", "confirmed"}
    /\ FoundPayments \subseteq {"none", "known", "session"}
    /\ HandStatuses \subseteq AdminOpsStatuses

VARIABLES
    stage,      \* the reservation's status
    money,      \* its refund, as RefundPromise shows it
    payment,    \* what the booking knows of its payment: nothing; the intent and
                \* the amount; or the session alone, in rows older than those
    asks,       \* reservation_cancellation_requests
    asking,     \* requests of the guest that found the booking cancellable
    clerk,      \* clerks at work
    sheets,     \* the reading on each checklist, 0 if there is none
    odometer,   \* cars.mileage
    handed,     \* checklists handed in so far, which numbers their readings
    damage,     \* the return checklist notes new damages
    reports,    \* damage reports of this reservation
    acted,      \* history: requests whose approval ended or refunds the booking
    crossed,    \* history: requests rejected while an approval was under way
    lost,       \* history: requests whose approval broke off before its answer
    blurred,    \* history: two checklists were handed in at once, or one broke off
    broken

booking == <<stage, money>>
askVars == <<asks, asking>>
papers == <<sheets, odometer, handed, damage, reports, blurred>>
answers == <<acted, crossed, lost>>
counterVars ==
    <<booking, payment, askVars, clerk, papers, answers, broken>>

Refunding == INSTANCE RefundPromise WITH status <- stage, refund <- money

Kinds == {"pickup", "return"}
Payments == {"none", "known", "session"}

\* A clerk at work: where it is, the request it answers, the checklist it
\* fills in, the status it saw, its reading and whether it notes damages.
ClerkStates ==
    [pc : {"idle", "sheet", "report", "car", "prepare", "move", "reject",
           "approve", "resolve", "reserve", "again",
           "stripe", "cancel", "mark"},
     ask : Asks \cup {NoAsk}, kind : Kinds, seen : Statuses,
     reading : Nat, damaged : BOOLEAN]

Free == [pc |-> "idle", ask |-> NoAsk, kind |-> "pickup", seen |-> "paid",
         reading |-> 0, damaged |-> FALSE]

CounterTypeOK ==
    /\ stage \in Statuses /\ money \in {"none", "pending", "failed", "succeeded"}
    /\ payment \in Payments
    /\ asks \in [Asks -> {"none", "pending", "approved", "rejected"}]
    /\ asking \subseteq Tabs
    /\ clerk \in [Clerks -> ClerkStates]
    /\ sheets \in [Kinds -> Nat] /\ odometer \in Nat /\ handed \in Nat
    /\ damage \in BOOLEAN /\ reports \in Nat /\ blurred \in BOOLEAN
    /\ acted \subseteq Asks /\ crossed \subseteq Asks /\ lost \subseteq Asks
    /\ broken \in Nat

CounterInit ==
    /\ stage \in FoundStatuses /\ money = "none" /\ payment \in FoundPayments
    /\ asks = [a \in Asks |-> "none"] /\ asking = {}
    /\ clerk = [c \in Clerks |-> Free]
    /\ sheets = [k \in Kinds |-> 0] /\ odometer = 0 /\ handed = 0
    /\ damage = FALSE /\ reports = 0 /\ blurred = FALSE
    /\ acted = {} /\ crossed = {} /\ lost = {} /\ broken = 0

At(c, pc) == clerk[c].pc = pc
GoTo(c, pc) == clerk' = [clerk EXCEPT ![c].pc = pc]
Done(c) == clerk' = [clerk EXCEPT ![c] = Free]

-----------------------------------------------------------------------------
(* changeStatus as a clerk meets it: the locked row, the pending refund and *)
(* the lifecycle decide, and a refusal ends the clerk's work with an error. *)

\* Mutant: the pending refund is not asked about.
MayChange_Anyway(new) == CanTransition(stage, new)

MayChange(new) ==
    /\ CanTransition(stage, new)
    /\ (money = "pending" /\ new # stage) => new \in AllowedDuringPendingRefund

ChangeTo(new) == MayChange(new) /\ stage' = new /\ UNCHANGED money

\* The staff's other status changes.
StaffSets(new) ==
    /\ ChangeTo(new)
    /\ UNCHANGED <<payment, askVars, clerk, papers, answers, broken>>

\* The refund button, the webhook and the reconciling job.
RefundElsewhere ==
    /\ (Refunding!Start /\ payment # "none") \/ Refunding!Resume \/ Refunding!Fail
       \/ Refunding!Succeed
    /\ UNCHANGED <<payment, askVars, clerk, papers, answers, broken>>

-----------------------------------------------------------------------------
(* The guest asks *)

RequestCancelStatuses == {"paid", "confirmed", "car_prepared", "manual_review"}

\* An unpaid hold is cancelled at once: that is BookingFinalization's release.
AskRead(t) ==
    /\ t \notin asking /\ stage \in RequestCancelStatuses
    /\ asking' = asking \cup {t}
    /\ UNCHANGED <<booking, payment, asks, clerk, papers, answers, broken>>

\* Another pending request of the booking answers for this one, also if the
\* unique index finds it first.
AskCreate(t) ==
    /\ t \in asking /\ asking' = asking \ {t}
    /\ \/ /\ \A a \in Asks : asks[a] # "pending"
          /\ \E a \in Asks :
               asks[a] = "none" /\ asks' = [asks EXCEPT ![a] = "pending"]
       \/ /\ \E a \in Asks : asks[a] = "pending"
          /\ UNCHANGED asks
    /\ UNCHANGED <<booking, payment, clerk, papers, answers, broken>>

-----------------------------------------------------------------------------
(* A clerk answers the request *)

Approving(a) ==
    {c \in Clerks : clerk[c].ask = a /\ clerk[c].pc \notin {"idle", "reject"}}

\* findById, and the decision.
ReviewRead(c, a) ==
    /\ At(c, "idle") /\ asks[a] = "pending"
    /\ \E pc \in {"approve", "reject"} :
         clerk' = [clerk EXCEPT ![c].pc = pc, ![c].ask = a]
    /\ UNCHANGED <<booking, payment, askVars, papers, answers, broken>>

\* Mutant: the answer is written over one that is there already.
WithAnswer_Anyway(a, answer) == [asks EXCEPT ![a] = answer]

\* cancellationSql.review: only a pending request takes an answer.
WithAnswer(a, answer) ==
    IF asks[a] = "pending" THEN [asks EXCEPT ![a] = answer] ELSE asks

Reject(c) ==
    LET a == clerk[c].ask IN
    /\ At(c, "reject")
    /\ asks' = WithAnswer(a, "rejected")
    /\ crossed' = IF Approving(a) # {} THEN crossed \cup {a} ELSE crossed
    /\ Done(c)
    /\ UNCHANGED <<booking, payment, asking, papers, acted, lost, broken>>

\* The approval has taken effect and is yet to be written down.
Acted(c) == GoTo(c, "mark") /\ acted' = acted \cup {clerk[c].ask}

\* Mutant: the error of the refund is caught, and the request approved.
Refused_Swallowed(c) == GoTo(c, "mark") /\ UNCHANGED acted

\* The approval ends with an error, and the request stays as it is.
Refused(c) == Done(c) /\ UNCHANGED acted

GoOn(c, pc) == GoTo(c, pc) /\ UNCHANGED acted

\* The unlocked read that chooses between a refund, for which a clerk needs the
\* permission, and a mere cancellation.
ApproveRead(c) ==
    /\ At(c, "approve")
    /\ \/ stage = "cancelled" /\ Acted(c)
       \/ stage \in RefundableStatuses /\ (GoOn(c, "resolve") \/ Refused(c))
       \/ stage \notin RefundableStatuses \cup {"cancelled"} /\ GoOn(c, "cancel")
    /\ UNCHANGED <<booking, payment, askVars, papers, crossed, lost, broken>>

\* requestReservationRefund before its transaction: a booking refunded by now
\* is done; without a payment to refund the booking is cancelled instead, and
\* so it is if Stripe cannot be asked for the only session that knows of one.
ResolvePayment(c) ==
    /\ At(c, "resolve")
    /\ \/ stage = "refunded" /\ Acted(c)
       \/ stage # "refunded" /\ payment # "none" /\ GoOn(c, "reserve")
       \/ stage # "refunded" /\ payment # "known" /\ GoOn(c, "cancel")
    /\ UNCHANGED <<booking, payment, askVars, papers, crossed, lost, broken>>

\* The transaction that locks the booking and finds or opens the refund.  The
\* first time a failed refund known to Stripe is driven as it is, and a payment
\* with nothing left to give back is no payment; another attempt is always new.
ReserveRefund(c) ==
    /\ At(c, "reserve") \/ At(c, "again")
    /\ \/ stage = "refunded" /\ Acted(c) /\ UNCHANGED booking
       \/ stage \notin RefundableStatuses \cup {"refunded"} /\ Refused(c) /\ UNCHANGED booking
       \/ /\ stage \in RefundableStatuses
          /\ \/ money = "succeeded" /\ Acted(c) /\ UNCHANGED booking
             \/ money = "pending" /\ GoOn(c, "stripe") /\ UNCHANGED booking
             \/ (Refunding!Start \/ Refunding!Resume) /\ GoOn(c, "stripe")
             \/ /\ At(c, "reserve") /\ money \in {"none", "failed"}
                /\ GoOn(c, "cancel") /\ UNCHANGED booking
             \/ /\ At(c, "reserve") /\ money = "failed"
                /\ GoOn(c, "stripe") /\ UNCHANGED booking
             \/ money = "failed" /\ Refused(c) /\ UNCHANGED booking   \* too many attempts
    /\ UNCHANGED <<payment, askVars, papers, crossed, lost, broken>>

\* Stripe's answer, or none.  What others did to the refund meanwhile counts:
\* a refund still pending is answer enough to approve.
DriveRefund(c) ==
    /\ At(c, "stripe")
    /\ \/ (Refunding!Succeed \/ Refunding!Resume) /\ Acted(c)
       \/ money \in {"pending", "succeeded"} /\ Acted(c) /\ UNCHANGED booking
       \/ Refunding!Fail /\ (Refused(c) \/ GoOn(c, "again"))
       \/ money = "failed" /\ GoOn(c, "again") /\ UNCHANGED booking
       \/ Refused(c) /\ UNCHANGED booking
    /\ UNCHANGED <<payment, askVars, papers, crossed, lost, broken>>

CancelBooking(c) ==
    /\ At(c, "cancel")
    /\ \/ ChangeTo("cancelled") /\ Acted(c)
       \/ ~MayChange("cancelled") /\ Refused(c) /\ UNCHANGED booking
    /\ UNCHANGED <<payment, askVars, papers, crossed, lost, broken>>

Mark(c) ==
    /\ At(c, "mark")
    /\ asks' = WithAnswer(clerk[c].ask, "approved")
    /\ Done(c)
    /\ UNCHANGED <<booking, payment, asking, papers, answers, broken>>

-----------------------------------------------------------------------------
(* A clerk hands in a checklist *)

AtSheet(c) == clerk[c].pc \in {"sheet", "report", "car"}

\* findById: the only read of the booking, whose status decides the last steps.
SheetRead(c, k, d) ==
    /\ At(c, "idle") /\ handed < MaxSheets
    /\ d => k = "return"
    /\ handed' = handed + 1
    /\ clerk' = [clerk EXCEPT ![c] =
                   [pc |-> "sheet", ask |-> NoAsk, kind |-> k, seen |-> stage,
                    reading |-> handed + 1, damaged |-> d]]
    /\ blurred' = (blurred \/ \E x \in Clerks : AtSheet(x))
    /\ UNCHANGED <<booking, payment, askVars, sheets, odometer, damage, reports,
                   answers, broken>>

\* Mutant: the new damages are only noted on the checklist.
AfterStore_NoReport(c) == "car"

AfterStore(c) == IF clerk[c].damaged THEN "report" ELSE "car"

\* upsert: the last checklist of a kind replaces the one before.
SheetStore(c) ==
    /\ At(c, "sheet")
    /\ sheets' = [sheets EXCEPT ![clerk[c].kind] = clerk[c].reading]
    /\ damage' = IF clerk[c].kind = "return" THEN clerk[c].damaged ELSE damage
    /\ GoTo(c, AfterStore(c))
    /\ UNCHANGED <<booking, payment, askVars, odometer, handed, reports, blurred,
                   answers, broken>>

\* damageReportSql.create.
SheetReport(c) ==
    /\ At(c, "report") /\ reports' = reports + 1 /\ GoTo(c, "car")
    /\ UNCHANGED <<booking, payment, askVars, sheets, odometer, handed, damage,
                   blurred, answers, broken>>

\* What a checklist leaves for the status change: the two steps to take, the
\* last one, or none.
Half(k) == IF k = "pickup" THEN "car_prepared" ELSE "active_rental"
Whole(k) == IF k = "pickup" THEN "picked_up" ELSE "returned"
NeedsHalf(k) == IF k = "pickup" THEN "confirmed" ELSE "picked_up"

SheetCar(c) ==
    LET seen == clerk[c].seen
        k    == clerk[c].kind
    IN
    /\ At(c, "car") /\ odometer' = clerk[c].reading
    /\ clerk' = [clerk EXCEPT ![c] =
                   IF seen = NeedsHalf(k) THEN [Free EXCEPT !.pc = "prepare", !.kind = k]
                   ELSE IF seen = Half(k) THEN [Free EXCEPT !.pc = "move", !.kind = k]
                   ELSE Free]
    /\ UNCHANGED <<booking, payment, askVars, sheets, handed, damage, reports,
                   blurred, answers, broken>>

SheetPrepare(c) ==
    /\ At(c, "prepare")
    /\ \/ ChangeTo(Half(clerk[c].kind)) /\ GoTo(c, "move")
       \/ ~MayChange(Half(clerk[c].kind)) /\ Done(c) /\ UNCHANGED booking
    /\ UNCHANGED <<payment, askVars, papers, answers, broken>>

SheetMove(c) ==
    /\ At(c, "move") /\ Done(c)
    /\ \/ ChangeTo(Whole(clerk[c].kind))
       \/ ~MayChange(Whole(clerk[c].kind)) /\ UNCHANGED booking
    /\ UNCHANGED <<payment, askVars, papers, answers, broken>>

-----------------------------------------------------------------------------

\* The process dies, or a statement fails: what was committed stays.
Break(c) ==
    /\ ~At(c, "idle") /\ broken < MaxBroken
    /\ broken' = broken + 1 /\ Done(c)
    /\ blurred' = (blurred \/ AtSheet(c))
    /\ lost' = IF At(c, "mark") THEN lost \cup {clerk[c].ask} ELSE lost
    /\ UNCHANGED <<booking, payment, askVars, sheets, odometer, handed, damage,
                   reports, acted, crossed>>

Reviewing(c) ==
    \/ \E a \in Asks : ReviewRead(c, a)
    \/ Reject(c) \/ ApproveRead(c) \/ ResolvePayment(c) \/ ReserveRefund(c)
    \/ DriveRefund(c) \/ CancelBooking(c) \/ Mark(c)

Filling(c) ==
    \/ \E k \in Kinds, d \in BOOLEAN : SheetRead(c, k, d)
    \/ SheetStore(c) \/ SheetReport(c) \/ SheetCar(c) \/ SheetPrepare(c)
    \/ SheetMove(c)

CounterNext ==
    \/ \E new \in HandStatuses : StaffSets(new)
    \/ RefundElsewhere
    \/ \E t \in Tabs : AskRead(t) \/ AskCreate(t)
    \/ \E c \in Clerks : Reviewing(c) \/ Filling(c) \/ Break(c)

CounterSpec == CounterInit /\ [][CounterNext]_counterVars

-----------------------------------------------------------------------------
(* Properties *)

\* Whatever the clerks do on what they once read, the booking and its refund
\* keep the promise the rest of the application relies on: no checklist hands
\* over a car, and no approval cancels, while a refund is pending.
CounterKeepsPromise == Refunding!Spec

\* A request reads approved only if its booking is cancelled or a refund has
\* been started, though the approval writes its answer steps after it acted
\* and never looks at the booking again.
ApprovedIsActedOn ==
    \A a \in Asks : asks[a] = "approved" => stage = "cancelled" \/ money # "none"

\* A guest is not told "rejected" of a request that ended the booking, unless
\* the rejection was written while an approval was under way, or an approval
\* had broken off before its answer.
AnswersAgree ==
    \A a \in acted : asks[a] = "rejected" => a \in crossed \cup lost

\* Between checklists the car shows the reading of the last one, and damages
\* on the return checklist have a report, unless two were handed in at once
\* or one broke off.
CounterRecordsAgree ==
    (~blurred /\ \A c \in Clerks : ~AtSheet(c)) =>
        /\ \A k \in Kinds : sheets[k] <= odometer
        /\ \E k \in Kinds : sheets[k] = odometer
        /\ damage => reports > 0
=============================================================================
