------------------------ MODULE BookingFinalization ------------------------
(***************************************************************************)
(* How a paid Stripe Checkout session becomes a confirmed booking.         *)
(*                                                                         *)
(* The database tables a booking is spread over (reservations, orders,     *)
(* car_date_blocks, refund_operations, processed Stripe events) and the    *)
(* programs that write them concurrently: the Stripe webhook, the success  *)
(* page, the checkout request, the customer releasing a hold, the staff    *)
(* changing statuses, the refund service and the cleanup job.  A database  *)
(* transaction is one step at the point where it takes effect; a program   *)
(* that reads a row without locking it and acts on it later has a step for *)
(* the read and a step for the act.                                        *)
(***************************************************************************)
EXTENDS ReservationStatus, CarCalendar, FiniteSets

CONSTANTS
    Rids,           \* reservation rows; each belongs to its own guest
    Sids,           \* Stripe Checkout sessions, and their completion events
    Trips,          \* the ranges guests may ask for
    Prices,         \* the totals the price list may quote
    Procs,          \* finalizations that may be in flight at once
    StaffStatuses,  \* target statuses the staff uses
    MaxCrashes,     \* bound: program crashes in a behaviour
    MaxRequests,    \* bound: requests of guests and staff, and cleanup runs,
                    \* that are between two of their steps at once
    MaxRefunds,     \* bound: reservations that see a refund
    NoSid, NoRid, NoCar

ASSUME TripsAssumption  == Trips \subseteq Ranges /\ Trips # {}
ASSUME PricesAssumption == Prices # {}
ASSUME CarsAssumption   == Cars # {} /\ NoCar \notin Cars
ASSUME NamesAssumption  == NoSid \notin Sids /\ NoRid \notin Rids
ASSUME StaffAssumption  ==
    StaffStatuses \subseteq AdminOpsStatuses \ {"confirmed"}
ASSUME BoundAssumption  ==
    MaxCrashes \in Nat /\ MaxRequests \in Nat /\ MaxRefunds \in Nat

VARIABLES
    res,        \* reservations: status, trip, TTL not over, session id, price
    blocks,     \* car_date_blocks
    orders,     \* orders by reservation (reservation_id is unique)
    refunds,    \* the latest refund_operations row of a reservation
    events,     \* processed Stripe events, one per completed session
    reviewed,   \* reservations whose status history has a manual_review row
    gap,        \* history: how a confirmed booking lost its calendar block
    stripe,     \* Stripe's own record of each session
    fin,        \* finalizations in flight
    checkout,   \* checkout requests in flight
    release,    \* guests' release requests that saw an unpaid hold
    staff,      \* staff confirmations that read the reservation
    sweep,      \* cleanup runs that saw the linked session expired
    crashes

tables == <<res, blocks, orders, refunds, events, reviewed, gap>>
guests == <<checkout, release>>
office == <<staff, sweep>>
vars   == <<tables, stripe, fin, guests, office, crashes>>

-----------------------------------------------------------------------------
(* Types *)

SomeTrip  == CHOOSE t \in Trips : TRUE
SomePrice == CHOOSE c \in Prices : TRUE

MaybeSid == Sids \cup {NoSid}

Rows == [status : Statuses \cup {"none"}, trip : Trips, live : BOOLEAN,
         sid : MaybeSid, price : Prices]

Sessions == [state : {"none", "created", "open", "paid", "expired"},
             rid : Rids \cup {NoRid}, car : Cars \cup {NoCar},
             amount : Prices]

Finalizations ==
    [pc : {"idle", "complete", "recover", "review"},
     kind : {"webhook", "direct"}, sid : MaybeSid, rid : Rids \cup {NoRid},
     car : Cars \cup {NoCar}, link : BOOLEAN,
     err : {"none", "invalid", "overlap", "unique"}]

Checkouts == [pc : {"idle", "prepared", "create", "link"}, sid : MaybeSid,
              price : Prices, car : Cars \cup {NoCar}, new : BOOLEAN]

IdleFin == [pc |-> "idle", kind |-> "webhook", sid |-> NoSid, rid |-> NoRid,
            car |-> NoCar, link |-> FALSE, err |-> "none"]

IdleCheckout == [pc |-> "idle", sid |-> NoSid, price |-> SomePrice,
                 car |-> NoCar, new |-> FALSE]

IdleStaff == [path |-> "idle", sid |-> NoSid]

TypeOK ==
    /\ res      \in [Rids -> Rows]
    /\ blocks   \in SUBSET Ranges
    /\ orders   \in [Rids -> [state : {"none", "live", "deleted"},
                              sid : MaybeSid]]
    /\ refunds  \in [Rids -> {"none", "pending", "failed", "succeeded"}]
    /\ events   \in SUBSET Sids
    /\ reviewed \in SUBSET Rids
    /\ gap      \in [Rids -> {"none", "bare_confirm", "stripped",
                              "stale_car"}]
    /\ stripe   \in [Sids -> Sessions]
    /\ fin      \in [Procs -> Finalizations]
    /\ checkout \in [Rids -> Checkouts]
    /\ release  \in [Rids -> BOOLEAN]
    /\ staff    \in [Rids -> [path : {"idle", "review", "generic"},
                              sid : MaybeSid]]
    /\ sweep    \in [Rids -> BOOLEAN]
    /\ crashes  \in Nat

Init ==
    /\ res = [r \in Rids |-> [status |-> "none", trip |-> SomeTrip,
                              live |-> FALSE, sid |-> NoSid,
                              price |-> SomePrice]]
    /\ blocks = {}
    /\ orders = [r \in Rids |-> [state |-> "none", sid |-> NoSid]]
    /\ refunds = [r \in Rids |-> "none"]
    /\ events = {}
    /\ reviewed = {}
    /\ gap = [r \in Rids |-> "none"]
    /\ stripe = [s \in Sids |-> [state |-> "none", rid |-> NoRid,
                                 car |-> NoCar, amount |-> SomePrice]]
    /\ fin = [p \in Procs |-> IdleFin]
    /\ checkout = [r \in Rids |-> IdleCheckout]
    /\ release = [r \in Rids |-> FALSE]
    /\ staff = [r \in Rids |-> IdleStaff]
    /\ sweep = [r \in Rids |-> FALSE]
    /\ crashes = 0

\* The bounds on concurrency, as guards of the steps that open a request.
MayOpen ==
    Cardinality({r \in Rids : checkout[r].pc # "idle"})
      + Cardinality({r \in Rids : release[r]})
      + Cardinality({r \in Rids : staff[r].path # "idle"})
      + Cardinality({r \in Rids : sweep[r]}) < MaxRequests

-----------------------------------------------------------------------------
(* changeStatus: the one operation through which every program changes the *)
(* status of an existing reservation.                                      *)

IsHold(r) == res[r].status \in ActiveHoldStatuses
IsOps(r)  == res[r].status \in OpsStatuses

LiveOrder(r) == orders[r].state = "live"

\* Mutant: a pending refund no longer forbids anything.
MayChange_IgnoresRefund(r, new) == CanTransition(res[r].status, new)

\* The guards: the row exists, no refund is pending that forbids the new
\* status, and the lifecycle graph has the edge.
MayChange(r, new) ==
    /\ CanTransition(res[r].status, new)
    /\ (refunds[r] = "pending" /\ new # res[r].status)
           => new \in AllowedDuringPendingRefund

\* The hold TTL only means something while the row is a hold.
InStatus(row, new) ==
    [row EXCEPT !.status = new,
                !.live = row.live /\ new \in ActiveHoldStatuses]

Releases(r, new) == new \in ReleasingStatuses /\ res[r].status # new

\* Cancelling, refunding or marking a no-show deletes a calendar block; a
\* confirmed booking whose block is the one deleted is left "stripped".
GapAfterRelease(r) ==
    [x \in Rids |->
        IF x = r THEN "none"
        ELSE IF /\ IsOps(x) /\ gap[x] = "none"
                /\ res[x].trip \in StoredRange(blocks, res[r].trip)
             THEN "stripped" ELSE gap[x]]

\* Mutants: the soft delete is left out.
OrdersAfterRelease_Kept(r, new) == orders

\* softDeleteOrderForReservation: cancel and refund only, not no_show.
OrdersAfterRelease(r, new) ==
    IF new # "no_show" /\ LiveOrder(r)
    THEN [orders EXCEPT ![r].state = "deleted"] ELSE orders

\* changeStatusCore: row holds the patched columns of reservation r.
ChangeStatus(r, new, row) ==
    /\ MayChange(r, new)
    /\ res' = [res EXCEPT ![r] = InStatus(row, new)]
    /\ IF Releases(r, new)
       THEN /\ blocks' = ReleaseRange(blocks, res[r].trip)
            /\ orders' = OrdersAfterRelease(r, new)
            /\ gap' = GapAfterRelease(r)
       ELSE UNCHANGED <<blocks, orders, gap>>
    /\ reviewed' = IF new = "manual_review" THEN reviewed \cup {r}
                                            ELSE reviewed

-----------------------------------------------------------------------------
(* Holds *)

\* expireStaleHoldsForCar: holds of these cars whose TTL is over.
ExpireStale(cars) ==
    [r \in Rids |->
        IF IsHold(r) /\ ~res[r].live /\ res[r].trip.car \in cars
        THEN InStatus(res[r], "expired") ELSE res[r]]

\* findOpenPhysicalRental: the car is out with a customer.
OpenRental(car) ==
    \E r \in Rids : res[r].status \in OpenRentalStatuses
                    /\ res[r].trip.car = car

\* findOverlappingHold: a hold, its TTL running, that wants the range.
LiveHoldOn(t, except) ==
    \E x \in Rids \ {except} :
        IsHold(x) /\ res[x].live /\ Overlaps(res[x].trip, t)

\* Mutant: bookings and rentals are checked, other holds are not.
Available_IgnoresHolds(t, except) == ~OpenRental(t.car) /\ Free(blocks, t)

Available(t, except) ==
    ~LiveHoldOn(t, except) /\ ~OpenRental(t.car) /\ Free(blocks, t)

\* createPendingReservationWithAvailabilityCheck, under the car's advisory
\* lock.  The stale holds of the car stay expired when the answer is no.  A
\* hold that checkout creates goes straight on to payment.
CreateHold(r, t, price, paying) ==
    /\ res[r].status = "none"
    /\ paying => MayOpen
    /\ LET swept == ExpireStale({t.car})
       IN  IF Available(t, r)
           THEN /\ res' = [swept EXCEPT
                    ![r] = [status |-> "pending_payment", trip |-> t,
                            live |-> TRUE, sid |-> NoSid, price |-> price]]
                /\ checkout' = IF paying
                    THEN [checkout EXCEPT ![r] =
                            [pc |-> "prepared", sid |-> NoSid,
                             price |-> price, car |-> t.car, new |-> TRUE]]
                    ELSE checkout
           ELSE res' = swept /\ UNCHANGED checkout
    /\ UNCHANGED <<blocks, orders, refunds, events, reviewed, gap, stripe,
                   fin, release, office, crashes>>

\* reholdPendingReservationWithAvailabilityCheck: the guest moves a pending
\* hold to another car or other dates; a linked session id stays on the row.
Rehold(r, t, price) ==
    /\ res[r].status = "pending_payment" /\ res[r].live
    /\ LET swept == ExpireStale({t.car, res[r].trip.car})
       IN  res' = IF Available(t, r)
                  THEN [swept EXCEPT ![r].trip = t, ![r].price = price]
                  ELSE swept
    /\ UNCHANGED <<blocks, orders, refunds, events, reviewed, gap, stripe,
                   fin, guests, office, crashes>>

\* What an earlier read may have found of a hold: it was pending at first, and
\* in payment if its guest has ever been sent to Stripe.
SeenStatuses(r) ==
    {"pending_payment"} \cup
    {new \in {"processing_payment"} :
        \E s \in Sids : /\ stripe[s].rid = r
                       /\ stripe[s].state \in {"open", "paid", "expired"}}

\* Changing extras on an existing hold reprices it, and writes back the status
\* that was seen, for other extras, in a read without a lock.
RepriceHold(r, seen, price) ==
    /\ IsHold(r) /\ seen \in SeenStatuses(r) /\ Prices # {price}
    /\ ChangeStatus(r, seen, [res[r] EXCEPT !.price = price])
    /\ UNCHANGED <<refunds, events, stripe, fin, guests, office, crashes>>

\* The hold TTL (35 minutes) outlasts a Checkout session (30 minutes) that
\* was opened after the TTL was last extended, and a checkout request.
HoldLapses(r) ==
    /\ IsHold(r) /\ res[r].live
    /\ checkout[r].pc = "idle"
    /\ \A s \in Sids : ~(stripe[s].state = "open" /\ stripe[s].rid = r)
    /\ res' = [res EXCEPT ![r].live = FALSE]
    /\ UNCHANGED <<blocks, orders, refunds, events, reviewed, gap, stripe,
                   fin, guests, office, crashes>>

\* releaseActiveReservationForSession and requestCancellation read the row
\* without a lock and find an unpaid hold ...
ReleaseRead(r) ==
    /\ IsHold(r) /\ ~release[r]
    /\ MayOpen
    /\ release' = [release EXCEPT ![r] = TRUE]
    /\ UNCHANGED <<tables, stripe, fin, checkout, office, crashes>>

\* ... and then cancel whatever the row has become.
ReleaseAct(r) ==
    /\ release[r]
    /\ release' = [release EXCEPT ![r] = FALSE]
    /\ IF MayChange(r, "cancelled")
       THEN ChangeStatus(r, "cancelled", [res[r] EXCEPT !.live = FALSE])
       ELSE UNCHANGED <<res, blocks, orders, reviewed, gap>>
    /\ UNCHANGED <<refunds, events, stripe, fin, checkout, office, crashes>>

-----------------------------------------------------------------------------
(* Checkout *)

\* resolveCheckoutReservation on an existing hold: no lock is taken yet.
CheckoutPrepare(r, price) ==
    /\ checkout[r].pc = "idle"
    /\ MayOpen
    /\ IsHold(r) /\ res[r].live
    /\ ~OpenRental(res[r].trip.car) /\ Free(blocks, res[r].trip)
    /\ ChangeStatus(r, "pending_payment",
                    [res[r] EXCEPT !.live = TRUE, !.price = price])
    /\ checkout' = [checkout EXCEPT ![r] =
                        [pc |-> "prepared", sid |-> NoSid, price |-> price,
                         car |-> res[r].trip.car, new |-> FALSE]]
    /\ UNCHANGED <<refunds, events, stripe, fin, release, office, crashes>>

SessionIn(s, states) == s \in Sids /\ stripe[s].state \in states

\* Mutant: the previous session stays payable.
ExpiredAtStripe_Kept(s) == stripe

\* The session expired at Stripe, if it was still open.
ExpiredAtStripe(s) ==
    IF SessionIn(s, {"open"}) THEN [stripe EXCEPT ![s].state = "expired"]
                              ELSE stripe

\* Under the checkout lock: the row cannot take a session any more, or its
\* session is already paid, and the request ends.
CheckoutRefuse(r) ==
    /\ checkout[r].pc = "prepared"
    /\ ~IsHold(r) \/ SessionIn(res[r].sid, {"paid"})
    /\ checkout' = [checkout EXCEPT ![r] = IdleCheckout]
    /\ UNCHANGED <<tables, stripe, fin, release, office, crashes>>

\* The linked session is open and asks for the same amount: send the guest
\* back to it.
CheckoutReuse(r) ==
    /\ checkout[r].pc = "prepared"
    /\ IsHold(r)
    /\ SessionIn(res[r].sid, {"open"})
    /\ stripe[res[r].sid].amount = checkout[r].price
    /\ ChangeStatus(r, "processing_payment", res[r])
    /\ checkout' = [checkout EXCEPT ![r] = IdleCheckout]
    /\ UNCHANGED <<refunds, events, stripe, fin, release, office, crashes>>

\* Otherwise expire the previous session at Stripe, so that two sessions of
\* one reservation are never payable, and clear the link
\* (reserveCheckoutAttempt).
CheckoutSupersede(r) ==
    /\ checkout[r].pc = "prepared"
    /\ IsHold(r)
    /\ ~SessionIn(res[r].sid, {"paid"})
    /\ SessionIn(res[r].sid, {"open"})
           => stripe[res[r].sid].amount # checkout[r].price
    /\ stripe' = ExpiredAtStripe(res[r].sid)
    /\ res' = [res EXCEPT ![r].sid = NoSid]
    /\ checkout' = [checkout EXCEPT ![r].pc = "create"]
    /\ UNCHANGED <<blocks, orders, refunds, events, reviewed, gap, fin,
                   release, office, crashes>>

\* Sessions of r that Stripe created and no request linked: the attempt
\* number was not bumped, so the idempotency key brings them back.
Unlinked(r) == {s \in Sids : stripe[s].state = "created" /\ stripe[s].rid = r}

\* stripe.checkout.sessions.create: a new session, or the earlier answer when
\* the same attempt is sent again with the same parameters.
CheckoutCreate(r, s) ==
    /\ checkout[r].pc = "create"
    /\ LET c == checkout[r]
           session == [state |-> "created", rid |-> r, car |-> c.car,
                       amount |-> c.price]
       IN  /\ \/ Unlinked(r) = {} /\ stripe[s].state = "none"
              \/ s \in Unlinked(r) /\ stripe[s] = session
           /\ stripe' = [stripe EXCEPT ![s] = session]
    /\ checkout' = [checkout EXCEPT ![r].pc = "link", ![r].sid = s]
    /\ UNCHANGED <<tables, fin, release, office, crashes>>

\* Stripe refuses or cannot be reached: a hold created by this very request
\* is cancelled again (compensateReservationAfterStripeFailure).
CheckoutCreateFails(r) ==
    /\ checkout[r].pc = "create"
    /\ IF checkout[r].new /\ MayChange(r, "cancelled")
       THEN ChangeStatus(r, "cancelled", [res[r] EXCEPT !.live = FALSE])
       ELSE UNCHANGED <<res, blocks, orders, reviewed, gap>>
    /\ checkout' = [checkout EXCEPT ![r] = IdleCheckout]
    /\ UNCHANGED <<refunds, events, stripe, fin, release, office, crashes>>

\* linkStripeSessionToReservation; the guest gets the URL only afterwards.
CheckoutLink(r) ==
    /\ checkout[r].pc = "link"
    /\ MayChange(r, "processing_payment")
    /\ ChangeStatus(r, "processing_payment",
                    [res[r] EXCEPT !.sid = checkout[r].sid])
    /\ stripe' = [stripe EXCEPT ![checkout[r].sid].state = "open"]
    /\ checkout' = [checkout EXCEPT ![r] = IdleCheckout]
    /\ UNCHANGED <<refunds, events, fin, release, office, crashes>>

\* The link is refused: expire the orphan session and bump the attempt,
\* which clears the session id; if Stripe cannot be reached, leave both.
CheckoutLinkFails(r) ==
    /\ checkout[r].pc = "link"
    /\ ~MayChange(r, "processing_payment")
    /\ \/ /\ stripe' = [stripe EXCEPT ![checkout[r].sid].state = "expired"]
          /\ res' = [res EXCEPT ![r].sid = NoSid]
       \/ UNCHANGED <<stripe, res>>
    /\ checkout' = [checkout EXCEPT ![r] = IdleCheckout]
    /\ UNCHANGED <<blocks, orders, refunds, events, reviewed, gap, fin,
                   release, office, crashes>>

\* The process dies; its advisory lock goes with its connection.
CheckoutCrash(r) ==
    /\ checkout[r].pc # "idle"
    /\ crashes < MaxCrashes
    /\ crashes' = crashes + 1
    /\ checkout' = [checkout EXCEPT ![r] = IdleCheckout]
    /\ UNCHANGED <<tables, stripe, fin, release, office>>

\* Stripe: an open session is paid once, or expires after 30 minutes.
CustomerPays(s) ==
    /\ stripe[s].state = "open"
    /\ stripe' = [stripe EXCEPT ![s].state = "paid"]
    /\ UNCHANGED <<tables, fin, guests, office, crashes>>

StripeExpires(s) ==
    /\ stripe[s].state = "open"
    /\ stripe' = [stripe EXCEPT ![s].state = "expired"]
    /\ UNCHANGED <<tables, fin, guests, office, crashes>>

-----------------------------------------------------------------------------
(* Finalization of a paid session.  Begin reads without locking the         *)
(* reservation; Complete writes under a savepoint; when that fails, Recover *)
(* reads again and Review may flag the payment.  Nothing is visible to      *)
(* others before the transaction commits.                                   *)

\* resolveReservationForStripeSession: by the linked session id, else by the
\* metadata Stripe kept, which must still match the reservation's car.
Resolved(s) ==
    LET linked == {r \in Rids : res[r].status # "none" /\ res[r].sid = s}
        named  == {r \in Rids : stripe[s].rid = r
                                /\ res[r].trip.car = stripe[s].car}
    IN  IF linked # {} THEN CHOOSE r \in linked : TRUE
        ELSE IF named # {} THEN CHOOSE r \in named : TRUE ELSE NoRid

OrderForSession(s) == \E r \in Rids : LiveOrder(r) /\ orders[r].sid = s

\* Mutant: a reservation that is no hold any more counts as done.
AlreadyDone_IfNoHold(s, r) == r = NoRid \/ OrderForSession(s) \/ ~IsHold(r)

\* The early returns of finalizeReservationCore, in their order.
AlreadyDone(s, r) ==
    \/ r = NoRid
    \/ OrderForSession(s)
    \/ r # NoRid /\ IsOps(r) /\ LiveOrder(r)

Corrupted(r) == IsOps(r) \/ LiveOrder(r)

\* validateStripeSessionForFinalization, and the webhook's rule that a
\* cancelled hold cannot become paid.
Conflict(s, r, kind) ==
    \/ res[r].sid \notin {NoSid, s}
    \/ stripe[s].amount # res[r].price
    \/ kind = "webhook" /\ res[r].status = "cancelled"

\* The webhook's event row commits with the result; success page and cleanup
\* job record no event.
Acknowledge(kind, s) ==
    events' = IF kind = "webhook" THEN events \cup {s} ELSE events

\* Mutant: completion events of unpaid sessions are finalized too.
MayBegin_Unpaid(kind, s) ==
    /\ stripe[s].state \in {"open", "paid"}
    /\ kind = "webhook" => s \notin events
    /\ kind = "direct" => ~OrderForSession(s)

\* Inserting the event id waits for, or fails on, an earlier delivery of the
\* same event.  The success page looks for the order before it begins.
MayBegin(kind, s) ==
    /\ stripe[s].state = "paid"
    /\ kind = "webhook" =>
           /\ s \notin events
           /\ \A q \in Procs : ~(fin[q].pc # "idle" /\ fin[q].sid = s
                                 /\ fin[q].kind = "webhook")
    /\ kind = "direct" => ~OrderForSession(s)

\* The session is answered from what is there: no such reservation, or the
\* booking exists.
AnswerKnown(p, kind, s) ==
    /\ fin[p].pc = "idle"
    /\ MayBegin(kind, s)
    /\ AlreadyDone(s, Resolved(s))
    /\ Acknowledge(kind, s)
    /\ UNCHANGED <<res, blocks, orders, refunds, reviewed, gap, stripe, fin,
                   guests, office, crashes>>

\* Otherwise go on with what was read: the reservation, its car, and whether
\* a conflict may record the session id on the row.  A corrupted booking
\* throws instead, which rolls everything back.
BeginFinalization(p, kind, s) ==
    LET r == Resolved(s) IN
    /\ fin[p].pc = "idle"
    /\ MayBegin(kind, s)
    /\ ~AlreadyDone(s, r)
    /\ ~Corrupted(r)
    /\ fin' = [fin EXCEPT ![p] =
                 [pc |-> IF Conflict(s, r, kind) THEN "review" ELSE "complete",
                  kind |-> kind, sid |-> s, rid |-> r,
                  car |-> res[r].trip.car,
                  link |-> res[r].sid \in {NoSid, s}, err |-> "none"]]
    /\ UNCHANGED <<tables, stripe, guests, office, crashes>>

\* Mutant: pickup and return change places.
BookedRange_Swapped(p) ==
    LET t == res[fin[p].rid].trip
    IN  [car |-> fin[p].car, from |-> t.to, to |-> t.from]

\* Mutant: the last day is left out.
BookedRange_ShortByADay(p) ==
    [res[fin[p].rid].trip EXCEPT !.car = fin[p].car, !.to = @ - 1]

\* The range that is booked: the dates of the row as it is now, the car of
\* the row as Begin read it.
BookedRange(p) ==
    [res[fin[p].rid].trip EXCEPT !.car = fin[p].car]

\* Mutant: the calendar is not asked.
CompletionError_IgnoresBlocks(p) ==
    IF ~MayChange(fin[p].rid, "paid") THEN "invalid"
    ELSE IF orders[fin[p].rid].state # "none" THEN "unique" ELSE "none"

\* What makes the savepoint roll back: the row may not become paid, the
\* range is taken, or the reservation had an order before, even a deleted
\* one.
CompletionError(p) ==
    LET r == fin[p].rid IN
    IF ~MayChange(r, "paid") THEN "invalid"
    ELSE IF ~Free(blocks, BookedRange(p)) THEN "overlap"
    ELSE IF orders[r].state # "none" THEN "unique" ELSE "none"

\* completeReservationFinalization: paid, calendar block, order and
\* confirmed in one transaction.
Complete(p) ==
    LET f == fin[p]
        r == f.rid
    IN
    /\ f.pc = "complete"
    /\ CompletionError(p) = "none"
    /\ res' = [res EXCEPT ![r] =
                  InStatus([res[r] EXCEPT !.sid = f.sid], "confirmed")]
    /\ blocks' = blocks \cup {BookedRange(p)}
    /\ orders' = [orders EXCEPT ![r] = [state |-> "live", sid |-> f.sid]]
    /\ gap' = [gap EXCEPT ![r] =
                  IF f.car = res[r].trip.car THEN "none" ELSE "stale_car"]
    /\ Acknowledge(f.kind, f.sid)
    /\ fin' = [fin EXCEPT ![p] = IdleFin]
    /\ UNCHANGED <<refunds, reviewed, stripe, guests, office, crashes>>

CompleteFails(p) ==
    /\ fin[p].pc = "complete"
    /\ CompletionError(p) # "none"
    /\ fin' = [fin EXCEPT ![p].pc = "recover", ![p].err = CompletionError(p)]
    /\ UNCHANGED <<tables, stripe, guests, office, crashes>>

\* resolveConcurrentFinalizationResult: somebody else has booked it.
BookedByOther(s, r) == OrderForSession(s) \/ LiveOrder(r) \/ IsOps(r)

\* handleFinalizationOverlap.
RecoverKnown(p) ==
    /\ fin[p].pc = "recover"
    /\ BookedByOther(fin[p].sid, fin[p].rid)
    /\ Acknowledge(fin[p].kind, fin[p].sid)
    /\ fin' = [fin EXCEPT ![p] = IdleFin]
    /\ UNCHANGED <<res, blocks, orders, refunds, reviewed, gap, stripe,
                   guests, office, crashes>>

\* Only an overlap goes to review; any other error is thrown again, the
\* transaction rolls back and the caller answers with an error.
RecoverElse(p) ==
    /\ fin[p].pc = "recover"
    /\ ~BookedByOther(fin[p].sid, fin[p].rid)
    /\ fin' = [fin EXCEPT ![p] =
                  IF fin[p].err = "overlap"
                  THEN [fin[p] EXCEPT !.pc = "review"] ELSE IdleFin]
    /\ UNCHANGED <<tables, stripe, guests, office, crashes>>

\* markPaidReservationConflict.  A row that may not go to manual_review is
\* left as it is, and the payment is answered all the same.
Review(p) ==
    LET f == fin[p]
        r == f.rid
        row == IF f.link THEN [res[r] EXCEPT !.sid = f.sid] ELSE res[r]
    IN
    /\ f.pc = "review"
    /\ IF MayChange(r, "manual_review")
       THEN ChangeStatus(r, "manual_review", row)
       ELSE UNCHANGED <<res, blocks, orders, reviewed, gap>>
    /\ Acknowledge(f.kind, f.sid)
    /\ fin' = [fin EXCEPT ![p] = IdleFin]
    /\ UNCHANGED <<refunds, stripe, guests, office, crashes>>

\* The process dies in mid-transaction: the database rolls it back and the
\* webhook gets no answer.
FinalizerCrash(p) ==
    /\ fin[p].pc # "idle"
    /\ crashes < MaxCrashes
    /\ crashes' = crashes + 1
    /\ fin' = [fin EXCEPT ![p] = IdleFin]
    /\ UNCHANGED <<tables, stripe, guests, office>>

-----------------------------------------------------------------------------
(* Staff, refunds and the cleanup job *)

\* changeReservationStatus, calendar and checklist status changes.
StaffSet(r, new) ==
    /\ new \in StaffStatuses /\ new # res[r].status
    /\ ChangeStatus(r, new, res[r])
    /\ UNCHANGED <<refunds, events, stripe, fin, guests, office, crashes>>

\* Staff asks to confirm: the unlocked read decides which way is taken.
StaffConfirmRead(r) ==
    /\ res[r].status # "none" /\ staff[r].path = "idle"
    /\ MayOpen
    /\ staff' = [staff EXCEPT ![r] =
                    [path |-> IF res[r].status = "manual_review"
                              THEN "review" ELSE "generic",
                     sid |-> res[r].sid]]
    /\ UNCHANGED <<tables, stripe, fin, guests, sweep, crashes>>

\* confirmManualReviewReservation: all its checks hold and it commits.
StaffConfirmReview(r) ==
    /\ staff[r].path = "review"
    /\ \A x \in Rids : ~(IsHold(x) /\ res[x].live
                         /\ Overlaps(res[x].trip, res[r].trip))
    /\ \A x \in Rids \ {r} : ~(res[x].status \in OpenRentalStatuses
                               /\ res[x].trip.car = res[r].trip.car)
    /\ Free(blocks, res[r].trip)
    /\ orders[r].state = "none"
    /\ MayChange(r, "confirmed")
    /\ res' = [res EXCEPT ![r] = InStatus(res[r], "confirmed")]
    /\ blocks' = blocks \cup {res[r].trip}
    /\ orders' = [orders EXCEPT ![r] = [state |-> "live",
                                        sid |-> staff[r].sid]]
    /\ gap' = [gap EXCEPT ![r] = "none"]
    /\ staff' = [staff EXCEPT ![r] = IdleStaff]
    /\ UNCHANGED <<refunds, events, reviewed, stripe, fin, guests, sweep,
                   crashes>>

\* The read saw another status: a plain status change, with no order and no
\* calendar block, to whatever the row has become.
StaffConfirmGeneric(r) ==
    /\ staff[r].path = "generic"
    /\ MayChange(r, "confirmed") /\ res[r].status # "confirmed"
    /\ res' = [res EXCEPT ![r] = InStatus(res[r], "confirmed")]
    /\ gap' = [gap EXCEPT ![r] = "bare_confirm"]
    /\ staff' = [staff EXCEPT ![r] = IdleStaff]
    /\ UNCHANGED <<blocks, orders, refunds, events, reviewed, stripe, fin,
                   guests, sweep, crashes>>

\* A check fails or the transition is refused: the staff sees an error.
StaffConfirmFails(r) ==
    /\ staff[r].path # "idle"
    /\ staff' = [staff EXCEPT ![r] = IdleStaff]
    /\ UNCHANGED <<tables, stripe, fin, guests, sweep, crashes>>

\* requestReservationRefund, under the reservation's row lock.
RefundStart(r) ==
    /\ res[r].status \in RefundableStatuses
    /\ refunds[r] \in {"none", "failed"}
    /\ Cardinality({x \in Rids \ {r} : refunds[x] # "none"}) < MaxRefunds
    /\ refunds' = [refunds EXCEPT ![r] = "pending"]
    /\ UNCHANGED <<res, blocks, orders, events, reviewed, gap, stripe, fin,
                   guests, office, crashes>>

\* applySucceededRefund: Stripe says the money went back, possibly after a
\* failure had been recorded.  A reservation that cannot become refunded any
\* more goes to manual review if it can, and keeps its status otherwise.
RefundSucceeds(r) ==
    LET target == IF MayChange(r, "refunded") THEN "refunded"
                  ELSE "manual_review"
    IN
    /\ refunds[r] \in {"pending", "failed"}
    /\ refunds' = [refunds EXCEPT ![r] = "succeeded"]
    /\ IF MayChange(r, target)
       THEN ChangeStatus(r, target, res[r])
       ELSE UNCHANGED <<res, blocks, orders, reviewed, gap>>
    /\ UNCHANGED <<events, stripe, fin, guests, office, crashes>>

\* Mutant: a late failure is written over a success.
FailsOver_Success == {"pending", "succeeded"}

\* What markRefundFailed may write over: the update guards success.
FailsOver == {"pending"}

\* markRefundFailed.
RefundFails(r) ==
    /\ refunds[r] \in FailsOver
    /\ refunds' = [refunds EXCEPT ![r] = "failed"]
    /\ UNCHANGED <<res, blocks, orders, events, reviewed, gap, stripe, fin,
                   guests, office, crashes>>

\* resurrectPending: the job, or a slow request, learns that a refund marked
\* failed is still under way, whatever the reservation has become meanwhile.
RefundResumes(r) ==
    /\ refunds[r] = "failed"
    /\ refunds' = [refunds EXCEPT ![r] = "pending"]
    /\ UNCHANGED <<res, blocks, orders, events, reviewed, gap, stripe, fin,
                   guests, office, crashes>>

\* markAbandonedReservations: a hold whose TTL is over or whose browse
\* session is gone, unless it waits for a linked payment.
AbandonSweep(r) ==
    /\ IsHold(r)
    /\ ~(res[r].status = "processing_payment" /\ res[r].sid # NoSid)
    /\ res' = [res EXCEPT ![r] = InStatus(res[r], "expired")]
    /\ UNCHANGED <<blocks, orders, refunds, events, reviewed, gap, stripe,
                   fin, guests, office, crashes>>

\* Mutant: looks for sessions that are still open.
SweepRead_OpenSession(r) ==
    /\ res[r].status = "processing_payment" /\ ~res[r].live
    /\ SessionIn(res[r].sid, {"open"}) /\ ~sweep[r]
    /\ MayOpen
    /\ sweep' = [sweep EXCEPT ![r] = TRUE]
    /\ UNCHANGED <<tables, stripe, fin, guests, staff, crashes>>

\* reconcileProcessingStripeReservations sees that the linked session of a
\* lapsed processing hold expired at Stripe (a paid one is finalized) ...
SweepRead(r) ==
    /\ res[r].status = "processing_payment" /\ ~res[r].live
    /\ SessionIn(res[r].sid, {"expired"}) /\ ~sweep[r]
    /\ MayOpen
    /\ sweep' = [sweep EXCEPT ![r] = TRUE]
    /\ UNCHANGED <<tables, stripe, fin, guests, staff, crashes>>

\* ... and expires the reservation if it still may expire.
SweepExpire(r) ==
    /\ sweep[r]
    /\ sweep' = [sweep EXCEPT ![r] = FALSE]
    /\ IF MayChange(r, "expired")
       THEN ChangeStatus(r, "expired", res[r])
       ELSE UNCHANGED <<res, blocks, orders, reviewed, gap>>
    /\ UNCHANGED <<refunds, events, stripe, fin, guests, staff, crashes>>

-----------------------------------------------------------------------------
(* The whole system *)

HoldStep(r) ==
    \/ \E t \in Trips, c \in Prices, b \in BOOLEAN : CreateHold(r, t, c, b)
    \/ \E t \in Trips, c \in Prices : Rehold(r, t, c)
    \/ \E c \in Prices, seen \in ActiveHoldStatuses : RepriceHold(r, seen, c)
    \/ HoldLapses(r)
    \/ ReleaseRead(r) \/ ReleaseAct(r)

CheckoutStep(r) ==
    \/ \E c \in Prices : CheckoutPrepare(r, c)
    \/ CheckoutRefuse(r) \/ CheckoutReuse(r) \/ CheckoutSupersede(r)
    \/ \E s \in Sids : CheckoutCreate(r, s)
    \/ CheckoutCreateFails(r) \/ CheckoutLink(r) \/ CheckoutLinkFails(r)
    \/ CheckoutCrash(r)

StripeStep(s) == CustomerPays(s) \/ StripeExpires(s)

FinalizerStep(p) ==
    \/ \E k \in {"webhook", "direct"}, s \in Sids :
           AnswerKnown(p, k, s) \/ BeginFinalization(p, k, s)
    \/ Complete(p) \/ CompleteFails(p)
    \/ RecoverKnown(p) \/ RecoverElse(p) \/ Review(p)
    \/ FinalizerCrash(p)

StaffStep(r) ==
    \/ \E new \in StaffStatuses : StaffSet(r, new)
    \/ StaffConfirmRead(r) \/ StaffConfirmReview(r)
    \/ StaffConfirmGeneric(r) \/ StaffConfirmFails(r)
    \/ RefundStart(r) \/ RefundSucceeds(r)
    \/ RefundFails(r) \/ RefundResumes(r)

CleanupStep(r) == AbandonSweep(r) \/ SweepRead(r) \/ SweepExpire(r)

Next ==
    \/ \E r \in Rids : \/ HoldStep(r) \/ CheckoutStep(r)
                       \/ StaffStep(r) \/ CleanupStep(r)
    \/ \E s \in Sids : StripeStep(s)
    \/ \E p \in Procs : FinalizerStep(p)

Spec == Init /\ [][Next]_vars

-----------------------------------------------------------------------------
(* Safety *)

\* A row that holds a live order is in the operational lifecycle (or was
\* closed as a no-show, which keeps the order): cancelling and refunding
\* delete the order in the transaction that changes the status.
OrderMatchesLifecycle ==
    \A r \in Rids : LiveOrder(r) => IsOps(r) \/ res[r].status = "no_show"

\* A booking of the operational lifecycle has its order, whoever confirmed
\* it and whatever ran meanwhile, but for the one path that is known to
\* confirm without (StaffConfirmGeneric after a stale read).
BookingHasOrder ==
    \A r \in Rids : IsOps(r) => LiveOrder(r) \/ gap[r] = "bare_confirm"

\* An order exists only for money: its session is paid, and was paid for
\* this very reservation, through all supersessions, replays and reviews.
OrderIsPaid ==
    \A r \in Rids : LiveOrder(r) =>
        /\ SessionIn(orders[r].sid, {"paid"})
        /\ stripe[orders[r].sid].rid = r

\* A session the guest can pay, or has paid, is the one its reservation is
\* linked to; so a reservation never has two payable sessions, and a payment
\* is always found by its session id.
PayableIsLinked ==
    \A s \in Sids : stripe[s].state \in {"open", "paid"} =>
        stripe[s].rid \in Rids /\ res[stripe[s].rid].sid = s

\* Two rows that hold a car never want the same day: the availability check
\* under the advisory lock, with the stale holds expired first, is enough,
\* and the exclusion constraint on holds never has to refuse an insert.
HoldsExclusive ==
    \A r, q \in Rids : (r # q /\ IsHold(r) /\ IsHold(q))
        => ~Overlaps(res[r].trip, res[q].trip)

Booked(r) == IsOps(r) /\ gap[r] = "none"

\* A confirmed booking owns a calendar block over its own dates, unless one
\* of the recorded accidents took it.
BookedHasBlock == \A r \in Rids : Booked(r) => res[r].trip \in blocks

\* No car is booked twice: two operational bookings overlap only if one of
\* them has lost its block by one of the recorded accidents (it was confirmed
\* without one, another release deleted it, or its car changed under the
\* finalization).
NoDoubleBookingButGaps ==
    \A r, q \in Rids : (r # q /\ Booked(r) /\ Booked(q))
        => ~Overlaps(res[r].trip, res[q].trip)

\* A reservation is refunded only by a refund that Stripe reported as done, and
\* stays so: no later news about that refund takes the success back.
RefundMatchesStatus ==
    \A r \in Rids : res[r].status = "refunded" => refunds[r] = "succeeded"

\* Among guests, payments, staff and the cleanup job, each reservation and its
\* refund still behave as RefundPromise says: no program but the refund's own
\* moves a reservation with a pending refund to a status that forbids it.
RefundOf(r) == INSTANCE RefundPromise WITH status <- res[r].status,
                                           refund <- refunds[r]

RefundsKeepPromise ==
    /\ \A r \in Rids : RefundOf(r)!Init
    /\ [][\A r \in Rids :
             [RefundOf(r)!Next]_<<res[r].status, refunds[r]>>]_vars

\* A payment whose webhook event was answered is not lost: the session has
\* its order (perhaps deleted since), or a reviewer was asked.
AcknowledgedPaymentKept ==
    \A s \in events :
        \/ \E r \in Rids : orders[r].state # "none" /\ orders[r].sid = s
        \/ stripe[s].rid \in reviewed

-----------------------------------------------------------------------------
(* What the repository's documents say, and the code does not do *)

\* README: confirmed operational ranges are stored in car_date_blocks.  Said
\* of the bookings that were finalized with their order.
ConfirmedHasBlock ==
    \A r \in Rids : IsOps(r) /\ LiveOrder(r) => res[r].trip \in blocks

\* reservationService.js and accountReservationService.js: the release of a
\* hold cancels an active, unpaid hold.
ReleaseCancelsOnlyHolds ==
    [][\A r \in Rids :
         (release[r] /\ ~release'[r] /\ res'[r].status # res[r].status)
             => IsHold(r)]_vars

-----------------------------------------------------------------------------
(* Liveness *)

WebhookBegins(s) ==
    \E p \in Procs : \/ AnswerKnown(p, "webhook", s)
                     \/ BeginFinalization(p, "webhook", s)

FinalizerEnds(p) ==
    \/ Complete(p) \/ CompleteFails(p)
    \/ RecoverKnown(p) \/ RecoverElse(p) \/ Review(p)

CheckoutEnds(r) ==
    \/ CheckoutRefuse(r) \/ CheckoutReuse(r) \/ CheckoutSupersede(r)
    \/ \E s \in Sids : CheckoutCreate(r, s)
    \/ CheckoutCreateFails(r) \/ CheckoutLink(r) \/ CheckoutLinkFails(r)

\* Stripe delivers an event again until it is answered, whatever else uses
\* the server meanwhile; a program that runs goes on; time passes; and the
\* cleanup job comes back on its schedule.
Fairness ==
    /\ \A s \in Sids : SF_vars(WebhookBegins(s))
    /\ \A s \in Sids : WF_vars(StripeStep(s))
    /\ \A p \in Procs : WF_vars(FinalizerEnds(p))
    /\ \A r \in Rids :
        /\ WF_vars(CheckoutEnds(r))
        /\ WF_vars(ReleaseAct(r))
        /\ WF_vars(StaffConfirmFails(r))
        /\ WF_vars(HoldLapses(r))
        /\ WF_vars(AbandonSweep(r))
        /\ SF_vars(SweepRead(r))
        /\ WF_vars(SweepExpire(r))

FairSpec == Spec /\ Fairness

Paid(s) == stripe[s].state = "paid"

\* Money that Stripe took is noticed: in the end the session has its order or
\* its reservation went to manual review, also when the hold ran out, was
\* cancelled, or a program died on the way.  It is checked where price and
\* dates stay as they were paid for; where they change under the payment,
\* AcknowledgedPaymentKept shows how it is lost.
PaymentIsNoticed ==
    \A s \in Sids : Paid(s) ~>
        \/ \E r \in Rids : orders[r].state # "none" /\ orders[r].sid = s
        \/ stripe[s].rid \in reviewed

\* A hold whose time is over gives the car back, also when its guest left in
\* the middle of the payment.
LapsedHoldEnds ==
    \A r \in Rids : (IsHold(r) /\ ~res[r].live) ~> ~IsHold(r)

\* webhookService.js: an event whose outcome is manual review is answered, so
\* that Stripe does not repeat it for ever; also when the success page or the
\* cleanup job sent the reservation there first.
ReviewIsAnswered ==
    \A s \in Sids, r \in Rids :
        (Paid(s) /\ stripe[s].rid = r /\ res[r].status = "manual_review")
            ~> (s \in events \/ res[r].status # "manual_review")
=============================================================================
