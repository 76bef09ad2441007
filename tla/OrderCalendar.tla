--------------------------- MODULE OrderCalendar ---------------------------
(***************************************************************************)
(* The staff's desk: orders, the reservations they are linked to and the   *)
(* calendar blocks that keep a car free for them, as time passes.          *)
(*                                                                         *)
(* The same car is moved, edited, cancelled and handed over by programs    *)
(* that read a row first and write all of its columns back later           *)
(* (services/admin/order/, modules/calendar/), while the purge of ended    *)
(* blocks (services/sql/bookingSyncSqlService.js) stretches and cuts the   *)
(* blocks and the fleet status follows the reservations.                   *)
(*                                                                         *)
(* How a hold is paid for is BookingFinalization; here a hold is confirmed *)
(* in one step.                                                            *)
(***************************************************************************)
EXTENDS ReservationStatus, CarCalendar, FiniteSets

CONSTANTS
    Rids,           \* reservation rows
    Oids,           \* order rows
    Clerks,         \* edits and calendar moves that may be in flight at once
    Trips,          \* the ranges guests and staff may ask for
    StaffStatuses,  \* target statuses the staff uses
    FleetChoices,   \* fleet statuses the staff sets by hand
    Forces,         \* whether calendar moves are forced: subset of BOOLEAN
    MaxTime,        \* bound: the last instant
    MaxManual,      \* bound: manual blocks at once
    MaxAsked,       \* bound: edits and calendar moves in a behaviour
    NoRid, NoOid

ASSUME DeskTripsAssumption == Trips \subseteq Ranges /\ Trips # {}
\* The whitelist of the staff's endpoint, and what a refund sets.  Confirming is
\* an operation of its own: Confirm, or for a review BookingFinalization.
ASSUME DeskStaffAssumption ==
    StaffStatuses \subseteq (AdminOpsStatuses \ {"confirmed"}) \cup {"refunded"}
ASSUME DeskForceAssumption == Forces \subseteq BOOLEAN
ASSUME DeskNamesAssumption == NoRid \notin Rids /\ NoOid \notin Oids
ASSUME DeskBoundAssumption == {MaxTime, MaxManual, MaxAsked} \subseteq Nat

FleetStatuses == {"available", "reserved", "rented", "needs_cleaning"}
ASSUME DeskFleetAssumption == FleetChoices \subseteq FleetStatuses

VARIABLES
    now,        \* the clock
    res,        \* reservations: status and trip
    orders,     \* orders: live or soft-deleted, linked reservation, trip
    blocks,     \* car_date_blocks, with their block_type
    fleet,      \* cars.status
    clerk,      \* edits and moves between their read and their commit
    asked,      \* edits and moves so far
    astray      \* history: reservations a recorded accident has touched

rows == <<res, orders, blocks, fleet, astray>>
desk == <<clerk, asked>>
vars == <<now, rows, desk>>

-----------------------------------------------------------------------------
(* Types *)

SomeTrip == CHOOSE t \in Trips : TRUE

Rows == [status : Statuses \cup {"none"}, trip : Trips]
Docs == [state : {"none", "live", "deleted"}, rid : Rids \cup {NoRid},
         trip : Trips]

NoRow == [status |-> "none", trip |-> SomeTrip]
NoDoc == [state |-> "none", rid |-> NoRid, trip |-> SomeTrip]

Requests ==
    [pc : {"idle", "edit", "sync", "move"}, oid : Oids \cup {NoOid}, doc : Docs,
     rid : Rids \cup {NoRid}, row : Rows, goal : Trips, force : BOOLEAN]

Idle == [pc |-> "idle", oid |-> NoOid, doc |-> NoDoc, rid |-> NoRid,
         row |-> NoRow, goal |-> SomeTrip, force |-> FALSE]

Blocks == {b \in [car : Cars, from : Nat, to : Nat, kind : {"booking", "manual"}] :
             b.from < b.to}

TypeOK ==
    /\ now    \in Nat
    /\ res    \in [Rids -> Rows]
    /\ orders \in [Oids -> Docs]
    /\ blocks \in SUBSET Blocks
    /\ fleet  \in [Cars -> FleetStatuses]
    /\ clerk  \in [Clerks -> Requests]
    /\ asked  \in Nat
    /\ astray \in SUBSET Rids

Init ==
    /\ now = 0
    /\ res = [r \in Rids |-> NoRow]
    /\ orders = [o \in Oids |-> NoDoc]
    /\ blocks = {}
    /\ fleet = [c \in Cars |-> "available"]
    /\ clerk = [k \in Clerks |-> Idle]
    /\ asked = 0
    /\ astray = {}

-----------------------------------------------------------------------------
(* Looking at the rows *)

Out(r)      == res[r].status \in OpenRentalStatuses
Upcoming(r) == res[r].status \in {"confirmed", "car_prepared"}
Booked(r)   == Out(r) \/ Upcoming(r)

\* findOpenPhysicalRental, without the reservation it may exclude.
OpenRental(c, except) == \E r \in Rids \ {except} : Out(r) /\ res[r].trip.car = c

\* findOverlappingHold.
HoldOn(t, except) ==
    \E r \in Rids \ {except} :
        res[r].status \in ActiveHoldStatuses /\ Overlaps(res[r].trip, t)

BlockOf(t) == [car |-> t.car, from |-> t.from, to |-> t.to, kind |-> "booking"]

SameRange(b, t) == b.car = t.car /\ b.from = t.from /\ b.to = t.to

\* The block of a reservation: its dates, or more while the car is out.
OwnBlock(b, r) ==
    /\ b.kind = "booking" /\ b.car = res[r].trip.car /\ b.from = res[r].trip.from
    /\ b.to = res[r].trip.to \/ (Out(r) /\ b.to >= res[r].trip.to)

OwnsBlock(r) == \E b \in blocks : OwnBlock(b, r)

\* The bookings that are promised a block, and keep it unless an accident
\* takes it.
Holding(r) == Out(r) \/ (Upcoming(r) /\ now < res[r].trip.to)

\* Accident: a request about q looks for "the" block in the range t, where q
\* need not have one: it may find the block of another booking that reaches
\* into t.
Robbed(q, t) ==
    {r \in Rids \ {q} :
        /\ Booked(r) /\ res[r].trip.car = t.car /\ res[r].trip.from < t.to
        /\ Out(r) \/ t.from < res[r].trip.to}

\* The cars a request has locked (acquireCarAdvisoryLocks) and the order row
\* it has written but not committed.
CarsOf(k)      == {clerk[k].doc.trip.car, clerk[k].goal.car}
Locked(c)      == \E k \in Clerks : clerk[k].pc = "sync" /\ c \in CarsOf(k)
OrderLocked(o) == \E k \in Clerks : clerk[k].pc = "sync" /\ clerk[k].oid = o

-----------------------------------------------------------------------------
(* purgeExpired *)

Later(a, b)   == IF a < b THEN b ELSE a
Earlier(a, b) == IF a < b THEN a ELSE b

\* The block overlaps the dates of a rental that is out.
Guarded(b) == \E r \in Rids : Out(r) /\ Overlaps(b, res[r].trip)

\* Mutant: without GREATEST.
Extended_Shrinks(b) == IF Guarded(b) THEN [b EXCEPT !.to = now + 1] ELSE b

\* extendOpenPhysicalRentalBlocks.
Extended(b) == IF Guarded(b) THEN [b EXCEPT !.to = Later(b.to, now + 1)] ELSE b

\* Reservations that are not out and whose return has passed, whatever their
\* status, and that overlap the block.
ClosedOn(b) ==
    {r \in Rids : /\ res[r].status \notin OpenRentalStatuses \cup {"none"}
                  /\ res[r].trip.to <= now /\ Overlaps(b, res[r].trip)}

\* clampClosedPhysicalRentalBlocks: cut to the latest of their returns.
Clamped(b) ==
    IF Guarded(b) \/ ClosedOn(b) = {} THEN b
    ELSE LET last == CHOOSE r \in ClosedOn(b) :
                        \A q \in ClosedOn(b) : res[q].trip.to <= res[r].trip.to
         IN  [b EXCEPT !.to = Earlier(b.to, res[last].trip.to)]

\* Mutant: the guard of open rentals is left out.
Ended_Unguarded(b) == b.to <= now

\* What the purge deletes.
Ended(b) == b.to <= now /\ ~Guarded(b)

\* Stretching the blocks of these cars violates no_overlapping_car_blocks.
\* Inside a transaction the failed statement aborts the transaction.
Jammed(cars) ==
    \E a, b \in blocks : a.car \in cars /\ a # b /\ Overlaps(Extended(a), b)

Purged(cars) ==
    {b \in blocks : b.car \notin cars} \cup
    {b \in {Clamped(Extended(a)) : a \in {x \in blocks : x.car \in cars}} : ~Ended(b)}

\* The purge on its own, each statement committed by itself: a jam is only
\* the loss of the first statement.
PurgedAlone ==
    IF Jammed(Cars) THEN {b \in {Clamped(a) : a \in blocks} : ~Ended(b)}
    ELSE Purged(Cars)

\* Accident: the purge of a booking that was not picked up, at the return of
\* an earlier reservation that had overlapping dates.
Clipped(cars) ==
    {r \in Rids :
        /\ Upcoming(r) /\ res[r].trip.car \in cars /\ now < res[r].trip.to
        /\ \E q \in Rids : /\ res[q].status # "none" /\ ~Out(q)
                           /\ res[q].trip.to <= now
                           /\ Overlaps(res[q].trip, res[r].trip)}

-----------------------------------------------------------------------------
(* Reservation statuses, and the fleet status that follows them *)

ActiveFleet == {"confirmed", "car_prepared"} \cup OpenRentalStatuses

\* Mutant: frees the car whatever its status.
FreesCar_Always(c, r) ==
    ~ \E q \in Rids \ {r} : res[q].status = "confirmed" /\ res[q].trip.car = c

\* The end of r makes a reserved car available: nothing else needs it.
FreesCar(c, r) ==
    /\ fleet[c] = "reserved"
    /\ ~ \E q \in Rids \ {r} : res[q].status \in ActiveFleet /\ res[q].trip.car = c

\* syncCarStatusFromReservation.
FleetAfter(r, new) ==
    LET c == res[r].trip.car IN
    [fleet EXCEPT ![c] =
        CASE new \in OpenRentalStatuses -> "rented"
          [] new = "returned" -> "needs_cleaning"
          [] new \in {"confirmed", "car_prepared"} /\ @ = "available" -> "reserved"
          [] new \in {"cancelled", "no_show", "expired", "completed"}
                /\ FreesCar(c, r) -> "available"
          [] OTHER -> @]

\* Mutant: a refund leaves the order.
OrdersWithout_Forgets(r) == orders

\* softDeleteOrderForReservation.
OrdersWithout(r) ==
    [o \in Oids |-> IF orders[o].rid = r /\ orders[o].state = "live"
                    THEN [orders[o] EXCEPT !.state = "deleted"] ELSE orders[o]]

\* Accident: the car is handed over after the dates, and the block, are gone.
LatePickup(r, new) ==
    IF new = "picked_up" /\ now >= res[r].trip.to THEN {r} ELSE {}

\* A status is written, with the calendar and the order that go with it; a
\* release waits for an order row that an edit has written.
WriteStatus(r, new) ==
    /\ res[r].status # new /\ CanTransition(res[r].status, new)
    /\ res' = [res EXCEPT ![r].status = new]
    /\ IF new \in ReleasingStatuses
       THEN /\ blocks' = ReleaseRange(blocks, res[r].trip)
            /\ astray' = astray \cup (IF r \in astray \/ ~Holding(r)
                                     THEN Robbed(r, res[r].trip) ELSE {})
       ELSE /\ astray' = astray \cup LatePickup(r, new)
            /\ UNCHANGED blocks
    /\ IF new \in {"cancelled", "refunded"}
       THEN /\ \A o \in Oids : orders[o].rid = r => ~OrderLocked(o)
            /\ orders' = OrdersWithout(r)
       ELSE UNCHANGED orders

\* changeStatus: the car's status follows.
ChangeStatus(r, new) ==
    /\ WriteStatus(r, new)
    /\ fleet' = FleetAfter(r, new)

\* The staff picks the next status of a reservation.
StaffStatus(r, new) ==
    /\ new \in StaffStatuses
    /\ ChangeStatus(r, new)
    /\ UNCHANGED <<now, desk>>

\* The hold lapsed.  The statements that expire holds leave the car as it is;
\* only the job that finds the payment session expired goes by changeStatus.
HoldEnds(r) ==
    /\ res[r].status \in ActiveHoldStatuses
    /\ WriteStatus(r, "expired")
    /\ fleet' = fleet \/ fleet' = FleetAfter(r, "expired")
    /\ UNCHANGED <<now, desk>>

\* A guest takes a hold; nothing is purged on this path.
HoldPlaced(r, t) ==
    /\ res[r].status = "none" /\ ~Locked(t.car)
    /\ ~HoldOn(t, NoRid) /\ ~OpenRental(t.car, NoRid) /\ Free(blocks, t)
    /\ res' = [res EXCEPT ![r] = [status |-> "pending_payment", trip |-> t]]
    /\ UNCHANGED <<now, orders, blocks, fleet, desk, astray>>

\* Mutant: any reservation that is not booked.
Payable_Any(r) == res[r].status # "none" /\ ~Booked(r)

\* What a completed payment can confirm.
Payable(r) == res[r].status \in ActiveHoldStatuses \cup {"expired"}

\* A payment is finalized, late payments included: block, order, status.
Confirm(r, o) ==
    LET t == res[r].trip IN
    /\ Payable(r)
    /\ orders[o].state = "none" /\ \A x \in Oids : orders[x].rid # r
    /\ ~Locked(t.car) /\ ~Jammed({t.car}) /\ Free(Purged({t.car}), t)
    /\ res' = [res EXCEPT ![r].status = "confirmed"]
    /\ fleet' = FleetAfter(r, "confirmed")
    /\ orders' = [orders EXCEPT ![o] = [state |-> "live", rid |-> r, trip |-> t]]
    /\ blocks' = Purged({t.car}) \cup {BlockOf(t)}
    /\ astray' = astray \cup Clipped({t.car})
    /\ UNCHANGED <<now, desk>>

-----------------------------------------------------------------------------
(* Orders *)

\* createOrderCore: reservation, order and block in one transaction.
CreateOrder(r, o, t) ==
    /\ res[r].status = "none" /\ orders[o].state = "none"
    /\ ~Locked(t.car) /\ ~Jammed({t.car})
    /\ ~OpenRental(t.car, NoRid) /\ ~HoldOn(t, NoRid) /\ Free(Purged({t.car}), t)
    /\ res' = [res EXCEPT ![r] = [status |-> "confirmed", trip |-> t]]
    /\ orders' = [orders EXCEPT ![o] = [state |-> "live", rid |-> r, trip |-> t]]
    /\ blocks' = Purged({t.car}) \cup {BlockOf(t)}
    /\ astray' = astray \cup Clipped({t.car})
    /\ UNCHANGED <<now, fleet, desk>>

\* deleteOrder: the linked reservation is cancelled, and takes the order along.
DeleteOrder(o) ==
    /\ orders[o].state = "live"
    /\ ChangeStatus(orders[o].rid, "cancelled")
    /\ UNCHANGED <<now, desk>>

\* The link of a restored order: a cancelled reservation is replaced by a new
\* confirmed one; one in any other status is kept.
RestoredLink(o, new) ==
    IF res[orders[o].rid].status = "cancelled" THEN new ELSE orders[o].rid

\* restoreOrder.  Accident: it restores the order and the block, but not the
\* status, of a reservation that ended in any other way.
RestoreOrder(o, new) ==
    LET t == orders[o].trip
        r == RestoredLink(o, new)
    IN
    /\ orders[o].state = "deleted" /\ res[new].status = "none"
    /\ ~Locked(t.car) /\ ~OrderLocked(o)
    /\ ~HoldOn(t, NoRid) /\ ~OpenRental(t.car, orders[o].rid)
    /\ ~Jammed({t.car}) /\ Free(Purged({t.car}), t)
    /\ blocks' = Purged({t.car}) \cup {BlockOf(t)}
    /\ orders' = [orders EXCEPT ![o].state = "live", ![o].rid = r]
    /\ res' = IF r = new
              THEN [res EXCEPT ![r] = [status |-> "confirmed", trip |-> t]]
              ELSE [res EXCEPT ![r].trip = t]
    /\ astray' = astray \cup Clipped({t.car})
                        \cup (IF r = new THEN {} ELSE {r})
    /\ UNCHANGED <<now, fleet, desk>>

\* updateOrder reads the order before it has the cars' locks; a deleted order
\* can be edited as well.
EditRead(k, o, t) ==
    /\ clerk[k].pc = "idle" /\ asked < MaxAsked /\ orders[o].state # "none"
    /\ clerk' = [clerk EXCEPT ![k] = [pc |-> "edit", oid |-> o, doc |-> orders[o],
                    rid |-> orders[o].rid, row |-> NoRow, goal |-> t,
                    force |-> FALSE]]
    /\ asked' = asked + 1
    /\ UNCHANGED <<now, rows>>

\* Mutant: the block of the old dates is not deleted.
EditRest_KeepsOld(k) == Purged(CarsOf(k))

\* The blocks after an edit that moves the order: resolveStoredDateRange, then
\* updateRange or moveRange, which purge first and delete by exact endpoints.
EditRest(k) ==
    {b \in Purged(CarsOf(k)) :
        \A s \in StoredRange(blocks, clerk[k].doc.trip) : ~SameRange(b, s)}

Moves(k) == clerk[k].goal # clerk[k].doc.trip

\* Under the locks the order row is written and the reservation is read,
\* without a lock on it.
EditSync(k) ==
    /\ clerk[k].pc = "edit"
    /\ \A c \in CarsOf(k) : ~Locked(c)
    /\ ~OrderLocked(clerk[k].oid)
    /\ Moves(k) => /\ ~HoldOn(clerk[k].goal, NoRid)
                   /\ ~OpenRental(clerk[k].goal.car, clerk[k].rid)
                   /\ ~Jammed(CarsOf(k)) /\ Free(EditRest(k), clerk[k].goal)
    /\ clerk' = [clerk EXCEPT ![k].pc = "sync", ![k].row = res[clerk[k].rid]]
    /\ UNCHANGED <<now, rows, asked>>

\* Accidents of an edit or a move: the rows were changed since they were read,
\* or the reservation is not a booking whose block has its endpoints (it is no
\* booking any more, or its block was purged or stretched).
Sound(k) ==
    LET r == clerk[k].rid IN
    r \notin astray /\ clerk[k].row = res[r] /\ Holding(r) /\ now < res[r].trip.to

EditSound(k) == Sound(k) /\ clerk[k].doc = orders[clerk[k].oid]
                         /\ clerk[k].doc.state = "live"

\* syncLinkedReservationAfterOrderUpdate writes the whole reservation row, and
\* the transaction commits.
EditCommit(k) ==
    LET e == clerk[k] IN
    /\ e.pc = "sync"
    /\ Moves(k) => ~Jammed(CarsOf(k)) /\ Free(EditRest(k), e.goal)
    /\ orders' = [orders EXCEPT ![e.oid] = [e.doc EXCEPT !.trip = e.goal]]
    /\ res' = [res EXCEPT ![e.rid] = [e.row EXCEPT !.trip = e.goal]]
    /\ IF Moves(k)
       THEN /\ blocks' = EditRest(k) \cup {BlockOf(e.goal)}
            /\ astray' = astray \cup Clipped(CarsOf(k)) \cup
                  IF EditSound(k) THEN {}
                  ELSE {e.rid, orders[e.oid].rid} \cup Robbed(e.rid, e.doc.trip)
       ELSE /\ astray' = astray \cup
                  IF EditSound(k) THEN {} ELSE {e.rid, orders[e.oid].rid}
            /\ UNCHANGED blocks
    /\ clerk' = [clerk EXCEPT ![k] = Idle]
    /\ UNCHANGED <<now, fleet, asked>>

\* The request is refused, fails, or is the victim of a deadlock with a
\* cancellation that waits for the order row: rolled back.
GiveUp(k) ==
    /\ clerk[k].pc # "idle"
    /\ clerk' = [clerk EXCEPT ![k] = Idle]
    /\ UNCHANGED <<now, rows, asked>>

-----------------------------------------------------------------------------
(* The staff calendar *)

Soft(b) == b.kind = "manual"

\* moveOrResizeEvent reads the reservation and checks conflicts before its
\* transaction.  No status is excluded.
MoveRead(k, r, t, force) ==
    /\ clerk[k].pc = "idle" /\ asked < MaxAsked /\ res[r].status # "none"
    /\ ~HoldOn(t, r) /\ ~OpenRental(t.car, r)
    /\ force \/ \A b \in blocks : Soft(b) => ~Overlaps(b, t)
    /\ clerk' = [clerk EXCEPT ![k] = [pc |-> "move", oid |-> NoOid, doc |-> NoDoc, rid |-> r,
                    row |-> res[r], goal |-> t, force |-> force]]
    /\ asked' = asked + 1
    /\ UNCHANGED <<now, rows>>

\* updateRange or moveRange from the dates read; a forced move clears manual
\* blocks that are in the way.
MoveRest(k) ==
    LET m    == clerk[k]
        rest == {b \in Purged({m.row.trip.car, m.goal.car}) : ~SameRange(b, m.row.trip)}
    IN  IF m.force /\ ~Free(rest, m.goal)
        THEN {b \in rest : Soft(b) => ~Overlaps(b, m.goal)} ELSE rest

\* The transaction of the move: the live order and the whole reservation row
\* are written, the row with the columns that were read.
MoveCommit(k) ==
    LET m    == clerk[k]
        cars == {m.row.trip.car, m.goal.car}
    IN
    /\ m.pc = "move"
    /\ \A c \in cars : ~Locked(c)
    /\ \A o \in Oids : orders[o].rid = m.rid => ~OrderLocked(o)
    /\ ~HoldOn(m.goal, m.rid) /\ ~OpenRental(m.goal.car, m.rid)
    /\ ~Jammed(cars) /\ Free(MoveRest(k), m.goal)
    /\ blocks' = MoveRest(k) \cup {BlockOf(m.goal)}
    /\ res' = [res EXCEPT ![m.rid] = [m.row EXCEPT !.trip = m.goal]]
    /\ orders' = [o \in Oids |->
                    IF orders[o].rid = m.rid /\ orders[o].state = "live"
                    THEN [orders[o] EXCEPT !.trip = m.goal] ELSE orders[o]]
    /\ astray' = astray \cup Clipped(cars) \cup
          IF Sound(k) THEN {} ELSE {m.rid} \cup Robbed(m.rid, m.row.trip)
    /\ clerk' = [clerk EXCEPT ![k] = Idle]
    /\ UNCHANGED <<now, fleet, asked>>

ManualBlock(t) == [BlockOf(t) EXCEPT !.kind = "manual"]

\* createManualEvent; force cannot get past the exclusion constraint.
BlockCreate(t) ==
    /\ ~Locked(t.car) /\ ~HoldOn(t, NoRid) /\ ~OpenRental(t.car, NoRid)
    /\ Free(blocks, t) /\ Cardinality({b \in blocks : Soft(b)}) < MaxManual
    /\ blocks' = blocks \cup {ManualBlock(t)}
    /\ UNCHANGED <<now, res, orders, fleet, desk, astray>>

\* updateManualEvent and the move of a block.
BlockMove(b, t) ==
    /\ Soft(b) /\ ~Locked(b.car) /\ ~Locked(t.car)
    /\ ~HoldOn(t, NoRid) /\ ~OpenRental(t.car, NoRid) /\ Free(blocks \ {b}, t)
    /\ blocks' = (blocks \ {b}) \cup {ManualBlock(t)}
    /\ UNCHANGED <<now, res, orders, fleet, desk, astray>>

\* deleteManualEvent.
BlockDelete(b) ==
    /\ Soft(b)
    /\ blocks' = blocks \ {b}
    /\ UNCHANGED <<now, res, orders, fleet, desk, astray>>

-----------------------------------------------------------------------------
(* Time, the purge, the fleet *)

Tick ==
    /\ now < MaxTime
    /\ now' = now + 1
    /\ UNCHANGED <<rows, desk>>

\* Listing cars purges the calendar, outside any transaction.
Purge ==
    /\ blocks' = PurgedAlone
    /\ astray' = astray \cup Clipped(Cars)
    /\ UNCHANGED <<now, res, orders, fleet, desk>>

\* changeFleetStatus: the staff sets the car's status by hand.
SetFleet(c, s) ==
    /\ s \in FleetChoices
    /\ fleet' = [fleet EXCEPT ![c] = s]
    /\ UNCHANGED <<now, res, orders, blocks, desk, astray>>

Reservation(r) ==
    \/ \E s \in Statuses : StaffStatus(r, s)
    \/ HoldEnds(r)
    \/ \E t \in Trips : HoldPlaced(r, t)
    \/ \E o \in Oids : Confirm(r, o)
    \/ \E o \in Oids, t \in Trips : CreateOrder(r, o, t)
    \/ \E o \in Oids : RestoreOrder(o, r)

Clerk(k) ==
    \/ \E o \in Oids, t \in Trips : EditRead(k, o, t)
    \/ EditSync(k) \/ EditCommit(k) \/ GiveUp(k)
    \/ \E r \in Rids, t \in Trips, f \in Forces : MoveRead(k, r, t, f)
    \/ MoveCommit(k)

Next ==
    \/ \E r \in Rids : Reservation(r)
    \/ \E k \in Clerks : Clerk(k)
    \/ \E o \in Oids : DeleteOrder(o)
    \/ \E t \in Trips : BlockCreate(t)
    \/ \E b \in blocks : BlockDelete(b) \/ \E t \in Trips : BlockMove(b, t)
    \/ Tick \/ Purge
    \/ \E c \in Cars, s \in FleetChoices : SetFleet(c, s)

Spec == Init /\ [][Next]_vars

-----------------------------------------------------------------------------
(* Properties *)

\* A booking keeps its own block, with its exact dates, until it is released
\* or its time is over; and while the car is out, for however long, the purge
\* never takes it (orders, calendar, purge: services/sql/bookingSyncSqlService.js).
BookingOwnsBlock ==
    \A r \in Rids \ astray : Holding(r) => OwnsBlock(r)

\* A live order has the dates of its reservation, which was not cancelled or
\* refunded: edits, moves, deletions and restores keep the two rows together.
OrderFollowsReservation ==
    \A o \in Oids : orders[o].state = "live" /\ orders[o].rid \notin astray =>
        /\ orders[o].trip = res[orders[o].rid].trip
        /\ res[orders[o].rid].status \in OpsStatuses \cup {"no_show"}

\* Until an accident happens, every booking block on the calendar belongs to a
\* reservation that was confirmed and not released: no edit, move, restore,
\* cancellation or purge leaves a ghost behind that nobody can delete.
NoGhostBlock ==
    astray = {} => \A b \in blocks : b.kind = "booking" =>
        \E r \in Rids : /\ res[r].status \in OpsStatuses
                        /\ res[r].trip.car = b.car /\ res[r].trip.from = b.from

\* A status goes against the lifecycle graph only when a full-row write puts
\* back what was read before a concurrent change (orderReservationSync.js,
\* calendarMoveService.js).  A payment takes a hold to confirmed at once.
StatusByGraph ==
    [][\A r \in Rids \ astray' :
          LET old == res[r].status
              new == res'[r].status
          IN  \/ old = "none" \/ CanTransition(old, new)
              \/ /\ old \in ActiveHoldStatuses \cup {"expired"}
                 /\ new = "confirmed"]_vars

\* A car that stays out is marked rented until one of its rentals is returned
\* or the staff writes the car itself: no cancellation, preparation, edit or
\* sweep of another reservation gives it free.  The staff's writes (SetFleet)
\* are not guarded: they include the car form, which writes back the status it
\* was opened with, and a damage report.
OutStaysRented ==
    [][\A r \in Rids :
        LET c == res[r].trip.car IN
        (Out(r) /\ Out(r)' /\ res'[r].trip.car = c /\ fleet[c] = "rented") =>
            \/ fleet'[c] = "rented"
            \/ \E q \in Rids : Out(q) /\ res[q].trip.car = c
                                 /\ res'[q].status = "returned"
            \/ \E s \in FleetChoices : SetFleet(c, s)]_vars
=============================================================================
