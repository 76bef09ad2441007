----------------------- MODULE BookingPayment_proofs -----------------------
(***************************************************************************)
(* The money of a booking: a session the guest can pay is the one its      *)
(* reservation is linked to, and an order exists only for money that was   *)
(* paid for that very reservation.                                         *)
(***************************************************************************)
EXTENDS BookingSafety_proofs

-----------------------------------------------------------------------------
(* The inductive invariant *)

\* Session s was paid, for reservation r.
PaidFor(s, r) == SessionIn(s, {"paid"}) /\ stripe[s].rid = r

\* The statuses that a reservation reaches only by its payment.
PaidStatuses ==
    Statuses \ (ActiveHoldStatuses \cup {"cancelled", "expired"})

\* A session is created for a reservation that exists.
SessionsKnown ==
    \A s \in Sids : stripe[s].state # "none" =>
        stripe[s].rid \in Rids /\ res[stripe[s].rid].status # "none"

\* A reservation is linked only to a session of its own, which the guest has
\* been sent to.
LinkedIsOwn ==
    \A r \in Rids : res[r].sid # NoSid =>
        /\ SessionIn(res[r].sid, {"open", "paid", "expired"})
        /\ stripe[res[r].sid].rid = r

\* Between superseding the previous session and linking the new one the
\* reservation is linked to none, and the new one cannot be paid yet.
CheckoutInv ==
    \A r \in Rids :
        /\ checkout[r].pc # "idle" => res[r].status # "none"
        /\ checkout[r].pc \in {"create", "link"} => res[r].sid = NoSid
        /\ checkout[r].pc = "link" =>
               /\ SessionIn(checkout[r].sid, {"created"})
               /\ stripe[checkout[r].sid].rid = r

LinkInv == SessionsKnown /\ PayableIsLinked /\ LinkedIsOwn /\ CheckoutInv

\* Whatever acts on a payment acts on one that was made for its reservation:
\* a finalization in flight; the status the payment led to, and a refund of
\* it; a staff member who confirms a manual review; an order, kept or deleted.
MoneyInv ==
    /\ \A p \in Procs : fin[p].pc # "idle" => PaidFor(fin[p].sid, fin[p].rid)
    /\ \A r \in Rids : (res[r].status \in PaidStatuses \/ refunds[r] # "none")
                           => PaidFor(res[r].sid, r)
    /\ \A r \in Rids : staff[r].path = "review" => PaidFor(staff[r].sid, r)
    /\ \A r \in Rids : orders[r].state # "none" => PaidFor(orders[r].sid, r)

PayInv == LinkInv /\ MoneyInv

\* At the start there are no sessions, and nobody acts on any.
LEMMA PayInit == Init => PayInv
<1> SUFFICES ASSUME Init PROVE PayInv
  OBVIOUS
<1>1. LinkInv
  BY DEF Init, LinkInv, SessionsKnown, PayableIsLinked, LinkedIsOwn,
         CheckoutInv, IdleCheckout
<1>2. "none" \notin PaidStatuses
  BY StatusFacts DEF PaidStatuses
<1>3. MoneyInv
  BY <1>2 DEF Init, MoneyInv, IdleFin, IdleStaff
<1> QED
  BY <1>1, <1>3 DEF PayInv

-----------------------------------------------------------------------------
(* Facts about statuses and rows *)

\* Which statuses the payment leads to.
LEMMA PaidStatusFacts ==
    /\ OpsStatuses \cup {"paid", "manual_review", "no_show", "refunded"}
           \subseteq PaidStatuses
    /\ RefundableStatuses \subseteq PaidStatuses
    /\ {"none", "cancelled", "expired", "pending_payment",
        "processing_payment"} \cap PaidStatuses = {}
BY DEF PaidStatuses, Statuses, OpsStatuses, ActiveHoldStatuses,
       RefundableStatuses

\* The payment of a hold, or of one that ended, is the only way in.
LEMMA PaidEdges ==
    ASSUME NEW old, NEW new, CanTransition(old, new), new \in PaidStatuses,
           new \notin {"paid", "manual_review"}
    PROVE  old \in PaidStatuses
BY DEF CanTransition, Transitions, PaidStatuses, Statuses, OpsStatuses,
       ActiveHoldStatuses

\* Statuses and the other columns change without the session id.
LEMMA SidKept ==
    ASSUME NEW row \in Rows, NEW new
    PROVE  /\ InStatus(row, new).sid = row.sid
           /\ \A c : [row EXCEPT !.price = c].sid = row.sid
           /\ \A c : [row EXCEPT !.live = TRUE, !.price = c].sid = row.sid
           /\ [row EXCEPT !.live = FALSE].sid = row.sid
BY Zenon DEF InStatus, Rows

\* Linking sets the session id and nothing else.
LEMMA SidSet ==
    ASSUME NEW row \in Rows, NEW s \in MaybeSid
    PROVE  /\ [row EXCEPT !.sid = s].sid = s
           /\ [row EXCEPT !.sid = s].status = row.status
BY Zenon DEF Rows

\* Expiring stale holds keeps the session ids.
LEMMA ExpireStaleSid ==
    ASSUME TypeOK, NEW cars
    PROVE  \A r \in Rids : ExpireStale(cars)[r].sid = res[r].sid
<1>1. \A r \in Rids : InStatus(res[r], "expired").sid = res[r].sid
  BY SidKept DEF TypeOK
<1> QED
  BY <1>1 DEF ExpireStale

-----------------------------------------------------------------------------
(* Steps that leave the sessions and the links alone *)

\* No row is linked otherwise or disappears, and what its payment led to was
\* paid before.
RowsCalm ==
    \A x \in Rids :
        /\ res'[x].sid = res[x].sid
        /\ res[x].status # "none" => res'[x].status # "none"
        /\ res'[x].status \in PaidStatuses => PaidFor(res[x].sid, x)

\* Checkout requests begin on a row that exists, or end.
CheckoutsCalm ==
    \A x \in Rids :
        \/ checkout'[x] = checkout[x]
        \/ checkout'[x].pc = "idle"
        \/ checkout'[x].pc = "prepared" /\ res'[x].status # "none"

\* Orders only ever carry a session that was paid for their reservation.
OrdersCalm ==
    \A x \in Rids : orders'[x].state # "none" => PaidFor(orders'[x].sid, x)

RefundsCalm == \A x \in Rids : refunds'[x] # "none" => PaidFor(res[x].sid, x)

\* Finalizations and staff act on what was paid before.
ActorsCalm ==
    /\ \A p \in Procs : fin'[p].pc # "idle"
           => PaidFor(fin'[p].sid, fin'[p].rid)
    /\ \A x \in Rids : staff'[x].path = "review" => PaidFor(staff'[x].sid, x)

Calm == /\ stripe' = stripe
        /\ RowsCalm /\ CheckoutsCalm /\ OrdersCalm /\ RefundsCalm
        /\ ActorsCalm

\* Such a step keeps the invariant.
LEMMA CalmKeeps ==
    ASSUME TypeInv, PayInv, Calm
    PROVE  PayInv'
<1>1. \A s, r : PaidFor(s, r) => PaidFor(s, r)'
  BY DEF Calm, PaidFor, SessionIn
<1>2. MoneyInv'
  <2>1. \A p \in Procs : fin'[p].pc # "idle" => PaidFor(fin[p].sid, fin[p].rid)'
    BY DEF Calm, ActorsCalm, PaidFor, SessionIn
  <2>2. \A r \in Rids :
            (res'[r].status \in PaidStatuses \/ refunds'[r] # "none")
                => PaidFor(res[r].sid, r)'
    BY DEF Calm, RowsCalm, RefundsCalm, PaidFor, SessionIn
  <2>3. \A r \in Rids : staff'[r].path = "review" => PaidFor(staff[r].sid, r)'
    BY DEF Calm, ActorsCalm, PaidFor, SessionIn
  <2>4. \A r \in Rids : orders'[r].state # "none" => PaidFor(orders[r].sid, r)'
    BY DEF Calm, OrdersCalm, PaidFor, SessionIn
  <2> QED
    BY <2>1, <2>2, <2>3, <2>4 DEF MoneyInv
<1>3. SessionsKnown' /\ PayableIsLinked'
  BY DEF PayInv, LinkInv, Calm, RowsCalm, SessionsKnown, PayableIsLinked
<1>4. LinkedIsOwn'
  BY DEF PayInv, LinkInv, Calm, RowsCalm, LinkedIsOwn, SessionIn
<1>5. CheckoutInv'
  BY DEF PayInv, LinkInv, Calm, RowsCalm, CheckoutsCalm, CheckoutInv,
         SessionIn
<1> QED
  BY <1>2, <1>3, <1>4, <1>5 DEF PayInv, LinkInv

\* What a step leaves unchanged is calm.
LEMMA UnchangedCalm ==
    ASSUME TypeInv, PayInv
    PROVE  /\ res' = res => RowsCalm
           /\ checkout' = checkout => CheckoutsCalm
           /\ orders' = orders => OrdersCalm
           /\ refunds' = refunds => RefundsCalm
           /\ fin' = fin /\ staff' = staff => ActorsCalm
BY DEF PayInv, MoneyInv, RowsCalm, CheckoutsCalm, OrdersCalm, RefundsCalm,
       ActorsCalm

\* A row that keeps its session id is calm when it gets a status that its
\* payment did not have to earn.
LEMMA RowCalm ==
    ASSUME TypeInv, PayInv, NEW r \in Rids, NEW row \in Rows,
           NEW new \in Statuses, row.sid = res[r].sid,
           res' = [res EXCEPT ![r] = InStatus(row, new)],
           new \in PaidStatuses => PaidFor(res[r].sid, r)
    PROVE  RowsCalm
<1> DEFINE out == InStatus(row, new)
<1>1. out.sid = res[r].sid /\ out.status = new
  BY SidKept, InStatusType
<1>2. new # "none"
  BY StatusFacts
<1>3. \A x \in Rids : res[x].status \in PaidStatuses => PaidFor(res[x].sid, x)
  BY DEF PayInv, MoneyInv
<1>4. res' = [res EXCEPT ![r] = out] /\ res \in [Rids -> Rows]
  BY DEF TypeInv, TypeOK
<1> HIDE DEF out
<1>5. res'[r] = out /\ \A x \in Rids \ {r} : res'[x] = res[x]
  BY <1>4
<1> QED
  BY <1>1, <1>2, <1>3, <1>5 DEF RowsCalm

\* So is a status change, unless it is the one that the payment brings.
LEMMA ChangeCalm ==
    ASSUME TypeInv, PayInv, NEW r \in Rids, NEW row \in Rows,
           NEW new \in Statuses, row.sid = res[r].sid,
           ChangeStatus(r, new, row),
           new \in {"paid", "manual_review"} => PaidFor(res[r].sid, r)
    PROVE  RowsCalm /\ OrdersCalm
<1>1. new \in PaidStatuses => PaidFor(res[r].sid, r)
  <2>1. CanTransition(res[r].status, new)
    BY DEF ChangeStatus, MayChange
  <2> QED
    BY <2>1, PaidEdges DEF PayInv, MoneyInv
<1>2. RowsCalm
  BY <1>1, RowCalm DEF ChangeStatus
<1>3. OrdersCalm
  <2>1. \A x \in Rids : /\ orders'[x].sid = orders[x].sid
                        /\ orders'[x].state # "none"
                               => orders[x].state # "none"
    <3>1. CASE orders' = orders
      BY <3>1
    <3>2. CASE LiveOrder(r) /\ orders' = [orders EXCEPT ![r].state = "deleted"]
      BY <3>2 DEF LiveOrder, TypeInv, TypeOK
    <3> QED
      BY <3>1, <3>2 DEF ChangeStatus, OrdersAfterRelease
  <2> QED
    BY <2>1 DEF OrdersCalm, PayInv, MoneyInv
<1> QED
  BY <1>2, <1>3

-----------------------------------------------------------------------------
(* The steps *)

\* The steps of guests that hold a car.
LEMMA HoldPays ==
    ASSUME TypeInv, PayInv, NEW r \in Rids, HoldStep(r)
    PROVE  PayInv'
<1>0. res[r] \in Rows
  BY DEF TypeInv, TypeOK
<1>1. ASSUME NEW t \in Trips, NEW c \in Prices, NEW b \in BOOLEAN,
             CreateHold(r, t, c, b)
      PROVE  Calm
  <2> DEFINE hold == [status |-> "pending_payment", trip |-> t,
                      live |-> TRUE, sid |-> NoSid, price |-> c]
             swept == ExpireStale({t.car})
             request == [pc |-> "prepared", sid |-> NoSid, price |-> c,
                         car |-> t.car, new |-> TRUE]
  <2>1. res[r].sid = NoSid
    BY <1>0, <1>1
    DEF CreateHold, PayInv, LinkInv, LinkedIsOwn, SessionsKnown, SessionIn
  <2>2. \A x \in Rids :
            /\ swept[x].sid = res[x].sid
            /\ swept[x].status = res[x].status \/ swept[x].status = "expired"
            /\ res[x].status # "none" => swept[x].status # "none"
    BY ExpireStaleSid, ExpireStaleType DEF TypeInv
  <2>3. swept \in [Rids -> Rows]
    BY ExpireStaleType DEF TypeInv
  <2>4. hold.sid = NoSid /\ hold.status = "pending_payment"
    OBVIOUS
  <2>5. \/ res' = [swept EXCEPT ![r] = hold]
           /\ checkout' = [checkout EXCEPT ![r] = request]
        \/ res' = [swept EXCEPT ![r] = hold] /\ checkout' = checkout
        \/ res' = swept /\ checkout' = checkout
    BY <1>1 DEF CreateHold
  <2>6. request.pc = "prepared"
    OBVIOUS
  <2>7. /\ checkout \in [Rids -> Checkouts]
        /\ "pending_payment" \notin PaidStatuses
        /\ "expired" \notin PaidStatuses
        /\ \A x \in Rids : res[x].status \in PaidStatuses
                               => PaidFor(res[x].sid, x)
    BY PaidStatusFacts DEF TypeInv, TypeOK, PayInv, MoneyInv
  <2> HIDE DEF hold, swept, request
  <2>8. RowsCalm
    <3>1. CASE res' = swept
      BY <2>2, <2>7, <3>1 DEF RowsCalm
    <3>2. CASE res' = [swept EXCEPT ![r] = hold]
      <4>1. res'[r] = hold /\ \A x \in Rids \ {r} : res'[x] = swept[x]
        BY <2>3, <3>2
      <4> QED
        BY <2>1, <2>2, <2>4, <2>7, <4>1 DEF RowsCalm
    <3> QED
      BY <2>5, <3>1, <3>2
  <2>9. CheckoutsCalm
    <3>1. CASE checkout' = checkout
      BY <3>1 DEF CheckoutsCalm
    <3>2. CASE res' = [swept EXCEPT ![r] = hold]
               /\ checkout' = [checkout EXCEPT ![r] = request]
      <4>1. /\ checkout'[r] = request
            /\ \A x \in Rids \ {r} : checkout'[x] = checkout[x]
            /\ res'[r] = hold
        BY <2>3, <2>7, <3>2
      <4> QED
        BY <2>4, <2>6, <4>1 DEF CheckoutsCalm
    <3> QED
      BY <2>5, <3>1, <3>2
  <2> QED
    BY <1>1, <2>8, <2>9, UnchangedCalm DEF CreateHold, Calm, office
<1>2. ASSUME NEW t \in Trips, NEW c \in Prices, Rehold(r, t, c)
      PROVE  Calm
  <2> DEFINE swept == ExpireStale({t.car, res[r].trip.car})
  <2>1. \A x \in Rids :
            /\ swept[x].sid = res[x].sid
            /\ swept[x].status = res[x].status \/ swept[x].status = "expired"
            /\ res[x].status # "none" => swept[x].status # "none"
    BY ExpireStaleSid, ExpireStaleType DEF TypeInv
  <2>2. swept \in [Rids -> Rows]
    BY ExpireStaleType DEF TypeInv
  <2>3. \/ res' = [swept EXCEPT ![r].trip = t, ![r].price = c]
        \/ res' = swept
    BY <1>2 DEF Rehold
  <2> HIDE DEF swept
  <2>4. \A x \in Rids : res'[x].sid = swept[x].sid
                        /\ res'[x].status = swept[x].status
    <3>1. CASE res' = swept
      BY <3>1
    <3>2. CASE res' = [swept EXCEPT ![r].trip = t, ![r].price = c]
      <4> DEFINE row == [swept[r] EXCEPT !.trip = t, !.price = c]
      <4>1. row.sid = swept[r].sid /\ row.status = swept[r].status
        BY <2>2, Zenon DEF Rows
      <4>2. res' = [swept EXCEPT ![r] = row]
        BY <2>2, <3>2
      <4> HIDE DEF row
      <4> QED
        BY <2>2, <4>1, <4>2
    <3> QED
      BY <2>3, <3>1, <3>2
  <2>5. RowsCalm
    BY <2>1, <2>4, PaidStatusFacts DEF RowsCalm, PayInv, MoneyInv
  <2> QED
    BY <1>2, <2>5, UnchangedCalm DEF Rehold, Calm, guests, office
<1>3. ASSUME NEW c \in Prices, NEW seen \in ActiveHoldStatuses,
             RepriceHold(r, seen, c)
      PROVE  Calm
  <2> DEFINE row == [res[r] EXCEPT !.price = c]
  <2>1. row \in Rows /\ row.sid = res[r].sid
    BY <1>0, PatchType, SidKept
  <2>2. ChangeStatus(r, seen, row)
    BY <1>3 DEF RepriceHold
  <2>3. seen \in Statuses /\ seen \notin {"paid", "manual_review"}
    BY StatusFacts DEF ActiveHoldStatuses
  <2> HIDE DEF row
  <2>4. RowsCalm /\ OrdersCalm
    BY <2>1, <2>2, <2>3, ChangeCalm
  <2> QED
    BY <1>3, <2>4, UnchangedCalm DEF RepriceHold, Calm, guests, office
<1>4. CASE HoldLapses(r)
  <2> DEFINE row == [res[r] EXCEPT !.live = FALSE]
  <2>1. row.sid = res[r].sid /\ row.status = res[r].status
    BY <1>0, SidKept, PatchKeeps
  <2>2. res' = [res EXCEPT ![r] = row] /\ res \in [Rids -> Rows]
    BY <1>4 DEF HoldLapses, TypeInv, TypeOK
  <2> HIDE DEF row
  <2>3. \A x \in Rids : res'[x].sid = res[x].sid
                        /\ res'[x].status = res[x].status
    BY <2>1, <2>2
  <2>4. RowsCalm
    BY <2>3 DEF RowsCalm, PayInv, MoneyInv
  <2>5. Calm
    BY <1>4, <2>4, UnchangedCalm DEF HoldLapses, Calm, guests, office
  <2> QED
    BY <2>5, CalmKeeps
<1>5. CASE ReleaseRead(r)
  <2>1. Calm
    BY <1>5, UnchangedCalm DEF ReleaseRead, Calm, tables, office
  <2> QED
    BY <2>1, CalmKeeps
<1>6. CASE ReleaseAct(r)
  <2> DEFINE row == [res[r] EXCEPT !.live = FALSE]
  <2>1. row \in Rows /\ row.sid = res[r].sid
    BY <1>0, PatchType, SidKept
  <2>2. \/ ChangeStatus(r, "cancelled", row)
        \/ UNCHANGED <<res, blocks, orders, reviewed, gap>>
    BY <1>6 DEF ReleaseAct
  <2> HIDE DEF row
  <2>3. RowsCalm /\ OrdersCalm
    BY <2>1, <2>2, WrittenStatuses, ChangeCalm, UnchangedCalm
  <2>4. Calm
    BY <1>6, <2>3, UnchangedCalm DEF ReleaseAct, Calm, office
  <2> QED
    BY <2>4, CalmKeeps
<1> QED
  BY <1>1, <1>2, <1>3, <1>4, <1>5, <1>6, CalmKeeps DEF HoldStep

\* What a step that does change sessions or links leaves alone: a paid session
\* stays paid for the same reservation, which stays linked to it.
PaidKept ==
    /\ \A s \in Sids : stripe[s].state = "paid" =>
           stripe'[s].state = "paid" /\ stripe'[s].rid = stripe[s].rid
    /\ \A r \in Rids : SessionIn(res[r].sid, {"paid"}) =>
           res'[r].sid = res[r].sid

\* Then all that acted on a payment still does.
LEMMA PaidKeeps ==
    ASSUME TypeInv, PayInv, PaidKept,
           \A r \in Rids : res'[r].status \in PaidStatuses
                               => res[r].status \in PaidStatuses,
           UNCHANGED <<orders, refunds, fin, staff>>
    PROVE  MoneyInv'
<1>1. \A r \in Rids : res[r].status \in PaidStatuses \/ refunds[r] # "none"
          => PaidFor(res[r].sid, r)
  BY DEF PayInv, MoneyInv
<1>2. \A p \in Procs : fin'[p].pc # "idle" => PaidFor(fin[p].sid, fin[p].rid)'
  BY DEF PayInv, MoneyInv, PaidKept, PaidFor, SessionIn
<1>3. \A r \in Rids :
          (res'[r].status \in PaidStatuses \/ refunds'[r] # "none")
              => PaidFor(res[r].sid, r)'
  BY <1>1 DEF PaidKept, PaidFor, SessionIn
<1>4. \A r \in Rids : staff'[r].path = "review" => PaidFor(staff[r].sid, r)'
  BY DEF PayInv, MoneyInv, PaidKept, PaidFor, SessionIn
<1>5. \A r \in Rids : orders'[r].state # "none" => PaidFor(orders[r].sid, r)'
  BY DEF PayInv, MoneyInv, PaidKept, PaidFor, SessionIn
<1> QED
  BY <1>2, <1>3, <1>4, <1>5 DEF MoneyInv

\* The steps of a checkout request.
LEMMA CheckoutPays ==
    ASSUME TypeInv, PayInv, NEW r \in Rids, CheckoutStep(r)
    PROVE  PayInv'
<1>0. res[r] \in Rows /\ res \in [Rids -> Rows]
      /\ checkout \in [Rids -> Checkouts] /\ stripe \in [Sids -> Sessions]
  BY DEF TypeInv, TypeOK
<1>i. ASSUME checkout' = [checkout EXCEPT ![r] = IdleCheckout]
      PROVE  CheckoutsCalm
  BY <1>0, <1>i DEF CheckoutsCalm, IdleCheckout
<1>1. ASSUME NEW c \in Prices, CheckoutPrepare(r, c)
      PROVE  Calm
  <2> DEFINE row == [res[r] EXCEPT !.live = TRUE, !.price = c]
             request == [pc |-> "prepared", sid |-> NoSid, price |-> c,
                         car |-> res[r].trip.car, new |-> FALSE]
  <2>1. row \in Rows /\ row.sid = res[r].sid
    BY <1>0, PatchType, SidKept
  <2>2. ChangeStatus(r, "pending_payment", row)
        /\ checkout' = [checkout EXCEPT ![r] = request]
        /\ res[r].status # "none"
    BY <1>1, StatusKinds DEF CheckoutPrepare, IsHold
  <2>3. request.pc = "prepared"
    OBVIOUS
  <2> HIDE DEF row, request
  <2>4. RowsCalm /\ OrdersCalm
    BY <2>1, <2>2, WrittenStatuses, ChangeCalm
  <2>5. CheckoutsCalm
    BY <1>0, <2>2, <2>3, <2>4 DEF CheckoutsCalm, RowsCalm
  <2> QED
    BY <1>1, <2>4, <2>5, UnchangedCalm DEF CheckoutPrepare, Calm, office
<1>2. CASE CheckoutRefuse(r) \/ CheckoutCrash(r)
  <2>1. Calm
    BY <1>i, <1>2, UnchangedCalm
    DEF CheckoutRefuse, CheckoutCrash, Calm, tables, office
  <2> QED
    BY <2>1, CalmKeeps
<1>3. CASE CheckoutReuse(r)
  <2>1. ChangeStatus(r, "processing_payment", res[r])
    BY <1>3 DEF CheckoutReuse
  <2>2. RowsCalm /\ OrdersCalm
    BY <1>0, <2>1, WrittenStatuses, ChangeCalm
  <2>3. Calm
    BY <1>i, <1>3, <2>2, UnchangedCalm DEF CheckoutReuse, Calm, office
  <2> QED
    BY <2>3, CalmKeeps
<1>4. CASE CheckoutCreateFails(r)
  <2> DEFINE row == [res[r] EXCEPT !.live = FALSE]
  <2>1. row \in Rows /\ row.sid = res[r].sid
    BY <1>0, PatchType, SidKept
  <2>2. \/ ChangeStatus(r, "cancelled", row)
        \/ UNCHANGED <<res, blocks, orders, reviewed, gap>>
    BY <1>4 DEF CheckoutCreateFails
  <2> HIDE DEF row
  <2>3. RowsCalm /\ OrdersCalm
    BY <2>1, <2>2, WrittenStatuses, ChangeCalm, UnchangedCalm
  <2>4. Calm
    BY <1>i, <1>4, <2>3, UnchangedCalm DEF CheckoutCreateFails, Calm, office
  <2> QED
    BY <2>4, CalmKeeps
<1>u. ASSUME NEW s \in MaybeSid,
             res' = [res EXCEPT ![r] = [res[r] EXCEPT !.sid = s]]
      PROVE  /\ res'[r].sid = s /\ res'[r].status = res[r].status
             /\ \A x \in Rids \ {r} : res'[x] = res[x]
  <2> DEFINE row == [res[r] EXCEPT !.sid = s]
  <2>1. row.sid = s /\ row.status = res[r].status
    BY <1>0, SidSet
  <2>2. res' = [res EXCEPT ![r] = row]
    BY <1>u
  <2> HIDE DEF row
  <2> QED
    BY <1>0, <2>1, <2>2
<1>5. CASE CheckoutSupersede(r)
  <2> DEFINE old == res[r].sid
  <2>1. /\ res'[r].sid = NoSid /\ res'[r].status = res[r].status
        /\ \A x \in Rids \ {r} : res'[x] = res[x]
    <3>1. res' = [res EXCEPT ![r] = [res[r] EXCEPT !.sid = NoSid]]
      BY <1>0, <1>5 DEF CheckoutSupersede
    <3> QED
      BY <1>u, <3>1 DEF MaybeSid
  <2>2. /\ checkout'[r].pc = "create"
        /\ \A x \in Rids \ {r} : checkout'[x] = checkout[x]
        /\ checkout[r].pc = "prepared"
    BY <1>0, <1>5 DEF CheckoutSupersede, Checkouts
  <2>3. /\ \A s \in Sids : stripe'[s].rid = stripe[s].rid
        /\ \A s \in Sids \ {old} : stripe'[s] = stripe[s]
        /\ old \in Sids => \/ stripe[old].state = "open"
                              /\ stripe'[old].state = "expired"
                           \/ stripe[old].state \notin {"open", "paid"}
                              /\ stripe'[old] = stripe[old]
    <3>1. ~SessionIn(old, {"paid"}) /\ stripe' = ExpiredAtStripe(old)
      BY <1>5 DEF CheckoutSupersede
    <3>2. CASE SessionIn(old, {"open"})
      <4>1. stripe' = [stripe EXCEPT ![old].state = "expired"]
        BY <3>1, <3>2 DEF ExpiredAtStripe
      <4> QED
        BY <1>0, <3>2, <4>1 DEF SessionIn, Sessions
    <3>3. CASE ~SessionIn(old, {"open"})
      BY <3>1, <3>3 DEF ExpiredAtStripe, SessionIn
    <3> QED
      BY <3>2, <3>3
  <2>4. SessionsKnown' /\ LinkedIsOwn'
    <3>1. SessionsKnown'
      BY <2>1, <2>3 DEF PayInv, LinkInv, SessionsKnown
    <3>2. LinkedIsOwn'
      BY <2>1, <2>3 DEF PayInv, LinkInv, LinkedIsOwn, SessionIn
    <3> QED
      BY <3>1, <3>2
  <2>5. PayableIsLinked'
    BY <2>1, <2>3 DEF PayInv, LinkInv, PayableIsLinked
  <2>6. CheckoutInv'
    <3>1. \A s \in Sids : stripe[s].state = "created"
                              => stripe'[s].state = "created"
      BY <2>3
    <3>2. res[r].status # "none"
      BY <2>2 DEF PayInv, LinkInv, CheckoutInv
    <3> QED
      BY <2>1, <2>2, <2>3, <3>1, <3>2
      DEF PayInv, LinkInv, CheckoutInv, SessionIn
  <2>7. PaidKept
    BY <1>5, <2>1, <2>3 DEF PaidKept, SessionIn, CheckoutSupersede
  <2>8. MoneyInv'
    BY <1>5, <2>1, <2>7, PaidKeeps DEF CheckoutSupersede, office
  <2> QED
    BY <2>4, <2>5, <2>6, <2>8 DEF PayInv, LinkInv
<1>6. ASSUME NEW s \in Sids, CheckoutCreate(r, s)
      PROVE  PayInv'
  <2> DEFINE session == [state |-> "created", rid |-> r,
                         car |-> checkout[r].car, amount |-> checkout[r].price]
  <2>1. /\ session.state = "created" /\ session.rid = r
        /\ stripe[s].state = "none" \/ stripe[s] = session
        /\ stripe' = [stripe EXCEPT ![s] = session]
    BY <1>6 DEF CheckoutCreate
  <2> HIDE DEF session
  <2>2. /\ stripe'[s].state = "created" /\ stripe'[s].rid = r
        /\ \A x \in Sids \ {s} : stripe'[x] = stripe[x]
        /\ stripe[s].state \in {"none", "created"}
        /\ stripe[s].state = "created" => stripe[s].rid = r
    BY <1>0, <2>1
  <2>3. /\ checkout'[r].pc = "link" /\ checkout'[r].sid = s
        /\ \A x \in Rids \ {r} : checkout'[x] = checkout[x]
        /\ checkout[r].pc = "create" /\ res' = res
    BY <1>0, <1>6 DEF CheckoutCreate, Checkouts, tables
  <2>4. SessionsKnown' /\ LinkedIsOwn' /\ PayableIsLinked'
    <3>1. SessionsKnown'
      BY <2>2, <2>3 DEF PayInv, LinkInv, SessionsKnown, CheckoutInv
    <3>2. LinkedIsOwn'
      BY <2>2, <2>3 DEF PayInv, LinkInv, LinkedIsOwn, SessionIn
    <3>3. PayableIsLinked'
      BY <2>2, <2>3 DEF PayInv, LinkInv, PayableIsLinked
    <3> QED
      BY <3>1, <3>2, <3>3
  <2>5. CheckoutInv'
    BY <2>2, <2>3 DEF PayInv, LinkInv, CheckoutInv, SessionIn
  <2>6. PaidKept
    BY <2>2, <2>3 DEF PaidKept
  <2>7. MoneyInv'
    BY <1>6, <2>3, <2>6, PaidKeeps DEF CheckoutCreate, tables, office
  <2> QED
    BY <2>4, <2>5, <2>7 DEF PayInv, LinkInv
<1>7. ASSUME checkout[r].pc = "link"
      PROVE  /\ checkout[r].sid \in Sids
             /\ stripe[checkout[r].sid].state = "created"
             /\ stripe[checkout[r].sid].rid = r
             /\ res[r].sid = NoSid
             /\ \A x \in Sids : stripe[x].state \in {"open", "paid"}
                                    => stripe[x].rid # r
             /\ \A x \in Rids : res[x].sid # checkout[r].sid
  BY <1>7, NamesAssumption
  DEF PayInv, LinkInv, CheckoutInv, SessionIn, PayableIsLinked, LinkedIsOwn
<1>8. ASSUME checkout[r].pc = "link", NEW e \in {"open", "expired"},
             stripe' = [stripe EXCEPT ![checkout[r].sid].state = e]
      PROVE  /\ stripe'[checkout[r].sid].state = e
             /\ stripe'[checkout[r].sid].rid = r
             /\ \A x \in Sids \ {checkout[r].sid} : stripe'[x] = stripe[x]
  BY <1>0, <1>7, <1>8 DEF Sessions
<1>9. ASSUME checkout' = [checkout EXCEPT ![r] = IdleCheckout]
      PROVE  checkout'[r].pc = "idle"
             /\ \A x \in Rids \ {r} : checkout'[x] = checkout[x]
  BY <1>0, <1>9 DEF IdleCheckout
<1>10. CASE CheckoutLink(r)
  <2> DEFINE s == checkout[r].sid
             row == [res[r] EXCEPT !.sid = s]
             out == InStatus(row, "processing_payment")
  <2>1. checkout[r].pc = "link" /\ s \in MaybeSid
    BY <1>7, <1>10 DEF CheckoutLink, MaybeSid
  <2>2. row \in Rows /\ row.sid = s
    BY <1>0, <2>1, SidSet, PatchType
  <2>3. out.sid = s /\ out.status = "processing_payment"
    BY <2>2, SidKept, InStatusType, WrittenStatuses
  <2>4. /\ res' = [res EXCEPT ![r] = out]
        /\ orders' = orders
    BY <1>10, StatusKinds
    DEF CheckoutLink, ChangeStatus, Releases, ActiveHoldStatuses
  <2> HIDE DEF out, row
  <2>5. /\ res'[r].sid = s /\ res'[r].status = "processing_payment"
        /\ \A x \in Rids \ {r} : res'[x] = res[x]
    BY <1>0, <2>3, <2>4
  <2>6. /\ s \in Sids /\ stripe'[s].state = "open" /\ stripe'[s].rid = r
        /\ stripe[s].state = "created" /\ stripe[s].rid = r
        /\ \A x \in Sids \ {s} : stripe'[x] = stripe[x]
        /\ \A x \in Sids : stripe[x].state \in {"open", "paid"}
                               => stripe[x].rid # r
        /\ \A x \in Rids : res[x].sid # s
        /\ res[r].sid = NoSid
    BY <1>7, <1>8, <1>10, <2>1 DEF CheckoutLink
  <2>7. /\ checkout'[r].pc = "idle"
        /\ \A x \in Rids \ {r} : checkout'[x] = checkout[x]
    BY <1>9, <1>10 DEF CheckoutLink
  <2> HIDE DEF s
  <2>8. SessionsKnown'
    BY <2>5, <2>6 DEF PayInv, LinkInv, SessionsKnown
  <2>9. PayableIsLinked'
    BY <2>5, <2>6 DEF PayInv, LinkInv, PayableIsLinked
  <2>10. LinkedIsOwn'
    BY <2>5, <2>6 DEF PayInv, LinkInv, LinkedIsOwn, SessionIn
  <2>11. CheckoutInv'
    BY <2>5, <2>6, <2>7 DEF PayInv, LinkInv, CheckoutInv, SessionIn
  <2>12. PaidKept
    BY <2>5, <2>6, NamesAssumption DEF PaidKept, SessionIn
  <2>13. MoneyInv'
    BY <1>10, <2>4, <2>5, <2>12, PaidKeeps, PaidStatusFacts
    DEF CheckoutLink, office
  <2> QED
    BY <2>8, <2>9, <2>10, <2>11, <2>13 DEF PayInv, LinkInv
<1>11. CASE CheckoutLinkFails(r)
  <2> DEFINE s == checkout[r].sid
  <2>1. checkout[r].pc = "link"
    BY <1>11 DEF CheckoutLinkFails
  <2>2. /\ s \in Sids /\ stripe[s].state = "created" /\ stripe[s].rid = r
        /\ res[r].sid = NoSid
        /\ \A x \in Rids : res[x].sid # s
    BY <1>7, <2>1
  <2>3. /\ checkout'[r].pc = "idle"
        /\ \A x \in Rids \ {r} : checkout'[x] = checkout[x]
    BY <1>9, <1>11 DEF CheckoutLinkFails
  <2>4. \A x \in Rids : res'[x].sid = res[x].sid
                        /\ res'[x].status = res[x].status
    <3>1. CASE res' = [res EXCEPT ![r].sid = NoSid]
      <4>1. res' = [res EXCEPT ![r] = [res[r] EXCEPT !.sid = NoSid]]
        BY <1>0, <3>1
      <4> QED
        BY <1>u, <2>2, <4>1 DEF MaybeSid
    <3>2. CASE res' = res
      BY <3>2
    <3> QED
      BY <1>11, <3>1, <3>2 DEF CheckoutLinkFails
  <2>5. /\ \A x \in Sids \ {s} : stripe'[x] = stripe[x]
        /\ stripe'[s].state \in {"created", "expired"}
        /\ stripe'[s].rid = r
    BY <1>8, <1>11, <2>1, <2>2 DEF CheckoutLinkFails
  <2> HIDE DEF s
  <2>6. SessionsKnown' /\ PayableIsLinked'
    BY <2>2, <2>4, <2>5 DEF PayInv, LinkInv, SessionsKnown, PayableIsLinked
  <2>7. LinkedIsOwn'
    BY <2>2, <2>4, <2>5 DEF PayInv, LinkInv, LinkedIsOwn, SessionIn
  <2>8. CheckoutInv'
    BY <2>2, <2>3, <2>4, <2>5
    DEF PayInv, LinkInv, CheckoutInv, SessionIn
  <2>9. PaidKept
    BY <2>2, <2>4, <2>5 DEF PaidKept
  <2>10. MoneyInv'
    BY <1>11, <2>4, <2>9, PaidKeeps DEF CheckoutLinkFails, office
  <2> QED
    BY <2>6, <2>7, <2>8, <2>10 DEF PayInv, LinkInv
<1> QED
  BY <1>1, <1>2, <1>3, <1>4, <1>5, <1>6, <1>10, <1>11, CalmKeeps
  DEF CheckoutStep

\* The guest pays an open session, or Stripe expires it.
LEMMA StripePays ==
    ASSUME TypeInv, PayInv, NEW s \in Sids, StripeStep(s)
    PROVE  PayInv'
<1>1. /\ stripe[s].state = "open" /\ stripe'[s].state \in {"paid", "expired"}
      /\ stripe'[s].rid = stripe[s].rid
      /\ \A x \in Sids \ {s} : stripe'[x] = stripe[x]
  BY DEF StripeStep, CustomerPays, StripeExpires, TypeInv, TypeOK, Sessions
<1>2. UNCHANGED <<res, checkout, orders, refunds, fin, staff>>
  BY DEF StripeStep, CustomerPays, StripeExpires, tables, guests, office
<1>3. SessionsKnown' /\ PayableIsLinked'
  BY <1>1, <1>2 DEF PayInv, LinkInv, SessionsKnown, PayableIsLinked
<1>4. LinkedIsOwn' /\ CheckoutInv'
  BY <1>1, <1>2
  DEF PayInv, LinkInv, LinkedIsOwn, CheckoutInv, SessionIn
<1>5. PaidKept
  BY <1>1, <1>2 DEF PaidKept
<1>6. MoneyInv'
  BY <1>2, <1>5, PaidKeeps
<1> QED
  BY <1>3, <1>4, <1>6 DEF PayInv, LinkInv

\* A paid session leads the finalization to the reservation it was paid for.
LEMMA ResolvedIsPayer ==
    ASSUME TypeInv, PayInv, NEW s \in Sids, stripe[s].state = "paid"
    PROVE  PaidFor(s, Resolved(s))
<1> DEFINE linked == {r \in Rids : res[r].status # "none" /\ res[r].sid = s}
<1>1. stripe[s].rid \in linked
  BY DEF PayInv, LinkInv, PayableIsLinked, SessionsKnown
<1>2. Resolved(s) \in linked
  BY <1>1 DEF Resolved
<1>3. s # NoSid
  BY NamesAssumption
<1>4. stripe[s].rid = Resolved(s)
  BY <1>2, <1>3 DEF PayInv, LinkInv, LinkedIsOwn
<1> QED
  BY <1>4 DEF PaidFor, SessionIn

\* The steps of a finalization.
LEMMA FinPays ==
    ASSUME TypeInv, PayInv, NEW p \in Procs, FinalizerStep(p)
    PROVE  PayInv'
<1> DEFINE r == fin[p].rid
           s == fin[p].sid
<1>0. fin \in [Procs -> Finalizations] /\ res \in [Rids -> Rows]
      /\ orders \in [Rids -> [state : {"none", "live", "deleted"},
                              sid : MaybeSid]]
  BY DEF TypeInv, TypeOK
<1>1. ASSUME fin[p].pc # "idle"
      PROVE  /\ r \in Rids /\ s \in Sids /\ PaidFor(s, r)
             /\ res[r].sid = s
  BY <1>1
  DEF TypeInv, BusyOK, PayInv, MoneyInv, LinkInv, PayableIsLinked, PaidFor,
      SessionIn
<1>2. ASSUME fin' = [fin EXCEPT ![p] = IdleFin], staff' = staff
      PROVE  ActorsCalm
  BY <1>0, <1>2 DEF IdleFin, ActorsCalm, PayInv, MoneyInv
<1>3. ASSUME fin[p].pc # "idle", NEW c \in {"recover", "review"},
             NEW e \in {"none", "invalid", "overlap", "unique"},
             fin' = [fin EXCEPT ![p] = [fin[p] EXCEPT !.pc = c, !.err = e]],
             staff' = staff
      PROVE  ActorsCalm
  <2> DEFINE f == [fin[p] EXCEPT !.pc = c, !.err = e]
  <2>1. f.sid = s /\ f.rid = r
    BY <1>0, Zenon DEF Finalizations
  <2>2. fin' = [fin EXCEPT ![p] = f]
    BY <1>3
  <2> HIDE DEF f
  <2>3. \A q \in Procs : fin'[q].sid = fin[q].sid /\ fin'[q].rid = fin[q].rid
    BY <1>0, <2>1, <2>2
  <2>4. \A q \in Procs \ {p} : fin'[q] = fin[q]
    BY <1>0, <2>2
  <2> QED
    BY <1>3, <2>3, <2>4 DEF ActorsCalm, PayInv, MoneyInv
<1>4. ASSUME NEW k \in {"webhook", "direct"}, NEW x \in Sids,
             AnswerKnown(p, k, x)
      PROVE  Calm
  BY <1>4, UnchangedCalm DEF AnswerKnown, Calm, guests, office
<1>5. ASSUME NEW k \in {"webhook", "direct"}, NEW x \in Sids,
             BeginFinalization(p, k, x)
      PROVE  Calm
  <2> DEFINE q == Resolved(x)
             begun == [pc |-> IF Conflict(x, q, k) THEN "review"
                                                   ELSE "complete",
                       kind |-> k, sid |-> x, rid |-> q,
                       car |-> res[q].trip.car,
                       link |-> res[q].sid \in {NoSid, x}, err |-> "none"]
  <2>1. PaidFor(x, q)
    BY <1>5, ResolvedIsPayer DEF BeginFinalization, MayBegin
  <2>2. fin' = [fin EXCEPT ![p] = begun]
    BY <1>5 DEF BeginFinalization
  <2>3. begun.sid = x /\ begun.rid = q
    OBVIOUS
  <2> HIDE DEF q, begun
  <2>4. ActorsCalm
    BY <1>0, <1>5, <2>1, <2>2, <2>3
    DEF ActorsCalm, PayInv, MoneyInv, BeginFinalization, office
  <2> QED
    BY <1>5, <2>4, UnchangedCalm
    DEF BeginFinalization, Calm, tables, guests, office
<1>6. CASE Complete(p)
  <2> DEFINE row == [res[r] EXCEPT !.sid = s]
             order == [state |-> "live", sid |-> s]
  <2>1. r \in Rids /\ s \in Sids /\ PaidFor(s, r) /\ res[r].sid = s
    BY <1>1, <1>6 DEF Complete
  <2>2. row \in Rows /\ row.sid = res[r].sid
    BY <1>0, <2>1, PatchType, SidSet DEF MaybeSid
  <2>3. /\ res' = [res EXCEPT ![r] = InStatus(row, "confirmed")]
        /\ orders' = [orders EXCEPT ![r] = order]
        /\ fin' = [fin EXCEPT ![p] = IdleFin]
    BY <1>6 DEF Complete
  <2>4. order.sid = s
    OBVIOUS
  <2> HIDE DEF row, order, r, s
  <2>5. RowsCalm
    BY <2>1, <2>2, <2>3, WrittenStatuses, RowCalm
  <2>6. OrdersCalm
    BY <1>0, <2>1, <2>3, <2>4 DEF OrdersCalm, PayInv, MoneyInv
  <2>7. Calm
    BY <1>2, <1>6, <2>3, <2>5, <2>6, UnchangedCalm
    DEF Complete, Calm, guests, office
  <2> QED
    BY <2>7, CalmKeeps
<1>7. CASE CompleteFails(p)
  <2>1. CompletionError(p) \in {"none", "invalid", "overlap", "unique"}
    BY DEF CompletionError
  <2>2. /\ fin' = [fin EXCEPT ![p] = [fin[p] EXCEPT !.pc = "recover",
                                                 !.err = CompletionError(p)]]
        /\ fin[p].pc # "idle" /\ staff' = staff
    BY <1>0, <1>7 DEF CompleteFails, office
  <2>3. ActorsCalm
    BY <1>3, <2>1, <2>2
  <2>4. Calm
    BY <1>7, <2>3, UnchangedCalm DEF CompleteFails, Calm, tables, guests
  <2> QED
    BY <2>4, CalmKeeps
<1>8. CASE RecoverKnown(p)
  <2>1. Calm
    BY <1>2, <1>8, UnchangedCalm DEF RecoverKnown, Calm, guests, office
  <2> QED
    BY <2>1, CalmKeeps
<1>9. CASE RecoverElse(p)
  <2>1. /\ fin[p].pc # "idle" /\ staff' = staff
        /\ fin[p].err \in {"none", "invalid", "overlap", "unique"}
    BY <1>0, <1>9 DEF RecoverElse, office, Finalizations
  <2>2. \/ fin' = [fin EXCEPT ![p] = IdleFin]
        \/ fin' = [fin EXCEPT ![p] = [fin[p] EXCEPT !.pc = "review",
                                                   !.err = fin[p].err]]
    <3>1. [fin[p] EXCEPT !.pc = "review"] =
          [fin[p] EXCEPT !.pc = "review", !.err = fin[p].err]
      BY <1>0, Zenon DEF Finalizations
    <3> QED
      BY <1>9, <3>1 DEF RecoverElse
  <2>3. ActorsCalm
    BY <1>2, <1>3, <2>1, <2>2
  <2>4. Calm
    BY <1>9, <2>3, UnchangedCalm DEF RecoverElse, Calm, tables, guests
  <2> QED
    BY <2>4, CalmKeeps
<1>10. CASE Review(p)
  <2> DEFINE row == IF fin[p].link THEN [res[r] EXCEPT !.sid = s]
                                   ELSE res[r]
  <2>1. r \in Rids /\ s \in Sids /\ PaidFor(s, r) /\ res[r].sid = s
    BY <1>1, <1>10 DEF Review
  <2>2. row \in Rows /\ row.sid = res[r].sid
    BY <1>0, <2>1, PatchType, SidSet DEF MaybeSid
  <2>3. \/ ChangeStatus(r, "manual_review", row)
        \/ UNCHANGED <<res, blocks, orders, reviewed, gap>>
    BY <1>10 DEF Review
  <2> HIDE DEF row, r, s
  <2>4. RowsCalm /\ OrdersCalm
    BY <2>1, <2>2, <2>3, WrittenStatuses, ChangeCalm, UnchangedCalm
  <2>5. Calm
    BY <1>2, <1>10, <2>4, UnchangedCalm DEF Review, Calm, guests, office
  <2> QED
    BY <2>5, CalmKeeps
<1>11. CASE FinalizerCrash(p)
  <2>1. Calm
    BY <1>2, <1>11, UnchangedCalm
    DEF FinalizerCrash, Calm, tables, guests, office
  <2> QED
    BY <2>1, CalmKeeps
<1> QED
  BY <1>4, <1>5, <1>6, <1>7, <1>8, <1>9, <1>10, <1>11, CalmKeeps
  DEF FinalizerStep

\* The steps of the staff, of refunds and of the cleanup job.
LEMMA OfficePays ==
    ASSUME TypeInv, PayInv, NEW r \in Rids, StaffStep(r) \/ CleanupStep(r)
    PROVE  PayInv'
<1>0. /\ res[r] \in Rows
      /\ staff \in [Rids -> [path : {"idle", "review", "generic"},
                             sid : MaybeSid]]
      /\ orders \in [Rids -> [state : {"none", "live", "deleted"},
                              sid : MaybeSid]]
      /\ refunds \in [Rids -> {"none", "pending", "failed", "succeeded"}]
  BY DEF TypeInv, TypeOK
<1>1. /\ res[r].status \in PaidStatuses => PaidFor(res[r].sid, r)
      /\ refunds[r] # "none" => PaidFor(res[r].sid, r)
  BY DEF PayInv, MoneyInv
<1>2. ASSUME NEW new \in StaffStatuses, StaffSet(r, new)
      PROVE  Calm
  <2>1. ChangeStatus(r, new, res[r])
    BY <1>2 DEF StaffSet
  <2>2. new \in Statuses /\ new \notin {"paid", "manual_review"}
    BY StaffAssumption, WrittenStatuses DEF AdminOpsStatuses, OpsStatuses
  <2>3. RowsCalm /\ OrdersCalm
    BY <1>0, <2>1, <2>2, ChangeCalm
  <2> QED
    BY <1>2, <2>3, UnchangedCalm DEF StaffSet, Calm, guests, office
<1>3. CASE StaffConfirmRead(r)
  <2> DEFINE seen == [path |-> IF res[r].status = "manual_review"
                               THEN "review" ELSE "generic",
                      sid |-> res[r].sid]
  <2>1. staff' = [staff EXCEPT ![r] = seen]
    BY <1>3 DEF StaffConfirmRead
  <2>2. seen.path = "review" => PaidFor(seen.sid, r)
    BY <1>1, PaidStatusFacts
  <2> HIDE DEF seen
  <2>3. ActorsCalm
    BY <1>0, <1>3, <2>1, <2>2
    DEF ActorsCalm, PayInv, MoneyInv, StaffConfirmRead
  <2>4. Calm
    BY <1>3, <2>3, UnchangedCalm DEF StaffConfirmRead, Calm, tables, guests
  <2> QED
    BY <2>4, CalmKeeps
<1>4. ASSUME staff' = [staff EXCEPT ![r] = IdleStaff], fin' = fin
      PROVE  ActorsCalm
  BY <1>0, <1>4 DEF ActorsCalm, PayInv, MoneyInv, IdleStaff
<1>5. ASSUME MayChange(r, "confirmed"),
             res' = [res EXCEPT ![r] = InStatus(res[r], "confirmed")]
      PROVE  RowsCalm
  <2>1. PaidFor(res[r].sid, r)
    BY <1>1, <1>5, PaidEdges, PaidStatusFacts, StatusKinds DEF MayChange
  <2> QED
    BY <1>0, <1>5, <2>1, WrittenStatuses, RowCalm
<1>6. CASE StaffConfirmReview(r)
  <2> DEFINE order == [state |-> "live", sid |-> staff[r].sid]
  <2>1. orders' = [orders EXCEPT ![r] = order]
    BY <1>6 DEF StaffConfirmReview
  <2>2. PaidFor(order.sid, r)
    BY <1>6 DEF StaffConfirmReview, PayInv, MoneyInv
  <2> HIDE DEF order
  <2>3. OrdersCalm
    BY <1>0, <2>1, <2>2 DEF OrdersCalm, PayInv, MoneyInv
  <2>4. Calm
    BY <1>4, <1>5, <1>6, <2>3, UnchangedCalm
    DEF StaffConfirmReview, Calm, guests
  <2> QED
    BY <2>4, CalmKeeps
<1>7. CASE StaffConfirmGeneric(r)
  <2>1. Calm
    BY <1>4, <1>5, <1>7, UnchangedCalm DEF StaffConfirmGeneric, Calm, guests
  <2> QED
    BY <2>1, CalmKeeps
<1>8. CASE StaffConfirmFails(r)
  <2>1. Calm
    BY <1>4, <1>8, UnchangedCalm DEF StaffConfirmFails, Calm, tables, guests
  <2> QED
    BY <2>1, CalmKeeps
<1>9. ASSUME NEW v, refunds' = [refunds EXCEPT ![r] = v],
             PaidFor(res[r].sid, r)
      PROVE  RefundsCalm
  BY <1>0, <1>9 DEF RefundsCalm, PayInv, MoneyInv
<1>10. CASE RefundStart(r) \/ RefundFails(r) \/ RefundResumes(r)
  <2>1. PaidFor(res[r].sid, r)
    BY <1>1, <1>10, PaidStatusFacts
    DEF RefundStart, RefundFails, RefundResumes, FailsOver
  <2>2. RefundsCalm
    BY <1>9, <1>10, <2>1 DEF RefundStart, RefundFails, RefundResumes
  <2>3. Calm
    BY <1>10, <2>2, UnchangedCalm
    DEF RefundStart, RefundFails, RefundResumes, Calm, guests, office
  <2> QED
    BY <2>3, CalmKeeps
<1>11. CASE RefundSucceeds(r)
  <2>1. /\ \/ ChangeStatus(r, "refunded", res[r])
           \/ ChangeStatus(r, "manual_review", res[r])
           \/ UNCHANGED <<res, blocks, orders, reviewed, gap>>
        /\ refunds' = [refunds EXCEPT ![r] = "succeeded"]
        /\ PaidFor(res[r].sid, r)
    BY <1>1, <1>11 DEF RefundSucceeds
  <2>2. RowsCalm /\ OrdersCalm
    BY <1>0, <2>1, WrittenStatuses, ChangeCalm, UnchangedCalm
  <2>3. Calm
    BY <1>9, <1>11, <2>1, <2>2, UnchangedCalm
    DEF RefundSucceeds, Calm, guests, office
  <2> QED
    BY <2>3, CalmKeeps
<1>12. CASE AbandonSweep(r)
  <2>1. RowsCalm
    BY <1>0, <1>12, WrittenStatuses, PaidStatusFacts, RowCalm
    DEF AbandonSweep
  <2>2. Calm
    BY <1>12, <2>1, UnchangedCalm DEF AbandonSweep, Calm, guests, office
  <2> QED
    BY <2>2, CalmKeeps
<1>13. CASE SweepRead(r)
  <2>1. Calm
    BY <1>13, UnchangedCalm DEF SweepRead, Calm, tables, guests
  <2> QED
    BY <2>1, CalmKeeps
<1>14. CASE SweepExpire(r)
  <2>1. \/ ChangeStatus(r, "expired", res[r])
        \/ UNCHANGED <<res, blocks, orders, reviewed, gap>>
    BY <1>14 DEF SweepExpire
  <2>2. RowsCalm /\ OrdersCalm
    BY <1>0, <2>1, WrittenStatuses, ChangeCalm, UnchangedCalm
  <2>3. Calm
    BY <1>14, <2>2, UnchangedCalm DEF SweepExpire, Calm, guests
  <2> QED
    BY <2>3, CalmKeeps
<1> QED
  BY <1>2, <1>3, <1>6, <1>7, <1>8, <1>10, <1>11, <1>12, <1>13, <1>14,
     CalmKeeps
  DEF StaffStep, CleanupStep

-----------------------------------------------------------------------------
(* The theorems *)

\* Every step of every program keeps payments, links and orders together.
LEMMA PayStep == TypeInv /\ PayInv /\ [Next]_vars => PayInv'
<1> SUFFICES ASSUME TypeInv, PayInv, [Next]_vars
             PROVE  PayInv'
  OBVIOUS
<1>1. CASE UNCHANGED vars
  <2>1. Calm
    BY <1>1, UnchangedCalm DEF vars, tables, guests, office, Calm
  <2> QED
    BY <2>1, CalmKeeps
<1>2. CASE Next
  BY <1>2, HoldPays, CheckoutPays, StripePays, FinPays, OfficePays DEF Next
<1> QED
  BY <1>1, <1>2

\* The whole invariant of the money.
LEMMA PayCorrect == Spec => []PayInv
<1>1. Spec => []TypeInv
  BY TypeInit, TypeStep, PTL DEF Spec
<1> QED
  BY <1>1, PayInit, PayStep, PTL DEF Spec

\* Whatever guests, staff, finalizations, refunds and jobs do to a
\* reservation meanwhile, a session that is open or paid at Stripe is the one
\* its reservation is linked to: two sessions of a reservation are never
\* payable together, and every payment is found by its session id.
THEOREM PayableLinked == Spec => []PayableIsLinked
<1>1. PayInv => PayableIsLinked
  BY DEF PayInv, LinkInv
<1> QED
  BY <1>1, PayCorrect, PTL

\* Every live order carries the session that was paid for its reservation,
\* also when a review confirmed it with the session id of an earlier read.
THEOREM OrdersPaid == Spec => []OrderIsPaid
<1>1. PayInv => OrderIsPaid
  BY DEF PayInv, MoneyInv, OrderIsPaid, LiveOrder, PaidFor
<1> QED
  BY <1>1, PayCorrect, PTL

\* A reservation that is more than a hold, or is being refunded, was paid:
\* nobody reaches a booking, a review or a refund without the money.
BookedIsPaid ==
    \A r \in Rids : (IsOps(r) \/ res[r].status \in {"manual_review", "refunded"}
                     \/ refunds[r] # "none")
        => SessionIn(res[r].sid, {"paid"}) /\ stripe[res[r].sid].rid = r

\* No path of the program, the confirmation without an order included, leads
\* to a booking that was not paid for.
THEOREM BookingsPaid == Spec => []BookedIsPaid
<1>1. PayInv => BookedIsPaid
  BY PaidStatusFacts DEF PayInv, MoneyInv, BookedIsPaid, PaidFor, IsOps
<1> QED
  BY <1>1, PayCorrect, PTL
=============================================================================
