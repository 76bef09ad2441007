--------------------- MODULE BookingFinalization_proofs ---------------------
(***************************************************************************)
(* Theorems about BookingFinalization, for every number of reservations,   *)
(* sessions, trips, prices and concurrent finalizations.                   *)
(***************************************************************************)
EXTENDS BookingFinalization, TLAPS

-----------------------------------------------------------------------------
(* Types *)

\* A finalization or checkout in flight knows whom it works for.  TypeOK is
\* inductive only together with this.
BusyOK ==
    /\ \A p \in Procs : fin[p].pc # "idle" =>
           fin[p].sid \in Sids /\ fin[p].rid \in Rids /\ fin[p].car \in Cars
    /\ \A r \in Rids : checkout[r].pc = "link" => checkout[r].sid \in Sids

TypeInv == TypeOK /\ BusyOK

\* The status sets of the domain are statuses.
LEMMA StatusFacts ==
    /\ ActiveHoldStatuses \subseteq Statuses
    /\ OpsStatuses \subseteq Statuses
    /\ AdminOpsStatuses \subseteq Statuses
    /\ "none" \notin Statuses
BY DEF ActiveHoldStatuses, OpsStatuses, AdminOpsStatuses, Statuses

\* A trip is a range of the calendar.
LEMMA TripFacts ==
    /\ SomeTrip \in Trips
    /\ SomePrice \in Prices
    /\ \A t \in Trips : t \in Ranges /\ t.car \in Cars
BY TripsAssumption, PricesAssumption DEF SomeTrip, SomePrice, Ranges

\* Patching a row with one of the statuses gives a row.
LEMMA InStatusType ==
    ASSUME NEW row \in Rows, NEW new \in Statuses
    PROVE  /\ InStatus(row, new) \in Rows
           /\ InStatus(row, new).status = new
           /\ InStatus(row, new).trip = row.trip
BY DEF InStatus, Rows, MaybeSid

\* Patching the other columns of a row gives a row.
LEMMA PatchType ==
    ASSUME NEW row \in Rows
    PROVE  /\ \A b \in BOOLEAN : [row EXCEPT !.live = b] \in Rows
           /\ \A s \in MaybeSid : [row EXCEPT !.sid = s] \in Rows
           /\ \A c \in Prices : [row EXCEPT !.price = c] \in Rows
           /\ \A t \in Trips : [row EXCEPT !.trip = t] \in Rows
           /\ \A c \in Prices :
                 [row EXCEPT !.live = TRUE, !.price = c] \in Rows
           /\ [row EXCEPT !.live = FALSE] \in Rows
           /\ [row EXCEPT !.sid = NoSid] \in Rows
BY Zenon DEF Rows, MaybeSid

\* None of these patches touches the trip or the status.
LEMMA PatchKeeps ==
    ASSUME NEW row \in Rows, NEW s, NEW c
    PROVE  /\ [row EXCEPT !.live = FALSE].trip = row.trip
           /\ [row EXCEPT !.live = FALSE].status = row.status
           /\ [row EXCEPT !.sid = s].trip = row.trip
           /\ [row EXCEPT !.sid = s].status = row.status
           /\ [row EXCEPT !.price = c].trip = row.trip
           /\ [row EXCEPT !.live = TRUE, !.price = c].trip = row.trip
BY Zenon DEF Rows

\* A session of Stripe that changes its state is still a session.
LEMMA SessionPatchType ==
    ASSUME NEW x \in Sessions
    PROVE  /\ [x EXCEPT !.state = "open"] \in Sessions
           /\ [x EXCEPT !.state = "paid"] \in Sessions
           /\ [x EXCEPT !.state = "expired"] \in Sessions
BY DEF Sessions

\* A checkout request that goes on is still a checkout request.
LEMMA CheckoutPatchType ==
    ASSUME NEW x \in Checkouts
    PROVE  /\ [x EXCEPT !.pc = "create"] \in Checkouts
           /\ \A s \in Sids : [x EXCEPT !.pc = "link", !.sid = s] \in Checkouts
BY Zenon DEF Checkouts, MaybeSid

\* Expiring the stale holds of some cars keeps every row a row, its trip, and
\* its status unless it was a stale hold of such a car.
LEMMA ExpireStaleType ==
    ASSUME TypeOK, NEW cars
    PROVE  /\ ExpireStale(cars) \in [Rids -> Rows]
           /\ \A r \in Rids :
                 /\ ExpireStale(cars)[r].trip = res[r].trip
                 /\ ExpireStale(cars)[r].status =
                      IF IsHold(r) /\ ~res[r].live /\ res[r].trip.car \in cars
                      THEN "expired" ELSE res[r].status
<1>1. "expired" \in Statuses
  BY DEF Statuses
<1>2. \A r \in Rids : res[r] \in Rows
  BY DEF TypeOK
<1>3. \A r \in Rids : InStatus(res[r], "expired") \in Rows
                      /\ InStatus(res[r], "expired").status = "expired"
                      /\ InStatus(res[r], "expired").trip = res[r].trip
  BY <1>1, <1>2, InStatusType
<1> QED
  BY <1>2, <1>3 DEF ExpireStale

\* A status change keeps the types of the tables it writes.
LEMMA ChangeStatusType ==
    ASSUME TypeOK, NEW r \in Rids, NEW new \in Statuses, NEW row \in Rows,
           ChangeStatus(r, new, row)
    PROVE  /\ res' \in [Rids -> Rows]
           /\ blocks' \in SUBSET Ranges
           /\ orders' \in [Rids -> [state : {"none", "live", "deleted"},
                                    sid : MaybeSid]]
           /\ gap' \in [Rids -> {"none", "bare_confirm", "stripped",
                                 "stale_car"}]
           /\ reviewed' \in SUBSET Rids
<1>1. res' \in [Rids -> Rows]
  BY InStatusType DEF ChangeStatus, TypeOK
<1>2. blocks' \in SUBSET Ranges
  BY DEF ChangeStatus, ReleaseRange, TypeOK
<1>3. orders' \in [Rids -> [state : {"none", "live", "deleted"},
                            sid : MaybeSid]]
  BY DEF ChangeStatus, OrdersAfterRelease, TypeOK
<1>4. gap' \in [Rids -> {"none", "bare_confirm", "stripped", "stale_car"}]
  BY DEF ChangeStatus, GapAfterRelease, TypeOK
<1>5. reviewed' \in SUBSET Rids
  BY DEF ChangeStatus, TypeOK
<1> QED
  BY <1>1, <1>2, <1>3, <1>4, <1>5

\* The statuses and rows that the programs write.
LEMMA WrittenStatuses ==
    /\ {"pending_payment", "processing_payment", "expired", "cancelled",
        "manual_review", "confirmed", "refunded"} \subseteq Statuses
    /\ StaffStatuses \subseteq Statuses
BY StaffAssumption, StatusFacts
DEF Statuses, ActiveHoldStatuses, OpsStatuses

\* The initial state has its types.
LEMMA TypeInit == Init => TypeInv
<1> SUFFICES ASSUME Init PROVE TypeInv
  OBVIOUS
<1>1. TypeOK
  BY TripFacts DEF Init, TypeOK, Rows, Sessions, Finalizations, Checkouts,
                   IdleFin, IdleCheckout, IdleStaff, MaybeSid, Statuses
<1>2. BusyOK
  BY DEF Init, BusyOK, IdleFin, IdleCheckout
<1> QED
  BY <1>1, <1>2 DEF TypeInv

\* The steps of guests that hold a car.
LEMMA HoldTypes ==
    ASSUME TypeInv, NEW r \in Rids, HoldStep(r)
    PROVE  TypeInv'
<1> USE DEF TypeInv
<1>1. ASSUME NEW t \in Trips, NEW c \in Prices, NEW b \in BOOLEAN,
             CreateHold(r, t, c, b)
      PROVE  TypeInv'
  <2>1. res' \in [Rids -> Rows]
    <3> DEFINE hold == [status |-> "pending_payment", trip |-> t,
                        live |-> TRUE, sid |-> NoSid, price |-> c]
               swept == ExpireStale({t.car})
    <3>1. hold \in Rows
      BY WrittenStatuses DEF Rows, MaybeSid
    <3>2. swept \in [Rids -> Rows]
      BY ExpireStaleType
    <3>3. \/ res' = [swept EXCEPT ![r] = hold]
          \/ res' = swept
      BY <1>1 DEF CreateHold
    <3> HIDE DEF hold, swept
    <3> QED
      BY <3>1, <3>2, <3>3
  <2>2. /\ checkout' \in [Rids -> Checkouts]
        /\ \A x \in Rids : checkout'[x].pc = "link"
                               => checkout'[x].sid \in Sids
    <3> DEFINE request == [pc |-> "prepared", sid |-> NoSid, price |-> c,
                           car |-> t.car, new |-> TRUE]
    <3>1. request \in Checkouts /\ request.pc # "link"
      BY TripFacts DEF Checkouts, MaybeSid
    <3>2. \/ checkout' = [checkout EXCEPT ![r] = request]
          \/ checkout' = checkout
      BY <1>1 DEF CreateHold
    <3>3. /\ checkout \in [Rids -> Checkouts]
          /\ \A x \in Rids : checkout[x].pc = "link"
                                 => checkout[x].sid \in Sids
      BY DEF TypeOK, BusyOK
    <3> HIDE DEF request
    <3>4. CASE checkout' = [checkout EXCEPT ![r] = request]
      BY <3>1, <3>3, <3>4
    <3>5. CASE checkout' = checkout
      BY <3>3, <3>5
    <3> QED
      BY <3>2, <3>4, <3>5
  <2> QED
    BY <1>1, <2>1, <2>2 DEF CreateHold, TypeOK, BusyOK, office
<1>2. ASSUME NEW t \in Trips, NEW c \in Prices, Rehold(r, t, c)
      PROVE  TypeInv'
  <2>1. res' \in [Rids -> Rows]
    <3> DEFINE swept == ExpireStale({t.car, res[r].trip.car})
    <3>1. \/ res' = [swept EXCEPT ![r].trip = t, ![r].price = c]
          \/ res' = swept
      BY <1>2 DEF Rehold
    <3>2. swept \in [Rids -> Rows]
      BY ExpireStaleType
    <3> HIDE DEF swept
    <3> QED
      BY <3>1, <3>2 DEF Rows
  <2> QED
    BY <1>2, <2>1 DEF Rehold, TypeOK, BusyOK, guests, office
<1>3. ASSUME NEW c \in Prices, NEW seen \in ActiveHoldStatuses,
             RepriceHold(r, seen, c)
      PROVE  TypeInv'
  <2>1. seen \in Statuses /\ [res[r] EXCEPT !.price = c] \in Rows
    <3>1. res[r] \in Rows
      BY DEF TypeOK
    <3>2. [res[r] EXCEPT !.price = c] \in Rows
      BY <3>1, PatchType
    <3>3. seen \in Statuses
      BY StatusFacts
    <3> QED
      BY <3>2, <3>3
  <2> QED
    BY <1>3, <2>1, ChangeStatusType
    DEF RepriceHold, TypeOK, BusyOK, guests, office
<1>4. CASE HoldLapses(r)
  <2>1. res' \in [Rids -> Rows]
    BY <1>4, PatchType DEF HoldLapses, TypeOK
  <2> QED
    BY <1>4, <2>1 DEF HoldLapses, TypeOK, BusyOK, guests, office
<1>5. CASE ReleaseRead(r)
  BY <1>5 DEF ReleaseRead, TypeOK, BusyOK, tables, office
<1>6. CASE ReleaseAct(r)
  <2>1. [res[r] EXCEPT !.live = FALSE] \in Rows
    BY PatchType DEF TypeOK
  <2>2. /\ res' \in [Rids -> Rows]
        /\ blocks' \in SUBSET Ranges
        /\ orders' \in [Rids -> [state : {"none", "live", "deleted"},
                                 sid : MaybeSid]]
        /\ gap' \in [Rids -> {"none", "bare_confirm", "stripped",
                              "stale_car"}]
        /\ reviewed' \in SUBSET Rids
    BY <1>6, <2>1, WrittenStatuses, ChangeStatusType DEF ReleaseAct, TypeOK
  <2> QED
    BY <1>6, <2>2 DEF ReleaseAct, TypeOK, BusyOK, office
<1> QED
  BY <1>1, <1>2, <1>3, <1>4, <1>5, <1>6 DEF HoldStep

\* The steps of a checkout request.
LEMMA CheckoutTypes ==
    ASSUME TypeInv, NEW r \in Rids, CheckoutStep(r)
    PROVE  TypeInv'
<1> USE DEF TypeInv
<1>1. ASSUME NEW c \in Prices, CheckoutPrepare(r, c)
      PROVE  TypeInv'
  <2>1. [res[r] EXCEPT !.live = TRUE, !.price = c] \in Rows
    BY PatchType DEF TypeOK
  <2>2. checkout' \in [Rids -> Checkouts]
    <3>1. res[r].trip.car \in Cars
      BY TripFacts DEF TypeOK, Rows
    <3> QED
      BY <1>1, <3>1 DEF CheckoutPrepare, TypeOK, Checkouts, MaybeSid
  <2>3. \A x \in Rids : checkout'[x].pc = "link" => checkout'[x].sid \in Sids
    BY <1>1 DEF CheckoutPrepare, BusyOK, TypeOK
  <2> QED
    BY <1>1, <2>1, <2>2, <2>3, WrittenStatuses, ChangeStatusType
    DEF CheckoutPrepare, TypeOK, BusyOK, office
<1>2. CASE CheckoutRefuse(r)
  BY <1>2, TripFacts
  DEF CheckoutRefuse, TypeOK, BusyOK, Checkouts, MaybeSid, IdleCheckout,
      tables, office
<1>3. CASE CheckoutReuse(r)
  <2>1. checkout' \in [Rids -> Checkouts]
    BY <1>3, TripFacts
    DEF CheckoutReuse, TypeOK, Checkouts, MaybeSid, IdleCheckout
  <2>2. \A x \in Rids : checkout'[x].pc = "link" => checkout'[x].sid \in Sids
    BY <1>3 DEF CheckoutReuse, BusyOK, TypeOK, IdleCheckout
  <2>3. res[r] \in Rows
    BY DEF TypeOK
  <2> QED
    BY <1>3, <2>1, <2>2, <2>3, WrittenStatuses, ChangeStatusType
    DEF CheckoutReuse, TypeOK, BusyOK, office
<1>4. CASE CheckoutSupersede(r)
  <2>1. stripe' \in [Sids -> Sessions]
    BY <1>4, SessionPatchType
    DEF CheckoutSupersede, ExpiredAtStripe, SessionIn, TypeOK
  <2>2. res' \in [Rids -> Rows]
    BY <1>4, PatchType DEF CheckoutSupersede, TypeOK
  <2>3. checkout' \in [Rids -> Checkouts]
    BY <1>4, CheckoutPatchType DEF CheckoutSupersede, TypeOK
  <2> QED
    BY <1>4, <2>1, <2>2, <2>3 DEF CheckoutSupersede, TypeOK, BusyOK, office
<1>5. ASSUME NEW s \in Sids, CheckoutCreate(r, s)
      PROVE  TypeInv'
  <2>1. stripe' \in [Sids -> Sessions]
    BY <1>5 DEF CheckoutCreate, TypeOK, Sessions, Checkouts
  <2>2. checkout' \in [Rids -> Checkouts]
    BY <1>5, CheckoutPatchType DEF CheckoutCreate, TypeOK
  <2>3. \A x \in Rids : checkout'[x].pc = "link" => checkout'[x].sid \in Sids
    BY <1>5 DEF CheckoutCreate, BusyOK, TypeOK
  <2> QED
    BY <1>5, <2>1, <2>2, <2>3
    DEF CheckoutCreate, TypeOK, BusyOK, tables, office
<1>6. CASE CheckoutCreateFails(r)
  <2>1. [res[r] EXCEPT !.live = FALSE] \in Rows
    BY PatchType DEF TypeOK
  <2>2. /\ res' \in [Rids -> Rows]
        /\ blocks' \in SUBSET Ranges
        /\ orders' \in [Rids -> [state : {"none", "live", "deleted"},
                                 sid : MaybeSid]]
        /\ gap' \in [Rids -> {"none", "bare_confirm", "stripped",
                              "stale_car"}]
        /\ reviewed' \in SUBSET Rids
    BY <1>6, <2>1, WrittenStatuses, ChangeStatusType
    DEF CheckoutCreateFails, TypeOK
  <2>3. checkout' \in [Rids -> Checkouts]
    BY <1>6, TripFacts
    DEF CheckoutCreateFails, TypeOK, Checkouts, MaybeSid, IdleCheckout
  <2>4. \A x \in Rids : checkout'[x].pc = "link" => checkout'[x].sid \in Sids
    BY <1>6 DEF CheckoutCreateFails, BusyOK, TypeOK, IdleCheckout
  <2> QED
    BY <1>6, <2>2, <2>3, <2>4 DEF CheckoutCreateFails, TypeOK, BusyOK, office
<1>7. CASE CheckoutLink(r)
  <2>1. [res[r] EXCEPT !.sid = checkout[r].sid] \in Rows
    BY <1>7, PatchType DEF CheckoutLink, TypeOK, BusyOK, MaybeSid
  <2>2. stripe' \in [Sids -> Sessions]
    BY <1>7, SessionPatchType DEF CheckoutLink, TypeOK, BusyOK
  <2>3. checkout' \in [Rids -> Checkouts]
    BY <1>7, TripFacts
    DEF CheckoutLink, TypeOK, Checkouts, MaybeSid, IdleCheckout
  <2>4. \A x \in Rids : checkout'[x].pc = "link" => checkout'[x].sid \in Sids
    BY <1>7 DEF CheckoutLink, BusyOK, TypeOK, IdleCheckout
  <2> QED
    BY <1>7, <2>1, <2>2, <2>3, <2>4, WrittenStatuses, ChangeStatusType
    DEF CheckoutLink, TypeOK, BusyOK, office
<1>8. CASE CheckoutLinkFails(r)
  <2>1. stripe' \in [Sids -> Sessions]
    <3>1. \/ stripe' = [stripe EXCEPT ![checkout[r].sid].state = "expired"]
          \/ stripe' = stripe
      BY <1>8 DEF CheckoutLinkFails
    <3>2. checkout[r].sid \in Sids
      BY <1>8 DEF CheckoutLinkFails, BusyOK
    <3> QED
      <4>1. [stripe[checkout[r].sid] EXCEPT !.state = "expired"] \in Sessions
        BY <3>2, SessionPatchType DEF TypeOK
      <4>2. CASE stripe' = [stripe EXCEPT ![checkout[r].sid].state = "expired"]
        BY <4>1, <4>2 DEF TypeOK
      <4> QED
        BY <3>1, <4>2 DEF TypeOK
  <2>2. res' \in [Rids -> Rows]
    <3>1. res' = [res EXCEPT ![r].sid = NoSid] \/ res' = res
      BY <1>8 DEF CheckoutLinkFails
    <3> QED
      <4>1. [res[r] EXCEPT !.sid = NoSid] \in Rows
        BY PatchType DEF TypeOK
      <4>2. CASE res' = [res EXCEPT ![r].sid = NoSid]
        BY <4>1, <4>2 DEF TypeOK
      <4> QED
        BY <3>1, <4>2 DEF TypeOK
  <2>3. checkout' \in [Rids -> Checkouts]
    BY <1>8, TripFacts
    DEF CheckoutLinkFails, TypeOK, Checkouts, MaybeSid, IdleCheckout
  <2>4. \A x \in Rids : checkout'[x].pc = "link" => checkout'[x].sid \in Sids
    BY <1>8 DEF CheckoutLinkFails, BusyOK, TypeOK, IdleCheckout
  <2> QED
    BY <1>8, <2>1, <2>2, <2>3, <2>4
    DEF CheckoutLinkFails, TypeOK, BusyOK, office
<1>9. CASE CheckoutCrash(r)
  BY <1>9, TripFacts
  DEF CheckoutCrash, TypeOK, BusyOK, Checkouts, MaybeSid, IdleCheckout,
      tables, office
<1> QED
  BY <1>1, <1>2, <1>3, <1>4, <1>5, <1>6, <1>7, <1>8, <1>9 DEF CheckoutStep

\* The steps of a finalization.
LEMMA FinTypes ==
    ASSUME TypeInv, NEW p \in Procs, FinalizerStep(p)
    PROVE  TypeInv'
<1> USE DEF TypeInv
<1>1. IdleFin \in Finalizations /\ IdleFin.pc = "idle"
  BY DEF IdleFin, Finalizations, MaybeSid
<1>2. ASSUME NEW k \in {"webhook", "direct"}, NEW s \in Sids
      PROVE  Acknowledge(k, s) => events' \in SUBSET Sids
  BY DEF Acknowledge, TypeOK
<1>3. ASSUME NEW k \in {"webhook", "direct"}, NEW s \in Sids,
             AnswerKnown(p, k, s)
      PROVE  TypeInv'
  BY <1>2, <1>3 DEF AnswerKnown, TypeOK, BusyOK, guests, office
<1>4. ASSUME NEW k \in {"webhook", "direct"}, NEW s \in Sids,
             BeginFinalization(p, k, s)
      PROVE  TypeInv'
  <2> DEFINE r == Resolved(s)
             begun == [pc |-> IF Conflict(s, r, k) THEN "review"
                                                   ELSE "complete",
                       kind |-> k, sid |-> s, rid |-> r,
                       car |-> res[r].trip.car,
                       link |-> res[r].sid \in {NoSid, s}, err |-> "none"]
  <2>1. r \in Rids
    <3>1. r # NoRid
      BY <1>4 DEF BeginFinalization, AlreadyDone
    <3> QED
      BY <3>1 DEF Resolved
  <2>2. res[r].trip.car \in Cars
    BY <2>1, TripFacts DEF TypeOK, Rows
  <2>3. fin' = [fin EXCEPT ![p] = begun]
    BY <1>4 DEF BeginFinalization
  <2> HIDE DEF r
  <2>4. begun \in Finalizations
    BY <2>1, <2>2 DEF Finalizations, MaybeSid
  <2>5. begun.sid \in Sids /\ begun.rid \in Rids /\ begun.car \in Cars
    BY <2>1, <2>2
  <2> HIDE DEF begun
  <2>6. fin' \in [Procs -> Finalizations]
    BY <2>3, <2>4 DEF TypeOK
  <2>7. \A q \in Procs : fin'[q].pc # "idle" =>
            fin'[q].sid \in Sids /\ fin'[q].rid \in Rids
            /\ fin'[q].car \in Cars
    BY <2>3, <2>5 DEF TypeOK, BusyOK
  <2> QED
    BY <1>4, <2>6, <2>7
    DEF BeginFinalization, TypeOK, BusyOK, tables, guests, office
<1>5. ASSUME fin[p].pc # "idle", fin' = [fin EXCEPT ![p] = IdleFin]
      PROVE  /\ fin' \in [Procs -> Finalizations]
             /\ \A q \in Procs : fin'[q].pc # "idle" =>
                    fin'[q].sid \in Sids /\ fin'[q].rid \in Rids
                    /\ fin'[q].car \in Cars
  BY <1>1, <1>5 DEF TypeOK, BusyOK
<1>6. ASSUME fin[p].pc # "idle", NEW c \in {"recover", "review"},
             NEW e \in {"none", "invalid", "overlap", "unique"},
             fin' = [fin EXCEPT ![p] = [fin[p] EXCEPT !.pc = c, !.err = e]]
      PROVE  /\ fin' \in [Procs -> Finalizations]
             /\ \A q \in Procs : fin'[q].pc # "idle" =>
                    fin'[q].sid \in Sids /\ fin'[q].rid \in Rids
                    /\ fin'[q].car \in Cars
  <2>1. [fin[p] EXCEPT !.pc = c, !.err = e] \in Finalizations
    <3>1. fin[p] \in Finalizations
      BY DEF TypeOK
    <3> QED
      BY <3>1, Zenon DEF Finalizations
  <2> QED
    BY <1>6, <2>1 DEF TypeOK, BusyOK
<1>7. fin[p].pc # "idle" =>
          fin[p].sid \in Sids /\ fin[p].rid \in Rids /\ fin[p].car \in Cars
          /\ fin[p].kind \in {"webhook", "direct"}
  BY DEF TypeOK, BusyOK, Finalizations
<1>8. CASE Complete(p)
  <2> DEFINE r == fin[p].rid
  <2>0. r \in Rids /\ fin[p].sid \in Sids /\ fin[p].pc # "idle"
    BY <1>7, <1>8 DEF Complete
  <2>1. res' \in [Rids -> Rows]
    BY <1>8, <2>0, PatchType, InStatusType, WrittenStatuses
    DEF Complete, TypeOK, MaybeSid
  <2>2. BookedRange(p) \in Ranges
    <3>1. res[r].trip \in Ranges
      BY <2>0, TripFacts DEF TypeOK, Rows
    <3> QED
      BY <1>7, <2>0, <3>1 DEF BookedRange, Ranges
  <2>3. orders' \in [Rids -> [state : {"none", "live", "deleted"},
                              sid : MaybeSid]]
    BY <1>8, <2>0 DEF Complete, TypeOK, MaybeSid
  <2>4. gap' \in [Rids -> {"none", "bare_confirm", "stripped", "stale_car"}]
    BY <1>8, <2>0 DEF Complete, TypeOK
  <2>5. events' \in SUBSET Sids
    BY <1>2, <1>7, <1>8, <2>0 DEF Complete
  <2> QED
    BY <1>5, <1>8, <2>0, <2>1, <2>2, <2>3, <2>4, <2>5
    DEF Complete, TypeOK, BusyOK, guests, office
<1>9. CASE CompleteFails(p)
  <2>1. CompletionError(p) \in {"none", "invalid", "overlap", "unique"}
    BY DEF CompletionError
  <2>2. fin' = [fin EXCEPT ![p] = [fin[p] EXCEPT !.pc = "recover",
                                              !.err = CompletionError(p)]]
    BY <1>9 DEF CompleteFails, TypeOK
  <2> QED
    BY <1>6, <1>9, <2>1, <2>2
    DEF CompleteFails, TypeOK, BusyOK, tables, guests, office
<1>10. CASE RecoverKnown(p)
  <2>1. fin[p].pc # "idle" /\ events' \in SUBSET Sids
    BY <1>2, <1>7, <1>10 DEF RecoverKnown
  <2> QED
    BY <1>5, <1>10, <2>1 DEF RecoverKnown, TypeOK, BusyOK, guests, office
<1>11. CASE RecoverElse(p)
  <2>1. fin[p].pc # "idle" /\ fin[p].err \in {"none", "invalid", "overlap",
                                             "unique"}
    BY <1>11 DEF RecoverElse, TypeOK, Finalizations
  <2>2. \/ fin' = [fin EXCEPT ![p] = IdleFin]
        \/ fin' = [fin EXCEPT ![p] = [fin[p] EXCEPT !.pc = "review",
                                                   !.err = fin[p].err]]
    <3>1. [fin[p] EXCEPT !.pc = "review"] =
          [fin[p] EXCEPT !.pc = "review", !.err = fin[p].err]
      BY Zenon DEF TypeOK, Finalizations
    <3> QED
      BY <1>11, <3>1 DEF RecoverElse
  <2> QED
    BY <1>5, <1>6, <1>11, <2>1, <2>2
    DEF RecoverElse, TypeOK, BusyOK, tables, guests, office
<1>12. CASE Review(p)
  <2> DEFINE r == fin[p].rid
             row == IF fin[p].link THEN [res[r] EXCEPT !.sid = fin[p].sid]
                                   ELSE res[r]
  <2>1. /\ r \in Rids /\ fin[p].sid \in Sids /\ fin[p].pc # "idle"
        /\ events' \in SUBSET Sids
    BY <1>2, <1>7, <1>12 DEF Review
  <2>2. row \in Rows
    BY <2>1, PatchType DEF TypeOK, MaybeSid
  <2>3. \/ ChangeStatus(r, "manual_review", row)
        \/ UNCHANGED <<res, blocks, orders, reviewed, gap>>
    BY <1>12 DEF Review
  <2> HIDE DEF r, row
  <2>4. /\ res' \in [Rids -> Rows]
        /\ blocks' \in SUBSET Ranges
        /\ orders' \in [Rids -> [state : {"none", "live", "deleted"},
                                 sid : MaybeSid]]
        /\ gap' \in [Rids -> {"none", "bare_confirm", "stripped",
                              "stale_car"}]
        /\ reviewed' \in SUBSET Rids
    BY <2>1, <2>2, <2>3, WrittenStatuses, ChangeStatusType DEF TypeOK
  <2> QED
    BY <1>5, <1>12, <2>1, <2>4 DEF Review, TypeOK, BusyOK, guests, office
<1>13. CASE FinalizerCrash(p)
  BY <1>5, <1>13 DEF FinalizerCrash, TypeOK, BusyOK, tables, guests, office
<1> QED
  BY <1>3, <1>4, <1>8, <1>9, <1>10, <1>11, <1>12, <1>13 DEF FinalizerStep

\* The steps of Stripe, of the staff and of the cleanup job.
LEMMA OfficeTypes ==
    ASSUME TypeInv,
           \/ \E s \in Sids : StripeStep(s)
           \/ \E r \in Rids : StaffStep(r) \/ CleanupStep(r)
    PROVE  TypeInv'
<1> USE DEF TypeInv
<1>1. ASSUME NEW s \in Sids, StripeStep(s)
      PROVE  TypeInv'
  <2>1. stripe' \in [Sids -> Sessions]
    <3>1. stripe[s] \in Sessions
      BY DEF TypeOK
    <3>2. CASE stripe' = [stripe EXCEPT ![s].state = "paid"]
      BY <3>1, <3>2, SessionPatchType DEF TypeOK
    <3>3. CASE stripe' = [stripe EXCEPT ![s].state = "expired"]
      BY <3>1, <3>3, SessionPatchType DEF TypeOK
    <3> QED
      BY <1>1, <3>2, <3>3 DEF StripeStep, CustomerPays, StripeExpires
  <2> QED
    BY <1>1, <2>1 DEF StripeStep, CustomerPays, StripeExpires, TypeOK,
                      BusyOK, tables, guests, office
<1>2. ASSUME NEW r \in Rids
      PROVE  res[r] \in Rows /\ (res[r].status # "none"
                                     => res[r].status \in Statuses)
  BY DEF TypeOK, Rows
<1>3. ASSUME NEW r \in Rids, NEW new \in StaffStatuses, StaffSet(r, new)
      PROVE  TypeInv'
  BY <1>2, <1>3, WrittenStatuses, ChangeStatusType
  DEF StaffSet, TypeOK, BusyOK, guests, office
<1>4. ASSUME NEW r \in Rids, StaffConfirmRead(r)
      PROVE  TypeInv'
  <2>1. res[r].sid \in MaybeSid
    BY DEF TypeOK, Rows
  <2> QED
    BY <1>4, <2>1 DEF StaffConfirmRead, TypeOK, BusyOK, tables, guests
<1>5. ASSUME NEW r \in Rids, staff' = [staff EXCEPT ![r] = IdleStaff]
      PROVE  staff' \in [Rids -> [path : {"idle", "review", "generic"},
                                  sid : MaybeSid]]
  BY <1>5 DEF TypeOK, IdleStaff, MaybeSid
<1>6. ASSUME NEW r \in Rids, StaffConfirmReview(r)
      PROVE  TypeInv'
  <2>1. res' \in [Rids -> Rows]
    BY <1>2, <1>6, InStatusType, WrittenStatuses
    DEF StaffConfirmReview, TypeOK
  <2>2. res[r].trip \in Ranges
    BY TripFacts DEF TypeOK, Rows
  <2>3. orders' \in [Rids -> [state : {"none", "live", "deleted"},
                              sid : MaybeSid]]
    BY <1>6 DEF StaffConfirmReview, TypeOK
  <2> QED
    BY <1>5, <1>6, <2>1, <2>2, <2>3
    DEF StaffConfirmReview, TypeOK, BusyOK, guests
<1>7. ASSUME NEW r \in Rids, StaffConfirmGeneric(r)
      PROVE  TypeInv'
  <2>1. res' \in [Rids -> Rows]
    BY <1>2, <1>7, InStatusType, WrittenStatuses
    DEF StaffConfirmGeneric, TypeOK
  <2> QED
    BY <1>5, <1>7, <2>1 DEF StaffConfirmGeneric, TypeOK, BusyOK, guests
<1>8. ASSUME NEW r \in Rids, StaffConfirmFails(r)
      PROVE  TypeInv'
  BY <1>5, <1>8 DEF StaffConfirmFails, TypeOK, BusyOK, tables, guests
<1>9. ASSUME NEW r \in Rids,
             RefundStart(r) \/ RefundFails(r) \/ RefundResumes(r)
      PROVE  TypeInv'
  BY <1>9 DEF RefundStart, RefundFails, RefundResumes, TypeOK, BusyOK, guests,
              office
<1>10. ASSUME NEW r \in Rids, RefundSucceeds(r)
       PROVE  TypeInv'
  <2>1. \/ ChangeStatus(r, "refunded", res[r])
        \/ ChangeStatus(r, "manual_review", res[r])
        \/ UNCHANGED <<res, blocks, orders, reviewed, gap>>
    BY <1>10 DEF RefundSucceeds
  <2>2. /\ res' \in [Rids -> Rows]
        /\ blocks' \in SUBSET Ranges
        /\ orders' \in [Rids -> [state : {"none", "live", "deleted"},
                                 sid : MaybeSid]]
        /\ gap' \in [Rids -> {"none", "bare_confirm", "stripped",
                              "stale_car"}]
        /\ reviewed' \in SUBSET Rids
    BY <1>2, <2>1, WrittenStatuses, ChangeStatusType DEF TypeOK
  <2> QED
    BY <1>10, <2>2 DEF RefundSucceeds, TypeOK, BusyOK, guests, office
<1>11. ASSUME NEW r \in Rids, AbandonSweep(r)
       PROVE  TypeInv'
  <2>1. res' \in [Rids -> Rows]
    BY <1>2, <1>11, InStatusType, WrittenStatuses DEF AbandonSweep, TypeOK
  <2> QED
    BY <1>11, <2>1 DEF AbandonSweep, TypeOK, BusyOK, guests, office
<1>12. ASSUME NEW r \in Rids, SweepRead(r)
       PROVE  TypeInv'
  BY <1>12 DEF SweepRead, TypeOK, BusyOK, tables, guests
<1>13. ASSUME NEW r \in Rids, SweepExpire(r)
       PROVE  TypeInv'
  <2>1. \/ ChangeStatus(r, "expired", res[r])
        \/ UNCHANGED <<res, blocks, orders, reviewed, gap>>
    BY <1>13 DEF SweepExpire
  <2>2. /\ res' \in [Rids -> Rows]
        /\ blocks' \in SUBSET Ranges
        /\ orders' \in [Rids -> [state : {"none", "live", "deleted"},
                                 sid : MaybeSid]]
        /\ gap' \in [Rids -> {"none", "bare_confirm", "stripped",
                              "stale_car"}]
        /\ reviewed' \in SUBSET Rids
    BY <1>2, <2>1, WrittenStatuses, ChangeStatusType DEF TypeOK
  <2> QED
    BY <1>13, <2>2 DEF SweepExpire, TypeOK, BusyOK, guests
<1>14. ASSUME NEW r \in Rids, StaffStep(r)
       PROVE  TypeInv'
  BY <1>3, <1>4, <1>6, <1>7, <1>8, <1>9, <1>10, <1>14 DEF StaffStep
<1>15. ASSUME NEW r \in Rids, CleanupStep(r)
       PROVE  TypeInv'
  BY <1>11, <1>12, <1>13, <1>15 DEF CleanupStep
<1> QED
  BY <1>1, <1>14, <1>15

\* Every step of every program keeps the types, and a program in flight keeps
\* its session, reservation and car.
LEMMA TypeStep == TypeInv /\ [Next]_vars => TypeInv'
<1>1. TypeInv /\ UNCHANGED vars => TypeInv'
  BY DEF TypeInv, TypeOK, BusyOK, vars, tables, guests, office
<1>2. TypeInv /\ Next => TypeInv'
  BY HoldTypes, CheckoutTypes, FinTypes, OfficeTypes DEF Next
<1> QED
  BY <1>1, <1>2

\* The state always has its types, and a program in flight always knows its
\* session, reservation and car.
THEOREM TypeCorrect == Spec => [](TypeOK /\ BusyOK)
<1>1. Spec => []TypeInv
  BY TypeInit, TypeStep, PTL DEF Spec
<1> QED
  BY <1>1, PTL DEF TypeInv

-----------------------------------------------------------------------------
(* What a step may do to the tables.  Every action, whoever runs it, changes *)
(* statuses, orders, blocks and refunds in one of six ways; the invariants   *)
(* below are proved about the six ways.                                      *)

\* Rows keep their trips and statuses, but that some holds expire.
RowsKeptBut(R) ==
    \A x \in Rids \ R :
        /\ res'[x].trip = res[x].trip
        /\ \/ res'[x].status = res[x].status
           \/ IsHold(x) /\ res'[x].status = "expired"

Mild == RowsKeptBut({}) /\ UNCHANGED <<blocks, orders, refunds, gap>>

\* r becomes a hold over dates that no other hold wants.
Hold(r) ==
    /\ res[r].status \in {"none", "pending_payment"}
    /\ res'[r].status = "pending_payment"
    /\ RowsKeptBut({r})
    /\ \A x \in Rids \ {r} : res'[x].status \in ActiveHoldStatuses
           => ~Overlaps(res'[x].trip, res'[r].trip)
    /\ UNCHANGED <<blocks, orders, refunds, gap>>

\* changeStatus, to a status that needs no order.
Change(r, new) ==
    /\ MayChange(r, new)
    /\ new = "confirmed" => res[r].status = "confirmed"
    /\ res'[r].status = new /\ res'[r].trip = res[r].trip
    /\ \A x \in Rids \ {r} : res'[x] = res[x]
    /\ IF Releases(r, new)
       THEN /\ blocks' = ReleaseRange(blocks, res[r].trip)
            /\ orders' = OrdersAfterRelease(r, new)
            /\ gap' = GapAfterRelease(r)
       ELSE UNCHANGED <<blocks, orders, gap>>
    /\ \/ refunds' = refunds /\ (new = "refunded" => res[r].status = new)
       \/ /\ refunds' = [refunds EXCEPT ![r] = "succeeded"]
          /\ refunds[r] \in {"pending", "failed"}
          /\ new = Settled(res[r].status)

\* r is confirmed with its order, over a free range.
Book(r, range) ==
    /\ MayChange(r, "paid") \/ MayChange(r, "confirmed")
    /\ Free(blocks, range) /\ orders[r].state = "none"
    /\ res'[r].status = "confirmed" /\ res'[r].trip = res[r].trip
    /\ \A x \in Rids \ {r} : res'[x] = res[x] /\ gap'[x] = gap[x]
                             /\ orders'[x] = orders[x]
    /\ blocks' = blocks \cup {range}
    /\ orders'[r].state = "live"
    /\ gap'[r] = "none" => range = res[r].trip
    /\ UNCHANGED refunds

\* r is confirmed without an order.
Bare(r) ==
    /\ MayChange(r, "confirmed") /\ res[r].status # "confirmed"
    /\ res'[r].status = "confirmed" /\ res'[r].trip = res[r].trip
    /\ \A x \in Rids \ {r} : res'[x] = res[x] /\ gap'[x] = gap[x]
    /\ gap'[r] = "bare_confirm"
    /\ UNCHANGED <<blocks, orders, refunds>>

\* Only the ledger of r's refund changes.
Ledger(r) ==
    /\ \E v \in {"pending", "failed", "succeeded"} :
           /\ refunds' = [refunds EXCEPT ![r] = v]
           /\ v = "pending" =>
                 \/ refunds[r] = "none" /\ res[r].status \in RefundableStatuses
                 \/ refunds[r] = "failed"
           /\ v = "failed" => refunds[r] = "pending"
           /\ v = "succeeded" => /\ refunds[r] \in {"pending", "failed"}
                                 /\ res[r].status = Settled(res[r].status)
    /\ refunds[r] # "succeeded"
    /\ UNCHANGED <<res, blocks, orders, gap>>

TableStep ==
    \/ Mild
    \/ \E r \in Rids :
          \/ Hold(r) \/ Bare(r) \/ Ledger(r)
          \/ \E new \in Statuses : Change(r, new)
          \/ \E range \in Ranges : Book(r, range)

\* changeStatus, with any patch that leaves the trip alone, is one Change.
LEMMA ChangeFromChangeStatus ==
    ASSUME TypeOK, NEW r \in Rids, NEW new \in Statuses, NEW row \in Rows,
           row.trip = res[r].trip, ChangeStatus(r, new, row),
           new = "confirmed" => res[r].status = "confirmed",
           \/ refunds' = refunds /\ (new = "refunded" => res[r].status = new)
           \/ /\ refunds' = [refunds EXCEPT ![r] = "succeeded"]
              /\ refunds[r] \in {"pending", "failed"}
              /\ new = Settled(res[r].status)
    PROVE  Change(r, new)
<1>1. res'[r] = InStatus(row, new) /\ \A x \in Rids \ {r} : res'[x] = res[x]
  BY DEF ChangeStatus, TypeOK
<1>2. res'[r].status = new /\ res'[r].trip = res[r].trip
  BY <1>1, InStatusType
<1> QED
  BY <1>1, <1>2 DEF ChangeStatus, Change

\* What the steps of guests that hold a car do to the tables.
LEMMA HoldCases ==
    ASSUME TypeInv, NEW r \in Rids, HoldStep(r)
    PROVE  TableStep
<1> USE DEF TypeInv
<1>1. ASSUME NEW t \in Trips, NEW c \in Prices, NEW b \in BOOLEAN,
             CreateHold(r, t, c, b)
      PROVE  TableStep
  <2> DEFINE hold == [status |-> "pending_payment", trip |-> t,
                      live |-> TRUE, sid |-> NoSid, price |-> c]
             swept == ExpireStale({t.car})
  <2>1. /\ res[r].status = "none"
        /\ \/ res' = [swept EXCEPT ![r] = hold] /\ Available(t, r)
           \/ res' = swept
        /\ UNCHANGED <<blocks, orders, refunds, gap>>
    BY <1>1 DEF CreateHold
  <2>2. hold.status = "pending_payment" /\ hold.trip = t
    OBVIOUS
  <2>3. /\ swept \in [Rids -> Rows]
        /\ \A x \in Rids :
             /\ swept[x].trip = res[x].trip
             /\ swept[x].status =
                  IF IsHold(x) /\ ~res[x].live /\ res[x].trip.car \in {t.car}
                  THEN "expired" ELSE res[x].status
    BY ExpireStaleType
  <2> HIDE DEF hold, swept
  <2>4. CASE res' = swept
    BY <2>1, <2>3, <2>4 DEF TableStep, Mild, RowsKeptBut
  <2>5. CASE res' = [swept EXCEPT ![r] = hold] /\ Available(t, r)
    <3>1. res'[r] = hold /\ \A x \in Rids \ {r} : res'[x] = swept[x]
      BY <2>3, <2>5
    <3>2. \A x \in Rids \ {r} : res'[x].status \in ActiveHoldStatuses
              => ~Overlaps(res'[x].trip, t)
      <4> SUFFICES ASSUME NEW x \in Rids \ {r},
                          res'[x].status \in ActiveHoldStatuses,
                          Overlaps(res[x].trip, t)
                   PROVE  FALSE
        BY <2>3, <3>1
      <4>1. IsHold(x) /\ res[x].live
        BY <2>3, <3>1 DEF IsHold, ActiveHoldStatuses, Overlaps
      <4> QED
        BY <2>5, <4>1 DEF Available, LiveHoldOn
    <3>3. Hold(r)
      BY <2>1, <2>2, <2>3, <3>1, <3>2 DEF Hold, RowsKeptBut
    <3> QED
      BY <3>3 DEF TableStep
  <2> QED
    BY <2>1, <2>4, <2>5
<1>2. ASSUME NEW t \in Trips, NEW c \in Prices, Rehold(r, t, c)
      PROVE  TableStep
  <2> DEFINE swept == ExpireStale({t.car, res[r].trip.car})
  <2>1. /\ res[r].status = "pending_payment" /\ res[r].live
        /\ \/ /\ res' = [swept EXCEPT ![r].trip = t, ![r].price = c]
              /\ Available(t, r)
           \/ res' = swept
        /\ UNCHANGED <<blocks, orders, refunds, gap>>
    BY <1>2 DEF Rehold
  <2>2. /\ swept \in [Rids -> Rows]
        /\ \A x \in Rids :
             /\ swept[x].trip = res[x].trip
             /\ swept[x].status =
                  IF IsHold(x) /\ ~res[x].live
                     /\ res[x].trip.car \in {t.car, res[r].trip.car}
                  THEN "expired" ELSE res[x].status
    BY ExpireStaleType
  <2> HIDE DEF swept
  <2>3. CASE res' = swept
    BY <2>1, <2>2, <2>3 DEF TableStep, Mild, RowsKeptBut
  <2>4. CASE res' = [swept EXCEPT ![r].trip = t, ![r].price = c]
             /\ Available(t, r)
    <3>1. /\ res'[r] = [swept[r] EXCEPT !.trip = t, !.price = c]
          /\ \A x \in Rids \ {r} : res'[x] = swept[x]
          /\ swept[r] \in Rows
      BY <2>2, <2>4
    <3>2. res'[r].status = "pending_payment" /\ res'[r].trip = t
      BY <2>1, <2>2, <3>1 DEF Rows
    <3>3. \A x \in Rids \ {r} : res'[x].status \in ActiveHoldStatuses
              => ~Overlaps(res'[x].trip, t)
      <4> SUFFICES ASSUME NEW x \in Rids \ {r},
                          res'[x].status \in ActiveHoldStatuses,
                          Overlaps(res[x].trip, t)
                   PROVE  FALSE
        BY <2>2, <3>1
      <4>1. IsHold(x) /\ res[x].live
        BY <2>2, <3>1 DEF IsHold, ActiveHoldStatuses, Overlaps
      <4> QED
        BY <2>4, <4>1 DEF Available, LiveHoldOn
    <3>4. Hold(r)
      BY <2>1, <2>2, <3>1, <3>2, <3>3 DEF Hold, RowsKeptBut
    <3> QED
      BY <3>4 DEF TableStep
  <2> QED
    BY <2>1, <2>3, <2>4
<1>3. ASSUME NEW c \in Prices, NEW seen \in ActiveHoldStatuses,
             RepriceHold(r, seen, c)
      PROVE  TableStep
  <2> DEFINE row == [res[r] EXCEPT !.price = c]
  <2>1. /\ seen \in Statuses /\ seen \notin {"confirmed", "refunded"}
        /\ row \in Rows /\ row.trip = res[r].trip
    <3>1. res[r] \in Rows
      BY DEF TypeOK
    <3>2. row \in Rows /\ row.trip = res[r].trip
      BY <3>1, PatchType, PatchKeeps
    <3>3. seen \in Statuses /\ seen \notin {"confirmed", "refunded"}
      BY DEF ActiveHoldStatuses, Statuses
    <3> QED
      BY <3>2, <3>3
  <2>2. ChangeStatus(r, seen, row) /\ refunds' = refunds
    BY <1>3 DEF RepriceHold
  <2> HIDE DEF row
  <2>3. Change(r, seen)
    BY <2>1, <2>2, ChangeFromChangeStatus
  <2> QED
    BY <2>1, <2>3 DEF TableStep
<1>4. CASE HoldLapses(r)
  <2>1. \A x \in Rids : res'[x].trip = res[x].trip
                        /\ res'[x].status = res[x].status
    BY <1>4 DEF HoldLapses, TypeOK, Rows
  <2> QED
    BY <1>4, <2>1 DEF HoldLapses, TableStep, Mild, RowsKeptBut
<1>5. CASE ReleaseRead(r)
  BY <1>5 DEF ReleaseRead, tables, TableStep, Mild, RowsKeptBut
<1>6. CASE ReleaseAct(r)
  <2> DEFINE row == [res[r] EXCEPT !.live = FALSE]
  <2>1. row \in Rows /\ row.trip = res[r].trip
    BY PatchType, PatchKeeps DEF TypeOK
  <2>2. /\ \/ ChangeStatus(r, "cancelled", row)
           \/ UNCHANGED <<res, blocks, orders, gap>>
        /\ refunds' = refunds
    BY <1>6 DEF ReleaseAct
  <2> HIDE DEF row
  <2>3. CASE ChangeStatus(r, "cancelled", row)
    <3>1. Change(r, "cancelled")
      BY <2>1, <2>2, <2>3, WrittenStatuses, ChangeFromChangeStatus
    <3> QED
      BY <3>1, WrittenStatuses DEF TableStep
  <2>4. CASE UNCHANGED <<res, blocks, orders, gap>>
    BY <2>2, <2>4 DEF TableStep, Mild, RowsKeptBut
  <2> QED
    BY <2>2, <2>3, <2>4
<1> QED
  BY <1>1, <1>2, <1>3, <1>4, <1>5, <1>6 DEF HoldStep

\* What the steps of a checkout request do to the tables.
LEMMA CheckoutCases ==
    ASSUME TypeInv, NEW r \in Rids, CheckoutStep(r)
    PROVE  TableStep
<1> USE DEF TypeInv
<1>0. res[r] \in Rows
  BY DEF TypeOK
<1>1. ASSUME NEW c \in Prices, CheckoutPrepare(r, c)
      PROVE  TableStep
  <2> DEFINE row == [res[r] EXCEPT !.live = TRUE, !.price = c]
  <2>1. row \in Rows /\ row.trip = res[r].trip
    BY <1>0, PatchType, PatchKeeps
  <2>2. ChangeStatus(r, "pending_payment", row) /\ refunds' = refunds
    BY <1>1 DEF CheckoutPrepare
  <2> HIDE DEF row
  <2>3. Change(r, "pending_payment")
    BY <2>1, <2>2, WrittenStatuses, ChangeFromChangeStatus
  <2> QED
    BY <2>3, WrittenStatuses DEF TableStep
<1>2. CASE CheckoutRefuse(r) \/ CheckoutCrash(r)
           \/ \E s \in Sids : CheckoutCreate(r, s)
  BY <1>2 DEF CheckoutRefuse, CheckoutCrash, CheckoutCreate, tables,
              TableStep, Mild, RowsKeptBut
<1>3. CASE CheckoutReuse(r)
  <2>1. ChangeStatus(r, "processing_payment", res[r]) /\ refunds' = refunds
    BY <1>3 DEF CheckoutReuse
  <2>2. Change(r, "processing_payment")
    BY <1>0, <2>1, WrittenStatuses, ChangeFromChangeStatus
  <2> QED
    BY <2>2, WrittenStatuses DEF TableStep
<1>4. ASSUME res' = [res EXCEPT ![r].sid = NoSid] \/ res' = res
      PROVE  RowsKeptBut({})
  <2>1. CASE res' = [res EXCEPT ![r].sid = NoSid]
    <3>1. res' = [res EXCEPT ![r] = [res[r] EXCEPT !.sid = NoSid]]
      BY <2>1 DEF TypeOK
    <3>2. \A x \in Rids : res'[x].trip = res[x].trip
                          /\ res'[x].status = res[x].status
      BY <1>0, <3>1, PatchKeeps DEF TypeOK
    <3> QED
      BY <3>2 DEF RowsKeptBut
  <2>2. CASE res' = res
    BY <2>2 DEF RowsKeptBut
  <2> QED
    BY <1>4, <2>1, <2>2
<1>5. CASE CheckoutSupersede(r)
  BY <1>4, <1>5 DEF CheckoutSupersede, TableStep, Mild
<1>6. CASE CheckoutLinkFails(r)
  BY <1>4, <1>6 DEF CheckoutLinkFails, TableStep, Mild
<1>7. CASE CheckoutCreateFails(r)
  <2> DEFINE row == [res[r] EXCEPT !.live = FALSE]
  <2>1. row \in Rows /\ row.trip = res[r].trip
    BY <1>0, PatchType, PatchKeeps
  <2>2. /\ \/ ChangeStatus(r, "cancelled", row)
           \/ UNCHANGED <<res, blocks, orders, gap>>
        /\ refunds' = refunds
    BY <1>7 DEF CheckoutCreateFails
  <2> HIDE DEF row
  <2>3. CASE ChangeStatus(r, "cancelled", row)
    <3>1. Change(r, "cancelled")
      BY <2>1, <2>2, <2>3, WrittenStatuses, ChangeFromChangeStatus
    <3> QED
      BY <3>1, WrittenStatuses DEF TableStep
  <2>4. CASE UNCHANGED <<res, blocks, orders, gap>>
    BY <2>2, <2>4 DEF TableStep, Mild, RowsKeptBut
  <2> QED
    BY <2>2, <2>3, <2>4
<1>8. CASE CheckoutLink(r)
  <2> DEFINE row == [res[r] EXCEPT !.sid = checkout[r].sid]
  <2>1. row \in Rows /\ row.trip = res[r].trip
    BY <1>0, <1>8, PatchType, PatchKeeps
    DEF CheckoutLink, TypeOK, BusyOK, MaybeSid
  <2>2. ChangeStatus(r, "processing_payment", row) /\ refunds' = refunds
    BY <1>8 DEF CheckoutLink
  <2> HIDE DEF row
  <2>3. Change(r, "processing_payment")
    BY <2>1, <2>2, WrittenStatuses, ChangeFromChangeStatus
  <2> QED
    BY <2>3, WrittenStatuses DEF TableStep
<1> QED
  BY <1>1, <1>2, <1>3, <1>5, <1>6, <1>7, <1>8 DEF CheckoutStep

\* What the steps of a finalization do to the tables.
LEMMA FinCases ==
    ASSUME TypeInv, NEW p \in Procs, FinalizerStep(p)
    PROVE  TableStep
<1> USE DEF TypeInv
<1> DEFINE r == fin[p].rid
<1>1. CASE \/ \E k \in {"webhook", "direct"}, s \in Sids :
                 AnswerKnown(p, k, s) \/ BeginFinalization(p, k, s)
           \/ CompleteFails(p) \/ RecoverKnown(p) \/ RecoverElse(p)
           \/ FinalizerCrash(p)
  BY <1>1 DEF AnswerKnown, BeginFinalization, CompleteFails, RecoverKnown,
              RecoverElse, FinalizerCrash, tables, TableStep, Mild,
              RowsKeptBut
<1>2. CASE Complete(p)
  <2> DEFINE row == [res[r] EXCEPT !.sid = fin[p].sid]
  <2>1. r \in Rids /\ fin[p].sid \in MaybeSid
    BY <1>2 DEF Complete, BusyOK, MaybeSid
  <2>2. row \in Rows /\ row.trip = res[r].trip
    BY <2>1, PatchType, PatchKeeps DEF TypeOK
  <2>3. res' = [res EXCEPT ![r] = InStatus(row, "confirmed")]
    BY <1>2 DEF Complete
  <2> HIDE DEF row
  <2>4. /\ res'[r].status = "confirmed" /\ res'[r].trip = res[r].trip
        /\ \A x \in Rids \ {r} : res'[x] = res[x]
    <3>1. /\ InStatus(row, "confirmed").status = "confirmed"
          /\ InStatus(row, "confirmed").trip = res[r].trip
      BY <2>2, InStatusType, WrittenStatuses
    <3> QED
      BY <2>1, <2>3, <3>1 DEF TypeOK
  <2>5. /\ MayChange(r, "paid")
        /\ Free(blocks, BookedRange(p))
        /\ orders[r].state = "none"
    BY <1>2 DEF Complete, CompletionError
  <2>6. /\ orders'[r].state = "live"
        /\ \A x \in Rids \ {r} : orders'[x] = orders[x] /\ gap'[x] = gap[x]
        /\ gap'[r] = "none" => fin[p].car = res[r].trip.car
    BY <1>2, <2>1 DEF Complete, TypeOK
  <2>7. res[r].trip \in Ranges
    BY <2>1, TripFacts DEF TypeOK, Rows
  <2>8. /\ BookedRange(p) \in Ranges
        /\ fin[p].car = res[r].trip.car => BookedRange(p) = res[r].trip
    BY <1>2, <2>7 DEF Complete, BusyOK, BookedRange, Ranges
  <2>9. Book(r, BookedRange(p))
    BY <1>2, <2>4, <2>5, <2>6, <2>8 DEF Complete, Book
  <2> QED
    BY <2>1, <2>8, <2>9 DEF TableStep
<1>3. CASE Review(p)
  <2> DEFINE row == IF fin[p].link THEN [res[r] EXCEPT !.sid = fin[p].sid]
                                   ELSE res[r]
  <2>1. r \in Rids /\ fin[p].sid \in MaybeSid
    BY <1>3 DEF Review, BusyOK, MaybeSid
  <2>2. row \in Rows /\ row.trip = res[r].trip
    BY <2>1, PatchType, PatchKeeps DEF TypeOK
  <2>3. /\ \/ ChangeStatus(r, "manual_review", row)
           \/ UNCHANGED <<res, blocks, orders, gap>>
        /\ refunds' = refunds
    BY <1>3 DEF Review
  <2> HIDE DEF r, row
  <2>4. CASE ChangeStatus(r, "manual_review", row)
    <3>1. Change(r, "manual_review")
      BY <2>1, <2>2, <2>3, <2>4, WrittenStatuses, ChangeFromChangeStatus
    <3> QED
      BY <2>1, <3>1, WrittenStatuses DEF TableStep
  <2>5. CASE UNCHANGED <<res, blocks, orders, gap>>
    BY <2>3, <2>5 DEF TableStep, Mild, RowsKeptBut
  <2> QED
    BY <2>3, <2>4, <2>5
<1> QED
  BY <1>1, <1>2, <1>3 DEF FinalizerStep

\* What the steps of Stripe, the staff and the cleanup job do to the tables.
LEMMA OfficeCases ==
    ASSUME TypeInv, NEW r \in Rids, StaffStep(r) \/ CleanupStep(r)
    PROVE  TableStep
<1> USE DEF TypeInv
<1>0. res[r] \in Rows
  BY DEF TypeOK
<1>1. ASSUME NEW new \in StaffStatuses, StaffSet(r, new)
      PROVE  TableStep
  <2>1. ChangeStatus(r, new, res[r]) /\ refunds' = refunds
    BY <1>1 DEF StaffSet
  <2>2. new # "confirmed" /\ new # "refunded"
    BY StaffAssumption DEF AdminOpsStatuses, OpsStatuses
  <2>3. Change(r, new)
    BY <1>0, <2>1, <2>2, WrittenStatuses, ChangeFromChangeStatus
  <2> QED
    BY <2>3, WrittenStatuses DEF TableStep
<1>2. CASE StaffConfirmRead(r) \/ StaffConfirmFails(r) \/ SweepRead(r)
  BY <1>2 DEF StaffConfirmRead, StaffConfirmFails, SweepRead, tables,
              TableStep, Mild, RowsKeptBut
<1>3. /\ InStatus(res[r], "confirmed").status = "confirmed"
      /\ InStatus(res[r], "confirmed").trip = res[r].trip
      /\ InStatus(res[r], "expired").status = "expired"
      /\ InStatus(res[r], "expired").trip = res[r].trip
  BY <1>0, InStatusType, WrittenStatuses
<1>4. CASE StaffConfirmReview(r)
  <2>1. /\ res'[r].status = "confirmed" /\ res'[r].trip = res[r].trip
        /\ \A x \in Rids \ {r} : res'[x] = res[x] /\ gap'[x] = gap[x]
                                 /\ orders'[x] = orders[x]
        /\ orders'[r].state = "live"
    BY <1>3, <1>4 DEF StaffConfirmReview, TypeOK
  <2>2. res[r].trip \in Ranges
    BY <1>0, TripFacts DEF Rows
  <2>3. Book(r, res[r].trip)
    BY <1>4, <2>1 DEF StaffConfirmReview, Book
  <2> QED
    BY <2>2, <2>3 DEF TableStep
<1>5. CASE StaffConfirmGeneric(r)
  <2>1. /\ res'[r].status = "confirmed" /\ res'[r].trip = res[r].trip
        /\ \A x \in Rids \ {r} : res'[x] = res[x] /\ gap'[x] = gap[x]
        /\ gap'[r] = "bare_confirm"
    BY <1>3, <1>5 DEF StaffConfirmGeneric, TypeOK
  <2> QED
    BY <1>5, <2>1 DEF StaffConfirmGeneric, TableStep, Bare
<1>6. CASE RefundStart(r)
  <2>1. Ledger(r)
    BY <1>6 DEF RefundStart, Ledger
  <2> QED
    BY <2>1 DEF TableStep
<1>7. CASE RefundFails(r) \/ RefundResumes(r)
  <2>1. Ledger(r)
    BY <1>7 DEF RefundFails, FailsOver, RefundResumes, Ledger
  <2> QED
    BY <2>1 DEF TableStep
<1>8. CASE RefundSucceeds(r)
  <2>1. /\ refunds[r] \in {"pending", "failed"}
        /\ refunds' = [refunds EXCEPT ![r] = "succeeded"]
        /\ \/ /\ ChangeStatus(r, "refunded", res[r])
              /\ Settled(res[r].status) = "refunded"
           \/ /\ ChangeStatus(r, "manual_review", res[r])
              /\ Settled(res[r].status) = "manual_review"
           \/ /\ UNCHANGED <<res, blocks, orders, gap>>
              /\ Settled(res[r].status) = res[r].status
    BY <1>8 DEF RefundSucceeds, MayChange, AllowedDuringPendingRefund,
                RefundableStatuses, Settled
  <2>2. CASE /\ ChangeStatus(r, "refunded", res[r])
             /\ Settled(res[r].status) = "refunded"
    <3>1. Change(r, "refunded")
      BY <1>0, <2>1, <2>2, WrittenStatuses, ChangeFromChangeStatus
    <3> QED
      BY <3>1, WrittenStatuses DEF TableStep
  <2>3. CASE /\ ChangeStatus(r, "manual_review", res[r])
             /\ Settled(res[r].status) = "manual_review"
    <3>1. Change(r, "manual_review")
      BY <1>0, <2>1, <2>3, WrittenStatuses, ChangeFromChangeStatus
    <3> QED
      BY <3>1, WrittenStatuses DEF TableStep
  <2>4. CASE /\ UNCHANGED <<res, blocks, orders, gap>>
             /\ Settled(res[r].status) = res[r].status
    <3>1. Ledger(r)
      BY <2>1, <2>4 DEF Ledger
    <3> QED
      BY <3>1 DEF TableStep
  <2> QED
    BY <2>1, <2>2, <2>3, <2>4
<1>9. CASE AbandonSweep(r)
  <2>1. \A x \in Rids : \/ res'[x] = res[x]
                        \/ x = r /\ res'[x] = InStatus(res[r], "expired")
    BY <1>9 DEF AbandonSweep, TypeOK
  <2> QED
    BY <1>3, <1>9, <2>1 DEF AbandonSweep, TableStep, Mild, RowsKeptBut
<1>10. CASE SweepExpire(r)
  <2>1. /\ \/ ChangeStatus(r, "expired", res[r])
           \/ UNCHANGED <<res, blocks, orders, gap>>
        /\ refunds' = refunds
    BY <1>10 DEF SweepExpire
  <2>2. CASE ChangeStatus(r, "expired", res[r])
    <3>1. Change(r, "expired")
      BY <1>0, <2>1, <2>2, WrittenStatuses, ChangeFromChangeStatus
    <3> QED
      BY <3>1, WrittenStatuses DEF TableStep
  <2>3. CASE UNCHANGED <<res, blocks, orders, gap>>
    BY <2>1, <2>3 DEF TableStep, Mild, RowsKeptBut
  <2> QED
    BY <2>1, <2>2, <2>3
<1>11. CASE StaffStep(r)
  BY <1>1, <1>2, <1>4, <1>5, <1>6, <1>7, <1>8, <1>11 DEF StaffStep
<1>12. CASE CleanupStep(r)
  BY <1>2, <1>9, <1>10, <1>12 DEF CleanupStep
<1> QED
  BY <1>11, <1>12

\* Whoever takes a step, it does one of six things to the tables: the safety
\* proofs are by these cases, not by the thirty actions.
LEMMA StepCases == TypeInv /\ [Next]_vars => TableStep
<1>1. UNCHANGED vars => TableStep
  BY DEF vars, tables, TableStep, Mild, RowsKeptBut
<1>2. TypeInv /\ (\E s \in Sids : StripeStep(s)) => TableStep
  BY DEF StripeStep, CustomerPays, StripeExpires, tables, TableStep, Mild,
         RowsKeptBut
<1>3. TypeInv /\ Next => TableStep
  BY <1>2, HoldCases, CheckoutCases, FinCases, OfficeCases DEF Next
<1> QED
  BY <1>1, <1>3
=============================================================================
