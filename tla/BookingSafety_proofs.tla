------------------------ MODULE BookingSafety_proofs ------------------------
(***************************************************************************)
(* The safety of bookings, orders, holds and refunds, from the six ways in *)
(* which a step may change the tables (TableStep).                         *)
(***************************************************************************)
EXTENDS BookingFinalization_proofs

-----------------------------------------------------------------------------
(* The lifecycle graph *)

\* Operational statuses are entered through confirmed only and left by
\* giving the car back; a no-show is final; nothing becomes a hold again.
LEMMA LifecycleFacts ==
    ASSUME NEW old, NEW new, CanTransition(old, new)
    PROVE  /\ new \in OpsStatuses /\ new # "confirmed" => old \in OpsStatuses
           /\ old \in OpsStatuses => new \in OpsStatuses \cup ReleasingStatuses
           /\ old = "no_show" => new = "no_show"
           /\ new \in ActiveHoldStatuses => old \in ActiveHoldStatuses
BY DEF CanTransition, Transitions, Statuses, OpsStatuses, ReleasingStatuses,
       ActiveHoldStatuses

\* Only a hold expires, and only holds, expired ones and paid ones are paid.
LEMMA ExpiryFacts ==
    ASSUME NEW old, NEW new, CanTransition(old, new)
    PROVE  /\ new = "expired" => old \in ActiveHoldStatuses \cup {"expired"}
           /\ new = "paid" =>
                  old \in ActiveHoldStatuses \cup {"expired", "paid"}
BY DEF CanTransition, Transitions, Statuses, OpsStatuses, ActiveHoldStatuses

\* How the kinds of status lie to one another.
LEMMA StatusKinds ==
    /\ OpsStatuses \cap ActiveHoldStatuses = {}
    /\ OpsStatuses \cap ReleasingStatuses = {}
    /\ ActiveHoldStatuses \cap ReleasingStatuses = {}
    /\ ActiveHoldStatuses \cap RefundableStatuses = {}
    /\ "confirmed" \in OpsStatuses \cap RefundableStatuses
    /\ "expired" \notin OpsStatuses \cup ActiveHoldStatuses
    /\ "none" \notin OpsStatuses \cup ActiveHoldStatuses \cup RefundableStatuses
    /\ {"no_show", "refunded"} \subseteq ReleasingStatuses
    /\ RefundableStatuses \cap {"refunded", "expired"} = {}
BY DEF OpsStatuses, ActiveHoldStatuses, ReleasingStatuses, RefundableStatuses

-----------------------------------------------------------------------------
(* Orders *)

OrderInv == OrderMatchesLifecycle /\ BookingHasOrder

\* No order and no booking at the start.
LEMMA OrderInit == Init => OrderInv
BY StatusKinds
DEF Init, OrderInv, OrderMatchesLifecycle, BookingHasOrder, LiveOrder, IsOps

\* Every kind of table step keeps orders and reservations in agreement.
LEMMA OrderStep == TypeInv /\ OrderInv /\ [Next]_vars => OrderInv'
<1> SUFFICES ASSUME TypeInv, OrderInv, [Next]_vars
             PROVE  OrderInv'
  OBVIOUS
<1> USE DEF OrderInv, OrderMatchesLifecycle, BookingHasOrder, LiveOrder, IsOps
<1>1. TableStep
  BY StepCases
<1>2. CASE Mild
  BY <1>2, StatusKinds DEF Mild, RowsKeptBut, IsHold
<1>3. ASSUME NEW r \in Rids, Hold(r)
      PROVE  OrderInv'
  <2>1. orders[r].state # "live"
    BY <1>3, StatusKinds DEF Hold, ActiveHoldStatuses
  <2> QED
    BY <1>3, <2>1, StatusKinds
    DEF Hold, RowsKeptBut, IsHold, ActiveHoldStatuses
<1>4. ASSUME NEW r \in Rids, NEW new \in Statuses, Change(r, new)
      PROVE  OrderInv'
  <2>1. CanTransition(res[r].status, new)
    BY <1>4 DEF Change, MayChange
  <2>2. CASE Releases(r, new)
    <3>1. /\ \A x \in Rids \ {r} : orders'[x] = orders[x]
          /\ orders'[r].state = "live" => new = "no_show"
      BY <1>4, <2>2 DEF Change, OrdersAfterRelease, TypeInv, TypeOK
    <3>2. \A x \in Rids \ {r} :
              gap[x] = "bare_confirm" => gap'[x] = "bare_confirm"
      BY <1>4, <2>2 DEF Change, GapAfterRelease
    <3>3. res'[r].status \notin OpsStatuses
      BY <1>4, <2>2, StatusKinds DEF Change, Releases
    <3> QED
      BY <1>4, <3>1, <3>2, <3>3 DEF Change
  <2>3. CASE ~Releases(r, new)
    <3>1. UNCHANGED <<orders, gap>>
      BY <1>4, <2>3 DEF Change
    <3>2. new \in OpsStatuses => res[r].status \in OpsStatuses
      BY <1>4, <2>1, LifecycleFacts, StatusKinds DEF Change
    <3>3. res[r].status \in OpsStatuses \cup {"no_show"}
              => new \in OpsStatuses \cup {"no_show"}
      BY <2>1, <2>3, LifecycleFacts DEF Releases
    <3> QED
      BY <1>4, <3>1, <3>2, <3>3 DEF Change
  <2> QED
    BY <2>2, <2>3
<1>5. ASSUME NEW r \in Rids, NEW range \in Ranges, Book(r, range)
      PROVE  OrderInv'
  BY <1>5, StatusKinds DEF Book
<1>6. ASSUME NEW r \in Rids, Bare(r)
      PROVE  OrderInv'
  BY <1>6, StatusKinds DEF Bare
<1>7. ASSUME NEW r \in Rids, Ledger(r)
      PROVE  OrderInv'
  BY <1>7 DEF Ledger
<1> QED
  BY <1>1, <1>2, <1>3, <1>4, <1>5, <1>6, <1>7 DEF TableStep

\* Orders and reservations agree in every reachable state: a live order
\* belongs to an operational booking or a no-show, and an operational booking
\* has its order unless the staff confirmed it after a stale read.
THEOREM OrdersCorrect ==
    Spec => [](OrderMatchesLifecycle /\ BookingHasOrder)
<1>1. Spec => []TypeInv
  BY TypeInit, TypeStep, PTL DEF Spec
<1>2. Spec => []OrderInv
  BY <1>1, OrderInit, OrderStep, PTL DEF Spec
<1> QED
  BY <1>2, PTL DEF OrderInv

\* In particular, a live order never outlives its booking: the transaction
\* that cancels or refunds the reservation deletes it.
THEOREM LifecycleCorrect == Spec => []OrderMatchesLifecycle
BY OrdersCorrect, PTL

-----------------------------------------------------------------------------
(* Refunds *)

\* No refund at the start.
LEMMA RefundInit == Init => RefundMatchesStatus
BY DEF Init, RefundMatchesStatus

\* Every kind of table step keeps refunds and reservations in agreement.
LEMMA RefundStep ==
    TypeInv /\ RefundMatchesStatus /\ [Next]_vars => RefundMatchesStatus'
<1> SUFFICES ASSUME TypeInv, RefundMatchesStatus, [Next]_vars
             PROVE  RefundMatchesStatus'
  OBVIOUS
<1> USE DEF RefundMatchesStatus
<1>1. TableStep
  BY StepCases
<1>2. CASE Mild
  BY <1>2, StatusKinds DEF Mild, RowsKeptBut, IsHold
<1>3. ASSUME NEW r \in Rids, Hold(r)
      PROVE  RefundMatchesStatus'
  BY <1>3, StatusKinds DEF Hold, RowsKeptBut, IsHold
<1>4. ASSUME NEW r \in Rids, NEW new \in Statuses, Change(r, new)
      PROVE  RefundMatchesStatus'
  <2>1. CASE refunds' = [refunds EXCEPT ![r] = "succeeded"]
    BY <1>4, <2>1 DEF Change, TypeInv, TypeOK
  <2>2. CASE refunds' = refunds /\ (new = "refunded" => res[r].status = new)
    BY <1>4, <2>2 DEF Change
  <2> QED
    BY <1>4, <2>1, <2>2 DEF Change
<1>5. ASSUME NEW r \in Rids, NEW range \in Ranges, Book(r, range)
      PROVE  RefundMatchesStatus'
  BY <1>5, StatusKinds DEF Book
<1>6. ASSUME NEW r \in Rids, Bare(r)
      PROVE  RefundMatchesStatus'
  BY <1>6, StatusKinds DEF Bare
<1>7. ASSUME NEW r \in Rids, Ledger(r)
      PROVE  RefundMatchesStatus'
  <2>1. PICK v \in {"pending", "failed", "succeeded"} :
            refunds' = [refunds EXCEPT ![r] = v]
    BY <1>7 DEF Ledger
  <2> QED
    BY <1>7, <2>1 DEF Ledger, TypeInv, TypeOK
<1> QED
  BY <1>1, <1>2, <1>3, <1>4, <1>5, <1>6, <1>7 DEF TableStep

\* No reservation is refunded before Stripe has paid the money back.
THEOREM RefundsCorrect == Spec => []RefundMatchesStatus
<1>1. Spec => []TypeInv
  BY TypeInit, TypeStep, PTL DEF Spec
<1> QED
  BY <1>1, RefundInit, RefundStep, PTL DEF Spec

\* A refund is only ever about money that was paid: its reservation has left
\* the holds, and their expiry, for good.
RefundAfterHold ==
    \A r \in Rids : refunds[r] # "none" =>
        res[r].status \notin ActiveHoldStatuses \cup {"none", "expired"}

\* No refund at the start.
LEMMA AfterHoldInit == Init => RefundAfterHold
BY DEF Init, RefundAfterHold

\* A reservation with a refund never becomes a hold again.
LEMMA AfterHoldStep ==
    TypeInv /\ RefundAfterHold /\ [Next]_vars => RefundAfterHold'
<1> SUFFICES ASSUME TypeInv, RefundAfterHold, [Next]_vars
             PROVE  RefundAfterHold'
  OBVIOUS
<1> USE DEF RefundAfterHold
<1>1. TableStep
  BY StepCases
<1>2. CASE Mild
  BY <1>2, StatusKinds DEF Mild, RowsKeptBut, IsHold
<1>3. ASSUME NEW r \in Rids, Hold(r)
      PROVE  RefundAfterHold'
  <2>1. refunds[r] = "none"
    BY <1>3 DEF Hold, ActiveHoldStatuses
  <2> QED
    BY <1>3, <2>1, StatusKinds DEF Hold, RowsKeptBut, IsHold
<1>4. ASSUME NEW r \in Rids, NEW new \in Statuses, Change(r, new)
      PROVE  RefundAfterHold'
  <2>1. /\ CanTransition(res[r].status, new)
        /\ \A x \in Rids : refunds'[x] # "none" => refunds[x] # "none"
    BY <1>4 DEF Change, MayChange, TypeInv, TypeOK
  <2>2. new \in ActiveHoldStatuses \cup {"expired"}
            => res[r].status \in ActiveHoldStatuses \cup {"expired"}
    BY <2>1, LifecycleFacts, ExpiryFacts
  <2>3. new # "none"
    BY DEF Statuses, ActiveHoldStatuses, OpsStatuses
  <2> QED
    BY <1>4, <2>1, <2>2, <2>3 DEF Change
<1>5. ASSUME NEW r \in Rids, NEW range \in Ranges, Book(r, range)
      PROVE  RefundAfterHold'
  BY <1>5, StatusKinds DEF Book
<1>6. ASSUME NEW r \in Rids, Bare(r)
      PROVE  RefundAfterHold'
  BY <1>6, StatusKinds DEF Bare
<1>7. ASSUME NEW r \in Rids, Ledger(r)
      PROVE  RefundAfterHold'
  <2>1. /\ \A x \in Rids \ {r} : refunds'[x] = refunds[x]
        /\ refunds[r] = "none" =>
               res[r].status \in RefundableStatuses \/ refunds'[r] = "none"
    BY <1>7 DEF Ledger, TypeInv, TypeOK
  <2> QED
    BY <1>7, <2>1, StatusKinds DEF Ledger
<1> QED
  BY <1>1, <1>2, <1>3, <1>4, <1>5, <1>6, <1>7 DEF TableStep

\* RefundPromise speaks of the same lifecycle.
LEMMA SameLifecycle ==
    ASSUME NEW r
    PROVE  /\ RefundOf(r)!Statuses = Statuses
           /\ RefundOf(r)!RefundableStatuses = RefundableStatuses
           /\ RefundOf(r)!AllowedDuringPendingRefund
                  = AllowedDuringPendingRefund
           /\ \A a, b : RefundOf(r)!CanTransition(a, b) = CanTransition(a, b)
           /\ \A a : RefundOf(r)!Settled(a) = Settled(a)
<1>1. /\ RefundOf(r)!Statuses = Statuses
      /\ RefundOf(r)!RefundableStatuses = RefundableStatuses
  BY DEF RefundOf!Statuses, RefundOf!ActiveHoldStatuses, RefundOf!OpsStatuses,
         RefundOf!RefundableStatuses, Statuses, ActiveHoldStatuses,
         OpsStatuses, RefundableStatuses
<1>2. RefundOf(r)!AllowedDuringPendingRefund = AllowedDuringPendingRefund
  BY <1>1 DEF RefundOf!AllowedDuringPendingRefund, AllowedDuringPendingRefund
<1>3. RefundOf(r)!Transitions = Transitions
  BY DEF RefundOf!Transitions, Transitions
<1>4. ASSUME NEW a, NEW b
      PROVE  RefundOf(r)!CanTransition(a, b) = CanTransition(a, b)
  BY <1>1, <1>3 DEF RefundOf!CanTransition, CanTransition
<1>5. ASSUME NEW a
      PROVE  RefundOf(r)!Settled(a) = Settled(a)
  BY <1>4 DEF RefundOf!Settled, Settled
<1> QED
  BY <1>1, <1>2, <1>4, <1>5

Promised(r) == [RefundOf(r)!Next]_<<res[r].status, refunds[r]>>

\* Every kind of table step is a step of the abstract refund, or none of it.
LEMMA PromiseStep ==
    TypeInv /\ TypeInv' /\ RefundAfterHold /\ [Next]_vars
        => \A x \in Rids : Promised(x)
<1> SUFFICES ASSUME TypeInv, TypeInv', RefundAfterHold, [Next]_vars,
                    NEW x \in Rids
             PROVE  Promised(x)
  OBVIOUS
<1> USE DEF Promised, RefundOf!Next
<1>0. /\ res'[x].status \in Statuses \cup {"none"}
      /\ refunds[x] \in {"none", "pending", "failed", "succeeded"}
  BY DEF TypeInv, TypeOK, Rows
<1>1. TableStep
  BY StepCases
<1>2. ASSUME UNCHANGED <<res[x].status, refunds[x]>>
      PROVE  Promised(x)
  BY <1>2
<1>3. ASSUME refunds'[x] = refunds[x],
             res'[x].status \in Statuses \ {"refunded"},
             refunds[x] # "none" =>
                 CanTransition(res[x].status, res'[x].status),
             refunds[x] = "pending" =>
                 res'[x].status \in AllowedDuringPendingRefund
      PROVE  Promised(x)
  BY <1>3, SameLifecycle DEF RefundOf!Move
<1>4. CASE Mild
  <2>1. refunds'[x] = refunds[x]
    BY <1>4 DEF Mild
  <2>2. CASE res'[x].status = res[x].status
    BY <1>2, <2>1, <2>2
  <2>3. CASE IsHold(x) /\ res'[x].status = "expired"
    <3>1. refunds[x] = "none"
      BY <2>3 DEF RefundAfterHold, IsHold
    <3> QED
      BY <1>3, <2>1, <2>3, <3>1 DEF Statuses
  <2> QED
    BY <1>4, <2>2, <2>3 DEF Mild, RowsKeptBut
<1>5. ASSUME NEW r \in Rids, Hold(r)
      PROVE  Promised(x)
  <2>1. refunds'[x] = refunds[x]
    BY <1>5 DEF Hold
  <2>2. CASE res'[x].status = res[x].status
    BY <1>2, <2>1, <2>2
  <2>3. CASE res'[x].status # res[x].status
    <3>1. refunds[x] = "none" /\ res'[x].status \in Statuses \ {"refunded"}
      BY <1>5, <2>3
      DEF Hold, RowsKeptBut, IsHold, RefundAfterHold, Statuses,
          ActiveHoldStatuses
    <3> QED
      BY <1>3, <2>1, <3>1
  <2> QED
    BY <2>2, <2>3
<1>6. ASSUME NEW r \in Rids, NEW new \in Statuses, Change(r, new)
      PROVE  Promised(x)
  <2>1. CASE x # r
    <3>1. UNCHANGED <<res[x].status, refunds[x]>>
      BY <1>6, <2>1 DEF Change, TypeInv, TypeOK
    <3> QED
      BY <1>2, <3>1
  <2>2. CASE x = r /\ refunds' = refunds
    <3>1. CASE res[r].status = new
      BY <1>2, <1>6, <2>2, <3>1 DEF Change
    <3>2. CASE res[r].status # new
      <4>1. new # "refunded" \/ refunds' # refunds
        BY <1>6, <3>2 DEF Change, TypeInv, TypeOK
      <4> QED
        BY <1>3, <1>6, <2>2, <3>2, <4>1 DEF Change, MayChange
    <3> QED
      BY <3>1, <3>2
  <2>3. CASE x = r /\ refunds' # refunds
    <3>1. /\ refunds[x] \in {"pending", "failed"}
          /\ refunds'[x] = "succeeded"
          /\ res'[x].status = Settled(res[x].status)
      BY <1>6, <2>3 DEF Change, TypeInv, TypeOK
    <3> QED
      BY <3>1, SameLifecycle DEF RefundOf!Succeed
  <2> QED
    BY <2>1, <2>2, <2>3
<1>7. ASSUME NEW r \in Rids, NEW range \in Ranges, Book(r, range)
      PROVE  Promised(x)
  <2>1. refunds'[x] = refunds[x]
    BY <1>7 DEF Book
  <2>2. CASE x # r
    BY <1>2, <1>7, <2>1, <2>2 DEF Book
  <2>3. CASE x = r /\ MayChange(r, "confirmed")
    BY <1>3, <1>7, <2>1, <2>3
    DEF Book, MayChange, Statuses, OpsStatuses, AllowedDuringPendingRefund,
        RefundableStatuses
  <2>4. CASE x = r /\ MayChange(r, "paid")
    <3>0. CanTransition(res[x].status, "paid")
      BY <2>4 DEF MayChange
    <3>1. \/ refunds[x] = "none"
          \/ res[x].status = "paid"
      BY <3>0, ExpiryFacts DEF RefundAfterHold
    <3>2. CanTransition("paid", "confirmed")
      BY DEF CanTransition, Transitions, Statuses
    <3> QED
      BY <1>3, <1>7, <2>1, <2>4, <3>1, <3>2
      DEF Book, Statuses, OpsStatuses, AllowedDuringPendingRefund,
          RefundableStatuses
  <2> QED
    BY <1>7, <2>2, <2>3, <2>4 DEF Book
<1>8. ASSUME NEW r \in Rids, Bare(r)
      PROVE  Promised(x)
  <2>1. refunds'[x] = refunds[x]
    BY <1>8 DEF Bare
  <2>2. CASE x # r
    BY <1>2, <1>8, <2>1, <2>2 DEF Bare
  <2>3. CASE x = r
    BY <1>3, <1>8, <2>1, <2>3
    DEF Bare, MayChange, Statuses, OpsStatuses
  <2> QED
    BY <2>2, <2>3
<1>9. ASSUME NEW r \in Rids, Ledger(r)
      PROVE  Promised(x)
  <2>1. res'[x].status = res[x].status
    BY <1>9 DEF Ledger
  <2>2. CASE x # r
    <3>1. refunds'[x] = refunds[x]
      BY <1>9, <2>2 DEF Ledger, TypeInv, TypeOK
    <3> QED
      BY <1>2, <2>1, <3>1
  <2>3. CASE x = r
    <3>1. \/ /\ refunds[x] = "none" /\ refunds'[x] = "pending"
             /\ res[x].status \in RefundableStatuses
          \/ refunds[x] = "failed" /\ refunds'[x] = "pending"
          \/ refunds[x] = "pending" /\ refunds'[x] = "failed"
          \/ /\ refunds[x] \in {"pending", "failed"}
             /\ refunds'[x] = "succeeded"
             /\ res[x].status = Settled(res[x].status)
      BY <1>9, <2>3 DEF Ledger, TypeInv, TypeOK
    <3> QED
      BY <2>1, <3>1, SameLifecycle
      DEF RefundOf!Start, RefundOf!Resume, RefundOf!Fail, RefundOf!Succeed
  <2> QED
    BY <2>2, <2>3
<1> QED
  BY <1>1, <1>4, <1>5, <1>6, <1>7, <1>8, <1>9 DEF TableStep

\* Whatever guests, payments, staff and jobs do, every reservation and its
\* refund behave as the refund service promises.
THEOREM PromiseKept == Spec => RefundsKeepPromise
<1>1. Spec => []TypeInv
  BY TypeInit, TypeStep, PTL DEF Spec
<1>2. Spec => []RefundAfterHold
  BY <1>1, AfterHoldInit, AfterHoldStep, PTL DEF Spec
<1>3. Init => \A r \in Rids : RefundOf(r)!Init
  BY SameLifecycle DEF Init, RefundOf!Init
<1>4. TypeInv /\ TypeInv' /\ RefundAfterHold /\ [Next]_vars
          => [\A r \in Rids : Promised(r)]_vars
  BY PromiseStep
<1>5. RefundsKeepPromise <=>
          /\ \A r \in Rids : RefundOf(r)!Init
          /\ [][\A r \in Rids : Promised(r)]_vars
  BY DEF RefundsKeepPromise, Promised
<1> QED
  BY <1>1, <1>2, <1>3, <1>4, <1>5, PTL DEF Spec

-----------------------------------------------------------------------------
(* Holds *)

\* No hold at the start.
LEMMA HoldsInit == Init => HoldsExclusive
BY StatusKinds DEF Init, HoldsExclusive, IsHold

\* Every kind of table step keeps the holds apart: only Hold makes a new one,
\* and it has expired the stale holds of the car first.
LEMMA HoldsStep == TypeInv /\ HoldsExclusive /\ [Next]_vars => HoldsExclusive'
<1> SUFFICES ASSUME TypeInv, HoldsExclusive, [Next]_vars
             PROVE  HoldsExclusive'
  OBVIOUS
<1> USE DEF HoldsExclusive, IsHold
<1>1. TableStep
  BY StepCases
<1>2. CASE Mild
  BY <1>2, StatusKinds DEF Mild, RowsKeptBut
<1>3. ASSUME NEW r \in Rids, Hold(r)
      PROVE  HoldsExclusive'
  <2> SUFFICES ASSUME NEW x \in Rids, NEW q \in Rids, x # q,
                      res'[x].status \in ActiveHoldStatuses,
                      res'[q].status \in ActiveHoldStatuses
               PROVE  ~Overlaps(res'[x].trip, res'[q].trip)
    BY DEF HoldsExclusive
  <2>1. \A a, b : Overlaps(a, b) <=> Overlaps(b, a)
    BY DEF Overlaps
  <2>2. CASE x = r
    BY <1>3, <2>1, <2>2 DEF Hold
  <2>3. CASE q = r
    BY <1>3, <2>3 DEF Hold
  <2>4. CASE x # r /\ q # r
    BY <1>3, <2>4, StatusKinds DEF Hold, RowsKeptBut
  <2> QED
    BY <2>2, <2>3, <2>4
<1>4. ASSUME NEW r \in Rids, NEW new \in Statuses, Change(r, new)
      PROVE  HoldsExclusive'
  <2>1. new \in ActiveHoldStatuses => res[r].status \in ActiveHoldStatuses
    BY <1>4, LifecycleFacts DEF Change, MayChange
  <2> QED
    BY <1>4, <2>1 DEF Change
<1>5. ASSUME NEW r \in Rids, NEW range \in Ranges, Book(r, range)
      PROVE  HoldsExclusive'
  BY <1>5, StatusKinds DEF Book
<1>6. ASSUME NEW r \in Rids, Bare(r)
      PROVE  HoldsExclusive'
  BY <1>6, StatusKinds DEF Bare
<1>7. ASSUME NEW r \in Rids, Ledger(r)
      PROVE  HoldsExclusive'
  BY <1>7 DEF Ledger
<1> QED
  BY <1>1, <1>2, <1>3, <1>4, <1>5, <1>6, <1>7 DEF TableStep

\* Two holds never want one car on one day, so the exclusion constraint on
\* holds is never hit.
THEOREM HoldsCorrect == Spec => []HoldsExclusive
<1>1. Spec => []TypeInv
  BY TypeInit, TypeStep, PTL DEF Spec
<1> QED
  BY <1>1, HoldsInit, HoldsStep, PTL DEF Spec

-----------------------------------------------------------------------------
(* The calendar *)

\* Overlapping is symmetric, and a range overlaps itself.
LEMMA OverlapFacts ==
    /\ \A a, b : Overlaps(a, b) <=> Overlaps(b, a)
    /\ \A a \in Ranges : Overlaps(a, a)
BY DEF Overlaps, Ranges

\* Adding a free range to a calendar keeps it free of double bookings.
LEMMA AddKeepsDisjoint ==
    ASSUME NEW calendar, NEW t, Disjoint(calendar), Free(calendar, t)
    PROVE  Disjoint(calendar \cup {t})
BY OverlapFacts DEF Disjoint, Free

\* A release takes only stored ranges, and a block it leaves was not one.
LEMMA ReleaseFacts ==
    ASSUME NEW calendar, NEW t
    PROVE  /\ ReleaseRange(calendar, t) \subseteq calendar
           /\ \A b \in calendar :
                 b \notin StoredRange(calendar, t)
                     => b \in ReleaseRange(calendar, t)
BY DEF ReleaseRange

CalendarInv ==
    /\ Disjoint(blocks)
    /\ BookedHasBlock
    /\ NoDoubleBookingButGaps

\* The calendar starts empty.
LEMMA CalendarInit == Init => CalendarInv
BY StatusKinds
DEF Init, CalendarInv, Disjoint, BookedHasBlock, NoDoubleBookingButGaps,
    Booked, IsOps

\* Steps that leave the calendar alone and book nobody.
LEMMA CalendarKept ==
    ASSUME CalendarInv, blocks' = blocks,
           \A x \in Rids : Booked(x)' => Booked(x) /\ res'[x].trip = res[x].trip
    PROVE  CalendarInv'
BY DEF CalendarInv, BookedHasBlock, NoDoubleBookingButGaps

\* Every kind of table step keeps the calendar disjoint and the bookings on
\* their blocks: a release deletes blocks, but marks the bookings it strips.
LEMMA CalendarStep == TypeInv /\ CalendarInv /\ [Next]_vars => CalendarInv'
<1> SUFFICES ASSUME TypeInv, CalendarInv, [Next]_vars
             PROVE  CalendarInv'
  OBVIOUS
<1>1. TableStep
  BY StepCases
<1>2. CASE Mild
  <2>1. \A x \in Rids : Booked(x)' => Booked(x) /\ res'[x].trip = res[x].trip
    BY <1>2, StatusKinds DEF Mild, RowsKeptBut, Booked, IsOps
  <2> QED
    BY <1>2, <2>1, CalendarKept DEF Mild
<1>3. ASSUME NEW r \in Rids, Hold(r)
      PROVE  CalendarInv'
  <2>1. \A x \in Rids : Booked(x)' => Booked(x) /\ res'[x].trip = res[x].trip
    BY <1>3, StatusKinds
    DEF Hold, RowsKeptBut, Booked, IsOps, ActiveHoldStatuses
  <2> QED
    BY <1>3, <2>1, CalendarKept DEF Hold
<1>4. ASSUME NEW r \in Rids, NEW new \in Statuses, Change(r, new)
      PROVE  CalendarInv'
  <2>1. CASE ~Releases(r, new)
    <3>1. new \in OpsStatuses => res[r].status \in OpsStatuses
      BY <1>4, LifecycleFacts, StatusKinds DEF Change, MayChange
    <3>2. \A x \in Rids :
              Booked(x)' => Booked(x) /\ res'[x].trip = res[x].trip
      BY <1>4, <2>1, <3>1 DEF Change, Booked, IsOps
    <3> QED
      BY <1>4, <2>1, <3>2, CalendarKept DEF Change
  <2>2. CASE Releases(r, new)
    <3>1. /\ blocks' = ReleaseRange(blocks, res[r].trip)
          /\ gap' = GapAfterRelease(r)
      BY <1>4, <2>2 DEF Change
    <3>2. Disjoint(blocks')
      BY <3>1, ReleaseFacts DEF CalendarInv, Disjoint
    <3>3. ASSUME NEW x \in Rids, Booked(x)'
          PROVE  /\ Booked(x)
                 /\ res'[x].trip = res[x].trip
                 /\ res[x].trip \notin StoredRange(blocks, res[r].trip)
      <4>1. x # r
        BY <1>4, <2>2, <3>3, StatusKinds DEF Change, Releases, Booked, IsOps
      <4>2. res'[x] = res[x]
        BY <1>4, <4>1 DEF Change
      <4> QED
        BY <3>1, <3>3, <4>1, <4>2 DEF GapAfterRelease, Booked, IsOps
    <3>4. BookedHasBlock'
      BY <3>1, <3>3, ReleaseFacts DEF CalendarInv, BookedHasBlock
    <3>5. NoDoubleBookingButGaps'
      BY <3>3 DEF CalendarInv, NoDoubleBookingButGaps
    <3> QED
      BY <3>2, <3>4, <3>5 DEF CalendarInv
  <2> QED
    BY <2>1, <2>2
<1>5. ASSUME NEW r \in Rids, NEW range \in Ranges, Book(r, range)
      PROVE  CalendarInv'
  <2>1. Disjoint(blocks')
    BY <1>5, AddKeepsDisjoint DEF Book, CalendarInv
  <2>2. \A x \in Rids \ {r} :
            Booked(x)' => Booked(x) /\ res'[x].trip = res[x].trip
    BY <1>5 DEF Book, Booked, IsOps
  <2>3. Booked(r)' => res'[r].trip = range
    BY <1>5 DEF Book, Booked
  <2>4. BookedHasBlock'
    BY <1>5, <2>2, <2>3 DEF Book, CalendarInv, BookedHasBlock
  <2>5. ASSUME NEW x \in Rids \ {r}, Booked(x)', Booked(r)'
        PROVE  ~Overlaps(res'[x].trip, res'[r].trip)
             /\ ~Overlaps(res'[r].trip, res'[x].trip)
    <3>1. res'[x].trip \in blocks
      BY <2>2, <2>5 DEF CalendarInv, BookedHasBlock
    <3> QED
      BY <1>5, <2>3, <2>5, <3>1, OverlapFacts DEF Book, Free
  <2>6. NoDoubleBookingButGaps'
    BY <2>2, <2>5 DEF CalendarInv, NoDoubleBookingButGaps
  <2> QED
    BY <2>1, <2>4, <2>6 DEF CalendarInv
<1>6. ASSUME NEW r \in Rids, Bare(r)
      PROVE  CalendarInv'
  <2>1. \A x \in Rids : Booked(x)' => Booked(x) /\ res'[x].trip = res[x].trip
    BY <1>6 DEF Bare, Booked, IsOps
  <2> QED
    BY <1>6, <2>1, CalendarKept DEF Bare
<1>7. ASSUME NEW r \in Rids, Ledger(r)
      PROVE  CalendarInv'
  <2>1. \A x \in Rids : Booked(x)' => Booked(x) /\ res'[x].trip = res[x].trip
    BY <1>7 DEF Ledger, Booked, IsOps
  <2> QED
    BY <1>7, <2>1, CalendarKept DEF Ledger
<1> QED
  BY <1>1, <1>2, <1>3, <1>4, <1>5, <1>6, <1>7 DEF TableStep

\* Every booking that no recorded accident touched owns the calendar block of
\* its own dates, and so no two of them overlap: no car is booked twice.
THEOREM CalendarCorrect ==
    Spec => [](BookedHasBlock /\ NoDoubleBookingButGaps)
<1>1. Spec => []TypeInv
  BY TypeInit, TypeStep, PTL DEF Spec
<1>2. Spec => []CalendarInv
  BY <1>1, CalendarInit, CalendarStep, PTL DEF Spec
<1> QED
  BY <1>2, PTL DEF CalendarInv

\* In particular, a booking keeps its block through everything but the
\* recorded accidents.
THEOREM BlocksCorrect == Spec => []BookedHasBlock
BY CalendarCorrect, PTL
=============================================================================
