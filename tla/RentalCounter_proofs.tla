----------------------- MODULE RentalCounter_proofs -----------------------
(***************************************************************************)
(* For any number of clerks, guests' requests and checklists: the counter  *)
(* keeps its types and the refund's promise, approves only what it acted   *)
(* on, tells no guest otherwise, and keeps records that agree.             *)
(***************************************************************************)
EXTENDS RentalCounter, TLAPS

-----------------------------------------------------------------------------
(* What a step may do to the booking *)

\* Every step leaves the booking alone, changes its status as changeStatus
\* allows, or is a step of its refund.
BookingStep ==
    \/ UNCHANGED booking
    \/ \E new \in AdminOpsStatuses : ChangeTo(new)
    \/ Refunding!Start \/ Refunding!Resume \/ Refunding!Fail \/ Refunding!Succeed

\* The promise speaks of the same lifecycle.
LEMMA SameLifecycle ==
    /\ Refunding!Statuses = Statuses
    /\ Refunding!RefundableStatuses = RefundableStatuses
    /\ Refunding!AllowedDuringPendingRefund = AllowedDuringPendingRefund
    /\ \A x, y : Refunding!CanTransition(x, y) = CanTransition(x, y)
    /\ \A x : Refunding!Settled(x) = Settled(x)
BY DEF Refunding!Statuses, Statuses, Refunding!ActiveHoldStatuses, ActiveHoldStatuses,
       Refunding!OpsStatuses, OpsStatuses, Refunding!RefundableStatuses,
       RefundableStatuses, Refunding!AllowedDuringPendingRefund,
       AllowedDuringPendingRefund, Refunding!CanTransition, CanTransition,
       Refunding!Transitions, Transitions, Refunding!Settled, Settled

\* No status a clerk or the staff sets is a review or a refund.
LEMMA SetStatuses ==
    /\ AdminOpsStatuses \subseteq Statuses \ {"refunded", "manual_review"}
    /\ "cancelled" \in AdminOpsStatuses
    /\ HandStatuses \subseteq AdminOpsStatuses
    /\ \A k : Half(k) \in AdminOpsStatuses /\ Whole(k) \in AdminOpsStatuses
BY CounterAssumption
   DEF AdminOpsStatuses, OpsStatuses, Statuses, ActiveHoldStatuses, Half, Whole

\* Every step of the counter is such a step of the booking.
LEMMA StepsOfBooking == ASSUME CounterNext PROVE BookingStep
<1> USE DEF BookingStep
<1>1. CASE \E new \in HandStatuses : StaffSets(new)
  BY <1>1, SetStatuses DEF StaffSets
<1>2. CASE RefundElsewhere
  BY <1>2 DEF RefundElsewhere
<1>3. CASE \E t \in Tabs : AskRead(t) \/ AskCreate(t)
  BY <1>3 DEF AskRead, AskCreate
<1>4. ASSUME NEW c \in Clerks, Reviewing(c) PROVE BookingStep
  BY <1>4, SetStatuses
     DEF Reviewing, ReviewRead, Reject, ApproveRead, ResolvePayment, ReserveRefund,
         DriveRefund, CancelBooking, Mark
<1>5. ASSUME NEW c \in Clerks, Filling(c) PROVE BookingStep
  BY <1>5, SetStatuses
     DEF Filling, SheetRead, SheetStore, SheetReport, SheetCar, SheetPrepare, SheetMove
<1>6. CASE \E c \in Clerks : Break(c)
  BY <1>6 DEF Break
<1> QED
  BY <1>1, <1>2, <1>3, <1>4, <1>5, <1>6 DEF CounterNext

-----------------------------------------------------------------------------
(* The promise *)

\* A change that the locked row allows is a move of the promise.
LEMMA StepOfPromise ==
    ASSUME BookingStep
    PROVE  [Refunding!Next]_<<stage, money>>
<1> USE SameLifecycle DEF Refunding!Next
<1>1. ASSUME NEW new \in AdminOpsStatuses, ChangeTo(new)
      PROVE  [Refunding!Next]_<<stage, money>>
  <2>1. stage' \in Statuses \ {"refunded"} /\ CanTransition(stage, stage')
        /\ UNCHANGED money
    BY <1>1, SetStatuses DEF ChangeTo, MayChange
  <2>2. CASE stage' = stage
    BY <2>1, <2>2
  <2>3. CASE stage' # stage
    <3>1. money = "pending" => stage' \in AllowedDuringPendingRefund
      BY <1>1, <2>3 DEF ChangeTo, MayChange
    <3> QED
      BY <2>1, <3>1 DEF Refunding!Move
  <2> QED
    BY <2>2, <2>3
<1> QED
  BY <1>1 DEF BookingStep, booking

\* However many clerks work on what they once read, the booking and its refund
\* keep the promise: nothing is handed over or cancelled under a pending refund.
THEOREM PromiseIsKept == CounterSpec => CounterKeepsPromise
<1>1. ASSUME CounterInit PROVE Refunding!Init
  BY <1>1, SameLifecycle, CounterAssumption
     DEF CounterInit, Refunding!Init, Statuses, OpsStatuses
<1>2. ASSUME [CounterNext]_counterVars
      PROVE  [Refunding!Next]_<<stage, money>>
  BY <1>2, StepsOfBooking, StepOfPromise DEF counterVars, booking
<1> QED
  BY <1>1, <1>2, PTL DEF CounterSpec, CounterKeepsPromise, Refunding!Spec

-----------------------------------------------------------------------------
(* Types *)

ReviewPcs == {"reject", "approve", "resolve", "reserve", "again", "stripe",
              "cancel", "mark"}

\* A clerk has a request in hand exactly while it answers one, and that request
\* was made.
InHands ==
    \A c \in Clerks :
        IF clerk[c].pc \in ReviewPcs
        THEN clerk[c].ask \in Asks /\ asks[clerk[c].ask] # "none"
        ELSE clerk[c].ask = NoAsk

TypeInv == CounterTypeOK /\ InHands

\* A step of the booking keeps its types.
LEMMA BookingTypes ==
    ASSUME BookingStep, stage \in Statuses,
           money \in {"none", "pending", "failed", "succeeded"}
    PROVE  stage' \in Statuses /\ money' \in {"none", "pending", "failed", "succeeded"}
<1>1. \A x \in Statuses : Settled(x) \in Statuses
  BY DEF Settled, Statuses
<1> QED
  BY <1>1, SameLifecycle, SetStatuses
     DEF BookingStep, booking, ChangeTo, Refunding!Start, Refunding!Resume,
         Refunding!Fail, Refunding!Succeed

\* An idle clerk has nothing in hand.
LEMMA FreeType == Free \in ClerkStates /\ Free.pc = "idle" /\ Free.ask = NoAsk
BY DEF Free, ClerkStates, Kinds, Statuses

\* A step of a clerk that answers keeps the request in hand, or ends it.
LEMMA ReviewTypes ==
    ASSUME TypeInv, NEW c \in Clerks, Reviewing(c)
    PROVE  /\ clerk' \in [Clerks -> ClerkStates]
           /\ asks' \in [Asks -> {"none", "pending", "approved", "rejected"}]
           /\ acted' \subseteq Asks /\ crossed' \subseteq Asks
           /\ InHands'
<1> USE DEF TypeInv, CounterTypeOK
<1>1. ASSUME NEW pc \in ReviewPcs, clerk[c].pc \in ReviewPcs, GoTo(c, pc)
      PROVE  /\ clerk' \in [Clerks -> ClerkStates]
             /\ asks' = asks => InHands'
  <2>1. [clerk[c] EXCEPT !.pc = pc] \in ClerkStates
    BY DEF ClerkStates, ReviewPcs
  <2> QED
    BY <1>1, <2>1 DEF GoTo, InHands, ClerkStates
<1>2. ASSUME Done(c),
             \A a \in Asks : asks[a] # "none" => asks'[a] # "none"
      PROVE  clerk' \in [Clerks -> ClerkStates] /\ InHands'
  <2>1. clerk' \in [Clerks -> ClerkStates]
    BY <1>2, FreeType DEF Done
  <2>2. ASSUME NEW d \in Clerks
        PROVE  IF clerk'[d].pc \in ReviewPcs
               THEN clerk'[d].ask \in Asks /\ asks'[clerk'[d].ask] # "none"
               ELSE clerk'[d].ask = NoAsk
    <3>1. CASE d = c
      BY <1>2, <3>1, FreeType DEF Done, ReviewPcs
    <3>2. CASE d # c
      BY <1>2, <3>2 DEF Done, InHands
    <3> QED
      BY <3>1, <3>2
  <2> QED
    BY <2>1, <2>2 DEF InHands
<1>3. ASSUME NEW a \in Asks, ReviewRead(c, a)
      PROVE  clerk' \in [Clerks -> ClerkStates] /\ InHands'
  <2>1. PICK pc \in {"approve", "reject"} :
            clerk' = [clerk EXCEPT ![c] = [clerk[c] EXCEPT !.pc = pc, !.ask = a]]
    BY <1>3 DEF ReviewRead
  <2>2. [clerk[c] EXCEPT !.pc = pc, !.ask = a] \in ClerkStates
    BY DEF ClerkStates
  <2> QED
    BY <1>3, <2>1, <2>2 DEF ReviewRead, InHands, ReviewPcs, ClerkStates, At, askVars
<1>4. ASSUME NEW answer \in {"approved", "rejected"}, clerk[c].pc \in ReviewPcs,
             asks' = WithAnswer(clerk[c].ask, answer)
      PROVE  /\ asks' \in [Asks -> {"none", "pending", "approved", "rejected"}]
             /\ \A a \in Asks : asks[a] # "none" => asks'[a] # "none"
  BY <1>4 DEF WithAnswer, InHands
<1>5. CASE \E a \in Asks : ReviewRead(c, a)
  BY <1>3, <1>5 DEF ReviewRead, askVars, answers
<1>6. CASE Reject(c)
  <2>1. clerk[c].pc \in ReviewPcs /\ clerk[c].ask \in Asks
    BY <1>6 DEF Reject, At, ReviewPcs, InHands
  <2> QED
    BY <1>2, <1>4, <1>6, <2>1 DEF Reject
<1>7. CASE Mark(c)
  <2>1. clerk[c].pc \in ReviewPcs
    BY <1>7 DEF Mark, At, ReviewPcs
  <2> QED
    BY <1>2, <1>4, <1>7, <2>1 DEF Mark, answers
<1>8. CASE ApproveRead(c) \/ ResolvePayment(c) \/ ReserveRefund(c)
           \/ DriveRefund(c) \/ CancelBooking(c)
  <2>1. clerk[c].pc \in ReviewPcs /\ clerk[c].ask \in Asks
    BY <1>8 DEF ApproveRead, ResolvePayment, ReserveRefund, DriveRefund, CancelBooking,
                At, ReviewPcs, InHands
  <2>2. asks' = asks /\ crossed' = crossed
    BY <1>8 DEF ApproveRead, ResolvePayment, ReserveRefund, DriveRefund, CancelBooking,
                askVars
  <2>3. \/ Acted(c) \/ Refused(c)
        \/ \E pc \in ReviewPcs : GoOn(c, pc)
    BY <1>8 DEF ApproveRead, ResolvePayment, ReserveRefund, DriveRefund, CancelBooking,
                ReviewPcs
  <2> QED
    BY <1>1, <1>2, <2>1, <2>2, <2>3 DEF Acted, Refused, GoOn, ReviewPcs
<1> QED
  BY <1>5, <1>6, <1>7, <1>8 DEF Reviewing

\* A clerk with a checklist has no request in hand.
LEMMA FillTypes ==
    ASSUME TypeInv, NEW c \in Clerks, Filling(c)
    PROVE  /\ clerk' \in [Clerks -> ClerkStates]
           /\ sheets' \in [Kinds -> Nat] /\ odometer' \in Nat /\ handed' \in Nat
           /\ damage' \in BOOLEAN /\ reports' \in Nat /\ blurred' \in BOOLEAN
           /\ InHands'
<1> USE DEF TypeInv, CounterTypeOK
<1>1. UNCHANGED asks
  BY DEF Filling, SheetRead, SheetStore, SheetReport, SheetCar, SheetPrepare, SheetMove,
         askVars
<1>2. ASSUME NEW next \in ClerkStates, next.pc \notin ReviewPcs, next.ask = NoAsk,
             clerk' = [clerk EXCEPT ![c] = next]
      PROVE  clerk' \in [Clerks -> ClerkStates] /\ InHands'
  BY <1>1, <1>2 DEF InHands
<1>3. ASSUME NEW pc \in {"report", "car", "move"}, clerk[c].pc \notin ReviewPcs,
             GoTo(c, pc)
      PROVE  clerk' \in [Clerks -> ClerkStates] /\ InHands'
  <2>1. [clerk[c] EXCEPT !.pc = pc] \in ClerkStates
    BY DEF ClerkStates
  <2>2. [clerk[c] EXCEPT !.pc = pc].pc = pc /\ [clerk[c] EXCEPT !.pc = pc].ask = NoAsk
    BY <1>3 DEF ClerkStates, InHands
  <2> QED
    BY <1>2, <1>3, <2>1, <2>2 DEF GoTo, ReviewPcs
<1>4. Done(c) => clerk' \in [Clerks -> ClerkStates] /\ InHands'
  BY <1>2, FreeType DEF Done, ReviewPcs
<1>5. ASSUME NEW k \in Kinds, NEW d \in BOOLEAN, SheetRead(c, k, d)
      PROVE  /\ clerk' \in [Clerks -> ClerkStates] /\ InHands'
             /\ handed' \in Nat /\ blurred' \in BOOLEAN
             /\ UNCHANGED <<sheets, odometer, damage, reports>>
  <2> DEFINE next == [pc |-> "sheet", ask |-> NoAsk, kind |-> k, seen |-> stage,
                      reading |-> handed + 1, damaged |-> d]
  <2>1. next \in ClerkStates /\ next.pc = "sheet" /\ next.ask = NoAsk
    BY DEF ClerkStates
  <2>2. clerk' = [clerk EXCEPT ![c] = next]
    BY <1>5 DEF SheetRead
  <2> HIDE DEF next
  <2>3. clerk' \in [Clerks -> ClerkStates] /\ InHands'
    BY <1>2, <2>1, <2>2 DEF ReviewPcs
  <2>4. blurred' \in BOOLEAN
    BY <1>5 DEF SheetRead
  <2> QED
    BY <1>5, <2>3, <2>4 DEF SheetRead
<1>6. CASE SheetStore(c)
  <2>1. clerk[c].pc \notin ReviewPcs /\ AfterStore(c) \in {"report", "car", "move"}
    BY <1>6 DEF SheetStore, At, ReviewPcs, AfterStore
  <2>2. clerk[c].reading \in Nat /\ clerk[c].damaged \in BOOLEAN /\ clerk[c].kind \in Kinds
    BY DEF ClerkStates
  <2>3. clerk' \in [Clerks -> ClerkStates] /\ InHands'
    BY <1>3, <1>6, <2>1 DEF SheetStore
  <2>4. sheets' \in [Kinds -> Nat] /\ damage' \in BOOLEAN
    BY <1>6, <2>2 DEF SheetStore
  <2> QED
    BY <1>6, <2>3, <2>4 DEF SheetStore
<1>7. CASE SheetReport(c)
  <2>1. clerk[c].pc \notin ReviewPcs
    BY <1>7 DEF SheetReport, At, ReviewPcs
  <2>2. clerk' \in [Clerks -> ClerkStates] /\ InHands'
    BY <1>3, <1>7, <2>1 DEF SheetReport
  <2> QED
    BY <1>7, <2>2 DEF SheetReport
<1>8. CASE SheetCar(c)
  <2> DEFINE k == clerk[c].kind
             next == IF clerk[c].seen = NeedsHalf(k)
                     THEN [Free EXCEPT !.pc = "prepare", !.kind = k]
                     ELSE IF clerk[c].seen = Half(k)
                     THEN [Free EXCEPT !.pc = "move", !.kind = k]
                     ELSE Free
  <2>1. clerk[c].reading \in Nat /\ clerk[c].kind \in Kinds
    BY DEF ClerkStates
  <2>2. next \in ClerkStates /\ next.pc \notin ReviewPcs /\ next.ask = NoAsk
    BY <2>1, FreeType DEF Free, ClerkStates, ReviewPcs
  <2>3. clerk' = [clerk EXCEPT ![c] = next]
    BY <1>8 DEF SheetCar
  <2> HIDE DEF next
  <2> QED
    BY <1>2, <1>8, <2>1, <2>2, <2>3 DEF SheetCar
<1>9. CASE SheetPrepare(c) \/ SheetMove(c)
  BY <1>3, <1>4, <1>9 DEF SheetPrepare, SheetMove, At, ReviewPcs, papers
<1> QED
  BY <1>5, <1>6, <1>7, <1>8, <1>9 DEF Filling

\* Every step keeps the types.
LEMMA TypeStep == ASSUME TypeInv, [CounterNext]_counterVars PROVE TypeInv'
<1> USE DEF TypeInv, CounterTypeOK
<1>1. CASE UNCHANGED counterVars
  BY <1>1 DEF counterVars, booking, askVars, papers, answers, InHands
<1>2. CASE CounterNext
  <2>1. stage' \in Statuses /\ money' \in {"none", "pending", "failed", "succeeded"}
    BY <1>2, StepsOfBooking, BookingTypes
  <2>2. ASSUME UNCHANGED <<payment, askVars, clerk, papers, answers, broken>>
        PROVE  TypeInv'
    BY <2>1, <2>2 DEF askVars, papers, answers, InHands
  <2>3. CASE (\E new \in HandStatuses : StaffSets(new)) \/ RefundElsewhere
    BY <2>2, <2>3 DEF StaffSets, RefundElsewhere
  <2>4. ASSUME NEW t \in Tabs, AskRead(t) \/ AskCreate(t) PROVE TypeInv'
    <3>1. /\ asks' \in [Asks -> {"none", "pending", "approved", "rejected"}]
          /\ asking' \subseteq Tabs
          /\ \A a \in Asks : asks[a] # "none" => asks'[a] # "none"
      BY <2>4 DEF AskRead, AskCreate
    <3>2. UNCHANGED <<booking, payment, clerk, papers, answers, broken>>
      BY <2>4 DEF AskRead, AskCreate
    <3> QED
      BY <3>1, <3>2 DEF booking, papers, answers, InHands
  <2>5. ASSUME NEW c \in Clerks, Reviewing(c) PROVE TypeInv'
    <3>1. UNCHANGED <<payment, asking, papers, lost, broken>>
      BY <2>5 DEF Reviewing, ReviewRead, Reject, ApproveRead, ResolvePayment,
                  ReserveRefund, DriveRefund, CancelBooking, Mark, askVars, answers
    <3> QED
      BY <2>1, <2>5, <3>1, ReviewTypes DEF papers
  <2>6. ASSUME NEW c \in Clerks, Filling(c) PROVE TypeInv'
    <3>1. UNCHANGED <<payment, askVars, answers, broken>>
      BY <2>6 DEF Filling, SheetRead, SheetStore, SheetReport, SheetCar, SheetPrepare,
                  SheetMove
    <3> QED
      BY <2>1, <2>6, <3>1, FillTypes DEF askVars, answers
  <2>7. ASSUME NEW c \in Clerks, Break(c) PROVE TypeInv'
    <3>1. clerk' \in [Clerks -> ClerkStates] /\ InHands'
      BY <2>7, FreeType DEF Break, Done, InHands, ReviewPcs, askVars
    <3>2. lost' \subseteq Asks /\ blurred' \in BOOLEAN /\ broken' \in Nat
      BY <2>7 DEF Break, At, InHands, ReviewPcs
    <3> QED
      BY <2>1, <2>7, <3>1, <3>2 DEF Break, booking, askVars
  <2> QED
    BY <1>2, <2>3, <2>4, <2>5, <2>6, <2>7 DEF CounterNext
<1> QED
  BY <1>1, <1>2

\* At the start nobody has anything in hand.
LEMMA TypeInit == ASSUME CounterInit PROVE TypeInv
BY FreeType, CounterAssumption
   DEF CounterInit, TypeInv, CounterTypeOK, InHands, Statuses, OpsStatuses, Payments,
       ReviewPcs

\* The counter keeps its types, and a clerk at work on a request has one that
\* was made.
THEOREM CounterTypes == CounterSpec => []TypeInv
BY TypeInit, TypeStep, PTL DEF CounterSpec

\* A clerk answers the request a, and has decided to approve it.
WorksOn(c, a) == clerk[c].ask = a /\ clerk[c].pc \notin {"idle", "reject"}

\* A clerk with a checklist takes no request in hand.
LEMMA FillingApart ==
    ASSUME TypeInv, NEW c \in Clerks, Filling(c)
    PROVE  /\ UNCHANGED <<asks, answers>>
           /\ \A d \in Clerks, a \in Asks : WorksOn(d, a)' => WorksOn(d, a)
           /\ \A d \in Clerks : clerk[d].pc = "mark" => clerk'[d] = clerk[d]
           /\ \A d \in Clerks : clerk'[d].pc = "mark" => clerk[d].pc = "mark"
<1>1. UNCHANGED <<asks, answers>>
  BY DEF Filling, SheetRead, SheetStore, SheetReport, SheetCar, SheetPrepare, SheetMove,
         askVars
<1>2. clerk[c].pc \notin ReviewPcs
  BY DEF Filling, SheetRead, SheetStore, SheetReport, SheetCar, SheetPrepare, SheetMove,
         At, ReviewPcs
<1>3. \A d \in Clerks : d # c => clerk'[d] = clerk[d]
  BY DEF Filling, SheetRead, SheetStore, SheetReport, SheetCar, SheetPrepare, SheetMove,
         GoTo, Done, TypeInv, CounterTypeOK
<1>4. clerk'[c].pc \notin ReviewPcs
  <2>1. CASE \E k \in Kinds, d \in BOOLEAN : SheetRead(c, k, d)
    BY <2>1 DEF SheetRead, TypeInv, CounterTypeOK, ReviewPcs
  <2>2. ASSUME NEW pc \in {"report", "car", "move"}, GoTo(c, pc)
        PROVE  clerk'[c].pc \notin ReviewPcs
    BY <2>2 DEF GoTo, TypeInv, CounterTypeOK, ClerkStates, ReviewPcs
  <2>3. Done(c) => clerk'[c].pc \notin ReviewPcs
    BY FreeType DEF Done, TypeInv, CounterTypeOK, ReviewPcs
  <2>4. CASE SheetStore(c) \/ SheetReport(c)
    BY <2>2, <2>4 DEF SheetStore, SheetReport, AfterStore
  <2>5. CASE SheetCar(c)
    <3> DEFINE k == clerk[c].kind
               next == IF clerk[c].seen = NeedsHalf(k)
                       THEN [Free EXCEPT !.pc = "prepare", !.kind = k]
                       ELSE IF clerk[c].seen = Half(k)
                       THEN [Free EXCEPT !.pc = "move", !.kind = k]
                       ELSE Free
    <3>1. next.pc \notin ReviewPcs
      BY DEF Free, ReviewPcs
    <3>2. clerk' = [clerk EXCEPT ![c] = next]
      BY <2>5 DEF SheetCar
    <3> QED
      BY <3>1, <3>2 DEF TypeInv, CounterTypeOK
  <2>6. CASE SheetPrepare(c) \/ SheetMove(c)
    BY <2>2, <2>3, <2>6 DEF SheetPrepare, SheetMove
  <2> QED
    BY <2>1, <2>4, <2>5, <2>6 DEF Filling
<1>5. TypeInv'
  BY TypeStep DEF CounterNext
<1>6. clerk'[c].ask = NoAsk
  BY <1>4, <1>5 DEF TypeInv, InHands
<1> QED
  BY <1>1, <1>2, <1>3, <1>4, <1>6, CounterAssumption DEF WorksOn, ReviewPcs

-----------------------------------------------------------------------------
(* What is approved was acted on *)

\* Nothing takes back a cancellation or a refund once started.
Ended == stage = "cancelled" \/ money # "none"

Sane == stage = "refunded" => money = "succeeded"

MarksEnded == \A c \in Clerks : clerk[c].pc = "mark" => Ended

ActInv == TypeInv /\ Sane /\ MarksEnded /\ ApprovedIsActedOn

\* No step of the booking takes its end back.
LEMMA EndStays ==
    ASSUME BookingStep, Sane
    PROVE  Sane' /\ (Ended => Ended')
<1>1. ASSUME NEW new \in AdminOpsStatuses, ChangeTo(new)
      PROVE  Sane' /\ (Ended => Ended')
  <2>1. new \notin {"refunded", "manual_review"} /\ CanTransition(stage, new)
    BY <1>1, SetStatuses DEF ChangeTo, MayChange
  <2>2. stage = "cancelled" => new = "cancelled"
    BY <2>1 DEF CanTransition, Transitions
  <2> QED
    BY <1>1, <2>1, <2>2 DEF ChangeTo, Sane, Ended
<1>2. CASE Refunding!Start \/ Refunding!Resume \/ Refunding!Fail \/ Refunding!Succeed
  <2>1. "refunded" \notin RefundableStatuses
    BY DEF RefundableStatuses
  <2> QED
    BY <1>2, <2>1, SameLifecycle
       DEF Refunding!Start, Refunding!Resume, Refunding!Fail, Refunding!Succeed,
           Sane, Ended
<1> QED
  BY <1>1, <1>2 DEF BookingStep, booking, Sane, Ended

\* A clerk that answers comes to its mark when the booking has ended, and
\* approves from there.
LEMMA ActingStep ==
    ASSUME ActInv, NEW c \in Clerks, Reviewing(c)
    PROVE  /\ \A d \in Clerks : clerk'[d].pc = "mark" => clerk[d].pc = "mark" \/ Ended'
           /\ \A a \in Asks : asks'[a] = "approved" => asks[a] = "approved" \/ Ended
<1> USE DEF ActInv, TypeInv, CounterTypeOK
<1>1. CASE \E a \in Asks : ReviewRead(c, a)
  BY <1>1 DEF ReviewRead, askVars
<1>2. CASE Reject(c)
  <2>1. asks' = asks \/ \E a \in Asks : asks' = [asks EXCEPT ![a] = "rejected"]
    BY <1>2 DEF Reject, WithAnswer, At, InHands, ReviewPcs
  <2>2. \A d \in Clerks : clerk'[d].pc = "mark" => clerk[d].pc = "mark"
    BY <1>2, FreeType DEF Reject, Done
  <2> QED
    BY <2>1, <2>2
<1>3. CASE Mark(c)
  <2>1. Ended
    BY <1>3 DEF Mark, At, MarksEnded
  <2>2. clerk' = [clerk EXCEPT ![c] = Free]
    BY <1>3 DEF Mark, Done
  <2>3. \A d \in Clerks : clerk'[d].pc = "mark" => clerk[d].pc = "mark"
    BY <2>2, FreeType
  <2> QED
    BY <2>1, <2>3
<1>4. CASE ApproveRead(c) \/ ResolvePayment(c) \/ ReserveRefund(c)
           \/ DriveRefund(c) \/ CancelBooking(c)
  <2>1. asks' = asks
    BY <1>4 DEF ApproveRead, ResolvePayment, ReserveRefund, DriveRefund, CancelBooking,
                askVars
  <2>2. \/ Acted(c) /\ Ended'
        \/ Refused(c)
        \/ \E pc \in ReviewPcs \ {"mark"} : GoOn(c, pc)
    <3>1. CASE ApproveRead(c)
      BY <3>1 DEF ApproveRead, booking, Ended, ReviewPcs
    <3>2. CASE ResolvePayment(c)
      BY <3>2 DEF ResolvePayment, booking, Ended, Sane, ReviewPcs
    <3>3. CASE ReserveRefund(c)
      BY <3>3 DEF ReserveRefund, booking, Ended, Sane, ReviewPcs
    <3>4. CASE DriveRefund(c)
      BY <3>4 DEF DriveRefund, booking, Ended, ReviewPcs, Refunding!Succeed,
                  Refunding!Resume
    <3>5. CASE CancelBooking(c)
      BY <3>5 DEF CancelBooking, ChangeTo, Ended, ReviewPcs
    <3> QED
      BY <1>4, <3>1, <3>2, <3>3, <3>4, <3>5
  <2>3. \A d \in Clerks : clerk'[d].pc = "mark" => clerk[d].pc = "mark" \/ Ended'
    <3>1. ASSUME NEW pc \in ReviewPcs \ {"mark"}, GoOn(c, pc)
          PROVE  \A d \in Clerks : clerk'[d].pc = "mark" => clerk[d].pc = "mark"
      BY <3>1 DEF GoOn, GoTo, ClerkStates
    <3>2. ASSUME Refused(c)
          PROVE  \A d \in Clerks : clerk'[d].pc = "mark" => clerk[d].pc = "mark"
      BY <3>2, FreeType DEF Refused, Done
    <3> QED
      BY <2>2, <3>1, <3>2 DEF Acted, GoTo
  <2> QED
    BY <2>1, <2>3
<1> QED
  BY <1>1, <1>2, <1>3, <1>4 DEF Reviewing

\* Every step keeps it so.
LEMMA ActStep == ASSUME ActInv, [CounterNext]_counterVars PROVE ActInv'
<1>1. TypeInv'
  BY TypeStep DEF ActInv
<1>2. CASE UNCHANGED counterVars
  BY <1>1, <1>2
     DEF ActInv, Sane, MarksEnded, Ended, ApprovedIsActedOn, counterVars, booking, askVars
<1>3. CASE CounterNext
  <2>1. Sane' /\ (Ended => Ended')
    BY <1>3, StepsOfBooking, EndStays DEF ActInv
  <2>2. ASSUME \A d \in Clerks : clerk'[d].pc = "mark" => clerk[d].pc = "mark" \/ Ended',
               \A a \in Asks : asks'[a] = "approved" => asks[a] = "approved" \/ Ended
        PROVE  ActInv'
    BY <1>1, <2>1, <2>2 DEF ActInv, MarksEnded, ApprovedIsActedOn, Ended
  <2>3. CASE (\E new \in HandStatuses : StaffSets(new)) \/ RefundElsewhere
    BY <2>2, <2>3 DEF StaffSets, RefundElsewhere, askVars
  <2>4. ASSUME NEW t \in Tabs, AskRead(t) \/ AskCreate(t) PROVE ActInv'
    BY <2>2, <2>4 DEF AskRead, AskCreate, ActInv, TypeInv, CounterTypeOK
  <2>5. ASSUME NEW c \in Clerks, Reviewing(c) PROVE ActInv'
    BY <2>2, <2>5, ActingStep
  <2>6. ASSUME NEW c \in Clerks, Filling(c) PROVE ActInv'
    <3>1. TypeInv
      BY DEF ActInv
    <3> QED
      BY <2>2, <2>6, <3>1, FillingApart
  <2>7. ASSUME NEW c \in Clerks, Break(c) PROVE ActInv'
    <3>1. \A d \in Clerks : clerk'[d].pc = "mark" => clerk[d].pc = "mark"
      BY <2>7, FreeType DEF Break, Done, ActInv, TypeInv, CounterTypeOK
    <3> QED
      BY <2>2, <2>7, <3>1 DEF Break, askVars
  <2> QED
    BY <1>3, <2>3, <2>4, <2>5, <2>6, <2>7 DEF CounterNext
<1> QED
  BY <1>2, <1>3

\* A request never reads approved of a booking that is neither cancelled nor
\* under refund, whatever clerks, staff and jobs do between an approval's steps.
THEOREM ApprovalsAreActedOn == CounterSpec => []ApprovedIsActedOn
<1>1. ASSUME CounterInit PROVE ActInv
  <2>1. "refunded" \notin FoundStatuses
    BY CounterAssumption
  <2> QED
    BY <1>1, <2>1, TypeInit, FreeType
       DEF CounterInit, ActInv, Sane, MarksEnded, ApprovedIsActedOn
<1>2. ActInv => ApprovedIsActedOn
  BY DEF ActInv
<1> QED
  BY <1>1, <1>2, ActStep, PTL DEF CounterSpec

-----------------------------------------------------------------------------
(* What the guest is told *)

\* A rejection meets an approval at work only where it is recorded, and an
\* approval that has acted is answered, is about to be, or broke off.
Overtaken ==
    \A a \in Asks, c \in Clerks :
        asks[a] = "rejected" /\ WorksOn(c, a) => a \in crossed

Answered ==
    \A a \in acted :
        \/ asks[a] \in {"approved", "rejected"} \/ a \in lost
        \/ \E c \in Clerks : clerk[c].pc = "mark" /\ clerk[c].ask = a

AnswerInv == TypeInv /\ Overtaken /\ Answered /\ AnswersAgree

\* A step that answers nothing and leaves the clerks at their mark keeps it.
LEMMA AnswerFrame ==
    ASSUME AnswerInv, TypeInv',
           acted' = acted, crossed' = crossed, lost' = lost,
           \A a \in Asks : asks[a] # "none" => asks'[a] = asks[a],
           \A a \in Asks : asks'[a] = "rejected" => asks[a] = "rejected",
           \A c \in Clerks, a \in Asks :
               WorksOn(c, a)' => WorksOn(c, a) \/ asks[a] = "pending",
           \A c \in Clerks : clerk[c].pc = "mark" =>
               clerk'[c].pc = "mark" /\ clerk'[c].ask = clerk[c].ask
    PROVE  AnswerInv'
<1>1. acted \subseteq Asks
  BY DEF AnswerInv, TypeInv, CounterTypeOK
<1>2. Overtaken'
  BY DEF AnswerInv, Overtaken
<1>3. Answered'
  <2> SUFFICES ASSUME NEW a \in acted
               PROVE  \/ asks'[a] \in {"approved", "rejected"} \/ a \in lost
                      \/ \E c \in Clerks : clerk'[c].pc = "mark" /\ clerk'[c].ask = a
    BY DEF Answered
  <2>1. CASE asks[a] \in {"approved", "rejected"} \/ a \in lost
    BY <1>1, <2>1
  <2>2. CASE \E c \in Clerks : clerk[c].pc = "mark" /\ clerk[c].ask = a
    BY <2>2
  <2> QED
    BY <2>1, <2>2 DEF AnswerInv, Answered
<1>4. AnswersAgree'
  BY <1>1 DEF AnswerInv, AnswersAgree
<1> QED
  BY <1>2, <1>3, <1>4 DEF AnswerInv

\* So does every step of a clerk that answers a request.
LEMMA AnsweringStep ==
    ASSUME AnswerInv, TypeInv', NEW c \in Clerks, Reviewing(c)
    PROVE  AnswerInv'
<1> USE DEF AnswerInv, TypeInv, CounterTypeOK
<1>1. UNCHANGED lost
  BY DEF Reviewing, ReviewRead, Reject, ApproveRead, ResolvePayment, ReserveRefund,
         DriveRefund, CancelBooking, Mark, answers
<1>2. ASSUME NEW a \in Asks, ReviewRead(c, a) PROVE AnswerInv'
  <2>1. PICK pc \in {"approve", "reject"} :
            clerk' = [clerk EXCEPT ![c] = [clerk[c] EXCEPT !.pc = pc, !.ask = a]]
    BY <1>2 DEF ReviewRead
  <2>2. clerk[c].pc = "idle" /\ asks[a] = "pending" /\ UNCHANGED <<asks, answers>>
    BY <1>2 DEF ReviewRead, At, askVars
  <2>3. \A d \in Clerks, b \in Asks :
            WorksOn(d, b)' => WorksOn(d, b) \/ asks[b] = "pending"
    BY <2>1, <2>2 DEF WorksOn, ClerkStates
  <2>4. \A d \in Clerks : clerk[d].pc = "mark" => clerk'[d] = clerk[d]
    BY <2>1, <2>2
  <2> QED
    BY <2>2, <2>3, <2>4, AnswerFrame DEF answers
<1>3. CASE Reject(c)
  <2> DEFINE a == clerk[c].ask
  <2>1. a \in Asks /\ clerk[c].pc = "reject"
    BY <1>3 DEF Reject, At, InHands, ReviewPcs
  <2>2. /\ clerk' = [clerk EXCEPT ![c] = Free] /\ acted' = acted
        /\ asks' = WithAnswer(a, "rejected")
        /\ crossed' = IF Approving(a) # {} THEN crossed \cup {a} ELSE crossed
    BY <1>3 DEF Reject, Done
  <2>3. \A d \in Clerks, b \in Asks : WorksOn(d, b)' => WorksOn(d, b)
    BY <2>2, FreeType DEF WorksOn
  <2>4. \A d \in Clerks : clerk[d].pc = "mark" => clerk'[d] = clerk[d]
    BY <2>1, <2>2
  <2>5. \A d \in Clerks : WorksOn(d, a) => a \in crossed'
    BY <2>2 DEF WorksOn, Approving
  <2>6. crossed \subseteq crossed'
    BY <2>2
  <2> HIDE DEF a
  <2>7. /\ \A b \in Asks \ {a} : asks'[b] = asks[b]
        /\ asks'[a] = IF asks[a] = "pending" THEN "rejected" ELSE asks[a]
    BY <2>1, <2>2 DEF WithAnswer
  <2>8. Overtaken'
    BY <2>3, <2>5, <2>6, <2>7 DEF Overtaken
  <2>9. Answered'
    BY <1>1, <2>2, <2>4, <2>7 DEF Answered
  <2>10. AnswersAgree'
    <3>1. ASSUME a \in acted, asks[a] = "pending" PROVE a \in crossed' \cup lost
      <4>1. CASE a \in lost
        BY <4>1
      <4>2. CASE \E d \in Clerks : clerk[d].pc = "mark" /\ clerk[d].ask = a
        BY <2>5, <4>2 DEF WorksOn
      <4> QED
        BY <3>1, <4>1, <4>2 DEF Answered
    <3> QED
      BY <1>1, <2>2, <2>6, <2>7, <3>1 DEF AnswersAgree
  <2> QED
    BY <2>8, <2>9, <2>10
<1>4. CASE Mark(c)
  <2> DEFINE a == clerk[c].ask
  <2>1. a \in Asks /\ clerk[c].pc = "mark"
    BY <1>4 DEF Mark, At, InHands, ReviewPcs
  <2>2. /\ clerk' = [clerk EXCEPT ![c] = Free] /\ acted' = acted /\ crossed' = crossed
        /\ asks' = WithAnswer(a, "approved")
    BY <1>4 DEF Mark, Done, answers
  <2>3. \A d \in Clerks, b \in Asks : WorksOn(d, b)' => WorksOn(d, b)
    BY <2>2, FreeType DEF WorksOn
  <2>4. \A d \in Clerks : clerk[d].pc = "mark" => d = c \/ clerk'[d] = clerk[d]
    BY <2>2
  <2>5. asks[a] \in {"pending", "approved", "rejected"}
    BY <2>1 DEF InHands, ReviewPcs
  <2>6. \A d \in Clerks : d = c => clerk[d].ask = a
    OBVIOUS
  <2> HIDE DEF a
  <2>7. /\ \A b \in Asks \ {a} : asks'[b] = asks[b]
        /\ asks'[a] = IF asks[a] = "pending" THEN "approved" ELSE asks[a]
    BY <2>1, <2>2 DEF WithAnswer
  <2>8. Overtaken' /\ AnswersAgree'
    BY <1>1, <2>2, <2>3, <2>7 DEF Overtaken, AnswersAgree
  <2>9. Answered'
    BY <1>1, <2>2, <2>4, <2>5, <2>6, <2>7 DEF Answered
  <2> QED
    BY <2>8, <2>9
<1>5. CASE ApproveRead(c) \/ ResolvePayment(c) \/ ReserveRefund(c)
           \/ DriveRefund(c) \/ CancelBooking(c)
  <2>1. UNCHANGED <<asks, crossed>>
    BY <1>5 DEF ApproveRead, ResolvePayment, ReserveRefund, DriveRefund, CancelBooking,
                askVars
  <2>2. clerk[c].pc \in ReviewPcs \ {"mark", "reject"} /\ clerk[c].ask \in Asks
    BY <1>5 DEF ApproveRead, ResolvePayment, ReserveRefund, DriveRefund, CancelBooking,
                At, ReviewPcs, InHands
  <2>3. \/ Acted(c) \/ Refused(c)
        \/ \E pc \in ReviewPcs \ {"mark", "reject"} : GoOn(c, pc)
    BY <1>5 DEF ApproveRead, ResolvePayment, ReserveRefund, DriveRefund, CancelBooking,
                ReviewPcs
  <2>4. ASSUME NEW pc \in ReviewPcs, GoTo(c, pc)
        PROVE  /\ \A d \in Clerks, b \in Asks : WorksOn(d, b)' => WorksOn(d, b)
               /\ \A d \in Clerks : clerk[d].pc = "mark" => clerk'[d] = clerk[d]
               /\ clerk'[c].pc = pc /\ clerk'[c].ask = clerk[c].ask
    BY <2>2, <2>4 DEF GoTo, WorksOn, ClerkStates, ReviewPcs
  <2>5. ASSUME Refused(c) PROVE AnswerInv'
    <3>1. /\ \A d \in Clerks, b \in Asks : WorksOn(d, b)' => WorksOn(d, b)
          /\ \A d \in Clerks : clerk[d].pc = "mark" => clerk'[d] = clerk[d]
      BY <2>2, <2>5, FreeType DEF Refused, Done, WorksOn
    <3> QED
      BY <1>1, <2>1, <2>5, <3>1, AnswerFrame DEF Refused
  <2>6. ASSUME NEW pc \in ReviewPcs \ {"mark", "reject"}, GoOn(c, pc) PROVE AnswerInv'
    BY <1>1, <2>1, <2>4, <2>6, AnswerFrame DEF GoOn
  <2>7. ASSUME Acted(c) PROVE AnswerInv'
    <3> DEFINE a == clerk[c].ask
    <3>1. /\ \A d \in Clerks, b \in Asks : WorksOn(d, b)' => WorksOn(d, b)
          /\ \A d \in Clerks : clerk[d].pc = "mark" => clerk'[d] = clerk[d]
          /\ clerk'[c].pc = "mark" /\ clerk'[c].ask = a
      BY <2>4, <2>7 DEF Acted, ReviewPcs
    <3>2. acted' = acted \cup {a} /\ a \in Asks /\ WorksOn(c, a)
      BY <2>2, <2>7 DEF Acted, WorksOn, ReviewPcs
    <3> HIDE DEF a
    <3>3. Overtaken'
      BY <2>1, <3>1 DEF Overtaken
    <3>4. Answered'
      BY <1>1, <2>1, <3>1, <3>2 DEF Answered
    <3>5. AnswersAgree'
      BY <1>1, <2>1, <3>2 DEF AnswersAgree, Overtaken
    <3> QED
      BY <3>3, <3>4, <3>5
  <2> QED
    BY <2>3, <2>5, <2>6, <2>7
<1> QED
  BY <1>2, <1>3, <1>4, <1>5 DEF Reviewing

\* Every step keeps it.
LEMMA AnswerStep == ASSUME AnswerInv, [CounterNext]_counterVars PROVE AnswerInv'
<1>1. TypeInv'
  BY TypeStep DEF AnswerInv
<1>2. ASSUME UNCHANGED <<asks, clerk, answers>> PROVE AnswerInv'
  BY <1>1, <1>2, AnswerFrame DEF WorksOn, answers
<1>3. CASE UNCHANGED counterVars
  BY <1>2, <1>3 DEF counterVars, askVars
<1>4. CASE (\E new \in HandStatuses : StaffSets(new)) \/ RefundElsewhere
  BY <1>2, <1>4 DEF StaffSets, RefundElsewhere, askVars
<1>5. ASSUME NEW t \in Tabs, AskRead(t) \/ AskCreate(t) PROVE AnswerInv'
  <2>1. /\ UNCHANGED <<clerk, answers>>
        /\ UNCHANGED asks \/ \E a \in Asks :
               asks[a] = "none" /\ asks' = [asks EXCEPT ![a] = "pending"]
    BY <1>5 DEF AskRead, AskCreate
  <2>2. /\ \A a \in Asks : asks[a] # "none" => asks'[a] = asks[a]
        /\ \A a \in Asks : asks'[a] = "rejected" => asks[a] = "rejected"
    BY <2>1 DEF AnswerInv, TypeInv, CounterTypeOK
  <2> QED
    BY <1>1, <2>1, <2>2, AnswerFrame DEF WorksOn, answers
<1>6. ASSUME NEW c \in Clerks, Reviewing(c) PROVE AnswerInv'
  BY <1>1, <1>6, AnsweringStep
<1>7. ASSUME NEW c \in Clerks, Filling(c) PROVE AnswerInv'
  <2>1. TypeInv
    BY DEF AnswerInv
  <2> QED
    BY <1>1, <1>7, <2>1, FillingApart, AnswerFrame DEF answers
<1>8. ASSUME NEW c \in Clerks, Break(c) PROVE AnswerInv'
  <2>1. /\ clerk' = [clerk EXCEPT ![c] = Free]
        /\ UNCHANGED <<asks, acted, crossed>> /\ lost \subseteq lost'
        /\ clerk[c].pc = "mark" => clerk[c].ask \in lost'
    BY <1>8 DEF Break, Done, At, askVars
  <2>2. \A d \in Clerks, a \in Asks : WorksOn(d, a)' => WorksOn(d, a)
    BY <2>1, FreeType DEF WorksOn, AnswerInv, TypeInv, CounterTypeOK
  <2>3. \A d \in Clerks : d # c => clerk'[d] = clerk[d]
    BY <2>1
  <2>4. Overtaken' /\ AnswersAgree'
    BY <2>1, <2>2 DEF AnswerInv, Overtaken, AnswersAgree
  <2>5. Answered'
    BY <2>1, <2>3 DEF AnswerInv, Answered
  <2> QED
    BY <1>1, <2>4, <2>5 DEF AnswerInv
<1> QED
  BY <1>3, <1>4, <1>5, <1>6, <1>7, <1>8 DEF CounterNext

\* No guest is told "rejected" of a request whose approval ended the booking,
\* but for the two recorded accidents.
THEOREM AnswersAreTrue == CounterSpec => []AnswersAgree
<1>1. ASSUME CounterInit PROVE AnswerInv
  BY <1>1, TypeInit, FreeType
     DEF CounterInit, AnswerInv, Overtaken, Answered, AnswersAgree, WorksOn
<1>2. AnswerInv => AnswersAgree
  BY DEF AnswerInv
<1> QED
  BY <1>1, <1>2, AnswerStep, PTL DEF CounterSpec

-----------------------------------------------------------------------------
(* The records *)

\* The car shows the last checklist, and its damages are reported.
Agree ==
    /\ \A k \in Kinds : sheets[k] <= odometer
    /\ \E k \in Kinds : sheets[k] = odometer
    /\ damage => reports > 0

\* What holds while a clerk is between its checklist and the car.
HalfWay(c) ==
    /\ \A k \in Kinds : sheets[k] <= clerk[c].reading
    /\ clerk[c].pc \in {"report", "car"} => sheets[clerk[c].kind] = clerk[c].reading
    /\ damage /\ clerk[c].pc # "report" => reports > 0
    /\ clerk[c].damaged => clerk[c].kind = "return"

\* Readings grow with the checklists handed in; while nothing is blurred, one
\* clerk at most is on its way to the car.
Numbered ==
    /\ \A k \in Kinds : sheets[k] <= handed
    /\ \A c \in Clerks : AtSheet(c) => clerk[c].reading <= handed

Clear ==
    /\ (\A c \in Clerks : ~AtSheet(c)) => Agree
    /\ \A c \in Clerks : AtSheet(c) => HalfWay(c)
    /\ \A c, d \in Clerks : AtSheet(c) /\ AtSheet(d) => c = d

RecordInv == TypeInv /\ Numbered /\ (~blurred => Clear)

\* Nobody but a clerk with a checklist touches the records.
LEMMA RecordFrame ==
    ASSUME RecordInv, TypeInv', UNCHANGED papers,
           \A c \in Clerks : AtSheet(c)' \/ AtSheet(c) => clerk'[c] = clerk[c]
    PROVE  RecordInv'
<1>1. \A c \in Clerks : AtSheet(c)' <=> AtSheet(c)
  BY DEF AtSheet
<1>2. \A c \in Clerks : AtSheet(c) => clerk'[c] = clerk[c]
  OBVIOUS
<1>3. Numbered'
  BY <1>1, <1>2 DEF RecordInv, Numbered, papers
<1>4. \A c \in Clerks : AtSheet(c) /\ HalfWay(c) => HalfWay(c)'
  BY <1>2 DEF HalfWay, papers
<1>5. Agree => Agree'
  BY DEF Agree, papers
<1>6. Clear => Clear'
  BY <1>1, <1>4, <1>5 DEF Clear
<1> QED
  BY <1>3, <1>6 DEF RecordInv, papers

\* The checklist is begun, stored, reported and carried over to the car.
LEMMA FillRecords ==
    ASSUME RecordInv, TypeInv', NEW c \in Clerks, Filling(c)
    PROVE  RecordInv'
<1> USE DEF RecordInv, TypeInv, CounterTypeOK
<1>1. clerk[c] \in ClerkStates
  OBVIOUS
<1>2. ASSUME NEW k \in Kinds, NEW d \in BOOLEAN, SheetRead(c, k, d)
      PROVE  RecordInv'
  <2>1. /\ handed' = handed + 1 /\ UNCHANGED <<sheets, odometer, damage, reports>>
        /\ blurred' = (blurred \/ \E x \in Clerks : AtSheet(x))
        /\ d => k = "return"
    BY <1>2 DEF SheetRead
  <2>2. /\ clerk'[c].pc = "sheet" /\ clerk'[c].reading = handed + 1
        /\ clerk'[c].damaged = d /\ clerk'[c].kind = k
        /\ \A x \in Clerks : x # c => clerk'[x] = clerk[x]
    BY <1>2 DEF SheetRead
  <2>3. \A x \in Clerks : x # c => (AtSheet(x)' <=> AtSheet(x))
    BY <2>2 DEF AtSheet
  <2>4. AtSheet(c)'
    BY <2>2 DEF AtSheet
  <2>5. Numbered'
    BY <2>1, <2>2, <2>3 DEF Numbered, ClerkStates
  <2>6. ASSUME ~blurred' PROVE Clear'
    <3>1. Agree /\ \A x \in Clerks : ~AtSheet(x)
      BY <2>1, <2>6 DEF Clear
    <3>2. HalfWay(c)'
      BY <2>1, <2>2, <3>1 DEF HalfWay, Agree, Numbered
    <3> QED
      BY <2>3, <2>4, <3>1, <3>2 DEF Clear
  <2> QED
    BY <2>5, <2>6
<1>3. CASE SheetStore(c)
  <2> DEFINE k == clerk[c].kind
  <2>1. /\ sheets' = [sheets EXCEPT ![k] = clerk[c].reading]
        /\ damage' = IF k = "return" THEN clerk[c].damaged ELSE damage
        /\ UNCHANGED <<odometer, handed, reports, blurred>>
    BY <1>3 DEF SheetStore
  <2>2. /\ clerk[c].pc = "sheet" /\ clerk'[c].pc = AfterStore(c)
        /\ clerk'[c].reading = clerk[c].reading /\ clerk'[c].kind = k
        /\ clerk'[c].damaged = clerk[c].damaged
        /\ \A x \in Clerks : x # c => clerk'[x] = clerk[x]
    BY <1>1, <1>3 DEF SheetStore, At, GoTo, ClerkStates
  <2>3. AtSheet(c) /\ \A x \in Clerks : AtSheet(x)' <=> AtSheet(x)
    BY <2>2 DEF AtSheet, AfterStore
  <2>4. clerk[c].reading \in Nat /\ k \in Kinds /\ clerk[c].damaged \in BOOLEAN
    BY <1>1 DEF ClerkStates
  <2> HIDE DEF k
  <2>5. Numbered'
    BY <2>1, <2>2, <2>3, <2>4 DEF Numbered
  <2>6. ASSUME ~blurred PROVE Clear'
    <3>1. HalfWay(c) /\ \A x \in Clerks : AtSheet(x) => x = c
      BY <2>3, <2>6 DEF Clear
    <3>2. \A j \in Kinds : sheets'[j] <= clerk[c].reading
      BY <2>1, <2>4, <3>1 DEF HalfWay
    <3>3. sheets'[k] = clerk[c].reading
      BY <2>1, <2>4
    <3>4. damage' /\ ~clerk[c].damaged => reports > 0
      BY <2>1, <2>2, <3>1 DEF HalfWay
    <3>5. clerk[c].damaged => clerk'[c].pc = "report"
      BY <2>2 DEF AfterStore
    <3>6. clerk[c].damaged => k = "return"
      BY <3>1 DEF HalfWay, k
    <3>7. HalfWay(c)'
      BY <2>1, <2>2, <3>2, <3>3, <3>4, <3>5, <3>6 DEF HalfWay
    <3> QED
      BY <2>3, <3>1, <3>7 DEF Clear
  <2> QED
    BY <2>1, <2>5, <2>6
<1>4. CASE SheetReport(c)
  <2>1. reports' = reports + 1 /\ UNCHANGED <<sheets, odometer, handed, damage, blurred>>
    BY <1>4 DEF SheetReport
  <2>2. /\ clerk[c].pc = "report" /\ clerk'[c].pc = "car"
        /\ clerk'[c].reading = clerk[c].reading /\ clerk'[c].kind = clerk[c].kind
        /\ clerk'[c].damaged = clerk[c].damaged
        /\ \A x \in Clerks : x # c => clerk'[x] = clerk[x]
    BY <1>1, <1>4 DEF SheetReport, At, GoTo, ClerkStates
  <2>3. AtSheet(c) /\ \A x \in Clerks : AtSheet(x)' <=> AtSheet(x)
    BY <2>2 DEF AtSheet
  <2>4. Numbered'
    BY <2>1, <2>2, <2>3 DEF Numbered
  <2>5. ASSUME ~blurred PROVE Clear'
    <3>1. HalfWay(c) /\ \A x \in Clerks : AtSheet(x) => x = c
      BY <2>3, <2>5 DEF Clear
    <3>2. HalfWay(c)'
      BY <2>1, <2>2, <3>1 DEF HalfWay
    <3> QED
      BY <2>3, <3>1, <3>2 DEF Clear
  <2> QED
    BY <2>1, <2>4, <2>5
<1>5. CASE SheetCar(c)
  <2> DEFINE k == clerk[c].kind
             next == IF clerk[c].seen = NeedsHalf(k)
                     THEN [Free EXCEPT !.pc = "prepare", !.kind = k]
                     ELSE IF clerk[c].seen = Half(k)
                     THEN [Free EXCEPT !.pc = "move", !.kind = k]
                     ELSE Free
  <2>1. /\ clerk[c].pc = "car" /\ odometer' = clerk[c].reading
        /\ UNCHANGED <<sheets, handed, damage, reports, blurred>>
        /\ clerk' = [clerk EXCEPT ![c] = next]
    BY <1>5 DEF SheetCar, At
  <2>2. next.pc \in {"prepare", "move", "idle"}
    BY DEF Free
  <2>3. k \in Kinds
    BY <1>1 DEF ClerkStates
  <2> HIDE DEF next, k
  <2>4. AtSheet(c) /\ ~AtSheet(c)'
    BY <2>1, <2>2 DEF AtSheet
  <2>5. \A x \in Clerks : x # c => clerk'[x] = clerk[x] /\ (AtSheet(x)' <=> AtSheet(x))
    BY <2>1 DEF AtSheet
  <2>6. Numbered'
    BY <2>1, <2>4, <2>5 DEF Numbered
  <2>7. ASSUME ~blurred PROVE Clear'
    <3>1. HalfWay(c) /\ \A x \in Clerks : AtSheet(x) => x = c
      BY <2>4, <2>7 DEF Clear
    <3>2. Agree'
      BY <2>1, <2>3, <3>1 DEF HalfWay, Agree, k
    <3> QED
      BY <2>4, <2>5, <3>1, <3>2 DEF Clear
  <2> QED
    BY <2>1, <2>6, <2>7
<1>6. CASE SheetPrepare(c) \/ SheetMove(c)
  <2>1. UNCHANGED papers /\ ~AtSheet(c)
    BY <1>6 DEF SheetPrepare, SheetMove, At, AtSheet
  <2>2. GoTo(c, "move") \/ Done(c)
    BY <1>6 DEF SheetPrepare, SheetMove
  <2>3. ~AtSheet(c)'
    BY <1>1, <2>2, FreeType DEF GoTo, Done, AtSheet, ClerkStates
  <2>4. \A x \in Clerks : x # c => clerk'[x] = clerk[x]
    BY <2>2 DEF GoTo, Done
  <2> QED
    BY <2>1, <2>3, <2>4, RecordFrame
<1> QED
  BY <1>2, <1>3, <1>4, <1>5, <1>6 DEF Filling

\* A clerk that answers a request has no checklist in hand.
LEMMA ReviewingApart ==
    ASSUME TypeInv, TypeInv', NEW c \in Clerks, Reviewing(c)
    PROVE  /\ UNCHANGED papers
           /\ \A d \in Clerks : AtSheet(d)' \/ AtSheet(d) => clerk'[d] = clerk[d]
<1> USE DEF TypeInv, CounterTypeOK
<1>1. UNCHANGED papers
  BY DEF Reviewing, ReviewRead, Reject, ApproveRead, ResolvePayment, ReserveRefund,
         DriveRefund, CancelBooking, Mark
<1>2. clerk[c].pc \in ReviewPcs \cup {"idle"}
  BY DEF Reviewing, ReviewRead, Reject, ApproveRead, ResolvePayment, ReserveRefund,
         DriveRefund, CancelBooking, Mark, At, ReviewPcs
<1>3. \/ \E pc \in ReviewPcs : GoTo(c, pc)
      \/ Done(c)
      \/ \E a \in Asks, pc \in {"approve", "reject"} :
             clerk' = [clerk EXCEPT ![c].pc = pc, ![c].ask = a]
  BY DEF Reviewing, ReviewRead, Reject, ApproveRead, ResolvePayment, ReserveRefund,
         DriveRefund, CancelBooking, Mark, Acted, Refused, GoOn, ReviewPcs
<1>4. clerk'[c].pc \in ReviewPcs \cup {"idle"}
  BY <1>3, FreeType DEF GoTo, Done, ClerkStates, ReviewPcs
<1>5. \A d \in Clerks : d # c => clerk'[d] = clerk[d]
  BY <1>3 DEF GoTo, Done
<1> QED
  BY <1>1, <1>2, <1>4, <1>5 DEF AtSheet, ReviewPcs

\* Every step keeps the records.
LEMMA RecordStep == ASSUME RecordInv, [CounterNext]_counterVars PROVE RecordInv'
<1>1. TypeInv /\ TypeInv'
  BY TypeStep DEF RecordInv
<1>2. ASSUME UNCHANGED <<clerk, papers>> PROVE RecordInv'
  BY <1>1, <1>2, RecordFrame
<1>3. CASE UNCHANGED counterVars
  BY <1>2, <1>3 DEF counterVars
<1>4. CASE (\E new \in HandStatuses : StaffSets(new)) \/ RefundElsewhere
           \/ \E t \in Tabs : AskRead(t) \/ AskCreate(t)
  BY <1>2, <1>4 DEF StaffSets, RefundElsewhere, AskRead, AskCreate
<1>5. ASSUME NEW c \in Clerks, Reviewing(c) PROVE RecordInv'
  BY <1>1, <1>5, ReviewingApart, RecordFrame
<1>6. ASSUME NEW c \in Clerks, Filling(c) PROVE RecordInv'
  BY <1>1, <1>6, FillRecords
<1>7. ASSUME NEW c \in Clerks, Break(c) PROVE RecordInv'
  <2>1. /\ clerk' = [clerk EXCEPT ![c] = Free]
        /\ blurred' = (blurred \/ AtSheet(c))
        /\ UNCHANGED <<sheets, odometer, handed, damage, reports>>
    BY <1>7 DEF Break, Done
  <2>2. ~AtSheet(c)' /\ \A d \in Clerks : d # c => clerk'[d] = clerk[d]
    BY <1>1, <2>1, FreeType DEF AtSheet, TypeInv, CounterTypeOK
  <2>3. CASE AtSheet(c)
    <3>1. Numbered'
      BY <2>1, <2>2 DEF RecordInv, Numbered, AtSheet
    <3> QED
      BY <1>1, <2>1, <2>3, <3>1 DEF RecordInv
  <2>4. CASE ~AtSheet(c)
    <3>1. UNCHANGED papers
      BY <1>1, <2>1, <2>4 DEF papers, TypeInv, CounterTypeOK
    <3> QED
      BY <1>1, <2>2, <2>4, <3>1, RecordFrame
  <2> QED
    BY <2>3, <2>4
<1> QED
  BY <1>3, <1>4, <1>5, <1>6, <1>7 DEF CounterNext

\* The checklists, the car and the damage reports agree whenever no checklist
\* is half done, unless two were handed in at once or one broke off.
THEOREM RecordsAreTrue == CounterSpec => []CounterRecordsAgree
<1>1. ASSUME CounterInit PROVE RecordInv
  <2>1. \A c \in Clerks : ~AtSheet(c)
    BY <1>1, FreeType DEF CounterInit, AtSheet
  <2>2. \A k \in Kinds : sheets[k] = 0
    BY <1>1 DEF CounterInit
  <2>3. Agree
    BY <1>1, <2>2 DEF CounterInit, Agree, Kinds
  <2>4. Numbered
    BY <1>1, <2>1, <2>2 DEF CounterInit, Numbered
  <2> QED
    BY <1>1, <2>1, <2>3, <2>4, TypeInit DEF RecordInv, Clear
<1>2. RecordInv => CounterRecordsAgree
  BY DEF RecordInv, Clear, Agree, CounterRecordsAgree
<1> QED
  BY <1>1, <1>2, RecordStep, PTL DEF CounterSpec
=============================================================================
