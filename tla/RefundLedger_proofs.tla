------------------------ MODULE RefundLedger_proofs ------------------------
(***************************************************************************)
(* Every refund ledger, with any number of administrators, workers and     *)
(* attempts, keeps its types, has one active row, agrees with the          *)
(* reservation, implements RefundPromise, and says succeeded only of money *)
(* that Stripe has given back.                                             *)
(***************************************************************************)
EXTENDS RefundLedger, TLAPS, FiniteSetTheorems, WellFoundedInduction

-----------------------------------------------------------------------------
(* Types *)

RowType == [status : RowStatuses \cup {"none"}, refund : Sources \cup {NoRefund},
            amount : 0..Paid, flagged : BOOLEAN]

AdminType == [pc : {"idle", "resolved", "drive", "answered",
                    "declined", "retrieved", "next"},
              op : Sources, refund : Sources \cup {NoRefund},
              amount : 0..Paid, answer : RowStatuses \cup {"none"}]

WorkerType == [pc : {"idle", "event", "row"}, event : Events,
               op : Sources, refund : Sources \cup {NoRefund},
               answer : RowStatuses \cup {"none"}]

StripeType == [status : RowStatuses \cup {"none"},
               first : RowStatuses \cup {"none"}, amount : 0..Paid]

\* Whoever is about to write a row found it or made it before.
Busy ==
    /\ \A a \in Admins :
          admin[a].pc \in {"drive", "answered", "declined", "retrieved", "next"}
              => /\ admin[a].op \in Attempts
                 /\ ops[admin[a].op].status # "none"
    /\ \A w \in Workers : worker[w].pc # "idle" =>
          /\ worker[w].op \in Attempts
          /\ ops[worker[w].op].status # "none"

\* A row that is not there yet knows no refund.
Blank == \A i \in Attempts : ops[i].status = "none" => ops[i].refund = NoRefund

TypeInv == TypeOK /\ Busy /\ Blank

\* Attempts are sources.
LEMMA AttemptsAreSources == Attempts \subseteq Sources /\ 0 \in Sources
BY LedgerAssumption DEF Attempts, Sources

\* What a transaction may do to the rows and the reservation: mark a row
\* failed, set it pending again, ...
Failing(i) ==
    /\ ops[i].status \in {"pending", "failed"}
    /\ ops' = [ops EXCEPT ![i].status = "failed"]
    /\ UNCHANGED status

Reopening(i, n) ==
    /\ ops[i].status \in {"pending", "failed"} /\ Active \subseteq {i}
    /\ ops' = [ops EXCEPT ![i].status = "pending", ![i].refund = n]
    /\ UNCHANGED status

\* ... mark the only active row, or the caller's, succeeded, ...
Succeeding(i, n) ==
    /\ ops[i].status \in {"pending", "failed"} /\ Active \subseteq {i}
    /\ ops' = [ops EXCEPT ![i] = Applied(ops[i], n)]
    /\ status' = Settled(status)

\* ... open an attempt, or change the reservation.
Opening(i, amount) ==
    /\ ops[i].status = "none" /\ Active = {} /\ status \in RefundableStatuses
    /\ Insert(i, amount)
    /\ UNCHANGED status

Moving(new) == MayMove(new) /\ status' = new /\ UNCHANGED ops

RowStep ==
    \/ UNCHANGED <<ops, status>>
    \/ \E i \in Attempts :
          \/ Failing(i)
          \/ \E n \in Sources \cup {NoRefund} : Reopening(i, n) \/ Succeeding(i, n)
          \/ \E amount \in 0..Paid : Opening(i, amount)
    \/ \E new \in StaffStatuses : Moving(new)

\* MarkFailed touches at most one row that exists.
LEMMA MarkFailedCases ==
    ASSUME TypeOK, NEW i \in Attempts, ops[i].status # "none", MarkFailed(i),
           UNCHANGED status
    PROVE  RowStep
<1>1. CASE Open(i)
  <2>1. Failing(i)
    BY <1>1 DEF MarkFailed, Open, Failing, TypeOK, RowStatuses
  <2> QED
    BY <2>1 DEF RowStep
<1>2. CASE ~Open(i)
  BY <1>2 DEF MarkFailed, RowStep
<1> QED
  BY <1>1, <1>2

\* So does SetPending.
LEMMA SetPendingCases ==
    ASSUME TypeOK, NEW i \in Attempts, ops[i].status # "none",
           NEW n \in Sources \cup {NoRefund}, SetPending(i, n), UNCHANGED status
    PROVE  RowStep
<1>1. CASE Open(i) /\ MayActivate(i, n)
  <2>1. Reopening(i, n)
    BY <1>1 DEF SetPending, MayActivate, Open, Reopening, TypeOK, RowStatuses
  <2> QED
    BY <2>1 DEF RowStep
<1>2. CASE ~(Open(i) /\ MayActivate(i, n))
  BY <1>2 DEF SetPending, RowStep
<1> QED
  BY <1>1, <1>2

\* And so does Apply, on the active row if there is one.
LEMMA ApplyCases ==
    ASSUME TypeOK, OneActiveOperation, NEW i \in Attempts,
           ops[i].status # "none",
           NEW n \in Sources \cup {NoRefund}, Apply(i, n)
    PROVE  RowStep
<1>1. CASE Open(Target(i)) /\ ~ApplyRefused(i, n)
  <2>1. Target(i) \in Attempts /\ Active \subseteq {Target(i)}
        /\ ops[Target(i)].status # "none"
    <3>1. CASE Active = {}
      BY <3>1 DEF Target
    <3>2. CASE Active # {}
      <4>1. Target(i) \in Active
        BY <3>2 DEF Target
      <4> QED
        BY <4>1 DEF OneActiveOperation, Active, Rows
    <3> QED
      BY <3>1, <3>2
  <2>2. Succeeding(Target(i), n)
    BY <1>1, <2>1 DEF Apply, Open, Succeeding, TypeOK, RowStatuses
  <2> QED
    BY <2>1, <2>2 DEF RowStep
<1>2. CASE ~(Open(Target(i)) /\ ~ApplyRefused(i, n))
  BY <1>2 DEF Apply, RowStep
<1> QED
  BY <1>1, <1>2

-----------------------------------------------------------------------------
(* What every such step keeps *)

\* Rows stay rows, and the status a status.
LEMMA RowsKeep ==
    ASSUME TypeOK, RowStep
    PROVE  /\ status' \in Statuses
           /\ ops' \in [Attempts -> RowType]
           /\ \A i \in Attempts : ops[i].status # "none" => ops'[i].status # "none"
<1> USE AttemptsAreSources
<1>1. ops \in [Attempts -> RowType] /\ status \in Statuses
  BY DEF TypeOK, RowType
<1>2. CASE UNCHANGED <<ops, status>>
  BY <1>1, <1>2
<1>3. ASSUME NEW i \in Attempts, NEW n \in Sources \cup {NoRefund},
             Failing(i) \/ Reopening(i, n)
      PROVE  /\ ops' \in [Attempts -> RowType] /\ status' \in Statuses
             /\ \A j \in Attempts : ops[j].status # "none" => ops'[j].status # "none"
  <2>1. \/ ops' = [ops EXCEPT ![i] = [ops[i] EXCEPT !.status = "failed"]]
        \/ ops' = [ops EXCEPT ![i] = [ops[i] EXCEPT !.status = "pending",
                                                    !.refund = n]]
    BY <1>3 DEF Failing, Reopening
  <2>2. /\ [ops[i] EXCEPT !.status = "failed"] \in RowType
        /\ [ops[i] EXCEPT !.status = "pending", !.refund = n] \in RowType
    BY <1>1 DEF RowType, RowStatuses
  <2>3. status' = status
    BY <1>3 DEF Failing, Reopening
  <2>4. /\ [ops[i] EXCEPT !.status = "failed"].status = "failed"
        /\ [ops[i] EXCEPT !.status = "pending", !.refund = n].status = "pending"
    BY <1>1 DEF RowType
  <2> QED
    BY <1>1, <2>1, <2>2, <2>3, <2>4
<1>4. ASSUME NEW i \in Attempts, NEW n \in Sources \cup {NoRefund}, Succeeding(i, n)
      PROVE  /\ ops' \in [Attempts -> RowType] /\ status' \in Statuses
             /\ \A j \in Attempts : ops[j].status # "none" => ops'[j].status # "none"
  <2>1. Applied(ops[i], n) \in RowType /\ Applied(ops[i], n).status = "succeeded"
    BY <1>1 DEF Applied, Flagged, CanTransition, RowType, RowStatuses
  <2>2. Settled(status) \in Statuses
    BY <1>1 DEF Settled, Statuses
  <2> QED
    BY <1>1, <1>4, <2>1, <2>2 DEF Succeeding
<1>5. ASSUME NEW i \in Attempts, NEW amount \in 0..Paid, Opening(i, amount)
      PROVE  /\ ops' \in [Attempts -> RowType] /\ status' \in Statuses
             /\ \A j \in Attempts : ops[j].status # "none" => ops'[j].status # "none"
  BY <1>1, <1>5 DEF Opening, Insert, RowType, RowStatuses
<1>6. ASSUME NEW new \in StaffStatuses, Moving(new)
      PROVE  ops' = ops /\ status' \in Statuses
  BY <1>6, LedgerAssumption DEF Moving
<1> QED
  BY <1>1, <1>2, <1>3, <1>4, <1>5, <1>6 DEF RowStep

\* A row becomes active only when no other row is.
LEMMA OneActiveStep ==
    ASSUME TypeOK, OneActiveOperation, RowStep
    PROVE  OneActiveOperation'
<1> USE DEF OneActiveOperation, Active, Rows
<1>1. ops \in [Attempts -> RowType]
  BY DEF TypeOK, RowType
<1>2. CASE UNCHANGED <<ops, status>>
  BY <1>2
<1>3. ASSUME NEW i \in Attempts, Failing(i)
      PROVE  OneActiveOperation'
  BY <1>1, <1>3 DEF Failing, RowType
<1>4. ASSUME NEW i \in Attempts, NEW n \in Sources \cup {NoRefund},
             Reopening(i, n) \/ Succeeding(i, n)
      PROVE  OneActiveOperation'
  BY <1>1, <1>4 DEF Reopening, Succeeding, RowType
<1>5. ASSUME NEW i \in Attempts, NEW amount \in 0..Paid, Opening(i, amount)
      PROVE  OneActiveOperation'
  BY <1>1, <1>5 DEF Opening, Insert, RowType
<1>6. ASSUME NEW new \in StaffStatuses, Moving(new)
      PROVE  OneActiveOperation'
  BY <1>6 DEF Moving
<1> QED
  BY <1>2, <1>3, <1>4, <1>5, <1>6 DEF RowStep

\* The row that succeeds is flagged exactly when the reservation cannot follow.
LEMMA BooksStep ==
    ASSUME TypeOK, BooksAgree, RowStep
    PROVE  BooksAgree'
<1> USE DEF BooksAgree, Rows
<1>1. ops \in [Attempts -> RowType] /\ status \in Statuses
  BY DEF TypeOK, RowType
<1>2. CASE UNCHANGED <<ops, status>>
  BY <1>2
<1>3. ASSUME NEW i \in Attempts, NEW n \in Sources \cup {NoRefund},
             Failing(i) \/ Reopening(i, n)
      PROVE  BooksAgree'
  <2>1. /\ ops'[i].status # "succeeded" /\ ops[i].status # "succeeded"
        /\ \A j \in Attempts \ {i} : ops'[j] = ops[j]
        /\ status' = status
    BY <1>1, <1>3 DEF Failing, Reopening, RowType
  <2> QED
    BY <2>1
<1>4. ASSUME NEW i \in Attempts, NEW n \in Sources \cup {NoRefund}, Succeeding(i, n)
      PROVE  BooksAgree'
  <2>1. /\ ops'[i].status = "succeeded" /\ ops'[i].flagged = Flagged
        /\ \A j \in Attempts \ {i} : ops'[j] = ops[j] /\ ops[j].status # "succeeded"
        /\ ops[i].status # "succeeded"
    BY <1>1, <1>4 DEF Succeeding, Applied, RowType, Active
  <2>2. status # "refunded"
    BY <2>1
  <2>3. status' = "refunded" <=> ~Flagged
    BY <1>4, <2>2 DEF Succeeding, Settled, Flagged
  <2> QED
    BY <2>1, <2>3
<1>5. ASSUME NEW i \in Attempts, NEW amount \in 0..Paid, Opening(i, amount)
      PROVE  BooksAgree'
  <2>1. /\ ops'[i].status # "succeeded" /\ ops[i].status # "succeeded"
        /\ \A j \in Attempts \ {i} : ops'[j] = ops[j]
        /\ status' = status
    BY <1>1, <1>5 DEF Opening, Insert, RowType
  <2> QED
    BY <2>1
<1>6. ASSUME NEW new \in StaffStatuses, Moving(new)
      PROVE  BooksAgree'
  <2>1. new # "refunded" /\ status # "refunded"
    BY <1>6, LedgerAssumption DEF Moving, MayMove, CanTransition, Transitions
  <2> QED
    BY <1>6, <2>1 DEF Moving
<1> QED
  BY <1>2, <1>3, <1>4, <1>5, <1>6 DEF RowStep

-----------------------------------------------------------------------------
(* The steps of the ledger *)

\* Every operation does one of these things to the rows and the reservation.
LEMMA StepRows ==
    ASSUME TypeOK, Busy, OneActiveOperation, Next
    PROVE  RowStep
<1> USE AttemptsAreSources
<1>1. ASSUME NEW a \in Admins, AdminStep(a)
      PROVE  RowStep
  <2>0. /\ admin[a] \in AdminType
        /\ admin[a].refund \in Sources \cup {NoRefund}
        /\ admin[a].amount \in 0..Paid /\ admin[a].op \in Sources
    BY DEF TypeOK, AdminType
  <2>1. CASE \/ Resolve(a) \/ ReserveActive(a) \/ ReserveFailed(a)
             \/ ReserveRefused(a) \/ CreateAtStripe(a) \/ CreateRefused(a)
             \/ Retrieve(a)
    BY <2>1 DEF Resolve, ReserveActive, ReserveFailed, ReserveRefused,
                CreateAtStripe, CreateRefused, Retrieve, RowStep
  <2>2. CASE ReserveNew(a)
    <3>1. PICK i \in Unused : Insert(i, admin[a].amount)
      BY <2>2 DEF ReserveNew
    <3>2. i \in Attempts /\ Opening(i, admin[a].amount)
      BY <2>2, <3>1 DEF ReserveNew, Opening, MayInsert, Unused, Rows
    <3> QED
      BY <2>0, <3>2 DEF RowStep
  <2>3. CASE Declined(a)
    BY <2>3, MarkFailedCases DEF Declined, Busy
  <2>4. CASE Finish(a)
    BY <2>0, <2>4, MarkFailedCases, SetPendingCases, ApplyCases DEF Finish, Busy
  <2>5. CASE Retrieved(a)
    BY <2>0, <2>5, MarkFailedCases, SetPendingCases, ApplyCases DEF Retrieved, Busy
  <2>6. CASE NextAttempt(a)
    <3>1. CASE UNCHANGED ops
      BY <2>6, <3>1 DEF NextAttempt, RowStep
    <3>2. CASE ~UNCHANGED ops
      <4>1. /\ admin[a].op + 1 \in Attempts
            /\ Opening(admin[a].op + 1, admin[a].amount)
        BY <2>6, <3>2 DEF NextAttempt, Opening, MayInsert
      <4> QED
        BY <2>0, <4>1 DEF RowStep
    <3> QED
      BY <3>1, <3>2
  <2> QED
    BY <1>1, <2>1, <2>2, <2>3, <2>4, <2>5, <2>6 DEF AdminStep
<1>2. ASSUME NEW w \in Workers, WorkerStep(w)
      PROVE  RowStep
  <2>0. /\ worker[w].refund \in Sources \cup {NoRefund}
        /\ worker[w].event \in Events /\ worker[w].op \in Sources
    BY DEF TypeOK
  <2>1. CASE \/ \E e \in Events : Receive(w, e)
             \/ \E i \in Attempts : LookAt(w, i)
    BY <2>1 DEF Receive, LookAt, RowStep
  <2>2. CASE ActOnEvent(w)
    <3>1. Named(w) \in Sources \cup {NoRefund}
      BY <2>0 DEF Named, Events
    <3> QED
      BY <2>2, <3>1, MarkFailedCases, ApplyCases DEF ActOnEvent, Busy, RowStep
  <2>3. CASE ActOnRow(w)
    BY <2>0, <2>3, MarkFailedCases, SetPendingCases, ApplyCases DEF ActOnRow, Busy
  <2> QED
    BY <1>2, <2>1, <2>2, <2>3 DEF WorkerStep
<1>3. CASE (\E s \in Sources : StripeSettles(s)) \/ DashboardRefund
  BY <1>3 DEF StripeSettles, DashboardRefund, RowStep
<1>4. CASE \E new \in StaffStatuses : StaffMoves(new)
  BY <1>4 DEF StaffMoves, Moving, RowStep
<1> QED
  BY <1>1, <1>2, <1>3, <1>4 DEF Next, OwnStep

\* Stripe's refunds and the inbox keep their types.
LEMMA RecordTypes ==
    ASSUME TypeOK, NEW s \in Sources, NEW amount \in 0..Paid,
           NEW now \in RowStatuses \cup {"none"},
           NEW first \in RowStatuses \cup {"none"},
           Record(s, amount, now, first)
    PROVE  /\ stripe' \in [Sources -> StripeType]
           /\ inbox' \in [Events -> {"none", "sent", "received", "done"}]
<1>1. stripe \in [Sources -> StripeType]
      /\ inbox \in [Events -> {"none", "sent", "received", "done"}]
  BY DEF TypeOK, StripeType
<1>2. [status |-> now, amount |-> amount, first |-> first] \in StripeType
  BY DEF StripeType
<1>3. stripe' \in [Sources -> StripeType]
  BY <1>1, <1>2 DEF Record
<1>4. inbox' \in [Events -> {"none", "sent", "received", "done"}]
  BY <1>1 DEF Record
<1> QED
  BY <1>3, <1>4

\* The requests keep their types, and hold on to rows that exist.
BusyAdmin(a) ==
    admin[a].pc \in {"drive", "answered", "declined", "retrieved", "next"}
        => admin[a].op \in Attempts /\ ops[admin[a].op].status # "none"

BusyWorker(w) ==
    worker[w].pc # "idle" => worker[w].op \in Attempts /\ ops[worker[w].op].status # "none"

\* The row a request drives was there before, or has just been made.
LEMMA DriveTypes ==
    ASSUME TypeOK, Busy, RowStep, NEW a \in Admins, NEW i \in Attempts,
           NEW known \in Sources \cup {NoRefund}, NEW amount \in 0..Paid,
           Drive(a, i, known, amount), ops'[i].status # "none"
    PROVE  /\ admin' \in [Admins -> AdminType]
           /\ \A b \in Admins : BusyAdmin(b)'
<1> USE AttemptsAreSources
<1>1. admin \in [Admins -> AdminType]
  BY DEF TypeOK, AdminType
<1> DEFINE new == [Idle EXCEPT !.pc = "drive", !.op = i, !.refund = known,
                               !.amount = amount]
<1>2. new \in AdminType /\ new.pc = "drive" /\ new.op = i
  BY DEF AdminType, Idle
<1>3. admin' = [admin EXCEPT ![a] = new]
  BY DEF Drive
<1>4. ASSUME NEW b \in Admins \ {a}
      PROVE  BusyAdmin(b)'
  BY <1>1, <1>3, RowsKeep DEF Busy, BusyAdmin
<1> HIDE DEF new
<1> QED
  BY <1>1, <1>2, <1>3, <1>4 DEF BusyAdmin

\* A request that leaves, or goes on with the row it has.
LEMMA KeepTypes ==
    ASSUME TypeOK, Busy, RowStep, NEW a \in Admins, NEW r \in AdminType,
           \/ r.pc \in {"idle", "resolved"}
           \/ /\ r.op = admin[a].op
              /\ admin[a].pc \in {"drive", "answered", "declined",
                                   "retrieved", "next"},
           admin' = [admin EXCEPT ![a] = r]
    PROVE  /\ admin' \in [Admins -> AdminType]
           /\ \A b \in Admins : BusyAdmin(b)'
<1>1. admin \in [Admins -> AdminType]
  BY DEF TypeOK, AdminType
<1>2. admin' \in [Admins -> AdminType]
  BY <1>1
<1>3. ASSUME NEW b \in Admins
      PROVE  BusyAdmin(b)'
  <2>1. CASE b = a
    <3>1. admin'[b] = r
      BY <1>1, <2>1
    <3> QED
      BY <2>1, <3>1, RowsKeep DEF Busy, BusyAdmin
  <2>2. CASE b # a
    BY <1>1, <2>2, RowsKeep DEF Busy, BusyAdmin
  <2> QED
    BY <2>1, <2>2
<1> QED
  BY <1>2, <1>3

\* Nothing but the request moves it.
LEMMA SameAdmin ==
    ASSUME TypeOK, Busy, RowStep, UNCHANGED admin
    PROVE  /\ admin' \in [Admins -> AdminType]
           /\ \A b \in Admins : BusyAdmin(b)'
BY RowsKeep DEF TypeOK, AdminType, Busy, BusyAdmin

\* The same for the workers.
LEMMA SameWorker ==
    ASSUME TypeOK, Busy, RowStep, UNCHANGED worker
    PROVE  /\ worker' \in [Workers -> WorkerType]
           /\ \A w \in Workers : BusyWorker(w)'
BY RowsKeep DEF TypeOK, WorkerType, Busy, BusyWorker

\* A worker that goes on with a row, or is idle again.
LEMMA WorkerTypes ==
    ASSUME TypeOK, Busy, RowStep, NEW w \in Workers, NEW r \in WorkerType,
           \/ r.pc = "idle"
           \/ r.op \in Attempts /\ ops'[r.op].status # "none",
           worker' = [worker EXCEPT ![w] = r]
    PROVE  /\ worker' \in [Workers -> WorkerType]
           /\ \A v \in Workers : BusyWorker(v)'
<1>1. worker \in [Workers -> WorkerType]
  BY DEF TypeOK, WorkerType
<1>2. ASSUME NEW v \in Workers
      PROVE  BusyWorker(v)'
  <2>1. CASE v = w
    BY <1>1, <2>1 DEF BusyWorker
  <2>2. CASE v # w
    <3>1. worker'[v] = worker[v]
      BY <1>1, <2>2
    <3> QED
      BY <3>1, RowsKeep DEF Busy, BusyWorker
  <2> QED
    BY <2>1, <2>2
<1> QED
  BY <1>1, <1>2

\* Every request leaves its record typed, and its row existing.
LEMMA AdminTypes ==
    ASSUME TypeOK, Busy, RowStep, NEW a \in Admins, AdminStep(a)
    PROVE  /\ admin' \in [Admins -> AdminType]
           /\ \A b \in Admins : BusyAdmin(b)'
<1> USE AttemptsAreSources
<1>0. /\ admin[a] \in AdminType /\ ops \in [Attempts -> RowType]
      /\ admin \in [Admins -> AdminType]
      /\ stripe \in [Sources -> StripeType]
  BY DEF TypeOK, AdminType, RowType, StripeType
<1> DEFINE Good == /\ admin' \in [Admins -> AdminType]
                   /\ \A b \in Admins : BusyAdmin(b)'
<1>1. Idle \in AdminType /\ Idle.pc = "idle"
  BY LedgerAssumption DEF AdminType, Idle
<1>2. CASE Leave(a)
  BY <1>1, <1>2, KeepTypes DEF Leave
<1>3. CASE Resolve(a)
  <2>1. PICK amount \in OfferedAmounts :
            admin' = [admin EXCEPT ![a] = [Idle EXCEPT !.pc = "resolved",
                                                       !.amount = amount]]
    BY <1>3 DEF Resolve
  <2>2. amount \in 0..Paid
    BY <2>1 DEF OfferedAmounts
  <2>3. [Idle EXCEPT !.pc = "resolved", !.amount = amount] \in AdminType
        /\ [Idle EXCEPT !.pc = "resolved", !.amount = amount].pc = "resolved"
    BY <2>2 DEF AdminType, Idle
  <2> QED
    BY <2>1, <2>3, KeepTypes
<1>4. ASSUME NEW i \in Attempts, NEW known \in Sources \cup {NoRefund},
             NEW amount \in 0..Paid,
             Drive(a, i, known, amount), ops'[i].status # "none"
      PROVE  Good
  BY <1>4, DriveTypes
<1>5. CASE ReserveActive(a)
  <2>1. PICK i \in Active : Drive(a, i, ops[i].refund, ops[i].amount)
    BY <1>5 DEF ReserveActive
  <2>2. i \in Attempts /\ ops'[i].status # "none"
        /\ ops[i].refund \in Sources \cup {NoRefund} /\ ops[i].amount \in 0..Paid
    BY <1>0, <1>5, <2>1 DEF ReserveActive, Active, Rows, RowType
  <2> QED
    BY <1>4, <2>1, <2>2
<1>6. CASE ReserveFailed(a)
  <2>1. PICK i \in Latest : Drive(a, i, ops[i].refund, ops[i].amount)
    BY <1>6 DEF ReserveFailed
  <2>2. i \in Attempts /\ ops'[i].status # "none"
        /\ ops[i].refund \in Sources \cup {NoRefund} /\ ops[i].amount \in 0..Paid
    BY <1>0, <1>6, <2>1 DEF ReserveFailed, Latest, Rows, RowType, RowStatuses
  <2> QED
    BY <1>4, <2>1, <2>2
<1>7. CASE ReserveNew(a)
  <2>1. PICK i \in Unused : /\ Insert(i, admin[a].amount)
                            /\ Drive(a, i, NoRefund, admin[a].amount)
    BY <1>7 DEF ReserveNew
  <2>2. i \in Attempts /\ ops'[i].status # "none" /\ admin[a].amount \in 0..Paid
    BY <1>0, <2>1 DEF Insert, Unused, Rows, AdminType
  <2> QED
    BY <1>4, <2>1, <2>2
<1>8. ASSUME NEW says \in RowStatuses \cup {"none"}, Answered(a, says),
             admin[a].pc = "drive"
      PROVE  Good
  <2> DEFINE new == [admin[a] EXCEPT !.pc = "answered", !.refund = admin[a].op,
                                     !.answer = says]
  <2>1. new \in AdminType /\ new.op = admin[a].op
    BY <1>0 DEF AdminType
  <2>2. admin' = [admin EXCEPT ![a] = new]
    BY <1>8, Zenon DEF Answered
  <2> HIDE DEF new
  <2> QED
    BY <1>8, <2>1, <2>2, KeepTypes
<1>9. CASE CreateAtStripe(a)
  <2>1. admin[a].op \in Sources
    BY <1>0 DEF AdminType
  <2>2. stripe[admin[a].op].first \in RowStatuses \cup {"none"}
    BY <1>0, <2>1 DEF StripeType
  <2>3. \/ \E says \in RowStatuses \cup {"none"} : Answered(a, says)
        \/ Leave(a)
    BY <1>9, <2>2 DEF CreateAtStripe
  <2>4. admin[a].pc = "drive"
    BY <1>9 DEF CreateAtStripe
  <2> QED
    BY <1>2, <1>8, <2>3, <2>4
<1>10. ASSUME NEW pc \in {"declined", "next"}, admin' = [admin EXCEPT ![a].pc = pc],
              admin[a].pc \in {"drive", "retrieved"}
       PROVE  Good
  <2> DEFINE new == [admin[a] EXCEPT !.pc = pc]
  <2>1. new \in AdminType /\ new.op = admin[a].op
    BY <1>0 DEF AdminType
  <2>2. admin' = [admin EXCEPT ![a] = new]
    BY <1>10, Zenon
  <2> HIDE DEF new
  <2> QED
    BY <1>10, <2>1, <2>2, KeepTypes
<1>11. CASE CreateRefused(a)
  BY <1>2, <1>10, <1>11 DEF CreateRefused
<1>12. CASE Declined(a) \/ Finish(a) \/ ReserveRefused(a)
  BY <1>2, <1>12 DEF Declined, Finish, ReserveRefused
<1>13. CASE Retrieve(a)
  <2>1. CASE Leave(a)
    BY <1>2, <2>1
  <2>2. CASE admin' = [admin EXCEPT ![a].pc = "retrieved",
                                    ![a].answer = stripe[admin[a].refund].status]
    <3> DEFINE new == [admin[a] EXCEPT !.pc = "retrieved",
                                       !.answer = stripe[admin[a].refund].status]
    <3>1. admin[a].refund \in Sources
      BY <1>0, <1>13 DEF Retrieve, AdminType
    <3>2. new \in AdminType /\ new.op = admin[a].op
      BY <1>0, <3>1 DEF AdminType, StripeType
    <3>3. admin' = [admin EXCEPT ![a] = new] /\ admin[a].pc = "drive"
      BY <1>13, <2>2, Zenon DEF Retrieve
    <3> HIDE DEF new
    <3> QED
      BY <3>2, <3>3, KeepTypes
  <2> QED
    BY <1>13, <2>1, <2>2 DEF Retrieve
<1>14. CASE Retrieved(a)
  BY <1>2, <1>10, <1>14 DEF Retrieved
<1>15. CASE NextAttempt(a)
  <2>1. \/ Leave(a)
        \/ \E i \in Active : UNCHANGED ops /\ Drive(a, i, ops[i].refund, admin[a].amount)
        \/ /\ admin[a].op + 1 \in Attempts /\ Insert(admin[a].op + 1, admin[a].amount)
           /\ Drive(a, admin[a].op + 1, NoRefund, admin[a].amount)
    BY <1>15 DEF NextAttempt
  <2>2. admin[a].amount \in 0..Paid
    BY <1>0 DEF AdminType
  <2>3. ASSUME NEW i \in Active, UNCHANGED ops, Drive(a, i, ops[i].refund, admin[a].amount)
        PROVE  Good
    <3>1. i \in Attempts /\ ops'[i].status # "none"
          /\ ops[i].refund \in Sources \cup {NoRefund}
      BY <1>0, <2>3 DEF Active, Rows, RowType
    <3> QED
      BY <1>4, <2>2, <2>3, <3>1
  <2>4. CASE /\ admin[a].op + 1 \in Attempts /\ Insert(admin[a].op + 1, admin[a].amount)
             /\ Drive(a, admin[a].op + 1, NoRefund, admin[a].amount)
    <3>1. ops'[admin[a].op + 1].status # "none"
      BY <1>0, <2>4 DEF Insert
    <3> QED
      BY <1>4, <2>2, <2>4, <3>1
  <2> QED
    BY <1>2, <2>1, <2>3, <2>4
<1> QED
  BY <1>3, <1>5, <1>6, <1>7, <1>9, <1>11, <1>12, <1>13, <1>14, <1>15 DEF AdminStep

\* So does every worker.
LEMMA WorkerStepTypes ==
    ASSUME TypeInv, RowStep, NEW w \in Workers, WorkerStep(w)
    PROVE  /\ worker' \in [Workers -> WorkerType]
           /\ \A v \in Workers : BusyWorker(v)'
<1> USE AttemptsAreSources DEF TypeInv
<1>0. /\ ops \in [Attempts -> RowType] /\ stripe \in [Sources -> StripeType]
      /\ \A i \in Attempts : ops[i].refund \in Sources \cup {NoRefund}
  BY DEF TypeOK, RowType, StripeType
<1>1. IdleWorker \in WorkerType /\ IdleWorker.pc = "idle"
  BY LedgerAssumption DEF WorkerType, IdleWorker, Events, NoEvent, Sources
<1>2. CASE ActOnEvent(w) \/ ActOnRow(w)
  <2>1. worker' = [worker EXCEPT ![w] = IdleWorker]
    BY <1>2 DEF ActOnEvent, ActOnRow
  <2> QED
    BY <1>1, <2>1, WorkerTypes
<1>3. ASSUME NEW e \in Events, Receive(w, e)
      PROVE  /\ worker' \in [Workers -> WorkerType]
             /\ \A v \in Workers : BusyWorker(v)'
  <2>1. CASE UNCHANGED worker
    BY <2>1, SameWorker
  <2>2. CASE ~UNCHANGED worker
    <3>1. PICK i \in Match(e) :
              worker' = [worker EXCEPT ![w] =
                           [pc |-> "event", event |-> e, op |-> i,
                            refund |-> ops[i].refund, answer |-> "none"]]
      BY <1>3, <2>2 DEF Receive
    <3>2. i \in Attempts /\ ops' = ops
      BY <1>3 DEF Match, Active, Latest, Rows, Receive
    <3>3. ops[i].status # "none"
      <4>1. CASE i \in Active \/ i \in Latest
        BY <4>1 DEF Active, Latest, Rows, RowStatuses
      <4>2. CASE ops[i].refund = e.source
        <5>1. e.source # NoRefund
          BY LedgerAssumption DEF Events
        <5> QED
          BY <3>2, <4>2, <5>1 DEF Blank
      <4> QED
        BY <3>1, <4>1, <4>2 DEF Match
    <3>4. [pc |-> "event", event |-> e, op |-> i,
           refund |-> ops[i].refund, answer |-> "none"] \in WorkerType
      BY <1>0, <3>2 DEF WorkerType
    <3> QED
      BY <3>1, <3>2, <3>3, <3>4, WorkerTypes
  <2> QED
    BY <2>1, <2>2
<1>4. ASSUME NEW i \in Attempts, LookAt(w, i)
      PROVE  /\ worker' \in [Workers -> WorkerType]
             /\ \A v \in Workers : BusyWorker(v)'
  <2> DEFINE new == [pc |-> "row", event |-> NoEvent, op |-> i,
                     refund |-> ops[i].refund,
                     answer |-> stripe[ops[i].refund].status]
  <2>1. ops[i].refund \in Sources
    BY <1>0, <1>4 DEF LookAt
  <2>2. new \in WorkerType /\ new.op = i
    BY <1>0, <2>1 DEF WorkerType, Events, NoEvent, Sources, StripeType
  <2>3. ops'[i].status # "none" /\ worker' = [worker EXCEPT ![w] = new]
    BY <1>4 DEF LookAt
  <2> HIDE DEF new
  <2> QED
    BY <2>2, <2>3, WorkerTypes
<1> QED
  BY <1>2, <1>3, <1>4 DEF WorkerStep

\* Rows that are not there stay blank.
LEMMA BlankStep ==
    ASSUME TypeInv, RowStep
    PROVE  Blank'
<1> USE DEF Blank
<1>1. ops \in [Attempts -> RowType] /\ Blank
  BY DEF TypeInv, TypeOK, RowType
<1>2. CASE ops' = ops
  BY <1>1, <1>2
<1>3. ASSUME NEW i \in Attempts, NEW n \in Sources \cup {NoRefund},
             Failing(i) \/ Reopening(i, n)
      PROVE  Blank'
  BY <1>1, <1>3 DEF Failing, Reopening, RowType
<1>4. ASSUME NEW i \in Attempts, NEW n \in Sources \cup {NoRefund}, Succeeding(i, n)
      PROVE  Blank'
  BY <1>1, <1>4 DEF Succeeding, Applied, RowType
<1>5. ASSUME NEW i \in Attempts, NEW amount \in 0..Paid, Opening(i, amount)
      PROVE  Blank'
  BY <1>1, <1>5 DEF Opening, Insert, RowType
<1> QED
  BY <1>2, <1>3, <1>4, <1>5 DEF RowStep, Moving

\* What the types of the parts make together.
LEMMA TypesJoin ==
    ASSUME TypeInv, RowStep,
           admin' \in [Admins -> AdminType], \A b \in Admins : BusyAdmin(b)',
           worker' \in [Workers -> WorkerType], \A v \in Workers : BusyWorker(v)',
           stripe' \in [Sources -> StripeType],
           inbox' \in [Events -> {"none", "sent", "received", "done"}],
           requests' \in 0..MaxRequests, crashes' \in 0..MaxCrashes
    PROVE  TypeInv'
<1>1. Busy'
  BY DEF Busy, BusyAdmin, BusyWorker
<1>2. TypeOK'
  BY RowsKeep DEF TypeInv, TypeOK, RowType, AdminType, WorkerType, StripeType
<1> QED
  BY <1>1, <1>2, BlankStep DEF TypeInv

\* The types, step by step.
LEMMA TypeStep ==
    ASSUME TypeInv, OneActiveOperation, Next
    PROVE  TypeInv'
<1> USE AttemptsAreSources
<1>0. /\ stripe \in [Sources -> StripeType]
      /\ inbox \in [Events -> {"none", "sent", "received", "done"}]
      /\ requests \in 0..MaxRequests /\ crashes \in 0..MaxCrashes
      /\ admin \in [Admins -> AdminType]
  BY DEF TypeInv, TypeOK, StripeType, AdminType
<1>1. RowStep
  BY StepRows DEF TypeInv
<1>2. ASSUME NEW a \in Admins, AdminStep(a)
      PROVE  TypeInv'
  <2>1. stripe' \in [Sources -> StripeType]
        /\ inbox' \in [Events -> {"none", "sent", "received", "done"}]
    <3>1. CASE CreateAtStripe(a)
      <4>1. admin[a].op \in Sources /\ admin[a].amount \in 0..Paid
        BY <1>0 DEF AdminType
      <4>2. \/ \E now \in RowStatuses : Record(admin[a].op, admin[a].amount, now, now)
            \/ UNCHANGED <<stripe, inbox>>
        BY <3>1 DEF CreateAtStripe
      <4> QED
        BY <1>0, <4>1, <4>2, RecordTypes DEF TypeInv
    <3>2. CASE ~CreateAtStripe(a)
      <4>1. UNCHANGED <<stripe, inbox>>
        BY <1>2, <3>2 DEF AdminStep, Resolve, ReserveActive, ReserveFailed,
             ReserveNew, ReserveRefused, CreateRefused, Declined, Finish,
             Retrieve, Retrieved, NextAttempt
      <4> QED
        BY <1>0, <4>1
    <3> QED
      BY <3>1, <3>2
  <2>2. requests' \in 0..MaxRequests /\ crashes' \in 0..MaxCrashes /\ UNCHANGED worker
    <3>1. CASE Resolve(a)
      BY <1>0, <3>1, LedgerAssumption DEF Resolve
    <3>2. CASE ~Resolve(a)
      BY <1>0, <1>2, <3>2 DEF AdminStep, ReserveActive, ReserveFailed,
           ReserveNew, ReserveRefused, CreateAtStripe, CreateRefused, Declined,
           Finish, Retrieve, Retrieved, NextAttempt
    <3> QED
      BY <3>1, <3>2
  <2> QED
    BY <1>1, <1>2, <2>1, <2>2, AdminTypes, SameWorker, TypesJoin DEF TypeInv
<1>3. ASSUME NEW w \in Workers, WorkerStep(w)
      PROVE  TypeInv'
  <2>1. UNCHANGED <<stripe, requests, admin>>
    BY <1>3 DEF WorkerStep, Receive, ActOnEvent, LookAt, ActOnRow
  <2>2. inbox' \in [Events -> {"none", "sent", "received", "done"}]
    <3>1. CASE ActOnEvent(w)
      BY <1>0, <3>1 DEF ActOnEvent
    <3>2. CASE ~ActOnEvent(w)
      BY <1>0, <1>3, <3>2 DEF WorkerStep, Receive, LookAt, ActOnRow
    <3> QED
      BY <3>1, <3>2
  <2>3. crashes' \in 0..MaxCrashes
    <3>1. CASE ActOnEvent(w)
      <4>1. \/ UNCHANGED crashes
            \/ UNCHANGED <<inbox, crashes>>
            \/ crashes < MaxCrashes /\ crashes' = crashes + 1
        BY <3>1, Zenon DEF ActOnEvent
      <4> QED
        BY <1>0, <4>1, LedgerAssumption
    <3>2. CASE ~ActOnEvent(w)
      BY <1>0, <1>3, <3>2 DEF WorkerStep, Receive, LookAt, ActOnRow
    <3> QED
      BY <3>1, <3>2
  <2> QED
    BY <1>0, <1>1, <1>3, <2>1, <2>2, <2>3, WorkerStepTypes, SameAdmin, TypesJoin DEF TypeInv
<1>4. CASE (\E s \in Sources : StripeSettles(s)) \/ DashboardRefund
  <2>1. stripe' \in [Sources -> StripeType]
        /\ inbox' \in [Events -> {"none", "sent", "received", "done"}]
    <3>1. CASE DashboardRefund
      <4>1. \E amount \in 0..Paid, now \in RowStatuses : Record(0, amount, now, now)
        BY <3>1, LedgerAssumption DEF DashboardRefund, RowStatuses
      <4> QED
        BY <4>1, RecordTypes DEF TypeInv
    <3>2. ASSUME NEW s \in Sources, StripeSettles(s)
          PROVE  /\ stripe' \in [Sources -> StripeType]
                 /\ inbox' \in [Events -> {"none", "sent", "received", "done"}]
      <4>1. /\ stripe[s].amount \in 0..Paid
            /\ stripe[s].first \in RowStatuses \cup {"none"}
        BY <1>0 DEF StripeType
      <4>2. \E now \in RowStatuses : Record(s, stripe[s].amount, now, stripe[s].first)
        BY <3>2 DEF StripeSettles, RowStatuses
      <4> QED
        BY <4>1, <4>2, RecordTypes DEF TypeInv
    <3> QED
      BY <1>4, <3>1, <3>2
  <2>2. UNCHANGED <<admin, worker, requests, crashes>>
    BY <1>4 DEF StripeSettles, DashboardRefund
  <2> QED
    BY <1>0, <1>1, <2>1, <2>2, SameAdmin, SameWorker, TypesJoin DEF TypeInv
<1>5. CASE \E new \in StaffStatuses : StaffMoves(new)
  <2>1. UNCHANGED <<stripe, inbox, admin, worker, requests, crashes>>
    BY <1>5 DEF StaffMoves
  <2> QED
    BY <1>0, <1>1, <2>1, SameAdmin, SameWorker, TypesJoin DEF TypeInv
<1> QED
  BY <1>2, <1>3, <1>4, <1>5 DEF Next, OwnStep

-----------------------------------------------------------------------------
(* The theorems *)

\* The inductive invariant: the rows' types, who holds which row, one active
\* row, and the books.
LedgerInv == TypeInv /\ OneActiveOperation /\ BooksAgree

\* It holds of the empty ledger.
LEMMA LedgerInit == ASSUME Init PROVE LedgerInv
<1> USE DEF Init, NoRow, Idle, IdleWorker
<1>1. TypeOK
  <2>1. ops \in [Attempts -> [status : RowStatuses \cup {"none"},
                              refund : Sources \cup {NoRefund},
                              amount : 0..Paid, flagged : BOOLEAN]]
    BY LedgerAssumption
  <2>2. stripe \in [Sources -> [status : RowStatuses \cup {"none"},
                                first : RowStatuses \cup {"none"}, amount : 0..Paid]]
    BY LedgerAssumption
  <2>3. admin \in [Admins -> [pc : {"idle", "resolved", "drive", "answered",
                                    "declined", "retrieved", "next"},
                              op : Sources, refund : Sources \cup {NoRefund},
                              amount : 0..Paid,
                              answer : RowStatuses \cup {"none"}]]
    BY LedgerAssumption, AttemptsAreSources
  <2>4. worker \in [Workers -> [pc : {"idle", "event", "row"}, event : Events,
                                op : Sources, refund : Sources \cup {NoRefund},
                                answer : RowStatuses \cup {"none"}]]
    BY AttemptsAreSources DEF Events, NoEvent
  <2> QED
    BY <2>1, <2>2, <2>3, <2>4, LedgerAssumption DEF TypeOK, Statuses
<1>2. Busy /\ Blank
  BY DEF Busy, Blank
<1>3. OneActiveOperation /\ BooksAgree
  BY LedgerAssumption DEF OneActiveOperation, Active, Rows, BooksAgree
<1> QED
  BY <1>1, <1>2, <1>3 DEF LedgerInv, TypeInv

\* Every step keeps it.
LEMMA LedgerStep == ASSUME LedgerInv, [Next]_vars PROVE LedgerInv'
<1>1. CASE Next
  BY <1>1, TypeStep, StepRows, OneActiveStep, BooksStep DEF LedgerInv, TypeInv
<1>2. CASE UNCHANGED vars
  BY <1>2 DEF vars, LedgerInv, TypeInv, TypeOK, Busy, Blank, OneActiveOperation,
              Active, Rows, BooksAgree
<1> QED
  BY <1>1, <1>2

\* For any number of administrators, workers and attempts, every ledger that
\* the code can reach satisfies the inductive invariant.
THEOREM LedgerCorrect == Spec => []LedgerInv
BY LedgerInit, LedgerStep, PTL DEF Spec

\* The ledger, the requests and the inbox keep their types.
THEOREM LedgerTypes == Spec => []TypeOK
<1>1. LedgerInv => TypeOK
  BY DEF LedgerInv, TypeInv
<1> QED
  BY <1>1, LedgerCorrect, PTL

\* However many administrators ask at once, and whatever Stripe, the webhook
\* and the job do, a reservation never has two refunds in force.
THEOREM OneRefund == Spec => []OneActiveOperation
<1>1. LedgerInv => OneActiveOperation
  BY DEF LedgerInv
<1> QED
  BY <1>1, LedgerCorrect, PTL

\* The reservation says refunded exactly if an unflagged refund succeeded.
THEOREM BooksCorrect == Spec => []BooksAgree
<1>1. LedgerInv => BooksAgree
  BY DEF LedgerInv
<1> QED
  BY <1>1, LedgerCorrect, PTL

-----------------------------------------------------------------------------
(* The ledger behaves like one refund *)

\* The promise speaks of the same lifecycle.
LEMMA SameLifecycle ==
    /\ Promise!Statuses = Statuses
    /\ Promise!RefundableStatuses = RefundableStatuses
    /\ Promise!AllowedDuringPendingRefund = AllowedDuringPendingRefund
    /\ \A x, y : Promise!CanTransition(x, y) = CanTransition(x, y)
    /\ \A x : Promise!Settled(x) = Settled(x)
BY DEF Promise!Statuses, Statuses, Promise!ActiveHoldStatuses, ActiveHoldStatuses,
       Promise!OpsStatuses, OpsStatuses, Promise!RefundableStatuses,
       RefundableStatuses, Promise!AllowedDuringPendingRefund,
       AllowedDuringPendingRefund, Promise!CanTransition, CanTransition,
       Promise!Transitions, Transitions, Promise!Settled, Settled

\* The empty ledger is a refund nobody asked for.
LEMMA PromiseInit == ASSUME Init PROVE Promise!Init
<1>1. Refund = "none"
  BY DEF Init, NoRow, Refund, Rows
<1> QED
  BY <1>1, SameLifecycle, LedgerAssumption DEF Init, Promise!Init

\* What a step does to the rows is a step of the one refund.
LEMMA PromiseStep ==
    ASSUME LedgerInv, RowStep
    PROVE  [Promise!Next]_<<status, Refund>>
<1> USE SameLifecycle DEF Promise!Next
<1>1. ops \in [Attempts -> RowType] /\ status \in Statuses
  BY DEF LedgerInv, TypeInv, TypeOK, RowType
<1>2. \A i, j \in Attempts :
          ops[i].status \in {"pending", "succeeded"}
          /\ ops[j].status \in {"pending", "succeeded"} => i = j
  BY DEF LedgerInv, OneActiveOperation, Active, Rows
<1>3. CASE UNCHANGED <<ops, status>>
  BY <1>3 DEF Refund, Rows
<1>4. ASSUME NEW i \in Attempts, Failing(i)
      PROVE  [Promise!Next]_<<status, Refund>>
  <2>1. /\ ops'[i].status = "failed" /\ status' = status
        /\ \A j \in Attempts \ {i} : ops'[j] = ops[j]
    BY <1>1, <1>4 DEF Failing, RowType
  <2>2. CASE ops[i].status = "failed"
    <3>1. \A j \in Attempts : ops'[j].status = ops[j].status
      BY <2>1, <2>2
    <3>2. Refund' = Refund
      BY <3>1 DEF Refund, Rows
    <3> QED
      BY <2>1, <3>2
  <2>3. CASE ops[i].status = "pending"
    <3>1. Refund = "pending"
      BY <1>2, <2>3 DEF Refund, Rows
    <3>2. Refund' = "failed"
      BY <1>2, <2>1, <2>3 DEF Refund, Rows
    <3> QED
      BY <2>1, <3>1, <3>2 DEF Promise!Fail
  <2> QED
    BY <1>4, <2>2, <2>3 DEF Failing
<1>5. ASSUME NEW i \in Attempts, NEW n \in Sources \cup {NoRefund}, Reopening(i, n)
      PROVE  [Promise!Next]_<<status, Refund>>
  <2>1. /\ ops'[i].status = "pending" /\ status' = status
        /\ \A j \in Attempts \ {i} : ops'[j] = ops[j]
        /\ \A j \in Attempts : ops[j].status # "succeeded"
        /\ ops[i].status \in {"pending", "failed"}
    BY <1>1, <1>5 DEF Reopening, RowType, Active, Rows
  <2>2. Refund' = "pending"
    BY <2>1 DEF Refund, Rows
  <2>3. Refund \in {"pending", "failed"}
    BY <2>1 DEF Refund, Rows
  <2> QED
    BY <2>1, <2>2, <2>3 DEF Promise!Resume
<1>6. ASSUME NEW i \in Attempts, NEW n \in Sources \cup {NoRefund}, Succeeding(i, n)
      PROVE  [Promise!Next]_<<status, Refund>>
  <2>1. /\ ops'[i].status = "succeeded" /\ status' = Settled(status)
        /\ \A j \in Attempts : ops[j].status # "succeeded"
        /\ ops[i].status \in {"pending", "failed"}
    BY <1>1, <1>6 DEF Succeeding, Applied, RowType, Active, Rows
  <2>2. Refund' = "succeeded"
    BY <2>1 DEF Refund, Rows
  <2>3. Refund \in {"pending", "failed"}
    BY <2>1 DEF Refund, Rows
  <2> QED
    BY <2>1, <2>2, <2>3 DEF Promise!Succeed
<1>7. ASSUME NEW i \in Attempts, NEW amount \in 0..Paid, Opening(i, amount)
      PROVE  [Promise!Next]_<<status, Refund>>
  <2>1. /\ ops'[i].status = "pending" /\ status' = status
        /\ \A j \in Attempts \ {i} : ops'[j] = ops[j]
        /\ \A j \in Attempts : ops[j].status \notin {"succeeded", "pending"}
        /\ status \in RefundableStatuses
    BY <1>1, <1>7 DEF Opening, Insert, RowType, Active, Rows
  <2>2. Refund' = "pending"
    BY <2>1 DEF Refund, Rows
  <2>3. Refund \in {"none", "failed"}
    BY <2>1 DEF Refund, Rows
  <2> QED
    BY <2>1, <2>2, <2>3 DEF Promise!Start, Promise!Resume
<1>8. ASSUME NEW new \in StaffStatuses, Moving(new)
      PROVE  [Promise!Next]_<<status, Refund>>
  <2>1. Refund' = Refund
    BY <1>8 DEF Moving, Refund, Rows
  <2>2. Refund = "pending" => status' \in AllowedDuringPendingRefund
    BY <1>8 DEF Moving, MayMove, Refund
  <2>3. status' \in Statuses \ {"refunded"} /\ CanTransition(status, status')
    BY <1>8, LedgerAssumption DEF Moving, MayMove
  <2> QED
    BY <2>1, <2>2, <2>3 DEF Promise!Move
<1> QED
  BY <1>3, <1>4, <1>5, <1>6, <1>7, <1>8 DEF RowStep

\* Any number of attempts, administrators, webhooks and jobs behave, for the
\* rest of the application, like one refund: RefundPromise.
THEOREM LedgerImplementsPromise == Spec => KeepsPromise
<1>1. ASSUME LedgerInv, [Next]_vars
      PROVE  [Promise!Next]_<<status, Refund>>
  <2>1. CASE Next
    BY <1>1, <2>1, StepRows, PromiseStep DEF LedgerInv, TypeInv
  <2>2. CASE UNCHANGED vars
    BY <2>2 DEF vars, Refund, Rows
  <2> QED
    BY <1>1, <2>1, <2>2
<1> QED
  BY <1>1, PromiseInit, LedgerCorrect, PTL DEF Spec, KeepsPromise, Promise!Spec

-----------------------------------------------------------------------------
(* The sum of the amounts of some refunds, whatever the order in which       *)
(* MapThenSumSet takes them.                                                  *)

Total(st, S) == MapThenSumSet(LAMBDA s : st[s].amount, S)

\* g gives the sums over all subsets of S.
Sums(g, st, S) ==
    g = [T \in SUBSET S |->
            IF T = {} THEN 0
            ELSE LET x == CHOOSE x \in T : TRUE
                 IN  st[x].amount + g[T \ {x}]]

SumsOver(st, S) == CHOOSE g : Sums(g, st, S)

\* The library's fold is such a function.
LEMMA TotalIsSum ==
    ASSUME NEW st, NEW S
    PROVE  Total(st, S) = SumsOver(st, S)[S]
BY DEF Total, MapThenSumSet, MapThenFoldSet, Sums, SumsOver

\* A nonempty set of naturals has a least element.
LEMMA Least ==
    ASSUME NEW T \in SUBSET Nat, T # {}
    PROVE  \E x \in T : \A y \in T : x <= y
<1> DEFINE Less == {p \in Nat \X Nat : p[1] < p[2]}
<1>1. IsWellFoundedOn(Less, Nat)
  BY NatLessThanWellFounded, Zenon DEF OpToRel
<1> HIDE DEF Less
<1>2. PICK x \in T : \A y \in T : ~(<<y, x>> \in Less)
  BY <1>1, WFMin, Zenon
<1>3. ASSUME NEW y \in T PROVE x <= y
  <2>1. x \in Nat /\ y \in Nat
    OBVIOUS
  <2>2. ~(y < x)
    BY <1>2, <2>1 DEF Less
  <2> QED
    BY <2>1, <2>2
<1> QED
  BY <1>3

\* The subsets of a finite set have sizes, and taking out an element leaves
\* one less.
LEMMA Sizes ==
    ASSUME NEW S, IsFiniteSet(S)
    PROVE  /\ \A T \in SUBSET S : /\ Cardinality(T) \in Nat
                                  /\ Cardinality(T) <= Cardinality(S)
                                  /\ Cardinality(T) = 0 <=> T = {}
           /\ \A T \in SUBSET S : \A x \in T :
                  /\ T \ {x} \in SUBSET S
                  /\ Cardinality(T \ {x}) = Cardinality(T) - 1
<1>1. \A T \in SUBSET S : IsFiniteSet(T) /\ Cardinality(T) <= Cardinality(S)
  BY FS_Subset
<1> QED
  BY <1>1, FS_CardinalityType, FS_EmptySet, FS_RemoveElement

\* What holds of a set when it holds of the set without any one element holds
\* of every subset of a finite set.
LEMMA SubsetInduction ==
    ASSUME NEW S, IsFiniteSet(S), NEW G,
           \A T \in SUBSET S : (\A x \in T : T \ {x} \in G) => T \in G
    PROVE  SUBSET S \subseteq G
<1> SUFFICES ASSUME NEW B \in SUBSET S, B \notin G PROVE FALSE
  OBVIOUS
<1> DEFINE Bad == {n \in Nat : \E T \in SUBSET S : T \notin G /\ Cardinality(T) = n}
<1>1. Bad \in SUBSET Nat /\ Bad # {}
  BY Sizes
<1>2. PICK n \in Bad : \A m \in Bad : n <= m
  BY <1>1, Least
<1>3. PICK T \in SUBSET S : T \notin G /\ Cardinality(T) = n
  BY <1>2
<1>4. PICK x \in T : T \ {x} \notin G
  BY <1>3
<1>5. T \ {x} \in SUBSET S /\ Cardinality(T \ {x}) = n - 1
  BY <1>3, <1>4, Sizes
<1>6. Cardinality(T \ {x}) \in Nat
  BY <1>5, Sizes
<1>7. n - 1 \in Bad
  BY <1>4, <1>5, <1>6
<1> QED
  BY <1>2, <1>7

\* There are sums over the subsets of a finite set.
LEMMA SumsExist ==
    ASSUME NEW S, IsFiniteSet(S), NEW st
    PROVE  Sums(SumsOver(st, S), st, S)
<1> DEFINE Dom(n) == {T \in SUBSET S : Cardinality(T) <= n}
           pick(T) == CHOOSE x \in T : TRUE
           Part(g, n) == \A T \in Dom(n) :
               g[T] = IF T = {} THEN 0
                      ELSE st[pick(T)].amount + g[T \ {pick(T)}]
           Bad == {n \in Nat : ~\E g : Part(g, n)}
<1>1. Bad = {}
  <2> SUFFICES ASSUME Bad # {} PROVE FALSE
    OBVIOUS
  <2>1. PICK n \in Bad : \A m \in Bad : n <= m
    <3>1. Bad \in SUBSET Nat
      OBVIOUS
    <3> HIDE DEF Bad
    <3> QED
      BY <3>1, Least
  <2>2. n \in Nat
    OBVIOUS
  <2>3. CASE n = 0
    <3> DEFINE g == [T \in Dom(0) |-> 0]
    <3>1. \A T \in Dom(0) : T = {}
      BY Sizes
    <3>2. Part(g, 0)
      BY <3>1
    <3> QED
      BY <2>3, <3>2
  <2>4. CASE n # 0
    <3>1. n - 1 \in Nat /\ ~(n <= n - 1)
      BY <2>2, <2>4
    <3>2. PICK g : Part(g, n - 1)
      BY <2>1, <3>1
    <3> DEFINE h == [T \in Dom(n) |->
                        IF T = {} THEN 0
                        ELSE st[pick(T)].amount + g[T \ {pick(T)}]]
    <3>3. \A T \in Dom(n - 1) : h[T] = g[T]
      <4>1. Dom(n - 1) \subseteq Dom(n)
        BY <2>2, Sizes
      <4> QED
        BY <3>2, <4>1
    <3>4. \A T \in Dom(n) : T # {} => T \ {pick(T)} \in Dom(n - 1)
      <4> SUFFICES ASSUME NEW T \in Dom(n), T # {}
                   PROVE  T \ {pick(T)} \in Dom(n - 1)
        OBVIOUS
      <4>1. pick(T) \in T /\ T \in SUBSET S
        OBVIOUS
      <4> HIDE DEF pick
      <4>2. /\ T \ {pick(T)} \in SUBSET S
            /\ Cardinality(T \ {pick(T)}) = Cardinality(T) - 1
            /\ Cardinality(T) \in Nat
        BY <4>1, Sizes
      <4> QED
        BY <2>2, <4>2
    <3>5. Part(h, n)
      <4>1. \A T \in Dom(n) :
                h[T] = IF T = {} THEN 0
                       ELSE st[pick(T)].amount + g[T \ {pick(T)}]
        OBVIOUS
      <4> HIDE DEF h, Dom, pick
      <4> QED
        BY <3>3, <3>4, <4>1
    <3> QED
      BY <3>5
  <2> QED
    BY <2>3, <2>4
<1>2. PICK g : Part(g, Cardinality(S))
  <2>1. Cardinality(S) \in Nat
    BY FS_CardinalityType
  <2>2. \A n \in Nat : \E g : Part(g, n)
    <3> HIDE DEF Part
    <3> QED
      BY <1>1
  <2> HIDE DEF Part
  <2> QED
    BY <2>1, <2>2
<1>3. Dom(Cardinality(S)) = SUBSET S
  BY Sizes
<1> DEFINE h == [T \in SUBSET S |-> g[T]]
<1>4. \A T \in SUBSET S : T # {} => T \ {pick(T)} \in SUBSET S
  OBVIOUS
<1>5. h = [T \in SUBSET S |-> IF T = {} THEN 0
                              ELSE st[pick(T)].amount + h[T \ {pick(T)}]]
  BY <1>2, <1>3, <1>4
<1>6. Sums(h, st, S)
  BY <1>5 DEF Sums
<1> QED
  BY <1>6 DEF SumsOver

\* Any element may be taken out of a set of S first.
TakesOut(f, st, S) ==
    \A T \in SUBSET S : \A x \in T : f[T] = st[x].amount + f[T \ {x}]

\* A function from names to refunds whose amounts over S are naturals.
Priced(st, S) == \A s \in S : st[s].amount \in Nat

\* One unfolding of the sums, which are naturals.
LEMMA SumsFacts ==
    ASSUME NEW S, IsFiniteSet(S), NEW st, Priced(st, S)
    PROVE  /\ SumsOver(st, S)[{}] = 0
           /\ \A T \in SUBSET S : SumsOver(st, S)[T] \in Nat
           /\ \A T \in SUBSET S : T # {} => \E x \in T :
                  SumsOver(st, S)[T] = st[x].amount + SumsOver(st, S)[T \ {x}]
<1> DEFINE f == SumsOver(st, S)
           G == {T \in SUBSET S : f[T] \in Nat}
<1> HIDE DEF G
<1>0. Sums(f, st, S)
  BY SumsExist
<1>1. f = [T \in SUBSET S |->
              IF T = {} THEN 0
              ELSE LET x == CHOOSE x \in T : TRUE
                   IN  st[x].amount + f[T \ {x}]]
  BY <1>0 DEF Sums
<1> HIDE DEF f
<1>2. f[{}] = 0
  BY <1>1
<1>3. \A T \in SUBSET S : T # {} => \E x \in T : f[T] = st[x].amount + f[T \ {x}]
  <2> SUFFICES ASSUME NEW T \in SUBSET S, T # {}
               PROVE  \E x \in T : f[T] = st[x].amount + f[T \ {x}]
    OBVIOUS
  <2> DEFINE c == CHOOSE x \in T : TRUE
  <2>1. c \in T
    OBVIOUS
  <2>2. f[T] = st[c].amount + f[T \ {c}]
    BY <1>1
  <2> HIDE DEF c
  <2> QED
    BY <2>1, <2>2
<1> USE DEF G
<1>4. \A T \in SUBSET S : (\A x \in T : T \ {x} \in G) => T \in G
  <2> SUFFICES ASSUME NEW T \in SUBSET S, \A x \in T : T \ {x} \in G
               PROVE  f[T] \in Nat
    OBVIOUS
  <2>1. CASE T = {}
    BY <1>2, <2>1
  <2>2. CASE T # {}
    <3>1. PICK x \in T : f[T] = st[x].amount + f[T \ {x}]
      BY <1>3, <2>2
    <3>2. st[x].amount \in Nat
      BY DEF Priced
    <3>3. f[T \ {x}] \in Nat
      OBVIOUS
    <3> QED
      BY <3>1, <3>2, <3>3
  <2> QED
    BY <2>1, <2>2
<1>5. SUBSET S \subseteq G
  <2> HIDE DEF G
  <2> QED
    BY <1>4, SubsetInduction
<1>6. \A T \in SUBSET S : f[T] \in Nat
  BY <1>5
<1> QED
  BY <1>2, <1>3, <1>6 DEF f

\* Any element may be taken out first.
LEMMA SumsAnyOrder ==
    ASSUME NEW S, IsFiniteSet(S), NEW st, Priced(st, S)
    PROVE  TakesOut(SumsOver(st, S), st, S)
<1>1. \A T \in SUBSET S : SumsOver(st, S)[T] \in Nat
  BY SumsFacts
<1>2. \A T \in SUBSET S : T # {} => \E c \in T :
          SumsOver(st, S)[T] = st[c].amount + SumsOver(st, S)[T \ {c}]
  BY SumsFacts
<1> DEFINE f == SumsOver(st, S)
           Law(T) == \A x \in T : f[T] = st[x].amount + f[T \ {x}]
           G == {T \in SUBSET S : Law(T)}
<1> HIDE DEF f
<1>3. ASSUME NEW T \in SUBSET S, \A x \in T : T \ {x} \in G,
             NEW x \in T
      PROVE  f[T] = st[x].amount + f[T \ {x}]
  <2>1. PICK c \in T : f[T] = st[c].amount + f[T \ {c}]
    BY <1>2, <1>3 DEF f
  <2>2. CASE x = c
    BY <2>1, <2>2
  <2>3. CASE x # c
    <3>1. Law(T \ {c}) /\ Law(T \ {x})
      BY <1>3
    <3>2. f[T \ {c}] = st[x].amount + f[(T \ {c}) \ {x}]
      BY <1>3, <2>3, <3>1
    <3>3. f[T \ {x}] = st[c].amount + f[(T \ {x}) \ {c}]
      BY <2>3, <3>1
    <3>4. (T \ {c}) \ {x} = (T \ {x}) \ {c}
      OBVIOUS
    <3>5. f[(T \ {x}) \ {c}] \in Nat
      <4>1. (T \ {x}) \ {c} \in SUBSET S
        OBVIOUS
      <4> QED
        BY <1>1, <4>1 DEF f
    <3>6. st[x].amount \in Nat /\ st[c].amount \in Nat
      <4>1. x \in S /\ c \in S
        OBVIOUS
      <4> QED
        BY <4>1 DEF Priced
    <3>7. f[(T \ {c}) \ {x}] = f[(T \ {x}) \ {c}]
      BY <3>4
    <3> DEFINE m == f[(T \ {x}) \ {c}]
               p == st[x].amount
               q == st[c].amount
    <3>8. f[T \ {x}] = q + m /\ f[T] = q + (p + m)
      BY <2>1, <3>2, <3>3, <3>7
    <3>9. m \in Nat /\ p \in Nat /\ q \in Nat
      BY <3>5, <3>6
    <3> HIDE DEF m, p, q
    <3>10. f[T] = p + f[T \ {x}]
      BY <3>8, <3>9
    <3> QED
      BY <3>10 DEF p
  <2> QED
    BY <2>2, <2>3
<1>4. \A T \in SUBSET S : (\A x \in T : T \ {x} \in G) => T \in G
  BY <1>3
<1>5. SUBSET S \subseteq G
  <2> HIDE DEF G
  <2> QED
    BY <1>4, SubsetInduction
<1>6. \A T \in SUBSET S : Law(T)
  BY <1>5
<1> QED
  BY <1>6 DEF f, TakesOut

\* More refunds, more money.
LEMMA SumsGrow ==
    ASSUME NEW S, IsFiniteSet(S), NEW st, Priced(st, S)
    PROVE  \A T \in SUBSET S : \A U \in SUBSET T :
               SumsOver(st, S)[U] <= SumsOver(st, S)[T]
<1>1. \A T \in SUBSET S : SumsOver(st, S)[T] \in Nat
  BY SumsFacts
<1>2. TakesOut(SumsOver(st, S), st, S)
  BY SumsAnyOrder
<1> DEFINE f == SumsOver(st, S)
           Law(T) == \A U \in SUBSET T : f[U] <= f[T]
           G == {T \in SUBSET S : Law(T)}
<1> HIDE DEF f
<1>3. ASSUME NEW T \in SUBSET S, \A x \in T : T \ {x} \in G,
             NEW U \in SUBSET T
      PROVE  f[U] <= f[T]
  <2>0. U \in SUBSET S /\ f[U] \in Nat /\ f[T] \in Nat
    <3>1. U \in SUBSET S
      OBVIOUS
    <3> QED
      BY <1>1, <3>1 DEF f
  <2>1. CASE U = T
    BY <2>0, <2>1
  <2>2. CASE U # T
    <3>1. PICK x \in T : x \notin U
      BY <2>2
    <3>2. U \in SUBSET (T \ {x}) /\ Law(T \ {x})
      BY <1>3, <3>1
    <3>3. f[U] <= f[T \ {x}]
      BY <3>2
    <3>4. f[T] = st[x].amount + f[T \ {x}]
      BY <1>2 DEF f, TakesOut
    <3>5. f[T \ {x}] \in Nat
      <4>1. T \ {x} \in SUBSET S
        OBVIOUS
      <4> QED
        BY <1>1, <4>1 DEF f
    <3>6. st[x].amount \in Nat
      <4>1. x \in S
        OBVIOUS
      <4> QED
        BY <4>1 DEF Priced
    <3> QED
      BY <2>0, <3>3, <3>4, <3>5, <3>6
  <2> QED
    BY <2>1, <2>2
<1>4. \A T \in SUBSET S : (\A x \in T : T \ {x} \in G) => T \in G
  BY <1>3
<1>5. SUBSET S \subseteq G
  <2> HIDE DEF G
  <2> QED
    BY <1>4, SubsetInduction
<1>6. \A T \in SUBSET S : Law(T)
  BY <1>5
<1> QED
  BY <1>6 DEF f

\* A sum depends on the amounts that are summed, and on nothing else.
LEMMA SumsSame ==
    ASSUME NEW S, NEW R, IsFiniteSet(S), R \subseteq S,
           NEW st, NEW ut, Priced(st, R), Priced(ut, S),
           \A s \in R : st[s].amount = ut[s].amount
    PROVE  SumsOver(st, R)[R] = SumsOver(ut, S)[R]
<1>0. IsFiniteSet(R)
  BY FS_Subset
<1>1. SumsOver(st, R)[{}] = 0 /\ SumsOver(ut, S)[{}] = 0
  BY <1>0, SumsFacts
<1>2. TakesOut(SumsOver(st, R), st, R)
  BY <1>0, SumsAnyOrder
<1>3. TakesOut(SumsOver(ut, S), ut, S)
  BY SumsAnyOrder
<1> DEFINE f == SumsOver(st, R)
           g == SumsOver(ut, S)
           G == {T \in SUBSET R : f[T] = g[T]}
<1> HIDE DEF f, g
<1>4. ASSUME NEW T \in SUBSET R, \A x \in T : T \ {x} \in G
      PROVE  f[T] = g[T]
  <2>1. CASE T = {}
    BY <1>1, <2>1 DEF f, g
  <2>2. CASE T # {}
    <3>1. PICK x \in T : TRUE
      BY <2>2
    <3>2. f[T \ {x}] = g[T \ {x}]
      BY <1>4
    <3>3. f[T] = st[x].amount + f[T \ {x}]
      BY <1>2 DEF f, TakesOut
    <3>4. T \in SUBSET S
      OBVIOUS
    <3>5. g[T] = ut[x].amount + g[T \ {x}]
      BY <1>3, <3>4 DEF g, TakesOut
    <3>6. st[x].amount = ut[x].amount
      <4>1. x \in R
        OBVIOUS
      <4> QED
        BY <4>1
    <3> QED
      BY <3>2, <3>3, <3>5, <3>6
  <2> QED
    BY <2>1, <2>2
<1>5. \A T \in SUBSET R : (\A x \in T : T \ {x} \in G) => T \in G
  BY <1>4
<1>6. SUBSET R \subseteq G
  <2> HIDE DEF G
  <2> QED
    BY <1>0, <1>5, SubsetInduction
<1>7. f[R] = g[R]
  BY <1>6
<1> QED
  BY <1>7 DEF f, g

\* The total is a natural, and at least each of its amounts.
LEMMA TotalFacts ==
    ASSUME NEW S, IsFiniteSet(S), NEW st, Priced(st, S)
    PROVE  /\ Total(st, S) \in Nat
           /\ \A x \in S : Total(st, S) >= st[x].amount
<1>1. Total(st, S) = SumsOver(st, S)[S]
  BY TotalIsSum
<1>2. \A T \in SUBSET S : SumsOver(st, S)[T] \in Nat
  BY SumsFacts
<1>3. TakesOut(SumsOver(st, S), st, S)
  BY SumsAnyOrder
<1> DEFINE f == SumsOver(st, S)
<1> HIDE DEF f
<1>4. S \in SUBSET S
  OBVIOUS
<1>5. f[S] \in Nat
  BY <1>2, <1>4 DEF f
<1>6. ASSUME NEW x \in S PROVE f[S] >= st[x].amount
  <2>1. S \ {x} \in SUBSET S
    OBVIOUS
  <2>2. f[S \ {x}] \in Nat
    BY <1>2, <2>1 DEF f
  <2>3. st[x].amount \in Nat
    BY DEF Priced
  <2>4. f[S] = st[x].amount + f[S \ {x}]
    BY <1>3, <1>4 DEF f, TakesOut
  <2> QED
    BY <2>2, <2>3, <2>4
<1> QED
  BY <1>1, <1>5, <1>6 DEF f

\* The total never shrinks while refunds are added and keep their amounts.
LEMMA TotalGrows ==
    ASSUME NEW S, NEW R, IsFiniteSet(S), R \subseteq S,
           NEW st, NEW ut, Priced(st, R), Priced(ut, S),
           \A s \in R : st[s].amount = ut[s].amount
    PROVE  Total(ut, S) >= Total(st, R)
<1>1. /\ Total(ut, S) = SumsOver(ut, S)[S]
      /\ Total(st, R) = SumsOver(st, R)[R]
  BY TotalIsSum
<1>2. SumsOver(st, R)[R] = SumsOver(ut, S)[R]
  BY SumsSame
<1>3. S \in SUBSET S /\ R \in SUBSET S
  OBVIOUS
<1>4. SumsOver(ut, S)[R] <= SumsOver(ut, S)[S]
  BY <1>3, SumsGrow
<1>5. \A T \in SUBSET S : SumsOver(ut, S)[T] \in Nat
  BY SumsFacts
<1>6. SumsOver(ut, S)[R] \in Nat /\ SumsOver(ut, S)[S] \in Nat
  BY <1>3, <1>5
<1> QED
  BY <1>1, <1>2, <1>4, <1>6

-----------------------------------------------------------------------------
(* What Stripe says stays true *)

\* A refund keeps its amount and first answer, and a success is final.
StripeKept ==
    \A s \in Sources : stripe[s].status # "none" =>
        /\ stripe'[s].status # "none"
        /\ stripe'[s].amount = stripe[s].amount
        /\ stripe'[s].first = stripe[s].first
        /\ stripe[s].status = "succeeded" => stripe'[s].status = "succeeded"

\* No event enters or leaves the inbox, and one that was taken up stays so.
TakenUp == {"received", "done"}

SameEvents ==
    \A e \in Events : /\ inbox'[e] = "none" <=> inbox[e] = "none"
                      /\ inbox[e] \in TakenUp => inbox'[e] \in TakenUp

\* Stripe makes a refund, for somebody in the dashboard or for a request, ...
Made(s, amount, now) ==
    /\ stripe[s].status = "none"
    /\ \/ s = 0
       \/ \E a \in Admins : /\ admin[a].pc = "drive" /\ s = admin[a].op
                            /\ amount = admin[a].amount
    /\ Record(s, amount, now, now)

\* ... or ends one.
Ended(s, now) ==
    /\ stripe[s].status = "pending"
    /\ Record(s, stripe[s].amount, now, stripe[s].first)

MoneyStep ==
    \/ UNCHANGED stripe /\ SameEvents
    \/ \E s \in Sources, amount \in 0..Paid, now \in RowStatuses : Made(s, amount, now)
    \/ \E s \in Sources, now \in RowStatuses : Ended(s, now)

\* The event a worker holds was taken up.
Held == \A w \in Workers :
            worker[w].pc = "event" => inbox[worker[w].event] \in TakenUp

\* Every operation does one of these things at Stripe.
LEMMA StepMoney ==
    ASSUME TypeOK, Held, Next
    PROVE  MoneyStep
<1> USE AttemptsAreSources
<1>0. inbox \in [Events -> {"none", "sent", "received", "done"}]
  BY DEF TypeOK
<1>1. CASE UNCHANGED <<stripe, inbox>>
  BY <1>1 DEF MoneyStep, SameEvents
<1>2. ASSUME NEW a \in Admins, AdminStep(a)
      PROVE  MoneyStep
  <2>1. CASE CreateAtStripe(a)
    <3>1. CASE UNCHANGED <<stripe, inbox>>
      BY <1>1, <3>1
    <3>2. CASE ~UNCHANGED <<stripe, inbox>>
      <4>1. admin[a].op \in Sources /\ admin[a].amount \in 0..Paid
        BY DEF TypeOK
      <4>2. /\ admin[a].pc = "drive" /\ stripe[admin[a].op].status = "none"
            /\ \E now \in RowStatuses : Record(admin[a].op, admin[a].amount, now, now)
        BY <2>1, <3>2 DEF CreateAtStripe
      <4>3. \E now \in RowStatuses : Made(admin[a].op, admin[a].amount, now)
        BY <4>2 DEF Made
      <4> QED
        BY <4>1, <4>3 DEF MoneyStep
    <3> QED
      BY <3>1, <3>2
  <2>2. CASE ~CreateAtStripe(a)
    <3>1. UNCHANGED <<stripe, inbox>>
      BY <1>2, <2>2 DEF AdminStep, Resolve, ReserveActive, ReserveFailed,
           ReserveNew, ReserveRefused, CreateRefused, Declined, Finish,
           Retrieve, Retrieved, NextAttempt
    <3> QED
      BY <1>1, <3>1
  <2> QED
    BY <2>1, <2>2
<1>3. ASSUME NEW w \in Workers, WorkerStep(w)
      PROVE  MoneyStep
  <2>1. UNCHANGED stripe
    BY <1>3 DEF WorkerStep, Receive, ActOnEvent, LookAt, ActOnRow
  <2>2. CASE ActOnEvent(w)
    <3>1. \/ inbox' = inbox
          \/ inbox' = [inbox EXCEPT ![worker[w].event] = "done"]
      BY <2>2 DEF ActOnEvent
    <3>2. inbox[worker[w].event] # "none"
      BY <2>2 DEF ActOnEvent, Held, TakenUp
    <3>3. SameEvents
      BY <1>0, <3>1, <3>2 DEF SameEvents, TakenUp
    <3> QED
      BY <2>1, <3>3 DEF MoneyStep
  <2>3. ASSUME NEW e \in Events, Receive(w, e)
        PROVE  MoneyStep
    <3>1. \/ inbox' = [inbox EXCEPT ![e] = "done"]
          \/ inbox' = [inbox EXCEPT ![e] = "received"]
      BY <2>3 DEF Receive
    <3>2. inbox[e] # "none"
      BY <2>3 DEF Receive
    <3>3. SameEvents
      BY <1>0, <3>1, <3>2 DEF SameEvents, TakenUp
    <3> QED
      BY <2>1, <3>3 DEF MoneyStep
  <2>4. CASE (\E i \in Attempts : LookAt(w, i)) \/ ActOnRow(w)
    BY <1>1, <2>4 DEF LookAt, ActOnRow
  <2> QED
    BY <1>3, <2>2, <2>3, <2>4 DEF WorkerStep
<1>4. ASSUME NEW s \in Sources, StripeSettles(s)
      PROVE  MoneyStep
  <2>1. \E now \in RowStatuses : Ended(s, now)
    BY <1>4 DEF StripeSettles, Ended, RowStatuses
  <2> QED
    BY <2>1 DEF MoneyStep
<1>5. CASE DashboardRefund
  <2>1. PICK amount \in 0..Paid, now \in RowStatuses :
            stripe[0].status = "none" /\ Record(0, amount, now, now)
    BY <1>5, LedgerAssumption DEF DashboardRefund, RowStatuses
  <2>2. Made(0, amount, now)
    BY <2>1 DEF Made
  <2> QED
    BY <2>2 DEF MoneyStep
<1>6. CASE \E new \in StaffStatuses : StaffMoves(new)
  BY <1>1, <1>6 DEF StaffMoves
<1> QED
  BY <1>2, <1>3, <1>4, <1>5, <1>6 DEF Next, OwnStep

\* What such a step leaves of a refund, and which one it writes.
LEMMA RecordWrites ==
    ASSUME TypeOK, NEW s \in Sources, NEW amount, NEW now, NEW first,
           Record(s, amount, now, first)
    PROVE  /\ stripe'[s] = [status |-> now, amount |-> amount, first |-> first]
           /\ \A t \in Sources \ {s} : stripe'[t] = stripe[t]
           /\ \A e \in Events :
                 inbox[e] = "none" /\ inbox'[e] # "none" =>
                    e.source = s /\ e.says \in {now, "charge"}
           /\ \A e \in Events : inbox[e] # "none" => inbox'[e] = inbox[e]
<1>1. stripe \in [Sources -> StripeType]
      /\ inbox \in [Events -> {"none", "sent", "received", "done"}]
  BY DEF TypeOK, StripeType
<1>2. \A e \in Events :
          inbox'[e] = IF /\ inbox[e] = "none" /\ e.source = s
                         /\ \/ e.says = now
                            \/ /\ e.says = "charge"
                               /\ stripe[s].status = "none" /\ FullyReturned'
                      THEN "sent" ELSE inbox[e]
  BY DEF Record
<1>3. /\ stripe'[s] = [status |-> now, amount |-> amount, first |-> first]
      /\ \A t \in Sources \ {s} : stripe'[t] = stripe[t]
  BY <1>1 DEF Record
<1>4. \A e \in Events :
          inbox[e] = "none" /\ inbox'[e] # "none" =>
             e.source = s /\ e.says \in {now, "charge"}
  BY <1>2
<1>5. \A e \in Events : inbox[e] # "none" => inbox'[e] = inbox[e]
  BY <1>2
<1> QED
  BY <1>3, <1>4, <1>5

\* The charge's event comes at full refund only.
LEMMA RecordTells ==
    ASSUME NEW s \in Sources, NEW amount, NEW now, NEW first,
           Record(s, amount, now, first), ~FullyReturned'
    PROVE  \A e \in Events :
               inbox[e] = "none" /\ e.says # now => inbox'[e] = "none"
BY DEF Record

\* Amounts and successes last.
LEMMA MoneyKept ==
    ASSUME TypeOK, MoneyStep
    PROVE  StripeKept
<1>1. CASE UNCHANGED stripe
  BY <1>1 DEF StripeKept
<1>2. ASSUME NEW s \in Sources, NEW amount \in 0..Paid, NEW now \in RowStatuses,
             Made(s, amount, now)
      PROVE  StripeKept
  <2>1. stripe[s].status = "none" /\ Record(s, amount, now, now)
    BY <1>2 DEF Made
  <2>2. \A t \in Sources \ {s} : stripe'[t] = stripe[t]
    BY <2>1, RecordWrites, Zenon
  <2> QED
    BY <2>1, <2>2 DEF StripeKept
<1>3. ASSUME NEW s \in Sources, NEW now \in RowStatuses, Ended(s, now)
      PROVE  StripeKept
  <2>0. PICK amount, first : /\ Record(s, amount, now, first)
                             /\ amount = stripe[s].amount
                             /\ first = stripe[s].first
    BY <1>3 DEF Ended
  <2>1. /\ stripe'[s].status = now /\ stripe'[s].amount = amount
        /\ stripe'[s].first = first
        /\ \A t \in Sources \ {s} : stripe'[t] = stripe[t]
    <3>1. stripe'[s] = [status |-> now, amount |-> amount, first |-> first]
      BY <2>0, RecordWrites
    <3>2. \A t \in Sources \ {s} : stripe'[t] = stripe[t]
      BY <2>0, RecordWrites, Zenon
    <3> QED
      BY <3>1, <3>2
  <2>2. stripe[s].status = "pending" /\ now # "none"
    BY <1>3 DEF Ended, RowStatuses
  <2> QED
    BY <2>0, <2>1, <2>2 DEF StripeKept
<1> QED
  BY <1>1, <1>2, <1>3 DEF MoneyStep

-----------------------------------------------------------------------------
(* The money given back *)

SucceededIn(st) == {s \in Sources : st[s].status \in {"succeeded"}}

\* It is the sum of the refunds that succeeded, ...
LEMMA ReturnedIsTotal ==
    Returned({"succeeded"}) = Total(stripe, SucceededIn(stripe))
BY DEF Returned, Total, SucceededIn

\* ... also after a step.
LEMMA ReturnedIsTotalNext ==
    Returned({"succeeded"})' = Total(stripe', SucceededIn(stripe'))
<1>1. (Returned({"succeeded"}) = Total(stripe, SucceededIn(stripe)))'
  BY ReturnedIsTotal, PTL
<1> QED
  BY <1>1

\* The refunds have amounts that can be summed.
LEMMA Summable ==
    ASSUME NEW st \in [Sources -> StripeType]
    PROVE  /\ IsFiniteSet(SucceededIn(st)) /\ Priced(st, SucceededIn(st))
           /\ SucceededIn(st) \subseteq Sources
<1>1. IsFiniteSet(Sources)
  BY FS_Interval, LedgerAssumption DEF Sources
<1>2. SucceededIn(st) \subseteq Sources
  BY DEF SucceededIn
<1>3. IsFiniteSet(SucceededIn(st))
  BY <1>1, <1>2, FS_Subset
<1>4. Priced(st, SucceededIn(st))
  BY <1>2, LedgerAssumption DEF Priced, StripeType
<1> QED
  BY <1>2, <1>3, <1>4

\* A refund that succeeded is money given back.
LEMMA ReturnedCounts ==
    ASSUME TypeOK
    PROVE  /\ Returned({"succeeded"}) \in Nat
           /\ \A s \in Sources : stripe[s].status = "succeeded"
                 => Returned({"succeeded"}) >= stripe[s].amount
<1> DEFINE now == SucceededIn(stripe)
<1>1. IsFiniteSet(now) /\ Priced(stripe, now)
  BY Summable DEF TypeOK, StripeType
<1>2. \A s \in Sources : stripe[s].status = "succeeded" => s \in now
  BY DEF SucceededIn
<1>3. Returned({"succeeded"}) = Total(stripe, now)
  BY ReturnedIsTotal
<1> HIDE DEF now
<1>4. /\ Total(stripe, now) \in Nat
      /\ \A x \in now : Total(stripe, now) >= stripe[x].amount
  BY <1>1, TotalFacts
<1> QED
  BY <1>2, <1>3, <1>4

\* The sum is a natural after a step, too.
LEMMA ReturnedNext ==
    ASSUME stripe' \in [Sources -> StripeType]
    PROVE  Returned({"succeeded"})' \in Nat
<1> DEFINE ut == stripe'
           new == SucceededIn(ut)
<1>1. IsFiniteSet(new) /\ Priced(ut, new)
  BY Summable
<1>2. Returned({"succeeded"})' = Total(ut, new)
  BY ReturnedIsTotalNext
<1> HIDE DEF ut, new
<1> QED
  BY <1>1, <1>2, TotalFacts

\* Money given back stays given back.
LEMMA ReturnedGrows ==
    ASSUME TypeOK, stripe' \in [Sources -> StripeType], StripeKept
    PROVE  Returned({"succeeded"})' >= Returned({"succeeded"})
<1> DEFINE st == stripe
           ut == stripe'
           old == SucceededIn(st)
           new == SucceededIn(ut)
<1>1. Priced(st, old)
  BY Summable DEF TypeOK, StripeType
<1>2. IsFiniteSet(new) /\ Priced(ut, new)
  BY Summable
<1>3. old \subseteq new
  BY DEF SucceededIn, StripeKept
<1>4. \A s \in old : st[s].amount = ut[s].amount
  BY DEF SucceededIn, StripeKept
<1>5. Returned({"succeeded"}) = Total(st, old)
  BY ReturnedIsTotal
<1>6. Returned({"succeeded"})' = Total(ut, new)
  BY ReturnedIsTotalNext
<1> HIDE DEF old, new, st, ut
<1>7. Total(ut, new) >= Total(st, old)
  BY <1>1, <1>2, <1>3, <1>4, TotalGrows
<1> QED
  BY <1>5, <1>6, <1>7

\* Some refund is on its way.
UnderWay == \E s \in Sources : stripe[s].status = "pending"

\* Otherwise the amount that charge.refunded tells is money given back.
LEMMA NoneUnderWay ==
    ~UnderWay => Returned({"pending", "succeeded"}) = Returned({"succeeded"})
<1> SUFFICES ASSUME ~UnderWay
             PROVE  Returned({"pending", "succeeded"}) = Returned({"succeeded"})
  OBVIOUS
<1> DEFINE both == {s \in Sources : stripe[s].status \in {"pending", "succeeded"}}
<1>1. Returned({"pending", "succeeded"}) = Total(stripe, both)
  BY DEF Returned, Total
<1>2. both = SucceededIn(stripe)
  BY DEF UnderWay, SucceededIn
<1> HIDE DEF both
<1> QED
  BY <1>1, <1>2, ReturnedIsTotal

\* So a charge is fully refunded by money given back, or by some on its way.
LEMMA FullyReturnedNext ==
    FullyReturned' => UnderWay' \/ Returned({"succeeded"})' = Paid
<1>1. FullyReturned => UnderWay \/ Returned({"succeeded"}) = Paid
  BY NoneUnderWay DEF FullyReturned
<1>2. (FullyReturned => UnderWay \/ Returned({"succeeded"}) = Paid)'
  BY <1>1, PTL
<1> QED
  BY <1>2

-----------------------------------------------------------------------------
(* What the actors were told is true *)

\* Stripe's first answer, which it repeats, says succeeded only if it is so,
\* and of a refund that is on its way it says pending.
FirstNews ==
    \A s \in Sources :
        /\ stripe[s].first = "succeeded" => stripe[s].status = "succeeded"
        /\ stripe[s].status = "pending" => stripe[s].first = "pending"

\* Some refund was on its way when Stripe made it.
Slow == \E s \in Sources : stripe[s].status # "none" /\ stripe[s].first = "pending"

\* So do the answers the requests and the job hold, ...
ToldAdmin(a) ==
    admin[a].pc \in {"answered", "retrieved"} =>
        /\ admin[a].refund \in Sources
        /\ admin[a].answer = "succeeded" => stripe[admin[a].refund].status = "succeeded"

ToldWorker(w) ==
    worker[w].pc = "row" =>
        /\ worker[w].refund \in Sources
        /\ worker[w].answer = "succeeded" => stripe[worker[w].refund].status = "succeeded"

TrueAnswers == (\A a \in Admins : ToldAdmin(a)) /\ (\A w \in Workers : ToldWorker(w))

\* ... and the events: a refund's own, and, but for refunds that were on their
\* way, the charge's.
TrueEvent(e) ==
    inbox[e] # "none" =>
        /\ e.says = "succeeded" => stripe[e.source].status = "succeeded"
        /\ e.says = "charge" => Slow \/ Returned({"succeeded"}) >= Paid

TrueEvents == \A e \in Events : TrueEvent(e)

TrueNews == FirstNews /\ TrueAnswers /\ TrueEvents /\ Held

\* A repeated answer stays true.
LEMMA FirstStep ==
    ASSUME TypeOK, FirstNews, MoneyStep
    PROVE  FirstNews'
<1>1. CASE UNCHANGED stripe
  BY <1>1 DEF FirstNews
<1>2. ASSUME NEW s \in Sources, NEW amount \in 0..Paid, NEW now \in RowStatuses,
             Made(s, amount, now)
      PROVE  FirstNews'
  <2>0. Record(s, amount, now, now)
    BY <1>2 DEF Made
  <2>1. stripe'[s] = [status |-> now, amount |-> amount, first |-> now]
    BY <2>0, RecordWrites
  <2>2. \A t \in Sources \ {s} : stripe'[t] = stripe[t]
    BY <2>0, RecordWrites, Zenon
  <2> QED
    BY <2>1, <2>2 DEF FirstNews
<1>3. ASSUME NEW s \in Sources, NEW now \in RowStatuses, Ended(s, now)
      PROVE  FirstNews'
  <2>0. PICK amount, first : Record(s, amount, now, first) /\ first = stripe[s].first
    BY <1>3 DEF Ended
  <2>1. stripe'[s] = [status |-> now, amount |-> amount, first |-> first]
    BY <2>0, RecordWrites
  <2>2. \A t \in Sources \ {s} : stripe'[t] = stripe[t]
    BY <2>0, RecordWrites, Zenon
  <2>3. stripe[s].first = "pending"
    BY <1>3 DEF Ended, FirstNews
  <2> QED
    BY <2>0, <2>1, <2>2, <2>3 DEF FirstNews
<1> QED
  BY <1>1, <1>2, <1>3 DEF MoneyStep

\* An event is sent when it is true, and stays true.
LEMMA EventsStep ==
    ASSUME TypeOK, stripe' \in [Sources -> StripeType], FirstNews', TrueEvents,
           MoneyStep
    PROVE  TrueEvents'
<1>1. StripeKept
  BY MoneyKept
<1>2. /\ Returned({"succeeded"}) \in Nat /\ Returned({"succeeded"})' \in Nat
      /\ Returned({"succeeded"})' >= Returned({"succeeded"}) /\ Paid \in Nat
  BY <1>1, ReturnedNext, ReturnedCounts, ReturnedGrows, LedgerAssumption
<1>3. \A e \in Events : e.source \in Sources
  BY DEF Events
<1>4. Slow => Slow'
  BY <1>1 DEF Slow, StripeKept
<1>5. ASSUME NEW e \in Events, inbox[e] # "none"
      PROVE  TrueEvent(e)'
  <2>1. e.says = "succeeded" => stripe'[e.source].status = "succeeded"
    BY <1>1, <1>3, <1>5 DEF TrueEvents, TrueEvent, StripeKept
  <2>2. e.says = "charge" => Slow' \/ Returned({"succeeded"})' >= Paid
    BY <1>2, <1>4, <1>5 DEF TrueEvents, TrueEvent
  <2> QED
    BY <2>1, <2>2 DEF TrueEvent
<1>6. CASE UNCHANGED stripe /\ SameEvents
  <2>1. ASSUME NEW e \in Events, inbox[e] = "none" PROVE TrueEvent(e)'
    BY <1>6, <2>1 DEF SameEvents, TrueEvent
  <2> QED
    BY <1>5, <2>1 DEF TrueEvents
<1>7. ASSUME NEW s \in Sources, NEW amount, NEW now \in RowStatuses, NEW first,
             Record(s, amount, now, first)
      PROVE  TrueEvents'
  <2>0. \/ FullyReturned'
        \/ \A e \in Events :
              inbox[e] = "none" /\ e.says # now => inbox'[e] = "none"
    BY <1>7, RecordTells, Zenon
  <2>1. stripe'[s] = [status |-> now, amount |-> amount, first |-> first]
    BY <1>7, RecordWrites
  <2>2. ASSUME NEW e \in Events, inbox[e] = "none" PROVE TrueEvent(e)'
    <3> SUFFICES ASSUME inbox'[e] # "none" PROVE TrueEvent(e)'
      BY DEF TrueEvent
    <3>1. e.source = s /\ e.says \in {now, "charge"}
      BY <1>7, <2>2, RecordWrites
    <3>2. e.says = "succeeded" => stripe'[e.source].status = "succeeded"
      BY <2>1, <3>1
    <3>3. UnderWay' => Slow'
      BY DEF UnderWay, Slow, FirstNews
    <3>4. e.says = "charge" => FullyReturned'
      <4>1. now # "charge"
        BY DEF RowStatuses
      <4> QED
        BY <2>0, <2>2, <4>1
    <3>5. e.says = "charge" => Slow' \/ Returned({"succeeded"})' >= Paid
      BY <1>2, <3>3, <3>4, FullyReturnedNext
    <3> QED
      BY <3>2, <3>5 DEF TrueEvent
  <2> QED
    BY <1>5, <2>2 DEF TrueEvents
<1>8. \/ UNCHANGED stripe /\ SameEvents
      \/ \E s \in Sources, now \in RowStatuses : \E amount, first :
            Record(s, amount, now, first)
  BY DEF MoneyStep, Made, Ended
<1> QED
  BY <1>6, <1>7, <1>8

\* An event that was taken up stays so.
LEMMA InboxKept ==
    ASSUME TypeOK, MoneyStep, NEW e \in Events, inbox[e] \in TakenUp
    PROVE  inbox'[e] \in TakenUp
<1>1. CASE SameEvents
  BY <1>1 DEF SameEvents
<1>2. ASSUME NEW s \in Sources, NEW amount, NEW now \in RowStatuses, NEW first,
             Record(s, amount, now, first)
      PROVE  inbox'[e] \in TakenUp
  <2>1. inbox[e] # "none"
    BY DEF TakenUp
  <2> QED
    BY <1>2, <2>1, RecordWrites
<1>3. \/ SameEvents
      \/ \E s \in Sources, now \in RowStatuses : \E amount, first :
            Record(s, amount, now, first)
  BY DEF MoneyStep, Made, Ended
<1> QED
  BY <1>1, <1>2, <1>3

\* What a request does to its record.
Driven(a, i, known, amount) ==
    /\ Drive(a, i, known, amount) /\ ops'[i].status # "none"
    /\ known = NoRefund \/ (known = ops[i].refund /\ ops' = ops)
    /\ \/ amount = ops'[i].amount
       \/ admin[a].pc = "next" /\ amount = admin[a].amount /\ ops' = ops

AdminMove(a) ==
    \/ Leave(a)
    \/ \E amount \in 0..Paid :
          admin' = [admin EXCEPT ![a] = [Idle EXCEPT !.pc = "resolved",
                                                     !.amount = amount]]
    \/ \E i \in Attempts, known \in Sources \cup {NoRefund}, amount \in 0..Paid :
          Driven(a, i, known, amount)
    \/ CreateAtStripe(a)
    \/ Retrieve(a)
    \/ /\ admin[a].pc \in {"drive", "retrieved"}
       /\ \E pc \in {"declined", "next"} : admin' = [admin EXCEPT ![a].pc = pc]

\* Every operation of a request does one of these things.
LEMMA AdminMoves ==
    ASSUME TypeOK, NEW a \in Admins, AdminStep(a)
    PROVE  AdminMove(a)
<1>0. /\ ops \in [Attempts -> RowType] /\ admin \in [Admins -> AdminType]
      /\ admin[a].amount \in 0..Paid
  BY DEF TypeOK, AdminType, RowType
<1>1. CASE Resolve(a)
  <2>1. PICK amount \in OfferedAmounts :
            admin' = [admin EXCEPT ![a] = [Idle EXCEPT !.pc = "resolved",
                                                       !.amount = amount]]
    BY <1>1 DEF Resolve
  <2>2. amount \in 0..Paid
    BY <2>1 DEF OfferedAmounts
  <2> QED
    BY <2>1, <2>2 DEF AdminMove
<1>2. CASE ReserveActive(a) \/ ReserveFailed(a)
  <2>1. PICK i \in Attempts : /\ ops[i].status # "none"
                              /\ Drive(a, i, ops[i].refund, ops[i].amount)
    BY <1>2 DEF ReserveActive, ReserveFailed, Active, Latest, Rows, RowStatuses
  <2>2. ops' = ops
    BY <1>2 DEF ReserveActive, ReserveFailed
  <2>3. ops[i].refund \in Sources \cup {NoRefund} /\ ops[i].amount \in 0..Paid
    BY <1>0 DEF RowType
  <2>4. Driven(a, i, ops[i].refund, ops[i].amount)
    BY <2>1, <2>2 DEF Driven
  <2> QED
    BY <2>3, <2>4 DEF AdminMove
<1>3. ASSUME NEW i \in Attempts, Insert(i, admin[a].amount),
             Drive(a, i, NoRefund, admin[a].amount)
      PROVE  AdminMove(a)
  <2>1. ops'[i].status # "none" /\ ops'[i].amount = admin[a].amount
    BY <1>0, <1>3 DEF Insert
  <2>2. Driven(a, i, NoRefund, admin[a].amount)
    BY <1>3, <2>1 DEF Driven
  <2> QED
    BY <1>0, <2>2 DEF AdminMove
<1>4. CASE ReserveNew(a)
  BY <1>3, <1>4 DEF ReserveNew, Unused, Rows
<1>5. CASE ReserveRefused(a) \/ Declined(a) \/ Finish(a)
  BY <1>5 DEF ReserveRefused, Declined, Finish, AdminMove
<1>6. CASE CreateAtStripe(a) \/ Retrieve(a)
  BY <1>6 DEF AdminMove
<1>7. CASE CreateRefused(a) \/ Retrieved(a)
  BY <1>7 DEF CreateRefused, Retrieved, AdminMove
<1>8. CASE NextAttempt(a)
  <2>1. \/ Leave(a)
        \/ \E i \in Active : UNCHANGED ops /\ Drive(a, i, ops[i].refund, admin[a].amount)
        \/ /\ admin[a].op + 1 \in Attempts /\ Insert(admin[a].op + 1, admin[a].amount)
           /\ Drive(a, admin[a].op + 1, NoRefund, admin[a].amount)
    BY <1>8 DEF NextAttempt
  <2>2. ASSUME NEW i \in Active, UNCHANGED ops, Drive(a, i, ops[i].refund, admin[a].amount)
        PROVE  AdminMove(a)
    <3>1. i \in Attempts /\ ops[i].status # "none"
          /\ ops[i].refund \in Sources \cup {NoRefund}
      BY <1>0, <2>2 DEF Active, Rows, RowType
    <3>2. Driven(a, i, ops[i].refund, admin[a].amount)
      BY <1>8, <2>2, <3>1 DEF Driven, NextAttempt
    <3> QED
      BY <1>0, <3>1, <3>2 DEF AdminMove
  <2> QED
    BY <1>3, <2>1, <2>2 DEF AdminMove
<1> QED
  BY <1>1, <1>2, <1>4, <1>5, <1>6, <1>7, <1>8 DEF AdminStep

\* An answer is true when it is given.
LEMMA AdminTold ==
    ASSUME TypeOK, FirstNews, TrueAnswers, StripeKept, NEW a \in Admins, AdminMove(a)
    PROVE  \A b \in Admins : ToldAdmin(b)'
<1> USE AttemptsAreSources
<1>0. admin \in [Admins -> AdminType] /\ stripe \in [Sources -> StripeType]
  BY DEF TypeOK, AdminType, StripeType
<1>1. ASSUME NEW b \in Admins, admin'[b] = admin[b] PROVE ToldAdmin(b)'
  <2>1. ToldAdmin(b)
    BY DEF TrueAnswers
  <2> QED
    BY <1>1, <2>1 DEF ToldAdmin, StripeKept
<1>2. ASSUME NEW r, admin' = [admin EXCEPT ![a] = r],
             r.pc \in {"answered", "retrieved"} =>
                 /\ r.refund \in Sources
                 /\ r.answer = "succeeded" => stripe'[r.refund].status = "succeeded"
      PROVE  \A b \in Admins : ToldAdmin(b)'
  <2>1. admin'[a] = r /\ \A b \in Admins \ {a} : admin'[b] = admin[b]
    BY <1>0, <1>2
  <2>2. ToldAdmin(a)'
    BY <1>2, <2>1 DEF ToldAdmin
  <2> QED
    BY <1>1, <2>1, <2>2
<1>3. CASE Leave(a)
  BY <1>2, <1>3 DEF Leave, Idle
<1>4. ASSUME NEW amount \in 0..Paid,
             admin' = [admin EXCEPT ![a] = [Idle EXCEPT !.pc = "resolved",
                                                        !.amount = amount]]
      PROVE  \A b \in Admins : ToldAdmin(b)'
  <2>1. [Idle EXCEPT !.pc = "resolved", !.amount = amount].pc = "resolved"
    BY DEF Idle
  <2> QED
    BY <1>2, <1>4, <2>1
<1>5. ASSUME NEW i \in Attempts, NEW known, NEW amount, Drive(a, i, known, amount)
      PROVE  \A b \in Admins : ToldAdmin(b)'
  <2>1. [Idle EXCEPT !.pc = "drive", !.op = i, !.refund = known,
                     !.amount = amount].pc = "drive"
    BY DEF Idle
  <2> QED
    BY <1>2, <1>5, <2>1 DEF Drive
<1>6. ASSUME NEW says, Answered(a, says), admin[a].op \in Sources,
             says = "succeeded" => stripe'[admin[a].op].status = "succeeded"
      PROVE  \A b \in Admins : ToldAdmin(b)'
  <2>1. PICK r : r = [admin[a] EXCEPT !.pc = "answered", !.refund = admin[a].op,
                                      !.answer = says]
    OBVIOUS
  <2>2. r.refund = admin[a].op /\ r.answer = says
    BY <1>0, <2>1 DEF AdminType
  <2>3. admin' = [admin EXCEPT ![a] = r]
    BY <1>6, <2>1, Zenon DEF Answered
  <2> QED
    BY <1>2, <1>6, <2>2, <2>3
<1>7. CASE CreateAtStripe(a)
  <2>0. admin[a].op \in Sources
    BY <1>0 DEF AdminType
  <2>1. CASE Leave(a)
    BY <1>3, <2>1
  <2>2. ASSUME NEW now \in RowStatuses,
               Record(admin[a].op, admin[a].amount, now, now), Answered(a, now)
        PROVE  \A b \in Admins : ToldAdmin(b)'
    <3>1. stripe'[admin[a].op].status = now
      BY <1>0, <2>0, <2>2 DEF Record
    <3> QED
      BY <1>6, <2>0, <2>2, <3>1
  <2>3. CASE UNCHANGED stripe /\ Answered(a, stripe[admin[a].op].first)
    <3>1. PICK says : says = stripe[admin[a].op].first /\ Answered(a, says)
      BY <2>3
    <3>2. says = "succeeded" => stripe'[admin[a].op].status = "succeeded"
      BY <2>0, <2>3, <3>1 DEF FirstNews
    <3> QED
      BY <1>6, <2>0, <3>1, <3>2
  <2> QED
    BY <1>7, <2>1, <2>2, <2>3 DEF CreateAtStripe
<1>8. CASE Retrieve(a)
  <2>1. CASE Leave(a)
    BY <1>3, <2>1
  <2>2. CASE admin' = [admin EXCEPT ![a].pc = "retrieved",
                                    ![a].answer = stripe[admin[a].refund].status]
    <3>1. PICK r : r = [admin[a] EXCEPT !.pc = "retrieved",
                                        !.answer = stripe[admin[a].refund].status]
      OBVIOUS
    <3>2. admin[a].refund \in Sources
      BY <1>0, <1>8 DEF Retrieve, AdminType
    <3>3. r.refund = admin[a].refund /\ r.answer = stripe[admin[a].refund].status
      BY <1>0, <3>1 DEF AdminType
    <3>4. admin' = [admin EXCEPT ![a] = r]
      BY <2>2, <3>1, Zenon
    <3>5. stripe' = stripe
      BY <1>8 DEF Retrieve
    <3> QED
      BY <1>2, <3>2, <3>3, <3>4, <3>5
  <2> QED
    BY <1>8, <2>1, <2>2 DEF Retrieve
<1>9. ASSUME NEW pc \in {"declined", "next"}, admin' = [admin EXCEPT ![a].pc = pc]
      PROVE  \A b \in Admins : ToldAdmin(b)'
  <2>1. PICK r : r = [admin[a] EXCEPT !.pc = pc]
    OBVIOUS
  <2>2. r.pc = pc
    BY <1>0, <2>1 DEF AdminType
  <2>3. admin' = [admin EXCEPT ![a] = r]
    BY <1>9, <2>1, Zenon
  <2> QED
    BY <1>2, <2>2, <2>3
<1> QED
  BY <1>3, <1>4, <1>5, <1>7, <1>8, <1>9 DEF AdminMove, Driven

\* The same for the job's answers.
LEMMA WorkerTold ==
    ASSUME TypeOK, TrueAnswers, StripeKept, NEW w \in Workers, WorkerStep(w)
    PROVE  \A v \in Workers : ToldWorker(v)'
<1>0. worker \in [Workers -> WorkerType]
  BY DEF TypeOK, WorkerType
<1>1. ASSUME NEW v \in Workers, worker'[v] = worker[v] PROVE ToldWorker(v)'
  <2>1. ToldWorker(v)
    BY DEF TrueAnswers
  <2> QED
    BY <1>1, <2>1 DEF ToldWorker, StripeKept
<1>2. CASE UNCHANGED worker
  BY <1>1, <1>2
<1>3. ASSUME NEW r, worker' = [worker EXCEPT ![w] = r],
             r.pc = "row" =>
                 /\ r.refund \in Sources
                 /\ r.answer = "succeeded" => stripe'[r.refund].status = "succeeded"
      PROVE  \A v \in Workers : ToldWorker(v)'
  <2>1. worker'[w] = r /\ \A v \in Workers \ {w} : worker'[v] = worker[v]
    BY <1>0, <1>3
  <2>2. ToldWorker(w)'
    BY <1>3, <2>1 DEF ToldWorker
  <2> QED
    BY <1>1, <2>1, <2>2
<1>4. CASE ActOnEvent(w) \/ ActOnRow(w)
  <2>1. worker' = [worker EXCEPT ![w] = IdleWorker] /\ IdleWorker.pc = "idle"
    BY <1>4 DEF ActOnEvent, ActOnRow, IdleWorker
  <2> QED
    BY <1>3, <2>1
<1>5. ASSUME NEW e \in Events, Receive(w, e), ~UNCHANGED worker
      PROVE  \A v \in Workers : ToldWorker(v)'
  <2>1. PICK i : worker' = [worker EXCEPT ![w] =
                               [pc |-> "event", event |-> e, op |-> i,
                                refund |-> ops[i].refund, answer |-> "none"]]
    BY <1>5 DEF Receive
  <2>2. [pc |-> "event", event |-> e, op |-> i,
         refund |-> ops[i].refund, answer |-> "none"].pc = "event"
    OBVIOUS
  <2> QED
    BY <1>3, <2>1, <2>2
<1>6. ASSUME NEW i \in Attempts, LookAt(w, i)
      PROVE  \A v \in Workers : ToldWorker(v)'
  <2>1. PICK r : r = [pc |-> "row", event |-> NoEvent, op |-> i,
                      refund |-> ops[i].refund,
                      answer |-> stripe[ops[i].refund].status]
    OBVIOUS
  <2>2. worker' = [worker EXCEPT ![w] = r] /\ stripe' = stripe
    BY <1>6, <2>1 DEF LookAt
  <2>3. r.refund \in Sources /\ r.answer = stripe[r.refund].status
    BY <1>6, <2>1 DEF LookAt, TypeOK
  <2> QED
    BY <1>3, <2>2, <2>3
<1> QED
  BY <1>2, <1>4, <1>5, <1>6 DEF WorkerStep

\* A worker takes up an event that is in the inbox.
LEMMA HeldStep ==
    ASSUME TypeOK, Held, MoneyStep, Next
    PROVE  Held'
<1>0. worker \in [Workers -> WorkerType] /\ inbox \in [Events -> {"none", "sent", "received", "done"}]
  BY DEF TypeOK, WorkerType
<1>1. ASSUME NEW v \in Workers, worker'[v] = worker[v], worker[v].pc = "event"
      PROVE  inbox'[worker'[v].event] \in TakenUp
  <2>1. worker[v].event \in Events /\ inbox[worker[v].event] \in TakenUp
    BY <1>0, <1>1 DEF WorkerType, Held
  <2> QED
    BY <1>1, <2>1, InboxKept
<1>2. CASE UNCHANGED worker
  BY <1>1, <1>2 DEF Held
<1>3. ASSUME NEW w \in Workers, WorkerStep(w), ~UNCHANGED worker
      PROVE  Held'
  <2>1. \A v \in Workers \ {w} : worker'[v] = worker[v]
    BY <1>0, <1>3 DEF WorkerStep, Receive, ActOnEvent, LookAt, ActOnRow
  <2>2. worker'[w].pc = "event" => inbox'[worker'[w].event] \in TakenUp
    <3>1. CASE ActOnEvent(w) \/ ActOnRow(w) \/ \E i \in Attempts : LookAt(w, i)
      BY <1>0, <3>1 DEF ActOnEvent, ActOnRow, LookAt, IdleWorker
    <3>2. ASSUME NEW e \in Events, Receive(w, e)
          PROVE  inbox'[worker'[w].event] \in TakenUp
      <4>1. worker'[w].event = e /\ inbox' = [inbox EXCEPT ![e] = "received"]
        BY <1>0, <1>3, <3>2 DEF Receive
      <4> QED
        BY <1>0, <4>1 DEF TakenUp
    <3> QED
      BY <1>3, <3>1, <3>2 DEF WorkerStep
  <2> QED
    BY <1>1, <2>1, <2>2 DEF Held
<1>4. Next => UNCHANGED worker \/ \E w \in Workers : WorkerStep(w)
  BY DEF Next, OwnStep, AdminStep, Resolve, ReserveActive, ReserveFailed,
         ReserveNew, ReserveRefused, CreateAtStripe, CreateRefused, Declined,
         Finish, Retrieve, Retrieved, NextAttempt, StripeSettles,
         DashboardRefund, StaffMoves
<1> QED
  BY <1>2, <1>3, <1>4

\* What the actors were told stays true.
LEMMA NewsStep ==
    ASSUME TypeOK, stripe' \in [Sources -> StripeType], TrueNews, Next
    PROVE  TrueNews'
<1>1. MoneyStep
  BY StepMoney DEF TrueNews
<1>2. StripeKept
  BY <1>1, MoneyKept
<1>3. UNCHANGED admin => \A b \in Admins : ToldAdmin(b)'
  BY <1>2 DEF TrueNews, TrueAnswers, ToldAdmin, StripeKept
<1>4. UNCHANGED worker => \A v \in Workers : ToldWorker(v)'
  BY <1>2 DEF TrueNews, TrueAnswers, ToldWorker, StripeKept
<1>5. TrueAnswers'
  <2>1. ASSUME NEW a \in Admins, AdminStep(a) PROVE TrueAnswers'
    <3>1. \A b \in Admins : ToldAdmin(b)'
      BY <1>2, <2>1, AdminMoves, AdminTold DEF TrueNews
    <3>2. UNCHANGED worker
      BY <2>1 DEF AdminStep, Resolve, ReserveActive, ReserveFailed,
         ReserveNew, ReserveRefused, CreateAtStripe, CreateRefused, Declined,
         Finish, Retrieve, Retrieved, NextAttempt
    <3> QED
      BY <1>4, <3>1, <3>2 DEF TrueAnswers
  <2>2. ASSUME NEW w \in Workers, WorkerStep(w) PROVE TrueAnswers'
    <3>1. \A v \in Workers : ToldWorker(v)'
      BY <1>2, <2>2, WorkerTold DEF TrueNews
    <3>2. UNCHANGED admin
      BY <2>2 DEF WorkerStep, Receive, ActOnEvent, LookAt, ActOnRow
    <3> QED
      BY <1>3, <3>1, <3>2 DEF TrueAnswers
  <2>3. CASE UNCHANGED <<admin, worker>>
    BY <1>3, <1>4, <2>3 DEF TrueAnswers
  <2> QED
    BY <2>1, <2>2, <2>3 DEF Next, OwnStep, StripeSettles, DashboardRefund, StaffMoves
<1>6. FirstNews'
  BY <1>1, FirstStep DEF TrueNews
<1> QED
  BY <1>1, <1>5, <1>6, EventsStep, HeldStep DEF TrueNews

-----------------------------------------------------------------------------
(* Attempts for one amount *)

\* The attempts are for different amounts, after a partial refund in the
\* dashboard.
Uneven == \E i, j \in Rows(RowStatuses) : ops[i].amount # ops[j].amount

\* Otherwise a refund that a row, a request or a worker knows is of the row's
\* amount, ...
OfAmount(n, i) == stripe[n].status # "none" /\ stripe[n].amount = ops[i].amount

Knows(n, i) == n # NoRefund => OfAmount(n, i)

\* ... and a row that succeeded has its money, or a charge.refunded said so
\* that counted a refund on its way, ...
ToldOfCharge == \E e \in Events : e.says = "charge" /\ inbox[e] \in TakenUp

HasMoney(i) ==
    \/ Returned({"succeeded"}) >= ops[i].amount
    \/ ops[i].amount = Paid /\ ToldOfCharge /\ Slow

RowsEven ==
    \A i \in Attempts :
        /\ Knows(ops[i].refund, i)
        /\ ops[i].status = "succeeded" => HasMoney(i)

\* ... so is the refund made with the key of an attempt, ...
KeysEven ==
    \A s \in Attempts :
        stripe[s].status # "none" => ops[s].status # "none" /\ OfAmount(s, s)

\* ... and a request asks for the amount of the row it holds.
EvenAdmin(a) ==
    admin[a].pc \notin {"idle", "resolved"} =>
        /\ admin[a].amount = ops[admin[a].op].amount
        /\ Knows(admin[a].refund, admin[a].op)

EvenWorker(w) == worker[w].pc # "idle" => Knows(worker[w].refund, worker[w].op)

Even ==
    /\ RowsEven /\ KeysEven
    /\ \A a \in Admins : EvenAdmin(a)
    /\ \A w \in Workers : EvenWorker(w)

\* A row never changes its amount.
LEMMA AmountsKept ==
    ASSUME TypeOK, RowStep
    PROVE  \A i \in Attempts : ops[i].status # "none" =>
               ops'[i].status # "none" /\ ops'[i].amount = ops[i].amount
<1>1. ops \in [Attempts -> RowType]
  BY DEF TypeOK, RowType
<1>2. CASE UNCHANGED ops
  BY <1>2
<1>3. ASSUME NEW i \in Attempts, NEW n \in Sources \cup {NoRefund},
             Failing(i) \/ Reopening(i, n)
      PROVE  \A j \in Attempts : ops[j].status # "none" =>
                 ops'[j].status # "none" /\ ops'[j].amount = ops[j].amount
  BY <1>1, <1>3 DEF Failing, Reopening, RowType
<1>4. ASSUME NEW i \in Attempts, NEW n \in Sources \cup {NoRefund}, Succeeding(i, n)
      PROVE  \A j \in Attempts : ops[j].status # "none" =>
                 ops'[j].status # "none" /\ ops'[j].amount = ops[j].amount
  BY <1>1, <1>4 DEF Succeeding, Applied, RowType
<1>5. ASSUME NEW i \in Attempts, NEW amount \in 0..Paid, Opening(i, amount)
      PROVE  \A j \in Attempts : ops[j].status # "none" =>
                 ops'[j].status # "none" /\ ops'[j].amount = ops[j].amount
  BY <1>1, <1>5 DEF Opening, Insert, RowType
<1> QED
  BY <1>2, <1>3, <1>4, <1>5 DEF RowStep, Moving

\* So uneven attempts stay uneven.
LEMMA UnevenLasts ==
    ASSUME TypeOK, TypeOK', RowStep, Uneven
    PROVE  Uneven'
<1>1. PICK i, j \in Rows(RowStatuses) : ops[i].amount # ops[j].amount
  BY DEF Uneven
<1>2. i \in Attempts /\ j \in Attempts
      /\ ops[i].status # "none" /\ ops[j].status # "none"
  BY <1>1 DEF Rows, RowStatuses
<1>3. /\ ops'[i].status # "none" /\ ops'[i].amount = ops[i].amount
      /\ ops'[j].status # "none" /\ ops'[j].amount = ops[j].amount
  BY <1>2, AmountsKept
<1>4. \A k \in Attempts : ops'[k].status \in RowStatuses \cup {"none"}
  BY DEF TypeOK
<1> QED
  BY <1>1, <1>2, <1>3, <1>4 DEF Uneven, Rows

\* What is known of a refund stays so.
LEMMA KnowsKept ==
    ASSUME TypeOK, RowStep, StripeKept, NEW i \in Attempts, ops[i].status # "none",
           NEW n \in Sources \cup {NoRefund}, Knows(n, i)
    PROVE  Knows(n, i)'
<1>1. ops'[i].amount = ops[i].amount
  BY AmountsKept
<1> QED
  BY <1>1 DEF Knows, OfAmount, StripeKept

\* Money that is there stays there.
LEMMA HasMoneyKept ==
    ASSUME TypeOK, stripe' \in [Sources -> StripeType], RowStep, MoneyStep,
           NEW i \in Attempts, ops[i].status # "none", HasMoney(i),
           Returned({"succeeded"})' \in Nat
    PROVE  HasMoney(i)'
<1>1. ops'[i].amount = ops[i].amount
  BY AmountsKept
<1>2. Returned({"succeeded"})' >= Returned({"succeeded"})
      /\ Returned({"succeeded"}) \in Nat
  BY MoneyKept, ReturnedGrows, ReturnedCounts
<1>3. ops[i].amount \in Nat
  BY LedgerAssumption DEF TypeOK
<1>4. ToldOfCharge => ToldOfCharge'
  BY InboxKept DEF ToldOfCharge
<1>5. Slow => Slow'
  BY MoneyKept DEF Slow, StripeKept
<1>6. CASE Returned({"succeeded"}) >= ops[i].amount
  <2>1. Returned({"succeeded"})' >= ops'[i].amount
    BY <1>1, <1>2, <1>3, <1>6
  <2> QED
    BY <2>1 DEF HasMoney
<1> QED
  BY <1>1, <1>4, <1>5, <1>6 DEF HasMoney

\* What a transaction does to the rows when it knows what it writes.
KnowingStep ==
    \/ UNCHANGED ops
    \/ \E i \in Attempts :
          \/ Failing(i)
          \/ \E n \in Sources \cup {NoRefund} :
                Knows(n, i) /\ (Reopening(i, n) \/ (HasMoney(i) /\ Succeeding(i, n)))
          \/ \E amount \in 0..Paid : Opening(i, amount)

\* The row that success is written to has the caller's amount.
LEMMA TargetEven ==
    ASSUME TypeOK, ~Uneven, NEW i \in Attempts, ops[i].status # "none"
    PROVE  Target(i) \in Attempts /\ ops[Target(i)].amount = ops[i].amount
<1>1. CASE Active = {}
  BY <1>1 DEF Target
<1>2. CASE Active # {}
  <2>1. Target(i) \in Active
    BY <1>2 DEF Target
  <2>2. Target(i) \in Attempts /\ ops[Target(i)].status \in RowStatuses
    BY <2>1 DEF Active, Rows, RowStatuses
  <2>3. ops[i].status \in RowStatuses
    BY DEF TypeOK
  <2> QED
    BY <2>2, <2>3 DEF Uneven, Rows
<1> QED
  BY <1>1, <1>2

\* So success is written where the money is known to be.
LEMMA ApplyKnows ==
    ASSUME TypeOK, OneActiveOperation, ~Uneven, NEW i \in Attempts,
           ops[i].status # "none",
           NEW n \in Sources \cup {NoRefund}, Knows(n, i), HasMoney(i), Apply(i, n)
    PROVE  KnowingStep
<1>1. CASE Open(Target(i)) /\ ~ApplyRefused(i, n)
  <2> DEFINE t == Target(i)
  <2>1. t \in Attempts /\ Active \subseteq {t} /\ ops[t].status # "none"
    <3>1. CASE Active = {}
      BY <3>1 DEF Target
    <3>2. CASE Active # {}
      <4>1. t \in Active
        BY <3>2 DEF Target
      <4> QED
        BY <4>1 DEF OneActiveOperation, Active, Rows
    <3> QED
      BY <3>1, <3>2
  <2>2. Succeeding(t, n)
    BY <1>1, <2>1 DEF Apply, Open, Succeeding, TypeOK, RowStatuses
  <2>3. Knows(n, t) /\ HasMoney(t)
    <3>1. ops[t].amount = ops[i].amount
      BY TargetEven
    <3> HIDE DEF t
    <3> QED
      BY <3>1 DEF Knows, OfAmount, HasMoney
  <2> QED
    BY <2>1, <2>2, <2>3 DEF KnowingStep
<1>2. CASE ~(Open(Target(i)) /\ ~ApplyRefused(i, n))
  BY <1>2 DEF Apply, KnowingStep
<1> QED
  BY <1>1, <1>2

\* A row is set pending on a refund of its amount, ...
LEMMA SetPendingKnows ==
    ASSUME TypeOK, NEW i \in Attempts, ops[i].status # "none",
           NEW n \in Sources \cup {NoRefund}, Knows(n, i), SetPending(i, n),
           UNCHANGED status
    PROVE  KnowingStep
<1>1. CASE Open(i) /\ MayActivate(i, n)
  <2>1. Reopening(i, n)
    BY <1>1 DEF SetPending, MayActivate, Open, Reopening, TypeOK, RowStatuses
  <2> QED
    BY <2>1 DEF KnowingStep
<1>2. CASE ~(Open(i) /\ MayActivate(i, n))
  BY <1>2 DEF SetPending, KnowingStep
<1> QED
  BY <1>1, <1>2

\* ... or marked failed.
LEMMA MarkFailedKnows ==
    ASSUME TypeOK, NEW i \in Attempts, ops[i].status # "none", MarkFailed(i),
           UNCHANGED status
    PROVE  KnowingStep
<1>1. CASE Open(i)
  <2>1. Failing(i)
    BY <1>1 DEF MarkFailed, Open, Failing, TypeOK, RowStatuses
  <2> QED
    BY <2>1 DEF KnowingStep
<1>2. CASE ~Open(i)
  BY <1>2 DEF MarkFailed, KnowingStep
<1> QED
  BY <1>1, <1>2

\* A refund of the row's amount that succeeded is the row's money.
LEMMA SuccessIsMoney ==
    ASSUME TypeOK, NEW s \in Sources, NEW i \in Attempts,
           stripe[s].status = "succeeded", Knows(s, i)
    PROVE  HasMoney(i)
<1>1. s # NoRefund
  BY LedgerAssumption
<1>2. stripe[s].amount = ops[i].amount
  BY <1>1 DEF Knows, OfAmount
<1>3. Returned({"succeeded"}) >= stripe[s].amount
  BY ReturnedCounts
<1> QED
  BY <1>2, <1>3 DEF HasMoney

\* An event is acted upon when the money of its row is there.
LEMMA EventKnows ==
    ASSUME TypeInv, OneActiveOperation, ~Uneven, TrueNews, NEW w \in Workers,
           EvenWorker(w), ActOnEvent(w)
    PROVE  KnowingStep
<1> DEFINE e == worker[w].event
           i == worker[w].op
<1>0. /\ e \in Events /\ i \in Attempts /\ ops[i].status # "none"
      /\ worker[w].refund \in Sources \cup {NoRefund}
      /\ inbox[e] \in TakenUp /\ inbox[e] # "none" /\ TypeOK
  BY DEF ActOnEvent, TypeInv, TypeOK, Busy, TrueNews, Held, TakenUp
<1>1. CASE Full(e, i) /\ Apply(i, Named(w))
  <2>1. CASE e.says = "succeeded" /\ stripe[e.source].amount = ops[i].amount
    <3>1. e.source \in Sources /\ e.source # NoRefund
      BY <1>0, LedgerAssumption DEF Events
    <3>2. stripe[e.source].status = "succeeded"
      BY <1>0, <2>1 DEF TrueNews, TrueEvents, TrueEvent
    <3>3. Named(w) = e.source
      BY <2>1 DEF Named
    <3>4. Knows(e.source, i)
      BY <2>1, <3>2 DEF Knows, OfAmount
    <3> HIDE DEF e, i
    <3>5. HasMoney(i)
      BY <1>0, <3>1, <3>2, <3>4, SuccessIsMoney
    <3> QED
      BY <1>0, <1>1, <3>1, <3>3, <3>4, <3>5, ApplyKnows
  <2>2. CASE e.says = "charge" /\ ops[i].amount = Paid
    <3>1. Slow \/ Returned({"succeeded"}) >= Paid
      BY <1>0, <2>2 DEF TrueNews, TrueEvents, TrueEvent
    <3>2. HasMoney(i)
      BY <1>0, <2>2, <3>1 DEF HasMoney, ToldOfCharge
    <3>3. Named(w) = worker[w].refund
      BY <2>2 DEF Named
    <3>4. Knows(worker[w].refund, i)
      BY DEF EvenWorker, ActOnEvent
    <3>5. Knows(Named(w), i) /\ Named(w) \in Sources \cup {NoRefund}
      BY <1>0, <3>3, <3>4
    <3> HIDE DEF e, i
    <3> QED
      BY <1>0, <1>1, <3>2, <3>5, ApplyKnows
  <2> QED
    BY <1>1, <2>1, <2>2 DEF Full
<1>2. CASE MarkFailed(i) /\ UNCHANGED status
  <2> HIDE DEF i
  <2> QED
    BY <1>0, <1>2, MarkFailedKnows
<1>3. CASE UNCHANGED ops
  BY <1>3 DEF KnowingStep
<1>4. \/ Full(e, i) /\ Apply(i, Named(w))
      \/ MarkFailed(i) /\ UNCHANGED status
      \/ UNCHANGED ops
  BY DEF ActOnEvent
<1> QED
  BY <1>1, <1>2, <1>3, <1>4

\* So is an answer of Stripe.
LEMMA AnswerKnows ==
    ASSUME TypeOK, OneActiveOperation, ~Uneven, NEW i \in Attempts,
           ops[i].status # "none", NEW n \in Sources, Knows(n, i), NEW says,
           says = "succeeded" => stripe[n].status = "succeeded",
           \/ says = "succeeded" /\ Apply(i, n)
           \/ MarkFailed(i) /\ UNCHANGED status
           \/ SetPending(i, n) /\ UNCHANGED status
    PROVE  KnowingStep
<1>1. CASE says = "succeeded" /\ Apply(i, n)
  BY <1>1, SuccessIsMoney, ApplyKnows
<1>2. CASE MarkFailed(i) /\ UNCHANGED status
  BY <1>2, MarkFailedKnows
<1>3. CASE SetPending(i, n) /\ UNCHANGED status
  BY <1>3, SetPendingKnows
<1> QED
  BY <1>1, <1>2, <1>3

\* While the attempts are for one amount, everybody knows what he writes.
LEMMA StepKnows ==
    ASSUME TypeInv, OneActiveOperation, ~Uneven, TrueNews, Even, Next
    PROVE  KnowingStep
<1>0. TypeOK /\ Busy
  BY DEF TypeInv
<1>1. ASSUME NEW a \in Admins, AdminStep(a)
      PROVE  KnowingStep
  <2>1. CASE UNCHANGED ops
    BY <2>1 DEF KnowingStep
  <2>2. CASE ReserveNew(a) \/ NextAttempt(a)
    <3>1. admin[a].amount \in 0..Paid
      BY <1>0 DEF TypeOK
    <3>2. \/ UNCHANGED ops
          \/ \E i \in Attempts : Opening(i, admin[a].amount)
      BY <2>2 DEF ReserveNew, NextAttempt, Opening, MayInsert, Unused, Rows
    <3> QED
      BY <3>1, <3>2 DEF KnowingStep
  <2>3. CASE Declined(a)
    BY <1>0, <2>3, MarkFailedKnows DEF Declined, Busy
  <2>4. CASE Finish(a) \/ Retrieved(a)
    <3>1. admin[a].pc \in {"answered", "retrieved"}
      BY <2>4 DEF Finish, Retrieved
    <3>2. /\ admin[a].refund \in Sources
          /\ admin[a].answer = "succeeded" => stripe[admin[a].refund].status = "succeeded"
      BY <3>1 DEF TrueNews, TrueAnswers, ToldAdmin
    <3>3. admin[a].op \in Attempts /\ ops[admin[a].op].status # "none"
      BY <1>0, <3>1 DEF Busy
    <3>4. Knows(admin[a].refund, admin[a].op)
      BY <3>1 DEF Even, EvenAdmin
    <3>5. \/ admin[a].answer = "succeeded" /\ Apply(admin[a].op, admin[a].refund)
          \/ MarkFailed(admin[a].op) /\ UNCHANGED status
          \/ SetPending(admin[a].op, admin[a].refund) /\ UNCHANGED status
      BY <2>4 DEF Finish, Retrieved
    <3>6. PICK i, n, says : i = admin[a].op /\ n = admin[a].refund /\ says = admin[a].answer
      OBVIOUS
    <3> QED
      BY <1>0, <3>2, <3>3, <3>4, <3>5, <3>6, AnswerKnows
  <2>5. \/ UNCHANGED ops \/ ReserveNew(a) \/ NextAttempt(a) \/ Declined(a)
        \/ Finish(a) \/ Retrieved(a)
    BY <1>1 DEF AdminStep, Resolve, ReserveActive, ReserveFailed,
         ReserveRefused, CreateAtStripe, CreateRefused, Retrieve
  <2> QED
    BY <2>1, <2>2, <2>3, <2>4, <2>5
<1>2. ASSUME NEW w \in Workers, WorkerStep(w)
      PROVE  KnowingStep
  <2>1. CASE UNCHANGED ops
    BY <2>1 DEF KnowingStep
  <2>2. CASE ActOnEvent(w)
    BY <2>2, EventKnows DEF Even
  <2>3. CASE ActOnRow(w)
    <3>1. /\ worker[w].refund \in Sources
          /\ worker[w].answer = "succeeded" => stripe[worker[w].refund].status = "succeeded"
      BY <2>3 DEF ActOnRow, TrueNews, TrueAnswers, ToldWorker
    <3>2. worker[w].op \in Attempts /\ ops[worker[w].op].status # "none"
      BY <1>0, <2>3 DEF ActOnRow, Busy
    <3>3. Knows(worker[w].refund, worker[w].op)
      BY <2>3 DEF ActOnRow, Even, EvenWorker
    <3>4. \/ worker[w].answer = "succeeded" /\ Apply(worker[w].op, worker[w].refund)
          \/ MarkFailed(worker[w].op) /\ UNCHANGED status
          \/ SetPending(worker[w].op, worker[w].refund) /\ UNCHANGED status
      BY <2>3 DEF ActOnRow
    <3>5. PICK i, n, says : i = worker[w].op /\ n = worker[w].refund /\ says = worker[w].answer
      OBVIOUS
    <3> QED
      BY <1>0, <3>1, <3>2, <3>3, <3>4, <3>5, AnswerKnows
  <2>4. UNCHANGED ops \/ ActOnEvent(w) \/ ActOnRow(w)
    BY <1>2 DEF WorkerStep, Receive, LookAt
  <2> QED
    BY <2>1, <2>2, <2>3, <2>4
<1>3. CASE UNCHANGED ops
  BY <1>3 DEF KnowingStep
<1> QED
  BY <1>1, <1>2, <1>3 DEF Next, OwnStep, StripeSettles, DashboardRefund, StaffMoves

\* Such a step keeps the rows and what they know together.
LEMMA RowsEvenStep ==
    ASSUME TypeInv, stripe' \in [Sources -> StripeType],
           Returned({"succeeded"})' \in Nat,
           RowStep, MoneyStep, RowsEven, KnowingStep
    PROVE  RowsEven'
<1>0. TypeOK /\ ops \in [Attempts -> RowType] /\ StripeKept
  BY MoneyKept DEF TypeInv, TypeOK, RowType
<1>1. ASSUME NEW i \in Attempts, ops[i].status # "none",
             NEW n \in Sources \cup {NoRefund}, Knows(n, i)
      PROVE  Knows(n, i)'
  BY <1>0, <1>1, KnowsKept
<1>2. ASSUME NEW i \in Attempts, ops[i].status # "none", HasMoney(i)
      PROVE  HasMoney(i)'
  BY <1>0, <1>2, HasMoneyKept
<1>3. ASSUME NEW i \in Attempts, ops'[i].refund = ops[i].refund
      PROVE  Knows(ops[i].refund, i)'
  <2>1. PICK n : n = ops[i].refund
    OBVIOUS
  <2>2. n \in Sources \cup {NoRefund} /\ Knows(n, i)
    BY <1>0, <2>1 DEF RowsEven, RowType
  <2>3. Knows(n, i)'
    <3>1. CASE ops[i].status = "none"
      BY <2>1, <3>1 DEF TypeInv, Blank, Knows
    <3>2. CASE ops[i].status # "none"
      BY <1>1, <2>2, <3>2
    <3> QED
      BY <3>1, <3>2
  <2> QED
    BY <1>3, <2>1, <2>3 DEF Knows, OfAmount
<1>4. ASSUME NEW i \in Attempts, ops[i].status = "succeeded"
      PROVE  HasMoney(i)'
  BY <1>2, <1>4 DEF RowsEven
<1>5. CASE UNCHANGED ops
  BY <1>3, <1>4, <1>5 DEF RowsEven
<1>6. ASSUME NEW i \in Attempts, ops[i].status # "none",
             \A j \in Attempts \ {i} : ops'[j] = ops[j],
             Knows(ops[i].refund, i)',
             ops'[i].status = "succeeded" => HasMoney(i)'
      PROVE  RowsEven'
  BY <1>3, <1>4, <1>6 DEF RowsEven
<1>7. ASSUME NEW i \in Attempts, Failing(i)
      PROVE  RowsEven'
  <2>1. /\ ops'[i].refund = ops[i].refund /\ ops'[i].status # "succeeded"
        /\ ops[i].status # "none"
        /\ \A j \in Attempts \ {i} : ops'[j] = ops[j]
    BY <1>0, <1>7 DEF Failing, RowType
  <2> QED
    BY <1>3, <1>6, <2>1
<1>8. ASSUME NEW i \in Attempts, NEW n \in Sources \cup {NoRefund}, Knows(n, i),
             Reopening(i, n)
      PROVE  RowsEven'
  <2>1. /\ ops'[i].refund = n /\ ops'[i].status # "succeeded"
        /\ ops[i].status # "none"
        /\ \A j \in Attempts \ {i} : ops'[j] = ops[j]
    BY <1>0, <1>8 DEF Reopening, RowType
  <2>2. Knows(n, i)'
    BY <1>1, <1>8, <2>1
  <2>3. Knows(ops[i].refund, i)'
    BY <2>1, <2>2 DEF Knows, OfAmount
  <2> QED
    BY <1>6, <2>1, <2>3
<1>9. ASSUME NEW i \in Attempts, NEW n \in Sources \cup {NoRefund}, Knows(n, i),
             HasMoney(i), Succeeding(i, n)
      PROVE  RowsEven'
  <2>1. /\ ops'[i].refund = IF n = NoRefund THEN ops[i].refund ELSE n
        /\ ops[i].status # "none"
        /\ \A j \in Attempts \ {i} : ops'[j] = ops[j]
    BY <1>0, <1>9 DEF Succeeding, Applied, RowType
  <2>2. HasMoney(i)'
    BY <1>2, <1>9, <2>1
  <2>3. Knows(ops[i].refund, i)'
    <3>1. CASE n = NoRefund
      BY <1>3, <2>1, <3>1
    <3>2. CASE n # NoRefund
      <4>1. Knows(n, i)'
        BY <1>1, <1>9, <2>1
      <4> QED
        BY <2>1, <3>2, <4>1 DEF Knows, OfAmount
    <3> QED
      BY <3>1, <3>2
  <2> QED
    BY <1>6, <2>1, <2>2, <2>3
<1>10. ASSUME NEW i \in Attempts, NEW amount \in 0..Paid, Opening(i, amount)
       PROVE  RowsEven'
  <2>1. /\ ops'[i].refund = NoRefund /\ ops'[i].status # "succeeded"
        /\ \A j \in Attempts \ {i} : ops'[j] = ops[j]
    BY <1>0, <1>10 DEF Opening, Insert, RowType
  <2>2. Knows(ops[i].refund, i)'
    BY <2>1 DEF Knows
  <2> QED
    BY <1>3, <1>4, <2>1, <2>2 DEF RowsEven
<1> QED
  BY <1>5, <1>7, <1>8, <1>9, <1>10 DEF KnowingStep

\* A key's refund is of the amount of the key's row.
LEMMA KeysEvenStep ==
    ASSUME TypeInv, RowStep, MoneyStep, Even
    PROVE  KeysEven'
<1>0. TypeOK /\ StripeKept
  BY MoneyKept DEF TypeInv
<1>1. ASSUME NEW s \in Attempts, ops[s].status # "none", stripe'[s].status # "none",
             stripe'[s].amount = ops[s].amount
      PROVE  ops'[s].status # "none" /\ OfAmount(s, s)'
  BY <1>0, <1>1, AmountsKept DEF OfAmount
<1>2. ASSUME NEW s \in Attempts, stripe[s].status # "none"
      PROVE  ops'[s].status # "none" /\ OfAmount(s, s)'
  <2>1. /\ ops[s].status # "none" /\ stripe[s].amount = ops[s].amount
        /\ stripe'[s].status # "none" /\ stripe'[s].amount = stripe[s].amount
    BY <1>0, <1>2, AttemptsAreSources DEF Even, KeysEven, OfAmount, StripeKept
  <2> QED
    BY <1>1, <2>1
<1>3. ASSUME NEW s \in Attempts, stripe[s].status = "none", stripe'[s].status # "none"
      PROVE  ops'[s].status # "none" /\ OfAmount(s, s)'
  <2>0. PICK t \in Sources : \E amount, now, first :
            /\ Record(t, amount, now, first)
            /\ \/ Made(t, amount, now)
               \/ stripe[t].status = "pending"
    BY <1>3, AttemptsAreSources DEF MoneyStep, Made, Ended
  <2>1. PICK amount, now, first :
            /\ Record(t, amount, now, first)
            /\ \/ Made(t, amount, now)
               \/ stripe[t].status = "pending"
    BY <2>0
  <2>2. /\ stripe'[t] = [status |-> now, amount |-> amount, first |-> first]
        /\ \A u \in Sources \ {t} : stripe'[u] = stripe[u]
    <3>1. stripe'[t] = [status |-> now, amount |-> amount, first |-> first]
      BY <1>0, <2>1, RecordWrites
    <3>2. \A u \in Sources \ {t} : stripe'[u] = stripe[u]
      BY <1>0, <2>1, RecordWrites, Zenon
    <3> QED
      BY <3>1, <3>2
  <2>3. t = s
    BY <1>3, <2>2, AttemptsAreSources
  <2>4. s # 0
    BY LedgerAssumption DEF Attempts
  <2>5. PICK a \in Admins : /\ admin[a].pc = "drive" /\ s = admin[a].op
                            /\ amount = admin[a].amount
    BY <1>3, <2>1, <2>3, <2>4 DEF Made
  <2>6. ops[s].status # "none" /\ amount = ops[s].amount
    BY <2>5 DEF TypeInv, Busy, Even, EvenAdmin
  <2> QED
    BY <1>1, <1>3, <2>2, <2>3, <2>6
<1> QED
  BY <1>2, <1>3 DEF KeysEven

\* A request goes on with its row's amount.
LEMMA AdminEven ==
    ASSUME TypeInv, TypeOK', ~Uneven, Even, RowStep, StripeKept, NEW a \in Admins,
           AdminMove(a)
    PROVE  \A b \in Admins : EvenAdmin(b)'
<1> USE AttemptsAreSources
<1>0. /\ TypeOK /\ admin \in [Admins -> AdminType] /\ ops \in [Attempts -> RowType]
      /\ stripe \in [Sources -> StripeType]
  BY DEF TypeInv, TypeOK, AdminType, RowType, StripeType
<1>1. ASSUME NEW b \in Admins, admin[b].pc \notin {"idle", "resolved"},
             NEW i, NEW n, i = admin[b].op, n = admin[b].refund
      PROVE  /\ i \in Attempts /\ ops[i].status # "none"
             /\ ops[i].amount = admin[b].amount
             /\ ops'[i].amount = admin[b].amount
             /\ n \in Sources \cup {NoRefund} /\ Knows(n, i)'
  <2>1. i \in Attempts /\ ops[i].status # "none"
    BY <1>0, <1>1 DEF TypeInv, Busy, AdminType
  <2>2. Knows(n, i) /\ admin[b].amount = ops[i].amount
    BY <1>1 DEF Even, EvenAdmin
  <2>3. n \in Sources \cup {NoRefund}
    BY <1>0, <1>1 DEF AdminType
  <2>4. Knows(n, i)'
    BY <1>0, <2>1, <2>2, <2>3, KnowsKept
  <2>5. ops'[i].amount = ops[i].amount
    BY <1>0, <2>1, AmountsKept
  <2> QED
    BY <2>1, <2>2, <2>3, <2>4, <2>5
<1>2. ASSUME NEW b \in Admins, admin'[b] = admin[b]
      PROVE  EvenAdmin(b)'
  <2>1. PICK i, n : i = admin[b].op /\ n = admin[b].refund
    OBVIOUS
  <2>2. admin'[b].pc \notin {"idle", "resolved"} =>
            ops'[i].amount = admin[b].amount /\ Knows(n, i)'
    BY <1>1, <1>2, <2>1
  <2> QED
    BY <1>2, <2>1, <2>2 DEF EvenAdmin, Knows, OfAmount
<1>3. ASSUME NEW r, admin' = [admin EXCEPT ![a] = r],
             NEW i, NEW n, i = r.op, n = r.refund,
             r.pc \notin {"idle", "resolved"} =>
                 r.amount = ops'[i].amount /\ Knows(n, i)'
      PROVE  \A b \in Admins : EvenAdmin(b)'
  <2>1. admin'[a] = r /\ \A b \in Admins \ {a} : admin'[b] = admin[b]
    BY <1>0, <1>3
  <2>2. EvenAdmin(a)'
    BY <1>3, <2>1 DEF EvenAdmin, Knows, OfAmount
  <2> QED
    BY <1>2, <2>1, <2>2
<1>4. CASE Leave(a)
  <2>1. Idle.pc = "idle" /\ admin' = [admin EXCEPT ![a] = Idle]
    BY <1>4 DEF Leave, Idle
  <2>2. PICK i, n : i = Idle.op /\ n = Idle.refund
    OBVIOUS
  <2> QED
    BY <1>3, <2>1, <2>2
<1>5. ASSUME NEW amount \in 0..Paid,
             admin' = [admin EXCEPT ![a] = [Idle EXCEPT !.pc = "resolved",
                                                        !.amount = amount]]
      PROVE  \A b \in Admins : EvenAdmin(b)'
  <2>1. [Idle EXCEPT !.pc = "resolved", !.amount = amount].pc = "resolved"
    BY DEF Idle
  <2> QED
    BY <1>3, <1>5, <2>1
<1>6. ASSUME NEW i \in Attempts, NEW known \in Sources \cup {NoRefund},
             NEW amount \in 0..Paid, Driven(a, i, known, amount)
      PROVE  \A b \in Admins : EvenAdmin(b)'
  <2>1. PICK r : r = [Idle EXCEPT !.pc = "drive", !.op = i, !.refund = known,
                                  !.amount = amount]
    OBVIOUS
  <2>2. r.op = i /\ r.refund = known /\ r.amount = amount
    BY <2>1 DEF Idle
  <2>3. admin' = [admin EXCEPT ![a] = r]
    BY <1>6, <2>1, Zenon DEF Driven, Drive
  <2>4. amount = ops'[i].amount
    <3>1. CASE amount = ops'[i].amount
      BY <3>1
    <3>2. CASE admin[a].pc = "next" /\ amount = admin[a].amount /\ ops' = ops
      <4>1. /\ ops[i].status \in RowStatuses
            /\ admin[a].op \in Attempts /\ ops[admin[a].op].status \in RowStatuses
        BY <1>0, <1>6, <3>2 DEF Driven, TypeInv, Busy, RowType
      <4>2. amount = ops[admin[a].op].amount
        BY <3>2 DEF Even, EvenAdmin
      <4> QED
        BY <3>2, <4>1, <4>2 DEF Uneven, Rows
    <3> QED
      BY <1>6, <3>1, <3>2 DEF Driven
  <2>5. Knows(known, i)'
    <3>1. CASE known = NoRefund
      BY <3>1 DEF Knows
    <3>2. CASE known # NoRefund /\ known = ops[i].refund /\ ops' = ops
      <4>1. Knows(known, i) /\ ops[i].status # "none"
        BY <1>6, <3>2 DEF Even, RowsEven, Driven
      <4> QED
        BY <1>0, <4>1, KnowsKept
    <3> QED
      BY <1>6, <3>1, <3>2 DEF Driven
  <2> QED
    BY <1>3, <2>2, <2>3, <2>4, <2>5
<1>7. ASSUME admin[a].pc \notin {"idle", "resolved"}, NEW r,
             admin' = [admin EXCEPT ![a] = r],
             r.op = admin[a].op, r.amount = admin[a].amount, r.refund = admin[a].refund
      PROVE  \A b \in Admins : EvenAdmin(b)'
  <2>1. PICK i, n : i = admin[a].op /\ n = admin[a].refund
    OBVIOUS
  <2>2. ops'[i].amount = admin[a].amount /\ Knows(n, i)'
    BY <1>1, <1>7, <2>1
  <2> QED
    BY <1>3, <1>7, <2>1, <2>2
<1>8. ASSUME NEW pc \in {"declined", "next"}, admin' = [admin EXCEPT ![a].pc = pc],
             admin[a].pc \in {"drive", "retrieved"}
      PROVE  \A b \in Admins : EvenAdmin(b)'
  <2>1. PICK r : r = [admin[a] EXCEPT !.pc = pc]
    OBVIOUS
  <2>2. /\ r.op = admin[a].op /\ r.amount = admin[a].amount
        /\ r.refund = admin[a].refund
    BY <1>0, <2>1 DEF AdminType
  <2>3. admin' = [admin EXCEPT ![a] = r]
    BY <1>8, <2>1, Zenon
  <2> QED
    BY <1>7, <1>8, <2>2, <2>3
<1>9. CASE Retrieve(a)
  <2>1. CASE Leave(a)
    BY <1>4, <2>1
  <2>2. CASE admin' = [admin EXCEPT ![a].pc = "retrieved",
                                    ![a].answer = stripe[admin[a].refund].status]
    <3>1. PICK r : r = [admin[a] EXCEPT !.pc = "retrieved",
                                        !.answer = stripe[admin[a].refund].status]
      OBVIOUS
    <3>2. /\ r.op = admin[a].op /\ r.amount = admin[a].amount
          /\ r.refund = admin[a].refund
      BY <1>0, <3>1 DEF AdminType
    <3>3. admin' = [admin EXCEPT ![a] = r]
      BY <2>2, <3>1, Zenon
    <3>4. admin[a].pc = "drive"
      BY <1>9 DEF Retrieve
    <3> QED
      BY <1>7, <3>2, <3>3, <3>4
  <2> QED
    BY <1>9, <2>1, <2>2 DEF Retrieve
<1>10. CASE CreateAtStripe(a)
  <2>0. /\ admin[a].pc = "drive" /\ admin[a].op \in Attempts
    BY <1>10 DEF CreateAtStripe, TypeInv, Busy
  <2>1. CASE Leave(a)
    BY <1>4, <2>1
  <2>2. ASSUME NEW says, Answered(a, says)
        PROVE  \A b \in Admins : EvenAdmin(b)'
    <3>1. PICK r : r = [admin[a] EXCEPT !.pc = "answered", !.refund = admin[a].op,
                                        !.answer = says]
      OBVIOUS
    <3>2. /\ r.op = admin[a].op /\ r.amount = admin[a].amount
          /\ r.refund = admin[a].op
      BY <1>0, <3>1 DEF AdminType
    <3>3. admin' = [admin EXCEPT ![a] = r]
      BY <2>2, <3>1, Zenon DEF Answered
    <3>4. PICK i, n : i = admin[a].op /\ n = admin[a].refund
      OBVIOUS
    <3>5. ops'[i].amount = admin[a].amount
      BY <1>1, <2>0, <3>4
    <3>6. stripe'[i].status # "none" /\ stripe'[i].amount = admin[a].amount
      <4>1. CASE \E now \in RowStatuses : Record(admin[a].op, admin[a].amount, now, now)
        <5>1. PICK now \in RowStatuses : Record(admin[a].op, admin[a].amount, now, now)
          BY <4>1
        <5>2. stripe'[i] = [status |-> now, amount |-> admin[a].amount, first |-> now]
          BY <1>0, <2>0, <3>4, <5>1 DEF Record
        <5> QED
          BY <5>2 DEF RowStatuses
      <4>2. CASE /\ stripe[admin[a].op].status # "none"
                 /\ admin[a].amount = stripe[admin[a].op].amount
                 /\ UNCHANGED stripe
        BY <3>4, <4>2
      <4> QED
        BY <1>10, <4>1, <4>2 DEF CreateAtStripe
    <3>7. Knows(i, i)'
      BY <3>5, <3>6 DEF Knows, OfAmount
    <3> QED
      BY <1>3, <3>2, <3>3, <3>4, <3>5, <3>7
  <2> QED
    BY <1>10, <2>1, <2>2 DEF CreateAtStripe
<1> QED
  BY <1>4, <1>5, <1>6, <1>8, <1>9, <1>10 DEF AdminMove

\* What nobody touches goes on with its row's amount.
LEMMA SameEven ==
    ASSUME TypeInv, Even, RowStep, StripeKept
    PROVE  /\ UNCHANGED admin => \A b \in Admins : EvenAdmin(b)'
           /\ UNCHANGED worker => \A v \in Workers : EvenWorker(v)'
<1>0. /\ TypeOK /\ admin \in [Admins -> AdminType]
      /\ worker \in [Workers -> WorkerType]
  BY DEF TypeInv, TypeOK, AdminType, WorkerType
<1>1. ASSUME NEW i \in Attempts, ops[i].status # "none",
             NEW n \in Sources \cup {NoRefund}, Knows(n, i)
      PROVE  Knows(n, i)' /\ ops'[i].amount = ops[i].amount
  BY <1>0, <1>1, KnowsKept, AmountsKept
<1>2. ASSUME UNCHANGED admin, NEW b \in Admins, admin[b].pc \notin {"idle", "resolved"}
      PROVE  EvenAdmin(b)'
  <2>1. PICK i, n : i = admin[b].op /\ n = admin[b].refund
    OBVIOUS
  <2>2. i \in Attempts /\ ops[i].status # "none" /\ n \in Sources \cup {NoRefund}
    BY <1>0, <1>2, <2>1 DEF TypeInv, Busy, AdminType
  <2>3. Knows(n, i) /\ admin[b].amount = ops[i].amount
    BY <1>2, <2>1 DEF Even, EvenAdmin
  <2>4. Knows(n, i)' /\ ops'[i].amount = ops[i].amount
    BY <1>1, <2>2, <2>3
  <2> QED
    BY <1>2, <2>1, <2>3, <2>4 DEF EvenAdmin, Knows, OfAmount
<1>3. ASSUME UNCHANGED worker, NEW v \in Workers, worker[v].pc # "idle"
      PROVE  EvenWorker(v)'
  <2>1. PICK i, n : i = worker[v].op /\ n = worker[v].refund
    OBVIOUS
  <2>2. i \in Attempts /\ ops[i].status # "none" /\ n \in Sources \cup {NoRefund}
    BY <1>0, <1>3, <2>1 DEF TypeInv, Busy, WorkerType
  <2>3. Knows(n, i)
    BY <1>3, <2>1 DEF Even, EvenWorker
  <2>4. Knows(n, i)'
    BY <1>1, <2>2, <2>3
  <2> QED
    BY <1>3, <2>1, <2>4 DEF EvenWorker, Knows, OfAmount
<1> QED
  BY <1>2, <1>3 DEF EvenAdmin, EvenWorker

\* A worker holds the refund of the row it holds.
LEMMA WorkerEven ==
    ASSUME TypeInv, ~Uneven, Even, RowStep, StripeKept, NEW w \in Workers,
           WorkerStep(w)
    PROVE  \A v \in Workers : EvenWorker(v)'
<1>0. /\ TypeOK /\ worker \in [Workers -> WorkerType] /\ ops \in [Attempts -> RowType]
  BY DEF TypeInv, TypeOK, WorkerType, RowType
<1>1. ASSUME NEW v \in Workers, worker'[v] = worker[v]
      PROVE  EvenWorker(v)'
  <2>1. PICK i, n : i = worker[v].op /\ n = worker[v].refund
    OBVIOUS
  <2>2. worker[v].pc # "idle" => Knows(n, i)'
    <3>1. SUFFICES ASSUME worker[v].pc # "idle" PROVE Knows(n, i)'
      OBVIOUS
    <3>2. i \in Attempts /\ ops[i].status # "none" /\ Knows(n, i)
      BY <2>1, <3>1 DEF TypeInv, Busy, Even, EvenWorker
    <3>3. n \in Sources \cup {NoRefund}
      BY <1>0, <2>1 DEF WorkerType
    <3> QED
      BY <1>0, <3>2, <3>3, KnowsKept
  <2> QED
    BY <1>1, <2>1, <2>2 DEF EvenWorker, Knows, OfAmount
<1>2. CASE UNCHANGED worker
  BY <1>1, <1>2
<1>3. ASSUME NEW i \in Attempts, ops[i].status # "none", NEW r, r.op = i,
             r.refund = ops[i].refund, worker' = [worker EXCEPT ![w] = r]
      PROVE  \A v \in Workers : EvenWorker(v)'
  <2>1. worker'[w] = r /\ \A v \in Workers \ {w} : worker'[v] = worker[v]
    BY <1>0, <1>3
  <2>2. PICK n : n = ops[i].refund
    OBVIOUS
  <2>3. n \in Sources \cup {NoRefund} /\ Knows(n, i)
    BY <1>0, <2>2 DEF RowType, Even, RowsEven
  <2>4. Knows(n, i)'
    BY <1>0, <1>3, <2>3, KnowsKept
  <2>5. EvenWorker(w)'
    BY <1>3, <2>1, <2>2, <2>4 DEF EvenWorker, Knows, OfAmount
  <2> QED
    BY <1>1, <2>1, <2>5
<1>4. CASE ActOnEvent(w) \/ ActOnRow(w)
  <2>1. worker' = [worker EXCEPT ![w] = IdleWorker]
    BY <1>4 DEF ActOnEvent, ActOnRow
  <2>2. worker'[w].pc = "idle" /\ \A v \in Workers \ {w} : worker'[v] = worker[v]
    BY <1>0, <2>1 DEF IdleWorker
  <2> QED
    BY <1>1, <2>2 DEF EvenWorker
<1>5. ASSUME NEW e \in Events, Receive(w, e), ~UNCHANGED worker
      PROVE  \A v \in Workers : EvenWorker(v)'
  <2>1. PICK i \in Match(e) :
            worker' = [worker EXCEPT ![w] =
                         [pc |-> "event", event |-> e, op |-> i,
                          refund |-> ops[i].refund, answer |-> "none"]]
    BY <1>5 DEF Receive
  <2>2. i \in Attempts
    BY DEF Match, Active, Latest, Rows
  <2>3. ops[i].status # "none"
    <3>1. CASE i \in Active \/ i \in Latest
      BY <3>1 DEF Active, Latest, Rows, RowStatuses
    <3>2. CASE ops[i].refund = e.source
      <4>1. e.source # NoRefund
        BY LedgerAssumption DEF Events
      <4> QED
        BY <2>2, <3>2, <4>1 DEF TypeInv, Blank
    <3> QED
      BY <2>1, <3>1, <3>2 DEF Match
  <2>4. PICK r : r = [pc |-> "event", event |-> e, op |-> i,
                      refund |-> ops[i].refund, answer |-> "none"]
    OBVIOUS
  <2>5. worker' = [worker EXCEPT ![w] = r] /\ r.op = i /\ r.refund = ops[i].refund
    BY <2>1, <2>4
  <2> QED
    BY <1>3, <2>2, <2>3, <2>5
<1>6. ASSUME NEW i \in Attempts, LookAt(w, i)
      PROVE  \A v \in Workers : EvenWorker(v)'
  <2>1. PICK r : r = [pc |-> "row", event |-> NoEvent, op |-> i,
                      refund |-> ops[i].refund,
                      answer |-> stripe[ops[i].refund].status]
    OBVIOUS
  <2>2. worker' = [worker EXCEPT ![w] = r] /\ ops[i].status # "none"
        /\ r.op = i /\ r.refund = ops[i].refund
    BY <1>6, <2>1 DEF LookAt
  <2> QED
    BY <1>3, <2>2
<1> QED
  BY <1>2, <1>4, <1>5, <1>6 DEF WorkerStep

-----------------------------------------------------------------------------
(* Success is real *)

\* The inductive invariant: what the actors were told is true, and unless the
\* attempts are for different amounts, everybody knows refunds of his row's.
RealInv == LedgerInv /\ TrueNews /\ (Uneven \/ Even)

\* Nobody was told anything about the empty ledger.
LEMMA RealInit == ASSUME Init PROVE RealInv
<1> USE DEF Init, NoRow, Idle, IdleWorker
<1>1. TrueNews
  BY AttemptsAreSources, LedgerAssumption
     DEF TrueNews, FirstNews, TrueAnswers, ToldAdmin, ToldWorker, TrueEvents,
         TrueEvent, Held, Events
<1>2. Even
  BY AttemptsAreSources DEF Even, RowsEven, KeysEven, EvenAdmin, EvenWorker, Knows
<1> QED
  BY <1>1, <1>2, LedgerInit DEF RealInv

\* Every step of the ledger keeps it.
LEMMA RealStep ==
    ASSUME RealInv, Next
    PROVE  RealInv'
<1>0. /\ TypeInv /\ TypeOK /\ Busy /\ OneActiveOperation /\ TrueNews
  BY DEF RealInv, LedgerInv, TypeInv
<1>1. LedgerInv' /\ TypeOK' /\ stripe' \in [Sources -> StripeType]
  <2>1. LedgerInv'
    BY LedgerStep DEF RealInv
  <2> QED
    BY <2>1 DEF LedgerInv, TypeInv, TypeOK, StripeType
<1>2. RowStep /\ MoneyStep
  BY <1>0, StepRows, StepMoney DEF TrueNews
<1>3. StripeKept
  BY <1>0, <1>2, MoneyKept
<1>4. TrueNews'
  BY <1>0, <1>1, NewsStep
<1>5. Uneven => Uneven'
  BY <1>0, <1>1, <1>2, UnevenLasts
<1>6. ASSUME ~Uneven
      PROVE  Even'
  <2>0. Even
    BY <1>6 DEF RealInv
  <2>1. RowsEven'
    <3>1. Returned({"succeeded"})' \in Nat
      BY <1>1, ReturnedNext
    <3>2. KnowingStep
      BY <1>0, <1>6, <2>0, StepKnows
    <3> QED
      BY <1>0, <1>1, <1>2, <1>3, <2>0, <3>1, <3>2, RowsEvenStep DEF Even
  <2>2. KeysEven'
    BY <1>0, <1>2, <2>0, KeysEvenStep
  <2>3. UNCHANGED admin => \A b \in Admins : EvenAdmin(b)'
    BY <1>0, <1>2, <1>3, <2>0, SameEven
  <2>4. UNCHANGED worker => \A v \in Workers : EvenWorker(v)'
    BY <1>0, <1>2, <1>3, <2>0, SameEven
  <2>5. ASSUME NEW a \in Admins, AdminStep(a)
        PROVE  (\A b \in Admins : EvenAdmin(b)') /\ UNCHANGED worker
    <3>1. \A b \in Admins : EvenAdmin(b)'
      BY <1>0, <1>1, <1>2, <1>3, <1>6, <2>0, <2>5, AdminMoves, AdminEven
    <3>2. UNCHANGED worker
      BY <2>5 DEF AdminStep, Resolve, ReserveActive, ReserveFailed,
         ReserveNew, ReserveRefused, CreateAtStripe, CreateRefused, Declined,
         Finish, Retrieve, Retrieved, NextAttempt
    <3> QED
      BY <3>1, <3>2
  <2>6. ASSUME NEW w \in Workers, WorkerStep(w)
        PROVE  (\A v \in Workers : EvenWorker(v)') /\ UNCHANGED admin
    <3>1. \A v \in Workers : EvenWorker(v)'
      BY <1>0, <1>2, <1>3, <1>6, <2>0, <2>6, WorkerEven
    <3>2. UNCHANGED admin
      BY <2>6 DEF WorkerStep, Receive, ActOnEvent, LookAt, ActOnRow
    <3> QED
      BY <3>1, <3>2
  <2>7. (\A b \in Admins : EvenAdmin(b)') /\ (\A v \in Workers : EvenWorker(v)')
    BY <2>3, <2>4, <2>5, <2>6 DEF Next, OwnStep, StripeSettles, DashboardRefund, StaffMoves
  <2> QED
    BY <2>1, <2>2, <2>7 DEF Even
<1> QED
  BY <1>1, <1>4, <1>5, <1>6 DEF RealInv

\* A row says succeeded only when Stripe has given back at least its amount,
\* or said charge.refunded of the whole payment while it counted a refund on
\* its way: for any number of administrators, workers and attempts, whatever is
\* refunded in the dashboard, unless that made the attempts' amounts differ.
THEOREM SuccessHasMoney == Spec => []SuccessIsReal
<1>1. RealInv /\ [Next]_vars => RealInv'
  <2>1. ASSUME RealInv, UNCHANGED vars PROVE RealInv'
    <3> USE DEF vars
    <3>1. LedgerInv'
      BY <2>1, LedgerStep DEF RealInv
    <3>2. Returned({"succeeded"})' = Returned({"succeeded"})
      <4>1. Returned({"succeeded"})' = Total(stripe', SucceededIn(stripe'))
        BY ReturnedIsTotalNext
      <4>2. stripe' = stripe
        BY <2>1
      <4> QED
        BY <4>1, <4>2, ReturnedIsTotal
    <3>3. TrueNews'
      BY <2>1, <3>2 DEF RealInv, TrueNews, FirstNews, TrueAnswers, ToldAdmin,
           ToldWorker, TrueEvents, TrueEvent, Slow, Held
    <3>4. Uneven' <=> Uneven
      BY <2>1 DEF Uneven, Rows
    <3>5. ASSUME Even PROVE Even'
      <4>1. RowsEven'
        BY <2>1, <3>2, <3>5 DEF Even, RowsEven, Knows, OfAmount, HasMoney,
             ToldOfCharge, Slow
      <4>2. KeysEven'
        BY <2>1, <3>5 DEF Even, KeysEven, OfAmount
      <4>3. /\ \A a \in Admins : EvenAdmin(a)'
            /\ \A w \in Workers : EvenWorker(w)'
        BY <2>1, <3>5 DEF Even, EvenAdmin, EvenWorker, Knows, OfAmount
      <4> QED
        BY <4>1, <4>2, <4>3 DEF Even
    <3> QED
      BY <2>1, <3>1, <3>3, <3>4, <3>5 DEF RealInv
  <2> QED
    BY <2>1, RealStep
<1>2. RealInv => SuccessIsReal
  <2> SUFFICES ASSUME RealInv, NEW i \in Rows({"succeeded"}),
                      ~(\E j \in Rows(RowStatuses) : ops[j].amount # ops[i].amount)
               PROVE  \/ Returned({"succeeded"}) >= ops[i].amount
                      \/ ops[i].amount = Paid /\ PendingCounted
    BY DEF SuccessIsReal
  <2>1. ~Uneven
    BY DEF Uneven
  <2> QED
    BY <2>1 DEF RealInv, Even, RowsEven, HasMoney, Rows, ToldOfCharge, TakenUp,
                Slow, PendingCounted
<1>3. Spec => []RealInv
  BY <1>1, RealInit, PTL DEF Spec
<1> QED
  BY <1>2, <1>3, PTL
=============================================================================
