---------------------------- MODULE RefundLedger ----------------------------
(***************************************************************************)
(* The refund of one paid reservation: the rows of refund_operations, the  *)
(* administrators who ask for the money to go back, Stripe, the webhook     *)
(* inbox and the reconciling job.  Translated from the services of          *)
(* backend/src/services/payment/refund.                                     *)
(*                                                                          *)
(* The n-th attempt has the n-th idempotency key, and a row is inserted     *)
(* only after the row of the attempt before it, so the attempt number is    *)
(* both the row's id order and the name of the refund Stripe made for it.   *)
(* Source 0 is a refund somebody makes in Stripe's own dashboard.           *)
(***************************************************************************)
EXTENDS ReservationStatus, Naturals, FiniteSetsExt

CONSTANTS
    Admins,         \* requests of administrators that run side by side
    Workers,        \* webhook deliveries and reconciling passes side by side
    MaxAttempts,    \* attempts the code makes at most (5)
    Paid,           \* cents the customer paid
    StaffStatuses,  \* statuses the staff may set meanwhile
    FirstStatuses,  \* statuses the story may begin in
    MaxRequests,    \* bound: refund requests
    MaxCrashes,     \* bound: workers that die after their work, before the mark
    NoRefund        \* a row that does not know its Stripe refund

Attempts == 1..MaxAttempts
Sources  == 0..MaxAttempts

ASSUME LedgerAssumption ==
    /\ MaxAttempts \in Nat /\ Paid \in Nat
    /\ MaxRequests \in Nat /\ MaxCrashes \in Nat
    /\ StaffStatuses \subseteq Statuses \ {"refunded"}
    /\ FirstStatuses \subseteq Statuses \ {"refunded"}
    /\ NoRefund \notin Sources

VARIABLES
    status,    \* the reservation's status
    ops,       \* refund_operations: one row per attempt
    stripe,    \* the refunds Stripe has, by their source
    inbox,     \* the Stripe events about them, and what became of each
    admin,     \* the refund requests under way
    worker,    \* the webhook deliveries and reconciling passes under way
    requests, crashes

vars == <<status, ops, stripe, inbox, admin, worker, requests, crashes>>

RowStatuses == {"pending", "succeeded", "failed"}
NoRow  == [status |-> "none", refund |-> NoRefund, amount |-> 0, flagged |-> FALSE]
Idle   == [pc |-> "idle", op |-> 0, refund |-> NoRefund, amount |-> 0,
           answer |-> "none"]

\* The events: the source's refund ended, or made the charge fully refunded.
Events == [source : Sources, says : {"succeeded", "failed", "charge"}]
NoEvent == [source |-> 0, says |-> "failed"]
IdleWorker == [pc |-> "idle", event |-> NoEvent, op |-> 0, refund |-> NoRefund,
               answer |-> "none"]

TypeOK ==
    /\ status \in Statuses
    /\ ops \in [Attempts -> [status : RowStatuses \cup {"none"},
                             refund : Sources \cup {NoRefund},
                             amount : 0..Paid, flagged : BOOLEAN]]
    /\ stripe \in [Sources -> [status : RowStatuses \cup {"none"},
                               first : RowStatuses \cup {"none"},
                               amount : 0..Paid]]
    /\ inbox \in [Events -> {"none", "sent", "received", "done"}]
    /\ admin \in [Admins -> [pc : {"idle", "resolved", "drive", "answered",
                                   "declined", "retrieved", "next"},
                             op : Sources, refund : Sources \cup {NoRefund},
                             amount : 0..Paid,
                             answer : RowStatuses \cup {"none"}]]
    /\ worker \in [Workers -> [pc : {"idle", "event", "row"}, event : Events,
                               op : Sources, refund : Sources \cup {NoRefund},
                               answer : RowStatuses \cup {"none"}]]
    /\ requests \in 0..MaxRequests /\ crashes \in 0..MaxCrashes

Init ==
    /\ status \in FirstStatuses
    /\ ops = [i \in Attempts |-> NoRow]
    /\ stripe = [s \in Sources |-> [status |-> "none", amount |-> 0,
                                 first |-> "none"]]
    /\ inbox = [e \in Events |-> "none"]
    /\ admin = [a \in Admins |-> Idle]
    /\ worker = [w \in Workers |-> IdleWorker]
    /\ requests = 0 /\ crashes = 0

-----------------------------------------------------------------------------
(* refund_operations *)

Rows(kinds) == {i \in Attempts : ops[i].status \in kinds}

\* findActiveByReservationId: the pending or succeeded row.
Active == Rows({"pending", "succeeded"})

\* findLatestByReservationId: the last row, if there is one.
Latest == {i \in Rows(RowStatuses) : \A j \in Rows(RowStatuses) : j <= i}

\* The attempt that comes after the last row, unless all are used up.
Unused == {i \in Rows({"none"}) : \A j \in Rows({"none"}) : i <= j}

\* The unique indexes: one active row, one row per Stripe refund.  A
\* statement that breaks one raises an error and changes nothing.
MayActivate(i, n) ==
    /\ Active \subseteq {i}
    /\ \A j \in Attempts \ {i} : n = NoRefund \/ ops[j].refund # n

\* updateRefundOperation guards success: pending and failed are never written
\* over it.
Open(i) == ops[i].status # "succeeded"

\* markRefundFailed.
MarkFailed(i) ==
    ops' = IF Open(i) THEN [ops EXCEPT ![i].status = "failed"] ELSE ops

\* persistPendingFromStripe and resurrectPending: the row is (again) pending
\* on refund n.
SetPending(i, n) ==
    ops' = IF Open(i) /\ MayActivate(i, n)
           THEN [ops EXCEPT ![i].status = "pending", ![i].refund = n]
           ELSE ops

\* insertRefundOperation by createPendingOperation.
Insert(i, amount) ==
    ops' = [ops EXCEPT ![i] = [status |-> "pending", refund |-> NoRefund,
                               amount |-> amount, flagged |-> FALSE]]

-----------------------------------------------------------------------------
(* applySucceededRefund: refund n came through.  The row that is marked is *)
(* the active one, if there is one, and the caller's row i otherwise.      *)

Target(i) == IF Active # {} THEN CHOOSE x \in Active : TRUE ELSE i

ApplyRefused(i, n) ==
    /\ Open(Target(i))
    /\ \E j \in Attempts \ {Target(i)} : n # NoRefund /\ ops[j].refund = n

\* Mutant: the refused transition goes unrecorded.
Flagged_Never == FALSE

\* A reservation that can no longer become refunded gets a failure code.
Flagged == ~CanTransition(status, "refunded")

Applied(row, n) ==
    [row EXCEPT !.status = "succeeded",
                !.refund = IF n = NoRefund THEN row.refund ELSE n,
                !.flagged = Flagged]

Apply(i, n) ==
    IF Open(Target(i)) /\ ~ApplyRefused(i, n)
    THEN /\ ops' = [ops EXCEPT ![Target(i)] = Applied(ops[Target(i)], n)]
         /\ status' = Settled(status)
    ELSE UNCHANGED <<ops, status>>

-----------------------------------------------------------------------------
(* Stripe *)

Returned(kinds) ==
    MapThenSumSet(LAMBDA s : stripe[s].amount,
                  {s \in Sources : stripe[s].status \in kinds})

Remaining == Paid - Returned({"pending", "succeeded"})

\* charge.refunded calls a charge refunded once amount_refunded reaches the
\* amount, and that counts money on its way, as Remaining does.
FullyReturned == Paid = Returned({"pending", "succeeded"})

\* Stripe has the source's refund in a (new) state, and sends the events that
\* follow: the refund's own when it has ended, the charge's when the refund
\* is made and makes the charge fully refunded.
Record(s, amount, now, first) ==
    /\ stripe' = [stripe EXCEPT ![s] = [status |-> now, amount |-> amount,
                                        first |-> first]]
    /\ inbox' = [e \in Events |->
          IF /\ inbox[e] = "none" /\ e.source = s
             /\ \/ e.says = now
                \/ /\ e.says = "charge"
                   /\ stripe[s].status = "none" /\ FullyReturned'
          THEN "sent" ELSE inbox[e]]

\* A refund under way ends.
StripeSettles(s) ==
    /\ stripe[s].status = "pending"
    /\ \E now \in {"succeeded", "failed"} : 
           Record(s, stripe[s].amount, now, stripe[s].first)
    /\ UNCHANGED <<status, ops, admin, worker, requests, crashes>>

\* Somebody refunds a part, or all, in the dashboard.
DashboardRefund ==
    /\ stripe[0].status = "none"
    /\ \E amount \in {n \in 1..Paid : n <= Remaining}, now \in {"pending", "succeeded"} :
           Record(0, amount, now, now)
    /\ UNCHANGED <<status, ops, admin, worker, requests, crashes>>

-----------------------------------------------------------------------------
(* requestReservationRefund *)

\* Mutant: a fee is taken off before the amount is offered.
OfferedAmounts_LessFee == {Remaining - 1, Paid}

\* resolvePaymentIntentForReservation: what Stripe has left, or the stored
\* snapshot of the payment when Stripe cannot be asked.
OfferedAmounts == {n \in 0..Paid : n = Remaining \/ n = Paid}

\* The reservation is read without a lock, and Stripe is asked.
Resolve(a) ==
    /\ admin[a].pc = "idle" /\ requests < MaxRequests
    /\ status # "refunded"
    /\ \E amount \in OfferedAmounts :
           admin' = [admin EXCEPT ![a] = [Idle EXCEPT !.pc = "resolved",
                                                      !.amount = amount]]
    /\ requests' = requests + 1
    /\ UNCHANGED <<status, ops, stripe, inbox, worker, crashes>>

Drive(a, i, known, amount) ==
    admin' = [admin EXCEPT ![a] = [Idle EXCEPT !.pc = "drive", !.op = i,
                                               !.refund = known,
                                               !.amount = amount]]

Leave(a) == admin' = [admin EXCEPT ![a] = Idle]

\* Mutant: the active row is not looked for.
MayInsert_IgnoresActive == status \in RefundableStatuses

\* A row is inserted only under the row lock, with no active row.
MayInsert == status \in RefundableStatuses /\ Active = {}

\* The first transaction continues the active row, ...
ReserveActive(a) ==
    /\ admin[a].pc = "resolved" /\ status \in RefundableStatuses
    /\ ~MayInsert
    /\ \E i \in Active : /\ ops[i].status = "pending"
                         /\ Drive(a, i, ops[i].refund, ops[i].amount)
    /\ UNCHANGED <<status, ops, stripe, inbox, worker, requests, crashes>>

\* ... or asks again about a failed row whose refund Stripe knows, ...
ReserveFailed(a) ==
    /\ admin[a].pc = "resolved" /\ MayInsert /\ admin[a].amount > 0
    /\ \E i \in Latest : /\ ops[i].refund # NoRefund
                         /\ Drive(a, i, ops[i].refund, ops[i].amount)
    /\ UNCHANGED <<status, ops, stripe, inbox, worker, requests, crashes>>

\* ... or opens the next attempt.
ReserveNew(a) ==
    /\ admin[a].pc = "resolved" /\ MayInsert /\ admin[a].amount > 0
    /\ \A i \in Latest : ops[i].refund = NoRefund
    /\ \E i \in Unused : /\ Insert(i, admin[a].amount)
                         /\ Drive(a, i, NoRefund, admin[a].amount)
    /\ UNCHANGED <<status, stripe, inbox, worker, requests, crashes>>

\* Nothing to refund, the attempts used up, or refunded already.
ReserveRefused(a) ==
    /\ admin[a].pc = "resolved"
    /\ \/ status \notin RefundableStatuses
       \/ \E i \in Active : ops[i].status = "succeeded"
       \/ Active = {} /\ admin[a].amount = 0
       \/ /\ Active = {} /\ Unused = {}
          /\ \A i \in Latest : ops[i].refund = NoRefund
    /\ Leave(a)
    /\ UNCHANGED <<status, ops, stripe, inbox, worker, requests, crashes>>

Answered(a, says) ==
    admin' = [admin EXCEPT ![a].pc = "answered", ![a].refund = admin[a].op,
                           ![a].answer = says]

\* createRefund: Stripe makes the refund, or repeats its first answer for this
\* key; the answer may get lost, and then the row stays as it is.
CreateAtStripe(a) ==
    /\ admin[a].pc = "drive" /\ admin[a].refund = NoRefund
    /\ \/ /\ stripe[admin[a].op].status = "none"
          /\ admin[a].amount <= Remaining
          /\ \E now \in RowStatuses :
                /\ Record(admin[a].op, admin[a].amount, now, now)
                /\ Answered(a, now) \/ Leave(a)
       \/ /\ stripe[admin[a].op].status # "none"
          /\ admin[a].amount = stripe[admin[a].op].amount
          /\ Answered(a, stripe[admin[a].op].first) \/ Leave(a)
          /\ UNCHANGED <<stripe, inbox>>
    /\ UNCHANGED <<status, ops, worker, requests, crashes>>

\* No refund is made: the answer is a definite error (a refused amount or
\* card, but also a key that is in use), or it is not known to be one.
CreateRefused(a) ==
    /\ admin[a].pc = "drive" /\ admin[a].refund = NoRefund
    /\ admin' = [admin EXCEPT ![a].pc = "declined"] \/ Leave(a)
    /\ UNCHANGED <<status, ops, stripe, inbox, worker, requests, crashes>>

\* createRefundForOperation marks the row failed on a definite error.
Declined(a) ==
    /\ admin[a].pc = "declined"
    /\ MarkFailed(admin[a].op) /\ Leave(a)
    /\ UNCHANGED <<status, stripe, inbox, worker, requests, crashes>>

\* finishWithStripeRefund.
Finish(a) ==
    /\ admin[a].pc = "answered"
    /\ \/ /\ admin[a].answer = "succeeded"
          /\ Apply(admin[a].op, admin[a].refund)
       \/ /\ admin[a].answer = "failed"
          /\ MarkFailed(admin[a].op) /\ UNCHANGED status
       \/ /\ admin[a].answer = "pending"
          /\ SetPending(admin[a].op, admin[a].refund) /\ UNCHANGED status
    /\ Leave(a)
    /\ UNCHANGED <<stripe, inbox, worker, requests, crashes>>

\* retrieveExistingRefund asks Stripe about the refund the row knows; an
\* error ends the request ...
Retrieve(a) ==
    /\ admin[a].pc = "drive" /\ admin[a].refund # NoRefund
    /\ \/ admin' = [admin EXCEPT ![a].pc = "retrieved",
                                 ![a].answer = stripe[admin[a].refund].status]
       \/ Leave(a)
    /\ UNCHANGED <<status, ops, stripe, inbox, worker, requests, crashes>>

\* ... and the answer is recorded; after a failure the next attempt follows.
Retrieved(a) ==
    /\ admin[a].pc = "retrieved"
    /\ \/ /\ admin[a].answer = "succeeded"
          /\ Apply(admin[a].op, admin[a].refund) /\ Leave(a)
       \/ /\ admin[a].answer = "failed"
          /\ MarkFailed(admin[a].op) /\ UNCHANGED status
          /\ admin' = [admin EXCEPT ![a].pc = "next"]
       \/ /\ admin[a].answer = "pending"
          /\ SetPending(admin[a].op, admin[a].refund)
          /\ Leave(a) /\ UNCHANGED status
    /\ UNCHANGED <<stripe, inbox, worker, requests, crashes>>

\* startNextAttemptAfterConfirmedFailure and lockAndCreateAttempt: continue
\* the active row, open the next attempt, or give up.  An attempt whose key
\* is taken ends in an error.
NextAttempt(a) ==
    LET next == admin[a].op + 1
        goes == next \in Attempts /\ status \in RefundableStatuses
    IN
    /\ admin[a].pc = "next"
    /\ \/ /\ goes /\ ~MayInsert
          /\ \E i \in Active : /\ ops[i].status = "pending"
                               /\ Drive(a, i, ops[i].refund, admin[a].amount)
          /\ UNCHANGED ops
       \/ /\ goes /\ MayInsert /\ ops[next].status = "none"
          /\ Insert(next, admin[a].amount)
          /\ Drive(a, next, NoRefund, admin[a].amount)
       \/ /\ \/ ~goes
             \/ \E i \in Active : ops[i].status = "succeeded"
             \/ MayInsert /\ ops[next].status # "none"
          /\ Leave(a) /\ UNCHANGED ops
    /\ UNCHANGED <<status, stripe, inbox, worker, requests, crashes>>

-----------------------------------------------------------------------------
(* The webhook inbox *)

\* Mutant: only a row that knows the refund is found.
Match_ByRefund(e) ==
    {i \in Attempts : e.says # "charge" /\ ops[i].refund = e.source}

\* findByStripeRefundId, else findByPaymentIntentId (the active row, or the
\* latest); empty when there is no row at all.
Match(e) ==
    LET known == {i \in Attempts : e.says # "charge"
                                   /\ ops[i].refund = e.source}
    IN  IF known # {} THEN known
        ELSE IF Active # {} THEN Active ELSE Latest

\* handleRefundWebhookEvent takes the event into the inbox, or finds it there
\* (also the job's replay of a stuck one), and looks for its row.
Receive(w, e) ==
    /\ worker[w].pc = "idle" /\ inbox[e] \in {"sent", "received"}
    /\ IF Match(e) = {}
       THEN /\ inbox' = [inbox EXCEPT ![e] = "done"]
            /\ UNCHANGED worker
       ELSE /\ inbox' = [inbox EXCEPT ![e] = "received"]
            /\ \E i \in Match(e) :
                   worker' = [worker EXCEPT ![w] =
                                [pc |-> "event", event |-> e, op |-> i,
                                 refund |-> ops[i].refund, answer |-> "none"]]
    /\ UNCHANGED <<status, ops, stripe, admin, requests, crashes>>

\* Mutant: any succeeded refund counts as the whole refund.
Full_AnyAmount(e, i) == e.says # "failed"

\* isFullSucceededRefund: the amount is the row's.
Full(e, i) ==
    \/ e.says = "succeeded" /\ stripe[e.source].amount = ops[i].amount
    \/ e.says = "charge" /\ ops[i].amount = Paid

\* The refund an event names; a charge names none, and the row's is kept.
Named(w) == IF worker[w].event.says = "charge"
            THEN worker[w].refund ELSE worker[w].event.source

\* applyRefundFromStripeObject and the mark in the inbox.  An error leaves
\* the event to be delivered again, and so does a crash before the mark.
ActOnEvent(w) ==
    LET e == worker[w].event
        i == worker[w].op
        refused == Full(e, i) /\ ApplyRefused(i, Named(w))
    IN
    /\ worker[w].pc = "event"
    /\ \/ /\ Full(e, i) /\ Apply(i, Named(w))
       \/ /\ ~Full(e, i) /\ e.says = "failed"
          /\ MarkFailed(i) /\ UNCHANGED status
       \/ /\ ~Full(e, i) /\ e.says # "failed"
          /\ UNCHANGED <<ops, status>>
    /\ \/ /\ ~refused /\ inbox' = [inbox EXCEPT ![e] = "done"]
          /\ UNCHANGED crashes
       \/ /\ refused /\ UNCHANGED <<inbox, crashes>>
       \/ /\ crashes < MaxCrashes /\ crashes' = crashes + 1
          /\ UNCHANGED inbox
    /\ worker' = [worker EXCEPT ![w] = IdleWorker]
    /\ UNCHANGED <<stripe, admin, requests>>

-----------------------------------------------------------------------------
(* reconcilePendingRefunds *)

\* The job reads a row that knows its refund, and asks Stripe about it; a
\* pending row without a refund id is skipped, and so is one that agrees.
LookAt(w, i) ==
    /\ worker[w].pc = "idle"
    /\ ops[i].status \in {"pending", "failed"} /\ ops[i].refund # NoRefund
    /\ stripe[ops[i].refund].status # ops[i].status
    /\ worker' = [worker EXCEPT ![w] =
                    [pc |-> "row", event |-> NoEvent, op |-> i,
                     refund |-> ops[i].refund,
                     answer |-> stripe[ops[i].refund].status]]
    /\ UNCHANGED <<status, ops, stripe, inbox, admin, requests, crashes>>

\* What Stripe said is recorded in the row, whatever happened to it meanwhile.
ActOnRow(w) ==
    /\ worker[w].pc = "row"
    /\ \/ /\ worker[w].answer = "succeeded"
          /\ Apply(worker[w].op, worker[w].refund)
       \/ /\ worker[w].answer = "failed"
          /\ MarkFailed(worker[w].op) /\ UNCHANGED status
       \/ /\ worker[w].answer = "pending"
          /\ SetPending(worker[w].op, worker[w].refund) /\ UNCHANGED status
    /\ worker' = [worker EXCEPT ![w] = IdleWorker]
    /\ UNCHANGED <<stripe, inbox, admin, requests, crashes>>

-----------------------------------------------------------------------------
(* The staff, and the whole system *)

\* Mutant: a pending refund does not keep the staff from anything.
MayMove_IgnoresRefund(new) == CanTransition(status, new)

\* changeStatus refuses what a pending refund forbids.
MayMove(new) ==
    /\ CanTransition(status, new)
    /\ Rows({"pending"}) # {} => new \in AllowedDuringPendingRefund

StaffMoves(new) ==
    /\ new # status /\ MayMove(new)
    /\ status' = new
    /\ UNCHANGED <<ops, stripe, inbox, admin, worker, requests, crashes>>

AdminStep(a) ==
    \/ Resolve(a)
    \/ ReserveActive(a) \/ ReserveFailed(a) \/ ReserveNew(a) \/ ReserveRefused(a)
    \/ CreateAtStripe(a) \/ CreateRefused(a) \/ Declined(a) \/ Finish(a)
    \/ Retrieve(a) \/ Retrieved(a) \/ NextAttempt(a)

WorkerStep(w) ==
    \/ \E e \in Events : Receive(w, e)
    \/ ActOnEvent(w)
    \/ \E i \in Attempts : LookAt(w, i)
    \/ ActOnRow(w)

\* The application and its refunds at Stripe.
OwnStep ==
    \/ \E a \in Admins : AdminStep(a)
    \/ \E w \in Workers : WorkerStep(w)
    \/ \E s \in Sources : StripeSettles(s)
    \/ \E new \in StaffStatuses : StaffMoves(new)

Next == OwnStep \/ DashboardRefund

Spec == Init /\ [][Next]_vars

-----------------------------------------------------------------------------
(* Safety *)

\* Two administrators, a webhook and the job never bring about two refunds in
\* force: lockAndCreateAttempt and the first transaction look for the active
\* row under the row lock, and a failed row comes back only when there is none.
OneActiveOperation == \A i, j \in Active : i = j

\* Some charge.refunded was acted on, and some refund was at first pending.
PendingCounted ==
    /\ \E e \in Events : e.says = "charge" /\ inbox[e] \in {"received", "done"}
    /\ \E s \in Sources : stripe[s].first = "pending"

\* A row says succeeded only when Stripe has given back at least its amount,
\* also when the row was found by the payment and not by the refund's id.
\* There are two exceptions.  Attempts may be for different amounts, after a
\* partial refund in the dashboard: the amount is compared with one row and
\* the success written to another.  And a row for the whole payment succeeds
\* on a charge.refunded, which counts refunds that may fail yet (see
\* RefundedIsPaidBack); no other message makes a row succeed too early.
SuccessIsReal ==
    \A i \in Rows({"succeeded"}) :
        \/ \E j \in Rows(RowStatuses) : ops[j].amount # ops[i].amount
        \/ Returned({"succeeded"}) >= ops[i].amount
        \/ ops[i].amount = Paid /\ PendingCounted

\* A refunded reservation's money is back, or on its way.  The code takes a
\* charge.refunded for the end of the matter although it also counts pending
\* refunds; when one of them fails, the failure no longer opens the row.
RefundedIsPaidBack ==
    status = "refunded" => Returned({"pending", "succeeded"}) > 0

\* A reservation is refunded exactly if some refund succeeded that was not
\* flagged for the operators as one the lifecycle could not take.
BooksAgree ==
    status = "refunded" <=> \E i \in Rows({"succeeded"}) : ~ops[i].flagged

\* The refund as the rest of the application sees it.
Refund ==
    IF Rows({"succeeded"}) # {} THEN "succeeded"
    ELSE IF Rows({"pending"}) # {} THEN "pending"
    ELSE IF Rows({"failed"}) # {} THEN "failed" ELSE "none"

Promise == INSTANCE RefundPromise WITH refund <- Refund

\* All of this together behaves like one refund: RefundPromise.
KeepsPromise == Promise!Spec

-----------------------------------------------------------------------------
(* Liveness *)

\* Stripe repeats its events until they are answered, and ends its refunds;
\* the job comes back.  Nothing is assumed of the administrators, who may give up
\* at any point.
Fairness ==
    /\ \A s \in Sources :
           SF_vars(\E w \in Workers, e \in Events : e.source = s /\ Receive(w, e))
    /\ \A w \in Workers : WF_vars(ActOnEvent(w)) /\ WF_vars(ActOnRow(w))
    /\ \A i \in Attempts : SF_vars(\E w \in Workers : LookAt(w, i))
    /\ \A s \in Sources : WF_vars(StripeSettles(s))

\* Money that the application gave back is in its books in the end, also when
\* the answer of Stripe was lost and the row never learned the refund's id.
MoneyIsBooked ==
    (\E s \in Attempts : stripe[s].status = "succeeded")
        ~> Rows({"succeeded"}) # {}
=============================================================================
