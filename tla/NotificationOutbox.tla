------------------------- MODULE NotificationOutbox -------------------------
(***************************************************************************)
(* The notifications table and the programs that fill and empty it         *)
(* (modules/notifications/): the scheduler, which finds what is due and     *)
(* enqueues it under a key that is unique for ever; the workers, which      *)
(* claim pending rows and send them outside the transaction of the claim;   *)
(* and the requests that confirm a booking, which enqueue and send at once. *)
(*                                                                         *)
(* A row is known by its idempotency key.  The mail server is configured.   *)
(***************************************************************************)
EXTENDS JobLock, FiniteSets, Naturals

CONSTANTS
    Reminders,      \* keys the scheduler enqueues
    Confirmations,  \* keys the confirmation of a booking enqueues
    Jobs,           \* runs of the two background jobs, in any process
    Admins,         \* requests to run scheduler and worker by hand: no lock
    Requests,       \* requests that confirmed a booking
    Limit,          \* rows a claim may take
    MaxFaults       \* bound: crashes, lost locks and database errors

Notes    == Reminders \cup Confirmations
Programs == Jobs \cup Admins \cup Requests

ASSUME OutboxKindsAssumption ==
    /\ Reminders \cap Confirmations = {}
    /\ Requests \cap (Jobs \cup Admins) = {} /\ Jobs \cap Admins = {}
    /\ Jobs \subseteq Runs
ASSUME OutboxBoundAssumption == Limit \in Nat \ {0} /\ MaxFaults \in Nat

VARIABLES
    due,        \* reminders whose time has come and is not over
    box,        \* notifications.status
    mails,      \* e-mails the mail server took
    prog,       \* programs under way
    orphans,    \* history: rows whose program died or lost the database
    faults

outbox == <<due, box, mails, prog, orphans>>

RowStates == {"absent", "pending", "processing", "sent", "failed"}

\* pc "sent" and "failed": the mail server has answered about note, and the
\* row is to be marked.
Workings ==
    [pc : {"idle", "insert", "claim", "send", "sent", "failed", "done"},
     found : SUBSET Reminders, batch : SUBSET Notes, note : SUBSET Notes]

At(pc)         == [pc |-> pc, found |-> {}, batch |-> {}, note |-> {}]
Inserting(F)   == [pc |-> "insert", found |-> F, batch |-> {}, note |-> {}]
Sending(B)     == [pc |-> "send", found |-> {}, batch |-> B, note |-> {}]
Told(pc, N, B) == [pc |-> pc, found |-> {}, batch |-> B, note |-> N]

\* A request confirms one booking; the others come round again.
End(p) == At(IF p \in Requests THEN "done" ELSE "idle")

OutboxTypeOK ==
    /\ due     \subseteq Reminders
    /\ box     \in [Notes -> RowStates]
    /\ mails   \in [Notes -> Nat]
    /\ prog    \in [Programs -> Workings]
    /\ orphans \in SUBSET Notes
    /\ faults  \in Nat

OutboxInit ==
    /\ due \in SUBSET Reminders
    /\ box = [n \in Notes |-> "absent"]
    /\ mails = [n \in Notes |-> 0]
    /\ prog = [p \in Programs |-> At("idle")]
    /\ orphans = {}
    /\ faults = 0

Held(p)    == prog[p].batch \cup prog[p].note
InState(s) == {n \in Notes : box[n] = s}

-----------------------------------------------------------------------------
(* Enqueueing *)

\* What the queries of the scanners find comes to its end: the day before a
\* pickup, an insurance that runs out, a payment that is not confirmed, ...
NoLongerDue(n) ==
    /\ n \in due
    /\ due' = due \ {n}
    /\ UNCHANGED <<box, mails, prog, orphans, faults, lock>>

\* Mutant: the row of a known key is made pending again.
Inserted_Again(n) == [box EXCEPT ![n] = "pending"]

\* insertNotification: ON CONFLICT (idempotency_key) DO NOTHING.
Inserted(n) == IF box[n] = "absent" THEN [box EXCEPT ![n] = "pending"] ELSE box

\* A scheduler run reads what is due; a job does so under its lock.
Scan(p) ==
    /\ prog[p].pc = "idle"
    /\ \/ /\ p \in Jobs
          /\ MayRun("scheduler") /\ TakeLock("scheduler", p)
       \/ /\ p \in Admins
          /\ UNCHANGED lock
    /\ prog' = [prog EXCEPT ![p] = Inserting(due)]
    /\ UNCHANGED <<due, box, mails, orphans, faults>>

\* One insert of the scan.
Insert(p, n) ==
    /\ prog[p].pc = "insert" /\ n \in prog[p].found
    /\ box' = Inserted(n)
    /\ prog' = [prog EXCEPT ![p] = Inserting(prog[p].found \ {n})]
    /\ UNCHANGED <<due, mails, orphans, faults, lock>>

\* The scan is over, or an error ended it; the staff's request goes on to the
\* worker.
ScanDone(p) ==
    /\ prog[p].pc = "insert"
    /\ \/ /\ prog[p].found = {}
          /\ UNCHANGED faults
       \/ /\ prog[p].found # {} /\ faults < MaxFaults
          /\ faults' = faults + 1
    /\ prog' = [prog EXCEPT ![p] = At(IF p \in Admins THEN "claim" ELSE "idle")]
    /\ lock' = Without(p)
    /\ UNCHANGED <<due, box, mails, orphans>>

\* After the commit of a booking: the row is enqueued, and who inserted it
\* sends it at once.  It is still pending for the workers.
Announce(p, n) ==
    /\ p \in Requests /\ n \in Confirmations /\ prog[p].pc = "idle"
    /\ box' = Inserted(n)
    /\ prog' = [prog EXCEPT ![p] =
                  IF box[n] = "absent" THEN Sending({n}) ELSE At("done")]
    /\ UNCHANGED <<due, mails, orphans, faults, lock>>

-----------------------------------------------------------------------------
(* Sending *)

\* Mutant: rows that are being processed may be claimed.
Claimable_AlsoProcessing == InState("pending") \cup InState("processing")

Claimable == InState("pending")

\* No more than the limit; which rows are the oldest is left open, and so is
\* which ones a claim at the same time has locked.
Batches == {B \in SUBSET Claimable : B # {} /\ Cardinality(B) <= Limit}

\* claimDueNotifications: one transaction, before anything is sent.
Claim(p) ==
    /\ \/ /\ p \in Jobs /\ prog[p].pc = "idle"
          /\ MayRun("worker") /\ TakeLock("worker", p)
       \/ /\ p \in Admins /\ prog[p].pc = "claim"
          /\ UNCHANGED lock
    /\ \E B \in Batches :
         /\ box' = [n \in Notes |-> IF n \in B THEN "processing" ELSE box[n]]
         /\ prog' = [prog EXCEPT ![p] = Sending(B)]
    /\ UNCHANGED <<due, mails, orphans, faults>>

\* There is nothing to claim.
ClaimNothing(p) ==
    /\ p \in Admins /\ prog[p].pc = "claim" /\ Claimable = {}
    /\ prog' = [prog EXCEPT ![p] = At("idle")]
    /\ UNCHANGED <<due, box, mails, orphans, faults, lock>>

\* sendNotificationEmail: the mail leaves, is refused, or fails with an error,
\* after which nobody knows whether it left.
Send(p, n) ==
    /\ prog[p].pc = "send" /\ n \in prog[p].batch
    /\ \E answer \in {"sent", "failed"}, left \in BOOLEAN :
         /\ answer = "sent" => left
         /\ mails' = IF left THEN [mails EXCEPT ![n] = @ + 1] ELSE mails
         /\ prog' = [prog EXCEPT ![p] =
                       Told(answer, {n}, prog[p].batch \ {n})]
    /\ UNCHANGED <<due, box, orphans, faults, lock>>

\* Mutant: the mark goes to all rows of the claim.
Marked_WholeClaim(p, s) == [n \in Notes |-> IF n \in Held(p) THEN s ELSE box[n]]

\* markSent and markFailed write by id, whatever the row says.
Marked(p, s) == [n \in Notes |-> IF n \in prog[p].note THEN s ELSE box[n]]

MarkSent(p) ==
    /\ prog[p].pc = "sent"
    /\ box' = Marked(p, "sent")
    /\ prog' = [prog EXCEPT ![p] = Sending(prog[p].batch)]
    /\ UNCHANGED <<due, mails, orphans, faults, lock>>

\* An error of markSent is handled like an error of the mail server.
MarkSentFails(p) ==
    /\ prog[p].pc = "sent" /\ faults < MaxFaults
    /\ faults' = faults + 1
    /\ prog' = [prog EXCEPT ![p] = Told("failed", prog[p].note, prog[p].batch)]
    /\ UNCHANGED <<due, box, mails, orphans, lock>>

MarkFailed(p) ==
    /\ prog[p].pc = "failed"
    /\ box' = Marked(p, "failed")
    /\ prog' = [prog EXCEPT ![p] = Sending(prog[p].batch)]
    /\ UNCHANGED <<due, mails, orphans, faults, lock>>

\* Mutant: the rest of the batch is given up with the row.
AfterLostMark_Stops(p) == Sending({})

\* The worker goes on with the rest of its batch.
AfterLostMark(p) == Sending(prog[p].batch)

\* markFailed fails too: only logged, the row keeps its status.
MarkFailedFails(p) ==
    /\ prog[p].pc = "failed" /\ faults < MaxFaults
    /\ faults' = faults + 1
    /\ orphans' = orphans \cup prog[p].note
    /\ prog' = [prog EXCEPT ![p] = AfterLostMark(p)]
    /\ UNCHANGED <<due, box, mails, lock>>

Finish(p) ==
    /\ prog[p].pc = "send" /\ prog[p].batch = {}
    /\ prog' = [prog EXCEPT ![p] = End(p)]
    /\ lock' = Without(p)
    /\ UNCHANGED <<due, box, mails, orphans, faults>>

-----------------------------------------------------------------------------
(* Faults *)

\* The process dies; its database sessions end, and with them its locks.
Dies(p) ==
    /\ prog[p].pc \notin {"idle", "done"} /\ faults < MaxFaults
    /\ faults' = faults + 1
    /\ orphans' = orphans \cup Held(p)
    /\ prog' = [prog EXCEPT ![p] = End(p)]
    /\ lock' = Without(p)
    /\ UNCHANGED <<due, box, mails>>

\* The session that holds a lock is cut off; its program goes on.
LosesLock(p) ==
    /\ p \in Jobs /\ \E k \in Keys : lock[k] = p
    /\ faults < MaxFaults
    /\ faults' = faults + 1 /\ lock' = Without(p)
    /\ UNCHANGED outbox

Working(p) ==
    /\ prog[p].pc \notin {"idle", "done"}
    /\ \/ \E n \in Notes : Insert(p, n) \/ Send(p, n)
       \/ ScanDone(p) \/ ClaimNothing(p)
       \/ MarkSent(p) \/ MarkFailed(p) \/ Finish(p)

Mailing(p) ==
    \/ Scan(p) \/ Claim(p) \/ Working(p)
    \/ \E n \in Notes : Announce(p, n)
    \/ MarkSentFails(p) \/ MarkFailedFails(p) \/ Dies(p) \/ LosesLock(p)

OutboxNext ==
    \/ \E n \in Reminders : NoLongerDue(n)
    \/ \E p \in Programs : Mailing(p)

OutboxSpec ==
    LockInit /\ OutboxInit /\ [][OutboxNext]_<<outbox, faults, lock>>

-----------------------------------------------------------------------------
(* Properties *)

\* "Every insert requires an idempotencyKey so retries do not duplicate sends"
\* (notifications.enqueue.js): whatever crashes, lost locks and runs by hand, a
\* reminder is mailed once at most.  A confirmation may go out twice, once by
\* the request that enqueued it and once by a worker, and never more often.
NeverMailedAgain ==
    /\ \A n \in Reminders : mails[n] <= 1
    /\ \A n \in Confirmations : mails[n] <= 2

\* A row that is being processed belongs to a program that will mark it, unless
\* that program died or lost the database: nothing else is ever stuck, though
\* no code puts a row back (requeuePending has no caller).
ClaimsHaveOwners ==
    \A n \in InState("processing") :
        n \in orphans \/ \E p \in Programs : n \in Held(p)

\* A row says sent only when a mail server took the mail, though two programs
\* may hold the row and each marks it without looking.  (Where SMTP is not
\* configured the sender sends nothing and succeeds; that is left out.)
SentHasLeft == \A n \in InState("sent") : mails[n] >= 1

\* Under the schedule of the jobs, what is due or waits is sent in the end, or
\* found to be undeliverable; only the death of the program that had it, or its
\* time being over before it was ever enqueued, keeps it from that.
NoticesSettle ==
    \A n \in Notes :
        (n \in due \/ box[n] = "pending") ~>
            \/ box[n] \in {"sent", "failed"}
            \/ n \in orphans
            \/ (box[n] = "absent" /\ n \notin due)
=============================================================================
