------------------------------ MODULE HoldLocks ------------------------------
(***************************************************************************)
(* The locks of the transactions that place and move holds, statement by   *)
(* statement (services/sql/reservation/reservationHold*.js,                *)
(* db/transaction.js): advisory locks of sessions and cars, then row       *)
(* locks; beside them the cleanup job, which takes row locks only.  What a *)
(* transaction has written others see when it commits.                     *)
(*                                                                         *)
(* Any two trips of one car overlap here; bookings are in                  *)
(* BookingFinalization.                                                    *)
(***************************************************************************)
EXTENDS ReservationStatus, Naturals, FiniteSets, FiniteSetsExt

CONSTANTS
    Guests,     \* browse sessions
    Cars,       \* car ids
    Requests,   \* the guests' requests of a behaviour, each made once
    Cleanup,    \* one run of the cleanup job
    Listings,   \* what the job may have read as the active sessions
    MaxRows,    \* bound: reservations in the table
    Before      \* the tables a behaviour may start with

ASSUME HoldCarsAssumption  ==
    Cars \subseteq Nat /\ \E n \in Cars : \A c \in Cars : c <= n
ASSUME HoldNamesAssumption == Cleanup \notin Requests /\ Guests # {}
ASSUME HoldListingsAssumption == Listings \subseteq SUBSET Guests
ASSUME HoldBoundAssumption == MaxRows \in Nat

VARIABLES
    res,    \* reservations by id, in the order of their ids
    proc    \* the requests and the cleanup run

vars == <<res, proc>>

Programs == Requests \cup {Cleanup}
Ids      == 1 .. MaxRows

-----------------------------------------------------------------------------
(* Types *)

SomeGuest == CHOOSE g \in Guests : TRUE
SomeCar   == CHOOSE c \in Cars : TRUE

\* hold_expires_at: still ahead, passed, or set anew in this behaviour, which
\* is shorter than the TTL of 35 minutes.
Rows == [status : ActiveHoldStatuses \cup {"none", "expired"},
         guest : Guests, car : Cars, ttl : {"running", "over", "renewed"}]

NoRow == [status |-> "none", guest |-> SomeGuest, car |-> SomeCar, ttl |-> "running"]

Held(g, c, ttl) == [status |-> "pending_payment", guest |-> g, car |-> c, ttl |-> ttl]

\* What a program knows: the row it works on, the cars it has still to lock,
\* the holds whose TTL was over when it began (its "now"), the sessions it takes
\* for active, the rows its statement has still to lock, and those it has
\* expired and not committed; whether it has its session's lock, and its locks
\* on cars and rows.  At the end, whether the guest was told that the car is
\* taken.
Work == [pc : {"idle", "done", "session", "cars", "own", "row", "old", "new",
               "insert", "rows"},
         op : {"create", "rehold", "sweep"},
         guest : Guests, car : Cars, id : Ids \cup {0}, cars : SUBSET Cars,
         stale : SUBSET Ids, listed : SUBSET Guests, todo : SUBSET Ids,
         done : SUBSET Ids, session : BOOLEAN, carLocks : SUBSET Cars,
         rowLocks : SUBSET Ids, taken : BOOLEAN]

Idle == [pc |-> "idle", op |-> "create", guest |-> SomeGuest, car |-> SomeCar,
         id |-> 0, cars |-> {}, stale |-> {}, listed |-> Guests, todo |-> {},
         done |-> {}, session |-> FALSE, carLocks |-> {}, rowLocks |-> {},
         taken |-> FALSE]

\* Besides the types: a program that is done holds no lock.
TypeOK ==
    /\ res   \in [Ids -> Rows]
    /\ proc  \in [Programs -> Work]
    /\ \A p \in Programs : proc[p].pc = "done" =>
          ~proc[p].session /\ proc[p].carLocks = {} /\ proc[p].rowLocks = {}

ActiveIn(table, i) == table[i].status \in ActiveHoldStatuses
Active(i)          == ActiveIn(res, i)

\* No two holds of a session, and none of overlapping trips of a car
\* (one_active_hold_per_session, no_overlapping_active_reservation_holds).
Apart(table) ==
    \A i, j \in Ids : i # j /\ ActiveIn(table, i) /\ ActiveIn(table, j) =>
        table[i].guest # table[j].guest /\ table[i].car # table[j].car

ASSUME HoldTablesAssumption ==
    \A table \in Before : table \in [Ids -> Rows] /\ Apart(table)

Init ==
    /\ res \in Before
    /\ proc = [p \in Programs |-> Idle]

-----------------------------------------------------------------------------
(* Locks and waiting *)

\* The program goes on as w.
Goes(p, w) == proc' = [proc EXCEPT ![p] = w]

Owners(i) == {q \in Programs : i \in proc[q].rowLocks}

\* Mutant: the car asked for comes first.
NextCar_AskedFirst(p) ==
    IF proc[p].car \in proc[p].cars THEN proc[p].car ELSE Min(proc[p].cars)

\* acquireCarAdvisoryLocks takes the cars by ascending id.
NextCar(p) == Min(proc[p].cars)

\* The rows another row for this hold would violate a constraint with:
\* no_overlapping_active_reservation_holds, one_active_hold_per_session.
Rivals(p) ==
    {i \in Ids \ (proc[p].done \cup {proc[p].id}) :
        /\ Active(i)
        /\ \/ res[i].car = proc[p].car
           \/ proc[p].op = "create" /\ res[i].guest = proc[p].guest}

\* The row that the statement of p locks next.
NextRow(p) == Min(proc[p].todo)

Locking == {"own", "old", "new", "rows"}

\* Who has the lock that the next statement of p needs; an insert waits for a
\* transaction that is expiring a rival row.
Blockers(p) ==
    {q \in Programs \ {p} :
        \/ /\ proc[p].pc = "session"
           /\ proc[q].session /\ proc[q].guest = proc[p].guest
        \/ proc[p].pc = "cars" /\ NextCar(p) \in proc[q].carLocks
        \/ proc[p].pc = "row"  /\ proc[p].id \in proc[q].rowLocks
        \/ /\ proc[p].pc \in Locking /\ proc[p].todo # {}
           /\ NextRow(p) \in proc[q].rowLocks
        \/ proc[p].pc = "insert" /\ proc[q].done \cap Rivals(p) # {}}

Granted(p) == Blockers(p) = {}

\* Programs that wait for each other in a circle.
Circle(S) == S # {} /\ \A p \in S : Blockers(p) \cap S # {}

-----------------------------------------------------------------------------
(* How a program ends *)

\* Mutant: without the finally blocks.
Ended_Keeps(p, taken) == [proc[p] EXCEPT !.pc = "done", !.taken = taken]

\* COMMIT or ROLLBACK, and no lock is left (runWithTransaction).
Ended(p, taken) == [Idle EXCEPT !.pc = "done", !.taken = taken]

End(p, taken) == Goes(p, Ended(p, taken))

\* The rows it has expired become visible.
Committed(p) ==
    [i \in Ids |-> IF i \in proc[p].done THEN [res[i] EXCEPT !.status = "expired"]
                                         ELSE res[i]]

Commit(p, taken) == res' = Committed(p) /\ End(p, taken)

\* PostgreSQL ends a deadlock by aborting one transaction.
Victim(p) ==
    /\ \E S \in SUBSET Programs : p \in S /\ Circle(S)
    /\ End(p, FALSE)
    /\ UNCHANGED res

-----------------------------------------------------------------------------
(* What a statement finds *)

\* findActiveBySessionId, by the time of the query.
HoldsOf(g) == {i \in Ids : Active(i) /\ res[i].guest = g /\ res[i].ttl # "over"}

HoldOf(g) == IF HoldsOf(g) = {} THEN 0 ELSE CHOOSE i \in HoldsOf(g) : TRUE

Stale(i, stale) == Active(i) /\ i \in stale /\ res[i].ttl = "over"

\* Only the cleanup job takes sessions for dead; it spares linked holds.
Abandoned(i, stale, listed) ==
    /\ res[i].status = "pending_payment"
    /\ Stale(i, stale) \/ res[i].guest \notin listed

\* Rows the statement of p may expire; asked again when the row is locked.
Expirable(p, i) ==
    IF p = Cleanup THEN Abandoned(i, proc[p].stale, proc[p].listed)
                   ELSE Stale(i, proc[p].stale)

\* Mutant: stale holds of the car are left alone.
StaleOn_None(p, car) == {}

\* expireStaleHoldsForCar.
StaleOn(p, car) ==
    {i \in Ids \ proc[p].done : Expirable(p, i) /\ res[i].car = car}

\* findOverlappingHold, by the time the request began.
Taken(p) ==
    \E i \in Ids \ (proc[p].done \cup {proc[p].id}) :
        /\ Active(i) /\ res[i].car = proc[p].car
        /\ ~Stale(i, proc[p].stale)

-----------------------------------------------------------------------------
(* Requests and cleanup runs begin *)

StaleNow == {i \in Ids : Active(i) /\ res[i].ttl = "over"}

\* A guest asks for a hold or for another car; BEGIN.
Ask(p, g, c) ==
    /\ proc[p].pc = "idle"
    /\ \E op \in {"create", "rehold"} :
          Goes(p, [Idle EXCEPT !.pc = "session", !.op = op,
                               !.guest = g, !.car = c, !.stale = StaleNow])
    /\ UNCHANGED res

\* cleanUpAbandonedReservations has read which sessions are active, and the
\* statement of markAbandonedReservations begins.
SweepStart ==
    /\ proc[Cleanup].pc = "idle"
    /\ \E L \in Listings :
          Goes(Cleanup, [Idle EXCEPT !.pc = "rows", !.op = "sweep",
                             !.stale = StaleNow, !.listed = L,
                             !.todo = {i \in Ids : Abandoned(i, StaleNow, L)}])
    /\ UNCHANGED res

-----------------------------------------------------------------------------
(* The transaction of a hold *)

\* Mutant: the car asked for is only locked by a guest without rows.
CarsToLock_OldOnly(p) ==
    LET old == {res[i].car : i \in {j \in Ids : Active(j) /\ res[j].guest = proc[p].guest}}
    IN  IF old = {} THEN {proc[p].car} ELSE old

\* The cars of the session's rows (findSessionHoldRows) and the one asked for.
CarsToLock(p) ==
    {res[i].car : i \in {j \in Ids : Active(j) /\ res[j].guest = proc[p].guest}}
        \cup {proc[p].car}

\* acquireSessionAdvisoryLock, and the reads that follow; a rehold of a hold
\* that is being paid ends here.
LockSession(p) ==
    /\ proc[p].pc = "session" /\ Granted(p)
    /\ LET peeked == IF proc[p].op = "rehold" THEN HoldOf(proc[p].guest) ELSE 0
       IN  IF peeked # 0 /\ res[peeked].status = "processing_payment"
           THEN End(p, FALSE)
           ELSE Goes(p, [proc[p] EXCEPT !.session = TRUE, !.pc = "cars",
                                        !.id = peeked, !.cars = CarsToLock(p)])
    /\ UNCHANGED res

\* After the last car, expireStaleHoldsForSession begins.
LockCar(p) ==
    /\ proc[p].pc = "cars" /\ Granted(p)
    /\ LET c    == NextCar(p)
           more == proc[p].cars \ {c}
           own  == {i \in Ids : Expirable(p, i) /\ res[i].guest = proc[p].guest}
       IN  Goes(p, [proc[p] EXCEPT !.carLocks = @ \cup {c}, !.cars = more,
                        !.pc   = IF more = {} THEN "own" ELSE "cars",
                        !.todo = IF more = {} THEN own ELSE {}])
    /\ UNCHANGED res

\* ORDER BY id FOR UPDATE, and the update of the rows that still qualify.
LockRow(p) ==
    /\ proc[p].pc \in Locking /\ proc[p].todo # {}
    /\ Granted(p)
    /\ LET i == NextRow(p) IN
       Goes(p, [proc[p] EXCEPT !.rowLocks = @ \cup {i}, !.todo = @ \ {i},
                    !.done = IF Expirable(p, i) THEN @ \cup {i} ELSE @])
    /\ UNCHANGED res

StatementDone(p, pc) == proc[p].pc = pc /\ proc[p].todo = {}

\* After the session's own stale rows: a create finds a hold of the session and
\* answers with it, or goes on to the stale rows of the car; a rehold needs
\* the hold it saw.
OwnDone(p) ==
    /\ StatementDone(p, "own")
    /\ IF proc[p].op = "create"
       THEN IF HoldOf(proc[p].guest) # 0 THEN Commit(p, FALSE)
            ELSE /\ Goes(p, [proc[p] EXCEPT !.pc = "new",
                                             !.todo = StaleOn(p, proc[p].car)])
                 /\ UNCHANGED res
       ELSE IF proc[p].id = 0 THEN Commit(p, FALSE)
            ELSE Goes(p, [proc[p] EXCEPT !.pc = "row"]) /\ UNCHANGED res

\* A rehold locks its row (findByIdForUpdate); it must still be unpaid.
LockOwnRow(p) ==
    /\ proc[p].pc = "row" /\ Granted(p)
    /\ IF res[proc[p].id].status # "pending_payment"
       THEN Commit(p, FALSE)
       ELSE /\ Goes(p, [proc[p] EXCEPT !.rowLocks = @ \cup {proc[p].id}, !.pc = "old",
                            !.todo = StaleOn(p, res[proc[p].id].car)])
            /\ UNCHANGED res

\* The car it had first, then the car asked for.
OldDone(p) ==
    /\ StatementDone(p, "old")
    /\ Goes(p, [proc[p] EXCEPT !.pc = "new", !.todo = StaleOn(p, proc[p].car)])
    /\ UNCHANGED res

Check(p) ==
    /\ StatementDone(p, "new")
    /\ IF Taken(p) THEN Commit(p, TRUE)
       ELSE Goes(p, [proc[p] EXCEPT !.pc = "insert"]) /\ UNCHANGED res

\* A violated constraint is rolled back to the savepoint: the answer is the
\* session's own hold, if there is one, or that the car is taken.
Conflict(p) ==
    /\ proc[p].pc = "insert" /\ Granted(p) /\ Rivals(p) # {}
    /\ Commit(p, proc[p].op = "rehold" \/ HoldOf(proc[p].guest) = 0)

Unused == {i \in Ids : res[i].status = "none"}

\* createPendingReservation and COMMIT; ids ascend.
Insert(p) ==
    /\ proc[p].pc = "insert" /\ proc[p].op = "create"
    /\ Granted(p) /\ Rivals(p) = {}
    /\ \E new \in Unused :
          /\ \A i \in Unused : new <= i
          /\ res' = [Committed(p) EXCEPT ![new] =
                        Held(proc[p].guest, proc[p].car, "renewed")]
    /\ End(p, FALSE)

\* updateHoldForRehold and COMMIT.
Move(p) ==
    /\ proc[p].pc = "insert" /\ proc[p].op = "rehold"
    /\ Granted(p) /\ Rivals(p) = {}
    /\ LET moved == [res[proc[p].id] EXCEPT !.car = proc[p].car, !.ttl = "renewed"]
       IN  res' = [Committed(p) EXCEPT ![proc[p].id] = moved]
    /\ End(p, FALSE)

-----------------------------------------------------------------------------
(* Checkout, cleanup, time *)

\* Checkout extends a hold and links a Stripe session to it: transactions with
\* one row lock, taken together here (changeStatus).
Pay(i) ==
    /\ i \in HoldsOf(res[i].guest) /\ Owners(i) = {}
    /\ res' = [res EXCEPT ![i] =
                  [@ EXCEPT !.status = "processing_payment", !.ttl = "renewed"]]
    /\ UNCHANGED proc

\* markAbandonedReservations has its rows.
SweepDone ==
    /\ StatementDone(Cleanup, "rows")
    /\ Commit(Cleanup, FALSE)

\* The TTL of a hold from before runs out.
Lapse(i) ==
    /\ Active(i) /\ res[i].ttl = "running"
    /\ res' = [res EXCEPT ![i] = [@ EXCEPT !.ttl = "over"]]
    /\ UNCHANGED proc

Step(p) ==
    \/ LockSession(p) \/ LockCar(p) \/ LockRow(p) \/ LockOwnRow(p)
    \/ OwnDone(p) \/ OldDone(p) \/ Check(p)
    \/ Conflict(p) \/ Insert(p) \/ Move(p)
    \/ p = Cleanup /\ SweepDone
    \/ Victim(p)

Next ==
    \/ \E p \in Requests, g \in Guests, c \in Cars : Ask(p, g, c)
    \/ SweepStart
    \/ \E p \in Programs : Step(p)
    \/ \E i \in Ids : Lapse(i) \/ Pay(i)

Spec == Init /\ [][Next]_vars

-----------------------------------------------------------------------------
(* Properties *)

\* The canonical lock order (db/transaction.js): transactions that place and
\* move holds never wait for each other in a circle.  One with the cleanup
\* job, which locks rows without their cars, can close; PostgreSQL breaks it.
CirclesNeedSweep ==
    \A S \in SUBSET Programs : Circle(S) => Cleanup \in S

\* What was checked under the locks still holds at the insert: the constraints
\* are a safety net, except that the session's own hold may have run out after
\* the request looked at the clock (reservationHoldCreate.js).
CheckedIsStillFree ==
    \A p \in Requests : proc[p].pc = "insert" =>
        \A i \in Rivals(p) : /\ res[i].guest = proc[p].guest
                             /\ res[i].ttl = "over" /\ i \notin proc[p].stale

\* Who is told that the car is taken: it was, by a hold of another guest that
\* had not run out when the request began, or their own ran out meanwhile.
RefusedForAReason ==
    [][\A p \in Requests :
          proc[p].pc # "done" /\ proc'[p].taken =>
              \E i \in Ids :
                  /\ Active(i)
                  /\ IF res[i].guest = proc[p].guest
                     THEN res[i].ttl # "running" /\ i \notin proc[p].stale
                     ELSE /\ res[i].car = proc[p].car
                          /\ ~Stale(i, proc[p].stale)]_vars
=============================================================================
