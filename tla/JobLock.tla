------------------------------ MODULE JobLock ------------------------------
(***************************************************************************)
(* The locks under which every process of the deployment runs its          *)
(* background jobs (jobs/backgroundJobRunner.js, db/transaction.js): one    *)
(* session-level advisory lock per job, tried and never waited for.  A     *)
(* program that finds it taken skips this round.                           *)
(***************************************************************************)
CONSTANTS
    Keys,       \* job keys
    Runs,       \* programs that run jobs
    NoRun

ASSUME JobLockAssumption == NoRun \notin Runs

VARIABLE lock   \* the program that holds each key

LockTypeOK == lock \in [Keys -> Runs \cup {NoRun}]

LockInit == lock = [k \in Keys |-> NoRun]

\* tryAcquireJobLock.
MayRun(k) == lock[k] = NoRun

TakeLock(k, p) == lock' = [lock EXCEPT ![k] = p]

\* Mutant: the lock of a finished run is not released.
Without_Keeps(p) == lock

\* The locks when the connection of p has let go of its own: releaseJobLock,
\* or its session has ended.
Without(p) == [k \in Keys |-> IF lock[k] = p THEN NoRun ELSE lock[k]]
=============================================================================
