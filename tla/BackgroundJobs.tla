--------------------------- MODULE BackgroundJobs ---------------------------
(***************************************************************************)
(* The background jobs of the deployment (jobs/backgroundJobRunner.js) that *)
(* keep the notifications and the fleet alerts.  The two share nothing but  *)
(* the table of job locks, one key per job, so a behaviour follows one of   *)
(* them and leaves the other at rest.                                       *)
(***************************************************************************)
EXTENDS NotificationOutbox, FleetAlerts

\* A run is a run of one job.
ASSUME RunsAssumption == Jobs \cap Checks = {}

VARIABLE watched    \* the part a behaviour follows

vars == <<outbox, faults, fleet, lock, watched>>

\* No lock is left behind: who holds one is at work.
TypeOK ==
    /\ LockTypeOK /\ OutboxTypeOK /\ AlertsTypeOK
    /\ watched \in {"notifications", "alerts"}
    /\ \A k \in Keys :
         /\ lock[k] \in Jobs => prog[lock[k]].pc # "idle"
         /\ lock[k] \in Checks => rec[lock[k]].pc # "idle"

Init ==
    /\ LockInit /\ OutboxInit /\ AlertsInit
    /\ watched \in {"notifications", "alerts"}
    /\ watched = "alerts" => due = {}

OutboxStep ==
    watched = "notifications" /\ OutboxNext /\ UNCHANGED <<fleet, watched>>

AlertsStep ==
    watched = "alerts" /\ AlertsNext /\ UNCHANGED <<outbox, faults, watched>>

Next == OutboxStep \/ AlertsStep

Spec == Init /\ [][Next]_vars

\* Every job comes round again, in one process or another; a program that is at
\* work goes on, unless it dies.
Mailed == <<outbox, faults, lock>>
Alerted == <<fleet, lock>>

Fairness ==
    /\ \A p \in Programs : WF_Mailed(Working(p))
    /\ WF_Mailed(watched = "notifications" /\ \E p \in Jobs : Scan(p))
    /\ WF_Mailed(watched = "notifications" /\ \E p \in Jobs : Claim(p))
    /\ \A p \in Reconcilers : WF_Alerted(Reconciling(p))
    /\ WF_Alerted(watched = "alerts" /\ \E p \in Checks : Begin(p))

FairSpec == Spec /\ Fairness
=============================================================================
