---------------------------- MODULE FleetAlerts ----------------------------
(***************************************************************************)
(* The alerts about the papers and the damages of the fleet                *)
(* (services/carFleetAlertReconcileService.js).  A reconcile reads the      *)
(* papers, then the damages, raises what they call for, and resolves every  *)
(* other active alert, each step a statement of its own outside any         *)
(* transaction.  The background job runs it under its lock; a staff change  *)
(* runs it at once, without one, and does not mind its errors.              *)
(***************************************************************************)
EXTENDS JobLock, FiniteSets, Naturals

CONSTANTS
    Papers,         \* compliance items of tracked types
    Damages,        \* damage reports
    Checks,         \* runs of the background job, in any process
    Desks,          \* requests of staff
    MaxChanges,     \* bound: changes of a paper or a damage
    MaxAlertFaults  \* bound: crashes and database errors

Things      == Papers \cup Damages
Reconcilers == Checks \cup Desks

ASSUME AlertKindsAssumption ==
    Papers \cap Damages = {} /\ Checks \cap Desks = {} /\ Checks \subseteq Runs
ASSUME AlertBoundAssumption == MaxChanges \in Nat /\ MaxAlertFaults \in Nat

VARIABLES
    cond,       \* what a paper or a damage report calls for
    alerts,     \* active rows of car_fleet_alerts: <<thing, type>>
    rec,        \* reconciles under way
    changes, alertFaults

fleet == <<cond, alerts, rec, changes, alertFaults>>

PaperConds  == {"fine", "expiring_soon", "expired"}
DamageConds == {"fine", "unresolved"}
Alerts      == Things \X ((PaperConds \cup DamageConds) \ {"fine"})

\* keep: the alerts called for when it read; due: those yet to be raised;
\* gone: the rows it found active and not called for; stale: history, what was
\* changed since it read it.
Reconciles ==
    [pc : {"idle", "changed", "damages", "raise", "resolve"},
     keep : SUBSET Alerts, due : SUBSET Alerts, gone : SUBSET Alerts,
     stale : SUBSET Things]

Reconcile(pc, keep, raise, gone, stale) ==
    [pc |-> pc, keep |-> keep, due |-> raise, gone |-> gone, stale |-> stale]

NoReconcile == Reconcile("idle", {}, {}, {}, {})

AlertsTypeOK ==
    /\ cond    \in [Things -> PaperConds \cup DamageConds]
    /\ alerts  \subseteq Alerts
    /\ rec     \in [Reconcilers -> Reconciles]
    /\ changes \in Nat /\ alertFaults \in Nat

AlertsInit ==
    /\ cond = [x \in Things |-> "fine"]
    /\ alerts = {}
    /\ rec = [p \in Reconcilers |-> NoReconcile]
    /\ changes = 0 /\ alertFaults = 0

\* desiredAlertFromCompliance, desiredAlertFromDamage.
Called(X) == {<<x, cond[x]>> : x \in {y \in X : cond[y] # "fine"}}

-----------------------------------------------------------------------------
(* Changes *)

HasRead(p) == CASE rec[p].pc \in {"idle", "changed"} -> {}
                [] rec[p].pc = "damages"             -> Papers
                [] OTHER                             -> Things

\* The reconciles under way when x changes.
Outdated(x) ==
    [p \in Reconcilers |->
        IF x \in HasRead(p) THEN [rec[p] EXCEPT !.stale = @ \cup {x}] ELSE rec[p]]

\* A paper runs out.
DayPasses(x) ==
    /\ x \in Papers /\ cond[x] # "expired" /\ changes < MaxChanges
    /\ changes' = changes + 1
    /\ cond' = [cond EXCEPT ![x] = IF @ = "fine" THEN "expiring_soon" ELSE "expired"]
    /\ rec' = Outdated(x)
    /\ UNCHANGED <<alerts, alertFaults, lock>>

Changed(p, x, c) ==
    /\ p \in Desks /\ rec[p].pc = "idle" /\ changes < MaxChanges
    /\ changes' = changes + 1
    /\ cond' = [cond EXCEPT ![x] = c]
    /\ rec' = [Outdated(x) EXCEPT ![p] = Reconcile("changed", {}, {}, {}, {})]
    /\ UNCHANGED <<alerts, alertFaults, lock>>

\* Staff record, renew, rewrite or remove a paper, report a damage, resolve or
\* remove the report; the request goes on to reconcile.
ChangePaper(p, x)  == x \in Papers /\ \E c \in PaperConds : Changed(p, x, c)
ChangeDamage(p, x) == x \in Damages /\ \E c \in DamageConds : Changed(p, x, c)

-----------------------------------------------------------------------------
(* A reconcile *)

\* The papers are read; a job does so under its lock.
Begin(p) ==
    /\ \/ /\ p \in Checks /\ rec[p].pc = "idle"
          /\ MayRun("alerts") /\ TakeLock("alerts", p)
       \/ /\ rec[p].pc = "changed"
          /\ UNCHANGED lock
    /\ rec' = [rec EXCEPT ![p] = Reconcile("damages", Called(Papers), {}, {}, {})]
    /\ UNCHANGED <<cond, alerts, changes, alertFaults>>

\* Mutant: only the papers are alerts to keep.
Keeps_PapersOnly(p) == rec[p].keep

Keeps(p) == rec[p].keep \cup Called(Damages)

ReadDamages(p) ==
    /\ rec[p].pc = "damages"
    /\ rec' = [rec EXCEPT ![p] =
                 Reconcile("raise", Keeps(p), rec[p].keep \cup Called(Damages), {},
                           rec[p].stale)]
    /\ UNCHANGED <<cond, alerts, changes, alertFaults, lock>>

\* upsertActive: an alert has one active row.
Raise(p, a) ==
    /\ rec[p].pc = "raise" /\ a \in rec[p].due
    /\ alerts' = alerts \cup {a}
    /\ rec' = [rec EXCEPT ![p] =
                 Reconcile("raise", rec[p].keep, rec[p].due \ {a}, {}, rec[p].stale)]
    /\ UNCHANGED <<cond, changes, alertFaults, lock>>

\* Mutant: alerts are matched by the paper or damage, whatever their type.
NotCalledFor_AnyType(p) == {a \in alerts : \A k \in rec[p].keep : k[1] # a[1]}

NotCalledFor(p) == alerts \ rec[p].keep

\* resolveMissing, its query.
ListActive(p) ==
    /\ rec[p].pc = "raise" /\ rec[p].due = {}
    /\ rec' = [rec EXCEPT ![p] =
                 Reconcile("resolve", rec[p].keep, {}, NotCalledFor(p), rec[p].stale)]
    /\ UNCHANGED <<cond, alerts, changes, alertFaults, lock>>

\* resolveByIds: of the rows found, those still active.  One that is raised
\* again later is a new row, which the others have not found.
Resolve(p) ==
    /\ rec[p].pc = "resolve"
    /\ alerts' = alerts \ rec[p].gone
    /\ rec' = [q \in Reconcilers |->
                  IF q = p THEN NoReconcile
                  ELSE [rec[q] EXCEPT !.gone = @ \ rec[p].gone]]
    /\ lock' = Without(p)
    /\ UNCHANGED <<cond, changes, alertFaults>>

\* An error, or the process dies: the job logs it, the request is answered.
GivesUp(p) ==
    /\ rec[p].pc # "idle" /\ alertFaults < MaxAlertFaults
    /\ alertFaults' = alertFaults + 1
    /\ rec' = [rec EXCEPT ![p] = NoReconcile]
    /\ lock' = Without(p)
    /\ UNCHANGED <<cond, alerts, changes>>

Reconciling(p) ==
    /\ rec[p].pc # "idle"
    /\ \/ Begin(p) \/ ReadDamages(p) \/ ListActive(p) \/ Resolve(p)
       \/ \E a \in rec[p].due : Raise(p, a)

AlertsNext ==
    \/ \E x \in Things :
          DayPasses(x) \/ \E p \in Desks : ChangePaper(p, x) \/ ChangeDamage(p, x)
    \/ \E p \in Reconcilers : Reconciling(p) \/ GivesUp(p)
    \/ \E p \in Checks : Begin(p)

-----------------------------------------------------------------------------
(* Properties *)

\* Though reconciles of staff and job overlap, each on what it read earlier, and
\* may end half-way: when nothing changes any more, the dashboard comes to show
\* exactly the alerts the papers and damages call for.
AlertsSettle == <>[](alerts = Called(Things))

\* An alert that is called for is taken down only by a reconcile that read its
\* paper or damage before it last changed.
RightAlertsStay ==
    [][\A a \in alerts \ alerts' :
          a \in Called(Things) =>
            \E p \in Reconcilers : a \in rec[p].gone /\ a[1] \in rec[p].stale]_fleet
=============================================================================
