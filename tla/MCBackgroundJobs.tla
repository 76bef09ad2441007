-------------------------- MODULE MCBackgroundJobs --------------------------
(* A small deployment for TLC. *)
EXTENDS BackgroundJobs

CONSTANTS pickup, confirmation, run1, run2, byHand, booking,
          insurance, scratch, check1, desk1

KeysDef == {"scheduler", "worker", "alerts"}
=============================================================================
