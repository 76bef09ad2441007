----------------------------- MODULE MCHoldLocks -----------------------------
(* An instance of HoldLocks that TLC can exhaust. *)
EXTENDS HoldLocks, TLC

CONSTANTS g1, g2

TwoGuests == {g1, g2}
TwoCars   == {1, 2}

\* The list of active sessions is complete, or lacks a session begun since.
OneMissing == {TwoGuests, {g2}}

\* Each guest holds one of the cars.
Table(c, d) ==
    [i \in Ids |-> CASE i = 1 -> Held(g1, c, "running")
                     [] i = 2 -> Held(g2, d, "running")
                     [] OTHER -> NoRow]

OneEach == {Table(1, 2), Table(2, 1)}

Symmetric == Permutations(Requests)
=============================================================================
