----------------------- MODULE OrderCalendar_proofs -----------------------
(***************************************************************************)
(* The staff's desk, proved: every booking keeps its own block, the live   *)
(* orders follow their reservations and no block is left without a         *)
(* booking, for every fleet, calendar, number of clerks and length of      *)
(* time.                                                                   *)
(***************************************************************************)
EXTENDS OrderCalendar, WellFoundedInduction, TLAPS

-----------------------------------------------------------------------------
(* The inductive invariant *)

\* A row that an order or a request of the staff names exists.
Linked(d) == d.rid \in Rids /\ res[d.rid].status # "none"

OrdersLinked == \A o \in Oids : orders[o].state # "none" => Linked(orders[o])

\* What a request in flight has read.
ReadOrder(e) ==
    e.pc \in {"edit", "sync"} =>
        /\ e.oid \in Oids /\ orders[e.oid].state # "none"
        /\ e.doc.state # "none" /\ Linked(e.doc) /\ e.rid = e.doc.rid
ReadRow(e) ==
    e.pc \in {"sync", "move"} =>
        e.rid \in Rids /\ res[e.rid].status # "none" /\ e.row.status # "none"

ClerksInformed == \A k \in Clerks : ReadOrder(clerk[k]) /\ ReadRow(clerk[k])

TypeInv == TypeOK /\ OrdersLinked /\ ClerksInformed

\* A booking whose time is not over owns its exact block in B, and one that is
\* out owns at least that.
Current(r) == Booked(r) /\ now < res[r].trip.to
OwnsIn(B, r) ==
    /\ Current(r) => BlockOf(res[r].trip) \in B
    /\ Out(r) => \E b \in B : OwnBlock(b, r)

EachOwns == \A r \in Rids \ astray : OwnsIn(blocks, r)

\* No two bookings of a car start together.
Apart ==
    \A r, q \in Rids \ astray :
        /\ r # q /\ Holding(r) /\ Holding(q)
        /\ res[r].trip.car = res[q].trip.car
        => res[r].trip.from # res[q].trip.from

CalendarInv == Disjoint(blocks) /\ EachOwns /\ Apart

\* The booking a block is there for; before the pickup it has the block's end.
Explains(r, b) ==
    /\ res[r].status \in OpsStatuses
    /\ res[r].trip.car = b.car /\ res[r].trip.from = b.from
    /\ Upcoming(r) => b.to = res[r].trip.to

GhostFree(B) ==
    \A b \in B : b.kind = "booking" => \E r \in Rids : Explains(r, b)

GhostInv == astray = {} => GhostFree(blocks)

\* At most one order, live or deleted, of a reservation without an accident.
OneOrder ==
    \A o, p \in Oids :
        /\ orders[o].state # "none" /\ orders[p].state # "none"
        /\ orders[o].rid = orders[p].rid /\ orders[o].rid \notin astray
        => o = p

LinkInv == OneOrder /\ OrderFollowsReservation

-----------------------------------------------------------------------------
(* The purge of one block *)

\* The dates of every reservation are a range.
LEMMA TripFacts ==
    ASSUME TypeOK, NEW r \in Rids
    PROVE  /\ res[r].trip \in Ranges /\ res[r].trip \in Trips
           /\ res[r].trip.car \in Cars
           /\ res[r].trip.from \in Nat /\ res[r].trip.to \in Nat
           /\ res[r].trip.from < res[r].trip.to
           /\ res[r].status \in Statuses \cup {"none"}
BY DeskTripsAssumption DEF TypeOK, Rows, Ranges

\* A nonempty set of naturals has a least element.
LEMMA Least ==
    ASSUME NEW T \in SUBSET Nat, T # {}
    PROVE  \E x \in T : \A y \in T : x <= y
<1> DEFINE Less == {p \in Nat \X Nat : p[1] < p[2]}
<1>1. IsWellFoundedOn(Less, Nat)
  BY NatLessThanWellFounded, Zenon DEF OpToRel
<1> HIDE DEF Less
<1>2. PICK x \in T : \A y \in T : ~(<<y, x>> \in Less)
  BY <1>1, WFMin, Zenon
<1>3. ASSUME NEW y \in T PROVE x <= y
  <2>1. x \in Nat /\ y \in Nat
    OBVIOUS
  <2>2. ~(y < x)
    BY <1>2, <2>1 DEF Less
  <2> QED
    BY <2>1, <2>2
<1> QED
  BY <1>3

\* Among the returns that cut a block there is a latest one.
LEMMA LatestReturn ==
    ASSUME TypeOK, NEW b, ClosedOn(b) # {}
    PROVE  \E r \in ClosedOn(b) :
               \A q \in ClosedOn(b) : res[q].trip.to <= res[r].trip.to
<1> DEFINE T == {now - res[q].trip.to : q \in ClosedOn(b)}
<1>1. \A q \in ClosedOn(b) :
          /\ q \in Rids /\ res[q].trip.to \in Nat /\ res[q].trip.to <= now
  BY TripFacts DEF ClosedOn
<1>2. now \in Nat
  BY DEF TypeOK
<1>3. T \in SUBSET Nat /\ T # {}
  BY <1>1, <1>2
<1>4. PICK x \in T : \A y \in T : x <= y
  BY <1>3, Least
<1>5. PICK r \in ClosedOn(b) : x = now - res[r].trip.to
  OBVIOUS
<1>6. ASSUME NEW q \in ClosedOn(b) PROVE res[q].trip.to <= res[r].trip.to
  <2>1. now - res[r].trip.to <= now - res[q].trip.to
    BY <1>4, <1>5
  <2> QED
    BY <2>1, <1>1, <1>2
<1> QED
  BY <1>6

\* The only block of a reservation's dates is a block.
LEMMA BlockFacts ==
    ASSUME NEW t \in Ranges
    PROVE  /\ BlockOf(t) \in Blocks
           /\ BlockOf(t).car = t.car /\ BlockOf(t).from = t.from
           /\ BlockOf(t).to = t.to /\ BlockOf(t).kind = "booking"
BY DEF Ranges, Blocks, BlockOf

\* A block is known by its car, its two ends and its kind.
LEMMA SameBlock ==
    ASSUME NEW a \in Blocks, NEW b \in Blocks,
           a.car = b.car, a.from = b.from, a.to = b.to, a.kind = b.kind
    PROVE  a = b
BY DEF Blocks

\* Stretching changes the end only, forward, and only of guarded blocks.
LEMMA Stretching ==
    ASSUME TypeOK, NEW b \in Blocks
    PROVE  /\ Extended(b) \in Blocks
           /\ Extended(b).car = b.car /\ Extended(b).from = b.from
           /\ Extended(b).kind = b.kind /\ b.to <= Extended(b).to
           /\ Extended(b).to \in {b.to, now + 1}
           /\ ~Guarded(b) => Extended(b) = b
           /\ Guarded(b) => now + 1 <= Extended(b).to
           /\ Guarded(b) => Guarded(Extended(b))
<1>1. now \in Nat /\ b.to \in Nat /\ b.from \in Nat /\ b.from < b.to
  BY DEF TypeOK, Blocks
<1>2. CASE Guarded(b)
  <2>1. Extended(b) = [b EXCEPT !.to = Later(b.to, now + 1)]
    BY <1>2 DEF Extended
  <2>2. /\ Later(b.to, now + 1) \in {b.to, now + 1}
        /\ b.to <= Later(b.to, now + 1) /\ now + 1 <= Later(b.to, now + 1)
    BY <1>1 DEF Later
  <2>3. /\ Extended(b).car = b.car /\ Extended(b).from = b.from
        /\ Extended(b).kind = b.kind /\ Extended(b).to = Later(b.to, now + 1)
        /\ Extended(b) \in Blocks
    BY <2>1, <2>2, <1>1 DEF Blocks
  <2>4. PICK r \in Rids : Out(r) /\ Overlaps(b, res[r].trip)
    BY <1>2 DEF Guarded
  <2>5. Overlaps(Extended(b), res[r].trip)
    BY <2>2, <2>3, <2>4, <1>1, TripFacts DEF Overlaps
  <2> QED
    BY <1>2, <2>2, <2>3, <2>4, <2>5 DEF Guarded
<1>3. CASE ~Guarded(b)
  BY <1>1, <1>3 DEF Extended
<1> QED
  BY <1>2, <1>3

\* Cutting changes the end only, backward, never of guarded blocks, and never
\* to before the return of a reservation whose time is over.
LEMMA Cutting ==
    ASSUME TypeOK, NEW b \in Blocks
    PROVE  /\ Clamped(b) \in Blocks
           /\ Clamped(b).car = b.car /\ Clamped(b).from = b.from
           /\ Clamped(b).kind = b.kind /\ Clamped(b).to <= b.to
           /\ Guarded(b) => Clamped(b) = b
           /\ ClosedOn(b) = {} => Clamped(b) = b
           /\ \A q \in ClosedOn(b) :
                  Clamped(b).to = b.to \/ res[q].trip.to <= Clamped(b).to
<1>1. now \in Nat /\ b.to \in Nat /\ b.from \in Nat /\ b.from < b.to
  BY DEF TypeOK, Blocks
<1>2. CASE Guarded(b) \/ ClosedOn(b) = {}
  BY <1>1, <1>2 DEF Clamped
<1>3. CASE ~Guarded(b) /\ ClosedOn(b) # {}
  <2> DEFINE last == CHOOSE r \in ClosedOn(b) :
                        \A q \in ClosedOn(b) : res[q].trip.to <= res[r].trip.to
             end == Earlier(b.to, res[last].trip.to)
  <2>1. /\ last \in ClosedOn(b)
        /\ \A q \in ClosedOn(b) : res[q].trip.to <= res[last].trip.to
    BY <1>3, LatestReturn
  <2>2. Clamped(b) = [b EXCEPT !.to = end]
    BY <1>3 DEF Clamped
  <2> HIDE DEF last
  <2>3. res[last].trip.to \in Nat /\ b.from < res[last].trip.to
    BY <2>1, TripFacts DEF ClosedOn, Overlaps
  <2>4. /\ end \in Nat /\ b.from < end /\ end <= b.to
        /\ end = b.to \/ end = res[last].trip.to
    BY <1>1, <2>3 DEF Earlier
  <2> HIDE DEF end
  <2>5. /\ Clamped(b) \in Blocks
        /\ Clamped(b).car = b.car /\ Clamped(b).from = b.from
        /\ Clamped(b).kind = b.kind /\ Clamped(b).to = end
    BY <2>2, <2>4, <1>1 DEF Blocks
  <2> QED
    BY <1>3, <2>1, <2>4, <2>5
<1> QED
  BY <1>2, <1>3

Trimmed(a) == Clamped(Extended(a))

\* The purge of a block: a guarded one is stretched, another one is cut.
LEMMA Trimming ==
    ASSUME TypeOK, NEW a \in Blocks
    PROVE  /\ Trimmed(a) \in Blocks
           /\ Trimmed(a).car = a.car /\ Trimmed(a).from = a.from
           /\ Trimmed(a).kind = a.kind /\ Trimmed(a).to <= Extended(a).to
           /\ Guarded(a) => Trimmed(a) = Extended(a)
           /\ ~Guarded(a) => Trimmed(a) = Clamped(a)
BY Stretching, Cutting DEF Trimmed

\* The purge leaves a rental that is out its block, and any current booking
\* the exact block, unless it is an accident.
LEMMA OwnSurvives ==
    ASSUME TypeOK, NEW a \in Blocks, NEW r \in Rids,
           NEW c \in {Trimmed(a), Clamped(a)}
    PROVE  /\ Out(r) /\ OwnBlock(a, r) => OwnBlock(c, r) /\ ~Ended(c)
           /\ Current(r) /\ a = BlockOf(res[r].trip) /\ r \notin Clipped({a.car})
                  => c = a /\ ~Ended(c)
<1>1. /\ now \in Nat /\ a.to \in Nat /\ a.from \in Nat /\ a.from < a.to
      /\ c \in Blocks /\ c.to \in Nat
      /\ Extended(a).to \in Nat
  BY Trimming, Cutting, Stretching DEF TypeOK, Blocks
<1>2. ASSUME Out(r), OwnBlock(a, r) PROVE OwnBlock(c, r) /\ ~Ended(c)
  <2>1. Overlaps(a, res[r].trip)
    BY <1>1, <1>2, TripFacts DEF OwnBlock, Overlaps
  <2>2. Guarded(a)
    BY <1>2, <2>1 DEF Guarded
  <2>3. c \in {Extended(a), a}
    BY <2>2, Trimming, Cutting
  <2>4. Guarded(c)
    BY <2>2, <2>3, Stretching
  <2>5. c.car = a.car /\ c.from = a.from /\ c.kind = a.kind /\ a.to <= c.to
    BY <1>1, <2>3, Stretching
  <2>6. OwnBlock(c, r)
    BY <1>1, <1>2, <2>5, TripFacts DEF OwnBlock
  <2> QED
    BY <2>4, <2>6 DEF Ended
<1>3. ASSUME Current(r), a = BlockOf(res[r].trip), r \notin Clipped({a.car})
      PROVE  c = a /\ ~Ended(c)
  <2>1. a.car = res[r].trip.car /\ a.from = res[r].trip.from
        /\ a.to = res[r].trip.to /\ now < a.to
    BY <1>3, BlockFacts, TripFacts DEF Current
  <2>2. Extended(a) = a
    <3>1. now + 1 <= a.to
      BY <1>1, <2>1
    <3>2. CASE Extended(a).to = now + 1
      BY <1>1, <3>1, <3>2, Stretching, SameBlock
    <3> QED
      BY <3>2, Stretching, SameBlock
  <2>3. CASE Out(r)
    <3>1. Overlaps(a, res[r].trip)
      BY <1>1, <2>1 DEF Overlaps
    <3> QED
      BY <1>1, <2>1, <2>2, <2>3, <3>1, Cutting DEF Trimmed, Guarded, Ended
  <2>4. CASE Upcoming(r)
    <3>1. ClosedOn(a) = {}
      <4> SUFFICES ASSUME NEW q \in ClosedOn(a) PROVE FALSE
        OBVIOUS
      <4>1. /\ res[q].status # "none" /\ ~Out(q) /\ res[q].trip.to <= now
            /\ Overlaps(res[q].trip, res[r].trip) /\ q \in Rids
        BY <2>1 DEF ClosedOn, Out, Overlaps
      <4> QED
        BY <4>1, <2>1, <2>4, <1>3 DEF Clipped
    <3> QED
      BY <1>1, <2>1, <2>2, <3>1, Cutting DEF Trimmed, Ended
  <2> QED
    BY <1>3, <2>3, <2>4 DEF Current, Booked
<1> QED
  BY <1>2, <1>3

\* Without accidents the purge leaves every booking block to a booking: the
\* one it was there for, or the rental whose open block it is.
LEMMA ExplainedSurvives ==
    ASSUME TypeOK, astray = {}, EachOwns, Disjoint(blocks),
           NEW a \in blocks, NEW r \in Rids, Explains(r, a),
           a.kind = "booking", Clipped({a.car}) = {},
           NEW c \in {Trimmed(a), Clamped(a)}
    PROVE  \E q \in Rids : Explains(q, c)
<1>1. a \in Blocks /\ c \in Blocks
  BY Trimming, Cutting DEF TypeOK
<1>2. /\ a.to \in Nat /\ a.from \in Nat /\ a.from < a.to /\ now \in Nat
      /\ c.car = a.car /\ c.from = a.from /\ c.to \in Nat
  BY <1>1, Trimming, Cutting DEF TypeOK, Blocks
<1>3. CASE Guarded(a)
  <2>1. PICK q \in Rids : Out(q) /\ Overlaps(a, res[q].trip)
    BY <1>3 DEF Guarded
  <2>2. PICK d \in blocks : OwnBlock(d, q)
    BY <2>1 DEF EachOwns, OwnsIn
  <2>3. Overlaps(a, d)
    <3>1. d.to \in Nat /\ res[q].trip.to <= d.to
      BY <2>2, TripFacts DEF TypeOK, Blocks, OwnBlock
    <3> QED
      BY <1>2, <2>1, <2>2, <3>1, TripFacts DEF Overlaps, OwnBlock
  <2>4. a = d
    BY <2>3 DEF Disjoint
  <2>5. Explains(q, c)
    BY <1>2, <2>1, <2>2, <2>4
    DEF Explains, OwnBlock, Out, Upcoming, OpenRentalStatuses, OpsStatuses
  <2> QED
    BY <2>5
<1>4. CASE ~Guarded(a)
  <2>1. c = Clamped(a)
    BY <1>1, <1>4, Trimming
  <2>2. CASE Upcoming(r) /\ ClosedOn(a) # {}
    <3>1. a.to = res[r].trip.to /\ a.from = res[r].trip.from
          /\ a.car = res[r].trip.car
      BY <2>2 DEF Explains
    <3>2. ~(now < res[r].trip.to)
      <4> SUFFICES ASSUME now < res[r].trip.to PROVE FALSE
        OBVIOUS
      <4>1. PICK q \in ClosedOn(a) : TRUE
        BY <2>2
      <4>2. /\ res[q].status # "none" /\ ~Out(q) /\ res[q].trip.to <= now
            /\ Overlaps(res[q].trip, res[r].trip) /\ q \in Rids
        BY <3>1 DEF ClosedOn, Out, Overlaps
      <4> QED
        BY <2>2, <3>1, <4>2 DEF Clipped
    <3>3. r \in ClosedOn(a)
      <4>1. Overlaps(a, res[r].trip)
        BY <1>2, <3>1 DEF Overlaps
      <4> QED
        BY <2>2, <3>2, <4>1, <1>2, TripFacts
        DEF ClosedOn, Upcoming, OpenRentalStatuses
    <3>4. c.to = a.to
      BY <1>1, <1>2, <2>1, <3>1, <3>3, Cutting
    <3> QED
      BY <1>2, <3>4 DEF Explains
  <2>3. CASE ~Upcoming(r)
    BY <1>2, <2>3 DEF Explains
  <2>4. CASE ClosedOn(a) = {}
    BY <1>1, <2>1, <2>4, Cutting
  <2> QED
    BY <2>2, <2>3, <2>4
<1> QED
  BY <1>3, <1>4

-----------------------------------------------------------------------------
(* The purge of a calendar *)

\* Each block that is left comes from a block of the same car.
LEMMA PurgeOrigin ==
    ASSUME NEW cars, NEW c \in Purged(cars)
    PROVE  \E a \in blocks :
               \/ a.car \notin cars /\ c = a
               \/ a.car \in cars /\ c = Trimmed(a)
BY DEF Purged, Trimmed

\* Where nothing is jammed, stretched blocks stay apart.
LEMMA StretchedApart ==
    ASSUME TypeOK, NEW cars, Disjoint(blocks), ~Jammed(cars),
           NEW a \in blocks, NEW b \in blocks, a # b, a.car \in cars
    PROVE  ~Overlaps(Trimmed(a), Trimmed(b)) /\ ~Overlaps(Trimmed(b), Trimmed(a))
<1>1. a \in Blocks /\ b \in Blocks
  BY DEF TypeOK
<1>2. /\ a.to \in Nat /\ a.from \in Nat /\ a.from < a.to
      /\ b.to \in Nat /\ b.from \in Nat /\ b.from < b.to
  BY <1>1 DEF Blocks
<1>3. /\ Extended(a) \in Blocks /\ Extended(b) \in Blocks
      /\ Trimmed(a) \in Blocks /\ Trimmed(b) \in Blocks
  BY <1>1, Stretching, Trimming
<1>4. /\ Extended(a).to \in Nat /\ Extended(b).to \in Nat
      /\ Trimmed(a).to \in Nat /\ Trimmed(b).to \in Nat
  BY <1>3 DEF Blocks
<1>5. CASE a.car = b.car
  <2>1. ~Overlaps(Extended(a), b) /\ ~Overlaps(Extended(b), a)
    BY <1>5 DEF Jammed
  <2>2. ~(a.from < b.to /\ b.from < Extended(a).to)
    BY <1>1, <1>5, <2>1, Stretching DEF Overlaps
  <2>3. ~(b.from < a.to /\ a.from < Extended(b).to)
    BY <1>1, <1>5, <2>1, Stretching DEF Overlaps
  <2>4. ~(a.from < Extended(b).to /\ b.from < Extended(a).to)
    BY <1>2, <1>4, <2>2, <2>3
  <2>5. /\ Trimmed(a).from = a.from /\ Trimmed(b).from = b.from
        /\ Trimmed(a).to <= Extended(a).to /\ Trimmed(b).to <= Extended(b).to
    BY <1>1, Trimming
  <2> QED
    BY <1>2, <1>4, <2>4, <2>5 DEF Overlaps
<1>6. CASE a.car # b.car
  BY <1>1, <1>6, Trimming DEF Overlaps
<1> QED
  BY <1>5, <1>6

\* A calendar that stayed a calendar: its blocks apart, every booking that no
\* accident took it from with its block, and no ghost before an accident.
Intact(B, lost) ==
    /\ B \subseteq Blocks /\ Disjoint(B)
    /\ \A r \in Rids \ (astray \cup lost) : OwnsIn(B, r)
    /\ astray \cup lost = {} => GhostFree(B)

\* The purge of some cars inside a transaction.
LEMMA PurgedIntact ==
    ASSUME TypeOK, CalendarInv, GhostInv, NEW cars, ~Jammed(cars)
    PROVE  Intact(Purged(cars), Clipped(cars))
<1> DEFINE B == Purged(cars)
<1>1. blocks \subseteq Blocks
  BY DEF TypeOK
<1>2. B \subseteq Blocks
  BY <1>1, PurgeOrigin, Trimming
<1>3. ASSUME NEW c \in B, NEW d \in B, c # d PROVE ~Overlaps(c, d)
  <2>1. PICK a \in blocks : \/ a.car \notin cars /\ c = a
                            \/ a.car \in cars /\ c = Trimmed(a)
    BY PurgeOrigin
  <2>2. PICK b \in blocks : \/ b.car \notin cars /\ d = b
                            \/ b.car \in cars /\ d = Trimmed(b)
    BY PurgeOrigin
  <2>3. a # b
    BY <1>3, <2>1, <2>2
  <2>4. CASE a.car \in cars /\ b.car \in cars
    BY <2>1, <2>2, <2>3, <2>4, StretchedApart DEF CalendarInv
  <2>5. CASE a.car \notin cars /\ b.car \notin cars
    BY <2>1, <2>2, <2>3, <2>5 DEF CalendarInv, Disjoint
  <2>6. CASE (a.car \in cars) # (b.car \in cars)
    BY <1>1, <2>1, <2>2, <2>6, Trimming DEF Overlaps
  <2> QED
    BY <2>4, <2>5, <2>6
<1>4. ASSUME NEW a \in blocks, a.car \notin cars \/ ~Ended(Trimmed(a))
      PROVE  (IF a.car \in cars THEN Trimmed(a) ELSE a) \in B
  BY <1>4 DEF Purged, Trimmed
<1>5. ASSUME NEW r \in Rids \ (astray \cup Clipped(cars)) PROVE OwnsIn(B, r)
  <2>1. OwnsIn(blocks, r)
    BY DEF CalendarInv, EachOwns
  <2>2. ASSUME Current(r) PROVE BlockOf(res[r].trip) \in B
    <3> DEFINE a == BlockOf(res[r].trip)
    <3>1. a \in blocks /\ a \in Blocks
      BY <1>1, <2>1, <2>2 DEF OwnsIn
    <3>2. a.car \in cars => r \notin Clipped({a.car})
      BY <3>1 DEF Clipped
    <3> HIDE DEF a
    <3>3. a.car \in cars => Trimmed(a) = a /\ ~Ended(Trimmed(a))
      BY <2>2, <3>1, <3>2, OwnSurvives DEF a
    <3> QED
      BY <3>1, <3>3, <1>4 DEF a
  <2>3. ASSUME Out(r) PROVE \E b \in B : OwnBlock(b, r)
    <3>1. PICK a \in blocks : OwnBlock(a, r)
      BY <2>1, <2>3 DEF OwnsIn
    <3>2. OwnBlock(Trimmed(a), r) /\ ~Ended(Trimmed(a))
      BY <1>1, <2>3, <3>1, OwnSurvives
    <3> QED
      BY <3>1, <3>2, <1>4
  <2> QED
    BY <2>2, <2>3 DEF OwnsIn
<1>6. ASSUME astray \cup Clipped(cars) = {}, NEW c \in B, c.kind = "booking"
      PROVE  \E q \in Rids : Explains(q, c)
  <2>1. PICK a \in blocks : \/ a.car \notin cars /\ c = a
                            \/ a.car \in cars /\ c = Trimmed(a)
    BY PurgeOrigin
  <2>2. a.kind = "booking"
    BY <1>1, <1>6, <2>1, Trimming
  <2>3. PICK r \in Rids : Explains(r, a)
    BY <1>6, <2>2 DEF GhostInv, GhostFree
  <2>4. CASE a.car \notin cars
    BY <2>1, <2>3, <2>4
  <2>5. CASE a.car \in cars
    <3>1. Clipped({a.car}) = {}
      BY <1>6, <2>5 DEF Clipped
    <3> QED
      BY <1>6, <2>1, <2>2, <2>3, <2>5, <3>1, ExplainedSurvives DEF CalendarInv
  <2> QED
    BY <2>4, <2>5
<1> QED
  BY <1>2, <1>3, <1>5, <1>6 DEF Intact, Disjoint, GhostFree

\* The purge on its own, jammed or not.
LEMMA PurgedAloneIntact ==
    ASSUME TypeOK, CalendarInv, GhostInv
    PROVE  Intact(PurgedAlone, Clipped(Cars))
<1> DEFINE B == {b \in {Clamped(a) : a \in blocks} : ~Ended(b)}
<1>1. blocks \subseteq Blocks
  BY DEF TypeOK
<1>2. CASE Jammed(Cars)
  <2>1. PurgedAlone = B
    BY <1>2 DEF PurgedAlone
  <2>2. \A c \in B : \E a \in blocks : c = Clamped(a)
    OBVIOUS
  <2>3. \A a \in blocks : a.car \in Cars /\ (~Ended(Clamped(a)) => Clamped(a) \in B)
    BY <1>1 DEF Blocks
  <2> HIDE DEF B
  <2>4. B \subseteq Blocks
    BY <1>1, <2>2, Cutting
  <2>5. ASSUME NEW c \in B, NEW d \in B, c # d PROVE ~Overlaps(c, d)
    <3>1. PICK a \in blocks : c = Clamped(a)
      BY <2>2
    <3>2. PICK b \in blocks : d = Clamped(b)
      BY <2>2
    <3>3. ~Overlaps(a, b)
      BY <2>5, <3>1, <3>2 DEF CalendarInv, Disjoint
    <3>4. /\ a \in Blocks /\ b \in Blocks /\ c \in Blocks /\ d \in Blocks
          /\ c.to <= a.to /\ d.to <= b.to /\ c.from = a.from /\ d.from = b.from
          /\ c.car = a.car /\ d.car = b.car
      BY <1>1, <2>4, <3>1, <3>2, Cutting
    <3> QED
      BY <3>3, <3>4 DEF Overlaps, Blocks
  <2>6. ASSUME NEW r \in Rids \ (astray \cup Clipped(Cars)) PROVE OwnsIn(B, r)
    <3>1. OwnsIn(blocks, r)
      BY DEF CalendarInv, EachOwns
    <3>2. ASSUME Current(r) PROVE BlockOf(res[r].trip) \in B
      <4> DEFINE a == BlockOf(res[r].trip)
      <4>1. a \in blocks /\ a \in Blocks
        BY <1>1, <3>1, <3>2 DEF OwnsIn
      <4>2. r \notin Clipped({a.car})
        BY <2>3, <4>1 DEF Clipped
      <4> HIDE DEF a
      <4>3. Clamped(a) = a /\ ~Ended(Clamped(a))
        BY <3>2, <4>1, <4>2, OwnSurvives DEF a
      <4> QED
        BY <2>3, <4>1, <4>3 DEF a
    <3>3. ASSUME Out(r) PROVE \E b \in B : OwnBlock(b, r)
      <4>1. PICK a \in blocks : OwnBlock(a, r)
        BY <3>1, <3>3 DEF OwnsIn
      <4>2. OwnBlock(Clamped(a), r) /\ ~Ended(Clamped(a))
        BY <1>1, <3>3, <4>1, OwnSurvives
      <4> QED
        BY <2>3, <4>1, <4>2
    <3> QED
      BY <3>2, <3>3 DEF OwnsIn
  <2>7. ASSUME astray \cup Clipped(Cars) = {}, NEW c \in B, c.kind = "booking"
        PROVE  \E q \in Rids : Explains(q, c)
    <3>1. PICK a \in blocks : c = Clamped(a)
      BY <2>2
    <3>2. a.kind = "booking"
      BY <1>1, <2>7, <3>1, Cutting
    <3>3. PICK r \in Rids : Explains(r, a)
      BY <2>7, <3>2 DEF GhostInv, GhostFree
    <3>4. Clipped({a.car}) = {}
      BY <2>3, <2>7 DEF Clipped
    <3> QED
      BY <2>7, <3>1, <3>2, <3>3, <3>4, ExplainedSurvives DEF CalendarInv
  <2> QED
    BY <2>1, <2>4, <2>5, <2>6, <2>7 DEF Intact, Disjoint, GhostFree
<1>3. CASE ~Jammed(Cars)
  BY <1>3, PurgedIntact DEF PurgedAlone
<1> QED
  BY <1>2, <1>3

-----------------------------------------------------------------------------
(* Types *)

\* No row and no request exists at the start.
LEMMA TypeInit == Init => TypeInv
<1>1. SomeTrip \in Trips
  BY DeskTripsAssumption DEF SomeTrip
<1> QED
  BY <1>1 DEF Init, TypeInv, TypeOK, OrdersLinked, ClerksInformed, ReadOrder,
       ReadRow, Rows, Docs, NoRow, NoDoc, Requests, Idle, FleetStatuses, Blocks

\* The constants of the types.
LEMMA Constants ==
    /\ SomeTrip \in Trips /\ NoRow \in Rows /\ NoDoc \in Docs
    /\ Idle \in Requests /\ Idle.pc = "idle"
    /\ StaffStatuses \subseteq Statuses
    /\ "none" \notin Statuses
<1>1. SomeTrip \in Trips
  BY DeskTripsAssumption DEF SomeTrip
<1>2. StaffStatuses \subseteq Statuses
  BY DeskStaffAssumption
  DEF AdminOpsStatuses, OpsStatuses, Statuses
<1> QED
  BY <1>1, <1>2 DEF Rows, Docs, NoRow, NoDoc, Requests, Idle, Statuses,
     ActiveHoldStatuses, OpsStatuses

\* Rows come and stay.
RowsStay ==
    /\ \A r \in Rids : res[r].status # "none" => res'[r].status # "none"
    /\ \A o \in Oids : orders[o].state # "none" => orders'[o].state # "none"

\* What requests have read stays linked while rows stay.
LEMMA ClerksKept ==
    ASSUME ClerksInformed, RowsStay,
           \A k \in Clerks : clerk'[k] = clerk[k] \/ clerk'[k] = Idle
    PROVE  ClerksInformed'
<1> SUFFICES ASSUME NEW k \in Clerks
             PROVE  ReadOrder(clerk[k])' /\ ReadRow(clerk[k])'
  BY DEF ClerksInformed
<1>1. CASE clerk'[k] = clerk[k]
  BY <1>1 DEF ClerksInformed, RowsStay, ReadOrder, ReadRow, Linked
<1>2. CASE clerk'[k] = Idle
  BY <1>2 DEF ReadOrder, ReadRow, Idle
<1> QED
  BY <1>1, <1>2

\* Orders keep their links while rows stay.
LEMMA OrdersKept ==
    ASSUME OrdersLinked, RowsStay,
           \A o \in Oids : orders'[o].state # "none" =>
               orders[o].state # "none" /\ orders'[o].rid = orders[o].rid
    PROVE  OrdersLinked'
BY DEF OrdersLinked, RowsStay, Linked

\* The fleet status after a change is a fleet status.
LEMMA FleetType ==
    ASSUME TypeOK, NEW r \in Rids, NEW new
    PROVE  FleetAfter(r, new) \in [Cars -> FleetStatuses]
BY TripFacts DEF TypeOK, FleetAfter, FleetStatuses

\* A released calendar is a part of the calendar.
LEMMA ReleaseShrinks ==
    ASSUME NEW B, NEW t PROVE ReleaseRange(B, t) \subseteq B
BY DEF ReleaseRange

\* The accidents are reservations.
LEMMA AccidentTypes ==
    ASSUME NEW q, NEW t, NEW cars
    PROVE  Robbed(q, t) \subseteq Rids /\ Clipped(cars) \subseteq Rids
BY DEF Robbed, Clipped

\* A change of status keeps the types.
LEMMA ChangeType ==
    ASSUME TypeInv, NEW r \in Rids, NEW new \in Statuses,
           WriteStatus(r, new), UNCHANGED <<now, desk>>,
           fleet' = fleet \/ fleet' = FleetAfter(r, new)
    PROVE  TypeInv'
<1> USE DEF TypeInv
<1>1. res' = [res EXCEPT ![r].status = new] /\ res[r].status # "none"
  BY Constants DEF WriteStatus, CanTransition
<1>2. res' \in [Rids -> Rows]
  BY <1>1 DEF TypeOK, Rows
<1>3. fleet' \in [Cars -> FleetStatuses]
  BY FleetType DEF TypeOK
<1>4. blocks' \subseteq blocks
  BY ReleaseShrinks DEF WriteStatus
<1>5. /\ orders' \in [Oids -> Docs]
      /\ \A o \in Oids : orders'[o].rid = orders[o].rid
      /\ \A o \in Oids : orders'[o].state = "none" <=> orders[o].state = "none"
  <2>1. CASE orders' = orders
    BY <2>1 DEF TypeOK
  <2>2. CASE orders' = OrdersWithout(r)
    BY <2>2 DEF OrdersWithout, TypeOK, Docs
  <2> QED
    BY <2>1, <2>2 DEF WriteStatus
<1>6. astray' \subseteq Rids
  BY AccidentTypes DEF WriteStatus, LatePickup, TypeOK
<1>7. RowsStay
  BY <1>1, <1>5, Constants DEF RowsStay, TypeOK
<1>8. TypeOK'
  BY <1>2, <1>3, <1>4, <1>5, <1>6 DEF TypeOK, desk
<1>9. ClerksInformed'
  BY <1>7, ClerksKept DEF desk
<1>10. OrdersLinked'
  BY <1>5, <1>7, OrdersKept
<1> QED
  BY <1>8, <1>9, <1>10

\* The purge leaves blocks.
LEMMA PurgedType ==
    ASSUME TypeOK, NEW cars
    PROVE  Purged(cars) \subseteq Blocks /\ PurgedAlone \subseteq Blocks
<1>1. blocks \subseteq Blocks
  BY DEF TypeOK
<1>2. \A c : Purged(c) \subseteq Blocks
  BY <1>1, PurgeOrigin, Trimming
<1>3. CASE Jammed(Cars)
  BY <1>1, <1>2, <1>3, Cutting DEF PurgedAlone
<1>4. CASE ~Jammed(Cars)
  BY <1>2, <1>4 DEF PurgedAlone
<1> QED
  BY <1>2, <1>3, <1>4

\* The steps of a reservation keep the types.
LEMMA ReservationType ==
    ASSUME TypeInv, NEW r \in Rids, Reservation(r)
    PROVE  TypeInv'
<1> USE DEF TypeInv
<1>1. ASSUME NEW new \in Statuses, StaffStatus(r, new)
      PROVE  TypeInv'
  BY <1>1, ChangeType DEF StaffStatus, ChangeStatus
<1>2. ASSUME HoldEnds(r)
      PROVE  TypeInv'
  BY <1>2, ChangeType DEF HoldEnds, Statuses
<1>3. ASSUME NEW t \in Trips, HoldPlaced(r, t)
      PROVE  TypeInv'
  <2>1. res' \in [Rids -> Rows] /\ RowsStay
    BY <1>3 DEF HoldPlaced, TypeOK, Rows, RowsStay, Statuses, ActiveHoldStatuses
  <2> QED
    BY <1>3, <2>1, ClerksKept, OrdersKept DEF HoldPlaced, TypeOK, desk
<1>4. ASSUME NEW o \in Oids, Confirm(r, o)
      PROVE  TypeInv'
  <2> DEFINE t == res[r].trip
             d == [state |-> "live", rid |-> r, trip |-> t]
  <2>1. t \in Trips /\ t \in Ranges /\ d \in Docs
    BY TripFacts DEF Docs
  <2>2. /\ res' \in [Rids -> Rows] /\ res'[r].status # "none"
        /\ \A q \in Rids : res[q].status # "none" => res'[q].status # "none"
    BY <1>4 DEF Confirm, TypeOK, Rows, Statuses, OpsStatuses
  <2> HIDE DEF t, d
  <2>3. orders' = [orders EXCEPT ![o] = d]
    BY <1>4 DEF Confirm, d, t
  <2>4. d.state = "live" /\ d.rid = r
    BY DEF d
  <2>5. orders' \in [Oids -> Docs] /\ RowsStay /\ OrdersLinked'
    BY <2>1, <2>2, <2>3, <2>4 DEF TypeOK, RowsStay, OrdersLinked, Linked
  <2>6. blocks' \subseteq Blocks
    BY <1>4, <2>1, PurgedType, BlockFacts DEF Confirm, t
  <2>7. fleet' \in [Cars -> FleetStatuses] /\ astray' \subseteq Rids
    BY <1>4, FleetType, AccidentTypes DEF Confirm, TypeOK
  <2>8. TypeOK'
    BY <1>4, <2>2, <2>5, <2>6, <2>7 DEF Confirm, TypeOK, desk
  <2> QED
    BY <1>4, <2>5, <2>8, ClerksKept DEF Confirm, desk
<1>5. ASSUME NEW o \in Oids, NEW t \in Trips, CreateOrder(r, o, t)
      PROVE  TypeInv'
  <2> DEFINE d == [state |-> "live", rid |-> r, trip |-> t]
             row == [status |-> "confirmed", trip |-> t]
  <2>1. t \in Ranges /\ d \in Docs /\ row \in Rows
    BY DeskTripsAssumption DEF Docs, Rows, Statuses, OpsStatuses
  <2>2. d.state = "live" /\ d.rid = r /\ row.status = "confirmed"
    OBVIOUS
  <2> HIDE DEF d, row
  <2>3. res' = [res EXCEPT ![r] = row] /\ orders' = [orders EXCEPT ![o] = d]
    BY <1>5 DEF CreateOrder, d, row
  <2>4. /\ res' \in [Rids -> Rows] /\ orders' \in [Oids -> Docs]
        /\ RowsStay /\ OrdersLinked'
    BY <2>1, <2>2, <2>3 DEF TypeOK, RowsStay, OrdersLinked, Linked
  <2>5. blocks' \subseteq Blocks
    BY <1>5, <2>1, PurgedType, BlockFacts DEF CreateOrder
  <2>6. TypeOK'
    BY <1>5, <2>4, <2>5, AccidentTypes DEF CreateOrder, TypeOK, desk
  <2> QED
    BY <1>5, <2>4, <2>6, ClerksKept DEF CreateOrder, desk
<1>6. ASSUME NEW o \in Oids, RestoreOrder(o, r)
      PROVE  TypeInv'
  <2> DEFINE t == orders[o].trip
             q == RestoredLink(o, r)
             row == [status |-> "confirmed", trip |-> t]
  <2>1. t \in Ranges /\ t \in Trips /\ row \in Rows /\ q \in Rids
        /\ orders[o].rid \in Rids /\ res[orders[o].rid].status # "none"
    BY <1>6, DeskTripsAssumption
    DEF RestoreOrder, RestoredLink, OrdersLinked, Linked, TypeOK, Docs, Rows,
        Statuses, OpsStatuses
  <2>2. row.status = "confirmed" /\ (q # r => q = orders[o].rid)
    BY DEF RestoredLink
  <2> HIDE DEF t, q, row
  <2>3. /\ orders' = [orders EXCEPT ![o].state = "live", ![o].rid = q]
        /\ res' = IF q = r THEN [res EXCEPT ![r] = row]
                  ELSE [res EXCEPT ![q].trip = t]
        /\ blocks' = Purged({t.car}) \cup {BlockOf(t)}
        /\ astray' = astray \cup Clipped({t.car})
                            \cup (IF q = r THEN {} ELSE {q})
        /\ UNCHANGED <<now, fleet, desk>>
    BY <1>6 DEF RestoreOrder, t, q, row
  <2>4. /\ orders' \in [Oids -> Docs]
        /\ orders'[o].state = "live" /\ orders'[o].rid = q
        /\ \A p \in Oids \ {o} : orders'[p] = orders[p]
    BY <2>1, <2>3 DEF TypeOK, Docs
  <2>5. /\ res' \in [Rids -> Rows] /\ res'[q].status # "none"
        /\ \A x \in Rids : res[x].status # "none" => res'[x].status # "none"
    <3>1. CASE q = r
      BY <2>1, <2>2, <2>3, <3>1 DEF TypeOK
    <3>2. CASE q # r
      BY <2>1, <2>2, <2>3, <3>2 DEF TypeOK, Rows
    <3> QED
      BY <3>1, <3>2
  <2>6. RowsStay /\ OrdersLinked'
    BY <2>1, <2>4, <2>5 DEF RowsStay, OrdersLinked, Linked
  <2>7. blocks' \subseteq Blocks /\ astray' \subseteq Rids
    BY <2>1, <2>3, PurgedType, BlockFacts, AccidentTypes DEF TypeOK
  <2>8. TypeOK'
    BY <2>3, <2>4, <2>5, <2>7 DEF TypeOK, desk
  <2> QED
    BY <2>3, <2>6, <2>8, ClerksKept DEF desk
<1> QED
  BY <1>1, <1>2, <1>3, <1>4, <1>5, <1>6 DEF Reservation

\* What is left of the calendar when an edit or a move takes its old block out.
LEMMA RestType ==
    ASSUME TypeOK, NEW k
    PROVE  EditRest(k) \subseteq Blocks /\ MoveRest(k) \subseteq Blocks
<1> DEFINE B == Purged({clerk[k].row.trip.car, clerk[k].goal.car})
<1>1. EditRest(k) \subseteq Blocks
  BY PurgedType DEF EditRest
<1>2. MoveRest(k) \subseteq B
  BY DEF MoveRest
<1>3. B \subseteq Blocks
  BY PurgedType
<1> QED
  BY <1>1, <1>2, <1>3

\* A request is a record of these parts.
LEMMA RequestFacts ==
    ASSUME TypeOK, NEW k \in Clerks
    PROVE  /\ clerk[k] \in Requests
           /\ clerk[k].doc \in Docs /\ clerk[k].row \in Rows
           /\ clerk[k].goal \in Trips /\ clerk[k].goal \in Ranges
           /\ clerk[k].doc.trip \in Ranges /\ clerk[k].row.trip \in Ranges
BY DeskTripsAssumption DEF TypeOK, Requests, Docs, Rows

\* The steps of a request keep the types.
LEMMA ClerkType ==
    ASSUME TypeInv, NEW k \in Clerks, Clerk(k)
    PROVE  TypeInv'
<1> USE DEF TypeInv
<1>1. ASSUME NEW o \in Oids, NEW t \in Trips, EditRead(k, o, t)
      PROVE  TypeInv'
  <2> DEFINE e == [pc |-> "edit", oid |-> o, doc |-> orders[o],
                   rid |-> orders[o].rid, row |-> NoRow, goal |-> t,
                   force |-> FALSE]
  <2>1. /\ clerk' = [clerk EXCEPT ![k] = e] /\ asked' = asked + 1
        /\ UNCHANGED <<now, rows>> /\ orders[o].state # "none"
    BY <1>1 DEF EditRead
  <2>2. e \in Requests
    BY Constants DEF Requests, TypeOK, Docs
  <2>3. /\ e.pc = "edit" /\ e.oid = o /\ e.doc = orders[o]
        /\ e.rid = orders[o].rid
    OBVIOUS
  <2> HIDE DEF e
  <2>4. TypeOK' /\ OrdersLinked'
    BY <2>1, <2>2 DEF TypeOK, rows, OrdersLinked, Linked
  <2>5. ClerksInformed'
    BY <2>1, <2>3
    DEF TypeOK, rows, ClerksInformed, ReadOrder, ReadRow, OrdersLinked, Linked
  <2> QED
    BY <2>4, <2>5
<1>2. ASSUME EditSync(k)
      PROVE  TypeInv'
  <2>1. /\ clerk[k].pc = "edit" /\ UNCHANGED <<now, rows, asked>>
        /\ clerk' = [clerk EXCEPT ![k].pc = "sync",
                                 ![k].row = res[clerk[k].rid]]
    BY <1>2 DEF EditSync
  <2>2. /\ clerk[k].rid \in Rids /\ res[clerk[k].rid] \in Rows
        /\ res[clerk[k].rid].status # "none"
    BY <2>1 DEF ClerksInformed, ReadOrder, Linked, TypeOK
  <2>3. /\ clerk' \in [Clerks -> Requests]
        /\ clerk'[k].pc = "sync" /\ clerk'[k].row = res[clerk[k].rid]
        /\ clerk'[k].oid = clerk[k].oid /\ clerk'[k].doc = clerk[k].doc
        /\ clerk'[k].rid = clerk[k].rid
        /\ \A x \in Clerks \ {k} : clerk'[x] = clerk[x]
    BY <2>1, <2>2 DEF TypeOK, Requests
  <2>4. TypeOK' /\ OrdersLinked'
    BY <2>1, <2>3 DEF TypeOK, rows, OrdersLinked, Linked
  <2>5. ReadOrder(clerk[k])' /\ ReadRow(clerk[k])'
    BY <2>1, <2>2, <2>3
    DEF ClerksInformed, ReadOrder, ReadRow, Linked, rows
  <2>6. ClerksInformed'
    BY <2>1, <2>3, <2>5
    DEF ClerksInformed, ReadOrder, ReadRow, Linked, rows
  <2> QED
    BY <2>4, <2>6
<1>3. ASSUME EditCommit(k)
      PROVE  TypeInv'
  <2> DEFINE e == clerk[k]
             d == [e.doc EXCEPT !.trip = e.goal]
             row == [e.row EXCEPT !.trip = e.goal]
  <2>1. /\ e.pc = "sync" /\ e \in Requests
        /\ e.oid \in Oids /\ e.rid \in Rids /\ Linked(e.doc)
        /\ e.doc.state # "none" /\ e.row.status # "none"
        /\ orders[e.oid].rid \in Rids
    BY <1>3 DEF EditCommit, ClerksInformed, ReadOrder, ReadRow, TypeOK,
         OrdersLinked, Linked
  <2>2. /\ d \in Docs /\ d.state = e.doc.state /\ d.rid = e.doc.rid
        /\ row \in Rows /\ row.status = e.row.status
    BY <2>1 DEF Requests, Docs, Rows
  <2>3. /\ orders' = [orders EXCEPT ![e.oid] = d]
        /\ res' = [res EXCEPT ![e.rid] = row]
        /\ clerk' = [clerk EXCEPT ![k] = Idle]
        /\ UNCHANGED <<now, fleet, asked>>
    BY <1>3 DEF EditCommit
  <2>4. blocks' \subseteq Blocks
    <3>1. BlockOf(e.goal) \in Blocks
      BY RequestFacts, BlockFacts
    <3> QED
      BY <1>3, <3>1, RestType DEF EditCommit, TypeOK
  <2>5. astray' \subseteq Rids
    BY <1>3, <2>1, AccidentTypes DEF EditCommit, TypeOK
  <2> HIDE DEF e, d, row
  <2>6. /\ res' \in [Rids -> Rows] /\ orders' \in [Oids -> Docs]
        /\ RowsStay /\ OrdersLinked'
    BY <2>1, <2>2, <2>3 DEF TypeOK, RowsStay, OrdersLinked, Linked
  <2>7. TypeOK'
    BY <2>3, <2>4, <2>5, <2>6, Constants DEF TypeOK
  <2>8. ClerksInformed'
    BY <2>3, <2>6, ClerksKept DEF TypeOK
  <2> QED
    BY <2>6, <2>7, <2>8
<1>4. ASSUME GiveUp(k)
      PROVE  TypeInv'
  <2>1. TypeOK' /\ OrdersLinked'
    BY <1>4, Constants DEF GiveUp, TypeOK, rows, OrdersLinked, Linked
  <2>2. ClerksInformed'
    BY <1>4, ClerksKept DEF GiveUp, TypeOK, rows, RowsStay
  <2> QED
    BY <2>1, <2>2
<1>5. ASSUME NEW r \in Rids, NEW t \in Trips, NEW f \in Forces,
             MoveRead(k, r, t, f)
      PROVE  TypeInv'
  <2> DEFINE e == [pc |-> "move", oid |-> NoOid, doc |-> NoDoc, rid |-> r,
                   row |-> res[r], goal |-> t, force |-> f]
  <2>1. /\ clerk' = [clerk EXCEPT ![k] = e] /\ asked' = asked + 1
        /\ UNCHANGED <<now, rows>> /\ res[r].status # "none"
    BY <1>5 DEF MoveRead
  <2>2. e \in Requests
    BY Constants, DeskForceAssumption DEF Requests, TypeOK
  <2>3. e.pc = "move" /\ e.rid = r /\ e.row = res[r]
    OBVIOUS
  <2> HIDE DEF e
  <2>4. TypeOK' /\ OrdersLinked'
    BY <2>1, <2>2 DEF TypeOK, rows, OrdersLinked, Linked
  <2>5. ClerksInformed'
    BY <2>1, <2>3 DEF TypeOK, rows, ClerksInformed, ReadOrder, ReadRow, Linked
  <2> QED
    BY <2>4, <2>5
<1>6. ASSUME MoveCommit(k)
      PROVE  TypeInv'
  <2> DEFINE m == clerk[k]
             row == [m.row EXCEPT !.trip = m.goal]
  <2>1. /\ m.pc = "move" /\ m \in Requests
        /\ m.rid \in Rids /\ m.row.status # "none"
    BY <1>6 DEF MoveCommit, ClerksInformed, ReadRow, TypeOK
  <2>2. row \in Rows /\ row.status = m.row.status
    BY <2>1 DEF Requests, Rows
  <2>3. /\ res' = [res EXCEPT ![m.rid] = row]
        /\ clerk' = [clerk EXCEPT ![k] = Idle]
        /\ UNCHANGED <<now, fleet, asked>>
        /\ orders' = [o \in Oids |->
                        IF orders[o].rid = m.rid /\ orders[o].state = "live"
                        THEN [orders[o] EXCEPT !.trip = m.goal] ELSE orders[o]]
    BY <1>6 DEF MoveCommit
  <2>4. blocks' \subseteq Blocks
    <3>1. BlockOf(m.goal) \in Blocks
      BY RequestFacts, BlockFacts
    <3> QED
      BY <1>6, <3>1, RestType DEF MoveCommit
  <2>5. astray' \subseteq Rids
    BY <1>6, <2>1, AccidentTypes DEF MoveCommit, TypeOK
  <2>6. m.goal \in Trips
    BY <2>1 DEF Requests
  <2> HIDE DEF m, row
  <2>7. /\ orders' \in [Oids -> Docs]
        /\ \A o \in Oids : /\ orders'[o].rid = orders[o].rid
                           /\ orders'[o].state = orders[o].state
    BY <2>3, <2>6 DEF TypeOK, Docs
  <2>8. res' \in [Rids -> Rows] /\ RowsStay
    BY <2>1, <2>2, <2>3, <2>7 DEF TypeOK, RowsStay
  <2>9. TypeOK'
    BY <2>3, <2>4, <2>5, <2>7, <2>8, Constants DEF TypeOK
  <2>10. ClerksInformed'
    BY <2>3, <2>8, ClerksKept DEF TypeOK
  <2> QED
    BY <2>7, <2>8, <2>9, <2>10, OrdersKept
<1> QED
  BY <1>1, <1>2, <1>3, <1>4, <1>5, <1>6 DEF Clerk

\* A manual block is a block.
LEMMA ManualFacts ==
    ASSUME NEW t \in Ranges
    PROVE  /\ ManualBlock(t) \in Blocks
           /\ ManualBlock(t).car = t.car /\ ManualBlock(t).from = t.from
           /\ ManualBlock(t).to = t.to /\ ManualBlock(t).kind = "manual"
BY DEF Ranges, Blocks, BlockOf, ManualBlock

\* Every step keeps the types and the links.
LEMMA TypeStep == TypeInv /\ [Next]_vars => TypeInv'
<1> SUFFICES ASSUME TypeInv, [Next]_vars
             PROVE  TypeInv'
  OBVIOUS
<1> USE DEF TypeInv
<1>1. ASSUME NEW r \in Rids, Reservation(r) PROVE TypeInv'
  BY <1>1, ReservationType
<1>2. ASSUME NEW k \in Clerks, Clerk(k) PROVE TypeInv'
  BY <1>2, ClerkType
<1>3. ASSUME NEW o \in Oids, DeleteOrder(o) PROVE TypeInv'
  <2>1. orders[o].rid \in Rids /\ "cancelled" \in Statuses
    BY <1>3 DEF DeleteOrder, OrdersLinked, Linked, Statuses
  <2> QED
    BY <1>3, <2>1, ChangeType DEF DeleteOrder, ChangeStatus
<1>4. ASSUME blocks' \subseteq Blocks, astray' \subseteq Rids, now' \in Nat,
             fleet' \in [Cars -> FleetStatuses], UNCHANGED <<res, orders, desk>>
      PROVE  TypeInv'
  <2>1. TypeOK' /\ OrdersLinked'
    BY <1>4 DEF TypeOK, desk, OrdersLinked, Linked
  <2>2. ClerksInformed'
    BY <1>4, ClerksKept DEF desk, RowsStay
  <2> QED
    BY <2>1, <2>2
<1>5. CASE \E t \in Trips : BlockCreate(t)
  BY <1>4, <1>5, ManualFacts, DeskTripsAssumption DEF BlockCreate, TypeOK
<1>6. CASE \E b \in blocks : BlockDelete(b) \/ \E t \in Trips : BlockMove(b, t)
  BY <1>4, <1>6, ManualFacts, DeskTripsAssumption
  DEF BlockDelete, BlockMove, TypeOK
<1>7. CASE Tick
  BY <1>4, <1>7 DEF Tick, TypeOK, rows
<1>8. CASE Purge
  BY <1>4, <1>8, PurgedType, AccidentTypes DEF Purge, TypeOK
<1>9. CASE \E c \in Cars, s \in FleetChoices : SetFleet(c, s)
  BY <1>4, <1>9, DeskFleetAssumption DEF SetFleet, TypeOK
<1>10. CASE UNCHANGED vars
  BY <1>4, <1>10 DEF vars, rows, TypeOK
<1> QED
  BY <1>1, <1>2, <1>3, <1>5, <1>6, <1>7, <1>8, <1>9, <1>10 DEF Next

\* The tables of the desk keep their types, and no order and no request in
\* flight names a reservation that does not exist.
THEOREM DeskTypes == Spec => [](TypeOK /\ OrdersLinked)
<1>1. Spec => []TypeInv
  BY TypeInit, TypeStep, PTL DEF Spec
<1>2. TypeInv => TypeOK /\ OrdersLinked
  BY DEF TypeInv
<1> QED
  BY <1>1, <1>2, PTL

-----------------------------------------------------------------------------
(* Orders follow their reservations *)

\* A booking is left for another booking status, a no-show or the end; a hold,
\* or what is none of the two, never becomes a booking by itself.
LEMMA StatusFacts ==
    ASSUME NEW old, NEW new, CanTransition(old, new), old # new
    PROVE  /\ old \in OpsStatuses \cup {"no_show"} =>
                  new \in OpsStatuses \cup {"no_show", "cancelled", "refunded"}
           /\ new \in OpenRentalStatuses =>
                  \/ new = "picked_up" /\ old = "car_prepared"
                  \/ old \in OpenRentalStatuses
           /\ new = "car_prepared" => old = "confirmed"
           /\ new \in OpsStatuses \ {"confirmed"} => old \in OpsStatuses
           /\ new = "returned" => old \in OpenRentalStatuses
           /\ old \in OpenRentalStatuses => new \in OpenRentalStatuses \cup {"returned"}
BY DEF CanTransition, Transitions, Statuses, OpsStatuses, OpenRentalStatuses,
       ActiveHoldStatuses

\* How the kinds of status lie to one another.
LEMMA StatusKinds ==
    /\ OpsStatuses \cap ActiveHoldStatuses = {}
    /\ OpsStatuses \cap {"none", "expired", "no_show"} = {}
    /\ OpsStatuses \cap ReleasingStatuses = {}
    /\ "no_show" \notin ActiveHoldStatuses
    /\ {"confirmed", "car_prepared"} \subseteq OpsStatuses
    /\ OpenRentalStatuses \subseteq OpsStatuses \ {"confirmed", "car_prepared"}
    /\ {"cancelled", "refunded"} \subseteq ReleasingStatuses
BY DEF OpsStatuses, ActiveHoldStatuses, ReleasingStatuses, OpenRentalStatuses

\* Nothing at the start.
LEMMA LinkInit == Init => LinkInv
BY DEF Init, NoDoc, LinkInv, OneOrder, OrderFollowsReservation

\* Links survive when orders only keep or lose their life, unless the
\* reservation of a live one changes.
LEMMA LinkKept ==
    ASSUME LinkInv, astray \subseteq astray',
           \A o \in Oids :
               /\ orders'[o].rid = orders[o].rid
               /\ orders'[o].state # "none" => orders[o].state # "none"
               /\ orders'[o].state = "live" =>
                      /\ orders'[o] = orders[o]
                      /\ orders[o].rid \notin astray' =>
                             res'[orders[o].rid] = res[orders[o].rid]
    PROVE  LinkInv'
<1>1. OneOrder'
  BY DEF LinkInv, OneOrder
<1>2. OrderFollowsReservation'
  BY DEF LinkInv, OrderFollowsReservation
<1> QED
  BY <1>1, <1>2 DEF LinkInv

\* A change of status takes the order along when it ends the booking.
LEMMA LinkChange ==
    ASSUME TypeInv, LinkInv, NEW r \in Rids, NEW new \in Statuses,
           WriteStatus(r, new)
    PROVE  LinkInv'
<1>1. /\ res' = [res EXCEPT ![r].status = new] /\ res[r].status # new
      /\ CanTransition(res[r].status, new) /\ astray \subseteq astray'
  BY DEF WriteStatus
<1>2. /\ res'[r].status = new /\ res'[r].trip = res[r].trip
      /\ \A q \in Rids \ {r} : res'[q] = res[q]
  BY <1>1 DEF TypeInv, TypeOK, Rows
<1>3. CASE new \in {"cancelled", "refunded"}
  <2>1. \A o \in Oids :
            /\ orders'[o].rid = orders[o].rid
            /\ orders'[o].state # "none" => orders[o].state # "none"
            /\ orders'[o].state = "live" =>
                   orders'[o] = orders[o] /\ orders[o].rid # r
    BY <1>3 DEF WriteStatus, OrdersWithout, TypeInv, TypeOK, Docs
  <2>2. \A o \in Oids : orders'[o].state = "live" => orders[o].rid \in Rids
    BY <2>1 DEF TypeInv, OrdersLinked, Linked
  <2> QED
    BY <1>1, <1>2, <2>1, <2>2, LinkKept
<1>4. CASE new \notin {"cancelled", "refunded"}
  <2>1. orders' = orders
    BY <1>4 DEF WriteStatus
  <2>2. OneOrder'
    BY <1>1, <2>1 DEF LinkInv, OneOrder
  <2>3. ASSUME NEW o \in Oids, orders[o].state = "live",
               orders[o].rid \notin astray'
        PROVE  /\ orders[o].trip = res'[orders[o].rid].trip
               /\ res'[orders[o].rid].status \in OpsStatuses \cup {"no_show"}
    <3>1. /\ orders[o].trip = res[orders[o].rid].trip
          /\ res[orders[o].rid].status \in OpsStatuses \cup {"no_show"}
          /\ orders[o].rid \in Rids
      BY <1>1, <2>3 DEF LinkInv, OrderFollowsReservation, TypeInv, OrdersLinked,
           Linked
    <3> QED
      BY <1>1, <1>2, <1>4, <3>1, StatusFacts
  <2> QED
    BY <2>1, <2>2, <2>3 DEF LinkInv, OrderFollowsReservation
<1> QED
  BY <1>3, <1>4

\* A new live order for a reservation that had none, and is confirmed.
LEMMA LinkBooked ==
    ASSUME TypeInv, LinkInv, astray \subseteq astray',
           NEW r \in Rids, NEW o \in Oids,
           \A x \in Oids : orders[x].state # "none" => orders[x].rid # r,
           \A q \in Rids \ {r} : res'[q] = res[q],
           \A x \in Oids \ {o} : orders'[x] = orders[x],
           orders'[o].rid = r, orders'[o].trip = res'[r].trip,
           res'[r].status = "confirmed"
    PROVE  LinkInv'
<1>1. \A x \in Oids : orders[x].state # "none" => orders[x].rid \in Rids
  BY DEF TypeInv, OrdersLinked, Linked
<1>2. OneOrder'
  BY DEF LinkInv, OneOrder
<1>3. OrderFollowsReservation'
  BY <1>1, StatusKinds DEF LinkInv, OrderFollowsReservation
<1> QED
  BY <1>2, <1>3 DEF LinkInv

\* What a purge and a new block of dates t leave of the calendar.
Blocked(t) ==
    /\ ~Jammed({t.car}) /\ Free(Purged({t.car}), t)
    /\ blocks' = Purged({t.car}) \cup {BlockOf(t)}

\* Reservation r, which was no booking and had no order, is confirmed for the
\* dates t with the order o.
Books(r, o, t) ==
    /\ res[r].status \notin OpsStatuses
    /\ \A x \in Oids : orders[x].state # "none" => orders[x].rid # r
    /\ res'[r].status = "confirmed" /\ res'[r].trip = t
    /\ \A q \in Rids \ {r} : res'[q] = res[q]
    /\ orders'[o].state = "live" /\ orders'[o].rid = r /\ orders'[o].trip = t
    /\ \A x \in Oids \ {o} : orders'[x] = orders[x]
    /\ Blocked(t) /\ now' = now
    /\ astray' = astray \cup Clipped({t.car})

\* The order o is restored with the reservation q it had, whatever that is.
RestoresKept(q, o, t) ==
    /\ res'[q].status = res[q].status
    /\ \A x \in Rids \ {q} : res'[x] = res[x]
    /\ orders[o].state # "none" /\ orders[o].rid = q /\ orders'[o].rid = q
    /\ \A x \in Oids \ {o} : orders'[x] = orders[x]
    /\ Blocked(t) /\ now' = now
    /\ astray' = astray \cup Clipped({t.car}) \cup {q}

\* A payment, a new order and a restored one are such bookings.
LEMMA Bookings ==
    ASSUME TypeInv, NEW r \in Rids, NEW o \in Oids
    PROVE  /\ Confirm(r, o) => Books(r, o, res[r].trip)
           /\ \A t \in Trips : CreateOrder(r, o, t) => Books(r, o, t)
           /\ RestoreOrder(o, r) =>
                  \/ Books(r, o, orders[o].trip)
                  \/ \E q \in Rids : RestoresKept(q, o, orders[o].trip)
<1>1. \A x \in Oids : orders[x].state # "none" => Linked(orders[x])
  BY DEF TypeInv, OrdersLinked
<1>2. ASSUME Confirm(r, o)
      PROVE  Books(r, o, res[r].trip)
  <2>1. res[r].status \notin OpsStatuses
    BY <1>2, StatusKinds DEF Confirm, Payable
  <2>2. res'[r].status = "confirmed" /\ res'[r].trip = res[r].trip
        /\ \A q \in Rids \ {r} : res'[q] = res[q]
    BY <1>2 DEF Confirm, TypeInv, TypeOK, Rows
  <2>3. /\ orders'[o].state = "live" /\ orders'[o].rid = r
        /\ orders'[o].trip = res[r].trip
        /\ \A x \in Oids \ {o} : orders'[x] = orders[x]
    BY <1>2 DEF Confirm, TypeInv, TypeOK
  <2> QED
    BY <1>2, <2>1, <2>2, <2>3 DEF Confirm, Books, Blocked
<1>3. ASSUME NEW t \in Trips, CreateOrder(r, o, t)
      PROVE  Books(r, o, t)
  <2>1. /\ res[r].status = "none" /\ res[r].status \notin OpsStatuses
        /\ \A x \in Oids : orders[x].state # "none" => orders[x].rid # r
    BY <1>1, <1>3, StatusKinds DEF CreateOrder, Linked
  <2>2. res'[r].status = "confirmed" /\ res'[r].trip = t
        /\ \A q \in Rids \ {r} : res'[q] = res[q]
    BY <1>3 DEF CreateOrder, TypeInv, TypeOK
  <2>3. /\ orders'[o].state = "live" /\ orders'[o].rid = r
        /\ orders'[o].trip = t
        /\ \A x \in Oids \ {o} : orders'[x] = orders[x]
    BY <1>3 DEF CreateOrder, TypeInv, TypeOK
  <2> QED
    BY <1>3, <2>1, <2>2, <2>3 DEF CreateOrder, Books, Blocked
<1>4. ASSUME RestoreOrder(o, r)
      PROVE  \/ Books(r, o, orders[o].trip)
             \/ \E q \in Rids : RestoresKept(q, o, orders[o].trip)
  <2> DEFINE t == orders[o].trip
             q == RestoredLink(o, r)
  <2>1. /\ orders[o].state = "deleted" /\ res[r].status = "none"
        /\ Blocked(t) /\ now' = now
        /\ orders' = [orders EXCEPT ![o].state = "live", ![o].rid = q]
        /\ res' = IF q = r
                  THEN [res EXCEPT ![r] = [status |-> "confirmed", trip |-> t]]
                  ELSE [res EXCEPT ![q].trip = t]
        /\ astray' = astray \cup Clipped({t.car})
                            \cup (IF q = r THEN {} ELSE {q})
    BY <1>4 DEF RestoreOrder, Blocked
  <2>2. /\ orders[o].rid \in Rids /\ res[orders[o].rid].status # "none"
        /\ q \in {r, orders[o].rid} /\ q \in Rids
    BY <1>1, <2>1 DEF RestoredLink, Linked
  <2> HIDE DEF q
  <2>3. /\ orders'[o].state = "live" /\ orders'[o].rid = q
        /\ orders'[o].trip = t
        /\ \A x \in Oids \ {o} : orders'[x] = orders[x]
    BY <2>1, <2>2 DEF TypeInv, TypeOK, Docs
  <2>4. CASE q = r
    <3>1. /\ res'[r].status = "confirmed" /\ res'[r].trip = t
          /\ \A x \in Rids \ {r} : res'[x] = res[x]
      BY <2>1, <2>4 DEF TypeInv, TypeOK
    <3>2. /\ res[r].status \notin OpsStatuses
          /\ \A x \in Oids : orders[x].state # "none" => orders[x].rid # r
      BY <1>1, <2>1, StatusKinds DEF Linked
    <3>3. astray' = astray \cup Clipped({t.car})
      BY <2>1, <2>4
    <3> QED
      BY <2>1, <2>3, <2>4, <3>1, <3>2, <3>3 DEF Books
  <2>5. CASE q # r
    <3>1. /\ res'[q].status = res[q].status
          /\ \A x \in Rids \ {q} : res'[x] = res[x]
      BY <2>1, <2>2, <2>5 DEF TypeInv, TypeOK, Rows
    <3> QED
      BY <2>1, <2>2, <2>3, <2>5, <3>1 DEF RestoresKept
  <2> QED
    BY <2>4, <2>5
<1> QED
  BY <1>2, <1>3, <1>4

\* The steps of a reservation keep the links.
LEMMA LinkReservation ==
    ASSUME TypeInv, LinkInv, NEW r \in Rids, Reservation(r)
    PROVE  LinkInv'
<1>1. \A o \in Oids : orders[o].state # "none" => Linked(orders[o])
  BY DEF TypeInv, OrdersLinked
<1>2. ASSUME NEW new \in Statuses, StaffStatus(r, new)
      PROVE  LinkInv'
  BY <1>2, LinkChange DEF StaffStatus, ChangeStatus
<1>3. ASSUME HoldEnds(r)
      PROVE  LinkInv'
  BY <1>3, LinkChange DEF HoldEnds, Statuses
<1>4. ASSUME NEW t \in Trips, HoldPlaced(r, t)
      PROVE  LinkInv'
  <2>1. \A o \in Oids : orders[o].state # "none" =>
            res'[orders[o].rid] = res[orders[o].rid]
    BY <1>1, <1>4 DEF HoldPlaced, Linked, TypeInv, TypeOK
  <2> QED
    BY <1>4, <2>1, LinkKept DEF HoldPlaced
<1>5. ASSUME NEW o \in Oids, NEW t, Books(r, o, t)
      PROVE  LinkInv'
  BY <1>5, LinkBooked DEF Books
<1>6. ASSUME NEW q \in Rids, NEW o \in Oids, NEW t, RestoresKept(q, o, t)
      PROVE  LinkInv'
  <2>1. q \in astray' /\ astray \subseteq astray'
    BY <1>6 DEF RestoresKept
  <2>2. OneOrder'
    BY <1>6, <2>1 DEF RestoresKept, LinkInv, OneOrder
  <2>3. OrderFollowsReservation'
    BY <1>1, <1>6, <2>1
    DEF RestoresKept, LinkInv, OrderFollowsReservation, Linked
  <2> QED
    BY <2>2, <2>3 DEF LinkInv
<1> QED
  BY <1>2, <1>3, <1>4, <1>5, <1>6, Bookings DEF Reservation

\* The rows that the commit of an edit writes.
LEMMA EditWrites ==
    ASSUME TypeInv, NEW k \in Clerks, EditCommit(k)
    PROVE  /\ clerk[k].oid \in Oids /\ clerk[k].rid \in Rids
           /\ orders[clerk[k].oid].state # "none"
           /\ orders[clerk[k].oid].rid \in Rids
           /\ clerk[k].doc.rid = clerk[k].rid
           /\ res'[clerk[k].rid].status = clerk[k].row.status
           /\ res'[clerk[k].rid].trip = clerk[k].goal
           /\ \A q \in Rids \ {clerk[k].rid} : res'[q] = res[q]
           /\ orders'[clerk[k].oid].rid = clerk[k].doc.rid
           /\ orders'[clerk[k].oid].state = clerk[k].doc.state
           /\ orders'[clerk[k].oid].trip = clerk[k].goal
           /\ \A x \in Oids \ {clerk[k].oid} : orders'[x] = orders[x]
           /\ astray \subseteq astray' /\ now' = now
           /\ EditSound(k) \/ {clerk[k].rid, orders[clerk[k].oid].rid} \subseteq astray'
<1> DEFINE e == clerk[k]
           d == [e.doc EXCEPT !.trip = e.goal]
           row == [e.row EXCEPT !.trip = e.goal]
<1>1. /\ e.pc = "sync" /\ e \in Requests
      /\ e.oid \in Oids /\ e.rid \in Rids /\ e.rid = e.doc.rid
      /\ orders[e.oid].state # "none" /\ orders[e.oid].rid \in Rids
  BY DEF EditCommit, TypeInv, ClerksInformed, ReadOrder, TypeOK, OrdersLinked,
     Linked
<1>2. /\ d.rid = e.doc.rid /\ d.state = e.doc.state /\ d.trip = e.goal
      /\ row.status = e.row.status /\ row.trip = e.goal
  BY <1>1 DEF Requests, Docs, Rows
<1>3. /\ orders' = [orders EXCEPT ![e.oid] = d]
      /\ res' = [res EXCEPT ![e.rid] = row]
  BY DEF EditCommit
<1>4. astray \subseteq astray' /\ now' = now
  BY DEF EditCommit
<1>5. EditSound(k) \/ {e.rid, orders[e.oid].rid} \subseteq astray'
  BY DEF EditCommit
<1> HIDE DEF e, d, row
<1>6. /\ orders'[e.oid] = d /\ res'[e.rid] = row
      /\ \A x \in Oids \ {e.oid} : orders'[x] = orders[x]
      /\ \A q \in Rids \ {e.rid} : res'[q] = res[q]
  BY <1>1, <1>3 DEF TypeInv, TypeOK
<1> QED
  BY <1>1, <1>2, <1>4, <1>5, <1>6 DEF e

\* The rows that the commit of a calendar move writes.
LEMMA MoveWrites ==
    ASSUME TypeInv, NEW k \in Clerks, MoveCommit(k)
    PROVE  /\ clerk[k].rid \in Rids
           /\ res'[clerk[k].rid].status = clerk[k].row.status
           /\ res'[clerk[k].rid].trip = clerk[k].goal
           /\ \A q \in Rids \ {clerk[k].rid} : res'[q] = res[q]
           /\ \A o \in Oids : /\ orders'[o].rid = orders[o].rid
                              /\ orders'[o].state = orders[o].state
           /\ \A o \in Oids :
                  orders[o].rid = clerk[k].rid /\ orders[o].state = "live"
                  => orders'[o].trip = clerk[k].goal
           /\ \A o \in Oids : orders[o].rid # clerk[k].rid
                  => orders'[o] = orders[o]
           /\ astray \subseteq astray' /\ now' = now
           /\ Sound(k) \/ clerk[k].rid \in astray'
<1> DEFINE m == clerk[k]
           row == [m.row EXCEPT !.trip = m.goal]
<1>1. m.pc = "move" /\ m \in Requests /\ m.rid \in Rids
  BY DEF MoveCommit, TypeInv, ClerksInformed, ReadRow, TypeOK
<1>2. row.status = m.row.status /\ row.trip = m.goal
  BY <1>1 DEF Requests, Rows
<1>3. /\ res' = [res EXCEPT ![m.rid] = row]
      /\ orders' = [o \in Oids |->
                      IF orders[o].rid = m.rid /\ orders[o].state = "live"
                      THEN [orders[o] EXCEPT !.trip = m.goal] ELSE orders[o]]
  BY DEF MoveCommit
<1>4. /\ astray \subseteq astray' /\ now' = now
      /\ Sound(k) \/ m.rid \in astray'
  BY DEF MoveCommit
<1> HIDE DEF m, row
<1>5. res'[m.rid] = row /\ \A q \in Rids \ {m.rid} : res'[q] = res[q]
  BY <1>1, <1>3 DEF TypeInv, TypeOK
<1>6. /\ \A o \in Oids : /\ orders'[o].rid = orders[o].rid
                         /\ orders'[o].state = orders[o].state
      /\ \A o \in Oids : orders[o].rid = m.rid /\ orders[o].state = "live"
                         => orders'[o].trip = m.goal
      /\ \A o \in Oids : orders[o].rid # m.rid => orders'[o] = orders[o]
  BY <1>3 DEF TypeInv, TypeOK, Docs
<1> QED
  BY <1>1, <1>2, <1>4, <1>5, <1>6 DEF m

\* The steps of a request keep the links: a commit that found its rows as it
\* had read them writes the same dates into both, and any other is an accident
\* of the reservations it touches.
LEMMA LinkClerk ==
    ASSUME TypeInv, LinkInv, NEW k \in Clerks, Clerk(k)
    PROVE  LinkInv'
<1> DEFINE e == clerk[k]
<1>1. \A o \in Oids : orders[o].state # "none" => Linked(orders[o])
  BY DEF TypeInv, OrdersLinked
<1>2. ASSUME UNCHANGED rows
      PROVE  LinkInv'
  BY <1>2, LinkKept DEF rows
<1>3. ASSUME EditCommit(k)
      PROVE  LinkInv'
  <2>1. CASE EditSound(k)
    <3>1. /\ e.rid \notin astray /\ e.row = res[e.rid] /\ e.doc = orders[e.oid]
          /\ e.doc.state = "live"
      BY <2>1 DEF EditSound, Sound
    <3>2. OneOrder'
      BY <1>3, <3>1, EditWrites DEF LinkInv, OneOrder
    <3>3. \A o \in Oids \ {e.oid} : orders[o].state # "none" /\
              orders[o].rid \notin astray => orders[o].rid # e.rid
      BY <1>3, <3>1, EditWrites DEF LinkInv, OneOrder
    <3>4. OrderFollowsReservation'
      BY <1>1, <1>3, <3>1, <3>3, EditWrites
      DEF LinkInv, OrderFollowsReservation, Linked
    <3> QED
      BY <3>2, <3>4 DEF LinkInv
  <2>2. CASE ~EditSound(k)
    <3>1. e.rid \in astray' /\ orders[e.oid].rid \in astray'
      BY <1>3, <2>2, EditWrites
    <3>2. OneOrder'
      BY <1>3, <3>1, EditWrites DEF LinkInv, OneOrder
    <3>3. OrderFollowsReservation'
      BY <1>1, <1>3, <3>1, EditWrites
      DEF LinkInv, OrderFollowsReservation, Linked
    <3> QED
      BY <3>2, <3>3 DEF LinkInv
  <2> QED
    BY <2>1, <2>2
<1>4. ASSUME MoveCommit(k)
      PROVE  LinkInv'
  <2>1. OneOrder'
    BY <1>4, MoveWrites DEF LinkInv, OneOrder
  <2>2. CASE Sound(k)
    <3>1. e.rid \notin astray /\ e.row = res[e.rid]
      BY <2>2 DEF Sound
    <3>2. OrderFollowsReservation'
      BY <1>1, <1>4, <3>1, MoveWrites
      DEF LinkInv, OrderFollowsReservation, Linked
    <3> QED
      BY <2>1, <3>2 DEF LinkInv
  <2>3. CASE ~Sound(k)
    <3>1. e.rid \in astray'
      BY <1>4, <2>3, MoveWrites
    <3>2. OrderFollowsReservation'
      BY <1>1, <1>4, <3>1, MoveWrites
      DEF LinkInv, OrderFollowsReservation, Linked
    <3> QED
      BY <2>1, <3>2 DEF LinkInv
  <2> QED
    BY <2>2, <2>3
<1> QED
  BY <1>2, <1>3, <1>4
  DEF Clerk, EditRead, EditSync, GiveUp, MoveRead

\* Every step keeps the links.
LEMMA LinkStep == TypeInv /\ LinkInv /\ [Next]_vars => LinkInv'
<1> SUFFICES ASSUME TypeInv, LinkInv, [Next]_vars
             PROVE  LinkInv'
  OBVIOUS
<1>1. ASSUME NEW r \in Rids, Reservation(r) PROVE LinkInv'
  BY <1>1, LinkReservation
<1>2. ASSUME NEW k \in Clerks, Clerk(k) PROVE LinkInv'
  BY <1>2, LinkClerk
<1>3. ASSUME NEW o \in Oids, DeleteOrder(o) PROVE LinkInv'
  <2>1. orders[o].rid \in Rids /\ "cancelled" \in Statuses
    BY <1>3 DEF DeleteOrder, TypeInv, OrdersLinked, Linked, Statuses
  <2> QED
    BY <1>3, <2>1, LinkChange DEF DeleteOrder, ChangeStatus
<1>4. ASSUME UNCHANGED <<res, orders>>, astray \subseteq astray'
      PROVE  LinkInv'
  BY <1>4, LinkKept
<1> QED
  BY <1>1, <1>2, <1>3, <1>4
  DEF Next, BlockCreate, BlockDelete, BlockMove, Tick, Purge, SetFleet, vars, rows

\* A live order has the dates of its reservation, which is a booking or a
\* no-show: deleting, restoring, editing and moving keep the two rows together.
THEOREM OrdersFollow == Spec => []OrderFollowsReservation
<1>1. Spec => []TypeInv
  BY TypeInit, TypeStep, PTL DEF Spec
<1>2. Spec => []LinkInv
  BY <1>1, LinkInit, LinkStep, PTL DEF Spec
<1>3. LinkInv => OrderFollowsReservation
  BY DEF LinkInv
<1> QED
  BY <1>2, <1>3, PTL

-----------------------------------------------------------------------------
(* Bookings and their blocks *)

DeskInv == CalendarInv /\ GhostInv

\* The blocks that a booking owns for one of the two reasons.
Owned(b, q) ==
    \/ Out(q) /\ OwnBlock(b, q)
    \/ Current(q) /\ b = BlockOf(res[q].trip)

\* A booking that must own a block in B owns one there, with its start and at
\* least its dates.
LEMMA OwnedBlock ==
    ASSUME TypeOK, NEW r \in Rids, NEW B \in SUBSET Blocks, OwnsIn(B, r),
           Holding(r)
    PROVE  \E b \in B :
               /\ OwnBlock(b, r) /\ b \in Blocks
               /\ b.car = res[r].trip.car /\ b.from = res[r].trip.from
               /\ b.from \in Nat /\ b.to \in Nat /\ res[r].trip.to <= b.to
               /\ Current(r) \/ Out(r)
<1>1. CASE Out(r)
  <2>1. PICK b \in B : OwnBlock(b, r)
    BY <1>1 DEF OwnsIn
  <2> QED
    BY <1>1, <2>1, TripFacts DEF OwnBlock, Blocks
<1>2. CASE ~Out(r)
  <2>1. Current(r) /\ BlockOf(res[r].trip) \in B
    BY <1>2 DEF OwnsIn, Holding, Current, Booked
  <2>2. /\ BlockOf(res[r].trip).car = res[r].trip.car
        /\ BlockOf(res[r].trip).from = res[r].trip.from
        /\ BlockOf(res[r].trip).to = res[r].trip.to
        /\ BlockOf(res[r].trip).kind = "booking"
    BY BlockFacts, TripFacts
  <2>3. res[r].trip.to <= res[r].trip.to
    BY TripFacts
  <2> QED
    BY <2>1, <2>2, <2>3, TripFacts DEF OwnBlock
<1> QED
  BY <1>1, <1>2

\* The stored range of some dates is the block that reaches over their start.
LEMMA StoredOwn ==
    ASSUME NEW B \in SUBSET Blocks, Disjoint(B), NEW t \in Ranges,
           NEW c \in B, Overlaps(c, t), c.from <= t.from
    PROVE  StoredRange(B, t) = {c}
<1>1. \A b \in B : b.from \in Nat /\ b.to \in Nat /\ b.from < b.to
  BY DEF Blocks
<1>2. t.from \in Nat /\ t.to \in Nat /\ t.from < t.to
  BY DEF Ranges
<1>3. ASSUME NEW b \in B, Overlaps(b, t), b.from <= c.from PROVE b = c
  <2>1. Overlaps(b, c)
    BY <1>1, <1>2, <1>3 DEF Overlaps
  <2> QED
    BY <2>1 DEF Disjoint
<1>4. ASSUME NEW b \in B, Overlaps(b, t) PROVE c.from <= b.from
  <2>1. CASE b.from <= c.from
    BY <1>1, <1>3, <1>4, <2>1
  <2>2. CASE ~(b.from <= c.from)
    BY <1>1, <2>2
  <2> QED
    BY <2>1, <2>2
<1>5. c \in StoredRange(B, t)
  BY <1>4 DEF StoredRange
<1>6. \A b \in StoredRange(B, t) : b = c
  BY <1>3 DEF StoredRange
<1> QED
  BY <1>5, <1>6

\* Who owns a block that reaches into the dates of a request is robbed by it.
LEMMA RobbedOwner ==
    ASSUME TypeOK, NEW r, NEW q \in Rids \ {r}, NEW t \in Ranges,
           NEW b \in Blocks, Overlaps(b, t), Owned(b, q)
    PROVE  q \in Robbed(r, t)
<1>1. /\ b.car = res[q].trip.car /\ b.from = res[q].trip.from
      /\ Out(q) \/ b.to = res[q].trip.to
      /\ Booked(q)
  BY BlockFacts, TripFacts DEF Owned, OwnBlock, Booked, Current
<1> QED
  BY <1>1 DEF Robbed, Overlaps

\* A booking keeps what it owns in a part of the calendar where its block stays.
LEMMA OwnsPart ==
    ASSUME NEW B, NEW R, NEW q \in Rids, OwnsIn(B, q),
           \A b \in B : Owned(b, q) => b \in R
    PROVE  OwnsIn(R, q)
BY DEF OwnsIn, Owned

\* What a booking owns depends on its row, the blocks and the clock.
LEMMA OwnsMoved ==
    ASSUME NEW q \in Rids, res'[q] = res[q], now' = now, OwnsIn(blocks', q)
    PROVE  OwnsIn(blocks, q)'
BY DEF OwnsIn, Current, Booked, Out, Upcoming, OwnBlock, BlockOf

\* A calendar that stays intact while reservations and clock stand still.
LEMMA DeskKept ==
    ASSUME DeskInv, NEW lost, Intact(blocks', lost),
           UNCHANGED <<now, res>>, astray' = astray \cup lost
    PROVE  DeskInv'
<1>1. EachOwns'
  BY OwnsMoved DEF Intact, EachOwns
<1>2. Apart'
  BY DEF DeskInv, CalendarInv, Apart, Holding, Out, Upcoming
<1>3. GhostInv'
  BY DEF Intact, GhostInv, GhostFree, Explains, Upcoming
<1> QED
  BY <1>1, <1>2, <1>3 DEF Intact, DeskInv, CalendarInv

\* The calendar of a state with the invariant is intact.
LEMMA NowIntact == TypeOK /\ DeskInv => Intact(blocks, {})
BY DEF TypeOK, DeskInv, CalendarInv, EachOwns, GhostInv, Intact

\* One reservation is written, and the block of its dates t joins what is left
\* of the calendar: the invariant survives if nothing was there, if the others
\* still have their blocks and if no block was left to this one only.
LEMMA DeskWritten ==
    ASSUME TypeOK, DeskInv, NEW r \in Rids, NEW t \in Ranges,
           NEW R \in SUBSET Blocks, Disjoint(R), Free(R, t),
           blocks' = R \cup {BlockOf(t)}, now' = now, astray \subseteq astray',
           \A q \in Rids \ {r} : res'[q] = res[q],
           \A q \in Rids \ (astray' \cup {r}) : OwnsIn(R, q),
           r \notin astray' =>
               res'[r].trip = t /\ res'[r].status \in OpsStatuses,
           astray' = {} => \A b \in R : b.kind = "booking" =>
               \E q \in Rids \ {r} : Explains(q, b)
    PROVE  DeskInv'
<1> DEFINE n == BlockOf(t)
<1>1. /\ n \in Blocks /\ n.car = t.car /\ n.from = t.from /\ n.to = t.to
      /\ n.kind = "booking"
  BY BlockFacts
<1>2. Disjoint(blocks')
  <2>1. \A b \in R : ~Overlaps(b, n) /\ ~Overlaps(n, b)
    BY <1>1 DEF Free, Overlaps
  <2> QED
    BY <2>1 DEF Disjoint
<1>3. ASSUME NEW q \in Rids \ astray' PROVE OwnsIn(blocks, q)'
  <2>1. CASE q # r
    <3>1. OwnsIn(blocks', q)
      BY <2>1 DEF OwnsIn
    <3> QED
      BY <2>1, <3>1, OwnsMoved
  <2>2. CASE q = r
    <3>1. res'[r].trip = t /\ n \in blocks'
      BY <2>2
    <3>2. t.to \in Nat
      BY DEF Ranges
    <3>3. OwnBlock(n, r)'
      BY <1>1, <3>1, <3>2 DEF OwnBlock
    <3>4. (Current(r) => BlockOf(res[r].trip) \in blocks)'
      BY <3>1
    <3> QED
      BY <2>2, <3>1, <3>3, <3>4 DEF OwnsIn
  <2> QED
    BY <2>1, <2>2
<1>4. ASSUME NEW q \in Rids \ (astray' \cup {r}), r \notin astray', Holding(q),
             res[q].trip.car = t.car
      PROVE  res[q].trip.from # t.from
  <2>1. PICK b \in R : /\ b.car = res[q].trip.car /\ b.from = res[q].trip.from
                       /\ b \in Blocks
    BY <1>4, OwnedBlock
  <2>2. ~Overlaps(b, t)
    BY DEF Free
  <2> QED
    BY <1>4, <2>1, <2>2 DEF Overlaps, Blocks, Ranges
<1>5. Apart'
  <2> SUFFICES ASSUME NEW p \in Rids \ astray', NEW q \in Rids \ astray',
                      p # q, Holding(p)', Holding(q)',
                      res'[p].trip.car = res'[q].trip.car
               PROVE  res'[p].trip.from # res'[q].trip.from
    BY DEF Apart
  <2>1. \A x \in Rids \ {r} : Holding(x)' <=> Holding(x)
    BY DEF Holding, Out, Upcoming
  <2>2. CASE p # r /\ q # r
    BY <2>1, <2>2 DEF DeskInv, CalendarInv, Apart
  <2>3. CASE p = r
    BY <1>4, <2>1, <2>3
  <2>4. CASE q = r
    BY <1>4, <2>1, <2>4
  <2> QED
    BY <2>2, <2>3, <2>4
<1>6. GhostInv'
  <2> SUFFICES ASSUME astray' = {}, NEW b \in blocks', b.kind = "booking"
               PROVE  \E q \in Rids : Explains(q, b)'
    BY DEF GhostInv, GhostFree
  <2>1. CASE b \in R
    <3>1. PICK q \in Rids \ {r} : Explains(q, b)
      BY <2>1
    <3> QED
      BY <3>1 DEF Explains, Upcoming
  <2>2. CASE b = n
    BY <1>1, <2>2 DEF Explains
  <2> QED
    BY <2>1, <2>2
<1> QED
  BY <1>2, <1>3, <1>5, <1>6 DEF DeskInv, CalendarInv, EachOwns

\* A booking is confirmed, or an order restored as it was.
LEMMA DeskBooks ==
    ASSUME TypeInv, DeskInv, NEW r \in Rids, NEW o, NEW t \in Ranges,
           Books(r, o, t) \/ RestoresKept(r, o, t)
    PROVE  DeskInv'
<1> DEFINE B == Purged({t.car})
           lost == Clipped({t.car})
<1>1. TypeOK
  BY DEF TypeInv
<1>2. /\ ~Jammed({t.car}) /\ Free(B, t) /\ blocks' = B \cup {BlockOf(t)}
      /\ now' = now /\ astray \cup lost \subseteq astray'
      /\ \A q \in Rids \ {r} : res'[q] = res[q]
  BY DEF Books, RestoresKept, Blocked
<1>3. Intact(B, lost)
  BY <1>1, <1>2, PurgedIntact DEF DeskInv
<1>4. r \notin astray' =>
          /\ res'[r].trip = t /\ res'[r].status \in OpsStatuses
          /\ res[r].status \notin OpsStatuses
  BY StatusKinds DEF Books, RestoresKept
<1> HIDE DEF B, lost
<1>5. astray' = {} => \A b \in B : b.kind = "booking" =>
          \E q \in Rids \ {r} : Explains(q, b)
  BY <1>2, <1>3, <1>4 DEF Intact, GhostFree, Explains
<1>6. \A q \in Rids \ (astray' \cup {r}) : OwnsIn(B, q)
  BY <1>2, <1>3 DEF Intact
<1>7. B \in SUBSET Blocks /\ Disjoint(B)
  BY <1>3 DEF Intact
<1> QED
  BY <1>1, <1>2, <1>4, <1>5, <1>6, <1>7, DeskWritten

\* A reservation that gives its dates back takes away its own block; what else
\* its request may hit is recorded.
LEMMA ReleaseKeeps ==
    ASSUME TypeOK, DeskInv, NEW r \in Rids, NEW q \in Rids \ {r},
           q \notin astray,
           (r \in astray \/ ~Holding(r)) => q \notin Robbed(r, res[r].trip)
    PROVE  OwnsIn(ReleaseRange(blocks, res[r].trip), q)
<1> DEFINE t == res[r].trip
<1>1. t \in Ranges /\ blocks \subseteq Blocks
  BY TripFacts DEF TypeOK
<1>2. OwnsIn(blocks, q) /\ Disjoint(blocks)
  BY DEF DeskInv, CalendarInv, EachOwns
<1>3. ASSUME NEW b \in blocks, Owned(b, q) PROVE b \notin StoredRange(blocks, t)
  <2> SUFFICES ASSUME b \in StoredRange(blocks, t) PROVE FALSE
    OBVIOUS
  <2>1. Overlaps(b, t)
    BY DEF StoredRange
  <2>2. CASE r \in astray \/ ~Holding(r)
    BY <1>1, <1>3, <2>1, <2>2, RobbedOwner
  <2>3. CASE r \notin astray /\ Holding(r)
    <3>1. OwnsIn(blocks, r)
      BY <2>3 DEF DeskInv, CalendarInv, EachOwns
    <3>2. PICK c \in blocks : /\ c.car = t.car /\ c.from = t.from
                              /\ c.from \in Nat /\ c.to \in Nat /\ t.to <= c.to
      BY <1>1, <2>3, <3>1, OwnedBlock
    <3>3. Overlaps(c, t) /\ c.from <= t.from
      BY <1>1, <3>2 DEF Overlaps, Ranges
    <3>4. b = c
      BY <1>1, <1>2, <3>3, StoredOwn
    <3>5. res[q].trip.car = t.car /\ res[q].trip.from = t.from
      BY <1>3, <3>2, <3>4, BlockFacts, TripFacts DEF Owned, OwnBlock
    <3>6. Holding(q)
      BY <1>3 DEF Owned, Holding, Current, Booked
    <3> QED
      BY <2>3, <3>5, <3>6 DEF DeskInv, CalendarInv, Apart
  <2> QED
    BY <2>2, <2>3
<1> QED
  BY <1>2, <1>3, OwnsPart DEF ReleaseRange

\* A change of status keeps the invariant; only Confirm confirms.
LEMMA DeskChange ==
    ASSUME TypeInv, DeskInv, NEW r \in Rids, NEW new \in Statuses \ {"confirmed"},
           WriteStatus(r, new), now' = now
    PROVE  DeskInv'
<1> DEFINE t == res[r].trip
<1>1. /\ TypeOK /\ t \in Ranges /\ blocks \subseteq Blocks /\ now \in Nat
  BY TripFacts DEF TypeInv, TypeOK
<1>2. /\ res[r].status # new /\ CanTransition(res[r].status, new)
      /\ res'[r].status = new /\ res'[r].trip = t
      /\ \A q \in Rids \ {r} : res'[q] = res[q]
      /\ astray \subseteq astray'
  BY DEF WriteStatus, TypeInv, TypeOK, Rows
<1>3. blocks' \subseteq blocks /\ Disjoint(blocks')
  <2>1. blocks' \subseteq blocks
    BY ReleaseShrinks DEF WriteStatus
  <2> QED
    BY <2>1 DEF DeskInv, CalendarInv, Disjoint
<1>4. ASSUME NEW q \in Rids \ (astray' \cup {r}) PROVE OwnsIn(blocks', q)
  <2>1. CASE new \in ReleasingStatuses
    BY <1>1, <1>2, <2>1, ReleaseKeeps DEF WriteStatus
  <2>2. CASE new \notin ReleasingStatuses
    BY <1>2, <2>2 DEF WriteStatus, DeskInv, CalendarInv, EachOwns
  <2> QED
    BY <2>1, <2>2
<1>5. ASSUME r \notin astray', Booked(r)'
      PROVE  /\ r \notin astray /\ blocks' = blocks
             /\ Upcoming(r)' => Upcoming(r)
             /\ Out(r)' => Out(r) \/ (Upcoming(r) /\ Current(r))
  <2>1. new \in OpsStatuses /\ new \notin ReleasingStatuses
    BY <1>2, <1>5, StatusKinds DEF Booked, Out, Upcoming
  <2>2. blocks' = blocks /\ r \notin astray
        /\ (new = "picked_up" => ~(now >= res[r].trip.to))
    BY <1>2, <1>5, <2>1 DEF WriteStatus, LatePickup
  <2>3. Upcoming(r)' => Upcoming(r)
    BY <1>2, StatusFacts DEF Upcoming
  <2>4. ASSUME Out(r)', ~Out(r) PROVE Upcoming(r) /\ Current(r)
    <3>1. new = "picked_up" /\ res[r].status = "car_prepared"
      BY <1>2, <2>4, StatusFacts DEF Out
    <3> QED
      BY <1>1, <2>2, <3>1, TripFacts DEF Upcoming, Current, Booked
  <2> QED
    BY <2>2, <2>3, <2>4
<1>6. ASSUME r \notin astray' PROVE OwnsIn(blocks, r)'
  <2>1. CASE Booked(r)'
    <3>1. OwnsIn(blocks, r) /\ blocks' = blocks
      BY <1>5, <1>6, <2>1 DEF DeskInv, CalendarInv, EachOwns
    <3>2. Current(r)' => Current(r)
      BY <1>2, <1>5, <1>6, <2>1 DEF Current, Booked
    <3>3. ASSUME Out(r)' PROVE \E b \in blocks' : OwnBlock(b, r)'
      <4>1. Holding(r)
        BY <1>5, <1>6, <2>1, <3>3 DEF Holding, Current
      <4>2. PICK b \in blocks :
                /\ OwnBlock(b, r) /\ b.to \in Nat /\ res[r].trip.to <= b.to
        BY <1>1, <3>1, <4>1, OwnedBlock
      <4> QED
        BY <1>1, <1>2, <3>1, <3>3, <4>2, TripFacts DEF OwnBlock
    <3>4. (Current(r) => BlockOf(res[r].trip) \in blocks)'
      BY <1>2, <3>1, <3>2 DEF OwnsIn
    <3> QED
      BY <3>3, <3>4 DEF OwnsIn
  <2>2. CASE ~Booked(r)'
    BY <2>2 DEF OwnsIn, Current, Booked
  <2> QED
    BY <2>1, <2>2
<1>7. EachOwns'
  BY <1>2, <1>4, <1>6, OwnsMoved DEF EachOwns
<1>8. Apart'
  <2>1. ASSUME NEW q \in Rids \ astray', Holding(q)' PROVE Holding(q)
    <3>1. CASE q = r
      BY <1>2, <1>5, <2>1, <3>1 DEF Holding, Booked, Current
    <3>2. CASE q # r
      BY <1>2, <2>1, <3>2 DEF Holding, Out, Upcoming
    <3> QED
      BY <3>1, <3>2
  <2>2. \A q \in Rids : res'[q].trip = res[q].trip
    BY <1>2
  <2> QED
    BY <1>2, <2>1, <2>2 DEF DeskInv, CalendarInv, Apart
<1>9. GhostInv'
  <2> SUFFICES ASSUME astray' = {}, NEW b \in blocks', b.kind = "booking"
               PROVE  \E q \in Rids : Explains(q, b)'
    BY DEF GhostInv, GhostFree
  <2>1. PICK q \in Rids : Explains(q, b)
    BY <1>2, <1>3 DEF DeskInv, GhostInv, GhostFree
  <2>2. CASE q # r
    BY <1>2, <2>1, <2>2 DEF Explains, Upcoming
  <2>3. CASE q = r
    <3>1. b.car = t.car /\ b.from = t.from /\ b \in Blocks /\ b \in blocks
      BY <1>1, <1>3, <2>1, <2>3 DEF Explains
    <3>2. new \notin ReleasingStatuses
      <4> SUFFICES ASSUME new \in ReleasingStatuses PROVE FALSE
        OBVIOUS
      <4>1. Overlaps(b, t) /\ b.from <= t.from
        BY <1>1, <3>1 DEF Overlaps, Blocks, Ranges
      <4>2. StoredRange(blocks, t) = {b}
        BY <1>1, <3>1, <4>1, StoredOwn DEF DeskInv, CalendarInv
      <4>3. blocks' = ReleaseRange(blocks, t)
        BY DEF WriteStatus
      <4> QED
        BY <4>2, <4>3 DEF ReleaseRange
    <3>3. res[r].status \in OpsStatuses
      BY <2>1, <2>3 DEF Explains
    <3>4. new \in OpsStatuses
      BY <1>2, <3>2, <3>3, StatusFacts DEF ReleasingStatuses
    <3>5. Upcoming(r)' => Upcoming(r)
      BY <1>2, StatusFacts DEF Upcoming
    <3> QED
      BY <1>2, <2>1, <2>3, <3>4, <3>5 DEF Explains
  <2> QED
    BY <2>2, <2>3
<1> QED
  BY <1>3, <1>7, <1>8, <1>9 DEF DeskInv, CalendarInv

\* The step that writes new dates t over the old dates of reservation r takes
\* blocks in the old range out of the purged calendar.  Either all that this may
\* hit is recorded, or the old range is the exact block of r and nobody else's.
LEMMA DeskRewritten ==
    ASSUME TypeInv, DeskInv, NEW r \in Rids, NEW old \in Ranges, NEW t \in Ranges,
           NEW cars, ~Jammed(cars), NEW R \in SUBSET Purged(cars), Free(R, t),
           blocks' = R \cup {BlockOf(t)}, now' = now,
           astray \cup Clipped(cars) \subseteq astray',
           \A q \in Rids \ {r} : res'[q] = res[q],
           \A b \in Purged(cars) \ R : b.kind = "booking" => Overlaps(b, old),
           \/ {r} \cup Robbed(r, old) \subseteq astray'
           \/ /\ r \notin astray /\ Holding(r) /\ Current(r) /\ old = res[r].trip
              /\ res'[r].status = res[r].status /\ res'[r].trip = t
              /\ \A b \in Purged(cars) : b.kind = "booking" =>
                     (b \in R <=> ~SameRange(b, old))
    PROVE  DeskInv'
<1> DEFINE B == Purged(cars)
           lost == Clipped(cars)
           Recorded == {r} \cup Robbed(r, old) \subseteq astray'
<1>1. TypeOK
  BY DEF TypeInv
<1>2. Intact(B, lost)
  BY <1>1, PurgedIntact DEF DeskInv
<1>3. B \in SUBSET Blocks /\ Disjoint(B) /\ Disjoint(R) /\ R \in SUBSET Blocks
  BY <1>2 DEF Intact, Disjoint
<1>4. ~Recorded =>
        /\ r \notin astray /\ Holding(r) /\ Current(r) /\ old = res[r].trip
        /\ res'[r].status = res[r].status /\ res'[r].trip = t
        /\ \A b \in B : b.kind = "booking" => (b \in R <=> ~SameRange(b, old))
  OBVIOUS
<1> HIDE DEF Recorded
<1>5. ASSUME NEW q \in Rids \ (astray' \cup {r}) PROVE OwnsIn(R, q)
  <2>1. OwnsIn(B, q) /\ q \notin astray
    BY <1>2 DEF Intact
  <2>2. ASSUME NEW b \in B, Owned(b, q) PROVE b \in R
    <3>1. b.kind = "booking" /\ b \in Blocks
      BY <1>3, <2>2, BlockFacts, <1>1, TripFacts DEF Owned, OwnBlock
    <3>2. CASE Recorded
      <4> SUFFICES ASSUME b \notin R PROVE FALSE
        OBVIOUS
      <4>1. q \in Robbed(r, old)
        BY <1>1, <2>2, <3>1, RobbedOwner
      <4> QED
        BY <3>2, <4>1 DEF Recorded
    <3>3. CASE ~Recorded
      <4>1. res[q].trip.car = b.car /\ res[q].trip.from = b.from /\ Holding(q)
        BY <1>1, <2>2, BlockFacts, TripFacts
        DEF Owned, OwnBlock, Holding, Current, Booked
      <4>2. ~SameRange(b, old)
        BY <1>4, <2>1, <3>3, <4>1
        DEF SameRange, DeskInv, CalendarInv, Apart
      <4> QED
        BY <1>4, <3>1, <3>3, <4>2
    <3> QED
      BY <3>2, <3>3
  <2> QED
    BY <2>1, <2>2, OwnsPart
<1>6. r \notin astray' => res'[r].trip = t /\ res'[r].status \in OpsStatuses
  BY <1>4, StatusKinds DEF Recorded, Current, Booked, Out, Upcoming
<1>7. ASSUME astray' = {}, NEW b \in R, b.kind = "booking"
      PROVE  \E q \in Rids \ {r} : Explains(q, b)
  <2>1. /\ r \notin astray /\ Current(r) /\ old = res[r].trip
        /\ ~SameRange(b, old)
    BY <1>4, <1>7 DEF Recorded
  <2>2. astray \cup lost = {}
    BY <1>7
  <2>3. PICK q \in Rids : Explains(q, b)
    BY <1>2, <1>7, <2>2 DEF Intact, GhostFree
  <2>4. q # r
    <3> SUFFICES ASSUME q = r PROVE FALSE
      OBVIOUS
    <3>1. b.car = old.car /\ b.from = old.from
      BY <2>1, <2>3 DEF Explains
    <3> DEFINE n == BlockOf(old)
    <3>2. n \in B
      BY <1>2, <2>1, <2>2 DEF Intact, OwnsIn
    <3>3. /\ n.car = old.car /\ n.from = old.from /\ n.to = old.to
      BY BlockFacts
    <3> HIDE DEF n
    <3>4. Overlaps(b, n)
      BY <1>3, <3>1, <3>2, <3>3 DEF Overlaps, Blocks, Ranges
    <3>5. b = n
      BY <1>3, <3>2, <3>4 DEF Disjoint
    <3> QED
      BY <2>1, <3>3, <3>5 DEF SameRange
  <2> QED
    BY <2>3, <2>4
<1> HIDE DEF B, lost
<1> QED
  BY <1>1, <1>3, <1>5, <1>6, <1>7, DeskWritten

\* The commit of an edit.
LEMMA DeskEdit ==
    ASSUME TypeInv, DeskInv, LinkInv, NEW k \in Clerks, EditCommit(k)
    PROVE  DeskInv'
<1> DEFINE e == clerk[k]
           r == e.rid
           old == e.doc.trip
           t == e.goal
<1>1. /\ r \in Rids /\ now' = now /\ astray \subseteq astray'
      /\ \A q \in Rids \ {r} : res'[q] = res[q]
      /\ res'[r].status = e.row.status /\ res'[r].trip = t
      /\ e.oid \in Oids /\ e.doc.rid = r /\ TypeOK
  BY EditWrites DEF TypeInv
<1>2. old \in Ranges /\ t \in Ranges
  BY <1>1, RequestFacts
<1>3. ASSUME EditSound(k)
      PROVE  /\ r \notin astray /\ Holding(r) /\ Current(r) /\ old = res[r].trip
             /\ e.row = res[r]
  BY <1>1, <1>3
  DEF EditSound, Sound, LinkInv, OrderFollowsReservation, Holding, Current, Booked
<1>4. CASE Moves(k)
  <2> DEFINE B == Purged(CarsOf(k))
             R == EditRest(k)
  <2>1. /\ ~Jammed(CarsOf(k)) /\ Free(R, t) /\ blocks' = R \cup {BlockOf(t)}
        /\ astray \cup Clipped(CarsOf(k)) \subseteq astray'
        /\ EditSound(k) \/ {r} \cup Robbed(r, old) \subseteq astray'
    BY <1>4 DEF EditCommit
  <2>2. /\ R \in SUBSET B
        /\ \A b \in B : b \in R <=>
               \A s \in StoredRange(blocks, old) : ~SameRange(b, s)
    BY DEF EditRest
  <2>3. \A b \in B \ R : Overlaps(b, old)
    BY <2>2 DEF StoredRange, SameRange, Overlaps
  <2>4. ASSUME EditSound(k), NEW b \in B PROVE b \in R <=> ~SameRange(b, old)
    <3> DEFINE n == BlockOf(old)
    <3>1. n \in blocks
      BY <1>1, <1>3, <2>4 DEF DeskInv, CalendarInv, EachOwns, OwnsIn
    <3>2. n.car = old.car /\ n.from = old.from /\ n.to = old.to
      BY <1>2, BlockFacts
    <3> HIDE DEF n
    <3>3. Overlaps(n, old) /\ n.from <= old.from
      BY <1>2, <3>2 DEF Overlaps, Ranges
    <3>4. blocks \in SUBSET Blocks /\ Disjoint(blocks)
      BY <1>1 DEF TypeOK, DeskInv, CalendarInv
    <3>5. StoredRange(blocks, old) = {n}
      BY <1>2, <3>1, <3>3, <3>4, StoredOwn
    <3> QED
      BY <2>2, <3>2, <3>5 DEF SameRange
  <2> HIDE DEF B, R, r, old, t, e
  <2>5. \/ {r} \cup Robbed(r, old) \subseteq astray'
        \/ /\ r \notin astray /\ Holding(r) /\ Current(r) /\ old = res[r].trip
           /\ res'[r].status = res[r].status /\ res'[r].trip = t
           /\ \A b \in B : b.kind = "booking" => (b \in R <=> ~SameRange(b, old))
    BY <1>1, <1>3, <2>1, <2>4
  <2> QED
    BY <1>1, <1>2, <2>1, <2>2, <2>3, <2>5, DeskRewritten DEF B
<1>5. CASE ~Moves(k)
  <2>1. /\ blocks' = blocks /\ t = old
        /\ EditSound(k) \/ r \in astray'
    BY <1>5 DEF EditCommit, Moves
  <2>2. ASSUME r \notin astray'
        PROVE  res'[r].status = res[r].status /\ res'[r].trip = res[r].trip
    BY <1>1, <1>3, <2>1, <2>2
  <2> HIDE DEF r, old, t, e
  <2>3. ASSUME NEW q \in Rids \ astray'
        PROVE  res'[q].status = res[q].status /\ res'[q].trip = res[q].trip
    BY <1>1, <2>2
  <2>4. EachOwns'
    <3> SUFFICES ASSUME NEW q \in Rids \ astray' PROVE OwnsIn(blocks, q)'
      BY DEF EachOwns
    <3>1. OwnsIn(blocks, q)
      BY <1>1 DEF DeskInv, CalendarInv, EachOwns
    <3> QED
      BY <1>1, <2>1, <2>3, <3>1
      DEF OwnsIn, Current, Booked, Out, Upcoming, OwnBlock, BlockOf
  <2>5. Apart'
    BY <1>1, <2>3
    DEF DeskInv, CalendarInv, Apart, Holding, Out, Upcoming
  <2>6. GhostInv'
    <3> SUFFICES ASSUME astray' = {} PROVE GhostFree(blocks)'
      BY DEF GhostInv
    <3>1. \A q \in Rids :
              res'[q].status = res[q].status /\ res'[q].trip = res[q].trip
      BY <2>3
    <3> QED
      BY <1>1, <2>1, <3>1
      DEF DeskInv, GhostInv, GhostFree, Explains, Upcoming
  <2> QED
    BY <2>1, <2>4, <2>5, <2>6 DEF DeskInv, CalendarInv
<1> QED
  BY <1>4, <1>5

\* The commit of a calendar move.
LEMMA DeskMove ==
    ASSUME TypeInv, DeskInv, NEW k \in Clerks, MoveCommit(k)
    PROVE  DeskInv'
<1> DEFINE m == clerk[k]
           r == m.rid
           old == m.row.trip
           t == m.goal
           cars == {old.car, t.car}
           B == Purged(cars)
           R == MoveRest(k)
<1>1. /\ r \in Rids /\ now' = now
      /\ \A q \in Rids \ {r} : res'[q] = res[q]
      /\ res'[r].status = m.row.status /\ res'[r].trip = t
  BY MoveWrites
<1>2. old \in Ranges /\ t \in Ranges
  BY RequestFacts DEF TypeInv
<1>3. /\ ~Jammed(cars) /\ Free(R, t) /\ blocks' = R \cup {BlockOf(t)}
      /\ astray \cup Clipped(cars) \subseteq astray'
      /\ Sound(k) \/ {r} \cup Robbed(r, old) \subseteq astray'
  BY DEF MoveCommit
<1>4. ASSUME Sound(k)
      PROVE  /\ r \notin astray /\ Holding(r) /\ Current(r) /\ old = res[r].trip
             /\ m.row = res[r]
  BY <1>4 DEF Sound, Holding, Current, Booked
<1>5. /\ R \in SUBSET B
      /\ \A b \in B : b.kind = "booking" => (b \in R <=> ~SameRange(b, old))
  BY DEF MoveRest, Soft
<1>6. \A b \in B \ R : b.kind = "booking" => Overlaps(b, old)
  BY <1>2, <1>5 DEF SameRange, Overlaps, Ranges
<1> HIDE DEF cars, B, R, r, old, t, m
<1>7. \/ {r} \cup Robbed(r, old) \subseteq astray'
      \/ /\ r \notin astray /\ Holding(r) /\ Current(r) /\ old = res[r].trip
         /\ res'[r].status = res[r].status /\ res'[r].trip = t
         /\ \A b \in B : b.kind = "booking" => (b \in R <=> ~SameRange(b, old))
  BY <1>1, <1>3, <1>4, <1>5
<1> QED
  BY <1>1, <1>2, <1>3, <1>5, <1>6, <1>7, DeskRewritten DEF B

\* The steps of a reservation keep the invariant.
LEMMA DeskReservation ==
    ASSUME TypeInv, DeskInv, NEW r \in Rids, Reservation(r)
    PROVE  DeskInv'
<1>1. TypeOK /\ \A t \in Trips : t \in Ranges
  BY DeskTripsAssumption DEF TypeInv
<1>2. ASSUME NEW new \in Statuses, StaffStatus(r, new)
      PROVE  DeskInv'
  <2>1. new # "confirmed"
    BY <1>2, DeskStaffAssumption DEF StaffStatus
  <2> QED
    BY <1>2, <2>1, DeskChange DEF StaffStatus, ChangeStatus
<1>3. ASSUME HoldEnds(r)
      PROVE  DeskInv'
  BY <1>3, DeskChange DEF HoldEnds, Statuses
<1>4. ASSUME NEW t \in Trips, HoldPlaced(r, t)
      PROVE  DeskInv'
  <2>1. /\ res[r].status = "none" /\ res'[r].status = "pending_payment"
        /\ \A q \in Rids \ {r} : res'[q] = res[q]
        /\ UNCHANGED <<now, blocks, astray>>
    BY <1>1, <1>4 DEF HoldPlaced, TypeOK
  <2>2. ~Booked(r)' /\ ~Holding(r)'
    BY <2>1 DEF Booked, Holding, Out, Upcoming, OpenRentalStatuses
  <2>3. EachOwns'
    <3> SUFFICES ASSUME NEW q \in Rids \ astray' PROVE OwnsIn(blocks, q)'
      BY DEF EachOwns
    <3>1. CASE q = r
      BY <2>2, <3>1 DEF OwnsIn, Current, Booked
    <3>2. CASE q # r
      BY <2>1, <3>2, OwnsMoved DEF DeskInv, CalendarInv, EachOwns
    <3> QED
      BY <3>1, <3>2
  <2>4. Apart'
    BY <2>1, <2>2 DEF DeskInv, CalendarInv, Apart, Holding, Out, Upcoming
  <2>5. GhostInv'
    <3> SUFFICES ASSUME astray = {}, NEW b \in blocks, b.kind = "booking"
                 PROVE  \E q \in Rids : Explains(q, b)'
      BY <2>1 DEF GhostInv, GhostFree
    <3>1. PICK q \in Rids : Explains(q, b)
      BY DEF DeskInv, GhostInv, GhostFree
    <3>2. q # r
      BY <2>1, <3>1, StatusKinds DEF Explains
    <3> QED
      BY <2>1, <3>1, <3>2 DEF Explains, Upcoming
  <2> QED
    BY <2>1, <2>3, <2>4, <2>5 DEF DeskInv, CalendarInv
<1>5. ASSUME NEW o \in Oids, NEW t \in Ranges, NEW q \in Rids,
             Books(q, o, t) \/ RestoresKept(q, o, t)
      PROVE  DeskInv'
  BY <1>5, DeskBooks
<1>6. ASSUME NEW o \in Oids, Confirm(r, o) PROVE DeskInv'
  BY <1>1, <1>5, <1>6, Bookings, TripFacts
<1>7. ASSUME NEW o \in Oids, NEW t \in Trips, CreateOrder(r, o, t) PROVE DeskInv'
  BY <1>1, <1>5, <1>7, Bookings
<1>8. ASSUME NEW o \in Oids, RestoreOrder(o, r) PROVE DeskInv'
  <2>1. orders[o].trip \in Ranges
    BY <1>1 DEF TypeOK, Docs
  <2> QED
    BY <1>5, <1>8, <2>1, Bookings
<1> QED
  BY <1>2, <1>3, <1>4, <1>6, <1>7, <1>8 DEF Reservation

\* Manual blocks come, move and go where the calendar is free.
LEMMA DeskManual ==
    ASSUME TypeOK, DeskInv, NEW R \in SUBSET blocks, NEW N \in SUBSET Blocks,
           \A b \in blocks \ R : b.kind = "manual",
           \A n \in N : n.kind = "manual" /\ (\A b \in R : ~Overlaps(b, n)),
           \A a, b \in N : a = b,
           blocks' = R \cup N, UNCHANGED <<now, res, astray>>
    PROVE  DeskInv'
<1>1. blocks' \subseteq Blocks
  BY DEF TypeOK
<1>2. Disjoint(blocks')
  <2>1. \A b \in R, n \in N : ~Overlaps(b, n) /\ ~Overlaps(n, b)
    BY DEF Overlaps
  <2> QED
    BY <2>1 DEF DeskInv, CalendarInv, Disjoint
<1>3. \A b \in blocks : b.kind = "booking" => b \in blocks'
  OBVIOUS
<1>4. ASSUME NEW r \in Rids \ astray PROVE OwnsIn(blocks', r)
  <2>1. OwnsIn(blocks, r)
    BY DEF DeskInv, CalendarInv, EachOwns
  <2>2. BlockOf(res[r].trip).kind = "booking"
    BY BlockFacts, TripFacts
  <2> QED
    BY <1>3, <2>1, <2>2 DEF OwnsIn, OwnBlock
<1>5. astray = {} => GhostFree(blocks')
  BY DEF DeskInv, GhostInv, GhostFree
<1>6. Intact(blocks', {}) /\ astray' = astray \cup {}
  BY <1>1, <1>2, <1>4, <1>5 DEF Intact
<1> QED
  BY <1>6, DeskKept

\* Every step keeps the bookings' blocks.
LEMMA DeskStep == TypeInv /\ LinkInv /\ DeskInv /\ [Next]_vars => DeskInv'
<1> SUFFICES ASSUME TypeInv, LinkInv, DeskInv, [Next]_vars
             PROVE  DeskInv'
  OBVIOUS
<1>1. /\ TypeOK /\ blocks \subseteq Blocks
      /\ \A t \in Trips : t \in Ranges
  BY DeskTripsAssumption DEF TypeInv, TypeOK
<1>2. ASSUME UNCHANGED <<now, res, blocks, astray>>
      PROVE  DeskInv'
  <2>1. Intact(blocks', {}) /\ astray' = astray \cup {}
    BY <1>1, <1>2, NowIntact
  <2> QED
    BY <1>2, <2>1, DeskKept
<1>3. ASSUME NEW r \in Rids, Reservation(r) PROVE DeskInv'
  BY <1>3, DeskReservation
<1>4. ASSUME NEW k \in Clerks, Clerk(k) PROVE DeskInv'
  BY <1>2, <1>4, DeskEdit, DeskMove
  DEF Clerk, EditRead, EditSync, GiveUp, MoveRead, rows
<1>5. ASSUME NEW o \in Oids, DeleteOrder(o) PROVE DeskInv'
  <2>1. orders[o].rid \in Rids /\ "cancelled" \in Statuses \ {"confirmed"}
    BY <1>5 DEF DeleteOrder, TypeInv, OrdersLinked, Linked, Statuses
  <2> QED
    BY <1>5, <2>1, DeskChange DEF DeleteOrder, ChangeStatus
<1>6. ASSUME NEW t \in Trips, BlockCreate(t) PROVE DeskInv'
  <2> DEFINE N == {ManualBlock(t)}
  <2>1. /\ Free(blocks, t) /\ blocks' = blocks \cup N
        /\ UNCHANGED <<now, res, astray>>
    BY <1>6 DEF BlockCreate
  <2>2. \A n \in N : n.kind = "manual" /\ (\A b \in blocks : ~Overlaps(b, n))
    BY <1>1, <2>1, ManualFacts DEF Free, Overlaps
  <2>3. N \in SUBSET Blocks /\ \A a, b \in N : a = b
    BY <1>1, ManualFacts
  <2>4. blocks \in SUBSET blocks /\ \A b \in blocks \ blocks : b.kind = "manual"
    OBVIOUS
  <2> HIDE DEF N
  <2> QED
    BY <1>1, <2>1, <2>2, <2>3, <2>4, DeskManual
<1>7. ASSUME NEW d \in blocks, BlockDelete(d) PROVE DeskInv'
  <2> DEFINE R == blocks \ {d}
  <2>1. /\ d.kind = "manual" /\ blocks' = R \cup {}
        /\ UNCHANGED <<now, res, astray>>
    BY <1>7 DEF BlockDelete, Soft
  <2>2. R \in SUBSET blocks /\ \A b \in blocks \ R : b.kind = "manual"
    BY <2>1
  <2>3. /\ {} \in SUBSET Blocks /\ \A a, b \in {} : a = b
        /\ \A n \in {} : n.kind = "manual" /\ (\A b \in R : ~Overlaps(b, n))
    OBVIOUS
  <2> HIDE DEF R
  <2> QED
    BY <1>1, <2>1, <2>2, <2>3, DeskManual
<1>8. ASSUME NEW d \in blocks, NEW t \in Trips, BlockMove(d, t) PROVE DeskInv'
  <2> DEFINE N == {ManualBlock(t)}
             R == blocks \ {d}
  <2>1. /\ d.kind = "manual" /\ Free(R, t) /\ blocks' = R \cup N
        /\ UNCHANGED <<now, res, astray>>
    BY <1>8 DEF BlockMove, Soft
  <2>2. \A n \in N : n.kind = "manual" /\ (\A b \in R : ~Overlaps(b, n))
    BY <1>1, <2>1, ManualFacts DEF Free, Overlaps
  <2>3. N \in SUBSET Blocks /\ \A a, b \in N : a = b
    BY <1>1, ManualFacts
  <2>4. R \in SUBSET blocks /\ \A b \in blocks \ R : b.kind = "manual"
    BY <2>1
  <2> HIDE DEF N, R
  <2> QED
    BY <1>1, <2>1, <2>2, <2>3, <2>4, DeskManual
<1>9. CASE Tick
  <2>1. now' = now + 1 /\ UNCHANGED <<res, blocks, astray>> /\ now \in Nat
    BY <1>1, <1>9 DEF Tick, rows, TypeOK
  <2>2. \A r \in Rids : (Current(r)' => Current(r)) /\ (Holding(r)' => Holding(r))
    BY <1>1, <2>1, TripFacts DEF Current, Holding, Booked, Out, Upcoming
  <2>3. EachOwns'
    BY <2>1, <2>2
    DEF DeskInv, CalendarInv, EachOwns, OwnsIn, Out, OwnBlock
  <2>4. Apart'
    BY <2>1, <2>2 DEF DeskInv, CalendarInv, Apart
  <2>5. GhostInv'
    BY <2>1 DEF DeskInv, GhostInv, GhostFree, Explains, Upcoming
  <2> QED
    BY <2>1, <2>3, <2>4, <2>5 DEF DeskInv, CalendarInv
<1>10. CASE Purge
  <2>1. Intact(PurgedAlone, Clipped(Cars))
    BY <1>1, PurgedAloneIntact DEF DeskInv
  <2> QED
    BY <1>10, <2>1, DeskKept DEF Purge
<1>11. CASE \E c \in Cars, s \in FleetChoices : SetFleet(c, s)
  BY <1>2, <1>11 DEF SetFleet
<1>12. CASE UNCHANGED vars
  BY <1>2, <1>12 DEF vars, rows
<1> QED
  BY <1>3, <1>4, <1>5, <1>6, <1>7, <1>8, <1>9, <1>10, <1>11, <1>12 DEF Next

\* An empty calendar needs no booking, and no booking a calendar.
LEMMA DeskInit == Init => DeskInv
<1>1. "none" \notin {"confirmed", "car_prepared"} \cup OpenRentalStatuses
  BY DEF OpenRentalStatuses
<1> QED
  BY <1>1
  DEF Init, NoRow, DeskInv, CalendarInv, Disjoint, EachOwns, OwnsIn, Current,
      Booked, Apart, Holding, Out, Upcoming, GhostInv, GhostFree

\* In every reachable state the bookings have their blocks.
LEMMA DeskCorrect == Spec => [](TypeInv /\ DeskInv)
<1>1. Spec => []TypeInv
  BY TypeInit, TypeStep, PTL DEF Spec
<1>2. Spec => []LinkInv
  BY <1>1, LinkInit, LinkStep, PTL DEF Spec
<1>3. Spec => []DeskInv
  BY <1>1, <1>2, DeskInit, DeskStep, PTL DEF Spec
<1> QED
  BY <1>1, <1>3, PTL

\* A booking keeps the block of its dates until it is given back or its time is
\* over, and while the car is out for as long as that takes: no purge, edit,
\* move or cancellation of another booking takes it, whatever their interleaving.
THEOREM BlocksOwned == Spec => []BookingOwnsBlock
<1>1. TypeInv /\ DeskInv => BookingOwnsBlock
  <2> SUFFICES ASSUME TypeInv, DeskInv, NEW r \in Rids \ astray, Holding(r)
               PROVE  OwnsBlock(r)
    BY DEF BookingOwnsBlock
  <2>1. OwnsIn(blocks, r) /\ blocks \in SUBSET Blocks /\ TypeOK
    BY DEF DeskInv, CalendarInv, EachOwns, TypeInv, TypeOK
  <2> QED
    BY <2>1, OwnedBlock DEF OwnsBlock
<1> QED
  BY <1>1, DeskCorrect, PTL

\* Before an accident no booking block is left without the booking it is for.
THEOREM NoGhosts == Spec => []NoGhostBlock
<1>1. TypeInv /\ DeskInv => NoGhostBlock
  BY DEF DeskInv, GhostInv, GhostFree, Explains, NoGhostBlock
<1> QED
  BY <1>1, DeskCorrect, PTL

\* Two bookings without an accident whose blocks are due never have dates in
\* common: each owns its own block, and no two of them share one.
NoDoubleBooking ==
    \A r, q \in Rids \ astray :
        r # q /\ Holding(r) /\ Holding(q) => ~Overlaps(res[r].trip, res[q].trip)

\* The desk never gives one car to two bookings at the same time, but through
\* a recorded accident: that each owns its block is what makes the calendar safe.
THEOREM NeverTwice == Spec => []NoDoubleBooking
<1>1. TypeInv /\ DeskInv => NoDoubleBooking
  <2> SUFFICES ASSUME TypeInv, DeskInv, NEW r \in Rids \ astray,
                      NEW q \in Rids \ astray, r # q, Holding(r), Holding(q),
                      Overlaps(res[r].trip, res[q].trip)
               PROVE  FALSE
    BY DEF NoDoubleBooking
  <2>1. /\ OwnsIn(blocks, r) /\ OwnsIn(blocks, q)
        /\ blocks \in SUBSET Blocks /\ TypeOK
    BY DEF DeskInv, CalendarInv, EachOwns, TypeInv, TypeOK
  <2>2. PICK a \in blocks :
            /\ a.car = res[r].trip.car /\ a.from = res[r].trip.from
            /\ a.from \in Nat /\ a.to \in Nat /\ res[r].trip.to <= a.to
    BY <2>1, OwnedBlock
  <2>3. PICK b \in blocks :
            /\ b.car = res[q].trip.car /\ b.from = res[q].trip.from
            /\ b.from \in Nat /\ b.to \in Nat /\ res[q].trip.to <= b.to
    BY <2>1, OwnedBlock
  <2>4. Overlaps(a, b)
    BY <2>1, <2>2, <2>3, TripFacts DEF Overlaps
  <2>5. a = b
    BY <2>4 DEF DeskInv, CalendarInv, Disjoint
  <2>6. /\ res[r].trip.car = res[q].trip.car
        /\ res[r].trip.from = res[q].trip.from
    BY <2>2, <2>3, <2>5
  <2> QED
    BY <2>6 DEF DeskInv, CalendarInv, Apart
<1> QED
  BY <1>1, DeskCorrect, PTL

-----------------------------------------------------------------------------
(* Statuses and the fleet *)

\* What StatusByGraph says of a step.
ByGraph ==
    \A r \in Rids \ astray' :
        LET old == res[r].status
            new == res'[r].status
        IN  \/ old = "none" \/ CanTransition(old, new)
            \/ /\ old \in ActiveHoldStatuses \cup {"expired"}
               /\ new = "confirmed"

\* A status that stays is allowed by the graph.
LEMMA SameStatus ==
    ASSUME TypeOK, NEW r \in Rids, res'[r].status = res[r].status
    PROVE  res[r].status = "none" \/ CanTransition(res[r].status, res'[r].status)
BY TripFacts DEF CanTransition

\* Every step moves the statuses along the graph.
LEMMA GraphStep == TypeInv /\ [Next]_vars => ByGraph
<1> SUFFICES ASSUME TypeInv, [Next]_vars, NEW r \in Rids \ astray',
                    res[r].status # "none"
             PROVE  \/ CanTransition(res[r].status, res'[r].status)
                    \/ /\ res[r].status \in ActiveHoldStatuses \cup {"expired"}
                       /\ res'[r].status = "confirmed"
  BY DEF ByGraph
<1> DEFINE Goal == \/ CanTransition(res[r].status, res'[r].status)
                   \/ /\ res[r].status \in ActiveHoldStatuses \cup {"expired"}
                      /\ res'[r].status = "confirmed"
<1>1. TypeOK
  BY DEF TypeInv
<1>2. ASSUME res'[r].status = res[r].status PROVE Goal
  BY <1>1, <1>2, SameStatus
<1>3. ASSUME NEW q \in Rids, NEW new \in Statuses, WriteStatus(q, new)
      PROVE  Goal
  <2>1. CASE q = r
    BY <1>1, <1>3, <2>1 DEF WriteStatus, TypeOK, Rows
  <2>2. CASE q # r
    BY <1>1, <1>2, <1>3, <2>2 DEF WriteStatus, TypeOK
  <2> QED
    BY <2>1, <2>2
<1>4. ASSUME NEW q \in Rids, Reservation(q) PROVE Goal
  <2>1. ASSUME NEW t \in Trips, HoldPlaced(q, t) PROVE Goal
    BY <1>1, <1>2, <2>1 DEF HoldPlaced, TypeOK
  <2>2. ASSUME NEW o \in Oids, Confirm(q, o) PROVE Goal
    <3>1. CASE q = r
      BY <1>1, <2>2, <3>1 DEF Confirm, Payable, TypeOK, Rows
    <3>2. CASE q # r
      BY <1>1, <1>2, <2>2, <3>2 DEF Confirm, TypeOK
    <3> QED
      BY <3>1, <3>2
  <2>3. ASSUME NEW o \in Oids, NEW t \in Trips, CreateOrder(q, o, t) PROVE Goal
    BY <1>1, <1>2, <2>3 DEF CreateOrder, TypeOK
  <2>4. ASSUME NEW o \in Oids, RestoreOrder(o, q) PROVE Goal
    <3>1. q # r
      BY <2>4 DEF RestoreOrder
    <3> DEFINE t == orders[o].trip
    <3>2. Books(q, o, t) \/ \E x \in Rids : RestoresKept(x, o, t)
      BY <2>4, Bookings
    <3> HIDE DEF t
    <3>3. CASE Books(q, o, t)
      BY <1>2, <3>1, <3>3 DEF Books
    <3>4. ASSUME NEW x \in Rids, RestoresKept(x, o, t) PROVE Goal
      <4>1. res'[r].status = res[r].status
        BY <3>4 DEF RestoresKept
      <4> QED
        BY <1>2, <4>1
    <3> QED
      BY <3>2, <3>3, <3>4
  <2>5. "expired" \in Statuses
    BY DEF Statuses
  <2> HIDE DEF Goal
  <2> QED
    BY <1>3, <1>4, <2>1, <2>2, <2>3, <2>4, <2>5
    DEF Reservation, StaffStatus, ChangeStatus, HoldEnds
<1>5. ASSUME NEW k \in Clerks, EditCommit(k) PROVE Goal
  <2>1. res'[r].status = res[r].status
    BY <1>5, EditWrites DEF EditSound, Sound
  <2> QED
    BY <1>2, <2>1
<1>6. ASSUME NEW k \in Clerks, MoveCommit(k) PROVE Goal
  <2>1. res'[r].status = res[r].status
    BY <1>6, MoveWrites DEF Sound
  <2> QED
    BY <1>2, <2>1
<1>7. ASSUME NEW o \in Oids, DeleteOrder(o) PROVE Goal
  <2>1. orders[o].rid \in Rids /\ "cancelled" \in Statuses
    BY <1>7 DEF DeleteOrder, TypeInv, OrdersLinked, Linked, Statuses
  <2> QED
    BY <1>3, <1>7, <2>1 DEF DeleteOrder, ChangeStatus
<1>8. ASSUME UNCHANGED res PROVE Goal
  BY <1>2, <1>8
<1> HIDE DEF Goal
<1>9. ASSUME NEW k \in Clerks, Clerk(k) PROVE Goal
  BY <1>5, <1>6, <1>8, <1>9
  DEF Clerk, EditRead, EditSync, GiveUp, MoveRead, rows
<1> QED
  BY <1>4, <1>7, <1>8, <1>9
  DEF Next, BlockCreate, BlockDelete, BlockMove, Tick, Purge, SetFleet, vars,
      rows, Goal

\* A status leaves the lifecycle graph only by a full-row write after a
\* concurrent change, and a payment takes a hold to confirmed at once.
THEOREM GraphKept == Spec => StatusByGraph
<1>1. Spec => []TypeInv
  BY TypeInit, TypeStep, PTL DEF Spec
<1>2. TypeInv /\ [Next]_vars => [ByGraph]_vars
  BY GraphStep
<1>3. StatusByGraph <=> [][ByGraph]_vars
  BY DEF StatusByGraph, ByGraph
<1> QED
  BY <1>1, <1>2, <1>3, PTL DEF Spec

\* What OutStaysRented says of a step.
StaysRented ==
    \A r \in Rids :
        LET c == res[r].trip.car IN
        (Out(r) /\ Out(r)' /\ res'[r].trip.car = c /\ fleet[c] = "rented") =>
            \/ fleet'[c] = "rented"
            \/ \E q \in Rids : Out(q) /\ res[q].trip.car = c
                                 /\ res'[q].status = "returned"
            \/ \E s \in FleetChoices : SetFleet(c, s)

\* The fleet status that follows a reservation frees a rented car only when a
\* rental of it is returned.
LEMMA RentedAfter ==
    ASSUME TypeOK, NEW q \in Rids, NEW new, new # "returned", NEW c \in Cars,
           fleet[c] = "rented"
    PROVE  FleetAfter(q, new)[c] = "rented"
<1>1. CASE c = res[q].trip.car
  BY <1>1 DEF FleetAfter, FreesCar, TypeOK
<1>2. CASE c # res[q].trip.car
  BY <1>2 DEF FleetAfter, TypeOK
<1> QED
  BY <1>1, <1>2

\* Every step leaves the rented cars rented, but for a return or the staff.
LEMMA RentedStep == TypeInv /\ [Next]_vars => StaysRented
<1> SUFFICES ASSUME TypeInv, [Next]_vars, NEW r \in Rids,
                    fleet[res[r].trip.car] = "rented"
             PROVE  \/ fleet'[res[r].trip.car] = "rented"
                    \/ \E q \in Rids : /\ Out(q) /\ res'[q].status = "returned"
                                      /\ res[q].trip.car = res[r].trip.car
                    \/ \E s \in FleetChoices : SetFleet(res[r].trip.car, s)
  BY DEF StaysRented
<1> DEFINE c == res[r].trip.car
           Goal == \/ fleet'[c] = "rented"
                   \/ \E q \in Rids : /\ Out(q) /\ res'[q].status = "returned"
                                     /\ res[q].trip.car = c
                   \/ \E s \in FleetChoices : SetFleet(c, s)
<1>1. TypeOK /\ c \in Cars
  BY TripFacts DEF TypeInv
<1>2. ASSUME NEW q \in Rids, NEW new \in Statuses, ChangeStatus(q, new)
      PROVE  Goal
  <2>1. CASE new # "returned"
    BY <1>1, <1>2, <2>1, RentedAfter DEF ChangeStatus
  <2>2. CASE new = "returned"
    <3>1. Out(q) /\ res'[q].status = "returned"
      BY <1>1, <1>2, <2>2, StatusFacts DEF ChangeStatus, WriteStatus, Out, TypeOK, Rows
    <3>2. CASE res[q].trip.car = c
      BY <3>1, <3>2
    <3>3. CASE res[q].trip.car # c
      BY <1>1, <1>2, <3>3 DEF ChangeStatus, FleetAfter, TypeOK
    <3> QED
      BY <3>2, <3>3
  <2> QED
    BY <2>1, <2>2
<1>3. ASSUME NEW q \in Rids, NEW o \in Oids, Confirm(q, o) PROVE Goal
  BY <1>1, <1>3, RentedAfter DEF Confirm
<1>4. ASSUME NEW o \in Oids, DeleteOrder(o) PROVE Goal
  <2>1. orders[o].rid \in Rids /\ "cancelled" \in Statuses
    BY <1>4 DEF DeleteOrder, TypeInv, OrdersLinked, Linked, Statuses
  <2> QED
    BY <1>2, <1>4, <2>1 DEF DeleteOrder
<1>5. ASSUME NEW d \in Cars, NEW s \in FleetChoices, SetFleet(d, s) PROVE Goal
  <2>1. CASE d = c
    BY <1>5, <2>1
  <2>2. CASE d # c
    BY <1>1, <1>5, <2>2 DEF SetFleet, TypeOK
  <2> QED
    BY <2>1, <2>2
<1>6. ASSUME UNCHANGED fleet PROVE Goal
  BY <1>6
<1>7. "expired" \in Statuses
  BY DEF Statuses
<1> HIDE DEF Goal
<1>8. ASSUME NEW q \in Rids, Reservation(q) PROVE Goal
  <2>1. ASSUME HoldEnds(q) PROVE Goal
    BY <1>2, <1>6, <1>7, <2>1 DEF HoldEnds, ChangeStatus
  <2> QED
    BY <1>2, <1>3, <1>6, <1>8, <2>1
    DEF Reservation, StaffStatus, HoldPlaced, CreateOrder, RestoreOrder
<1>9. ASSUME NEW k \in Clerks, Clerk(k) PROVE Goal
  BY <1>6, <1>9
  DEF Clerk, EditRead, EditSync, EditCommit, GiveUp, MoveRead, MoveCommit, rows
<1> QED
  BY <1>4, <1>5, <1>6, <1>8, <1>9
  DEF Next, BlockCreate, BlockDelete, BlockMove, Tick, Purge, vars, rows, Goal

\* A car that stays out stays rented: nothing that happens to another
\* reservation, edit, move or sweep gives it free.
THEOREM OutRented == Spec => OutStaysRented
<1>1. Spec => []TypeInv
  BY TypeInit, TypeStep, PTL DEF Spec
<1>2. TypeInv /\ [Next]_vars => [StaysRented]_vars
  BY RentedStep
<1>3. OutStaysRented <=> [][StaysRented]_vars
  BY DEF OutStaysRented, StaysRented
<1> QED
  BY <1>1, <1>2, <1>3, PTL DEF Spec
=============================================================================
