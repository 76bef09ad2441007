--------------------------- MODULE HoldLocks_proofs ---------------------------
(***************************************************************************)
(* Proofs about HoldLocks: for any number of guests, cars, requests and    *)
(* rows, transactions on holds wait for each other in a circle only with   *)
(* the cleanup job in it, what they checked stays free, and nobody is      *)
(* refused a car without a reason.                                         *)
(***************************************************************************)
EXTENDS HoldLocks, TLAPS, WellFoundedInduction

(***************************************************************************)
(* The inductive invariant.  All that is said of a program reads its own   *)
(* work and the table; what the others may do to the table meanwhile is    *)
(* bounded by its locks (RowStep below), and no lock has two owners.       *)
(***************************************************************************)
Inside    == {"cars", "own", "row", "old", "new", "insert"}
AfterCars == Inside \ {"cars"}

\* Where a program of each kind can be, and what it holds there.
Kind(p) ==
    /\ p = Cleanup => proc[p].pc \in {"idle", "rows", "done"} /\ proc[p].id = 0
    /\ p \in Requests => proc[p].pc # "rows" /\ proc[p].op # "sweep"
    /\ proc[p].pc \in Inside <=> proc[p].session
    /\ proc[p].pc \notin Inside => proc[p].carLocks = {}
    /\ proc[p].pc \notin Inside \cup {"rows"} =>
          proc[p].rowLocks = {} /\ proc[p].done = {}
    /\ proc[p].pc \in {"row", "old"} => proc[p].op = "rehold"
    /\ proc[p].pc \in {"row", "old", "new", "insert"} /\ proc[p].op = "rehold" =>
          proc[p].id # 0
    /\ proc[p].taken => proc[p].pc = "done"

Own(p, i) == Active(i) /\ res[i].guest = proc[p].guest

\* The cars it needs are locked or still to be locked, in ascending order.
CarOrder(p) ==
    /\ proc[p].pc = "cars" => proc[p].cars # {}
    /\ proc[p].pc \in AfterCars => proc[p].cars = {}
    /\ \A c \in proc[p].carLocks, d \in proc[p].cars : c < d
    /\ proc[p].pc \in Inside =>
          /\ proc[p].car \in proc[p].carLocks \cup proc[p].cars
          /\ \A i \in Ids : Own(p, i) => res[i].car \in proc[p].carLocks \cup proc[p].cars
          /\ proc[p].id # 0 =>
                res[proc[p].id].car \in proc[p].carLocks \cup proc[p].cars

\* The row it works on is its guest's, and not one it expires.
OwnRow(p) ==
    /\ proc[p].op = "create" => proc[p].id = 0
    /\ proc[p].id # 0 =>
          /\ res[proc[p].id].status # "none"
          /\ res[proc[p].id].guest = proc[p].guest
          /\ proc[p].id \in proc[p].stale => res[proc[p].id].ttl = "renewed"
          /\ proc[p].pc \in {"old", "new", "insert"} =>
                /\ proc[p].id \in proc[p].rowLocks
                /\ res[proc[p].id].status = "pending_payment"

\* A row is locked under the lock of its car, except by the cleanup job.
UnderCar(p) ==
    /\ p \in Requests => \A i \in proc[p].rowLocks \cup proc[p].todo :
          res[i].car \in proc[p].carLocks
    /\ \A i \in proc[p].rowLocks \cup proc[p].todo : res[i].status # "none"
    /\ proc[p].done \subseteq proc[p].rowLocks
    /\ \A i \in proc[p].done : Active(i)
    /\ proc[p].id \notin proc[p].done

\* The holds that were over when it began are dealt with.
Swept(p) ==
    /\ \A i \in proc[p].stale : res[i].ttl # "running"
    /\ p \in Requests /\ proc[p].pc = "own" =>
          \A i \in Ids : Own(p, i) /\ Stale(i, proc[p].stale) =>
              i \in proc[p].todo \cup proc[p].done
    /\ proc[p].pc \in {"new", "insert"} /\ proc[p].op = "create" =>
          \A i \in Ids \ proc[p].done : Own(p, i) =>
              res[i].ttl = "over" /\ i \notin proc[p].stale
    /\ proc[p].pc = "new" =>
          \A i \in Ids \ proc[p].done :
              Stale(i, proc[p].stale) /\ res[i].car = proc[p].car => i \in proc[p].todo
    /\ proc[p].pc = "insert" =>
          \A i \in Ids \ (proc[p].done \cup {proc[p].id}) :
              Active(i) => res[i].car # proc[p].car

Sound(p) == Kind(p) /\ CarOrder(p) /\ OwnRow(p) /\ UnderCar(p) /\ Swept(p)

\* No lock has two owners.
OneOwner ==
    \A p, q \in Programs : p # q =>
        /\ proc[p].carLocks \cap proc[q].carLocks = {}
        /\ proc[p].rowLocks \cap proc[q].rowLocks = {}
        /\ ~(proc[p].session /\ proc[q].session /\ proc[p].guest = proc[q].guest)

TypeInv == res \in [Ids -> Rows] /\ proc \in [Programs -> Work]

IInv == TypeInv /\ Apart(res) /\ OneOwner /\ \A p \in Programs : Sound(p)

-----------------------------------------------------------------------------
(* The least car or row of a set, and the steps of a program *)

\* A set of naturals that is not empty has a least element, and Min is it.
LEMMA MinIsLeast ==
    ASSUME NEW S \in SUBSET Nat, S # {}
    PROVE  Min(S) \in S /\ \A n \in S : Min(S) <= n
<1>1. PICK m \in S : \A n \in S : ~ (<<n, m>> \in OpToRel(<, Nat))
  BY WFMin, NatLessThanWellFounded
<1>2. \A n \in S : ~ (n < m)
  BY <1>1 DEF OpToRel
<1>3. \A n \in S : m <= n
  BY <1>2
<1> QED
  BY <1>3 DEF Min

\* Idle work, and the end of a program, have their type.
LEMMA IdleTypes ==
    ASSUME NEW taken \in BOOLEAN, NEW p
    PROVE  Idle \in Work /\ Ended(p, taken) \in Work
<1>1. SomeGuest \in Guests /\ SomeCar \in Cars
  BY HoldNamesAssumption, HoldCarsAssumption DEF SomeGuest, SomeCar
<1>2. Idle \in Work
  BY <1>1 DEF Idle, Work
<1> QED
  BY <1>2 DEF Ended, Work

\* Goes changes the work of one program.
LEMMA OneGoes ==
    ASSUME proc \in [Programs -> Work], NEW p \in Programs, NEW w, Goes(p, w)
    PROVE  proc'[p] = w /\ \A q \in Programs \ {p} : proc'[q] = proc[q]
  BY DEF Goes

\* It keeps the type of proc.
LEMMA Going ==
    ASSUME proc \in [Programs -> Work], NEW p \in Programs, NEW w \in Work, Goes(p, w)
    PROVE  /\ proc' \in [Programs -> Work]
           /\ proc'[p] = w
           /\ \A q \in Programs \ {p} : proc'[q] = proc[q]
  BY DEF Goes

-----------------------------------------------------------------------------
(* What others may do to the table *)

\* Row i as q sees it change: it runs out, or is expired, paid for or moved by
\* somebody else, or is new; what q has locked keeps others away.
RowStep(q, i) ==
    \/ res'[i] = res[i]
    \/ /\ Active(i) /\ res'[i].guest = res[i].guest
       /\ res[i].ttl = "running" /\ res'[i].ttl = "over"
       /\ res'[i].status = res[i].status /\ res'[i].car = res[i].car
    \/ /\ Active(i) /\ i \notin proc[q].rowLocks /\ res'[i].guest = res[i].guest
       /\ \/ /\ res'[i].status = "expired"
             /\ res'[i].ttl = res[i].ttl /\ res'[i].car = res[i].car
          \/ /\ res'[i].status = "processing_payment" /\ res'[i].car = res[i].car
             /\ res[i].ttl # "over" /\ res'[i].ttl = "renewed"
          \/ /\ res'[i].status = res[i].status /\ res'[i].ttl = "renewed"
             /\ res[i].car \notin proc[q].carLocks
             /\ res'[i].car \notin proc[q].carLocks
             /\ ~(proc[q].session /\ proc[q].guest = res[i].guest)
    \/ /\ res[i].status = "none"
       /\ res'[i].status = "pending_payment" /\ res'[i].ttl = "renewed"
       /\ res'[i].car \notin proc[q].carLocks
       /\ ~(proc[q].session /\ proc[q].guest = res'[i].guest)

\* Such steps leave what is said of q true.
LEMMA OthersKeep ==
    ASSUME TypeInv, TypeInv', NEW q \in Programs, Sound(q),
           \A i \in Ids : RowStep(q, i), proc'[q] = proc[q]
    PROVE  Sound(q)'
<1> USE DEF TypeInv, Rows, Active, ActiveIn, ActiveHoldStatuses
<1>0. Ids \subseteq Nat \ {0}
  BY HoldBoundAssumption DEF Ids
<1>t. /\ proc[q].id \in Ids \cup {0} /\ proc[q].session \in BOOLEAN
      /\ proc[q].stale \subseteq Ids /\ proc[q].todo \subseteq Ids
      /\ proc[q].done \subseteq Ids /\ proc[q].rowLocks \subseteq Ids
  BY DEF Work
<1>a. ASSUME NEW i \in Ids, res[i].status # "none"
      PROVE  /\ res'[i].status # "none" /\ res'[i].guest = res[i].guest
             /\ res[i].ttl = "renewed" => res'[i].ttl = "renewed"
             /\ res[i].ttl # "running" => res'[i].ttl # "running"
             /\ res[i].car \in proc[q].carLocks => res'[i].car = res[i].car
             /\ proc[q].session /\ res[i].guest = proc[q].guest =>
                   res'[i].car = res[i].car
             /\ i \in proc[q].rowLocks => res'[i].status = res[i].status
  BY <1>a DEF RowStep
<1>b. ASSUME NEW i \in Ids, Active(i)'
      PROVE  /\ proc[q].session /\ res'[i].guest = proc[q].guest =>
                   Own(q, i) /\ res'[i].car = res[i].car
             /\ res'[i].car \in proc[q].carLocks =>
                   Active(i) /\ res'[i].car = res[i].car
             /\ res'[i].ttl = "over" => Active(i) /\ res[i].ttl # "renewed"
  BY <1>b DEF RowStep, Own
<1>c. ASSUME NEW i \in Ids, Active(i)', Active(i), res[i].ttl = "over",
             proc[q].session /\ res'[i].guest = proc[q].guest
      PROVE  res'[i].ttl = "over"
  BY <1>c DEF RowStep
<1>1. Kind(q)'
  BY DEF Sound, Kind
<1>s. proc[q].pc \in Inside => proc[q].session
  BY DEF Sound, Kind
<1>i. ASSUME proc[q].id # 0
      PROVE  /\ proc[q].id \in Ids
             /\ res[proc[q].id].status # "none"
             /\ res[proc[q].id].guest = proc[q].guest
  BY <1>i, <1>t DEF Sound, OwnRow
<1>2. CarOrder(q)'
  <2>1. ASSUME NEW i \in Ids, Own(q, i)', proc[q].pc \in Inside
        PROVE  res'[i].car \in proc[q].carLocks \cup proc[q].cars
    <3>1. Own(q, i) /\ res'[i].car = res[i].car
      BY <2>1, <1>s, <1>b DEF Own
    <3> QED
      BY <2>1, <3>1 DEF Sound, CarOrder
  <2>2. ASSUME proc[q].id # 0, proc[q].pc \in Inside
        PROVE  res'[proc[q].id].car \in proc[q].carLocks \cup proc[q].cars
    <3>1. res'[proc[q].id].car = res[proc[q].id].car
      BY <2>2, <1>s, <1>i, <1>a
    <3> QED
      BY <2>2, <3>1 DEF Sound, CarOrder
  <2> QED
    BY <2>1, <2>2 DEF Sound, CarOrder
<1>3. OwnRow(q)'
  <2>1. ASSUME proc[q].id # 0
        PROVE  /\ res'[proc[q].id].status # "none"
               /\ res'[proc[q].id].guest = proc[q].guest
               /\ proc[q].id \in proc[q].stale => res'[proc[q].id].ttl = "renewed"
               /\ proc[q].pc \in {"old", "new", "insert"} =>
                     res'[proc[q].id].status = "pending_payment"
    BY <2>1, <1>i, <1>a DEF Sound, OwnRow
  <2> QED
    BY <2>1 DEF Sound, OwnRow
<1>4. UnderCar(q)'
  BY <1>0, <1>t, <1>a DEF Sound, UnderCar
<1>5. Swept(q)'
  <2>1. \A i \in proc[q].stale : res'[i].ttl # "running"
    BY <1>t DEF Sound, Swept, RowStep
  <2>2. ASSUME q \in Requests, proc[q].pc = "own",
               NEW i \in Ids, Own(q, i)', Stale(i, proc[q].stale)'
        PROVE  i \in proc[q].todo \cup proc[q].done
    <3>1. Own(q, i) /\ Stale(i, proc[q].stale)
      BY <2>2, <1>s, <1>b DEF Own, Stale, Inside, Sound, Swept
    <3> QED
      BY <2>2, <3>1 DEF Sound, Swept
  <2>3. ASSUME proc[q].pc \in {"new", "insert"}, proc[q].op = "create",
               NEW i \in Ids \ proc[q].done, Own(q, i)'
        PROVE  res'[i].ttl = "over" /\ i \notin proc[q].stale
    <3>1. Own(q, i)
      BY <2>3, <1>s, <1>b DEF Own, Inside
    <3>2. res[i].ttl = "over" /\ i \notin proc[q].stale
      BY <2>3, <3>1 DEF Sound, Swept
    <3> QED
      BY <2>3, <3>1, <3>2, <1>s, <1>c DEF Own, Inside
  <2>4. ASSUME proc[q].pc = "new", NEW i \in Ids \ proc[q].done,
               Stale(i, proc[q].stale)', res'[i].car = proc[q].car
        PROVE  i \in proc[q].todo
    <3>1. proc[q].car \in proc[q].carLocks
      BY <2>4 DEF Sound, CarOrder, Inside, AfterCars
    <3>2. Stale(i, proc[q].stale) /\ res[i].car = proc[q].car
      BY <2>4, <3>1, <1>b DEF Stale, Sound, Swept
    <3> QED
      BY <2>4, <3>2 DEF Sound, Swept
  <2>5. ASSUME proc[q].pc = "insert",
               NEW i \in Ids \ (proc[q].done \cup {proc[q].id}), Active(i)'
        PROVE  res'[i].car # proc[q].car
    <3>1. proc[q].car \in proc[q].carLocks
      BY <2>5 DEF Sound, CarOrder, Inside, AfterCars
    <3> QED
      BY <2>5, <3>1, <1>b DEF Sound, Swept
  <2> QED
    BY <2>1, <2>2, <2>3, <2>4, <2>5 DEF Swept
<1> QED
  BY <1>1, <1>2, <1>3, <1>4, <1>5 DEF Sound

\* A program that has ended.
LEMMA EndIsSound ==
    ASSUME TypeInv', NEW p \in Programs, NEW taken \in BOOLEAN,
           proc'[p] = Ended(p, taken)
    PROVE  Sound(p)'
<1>1. /\ proc'[p].pc = "done" /\ proc'[p].op = "create" /\ proc'[p].id = 0
      /\ proc'[p].cars = {} /\ proc'[p].stale = {} /\ proc'[p].todo = {}
      /\ proc'[p].done = {} /\ ~proc'[p].session /\ proc'[p].carLocks = {}
      /\ proc'[p].rowLocks = {}
  BY DEF Ended, Idle
<1> QED
  BY <1>1 DEF Sound, Kind, CarOrder, OwnRow, UnderCar, Swept, Inside, AfterCars

\* A step that ends p and changes rows as the others' locks allow.
LEMMA EndKeeps ==
    ASSUME IInv, NEW p \in Programs, NEW taken \in BOOLEAN, End(p, taken),
           res' \in [Ids -> Rows], Apart(res)',
           \A q \in Programs \ {p} : \A i \in Ids : RowStep(q, i)
    PROVE  IInv'
<1>1. /\ proc' \in [Programs -> Work] /\ proc'[p] = Ended(p, taken)
      /\ \A q \in Programs \ {p} : proc'[q] = proc[q]
  BY IdleTypes, Going DEF End, IInv, TypeInv
<1>2. TypeInv'
  BY <1>1 DEF TypeInv
<1>3. \A q \in Programs : Sound(q)'
  <2> TAKE q \in Programs
  <2>1. CASE q = p
    BY <2>1, <1>1, <1>2, EndIsSound
  <2>2. CASE q # p
    BY <2>2, <1>1, <1>2, OthersKeep DEF IInv
  <2> QED
    BY <2>1, <2>2
<1>4. OneOwner'
  <2>1. ~proc'[p].session /\ proc'[p].carLocks = {} /\ proc'[p].rowLocks = {}
    BY <1>1 DEF Ended, Idle
  <2> QED
    BY <1>1, <2>1 DEF IInv, OneOwner
<1> QED
  BY <1>2, <1>3, <1>4 DEF IInv

\* A step of p that leaves the table alone and takes only free locks.
LEMMA WorkKeeps ==
    ASSUME IInv, NEW p \in Programs, NEW w \in Work, Goes(p, w), UNCHANGED res,
           \A q \in Programs \ {p} :
               /\ w.carLocks \cap proc[q].carLocks = {}
               /\ w.rowLocks \cap proc[q].rowLocks = {}
               /\ ~(w.session /\ proc[q].session /\ w.guest = proc[q].guest),
           Sound(p)'
    PROVE  IInv'
<1>1. /\ proc' \in [Programs -> Work] /\ proc'[p] = w
      /\ \A q \in Programs \ {p} : proc'[q] = proc[q]
  BY Going DEF IInv, TypeInv
<1>2. TypeInv' /\ Apart(res)'
  BY <1>1 DEF IInv, TypeInv, Apart, ActiveIn
<1>3. \A q \in Programs : Sound(q)'
  <2> TAKE q \in Programs
  <2>1. CASE q = p
    BY <2>1
  <2>2. CASE q # p
    <3>1. \A i \in Ids : RowStep(q, i)
      BY DEF RowStep
    <3> QED
      BY <2>2, <3>1, <1>1, <1>2, OthersKeep DEF IInv
  <2> QED
    BY <2>1, <2>2
<1>4. OneOwner'
  BY <1>1 DEF IInv, OneOwner
<1> QED
  BY <1>2, <1>3, <1>4 DEF IInv

-----------------------------------------------------------------------------
(* Steps that change the table *)

\* What p has expired, the others see as rows expired by somebody else.
LEMMA CommitRow ==
    ASSUME IInv, NEW p \in Programs, NEW q \in Programs \ {p}, NEW i \in Ids,
           res'[i] = Committed(p)[i]
    PROVE  RowStep(q, i)
<1>1. CASE i \in proc[p].done
  <2>1. Active(i) /\ i \in proc[p].rowLocks
    BY <1>1 DEF IInv, Sound, UnderCar
  <2>2. i \notin proc[q].rowLocks
    BY <2>1 DEF IInv, OneOwner
  <2>3. res'[i] = [res[i] EXCEPT !.status = "expired"] /\ res[i] \in Rows
    BY <1>1 DEF Committed, IInv, TypeInv
  <2>4. /\ res'[i].status = "expired" /\ res'[i].guest = res[i].guest
        /\ res'[i].car = res[i].car /\ res'[i].ttl = res[i].ttl
    BY <2>3 DEF Rows
  <2> QED
    BY <2>1, <2>2, <2>4 DEF RowStep
<1>2. CASE i \notin proc[p].done
  BY <1>2 DEF Committed, RowStep
<1> QED
  BY <1>1, <1>2

\* A committed table is a table, and what is active in it was before.
LEMMA CommittedTypes ==
    ASSUME IInv, NEW p \in Programs
    PROVE  /\ Committed(p) \in [Ids -> Rows]
           /\ \A i \in Ids : ActiveIn(Committed(p), i) =>
                 i \notin proc[p].done /\ Committed(p)[i] = res[i]
<1>1. ASSUME NEW i \in Ids
      PROVE  /\ [res[i] EXCEPT !.status = "expired"] \in Rows /\ res[i] \in Rows
             /\ [res[i] EXCEPT !.status = "expired"].status = "expired"
  BY DEF IInv, TypeInv, Rows, ActiveHoldStatuses
<1> QED
  BY <1>1 DEF Committed, ActiveIn, ActiveHoldStatuses

\* A commit keeps the invariant.
LEMMA CommitKeeps ==
    ASSUME IInv, NEW p \in Programs, NEW taken \in BOOLEAN, Commit(p, taken)
    PROVE  IInv'
<1>1. res' = Committed(p) /\ End(p, taken)
  BY DEF Commit
<1>2. res' \in [Ids -> Rows]
  BY <1>1, CommittedTypes
<1>3. Apart(res)'
  BY <1>1, CommittedTypes DEF IInv, Apart, ActiveIn
<1>4. \A q \in Programs \ {p} : \A i \in Ids : RowStep(q, i)
  BY <1>1, CommitRow
<1> QED
  BY <1>1, <1>2, <1>3, <1>4, EndKeeps

\* The victim of a deadlock leaves the table alone.
LEMMA VictimKeeps ==
    ASSUME IInv, NEW p \in Programs, Victim(p)
    PROVE  IInv'
<1>1. res' = res /\ End(p, FALSE)
  BY DEF Victim
<1>2. res' \in [Ids -> Rows] /\ Apart(res)'
  BY <1>1 DEF IInv, TypeInv, Apart, ActiveIn
<1>3. \A q \in Programs \ {p} : \A i \in Ids : RowStep(q, i)
  BY <1>1 DEF RowStep
<1> QED
  BY <1>1, <1>2, <1>3, EndKeeps

\* A program that inserts or moves a row has the locks of its session and of
\* the car, so nobody else has them; and no rival row is left.
LEMMA AtInsert ==
    ASSUME IInv, NEW p \in Programs, proc[p].pc = "insert"
    PROVE  /\ p \in Requests /\ proc[p].session /\ proc[p].car \in proc[p].carLocks
           /\ proc[p].guest \in Guests /\ proc[p].car \in Cars
           /\ \A i \in Ids \ (proc[p].done \cup {proc[p].id}) :
                 Active(i) => res[i].car # proc[p].car
           /\ \A q \in Programs \ {p} :
                 /\ proc[p].car \notin proc[q].carLocks
                 /\ ~(proc[q].session /\ proc[q].guest = proc[p].guest)
<1>1. Sound(p) /\ proc[p] \in Work
  BY DEF IInv, TypeInv
<1>2. p \in Requests /\ proc[p].session /\ proc[p].car \in proc[p].carLocks
  BY <1>1 DEF Sound, Kind, CarOrder, Programs, Inside, AfterCars
<1>3. proc[p].guest \in Guests /\ proc[p].car \in Cars
  BY <1>1 DEF Work
<1>4. \A i \in Ids \ (proc[p].done \cup {proc[p].id}) :
         Active(i) => res[i].car # proc[p].car
  BY <1>1 DEF Sound, Swept
<1>5. ASSUME NEW q \in Programs \ {p}
      PROVE  /\ proc[p].car \notin proc[q].carLocks
             /\ ~(proc[q].session /\ proc[q].guest = proc[p].guest)
  BY <1>2 DEF IInv, OneOwner
<1> QED
  BY <1>2, <1>3, <1>4, <1>5

\* The insert of a hold keeps the invariant.
LEMMA InsertKeeps ==
    ASSUME IInv, NEW p \in Programs, Insert(p)
    PROVE  IInv'
<1>0. /\ proc[p].pc = "insert" /\ proc[p].op = "create" /\ Rivals(p) = {}
      /\ End(p, FALSE)
  BY DEF Insert
<1>1. PICK new \in Ids :
          /\ res[new].status = "none"
          /\ res' = [Committed(p) EXCEPT ![new] =
                        Held(proc[p].guest, proc[p].car, "renewed")]
  BY DEF Insert, Unused
<1> DEFINE row == Held(proc[p].guest, proc[p].car, "renewed")
<1>2. /\ row \in Rows /\ row.status = "pending_payment" /\ row.ttl = "renewed"
      /\ row.guest = proc[p].guest /\ row.car = proc[p].car
  BY <1>0, AtInsert DEF Held, Rows, ActiveHoldStatuses
<1>3. /\ res' \in [Ids -> Rows] /\ res'[new] = row
      /\ \A i \in Ids \ {new} : res'[i] = Committed(p)[i]
  BY <1>1, <1>2, CommittedTypes
<1> HIDE DEF row
<1>4. \A q \in Programs \ {p} : \A i \in Ids : RowStep(q, i)
  <2> TAKE q \in Programs \ {p}
  <2> TAKE i \in Ids
  <2>1. CASE i = new
    BY <2>1, <1>0, <1>1, <1>2, <1>3, AtInsert DEF RowStep
  <2>2. CASE i # new
    BY <2>2, <1>3, CommitRow
  <2> QED
    BY <2>1, <2>2
<1>5. Apart(res)'
  <2>1. ASSUME NEW i \in Ids \ {new}, ActiveIn(res, i)'
        PROVE  res'[i].guest # row.guest /\ res'[i].car # row.car
    <3>1. ActiveIn(Committed(p), i) /\ res'[i] = Committed(p)[i]
      BY <2>1, <1>3 DEF ActiveIn
    <3>2. i \notin proc[p].done /\ Active(i) /\ res'[i] = res[i]
      BY <3>1, CommittedTypes DEF Active, ActiveIn
    <3>3. i # proc[p].id
      BY <1>0, HoldBoundAssumption DEF IInv, Sound, OwnRow, Ids
    <3> QED
      BY <3>2, <3>3, <1>0, <1>2 DEF Rivals
  <2>2. ASSUME NEW i \in Ids \ {new}, NEW j \in Ids \ {new}, i # j,
               ActiveIn(res, i)', ActiveIn(res, j)'
        PROVE  res'[i].guest # res'[j].guest /\ res'[i].car # res'[j].car
    <3>1. ActiveIn(Committed(p), i) /\ ActiveIn(Committed(p), j)
      BY <2>2, <1>3 DEF ActiveIn
    <3>2. Active(i) /\ Active(j) /\ res'[i] = res[i] /\ res'[j] = res[j]
      BY <3>1, <1>3, CommittedTypes DEF Active, ActiveIn
    <3> QED
      BY <2>2, <3>2 DEF IInv, Apart, Active
  <2> QED
    BY <2>1, <2>2, <1>3 DEF Apart
<1> QED
  BY <1>0, <1>3, <1>4, <1>5, EndKeeps

\* The move of a hold keeps the invariant.
LEMMA MoveKeeps ==
    ASSUME IInv, NEW p \in Programs, Move(p)
    PROVE  IInv'
<1> DEFINE own == proc[p].id
<1> DEFINE row == [res[own] EXCEPT !.car = proc[p].car, !.ttl = "renewed"]
<1>0. /\ proc[p].pc = "insert" /\ proc[p].op = "rehold"
      /\ End(p, FALSE) /\ res' = [Committed(p) EXCEPT ![own] = row]
  BY DEF Move
<1>1. /\ own \in Ids /\ own \in proc[p].rowLocks /\ res[own].status = "pending_payment"
      /\ res[own].guest = proc[p].guest /\ res[own] \in Rows
      /\ res[own].car \in proc[p].carLocks
  <2>1. own \in Ids \cup {0} /\ own # 0
    BY <1>0 DEF IInv, TypeInv, Sound, Kind, Work
  <2>2. own \in proc[p].rowLocks /\ res[own].status = "pending_payment"
        /\ res[own].guest = proc[p].guest
    BY <2>1, <1>0 DEF IInv, Sound, OwnRow
  <2>3. res[own].car \in proc[p].carLocks
    BY <2>2, <1>0, AtInsert DEF IInv, Sound, UnderCar
  <2> QED
    BY <2>1, <2>2, <2>3 DEF IInv, TypeInv
<1>2. /\ row \in Rows /\ row.status = res[own].status /\ row.ttl = "renewed"
      /\ row.guest = proc[p].guest /\ row.car = proc[p].car
  BY <1>0, <1>1, AtInsert DEF Rows
<1>3. /\ res' \in [Ids -> Rows] /\ res'[own] = row
      /\ \A i \in Ids \ {own} : res'[i] = Committed(p)[i]
  BY <1>0, <1>1, <1>2, CommittedTypes
<1>4. Active(own)
  BY <1>1 DEF Active, ActiveIn, ActiveHoldStatuses
<1> HIDE DEF row, own
<1>5. ASSUME NEW q \in Programs \ {p}
      PROVE  /\ own \notin proc[q].rowLocks
             /\ res[own].car \notin proc[q].carLocks
             /\ row.car \notin proc[q].carLocks
             /\ ~(proc[q].session /\ proc[q].guest = res[own].guest)
  BY <1>0, <1>1, <1>2, AtInsert DEF IInv, OneOwner
<1>6. \A q \in Programs \ {p} : \A i \in Ids : RowStep(q, i)
  <2> TAKE q \in Programs \ {p}
  <2> TAKE i \in Ids
  <2>1. CASE i = own
    BY <2>1, <1>1, <1>2, <1>3, <1>4, <1>5 DEF RowStep
  <2>2. CASE i # own
    BY <2>2, <1>3, CommitRow
  <2> QED
    BY <2>1, <2>2
<1>7. Apart(res)'
  <2>1. ASSUME NEW i \in Ids \ {own}, ActiveIn(res, i)'
        PROVE  /\ Active(i) /\ res'[i] = res[i]
               /\ res'[i].guest # row.guest /\ res'[i].car # row.car
    <3>1. ActiveIn(Committed(p), i) /\ res'[i] = Committed(p)[i]
      BY <2>1, <1>3 DEF ActiveIn
    <3>2. i \notin proc[p].done /\ Active(i) /\ res'[i] = res[i]
      BY <3>1, CommittedTypes DEF Active, ActiveIn
    <3>3. res[i].guest # res[own].guest
      BY <2>1, <3>2, <1>1, <1>4 DEF IInv, Apart, Active
    <3> QED
      BY <3>2, <3>3, <1>0, <1>1, <1>2, AtInsert DEF own
  <2>2. ASSUME NEW i \in Ids \ {own}, NEW j \in Ids \ {own}, i # j,
               ActiveIn(res, i)', ActiveIn(res, j)'
        PROVE  res'[i].guest # res'[j].guest /\ res'[i].car # res'[j].car
    BY <2>1, <2>2 DEF IInv, Apart, Active
  <2> QED
    BY <2>1, <2>2, <1>3 DEF Apart
<1> QED
  BY <1>0, <1>3, <1>6, <1>7, EndKeeps

\* A step of the clock or of checkout: the programs go on as they were.
LEMMA TableKeeps ==
    ASSUME IInv, proc' = proc, NEW i \in Ids, NEW row \in Rows, Active(i),
           res' = [res EXCEPT ![i] = row],
           row.guest = res[i].guest, row.car = res[i].car,
           \A q \in Programs : RowStep(q, i)
    PROVE  IInv'
<1>1. TypeInv'
  BY DEF IInv, TypeInv
<1>2. /\ res'[i] = row /\ \A j \in Ids \ {i} : res'[j] = res[j]
  BY DEF IInv, TypeInv
<1>3. \A q \in Programs : Sound(q)'
  <2> TAKE q \in Programs
  <2>1. \A j \in Ids : RowStep(q, j)
    BY <1>2 DEF RowStep
  <2> QED
    BY <1>1, <2>1, OthersKeep DEF IInv
<1>4. Apart(res)'
  BY <1>2 DEF IInv, Apart, Active, ActiveIn
<1>5. OneOwner'
  BY DEF IInv, OneOwner
<1> QED
  BY <1>1, <1>3, <1>4, <1>5 DEF IInv

\* A hold runs out.
LEMMA LapseKeeps ==
    ASSUME IInv, NEW i \in Ids, Lapse(i)
    PROVE  IInv'
<1> DEFINE row == [res[i] EXCEPT !.ttl = "over"]
<1>1. /\ Active(i) /\ res[i].ttl = "running" /\ proc' = proc
      /\ res' = [res EXCEPT ![i] = row]
  BY DEF Lapse
<1>2. res[i] \in Rows
  BY DEF IInv, TypeInv
<1>3. /\ row \in Rows /\ row.status = res[i].status /\ row.guest = res[i].guest
      /\ row.car = res[i].car /\ row.ttl = "over"
  BY <1>2 DEF Rows
<1> HIDE DEF row
<1>4. res'[i] = row
  BY <1>1 DEF IInv, TypeInv
<1>5. \A q \in Programs : RowStep(q, i)
  BY <1>1, <1>3, <1>4 DEF RowStep
<1> QED
  BY <1>1, <1>3, <1>5, TableKeeps

\* Checkout takes a hold whose row nobody has locked.
LEMMA PayKeeps ==
    ASSUME IInv, NEW i \in Ids, Pay(i)
    PROVE  IInv'
<1> DEFINE row == [res[i] EXCEPT !.status = "processing_payment", !.ttl = "renewed"]
<1>1. /\ Active(i) /\ res[i].ttl # "over" /\ Owners(i) = {} /\ proc' = proc
      /\ res' = [res EXCEPT ![i] = row]
  BY DEF Pay, HoldsOf
<1>2. res[i] \in Rows
  BY DEF IInv, TypeInv
<1>3. /\ row \in Rows /\ row.status = "processing_payment"
      /\ row.guest = res[i].guest /\ row.car = res[i].car /\ row.ttl = "renewed"
  BY <1>2 DEF Rows, ActiveHoldStatuses
<1> HIDE DEF row
<1>4. res'[i] = row
  BY <1>1 DEF IInv, TypeInv
<1>5. \A q \in Programs : RowStep(q, i)
  BY <1>1, <1>3, <1>4 DEF RowStep, Owners
<1> QED
  BY <1>1, <1>3, <1>5, TableKeeps

-----------------------------------------------------------------------------
(* Steps that leave the table alone *)

\* What a request may expire, and what it knows of its types.
LEMMA OfRequest ==
    ASSUME IInv, NEW p \in Requests
    PROVE  /\ p \in Programs /\ p # Cleanup /\ Sound(p) /\ proc[p] \in Work
           /\ Ids \subseteq Nat \ {0}
           /\ \A i : Expirable(p, i) <=> Stale(i, proc[p].stale)
           /\ \A c : StaleOn(p, c) =
                 {i \in Ids \ proc[p].done : Stale(i, proc[p].stale) /\ res[i].car = c}
  BY HoldNamesAssumption, HoldBoundAssumption
  DEF IInv, TypeInv, Programs, Ids, Expirable, StaleOn

\* A request begins.
LEMMA AskKeeps ==
    ASSUME IInv, NEW p \in Requests, NEW g \in Guests, NEW c \in Cars, Ask(p, g, c)
    PROVE  IInv'
<1>1. PICK op \in {"create", "rehold"} :
         Goes(p, [Idle EXCEPT !.pc = "session", !.op = op,
                              !.guest = g, !.car = c, !.stale = StaleNow])
  BY DEF Ask
<1> DEFINE w == [Idle EXCEPT !.pc = "session", !.op = op,
                             !.guest = g, !.car = c, !.stale = StaleNow]
<1>2. /\ w \in Work /\ w.pc = "session" /\ w.op = op /\ w.id = 0 /\ w.cars = {}
      /\ w.stale = StaleNow /\ w.todo = {} /\ w.done = {} /\ ~w.session
      /\ w.carLocks = {} /\ w.rowLocks = {} /\ ~w.taken
  BY IdleTypes DEF Idle, Work, StaleNow
<1>3. Goes(p, w) /\ UNCHANGED res
  BY <1>1 DEF Ask
<1> HIDE DEF w
<1>4. p \in Programs /\ p # Cleanup /\ proc'[p] = w
  BY <1>2, <1>3, OfRequest, Going DEF IInv, TypeInv
<1>5. Sound(p)'
  BY <1>2, <1>3, <1>4
  DEF Sound, Kind, CarOrder, OwnRow, UnderCar, Swept, Inside, AfterCars, StaleNow
<1> QED
  BY <1>2, <1>3, <1>4, <1>5, WorkKeeps

\* The cleanup run begins.
LEMMA SweepStartKeeps ==
    ASSUME IInv, SweepStart
    PROVE  IInv'
<1>1. PICK L \in Listings :
         Goes(Cleanup, [Idle EXCEPT !.pc = "rows", !.op = "sweep",
                             !.stale = StaleNow, !.listed = L,
                             !.todo = {i \in Ids : Abandoned(i, StaleNow, L)}])
  BY DEF SweepStart
<1> DEFINE w == [Idle EXCEPT !.pc = "rows", !.op = "sweep",
                             !.stale = StaleNow, !.listed = L,
                             !.todo = {i \in Ids : Abandoned(i, StaleNow, L)}]
<1>2. /\ w \in Work /\ w.pc = "rows" /\ w.op = "sweep" /\ w.id = 0 /\ w.cars = {}
      /\ w.stale = StaleNow /\ w.todo = {i \in Ids : Abandoned(i, StaleNow, L)}
      /\ w.done = {} /\ ~w.session /\ w.carLocks = {} /\ w.rowLocks = {} /\ ~w.taken
  BY IdleTypes, HoldListingsAssumption DEF Idle, Work, StaleNow
<1>3. Goes(Cleanup, w) /\ UNCHANGED res
  BY <1>1 DEF SweepStart
<1> HIDE DEF w
<1>4. Cleanup \in Programs /\ Cleanup \notin Requests /\ proc'[Cleanup] = w
  BY <1>2, <1>3, Going, HoldNamesAssumption DEF IInv, TypeInv, Programs
<1>5. Sound(Cleanup)'
  BY <1>2, <1>3, <1>4
  DEF Sound, Kind, CarOrder, OwnRow, UnderCar, Swept, Inside, AfterCars, StaleNow, Abandoned
<1> QED
  BY <1>2, <1>3, <1>4, <1>5, WorkKeeps

\* The session's lock.
LEMMA LockSessionKeeps ==
    ASSUME IInv, NEW p \in Programs, LockSession(p)
    PROVE  IInv'
<1> DEFINE peeked == IF proc[p].op = "rehold" THEN HoldOf(proc[p].guest) ELSE 0
<1> DEFINE w == [proc[p] EXCEPT !.session = TRUE, !.pc = "cars",
                                !.id = peeked, !.cars = CarsToLock(p)]
<1>0. proc[p].pc = "session" /\ Granted(p) /\ UNCHANGED res /\ p \in Requests
  BY DEF LockSession, IInv, Sound, Kind, Programs
<1>1. CASE peeked # 0 /\ res[peeked].status = "processing_payment"
  <2>1. End(p, FALSE)
    BY <1>1 DEF LockSession
  <2>2. res' \in [Ids -> Rows] /\ Apart(res)'
    BY <1>0 DEF IInv, TypeInv, Apart, ActiveIn
  <2>3. \A q \in Programs \ {p} : \A i \in Ids : RowStep(q, i)
    BY <1>0 DEF RowStep
  <2> QED
    BY <2>1, <2>2, <2>3, EndKeeps
<1>2. CASE ~(peeked # 0 /\ res[peeked].status = "processing_payment")
  <2>1. Goes(p, w)
    BY <1>2 DEF LockSession
  <2>2. peeked \in HoldsOf(proc[p].guest) \cup {0} /\ (proc[p].op = "create" => peeked = 0)
    BY DEF HoldOf
  <2>3. peeked \in Ids \cup {0} /\ CarsToLock(p) \subseteq Cars
        /\ proc[p].car \in CarsToLock(p)
    BY <1>0, <2>2, OfRequest DEF HoldsOf, CarsToLock, IInv, TypeInv, Rows, Work
  <2>4. \A i \in Ids : Own(p, i) => res[i].car \in CarsToLock(p)
    BY DEF CarsToLock, Own
  <2>5. peeked # 0 => /\ Own(p, peeked) /\ res[peeked].ttl # "over"
                      /\ res[peeked].status # "none"
    BY <2>2 DEF HoldsOf, Own, Active, ActiveIn, ActiveHoldStatuses
  <2> HIDE DEF peeked
  <2>6. /\ w \in Work /\ w.pc = "cars" /\ w.op = proc[p].op /\ w.guest = proc[p].guest
        /\ w.car = proc[p].car /\ w.id = peeked /\ w.cars = CarsToLock(p)
        /\ w.stale = proc[p].stale /\ w.todo = proc[p].todo /\ w.done = proc[p].done
        /\ w.session /\ w.carLocks = proc[p].carLocks /\ w.rowLocks = proc[p].rowLocks
        /\ w.taken = proc[p].taken
    BY <1>0, <2>3, OfRequest DEF Work
  <2> HIDE DEF w
  <2>7. proc'[p] = w /\ res' = res
    BY <2>1, <2>6, <1>0, Going DEF IInv, TypeInv
  <2>8. /\ proc[p].carLocks = {} /\ proc[p].rowLocks = {} /\ proc[p].done = {}
        /\ ~proc[p].taken /\ p # Cleanup /\ proc[p].op # "sweep"
        /\ \A i \in proc[p].stale : res[i].ttl # "running"
        /\ \A i \in proc[p].todo : FALSE
    BY <1>0, OfRequest DEF Sound, Kind, UnderCar, Swept, Inside
  <2>9. Kind(p)'
    BY <2>6, <2>7, <2>8 DEF Kind, Inside
  <2>10. CarOrder(p)'
    BY <2>3, <2>4, <2>5, <2>6, <2>7, <2>8 DEF CarOrder, Own, Active, ActiveIn, AfterCars
  <2>11. OwnRow(p)'
    <3>1. peeked # 0 /\ peeked \in proc[p].stale => res[peeked].ttl = "renewed"
      BY <2>3, <2>5, <2>8 DEF IInv, TypeInv, Rows
    <3> QED
      BY <3>1, <2>2, <2>5, <2>6, <2>7 DEF OwnRow, Own
  <2>12. UnderCar(p)' /\ Swept(p)'
    BY <2>6, <2>7, <2>8 DEF UnderCar, Swept
  <2>13. \A q \in Programs \ {p} :
            ~(proc[q].session /\ proc[q].guest = proc[p].guest)
    BY <1>0 DEF Granted, Blockers
  <2> QED
    BY <2>1, <2>6, <2>8, <2>9, <2>10, <2>11, <2>12, <2>13, <1>0, WorkKeeps DEF Sound
<1> QED
  BY <1>1, <1>2

\* The next car's lock; the least car that is left keeps the order ascending.
LEMMA LockCarKeeps ==
    ASSUME IInv, NEW p \in Programs, LockCar(p)
    PROVE  IInv'
<1> DEFINE c    == NextCar(p)
           more == proc[p].cars \ {c}
           own  == {i \in Ids : Expirable(p, i) /\ res[i].guest = proc[p].guest}
           w    == [proc[p] EXCEPT !.carLocks = @ \cup {c}, !.cars = more,
                        !.pc   = IF more = {} THEN "own" ELSE "cars",
                        !.todo = IF more = {} THEN own ELSE {}]
<1>0. /\ proc[p].pc = "cars" /\ Granted(p) /\ res' = res /\ p \in Requests /\ Goes(p, w)
  BY DEF LockCar, IInv, Sound, Kind, Programs
<1>1. /\ c \in proc[p].cars /\ c \in Cars
      /\ \A d \in more : c < d
  <2>1. proc[p].cars # {} /\ proc[p].cars \subseteq Cars /\ proc[p].cars \in SUBSET Nat
    BY <1>0, OfRequest, HoldCarsAssumption DEF Sound, CarOrder, Work
  <2>2. c \in proc[p].cars /\ \A d \in proc[p].cars : c <= d
    BY <2>1, MinIsLeast DEF NextCar
  <2> QED
    BY <2>1, <2>2
<1> HIDE DEF c
<1> DEFINE pc   == IF more = {} THEN "own" ELSE "cars"
           todo == IF more = {} THEN own ELSE {}
<1>p. pc \in {"own", "cars"} /\ (pc = "own" <=> more = {}) /\ todo \in SUBSET Ids
  OBVIOUS
<1>2. /\ w \in Work /\ w.pc = pc
      /\ w.op = proc[p].op /\ w.guest = proc[p].guest
      /\ w.car = proc[p].car /\ w.id = proc[p].id /\ w.cars = more
      /\ w.stale = proc[p].stale /\ w.todo = todo /\ w.done = proc[p].done
      /\ w.session = proc[p].session /\ w.carLocks = proc[p].carLocks \cup {c}
      /\ w.rowLocks = proc[p].rowLocks /\ w.taken = proc[p].taken
  <2>1. more \in SUBSET Cars /\ proc[p] \in Work
    BY <1>0, OfRequest DEF Work
  <2> HIDE DEF more, own, pc, todo
  <2> QED
    BY <1>1, <1>p, <2>1 DEF Work, pc, todo
<1>3. own = {i \in Ids : Own(p, i) /\ Stale(i, proc[p].stale)}
  BY <1>0, OfRequest DEF Own, Stale
<1> HIDE DEF own, w
<1>4. proc'[p] = w
  BY <1>0, <1>2, Going DEF IInv, TypeInv
<1>5. Sound(p) /\ p # Cleanup /\ proc[p].session
  BY <1>0, OfRequest DEF Sound, Kind, Inside
<1>6. Kind(p)'
  BY <1>0, <1>2, <1>4, <1>5 DEF Sound, Kind, Inside
<1>7. CarOrder(p)'
  <2>1. more \subseteq proc[p].cars /\ proc[p].carLocks \cup proc[p].cars = w.carLocks \cup w.cars
    BY <1>1, <1>2
  <2>2. \A x \in w.carLocks, d \in w.cars : x < d
    BY <1>1, <1>2, <1>5, <2>1 DEF Sound, CarOrder
  <2>3. /\ w.pc = "cars" => w.cars # {}
        /\ w.pc \in AfterCars => w.cars = {}
    BY <1>2 DEF AfterCars, Inside
  <2>4. /\ w.car \in w.carLocks \cup w.cars
        /\ \A i \in Ids : Own(p, i) => res[i].car \in w.carLocks \cup w.cars
        /\ w.id # 0 => res[w.id].car \in w.carLocks \cup w.cars
    BY <1>0, <1>2, <1>5, <2>1 DEF Sound, CarOrder, Inside
  <2> QED
    BY <1>0, <1>2, <1>4, <2>2, <2>3, <2>4 DEF CarOrder, Own, Active, ActiveIn
<1>8. OwnRow(p)'
  BY <1>0, <1>2, <1>4, <1>5 DEF Sound, OwnRow
<1>9. UnderCar(p)'
  <2>1. ASSUME NEW i \in w.todo
        PROVE  res[i].car \in w.carLocks /\ res[i].status # "none"
    <3>1. more = {} /\ i \in Ids /\ Own(p, i)
      BY <2>1, <1>2, <1>3
    <3>2. proc[p].carLocks \cup proc[p].cars = w.carLocks
      BY <3>1, <1>1, <1>2
    <3> QED
      BY <3>1, <3>2, <1>0, <1>5 DEF Sound, CarOrder, Own, Active, ActiveIn, Inside, ActiveHoldStatuses
  <2> QED
    BY <1>0, <1>2, <1>4, <1>5, <2>1 DEF Sound, UnderCar, Active, ActiveIn
<1>10. Swept(p)'
  BY <1>0, <1>2, <1>3, <1>4, <1>5 DEF Sound, Swept, Own, Stale, Active, ActiveIn
<1>11. \A q \in Programs \ {p} : c \notin proc[q].carLocks
  BY <1>0 DEF Granted, Blockers, c
<1> QED
  BY <1>0, <1>2, <1>6, <1>7, <1>8, <1>9, <1>10, <1>11, WorkKeeps DEF Sound, IInv, OneOwner

\* The next row's lock; what still qualifies is expired.
LEMMA LockRowKeeps ==
    ASSUME IInv, NEW p \in Programs, LockRow(p)
    PROVE  IInv'
<1> DEFINE i == NextRow(p)
           w == [proc[p] EXCEPT !.rowLocks = @ \cup {i}, !.todo = @ \ {i},
                    !.done = IF Expirable(p, i) THEN @ \cup {i} ELSE @]
<1>0. /\ proc[p].pc \in Locking /\ proc[p].todo # {} /\ Granted(p) /\ res' = res
      /\ Goes(p, w)
  BY DEF LockRow
<1>1. proc[p] \in Work /\ Sound(p) /\ Ids \subseteq Nat \ {0}
  BY HoldBoundAssumption DEF IInv, TypeInv, Ids
<1>2. i \in proc[p].todo /\ i \in Ids
  <2>1. proc[p].todo \in SUBSET Nat /\ proc[p].todo \subseteq Ids
    BY <1>1 DEF Work
  <2> QED
    BY <2>1, <1>0, MinIsLeast DEF NextRow
<1> HIDE DEF i
<1>3. /\ w \in Work /\ w.pc = proc[p].pc /\ w.op = proc[p].op /\ w.guest = proc[p].guest
      /\ w.car = proc[p].car /\ w.id = proc[p].id /\ w.cars = proc[p].cars
      /\ w.stale = proc[p].stale /\ w.todo = proc[p].todo \ {i}
      /\ w.done = (IF Expirable(p, i) THEN proc[p].done \cup {i} ELSE proc[p].done)
      /\ w.session = proc[p].session /\ w.carLocks = proc[p].carLocks
      /\ w.rowLocks = proc[p].rowLocks \cup {i} /\ w.taken = proc[p].taken
  BY <1>1, <1>2 DEF Work
<1> HIDE DEF w
<1>4. proc'[p] = w
  BY <1>0, <1>3, Going DEF IInv, TypeInv
<1>5. Expirable(p, i) => Active(i) /\ i # proc[p].id
  <2>1. CASE p = Cleanup
    BY <2>1, <1>1, <1>2
    DEF Sound, Kind, Expirable, Abandoned, Active, ActiveIn, ActiveHoldStatuses
  <2>2. CASE p \in Requests
    BY <2>2, <1>1, <1>2, OfRequest DEF Sound, OwnRow, Stale
  <2> QED
    BY <2>1, <2>2 DEF Programs
<1>6. Kind(p)'
  BY <1>0, <1>1, <1>3, <1>4 DEF Sound, Kind, Inside, Locking
<1>7. CarOrder(p)'
  BY <1>0, <1>1, <1>3, <1>4 DEF Sound, CarOrder, Own, Active, ActiveIn
<1>8. OwnRow(p)'
  BY <1>0, <1>1, <1>3, <1>4 DEF Sound, OwnRow
<1>9. UnderCar(p)'
  BY <1>0, <1>1, <1>2, <1>3, <1>4, <1>5 DEF Sound, UnderCar, Active, ActiveIn
<1>10. Swept(p)'
  <2>1. ASSUME p \in Requests, NEW j \in Ids, Stale(j, proc[p].stale),
               j \in proc[p].todo \cup proc[p].done
        PROVE  j \in w.todo \cup w.done
    BY <2>1, <1>3, OfRequest
  <2>2. proc[p].pc = "own" \/ proc[p].pc = "new" => p \in Requests
    BY <1>1 DEF Sound, Kind, Programs
  <2>3. w.done \subseteq Ids /\ proc[p].done \subseteq w.done
    BY <1>1, <1>2, <1>3 DEF Work
  <2>4. \A j \in Ids : (Own(p, j) <=> Own(p, j)') /\ (Stale(j, proc[p].stale) <=> Stale(j, proc[p].stale)')
    BY <1>0, <1>3, <1>4 DEF Own, Stale, Active, ActiveIn
  <2>5. \A j \in proc[p].stale : res[j].ttl # "running"
    BY <1>1 DEF Sound, Swept
  <2>6. p \in Requests /\ w.pc = "own" =>
          \A j \in Ids : Own(p, j) /\ Stale(j, w.stale) => j \in w.todo \cup w.done
    BY <1>1, <1>3, <2>1 DEF Sound, Swept
  <2>7. w.pc \in {"new", "insert"} /\ w.op = "create" =>
          \A j \in Ids \ w.done : Own(p, j) => res[j].ttl = "over" /\ j \notin w.stale
    BY <1>1, <1>3, <2>3 DEF Sound, Swept
  <2>8. w.pc = "new" =>
          \A j \in Ids \ w.done : Stale(j, w.stale) /\ res[j].car = w.car => j \in w.todo
    BY <1>1, <1>3, <2>1, <2>2, <2>3 DEF Sound, Swept
  <2>9. w.pc # "insert"
    BY <1>0, <1>3 DEF Locking
  <2> QED
    BY <1>0, <1>3, <1>4, <2>4, <2>5, <2>6, <2>7, <2>8, <2>9 DEF Swept
<1>11. \A q \in Programs \ {p} : i \notin proc[q].rowLocks
  BY <1>0 DEF Granted, Blockers, i
<1> QED
  BY <1>0, <1>3, <1>6, <1>7, <1>8, <1>9, <1>10, <1>11, WorkKeeps DEF Sound, IInv, OneOwner

\* A statement of p is done and the next one begins: p keeps its locks, cars
\* and row, and what is left to show is what it knows of the rows.
LEMMA NextStatement ==
    ASSUME IInv, NEW p \in Requests, NEW pc \in {"row", "new", "insert"},
           NEW todo \in SUBSET Ids, proc[p].pc \in AfterCars,
           pc = "row" => proc[p].op = "rehold",
           proc[p].op = "rehold" => proc[p].id # 0,
           pc \in {"new", "insert"} /\ proc[p].op = "rehold" => proc[p].pc \in {"old", "new"},
           \A i \in todo : Active(i) /\ res[i].car \in proc[p].carLocks,
           Goes(p, [proc[p] EXCEPT !.pc = pc, !.todo = todo]), UNCHANGED res,
           pc \in {"new", "insert"} /\ proc[p].op = "create" =>
               \A i \in Ids \ proc[p].done : Own(p, i) =>
                   res[i].ttl = "over" /\ i \notin proc[p].stale,
           pc = "new" =>
               \A i \in Ids \ proc[p].done :
                   Stale(i, proc[p].stale) /\ res[i].car = proc[p].car => i \in todo,
           pc = "insert" =>
               \A i \in Ids \ (proc[p].done \cup {proc[p].id}) :
                   Active(i) => res[i].car # proc[p].car
    PROVE  IInv'
<1> DEFINE w == [proc[p] EXCEPT !.pc = pc, !.todo = todo]
<1>1. p \in Programs /\ p # Cleanup /\ Sound(p) /\ proc[p] \in Work
  BY OfRequest
<1>2. /\ w \in Work /\ w.pc = pc /\ w.op = proc[p].op /\ w.guest = proc[p].guest
      /\ w.car = proc[p].car /\ w.id = proc[p].id /\ w.cars = proc[p].cars
      /\ w.stale = proc[p].stale /\ w.todo = todo /\ w.done = proc[p].done
      /\ w.session = proc[p].session /\ w.carLocks = proc[p].carLocks
      /\ w.rowLocks = proc[p].rowLocks /\ w.taken = proc[p].taken
  BY <1>1 DEF Work
<1>3. Goes(p, w)
  OBVIOUS
<1> HIDE DEF w
<1>4. proc'[p] = w
  BY <1>1, <1>2, <1>3, Going DEF IInv, TypeInv
<1>5. Kind(p)'
  BY <1>1, <1>2, <1>4 DEF Sound, Kind, Inside, AfterCars
<1>6. CarOrder(p)'
  BY <1>1, <1>2, <1>4 DEF Sound, CarOrder, Own, Active, ActiveIn, Inside, AfterCars
<1>7. OwnRow(p)'
  <2>1. proc[p].op \in {"create", "rehold"}
    BY <1>1 DEF Sound, Kind, Work
  <2>2. ASSUME proc[p].id # 0, pc \in {"old", "new", "insert"}
        PROVE  proc[p].pc \in {"old", "new"}
    BY <1>1, <2>1, <2>2 DEF Sound, OwnRow
  <2> QED
    BY <1>1, <1>2, <1>4, <2>2 DEF Sound, OwnRow
<1>8. UnderCar(p)'
  BY <1>1, <1>2, <1>4 DEF Sound, UnderCar, Active, ActiveIn, ActiveHoldStatuses
<1>9. Swept(p)'
  BY <1>1, <1>2, <1>4 DEF Sound, Swept, Own, Stale, Active, ActiveIn
<1> QED
  BY <1>1, <1>2, <1>3, <1>5, <1>6, <1>7, <1>8, <1>9, WorkKeeps DEF Sound, IInv, OneOwner

\* What a program holds that has locked its cars.
LEMMA HasCars ==
    ASSUME IInv, NEW p \in Programs, proc[p].pc \in AfterCars
    PROVE  /\ p \in Requests /\ proc[p].session
           /\ proc[p].car \in proc[p].carLocks
           /\ \A i \in Ids : Own(p, i) => res[i].car \in proc[p].carLocks
           /\ proc[p].id # 0 => res[proc[p].id].car \in proc[p].carLocks
  BY DEF IInv, Sound, Kind, CarOrder, Programs, Inside, AfterCars

\* After the session's own rows.
LEMMA OwnDoneKeeps ==
    ASSUME IInv, NEW p \in Programs, OwnDone(p)
    PROVE  IInv'
<1>1. proc[p].pc = "own" /\ proc[p].todo = {} /\ proc[p].pc \in AfterCars
  BY DEF OwnDone, StatementDone, AfterCars, Inside
<1>2. /\ p \in Requests /\ Sound(p) /\ Ids \subseteq Nat \ {0} /\ proc[p].op \in {"create", "rehold"}
      /\ proc[p].done \subseteq Ids
  BY <1>1, HasCars, OfRequest DEF Sound, Kind, Work
<1>3. CASE \E taken \in BOOLEAN : Commit(p, taken)
  BY <1>3, CommitKeeps
<1>4. CASE /\ proc[p].op = "create" /\ HoldOf(proc[p].guest) = 0
           /\ Goes(p, [proc[p] EXCEPT !.pc = "new", !.todo = StaleOn(p, proc[p].car)])
           /\ UNCHANGED res
  <2>1. HoldsOf(proc[p].guest) = {}
    BY <1>2, <1>4 DEF HoldOf, HoldsOf
  <2>2. \A i \in Ids \ proc[p].done : Own(p, i) => res[i].ttl = "over" /\ i \notin proc[p].stale
    BY <1>1, <1>2, <2>1 DEF HoldsOf, Own, Stale, Sound, Swept
  <2>3. /\ StaleOn(p, proc[p].car) \in SUBSET Ids
        /\ \A i \in StaleOn(p, proc[p].car) : Active(i) /\ res[i].car \in proc[p].carLocks
        /\ \A i \in Ids \ proc[p].done :
              Stale(i, proc[p].stale) /\ res[i].car = proc[p].car => i \in StaleOn(p, proc[p].car)
    BY <1>1, <1>2, HasCars, OfRequest DEF Stale
  <2> QED
    BY <1>1, <1>2, <1>4, <2>2, <2>3, NextStatement
<1>5. CASE /\ proc[p].op = "rehold" /\ proc[p].id # 0
           /\ Goes(p, [proc[p] EXCEPT !.pc = "row"]) /\ UNCHANGED res
  <2>1. [proc[p] EXCEPT !.pc = "row"] = [proc[p] EXCEPT !.pc = "row", !.todo = {}]
    BY <1>1, <1>2, OfRequest DEF Work
  <2>2. Goes(p, [proc[p] EXCEPT !.pc = "row", !.todo = {}])
    BY <1>5, <2>1
  <2> QED
    BY <1>1, <1>2, <1>5, <2>2, NextStatement
<1> QED
  BY <1>2, <1>3, <1>4, <1>5 DEF OwnDone

\* A rehold locks its row.
LEMMA LockOwnRowKeeps ==
    ASSUME IInv, NEW p \in Programs, LockOwnRow(p)
    PROVE  IInv'
<1> DEFINE own == proc[p].id
           w   == [proc[p] EXCEPT !.rowLocks = @ \cup {own}, !.pc = "old",
                                  !.todo = StaleOn(p, res[own].car)]
<1>0. proc[p].pc = "row" /\ proc[p].pc \in AfterCars /\ Granted(p)
  BY DEF LockOwnRow, AfterCars, Inside
<1>1. p \in Requests /\ p # Cleanup /\ Sound(p) /\ proc[p] \in Work
  BY <1>0, HasCars, OfRequest
<1>2. CASE Commit(p, FALSE)
  BY <1>2, CommitKeeps
<1>3. CASE res[own].status = "pending_payment" /\ Goes(p, w) /\ UNCHANGED res
  <2>1. own \in Ids /\ proc[p].op = "rehold" /\ res[own].car \in proc[p].carLocks
    BY <1>0, <1>1, HasCars DEF Sound, Kind, Work
  <2>2. /\ StaleOn(p, res[own].car) \in SUBSET Ids
        /\ \A i \in StaleOn(p, res[own].car) : Active(i) /\ res[i].car = res[own].car
    BY <1>1, OfRequest DEF Stale
  <2>3. /\ w \in Work /\ w.pc = "old" /\ w.op = proc[p].op /\ w.guest = proc[p].guest
        /\ w.car = proc[p].car /\ w.id = proc[p].id /\ w.cars = proc[p].cars
        /\ w.stale = proc[p].stale /\ w.todo = StaleOn(p, res[own].car)
        /\ w.done = proc[p].done
        /\ w.session = proc[p].session /\ w.carLocks = proc[p].carLocks
        /\ w.rowLocks = proc[p].rowLocks \cup {own} /\ w.taken = proc[p].taken
    BY <1>1, <2>1, <2>2 DEF Work
  <2>4. Goes(p, w) /\ res' = res
    BY <1>3
  <2> HIDE DEF w
  <2>5. proc'[p] = w
    BY <2>3, <2>4, Going DEF IInv, TypeInv
  <2>6. Kind(p)'
    BY <1>0, <1>1, <2>1, <2>3, <2>5 DEF Sound, Kind, Inside
  <2>7. CarOrder(p)'
    BY <1>0, <1>1, <2>3, <2>4, <2>5
    DEF Sound, CarOrder, Own, Active, ActiveIn, Inside, AfterCars
  <2>8. OwnRow(p)'
    BY <1>1, <1>3, <2>1, <2>3, <2>4, <2>5 DEF Sound, OwnRow
  <2>9. UnderCar(p)'
    BY <1>1, <1>3, <2>1, <2>2, <2>3, <2>4, <2>5
    DEF Sound, UnderCar, Active, ActiveIn, ActiveHoldStatuses
  <2>10. Swept(p)'
    BY <1>1, <2>3, <2>4, <2>5 DEF Sound, Swept
  <2>11. \A q \in Programs \ {p} : own \notin proc[q].rowLocks
    BY <1>0 DEF Granted, Blockers
  <2> QED
    BY <2>3, <2>4, <2>6, <2>7, <2>8, <2>9, <2>10, <2>11, WorkKeeps DEF Sound, IInv, OneOwner
<1> QED
  BY <1>2, <1>3 DEF LockOwnRow

\* After the rows of the car it had.
LEMMA OldDoneKeeps ==
    ASSUME IInv, NEW p \in Programs, OldDone(p)
    PROVE  IInv'
<1>1. /\ proc[p].pc = "old" /\ proc[p].todo = {} /\ proc[p].pc \in AfterCars /\ UNCHANGED res
      /\ Goes(p, [proc[p] EXCEPT !.pc = "new", !.todo = StaleOn(p, proc[p].car)])
  BY DEF OldDone, StatementDone, AfterCars, Inside
<1>2. p \in Requests /\ Sound(p) /\ proc[p].op = "rehold" /\ proc[p].id # 0
  BY <1>1, HasCars, OfRequest DEF Sound, Kind
<1>3. /\ StaleOn(p, proc[p].car) \in SUBSET Ids
      /\ \A i \in StaleOn(p, proc[p].car) : Active(i) /\ res[i].car \in proc[p].carLocks
      /\ \A i \in Ids \ proc[p].done :
            Stale(i, proc[p].stale) /\ res[i].car = proc[p].car => i \in StaleOn(p, proc[p].car)
  BY <1>1, <1>2, HasCars, OfRequest DEF Stale
<1> QED
  BY <1>1, <1>2, <1>3, NextStatement

\* The search for overlapping holds.
LEMMA CheckKeeps ==
    ASSUME IInv, NEW p \in Programs, Check(p)
    PROVE  IInv'
<1>1. proc[p].pc = "new" /\ proc[p].todo = {} /\ proc[p].pc \in AfterCars
  BY DEF Check, StatementDone, AfterCars, Inside
<1>2. /\ p \in Requests /\ Sound(p) /\ proc[p].op \in {"create", "rehold"}
      /\ proc[p].op = "rehold" => proc[p].id # 0
  BY <1>1, HasCars, OfRequest DEF Sound, Kind, Work
<1>3. CASE Commit(p, TRUE)
  BY <1>3, CommitKeeps
<1>4. CASE ~Taken(p) /\ Goes(p, [proc[p] EXCEPT !.pc = "insert"]) /\ UNCHANGED res
  <2>1. [proc[p] EXCEPT !.pc = "insert"] = [proc[p] EXCEPT !.pc = "insert", !.todo = {}]
    BY <1>1, <1>2, OfRequest DEF Work
  <2>2. Goes(p, [proc[p] EXCEPT !.pc = "insert", !.todo = {}])
    BY <1>4, <2>1
  <2>3. \A i \in Ids \ (proc[p].done \cup {proc[p].id}) :
            Active(i) => res[i].car # proc[p].car
    BY <1>1, <1>2, <1>4 DEF Taken, Sound, Swept
  <2>4. proc[p].op = "create" =>
            \A i \in Ids \ proc[p].done : Own(p, i) =>
                res[i].ttl = "over" /\ i \notin proc[p].stale
    BY <1>1, <1>2 DEF Sound, Swept
  <2> QED
    BY <1>1, <1>2, <1>4, <2>2, <2>3, <2>4, NextStatement
<1> QED
  BY <1>3, <1>4 DEF Check

-----------------------------------------------------------------------------
(* The invariant *)

\* Every step keeps the invariant.
LEMMA NextKeeps == IInv /\ [Next]_vars => IInv'
<1> SUFFICES ASSUME IInv, [Next]_vars
             PROVE  IInv'
  OBVIOUS
<1>1. CASE UNCHANGED vars
  <2>1. TypeInv' /\ Apart(res)' /\ OneOwner'
    BY <1>1 DEF vars, IInv, TypeInv, Apart, ActiveIn, OneOwner
  <2>2. ASSUME NEW q \in Programs
        PROVE  Sound(q)'
    <3>1. proc'[q] = proc[q] /\ \A i \in Ids : RowStep(q, i)
      BY <1>1 DEF vars, RowStep
    <3> QED
      BY <2>1, <3>1, OthersKeep DEF IInv
  <2> QED
    BY <2>1, <2>2 DEF IInv
<1>2. ASSUME NEW p \in Requests, NEW g \in Guests, NEW c \in Cars, Ask(p, g, c)
      PROVE  IInv'
  BY <1>2, AskKeeps
<1>3. ASSUME NEW p \in Programs, Step(p)
      PROVE  IInv'
  <2>1. CASE LockSession(p)
    BY <2>1, LockSessionKeeps
  <2>2. CASE LockCar(p)
    BY <2>2, LockCarKeeps
  <2>3. CASE LockRow(p)
    BY <2>3, LockRowKeeps
  <2>4. CASE LockOwnRow(p)
    BY <2>4, LockOwnRowKeeps
  <2>5. CASE OwnDone(p)
    BY <2>5, OwnDoneKeeps
  <2>6. CASE OldDone(p)
    BY <2>6, OldDoneKeeps
  <2>7. CASE Check(p)
    BY <2>7, CheckKeeps
  <2>8. CASE Conflict(p)
    <3>1. PICK taken \in BOOLEAN : Commit(p, taken)
      BY <2>8 DEF Conflict
    <3> QED
      BY <3>1, CommitKeeps
  <2>9. CASE Insert(p)
    BY <2>9, InsertKeeps
  <2>10. CASE Move(p)
    BY <2>10, MoveKeeps
  <2>11. CASE p = Cleanup /\ SweepDone
    BY <2>11, CommitKeeps DEF SweepDone
  <2>12. CASE Victim(p)
    BY <2>12, VictimKeeps
  <2> QED
    BY <1>3, <2>1, <2>2, <2>3, <2>4, <2>5, <2>6, <2>7, <2>8, <2>9, <2>10, <2>11, <2>12
    DEF Step
<1>4. CASE SweepStart
  BY <1>4, SweepStartKeeps
<1>5. ASSUME NEW i \in Ids, Lapse(i) \/ Pay(i)
      PROVE  IInv'
  BY <1>5, LapseKeeps, PayKeeps
<1> QED
  BY <1>1, <1>2, <1>3, <1>4, <1>5 DEF Next

\* The invariant holds at the start: nobody has begun.
LEMMA InitHolds == Init => IInv
<1> SUFFICES ASSUME Init
             PROVE  IInv
  OBVIOUS
<1>1. TypeInv /\ Apart(res)
  BY IdleTypes, HoldTablesAssumption DEF Init, TypeInv
<1>2. \A p \in Programs : proc[p] = Idle
  BY DEF Init
<1>3. OneOwner
  BY <1>2 DEF OneOwner, Idle
<1>4. \A p \in Programs : Sound(p)
  BY <1>2 DEF Sound, Kind, CarOrder, OwnRow, UnderCar, Swept, Idle, Inside, AfterCars
<1> QED
  BY <1>1, <1>3, <1>4 DEF IInv

\* The invariant holds always.
LEMMA Invariance == Spec => []IInv
  BY InitHolds, NextKeeps, PTL DEF Spec

-----------------------------------------------------------------------------
(* What follows from it *)

\* A request that waits for a row or at its insert waits for the cleanup job:
\* the row's car is locked by the request, and any other request would need it.
LEMMA RowsWaitForCleanup ==
    ASSUME IInv, NEW p \in Requests, NEW q \in Requests, q \in Blockers(p)
    PROVE  proc[p].pc \in {"session", "cars"}
<1> SUFFICES ASSUME proc[p].pc \notin {"session", "cars"}
             PROVE  FALSE
  OBVIOUS
<1>1. /\ p \in Programs /\ q \in Programs /\ p # q /\ Sound(p) /\ Sound(q)
      /\ proc[p] \in Work /\ proc[q] \in Work /\ Ids \subseteq Nat \ {0}
  BY OfRequest DEF Blockers
<1>2. ASSUME NEW i \in Ids, i \in proc[q].rowLocks, res[i].car \in proc[p].carLocks
      PROVE  FALSE
  <2>1. res[i].car \in proc[q].carLocks
    BY <1>1, <1>2 DEF Sound, UnderCar
  <2> QED
    BY <1>1, <1>2, <2>1 DEF IInv, OneOwner
<1>3. CASE proc[p].pc = "row" /\ proc[p].id \in proc[q].rowLocks
  <2>1. proc[p].pc \in AfterCars /\ proc[p].id \in Ids
    BY <1>1, <1>3 DEF AfterCars, Inside, Work
  <2> QED
    BY <1>1, <1>2, <1>3, <2>1, HasCars
<1>4. CASE proc[p].todo # {} /\ NextRow(p) \in proc[q].rowLocks
  <2>1. NextRow(p) \in proc[p].todo /\ NextRow(p) \in Ids
    <3>1. proc[p].todo \in SUBSET Nat /\ proc[p].todo \subseteq Ids
      BY <1>1 DEF Work
    <3> QED
      BY <3>1, <1>4, MinIsLeast DEF NextRow
  <2> QED
    BY <1>1, <1>2, <1>4, <2>1 DEF Sound, UnderCar
<1>5. CASE proc[p].pc = "insert" /\ proc[q].done \cap Rivals(p) # {}
  <2>1. PICK i \in Ids : i \in proc[q].done /\ i \in Rivals(p)
    BY <1>5 DEF Rivals
  <2>2. i \in proc[q].rowLocks
    BY <1>1, <2>1 DEF Sound, UnderCar
  <2>3. proc[p].pc \in AfterCars
    BY <1>5 DEF AfterCars, Inside
  <2>4. res[i].car \in proc[p].carLocks
    BY <1>1, <2>1, <2>3, HasCars DEF Rivals, Own
  <2> QED
    BY <1>2, <2>2, <2>4
<1> QED
  BY <1>3, <1>4, <1>5 DEF Blockers

\* Who waits for its session's lock keeps nobody waiting.
LEMMA SessionBlocksNobody ==
    ASSUME IInv, NEW p \in Requests, NEW q \in Requests, q \in Blockers(p),
           proc[q].pc = "session"
    PROVE  FALSE
<1>1. proc[p].pc \in {"session", "cars"}
  BY RowsWaitForCleanup
<1>2. Sound(q) /\ q \in Programs
  BY OfRequest
<1>3. ~proc[q].session /\ proc[q].carLocks = {}
  BY <1>2 DEF Sound, Kind, Inside
<1> QED
  BY <1>1, <1>3 DEF Blockers, Locking

\* Who waits for a car that another request has locked waits for a smaller one
\* than that request does.
LEMMA CarsAscend ==
    ASSUME IInv, NEW p \in Requests, NEW q \in Requests, q \in Blockers(p),
           proc[p].pc = "cars", proc[q].pc = "cars"
    PROVE  NextCar(p) \in Cars /\ NextCar(q) \in Cars /\ NextCar(p) < NextCar(q)
<1>1. ASSUME NEW r \in Requests, proc[r].pc = "cars"
      PROVE  NextCar(r) \in proc[r].cars /\ NextCar(r) \in Cars
  <2>1. proc[r].cars # {} /\ proc[r].cars \subseteq Cars /\ proc[r].cars \in SUBSET Nat
    BY <1>1, OfRequest, HoldCarsAssumption DEF Sound, CarOrder, Work
  <2> QED
    BY <2>1, MinIsLeast DEF NextCar
<1>2. NextCar(p) \in proc[q].carLocks
  BY DEF Blockers, Locking
<1>3. NextCar(p) < NextCar(q)
  BY <1>1, <1>2, OfRequest DEF Sound, CarOrder
<1> QED
  BY <1>1, <1>3

\* A circle of requests would ascend for ever.
LEMMA NoCircleOfRequests == IInv => CirclesNeedSweep
<1> SUFFICES ASSUME IInv, NEW S \in SUBSET Programs, Circle(S), Cleanup \notin S
             PROVE  FALSE
  BY DEF CirclesNeedSweep
<1>1. S \subseteq Requests /\ S # {} /\ \A p \in S : \E q \in S : q \in Blockers(p)
  BY DEF Circle, Programs
<1> DEFINE W == {p \in S : proc[p].pc = "cars"}
<1>2. ASSUME NEW p \in S
      PROVE  \E q \in W : q \in Blockers(p)
  <2>1. PICK q \in S : q \in Blockers(p)
    BY <1>1
  <2>2. PICK r \in S : r \in Blockers(q)
    BY <1>1
  <2>3. proc[q].pc \in {"session", "cars"} /\ proc[q].pc # "session"
    BY <1>1, <2>1, <2>2, RowsWaitForCleanup, SessionBlocksNobody
  <2> QED
    BY <2>1, <2>3
<1>3. PICK top \in Cars : \A c \in Cars : c <= top
  BY HoldCarsAssumption
<1>4. \A p \in W : NextCar(p) \in Cars /\ NextCar(p) \in Nat
  BY <1>1, <1>2, CarsAscend, HoldCarsAssumption
<1> DEFINE gaps == {top - NextCar(p) : p \in W}
<1>5. gaps \in SUBSET Nat /\ gaps # {}
  <2>1. W # {}
    BY <1>1, <1>2
  <2>2. \A p \in W : top - NextCar(p) \in Nat
    BY <1>3, <1>4, HoldCarsAssumption
  <2> QED
    BY <2>1, <2>2
<1>6. PICK p \in W : \A r \in W : top - NextCar(p) <= top - NextCar(r)
  <2>1. Min(gaps) \in gaps /\ \A n \in gaps : Min(gaps) <= n
    BY <1>5, MinIsLeast
  <2> QED
    BY <2>1
<1>7. PICK q \in W : q \in Blockers(p)
  BY <1>2
<1>8. NextCar(p) < NextCar(q)
  BY <1>1, <1>7, CarsAscend
<1>9. top - NextCar(p) <= top - NextCar(q)
  BY <1>6
<1> QED
  BY <1>3, <1>4, <1>8, <1>9, HoldCarsAssumption

\* What is checked is still free at the insert.
LEMMA FreeAtInsert == IInv => CheckedIsStillFree
<1> SUFFICES ASSUME IInv, NEW p \in Requests, proc[p].pc = "insert", NEW i \in Rivals(p)
             PROVE  /\ res[i].guest = proc[p].guest
                    /\ res[i].ttl = "over" /\ i \notin proc[p].stale
  BY DEF CheckedIsStillFree
<1>1. p \in Programs /\ Sound(p)
  BY OfRequest
<1>2. /\ i \in Ids \ (proc[p].done \cup {proc[p].id}) /\ Active(i)
      /\ \/ res[i].car = proc[p].car
         \/ proc[p].op = "create" /\ res[i].guest = proc[p].guest
  BY DEF Rivals
<1>3. proc[p].op = "create" /\ Own(p, i)
  BY <1>1, <1>2, AtInsert DEF Own
<1> QED
  BY <1>1, <1>2, <1>3 DEF Sound, Swept, Own

\* Every step is a step of one program, or of none.
LEMMA StepsOfOne ==
    ASSUME TypeInv, NEW p \in Programs, NEW q \in Programs \ {p}, Step(q)
    PROVE  proc'[p] = proc[p]
<1>1. PICK w : Goes(q, w)
  BY DEF Step, LockSession, LockCar, LockRow, LockOwnRow, OwnDone, OldDone, Check,
         Conflict, Insert, Move, SweepDone, Victim, Commit, End
<1> QED
  BY <1>1, OneGoes DEF TypeInv

\* Nobody is told that the car is taken but by the check or the conflict.
LEMMA WhoRefuses ==
    ASSUME TypeInv, Next, NEW p \in Requests, p \in Programs, p # Cleanup,
           ~proc[p].taken, proc'[p].taken
    PROVE  (Check(p) /\ Taken(p)) \/ Conflict(p)
<1> USE DEF TypeInv
<1>1. ASSUME NEW w, Goes(p, w), w.taken = proc[p].taken
      PROVE  FALSE
  BY <1>1, OneGoes
<1>2. ~End(p, FALSE) /\ \A taken \in BOOLEAN : Commit(p, taken) => taken
  <2>1. ASSUME NEW taken \in BOOLEAN, End(p, taken)
        PROVE  taken
    <3>1. proc'[p] = Ended(p, taken)
      BY <2>1, OneGoes DEF End
    <3>2. Ended(p, taken).taken = taken
      BY DEF Ended, Idle
    <3> QED
      BY <3>1, <3>2
  <2> QED
    BY <2>1 DEF Commit
<1>3. proc[p] \in Work /\ proc' # proc
  OBVIOUS
<1>4. ASSUME NEW q \in Requests, NEW g \in Guests, NEW c \in Cars, Ask(q, g, c)
      PROVE  FALSE
  <2>1. PICK op \in {"create", "rehold"} :
           Goes(q, [Idle EXCEPT !.pc = "session", !.op = op,
                                !.guest = g, !.car = c, !.stale = StaleNow])
    BY <1>4 DEF Ask
  <2>2. CASE q = p
    <3>1. proc'[p] = [Idle EXCEPT !.pc = "session", !.op = op,
                                  !.guest = g, !.car = c, !.stale = StaleNow]
      BY <2>1, <2>2, OneGoes
    <3>2. proc'[p].taken = FALSE
      BY <3>1 DEF Idle
    <3> QED
      BY <3>2
  <2>3. CASE q # p
    BY <2>1, <2>3, OneGoes DEF Programs
  <2> QED
    BY <2>2, <2>3
<1>5. ~SweepStart
  <2>1. ASSUME NEW w, Goes(Cleanup, w)
        PROVE  FALSE
    BY <2>1, OneGoes DEF Programs
  <2> QED
    BY <2>1 DEF SweepStart
<1>6. \A i \in Ids : ~Lapse(i) /\ ~Pay(i)
  BY <1>3 DEF Lapse, Pay
<1>7. PICK q \in Programs : Step(q)
  BY <1>4, <1>5, <1>6 DEF Next
<1>8. q = p
  BY <1>7, StepsOfOne
<1>9. ~LockSession(p) /\ ~LockCar(p) /\ ~LockRow(p) /\ ~LockOwnRow(p)
  <2>1. ~LockSession(p)
    BY <1>1, <1>2, <1>3 DEF LockSession, Work
  <2>2. ~LockCar(p)
    BY <1>1, <1>3 DEF LockCar, Work
  <2>3. ~LockRow(p)
    BY <1>1, <1>3 DEF LockRow, Work
  <2>4. ~LockOwnRow(p)
    BY <1>1, <1>2, <1>3 DEF LockOwnRow, Work
  <2> QED
    BY <2>1, <2>2, <2>3, <2>4
<1>10. ~OwnDone(p) /\ ~OldDone(p) /\ ~Insert(p) /\ ~Move(p) /\ ~Victim(p)
  <2>1. ~OwnDone(p)
    BY <1>1, <1>2, <1>3 DEF OwnDone, Work
  <2>2. ~OldDone(p)
    BY <1>1, <1>3 DEF OldDone, Work
  <2> QED
    BY <2>1, <2>2, <1>2 DEF Insert, Move, Victim
<1>11. Check(p) => Taken(p)
  BY <1>1, <1>3 DEF Check, Work
<1> QED
  BY <1>7, <1>8, <1>9, <1>10, <1>11 DEF Step

\* A refusal has a reason.
LEMMA ReasonToRefuse ==
    ASSUME IInv, Next, NEW p \in Requests, proc[p].pc # "done", proc'[p].taken
    PROVE  \E i \in Ids :
              /\ Active(i)
              /\ IF res[i].guest = proc[p].guest
                 THEN res[i].ttl # "running" /\ i \notin proc[p].stale
                 ELSE res[i].car = proc[p].car /\ ~Stale(i, proc[p].stale)
<1>1. /\ p \in Programs /\ p # Cleanup /\ Sound(p) /\ proc[p] \in Work
      /\ ~proc[p].taken /\ Ids \subseteq Nat \ {0}
  BY OfRequest DEF Sound, Kind
<1>2. CASE Check(p) /\ Taken(p)
  <2>1. proc[p].pc = "new"
    BY <1>2 DEF Check, StatementDone
  <2>2. PICK i \in Ids \ (proc[p].done \cup {proc[p].id}) :
           Active(i) /\ res[i].car = proc[p].car /\ ~Stale(i, proc[p].stale)
    BY <1>2 DEF Taken
  <2>3. CASE res[i].guest = proc[p].guest
    <3>1. proc[p].op # "rehold"
      <4>1. SUFFICES ASSUME proc[p].op = "rehold"
                     PROVE  FALSE
        OBVIOUS
      <4>2. proc[p].id \in Ids /\ Active(proc[p].id) /\ res[proc[p].id].guest = proc[p].guest
        BY <1>1, <2>1, <4>1
        DEF Sound, Kind, OwnRow, Work, Active, ActiveIn, ActiveHoldStatuses
      <4> QED
        BY <2>2, <2>3, <4>2 DEF IInv, Apart, Active
    <3>2. proc[p].op = "create"
      BY <1>1, <3>1 DEF Sound, Kind, Work
    <3>3. res[i].ttl = "over" /\ i \notin proc[p].stale
      BY <1>1, <2>1, <2>2, <2>3, <3>2 DEF Sound, Swept, Own
    <3> QED
      BY <2>2, <2>3, <3>3
  <2>4. CASE res[i].guest # proc[p].guest
    BY <2>2, <2>4
  <2> QED
    BY <2>3, <2>4
<1>3. CASE Conflict(p)
  <2>1. proc[p].pc = "insert" /\ Rivals(p) # {}
    BY <1>3 DEF Conflict
  <2>2. PICK i \in Ids : i \in Rivals(p) /\ Active(i)
    BY <2>1 DEF Rivals
  <2>3. res[i].guest = proc[p].guest /\ res[i].ttl = "over" /\ i \notin proc[p].stale
    BY <2>1, <2>2, FreeAtInsert DEF CheckedIsStillFree
  <2> QED
    BY <2>2, <2>3
<1> QED
  BY <1>1, <1>2, <1>3, WhoRefuses DEF IInv

-----------------------------------------------------------------------------
(* Theorems *)

\* Everything keeps its type, and a program that is done holds no lock.
THEOREM LockTypes == Spec => []TypeOK
<1>1. IInv => TypeOK
  BY DEF IInv, TypeInv, TypeOK, Sound, Kind, Inside
<1> QED
  BY <1>1, Invariance, PTL

\* The canonical lock order: whatever the number of guests, cars and requests,
\* a circle of transactions that wait for each other has the cleanup job in it.
THEOREM OnlySweepDeadlocks == Spec => []CirclesNeedSweep
  BY NoCircleOfRequests, Invariance, PTL

\* What a transaction checked under its locks is still free at its insert.
THEOREM CheckedStaysFree == Spec => []CheckedIsStillFree
  BY FreeAtInsert, Invariance, PTL

\* Nobody is refused a car that no hold of another guest was on when they
\* asked, unless their own hold ran out meanwhile.
THEOREM RefusalsHaveReasons == Spec => RefusedForAReason
<1>1. IInv /\ [Next]_vars =>
        [\A p \in Requests :
            proc[p].pc # "done" /\ proc'[p].taken =>
              \E i \in Ids :
                  /\ Active(i)
                  /\ IF res[i].guest = proc[p].guest
                     THEN res[i].ttl # "running" /\ i \notin proc[p].stale
                     ELSE /\ res[i].car = proc[p].car
                          /\ ~Stale(i, proc[p].stale)]_vars
  BY ReasonToRefuse
<1> QED
  BY <1>1, Invariance, PTL DEF Spec, RefusedForAReason
=============================================================================
