----------------------- MODULE BackgroundJobs_proofs -----------------------
(***************************************************************************)
(* Proofs about the background jobs, for any number of programs, reminders *)
(* and confirmations.                                                      *)
(***************************************************************************)
EXTENDS BackgroundJobs, TLAPS

-----------------------------------------------------------------------------
(* What a step does to the programs *)

Pcs == {"idle", "insert", "claim", "send", "sent", "failed", "done"}

\* Program p goes on at pc, with the rows f to insert, b to send and m to mark.
GoesTo(p, pc, f, b, m) ==
    /\ prog' \in [Programs -> Workings]
    /\ prog'[p].pc = pc /\ prog'[p].found = f
    /\ prog'[p].batch = b /\ prog'[p].note = m
    /\ \A q \in Programs : q # p => prog'[q] = prog[q]

\* A program is put at a working of the right type.
LEMMA Placed ==
    ASSUME NEW p \in Programs, NEW pc \in Pcs, NEW f \in SUBSET Reminders,
           NEW b \in SUBSET Notes, NEW m \in SUBSET Notes,
           prog \in [Programs -> Workings],
           prog' = [prog EXCEPT ![p] =
                      [pc |-> pc, found |-> f, batch |-> b, note |-> m]]
    PROVE  GoesTo(p, pc, f, b, m)
<1> DEFINE w == [pc |-> pc, found |-> f, batch |-> b, note |-> m]
<1>1. w \in Workings
  BY DEF Workings, Pcs
<1>2. prog' = [prog EXCEPT ![p] = w]
  OBVIOUS
<1>3. w.pc = pc /\ w.found = f /\ w.batch = b /\ w.note = m
  OBVIOUS
<1> HIDE DEF w
<1> QED
  BY <1>1, <1>2, <1>3 DEF GoesTo

\* A step of program p: where it goes on, for each of its actions.
LEMMA ProgramSteps ==
    ASSUME OutboxTypeOK, NEW p \in Programs
    PROVE  /\ Scan(p) => GoesTo(p, "insert", due, {}, {})
           /\ \A n \in Notes : Insert(p, n) =>
                GoesTo(p, "insert", prog[p].found \ {n}, {}, {})
           /\ ScanDone(p) =>
                GoesTo(p, IF p \in Admins THEN "claim" ELSE "idle", {}, {}, {})
           /\ \A n \in Notes : Announce(p, n) =>
                IF box[n] = "absent" THEN GoesTo(p, "send", {}, {n}, {})
                ELSE GoesTo(p, "done", {}, {}, {})
           /\ Claim(p) =>
                \E B \in Batches :
                    /\ GoesTo(p, "send", {}, B, {})
                    /\ box' = [n \in Notes |-> IF n \in B THEN "processing" ELSE box[n]]
           /\ ClaimNothing(p) => GoesTo(p, "idle", {}, {}, {})
           /\ \A n \in Notes : Send(p, n) =>
                \E answer \in {"sent", "failed"}, left \in BOOLEAN :
                    /\ answer = "sent" => left
                    /\ mails' = IF left THEN [mails EXCEPT ![n] = @ + 1] ELSE mails
                    /\ GoesTo(p, answer, {}, prog[p].batch \ {n}, {n})
           /\ MarkSent(p) \/ MarkFailed(p) \/ MarkFailedFails(p) =>
                GoesTo(p, "send", {}, prog[p].batch, {})
           /\ MarkSentFails(p) =>
                GoesTo(p, "failed", {}, prog[p].batch, prog[p].note)
           /\ Finish(p) \/ Dies(p) =>
                GoesTo(p, IF p \in Requests THEN "done" ELSE "idle", {}, {}, {})
<1>1. prog \in [Programs -> Workings] /\ due \in SUBSET Reminders
  BY DEF OutboxTypeOK
<1>2. /\ prog[p].found \in SUBSET Reminders /\ prog[p].batch \in SUBSET Notes
      /\ prog[p].note \in SUBSET Notes
  BY <1>1 DEF Workings
<1>3. Scan(p) => GoesTo(p, "insert", due, {}, {})
  BY <1>1, Placed DEF Scan, Inserting, Pcs
<1>4. \A n \in Notes : Insert(p, n) =>
        GoesTo(p, "insert", prog[p].found \ {n}, {}, {})
  BY <1>1, <1>2, Placed DEF Insert, Inserting, Pcs
<1>5. ScanDone(p) =>
        GoesTo(p, IF p \in Admins THEN "claim" ELSE "idle", {}, {}, {})
  BY <1>1, Placed DEF ScanDone, At, Pcs
<1>6. \A n \in Notes : Announce(p, n) =>
        IF box[n] = "absent" THEN GoesTo(p, "send", {}, {n}, {})
        ELSE GoesTo(p, "done", {}, {}, {})
  BY <1>1, Placed DEF Announce, At, Sending, Pcs
<1>7. Claim(p) =>
        \E B \in Batches :
            /\ GoesTo(p, "send", {}, B, {})
            /\ box' = [n \in Notes |-> IF n \in B THEN "processing" ELSE box[n]]
  <2>1. Batches \subseteq SUBSET Notes
    BY DEF Batches, Claimable, InState
  <2> QED
    BY <1>1, <2>1, Placed DEF Claim, Sending, Pcs
<1>8. ClaimNothing(p) => GoesTo(p, "idle", {}, {}, {})
  BY <1>1, Placed DEF ClaimNothing, At, Pcs
<1>9. \A n \in Notes : Send(p, n) =>
        \E answer \in {"sent", "failed"}, left \in BOOLEAN :
            /\ answer = "sent" => left
            /\ mails' = IF left THEN [mails EXCEPT ![n] = @ + 1] ELSE mails
            /\ GoesTo(p, answer, {}, prog[p].batch \ {n}, {n})
  <2> SUFFICES ASSUME NEW n \in Notes, Send(p, n)
               PROVE  \E answer \in {"sent", "failed"}, left \in BOOLEAN :
                        /\ answer = "sent" => left
                        /\ mails' = IF left THEN [mails EXCEPT ![n] = @ + 1] ELSE mails
                        /\ GoesTo(p, answer, {}, prog[p].batch \ {n}, {n})
    OBVIOUS
  <2>1. PICK answer \in {"sent", "failed"}, left \in BOOLEAN :
           /\ answer = "sent" => left
           /\ mails' = IF left THEN [mails EXCEPT ![n] = @ + 1] ELSE mails
           /\ prog' = [prog EXCEPT ![p] = Told(answer, {n}, prog[p].batch \ {n})]
    BY DEF Send
  <2>2. GoesTo(p, answer, {}, prog[p].batch \ {n}, {n})
    BY <1>1, <1>2, <2>1, Placed DEF Told, Pcs
  <2> QED
    BY <2>1, <2>2
<1>10. MarkSent(p) \/ MarkFailed(p) \/ MarkFailedFails(p) =>
         GoesTo(p, "send", {}, prog[p].batch, {})
  BY <1>1, <1>2, Placed DEF MarkSent, MarkFailed, MarkFailedFails, AfterLostMark,
     Sending, Pcs
<1>11. MarkSentFails(p) => GoesTo(p, "failed", {}, prog[p].batch, prog[p].note)
  BY <1>1, <1>2, Placed DEF MarkSentFails, Told, Pcs
<1>12. Finish(p) \/ Dies(p) =>
         GoesTo(p, IF p \in Requests THEN "done" ELSE "idle", {}, {}, {})
  BY <1>1, Placed DEF Finish, Dies, End, At, Pcs
<1> QED
  BY <1>3, <1>4, <1>5, <1>6, <1>7, <1>8, <1>9, <1>10, <1>11, <1>12

-----------------------------------------------------------------------------
(* The invariant of the notifications *)

Asked(n) == \E p \in Requests : n \in prog[p].batch
Taken(n) == \E p \in Jobs \cup Admins : n \in prog[p].batch
One(b)   == IF b THEN 1 ELSE 0

\* A program holds rows only while it sends them, and none is unmarked when it
\* goes on to the next.
Tidy ==
    \A p \in Programs :
        /\ prog[p].pc \notin {"send", "sent", "failed"} => Held(p) = {}
        /\ prog[p].pc = "send" => prog[p].note = {}

\* What a program is about to mark as sent has left.
Sure ==
    \A p \in Programs, n \in Notes :
        prog[p].pc = "sent" /\ n \in prog[p].note => mails[n] >= 1

\* No two requests, and no two of the other programs, have a row to send.
Apart ==
    \A p, q \in Programs :
        p # q /\ (p \in Requests <=> q \in Requests) =>
            prog[p].batch \cap prog[q].batch = {}

\* The mails that have left and those still to come: a row that is pending will
\* be claimed once, and only a confirmation is sent by a request as well.
Budget ==
    \A n \in Notes :
        /\ n \in Reminders => ~Asked(n)
        /\ box[n] = "absent" => mails[n] = 0 /\ ~Asked(n) /\ ~Taken(n)
        /\ box[n] = "pending" => ~Taken(n)
        /\ mails[n] + One(Asked(n)) + One(Taken(n)) + One(box[n] = "pending")
             <= IF n \in Reminders THEN 1 ELSE 2

OutboxInv ==
    /\ OutboxTypeOK /\ Tidy /\ Sure /\ Apart /\ Budget
    /\ SentHasLeft /\ ClaimsHaveOwners

\* Every step that gives no program a row to send: it keeps the invariant if no
\* row goes back to pending, a row under way stays with p or is recorded, and
\* sent is said only of what has left.
LEMMA Shrinks ==
    ASSUME OutboxInv, NEW p \in Programs, NEW pc \in Pcs, NEW f \in SUBSET Reminders,
           NEW b \in SUBSET prog[p].batch, NEW m \in SUBSET Notes,
           GoesTo(p, pc, f, b, m),
           UNCHANGED <<due, mails>>, faults' \in Nat,
           orphans' \in SUBSET Notes, orphans \subseteq orphans',
           box' \in [Notes -> RowStates],
           \A n \in Notes :
             /\ box'[n] = "absent" => box[n] = "absent"
             /\ box'[n] = "pending" => box[n] \in {"absent", "pending"}
             /\ box'[n] = "processing" =>
                  /\ box[n] = "processing"
                  /\ n \in Held(p) => n \in b \cup m \cup orphans'
             /\ box'[n] = "sent" => box[n] = "sent" \/ mails[n] >= 1
             /\ pc = "sent" /\ n \in m => mails[n] >= 1,
           pc \notin {"send", "sent", "failed"} => b = {} /\ m = {},
           pc = "send" => m = {}
    PROVE  OutboxInv'
<1>1. OutboxTypeOK'
  BY DEF OutboxInv, OutboxTypeOK, GoesTo
<1>2. Tidy'
  BY DEF OutboxInv, Tidy, Held, GoesTo
<1>3. Sure'
  BY DEF OutboxInv, Sure, GoesTo
<1>4. \A q \in Programs : prog'[q].batch \subseteq prog[q].batch
  BY DEF GoesTo
<1>5. Apart'
  BY <1>4 DEF OutboxInv, Apart
<1>6. Budget'
  <2> SUFFICES ASSUME NEW n \in Notes
               PROVE  /\ n \in Reminders => ~Asked(n)'
                      /\ box'[n] = "absent" => mails'[n] = 0 /\ ~Asked(n)' /\ ~Taken(n)'
                      /\ box'[n] = "pending" => ~Taken(n)'
                      /\ mails'[n] + One(Asked(n)') + One(Taken(n)') + One(box'[n] = "pending")
                           <= IF n \in Reminders THEN 1 ELSE 2
    BY DEF Budget, One
  <2>1. (Asked(n)' => Asked(n)) /\ (Taken(n)' => Taken(n))
    BY <1>4 DEF Asked, Taken, Programs
  <2>2. /\ n \in Reminders => ~Asked(n)
        /\ box[n] = "absent" => mails[n] = 0 /\ ~Asked(n) /\ ~Taken(n)
        /\ box[n] = "pending" => ~Taken(n)
        /\ mails[n] + One(Asked(n)) + One(Taken(n)) + One(box[n] = "pending")
             <= IF n \in Reminders THEN 1 ELSE 2
    BY DEF OutboxInv, Budget
  <2>3. mails[n] \in Nat
    BY DEF OutboxInv, OutboxTypeOK
  <2> QED
    BY <2>1, <2>2, <2>3 DEF One
<1>7. SentHasLeft'
  BY DEF OutboxInv, SentHasLeft, InState, OutboxTypeOK
<1>8. ClaimsHaveOwners'
  BY DEF OutboxInv, ClaimsHaveOwners, InState, Held, GoesTo
<1> QED
  BY <1>1, <1>2, <1>3, <1>5, <1>6, <1>7, <1>8 DEF OutboxInv

\* The steps that give no program a row to send.
LEMMA QuietSteps ==
    ASSUME OutboxInv, NEW p \in Programs
    PROVE  /\ Scan(p) => OutboxInv'
           /\ \A n \in Notes : Insert(p, n) => OutboxInv'
           /\ ScanDone(p) => OutboxInv'
           /\ ClaimNothing(p) => OutboxInv'
           /\ MarkSent(p) => OutboxInv'
           /\ MarkSentFails(p) => OutboxInv'
           /\ MarkFailed(p) => OutboxInv'
           /\ MarkFailedFails(p) => OutboxInv'
           /\ Finish(p) => OutboxInv'
           /\ Dies(p) => OutboxInv'
<1> USE DEF Pcs
<1>1. OutboxTypeOK
  BY DEF OutboxInv
<1>2. /\ due \in SUBSET Reminders /\ box \in [Notes -> RowStates]
      /\ mails \in [Notes -> Nat] /\ orphans \in SUBSET Notes /\ faults \in Nat
      /\ prog[p].found \in SUBSET Reminders /\ prog[p].batch \in SUBSET Notes
      /\ prog[p].note \in SUBSET Notes
  BY <1>1 DEF OutboxTypeOK, Workings
<1>3. /\ prog[p].pc \notin {"send", "sent", "failed"} => Held(p) = {}
      /\ prog[p].pc = "send" => prog[p].note = {}
  BY DEF OutboxInv, Tidy
<1>4. \A n \in Notes : prog[p].pc = "sent" /\ n \in prog[p].note => mails[n] >= 1
  BY DEF OutboxInv, Sure
<1>5. Scan(p) => OutboxInv'
  <2> SUFFICES ASSUME Scan(p)
               PROVE  OutboxInv'
    OBVIOUS
  <2>1. GoesTo(p, "insert", due, {}, {})
    BY <1>1, ProgramSteps
  <2>2. prog[p].pc = "idle" /\ UNCHANGED <<due, box, mails, orphans, faults>>
    BY DEF Scan
  <2> QED
    BY <1>2, <1>3, <2>1, <2>2, Shrinks
<1>6. \A n \in Notes : Insert(p, n) => OutboxInv'
  <2> SUFFICES ASSUME NEW n \in Notes, Insert(p, n)
               PROVE  OutboxInv'
    OBVIOUS
  <2>1. GoesTo(p, "insert", prog[p].found \ {n}, {}, {})
    BY <1>1, ProgramSteps
  <2>2. /\ prog[p].pc = "insert" /\ UNCHANGED <<due, mails, orphans, faults>>
        /\ box' = Inserted(n)
    BY DEF Insert
  <2>3. /\ box' \in [Notes -> RowStates]
        /\ \A k \in Notes : box'[k] = box[k] \/ (box[k] = "absent" /\ box'[k] = "pending")
    BY <1>2, <2>2 DEF Inserted, RowStates
  <2> QED
    BY <1>2, <1>3, <2>1, <2>2, <2>3, Shrinks
<1>7. ScanDone(p) => OutboxInv'
  <2> SUFFICES ASSUME ScanDone(p)
               PROVE  OutboxInv'
    OBVIOUS
  <2>1. PICK pc \in {"claim", "idle"} : GoesTo(p, pc, {}, {}, {})
    BY <1>1, ProgramSteps
  <2> QED
    BY <1>2, <1>3, <2>1, Shrinks DEF ScanDone
<1>8. ClaimNothing(p) => OutboxInv'
  <2> SUFFICES ASSUME ClaimNothing(p)
               PROVE  OutboxInv'
    OBVIOUS
  <2>1. GoesTo(p, "idle", {}, {}, {})
    BY <1>1, ProgramSteps
  <2>2. prog[p].pc = "claim" /\ UNCHANGED <<due, box, mails, orphans, faults>>
    BY DEF ClaimNothing
  <2> QED
    BY <1>2, <1>3, <2>1, <2>2, Shrinks
<1>9. MarkSent(p) => OutboxInv'
  <2> SUFFICES ASSUME MarkSent(p)
               PROVE  OutboxInv'
    OBVIOUS
  <2>1. GoesTo(p, "send", {}, prog[p].batch, {})
    BY <1>1, ProgramSteps
  <2>2. /\ prog[p].pc = "sent" /\ UNCHANGED <<due, mails, orphans, faults>>
        /\ box' = Marked(p, "sent")
    BY DEF MarkSent
  <2>3. /\ box' \in [Notes -> RowStates]
        /\ \A k \in Notes :
             box'[k] = IF k \in prog[p].note THEN "sent" ELSE box[k]
    BY <1>2, <2>2 DEF Marked, RowStates
  <2>4. \A n \in Notes : box'[n] = "processing" =>
          box[n] = "processing" /\ (n \in Held(p) => n \in prog[p].batch)
    BY <2>3 DEF Held
  <2> QED
    BY <1>2, <1>4, <2>1, <2>2, <2>3, <2>4, Shrinks
<1>10. MarkSentFails(p) => OutboxInv'
  <2> SUFFICES ASSUME MarkSentFails(p)
               PROVE  OutboxInv'
    OBVIOUS
  <2>1. GoesTo(p, "failed", {}, prog[p].batch, prog[p].note)
    BY <1>1, ProgramSteps
  <2>2. UNCHANGED <<due, box, mails, orphans>> /\ faults' = faults + 1
    BY DEF MarkSentFails
  <2>3. \A n \in Notes : n \in Held(p) => n \in prog[p].batch \cup prog[p].note
    BY DEF Held
  <2> QED
    BY <1>2, <2>1, <2>2, <2>3, Shrinks
<1>11. MarkFailed(p) => OutboxInv'
  <2> SUFFICES ASSUME MarkFailed(p)
               PROVE  OutboxInv'
    OBVIOUS
  <2>1. GoesTo(p, "send", {}, prog[p].batch, {})
    BY <1>1, ProgramSteps
  <2>2. UNCHANGED <<due, mails, orphans, faults>> /\ box' = Marked(p, "failed")
    BY DEF MarkFailed
  <2>3. /\ box' \in [Notes -> RowStates]
        /\ \A k \in Notes :
             box'[k] = IF k \in prog[p].note THEN "failed" ELSE box[k]
    BY <1>2, <2>2 DEF Marked, RowStates
  <2>4. \A n \in Notes : box'[n] = "processing" =>
          box[n] = "processing" /\ (n \in Held(p) => n \in prog[p].batch)
    BY <2>3 DEF Held
  <2> QED
    BY <1>2, <2>1, <2>2, <2>3, <2>4, Shrinks
<1>12. MarkFailedFails(p) => OutboxInv'
  <2> SUFFICES ASSUME MarkFailedFails(p)
               PROVE  OutboxInv'
    OBVIOUS
  <2>1. GoesTo(p, "send", {}, prog[p].batch, {})
    BY <1>1, ProgramSteps
  <2>2. /\ UNCHANGED <<due, box, mails>> /\ faults' = faults + 1
        /\ orphans' = orphans \cup prog[p].note
    BY DEF MarkFailedFails
  <2>3. \A n \in Notes : n \in Held(p) => n \in prog[p].batch \cup {} \cup orphans'
    BY <2>2 DEF Held
  <2> QED
    BY <1>2, <2>1, <2>2, <2>3, Shrinks
<1>13. Finish(p) => OutboxInv'
  <2> SUFFICES ASSUME Finish(p)
               PROVE  OutboxInv'
    OBVIOUS
  <2>1. PICK pc \in {"done", "idle"} : GoesTo(p, pc, {}, {}, {})
    BY <1>1, ProgramSteps
  <2>2. Held(p) = {} /\ UNCHANGED <<due, box, mails, orphans, faults>>
    BY <1>3 DEF Finish, Held
  <2> QED
    BY <1>2, <2>1, <2>2, Shrinks
<1>14. Dies(p) => OutboxInv'
  <2> SUFFICES ASSUME Dies(p)
               PROVE  OutboxInv'
    OBVIOUS
  <2>1. PICK pc \in {"done", "idle"} : GoesTo(p, pc, {}, {}, {})
    BY <1>1, ProgramSteps
  <2>2. /\ UNCHANGED <<due, box, mails>> /\ faults' = faults + 1
        /\ orphans' = orphans \cup Held(p)
    BY DEF Dies
  <2>3. Held(p) \subseteq Notes
    BY <1>2 DEF Held
  <2> QED
    BY <1>2, <2>1, <2>2, <2>3, Shrinks
<1> QED
  BY <1>5, <1>6, <1>7, <1>8, <1>9, <1>10, <1>11, <1>12, <1>13, <1>14

\* A request inserts the row it sends, or finds that it is known.
LEMMA AnnounceStep ==
    ASSUME OutboxInv, NEW p \in Programs, NEW n \in Notes, Announce(p, n)
    PROVE  OutboxInv'
<1>1. OutboxTypeOK
  BY DEF OutboxInv
<1>2. /\ box \in [Notes -> RowStates] /\ mails \in [Notes -> Nat]
      /\ orphans \in SUBSET Notes /\ faults \in Nat
  BY <1>1 DEF OutboxTypeOK
<1>3. /\ p \in Requests /\ n \in Confirmations /\ prog[p].pc = "idle"
      /\ UNCHANGED <<due, mails, orphans, faults>> /\ box' = Inserted(n)
  BY DEF Announce
<1>4. Held(p) = {}
  BY <1>3 DEF OutboxInv, Tidy
<1>5. CASE box[n] # "absent"
  <2>1. GoesTo(p, "done", {}, {}, {})
    BY <1>1, <1>5, ProgramSteps
  <2>2. box' = box
    BY <1>3, <1>5 DEF Inserted
  <2> QED
    BY <1>2, <1>3, <1>4, <2>1, <2>2, Shrinks DEF Pcs
<1>6. CASE box[n] = "absent"
  <2>1. GoesTo(p, "send", {}, {n}, {})
    BY <1>1, <1>6, ProgramSteps
  <2>2. /\ box'[n] = "pending" /\ box' \in [Notes -> RowStates]
        /\ \A k \in Notes : k # n => box'[k] = box[k]
    BY <1>2, <1>3, <1>6 DEF Inserted, RowStates
  <2>3. /\ mails[n] = 0 /\ ~Asked(n) /\ ~Taken(n)
        /\ n \notin Reminders
    BY <1>3, <1>6, OutboxKindsAssumption DEF OutboxInv, Budget
  <2>4. OutboxTypeOK'
    BY <1>1, <1>3, <2>1, <2>2 DEF OutboxTypeOK, GoesTo
  <2>5. Tidy' /\ Sure'
    BY <1>3, <2>1 DEF OutboxInv, Tidy, Sure, Held, GoesTo
  <2>6. Apart'
    <3>1. \A q \in Programs : q # p /\ q \in Requests => n \notin prog[q].batch
      BY <2>3 DEF Asked
    <3> QED
      BY <1>3, <2>1, <3>1 DEF OutboxInv, Apart, GoesTo
  <2>7. Budget'
    <3> SUFFICES ASSUME NEW k \in Notes
                 PROVE  /\ k \in Reminders => ~Asked(k)'
                        /\ box'[k] = "absent" => mails'[k] = 0 /\ ~Asked(k)' /\ ~Taken(k)'
                        /\ box'[k] = "pending" => ~Taken(k)'
                        /\ mails'[k] + One(Asked(k)') + One(Taken(k)') + One(box'[k] = "pending")
                             <= IF k \in Reminders THEN 1 ELSE 2
      BY DEF Budget, One
    <3>1. Taken(k)' => Taken(k)
      <4>1. \A q \in Jobs \cup Admins : q \in Programs /\ q # p
        BY <1>3, OutboxKindsAssumption DEF Programs
      <4> QED
        BY <2>1, <4>1 DEF Taken, GoesTo
    <3>2. k # n => (Asked(k)' => Asked(k))
      BY <2>1 DEF Asked, GoesTo, Programs
    <3>3. /\ k \in Reminders => ~Asked(k)
          /\ box[k] = "absent" => mails[k] = 0 /\ ~Asked(k) /\ ~Taken(k)
          /\ box[k] = "pending" => ~Taken(k)
          /\ mails[k] + One(Asked(k)) + One(Taken(k)) + One(box[k] = "pending")
               <= IF k \in Reminders THEN 1 ELSE 2
      BY DEF OutboxInv, Budget
    <3>4. mails[k] \in Nat
      BY <1>2
    <3>5. CASE k # n
      BY <1>3, <2>2, <3>1, <3>2, <3>3, <3>4, <3>5 DEF One
    <3>6. CASE k = n
      BY <1>3, <2>2, <2>3, <3>1, <3>4, <3>6 DEF One
    <3> QED
      BY <3>5, <3>6
  <2>8. SentHasLeft'
    BY <1>3, <2>2 DEF OutboxInv, SentHasLeft, InState
  <2>9. ClaimsHaveOwners'
    BY <1>3, <1>4, <2>1, <2>2 DEF OutboxInv, ClaimsHaveOwners, InState, Held, GoesTo
  <2> QED
    BY <2>4, <2>5, <2>6, <2>7, <2>8, <2>9 DEF OutboxInv
<1> QED
  BY <1>5, <1>6

\* A claim takes rows that are pending, which no worker has.
LEMMA ClaimStep ==
    ASSUME OutboxInv, NEW p \in Programs, Claim(p)
    PROVE  OutboxInv'
<1>1. OutboxTypeOK
  BY DEF OutboxInv
<1>2. /\ box \in [Notes -> RowStates] /\ mails \in [Notes -> Nat]
  BY <1>1 DEF OutboxTypeOK
<1>3. PICK B \in Batches :
        /\ GoesTo(p, "send", {}, B, {})
        /\ box' = [n \in Notes |-> IF n \in B THEN "processing" ELSE box[n]]
  BY <1>1, ProgramSteps
<1>4. /\ p \in Jobs \cup Admins /\ prog[p].pc \in {"idle", "claim"}
      /\ UNCHANGED <<due, mails, orphans, faults>>
  BY DEF Claim
<1>5. p \notin Requests
  BY <1>4, OutboxKindsAssumption
<1>6. Held(p) = {}
  BY <1>4 DEF OutboxInv, Tidy
<1>7. B \subseteq Notes /\ \A n \in B : box[n] = "pending"
  BY DEF Batches, Claimable, InState
<1>8. box' \in [Notes -> RowStates]
  BY <1>2, <1>3 DEF RowStates
<1>9. OutboxTypeOK'
  BY <1>1, <1>3, <1>4, <1>8 DEF OutboxTypeOK, GoesTo
<1>10. Tidy' /\ Sure'
  BY <1>3, <1>4 DEF OutboxInv, Tidy, Sure, Held, GoesTo
<1>11. \A n \in B : ~Taken(n)
  BY <1>7 DEF OutboxInv, Budget
<1>12. Apart'
  <2>1. \A q \in Programs : q \notin Requests => prog[q].batch \cap B = {}
    BY <1>11 DEF Taken, Programs
  <2> QED
    BY <1>3, <1>5, <2>1 DEF OutboxInv, Apart, GoesTo
<1>13. Budget'
  <2> SUFFICES ASSUME NEW n \in Notes
               PROVE  /\ n \in Reminders => ~Asked(n)'
                      /\ box'[n] = "absent" => mails'[n] = 0 /\ ~Asked(n)' /\ ~Taken(n)'
                      /\ box'[n] = "pending" => ~Taken(n)'
                      /\ mails'[n] + One(Asked(n)') + One(Taken(n)') + One(box'[n] = "pending")
                           <= IF n \in Reminders THEN 1 ELSE 2
    BY DEF Budget, One
  <2>1. Asked(n)' => Asked(n)
    BY <1>3, <1>5 DEF Asked, GoesTo, Programs
  <2>2. n \notin B => (Taken(n)' => Taken(n))
    BY <1>3 DEF Taken, GoesTo, Programs
  <2>3. /\ n \in Reminders => ~Asked(n)
        /\ box[n] = "absent" => mails[n] = 0 /\ ~Asked(n) /\ ~Taken(n)
        /\ box[n] = "pending" => ~Taken(n)
        /\ mails[n] + One(Asked(n)) + One(Taken(n)) + One(box[n] = "pending")
             <= IF n \in Reminders THEN 1 ELSE 2
    BY DEF OutboxInv, Budget
  <2>4. mails[n] \in Nat
    BY <1>2
  <2>5. CASE n \in B
    BY <1>3, <1>4, <1>7, <2>1, <2>3, <2>4, <2>5 DEF One
  <2>6. CASE n \notin B
    BY <1>3, <1>4, <2>1, <2>2, <2>3, <2>4, <2>6 DEF One
  <2> QED
    BY <2>5, <2>6
<1>14. SentHasLeft'
  BY <1>3, <1>4 DEF OutboxInv, SentHasLeft, InState
<1>15. ClaimsHaveOwners'
  BY <1>3, <1>4, <1>6 DEF OutboxInv, ClaimsHaveOwners, InState, Held, GoesTo
<1> QED
  BY <1>9, <1>10, <1>12, <1>13, <1>14, <1>15 DEF OutboxInv

\* A mail that may have left is one fewer to come.
LEMMA SendStep ==
    ASSUME OutboxInv, NEW p \in Programs, NEW n \in Notes, Send(p, n)
    PROVE  OutboxInv'
<1>1. OutboxTypeOK
  BY DEF OutboxInv
<1>2. /\ box \in [Notes -> RowStates] /\ mails \in [Notes -> Nat]
  BY <1>1 DEF OutboxTypeOK
<1>3. PICK answer \in {"sent", "failed"}, left \in BOOLEAN :
        /\ answer = "sent" => left
        /\ mails' = IF left THEN [mails EXCEPT ![n] = @ + 1] ELSE mails
        /\ GoesTo(p, answer, {}, prog[p].batch \ {n}, {n})
  BY <1>1, ProgramSteps
<1>4. /\ prog[p].pc = "send" /\ n \in prog[p].batch
      /\ UNCHANGED <<due, box, orphans, faults>>
  BY DEF Send
<1>5. /\ mails' \in [Notes -> Nat]
      /\ mails'[n] = mails[n] + One(left)
      /\ \A k \in Notes : k # n => mails'[k] = mails[k]
      /\ \A k \in Notes : mails'[k] >= mails[k]
  BY <1>2, <1>3 DEF One
<1>6. OutboxTypeOK'
  BY <1>1, <1>3, <1>4, <1>5 DEF OutboxTypeOK, GoesTo
<1>7. Tidy'
  BY <1>3 DEF OutboxInv, Tidy, Held, GoesTo
<1>8. Sure'
  <2> SUFFICES ASSUME NEW q \in Programs, NEW k \in Notes,
                      prog'[q].pc = "sent", k \in prog'[q].note
               PROVE  mails'[k] >= 1
    BY DEF Sure
  <2>1. mails[k] \in Nat /\ mails'[k] \in Nat /\ mails[n] \in Nat
    BY <1>2, <1>5
  <2>2. CASE q = p
    BY <1>3, <1>5, <2>1, <2>2 DEF GoesTo, One
  <2>3. CASE q # p
    BY <1>3, <1>5, <2>1, <2>3 DEF OutboxInv, Sure, GoesTo
  <2> QED
    BY <2>2, <2>3
<1>9. \A q \in Programs : prog'[q].batch \subseteq prog[q].batch
  BY <1>3 DEF GoesTo
<1>10. Apart'
  BY <1>9 DEF OutboxInv, Apart
<1>11. Budget'
  <2> SUFFICES ASSUME NEW k \in Notes
               PROVE  /\ k \in Reminders => ~Asked(k)'
                      /\ box'[k] = "absent" => mails'[k] = 0 /\ ~Asked(k)' /\ ~Taken(k)'
                      /\ box'[k] = "pending" => ~Taken(k)'
                      /\ mails'[k] + One(Asked(k)') + One(Taken(k)') + One(box'[k] = "pending")
                           <= IF k \in Reminders THEN 1 ELSE 2
    BY DEF Budget, One
  <2>1. (Asked(k)' => Asked(k)) /\ (Taken(k)' => Taken(k))
    BY <1>9 DEF Asked, Taken, Programs
  <2>2. /\ k \in Reminders => ~Asked(k)
        /\ box[k] = "absent" => mails[k] = 0 /\ ~Asked(k) /\ ~Taken(k)
        /\ box[k] = "pending" => ~Taken(k)
        /\ mails[k] + One(Asked(k)) + One(Taken(k)) + One(box[k] = "pending")
             <= IF k \in Reminders THEN 1 ELSE 2
    BY DEF OutboxInv, Budget
  <2>3. mails[k] \in Nat /\ box' = box
    BY <1>2, <1>4
  <2>4. CASE k # n
    BY <1>5, <2>1, <2>2, <2>3, <2>4 DEF One
  <2>5. CASE k = n /\ p \in Requests
    <3>1. Asked(n) /\ ~Asked(n)'
      BY <1>3, <1>4, <2>5 DEF OutboxInv, Apart, Asked, GoesTo, Programs
    <3> QED
      BY <1>3, <1>5, <2>1, <2>2, <2>3, <2>5, <3>1 DEF One
  <2>6. CASE k = n /\ p \notin Requests
    <3>1. \A q \in Jobs \cup Admins : q \in Programs /\ q \notin Requests
      BY OutboxKindsAssumption DEF Programs
    <3>2. p \in Jobs \cup Admins
      BY <2>6 DEF Programs
    <3>3. Taken(n) /\ ~Taken(n)'
      BY <1>3, <1>4, <2>6, <3>1, <3>2 DEF OutboxInv, Apart, Taken, GoesTo
    <3> QED
      BY <1>3, <1>5, <2>1, <2>2, <2>3, <2>6, <3>3 DEF One
  <2> QED
    BY <2>4, <2>5, <2>6
<1>12. SentHasLeft'
  <2> SUFFICES ASSUME NEW k \in Notes, box[k] = "sent"
               PROVE  mails'[k] >= 1
    BY <1>4 DEF SentHasLeft, InState
  <2>1. mails[k] >= 1 /\ mails[k] \in Nat /\ mails'[k] \in Nat
    BY <1>2, <1>5 DEF OutboxInv, SentHasLeft, InState
  <2> QED
    BY <1>5, <2>1
<1>13. ClaimsHaveOwners'
  BY <1>3, <1>4 DEF OutboxInv, ClaimsHaveOwners, InState, Held, GoesTo, Tidy
<1> QED
  BY <1>6, <1>7, <1>8, <1>10, <1>11, <1>12, <1>13 DEF OutboxInv

-----------------------------------------------------------------------------
(* Theorems *)

\* A step that leaves rows, mails and programs alone.
LEMMA OutboxUntouched ==
    ASSUME OutboxInv, OutboxTypeOK', UNCHANGED <<box, mails, prog, orphans>>
    PROVE  OutboxInv'
  BY DEF OutboxInv, Tidy, Sure, Apart, Budget, Asked, Taken, Held, SentHasLeft,
     ClaimsHaveOwners, InState

\* Every step of the notifications keeps the invariant.
LEMMA OutboxStepKeeps ==
    ASSUME OutboxInv, OutboxNext
    PROVE  OutboxInv'
<1>1. ASSUME NEW n \in Reminders, NoLongerDue(n)
      PROVE  OutboxInv'
  <2>1. OutboxTypeOK'
    BY <1>1 DEF NoLongerDue, OutboxInv, OutboxTypeOK
  <2> QED
    BY <1>1, <2>1, OutboxUntouched DEF NoLongerDue
<1>2. ASSUME NEW p \in Programs, LosesLock(p)
      PROVE  OutboxInv'
  <2>1. OutboxTypeOK'
    BY <1>2 DEF LosesLock, outbox, OutboxInv, OutboxTypeOK
  <2> QED
    BY <1>2, <2>1, OutboxUntouched DEF LosesLock, outbox
<1>3. ASSUME NEW p \in Programs, Mailing(p), ~LosesLock(p)
      PROVE  OutboxInv'
  BY <1>3, QuietSteps, AnnounceStep, ClaimStep, SendStep DEF Mailing, Working
<1> QED
  BY <1>1, <1>2, <1>3 DEF OutboxNext

\* The invariant holds of the jobs.
LEMMA OutboxInvariant == Spec => []OutboxInv
<1>1. Init => OutboxInv
  BY DEF Init, OutboxInit, OutboxInv, OutboxTypeOK, RowStates, Workings, At, Tidy, Sure,
     Apart, Budget, Asked, Taken, One, Held, SentHasLeft, ClaimsHaveOwners, InState,
     Programs
<1>2. OutboxInv /\ [Next]_vars => OutboxInv'
  <2>1. OutboxInv /\ OutboxStep => OutboxInv'
    BY OutboxStepKeeps DEF OutboxStep
  <2>2. OutboxInv /\ UNCHANGED <<outbox, faults>> => OutboxInv'
    BY DEF outbox, OutboxInv, OutboxTypeOK, Tidy, Sure, Apart, Budget,
       Asked, Taken, Held, SentHasLeft, ClaimsHaveOwners, InState
  <2> QED
    BY <2>1, <2>2 DEF Next, AlertsStep, vars
<1> QED
  BY <1>1, <1>2, PTL DEF Spec

\* Whatever crashes, lost locks and runs by hand: no reminder is mailed twice,
\* and no confirmation more than twice.
THEOREM MailedOnce == Spec => []NeverMailedAgain
<1>1. OutboxInv => NeverMailedAgain
  <2> SUFFICES ASSUME OutboxInv, NEW n \in Notes
               PROVE  mails[n] <= IF n \in Reminders THEN 1 ELSE 2
    BY OutboxKindsAssumption DEF NeverMailedAgain, Notes
  <2>1. mails[n] \in Nat
    BY DEF OutboxInv, OutboxTypeOK
  <2>2. mails[n] + One(Asked(n)) + One(Taken(n)) + One(box[n] = "pending")
          <= IF n \in Reminders THEN 1 ELSE 2
    BY DEF OutboxInv, Budget
  <2> QED
    BY <2>1, <2>2 DEF One
<1> QED
  BY <1>1, OutboxInvariant, PTL

\* A row that is being processed has a program that will mark it, unless that
\* program died or lost the database.
THEOREM ClaimsOwned == Spec => []ClaimsHaveOwners
<1>1. OutboxInv => ClaimsHaveOwners
  BY DEF OutboxInv
<1> QED
  BY <1>1, OutboxInvariant, PTL

\* A row says sent only when the mail server took the mail.
THEOREM SentLeft == Spec => []SentHasLeft
<1>1. OutboxInv => SentHasLeft
  BY DEF OutboxInv
<1> QED
  BY <1>1, OutboxInvariant, PTL

-----------------------------------------------------------------------------
(* The invariant of the alerts *)

\* What was called for when p read it, and has not changed since, p keeps.
Informed ==
    \A p \in Reconcilers, x \in Things :
        cond[x] # "fine" /\ x \in HasRead(p) /\ x \notin rec[p].stale =>
            <<x, cond[x]>> \in rec[p].keep

\* What p is to resolve is nothing it keeps.
Listed ==
    \A p \in Reconcilers :
        /\ rec[p].gone \cap rec[p].keep = {}
        /\ rec[p].gone # {} => rec[p].pc = "resolve"

AlertsInv == AlertsTypeOK /\ Informed /\ Listed

\* Reconcile p goes on.
Turns(p, pc, keep, raise, gone, stale) ==
    /\ rec' \in [Reconcilers -> Reconciles]
    /\ rec'[p].pc = pc /\ rec'[p].keep = keep /\ rec'[p].due = raise
    /\ rec'[p].gone = gone /\ rec'[p].stale = stale
    /\ \A q \in Reconcilers : q # p => rec'[q] = rec[q]

RecPcs == {"idle", "changed", "damages", "raise", "resolve"}

\* A reconcile is put at a place of the right type.
LEMMA Turned ==
    ASSUME NEW p \in Reconcilers, NEW pc \in RecPcs, NEW keep \in SUBSET Alerts,
           NEW raise \in SUBSET Alerts, NEW gone \in SUBSET Alerts,
           NEW stale \in SUBSET Things, rec \in [Reconcilers -> Reconciles],
           rec' = [rec EXCEPT ![p] = Reconcile(pc, keep, raise, gone, stale)]
    PROVE  Turns(p, pc, keep, raise, gone, stale)
<1> DEFINE w == Reconcile(pc, keep, raise, gone, stale)
<1>1. w \in Reconciles
  BY DEF Reconciles, Reconcile, RecPcs
<1>2. rec' = [rec EXCEPT ![p] = w]
  OBVIOUS
<1>3. /\ w.pc = pc /\ w.keep = keep /\ w.due = raise /\ w.gone = gone
      /\ w.stale = stale
  BY DEF Reconcile
<1> HIDE DEF w
<1> QED
  BY <1>1, <1>2, <1>3 DEF Turns

\* What is called for is an alert.
LEMMA CalledTypes ==
    ASSUME AlertsTypeOK, NEW X \in SUBSET Things
    PROVE  Called(X) \in SUBSET Alerts
  BY DEF AlertsTypeOK, Called, Alerts

\* A step of one reconcile, which changes no paper or damage: what it has read,
\* it keeps, and what it lists it does not keep.
LEMMA OneTurn ==
    ASSUME AlertsInv, NEW p \in Reconcilers, NEW pc \in RecPcs,
           NEW keep \in SUBSET Alerts, NEW raise \in SUBSET Alerts,
           NEW gone \in SUBSET Alerts, NEW stale \in SUBSET Things,
           Turns(p, pc, keep, raise, gone, stale),
           cond' = cond, alerts' \subseteq Alerts, changes' \in Nat, alertFaults' \in Nat,
           gone \cap keep = {}, gone # {} => pc = "resolve",
           pc \in {"damages", "raise", "resolve"} =>
             \A x \in (IF pc = "damages" THEN Papers ELSE Things) :
               cond[x] # "fine" /\ x \notin stale => <<x, cond[x]>> \in keep
    PROVE  AlertsInv'
<1>1. AlertsTypeOK'
  BY DEF AlertsInv, AlertsTypeOK, Turns
<1>2. Informed'
  BY DEF AlertsInv, Informed, HasRead, Turns, RecPcs
<1>3. Listed'
  BY DEF AlertsInv, Listed, Turns
<1> QED
  BY <1>1, <1>2, <1>3 DEF AlertsInv

\* Who had read a paper or a damage that changes has an outdated view of it.
LEMMA OutdatedView ==
    ASSUME rec \in [Reconcilers -> Reconciles], NEW x \in Things
    PROVE  /\ Outdated(x) \in [Reconcilers -> Reconciles]
           /\ \A p \in Reconcilers :
                /\ Outdated(x)[p].pc = rec[p].pc /\ Outdated(x)[p].keep = rec[p].keep
                /\ Outdated(x)[p].gone = rec[p].gone
                /\ rec[p].stale \subseteq Outdated(x)[p].stale
                /\ x \in HasRead(p) => x \in Outdated(x)[p].stale
<1>1. ASSUME NEW p \in Reconcilers
      PROVE  /\ Outdated(x)[p] \in Reconciles
             /\ Outdated(x)[p].pc = rec[p].pc /\ Outdated(x)[p].keep = rec[p].keep
             /\ Outdated(x)[p].gone = rec[p].gone
             /\ rec[p].stale \subseteq Outdated(x)[p].stale
             /\ x \in HasRead(p) => x \in Outdated(x)[p].stale
  <2> DEFINE w == [rec[p] EXCEPT !.stale = rec[p].stale \cup {x}]
  <2>1. /\ w \in Reconciles /\ w.pc = rec[p].pc /\ w.keep = rec[p].keep
        /\ w.gone = rec[p].gone /\ w.stale = rec[p].stale \cup {x}
    BY DEF Reconciles
  <2>2. Outdated(x)[p] = IF x \in HasRead(p) THEN w ELSE rec[p]
    BY DEF Outdated
  <2> HIDE DEF w
  <2> QED
    BY <2>1, <2>2
<1>2. Outdated(x) \in [Reconcilers -> Reconciles]
  BY <1>1 DEF Outdated
<1> QED
  BY <1>1, <1>2

\* A paper or a damage changes, and the request that changed it is about to read.
LEMMA Outdates ==
    ASSUME AlertsInv, NEW x \in Things, NEW c \in PaperConds \cup DamageConds,
           cond' = [cond EXCEPT ![x] = c], rec' \in [Reconcilers -> Reconciles],
           \A p \in Reconcilers :
             \/ rec'[p] = Outdated(x)[p]
             \/ rec'[p] = Reconcile("changed", {}, {}, {}, {}),
           alerts' = alerts, changes' \in Nat, alertFaults' \in Nat
    PROVE  AlertsInv'
<1>1. rec \in [Reconcilers -> Reconciles]
  BY DEF AlertsInv, AlertsTypeOK
<1>2. \A p \in Reconcilers :
        \/ /\ rec'[p].pc = rec[p].pc /\ rec'[p].keep = rec[p].keep
           /\ rec'[p].gone = rec[p].gone /\ rec[p].stale \subseteq rec'[p].stale
           /\ x \in HasRead(p) => x \in rec'[p].stale
        \/ rec'[p].pc = "changed" /\ rec'[p].gone = {}
  <2> DEFINE v == Reconcile("changed", {}, {}, {}, {})
  <2>1. v.pc = "changed" /\ v.gone = {}
    BY DEF Reconcile
  <2> HIDE DEF v
  <2>2. \A p \in Reconcilers : rec'[p] = Outdated(x)[p] \/ rec'[p] = v
    BY DEF v
  <2> QED
    BY <1>1, <2>1, <2>2, OutdatedView
<1>3. AlertsTypeOK'
  BY DEF AlertsInv, AlertsTypeOK
<1>4. Informed'
  <2> SUFFICES ASSUME NEW p \in Reconcilers, NEW y \in Things, cond'[y] # "fine",
                      y \in HasRead(p)', y \notin rec'[p].stale
               PROVE  <<y, cond'[y]>> \in rec'[p].keep
    BY DEF Informed
  <2>1. rec'[p].pc # "changed"
    BY DEF HasRead
  <2>2. rec'[p].pc = rec[p].pc /\ rec'[p].keep = rec[p].keep
    BY <1>2, <2>1
  <2>3. y \in HasRead(p)
    BY <2>2 DEF HasRead
  <2>4. y # x /\ y \notin rec[p].stale
    BY <1>2, <2>1, <2>3
  <2>5. cond'[y] = cond[y]
    BY <2>4 DEF AlertsInv, AlertsTypeOK
  <2> QED
    BY <2>2, <2>3, <2>4, <2>5 DEF AlertsInv, Informed
<1>5. Listed'
  BY <1>2 DEF AlertsInv, Listed
<1> QED
  BY <1>3, <1>4, <1>5 DEF AlertsInv

\* Every step of the alerts keeps the invariant.
LEMMA AlertsStepKeeps ==
    ASSUME AlertsInv, AlertsNext
    PROVE  AlertsInv'
<1> USE DEF RecPcs
<1>1. AlertsTypeOK /\ Informed /\ Listed
  BY DEF AlertsInv
<1>2. /\ cond \in [Things -> PaperConds \cup DamageConds] /\ alerts \subseteq Alerts
      /\ rec \in [Reconcilers -> Reconciles] /\ changes \in Nat /\ alertFaults \in Nat
  BY <1>1 DEF AlertsTypeOK
<1>3. \A p \in Reconcilers :
        /\ rec[p].keep \in SUBSET Alerts /\ rec[p].due \in SUBSET Alerts
        /\ rec[p].gone \in SUBSET Alerts /\ rec[p].stale \in SUBSET Things
  BY <1>2 DEF Reconciles
<1>4. Papers \subseteq Things /\ Damages \subseteq Things
  BY DEF Things
<1>5. ASSUME NEW x \in Things, DayPasses(x)
      PROVE  AlertsInv'
  <2>1. PICK c \in PaperConds : cond' = [cond EXCEPT ![x] = c]
    BY <1>5 DEF DayPasses, PaperConds
  <2>2. /\ rec' = Outdated(x) /\ alerts' = alerts /\ changes' = changes + 1
        /\ alertFaults' = alertFaults
    BY <1>5 DEF DayPasses
  <2>3. rec' \in [Reconcilers -> Reconciles]
    BY <1>2, <2>2, OutdatedView
  <2>4. changes' \in Nat /\ alertFaults' \in Nat
    BY <1>2, <2>2
  <2> QED
    BY <2>1, <2>2, <2>3, <2>4, Outdates
<1>6. ASSUME NEW x \in Things, NEW p \in Desks, NEW c \in PaperConds \cup DamageConds,
             Changed(p, x, c)
      PROVE  AlertsInv'
  <2> DEFINE v == Reconcile("changed", {}, {}, {}, {})
             o == Outdated(x)
  <2>1. /\ cond' = [cond EXCEPT ![x] = c] /\ alerts' = alerts /\ changes' = changes + 1
        /\ alertFaults' = alertFaults /\ rec' = [o EXCEPT ![p] = v]
    BY <1>6 DEF Changed
  <2>2. o \in [Reconcilers -> Reconciles] /\ v \in Reconciles
    BY <1>2, OutdatedView DEF Reconciles, Reconcile
  <2> HIDE DEF v, o
  <2>3. /\ rec' \in [Reconcilers -> Reconciles]
        /\ \A q \in Reconcilers : rec'[q] = o[q] \/ rec'[q] = v
    BY <2>1, <2>2
  <2>4. changes' \in Nat /\ alertFaults' \in Nat
    BY <1>2, <2>1
  <2>5. \A q \in Reconcilers :
          \/ rec'[q] = Outdated(x)[q]
          \/ rec'[q] = Reconcile("changed", {}, {}, {}, {})
    BY <2>3 DEF v, o
  <2> QED
    BY <2>1, <2>3, <2>4, <2>5, Outdates
<1>7. ASSUME NEW p \in Reconcilers, Begin(p)
      PROVE  AlertsInv'
  <2>1. Turns(p, "damages", Called(Papers), {}, {}, {})
    BY <1>2, <1>4, <1>7, <1>1, Turned, CalledTypes DEF Begin
  <2>2. \A x \in Papers : cond[x] # "fine" => <<x, cond[x]>> \in Called(Papers)
    BY DEF Called
  <2>3. UNCHANGED <<cond, alerts, changes, alertFaults>>
    BY <1>7 DEF Begin
  <2> QED
    BY <1>1, <1>2, <1>4, <2>1, <2>2, <2>3, OneTurn, CalledTypes
<1>8. ASSUME NEW p \in Reconcilers, ReadDamages(p)
      PROVE  AlertsInv'
  <2> DEFINE K == rec[p].keep \cup Called(Damages)
  <2>1. K \in SUBSET Alerts
    BY <1>1, <1>3, <1>4, CalledTypes
  <2>2. Turns(p, "raise", K, K, {}, rec[p].stale)
    BY <1>2, <1>3, <1>8, <2>1, Turned DEF ReadDamages, Keeps
  <2>3. \A x \in Things : cond[x] # "fine" /\ x \notin rec[p].stale => <<x, cond[x]>> \in K
    BY <1>1, <1>8 DEF Informed, HasRead, ReadDamages, Called, Things
  <2>4. UNCHANGED <<cond, alerts, changes, alertFaults>>
    BY <1>8 DEF ReadDamages
  <2> QED
    BY <1>2, <1>3, <2>1, <2>2, <2>3, <2>4, OneTurn
<1>9. ASSUME NEW p \in Reconcilers, NEW a \in rec[p].due, Raise(p, a)
      PROVE  AlertsInv'
  <2>1. Turns(p, "raise", rec[p].keep, rec[p].due \ {a}, {}, rec[p].stale)
    BY <1>2, <1>3, <1>9, Turned DEF Raise
  <2>2. \A x \in Things : cond[x] # "fine" /\ x \notin rec[p].stale =>
          <<x, cond[x]>> \in rec[p].keep
    BY <1>1, <1>9 DEF Informed, HasRead, Raise
  <2>3. UNCHANGED <<cond, changes, alertFaults>> /\ alerts' \subseteq Alerts
    BY <1>2, <1>3, <1>9 DEF Raise
  <2> QED
    BY <1>2, <1>3, <2>1, <2>2, <2>3, OneTurn
<1>10. ASSUME NEW p \in Reconcilers, ListActive(p)
       PROVE  AlertsInv'
  <2> DEFINE G == alerts \ rec[p].keep
  <2>1. Turns(p, "resolve", rec[p].keep, {}, G, rec[p].stale)
    BY <1>2, <1>3, <1>10, Turned DEF ListActive, NotCalledFor
  <2>2. \A x \in Things : cond[x] # "fine" /\ x \notin rec[p].stale =>
          <<x, cond[x]>> \in rec[p].keep
    BY <1>1, <1>10 DEF Informed, HasRead, ListActive
  <2>3. UNCHANGED <<cond, alerts, changes, alertFaults>>
    BY <1>10 DEF ListActive
  <2> QED
    BY <1>2, <1>3, <2>1, <2>2, <2>3, OneTurn
<1>11. ASSUME NEW p \in Reconcilers, Resolve(p)
       PROVE  AlertsInv'
  <2>1. /\ alerts' \subseteq Alerts /\ UNCHANGED <<cond, changes, alertFaults>>
        /\ rec' = [q \in Reconcilers |->
                     IF q = p THEN NoReconcile
                     ELSE [rec[q] EXCEPT !.gone = @ \ rec[p].gone]]
    BY <1>2, <1>11 DEF Resolve
  <2>2. ASSUME NEW q \in Reconcilers
        PROVE  /\ rec'[q] \in Reconciles
               /\ \/ /\ rec'[q].pc = rec[q].pc /\ rec'[q].keep = rec[q].keep
                     /\ rec'[q].gone = rec[q].gone \ rec[p].gone
                     /\ rec'[q].stale = rec[q].stale
                  \/ rec'[q].pc = "idle" /\ rec'[q].gone = {}
    <3> DEFINE w == [rec[q] EXCEPT !.gone = rec[q].gone \ rec[p].gone]
    <3>1. /\ w \in Reconciles /\ w.pc = rec[q].pc /\ w.keep = rec[q].keep
          /\ w.gone = rec[q].gone \ rec[p].gone /\ w.stale = rec[q].stale
      BY <1>2 DEF Reconciles
    <3>2. NoReconcile \in Reconciles /\ NoReconcile.pc = "idle" /\ NoReconcile.gone = {}
      BY DEF NoReconcile, Reconcile, Reconciles
    <3>3. rec'[q] = IF q = p THEN NoReconcile ELSE w
      BY <2>1
    <3> HIDE DEF w
    <3> QED
      BY <3>1, <3>2, <3>3
  <2>3. rec' \in [Reconcilers -> Reconciles]
    <3>1. rec' = [q \in Reconcilers |-> rec'[q]]
      BY <2>1
    <3> QED
      BY <2>2, <3>1
  <2>4. AlertsTypeOK'
    BY <1>2, <2>1, <2>3 DEF AlertsTypeOK
  <2>5. Informed'
    BY <1>1, <2>1, <2>2 DEF Informed, HasRead
  <2>6. Listed'
    BY <1>1, <2>2 DEF Listed
  <2> QED
    BY <2>4, <2>5, <2>6 DEF AlertsInv
<1>12. ASSUME NEW p \in Reconcilers, GivesUp(p)
       PROVE  AlertsInv'
  <2>1. Turns(p, "idle", {}, {}, {}, {})
    BY <1>2, <1>12, Turned DEF GivesUp, NoReconcile
  <2>2. UNCHANGED <<cond, alerts, changes>> /\ alertFaults' = alertFaults + 1
    BY <1>12 DEF GivesUp
  <2> QED
    BY <1>2, <2>1, <2>2, OneTurn
<1>13. \A p \in Desks \cup Checks : p \in Reconcilers
  BY DEF Reconcilers
<1> QED
  BY <1>5, <1>6, <1>7, <1>8, <1>9, <1>10, <1>11, <1>12, <1>13
     DEF AlertsNext, Reconciling, ChangePaper, ChangeDamage

\* The invariant holds of the jobs.
LEMMA AlertsInvariant == Spec => []AlertsInv
<1>1. Init => AlertsInv
  BY DEF Init, AlertsInit, AlertsInv, AlertsTypeOK, PaperConds, Reconciles, Reconcile,
     NoReconcile, Informed, Listed
<1>2. AlertsInv /\ [Next]_vars => AlertsInv'
  <2>1. AlertsInv /\ AlertsStep => AlertsInv'
    BY AlertsStepKeeps DEF AlertsStep
  <2>2. AlertsInv /\ UNCHANGED fleet => AlertsInv'
    BY DEF fleet, AlertsInv, AlertsTypeOK, Informed, HasRead, Listed
  <2> QED
    BY <2>1, <2>2 DEF Next, OutboxStep, vars
<1> QED
  BY <1>1, <1>2, PTL DEF Spec

\* However reconciles overlap: an alert that is called for is taken down only by
\* one that read its paper or damage before it last changed.
THEOREM RightAlerts == Spec => RightAlertsStay
<1>1. ASSUME AlertsInv, [Next]_vars
      PROVE  [\A a \in alerts \ alerts' :
                a \in Called(Things) =>
                  \E p \in Reconcilers : a \in rec[p].gone /\ a[1] \in rec[p].stale]_fleet
  <2> SUFFICES ASSUME NEW a \in alerts \ alerts', a \in Called(Things), AlertsNext
               PROVE  \E p \in Reconcilers : a \in rec[p].gone /\ a[1] \in rec[p].stale
    BY <1>1 DEF Next, OutboxStep, AlertsStep, vars, fleet
  <2>1. PICK p \in Reconcilers : Resolve(p)
    BY DEF AlertsNext, DayPasses, ChangePaper, ChangeDamage, Changed, Reconciling, Begin,
       ReadDamages, Raise, ListActive, GivesUp
  <2>2. a \in rec[p].gone /\ rec[p].pc = "resolve"
    BY <2>1 DEF Resolve
  <2>3. PICK x \in Things : a = <<x, cond[x]>> /\ cond[x] # "fine"
    BY DEF Called
  <2>4. a \notin rec[p].keep
    BY <1>1, <2>2 DEF AlertsInv, Listed
  <2>5. x \in rec[p].stale
    BY <1>1, <2>2, <2>3, <2>4 DEF AlertsInv, Informed, HasRead
  <2> QED
    BY <2>2, <2>3, <2>5
<1> QED
  BY <1>1, AlertsInvariant, PTL DEF Spec, RightAlertsStay

-----------------------------------------------------------------------------
(* The locks *)

Holding ==
    \A k \in Keys :
        /\ lock[k] \in Jobs => prog[lock[k]].pc # "idle"
        /\ lock[k] \in Checks => rec[lock[k]].pc # "idle"

\* What the step of run p does to the locks: a run that ends lets go of its
\* own, and one that takes a lock is at work.
LockStep(p, ends, works) ==
    \/ lock' = lock /\ ~ends
    \/ lock' = Without(p)
    \/ \E k : lock' = [lock EXCEPT ![k] = p] /\ works /\ p \in Runs

\* Every step of a program of the notifications leaves no lock behind.
LEMMA OutboxLocks ==
    ASSUME TypeOK, NEW p \in Programs, Mailing(p), UNCHANGED rec
    PROVE  LockTypeOK' /\ Holding'
<1>1. /\ OutboxTypeOK /\ LockTypeOK /\ Holding
      /\ prog \in [Programs -> Workings]
  BY DEF TypeOK, Holding, OutboxTypeOK
<1>2. CASE LosesLock(p)
  BY <1>1, <1>2, JobLockAssumption, OutboxKindsAssumption, AlertKindsAssumption
  DEF LosesLock, outbox, LockTypeOK, Holding, Without
<1>3. CASE ~LosesLock(p)
  <2>1. /\ \A q \in Programs : q # p => prog'[q] = prog[q]
        /\ LockStep(p, p \in Jobs /\ prog'[p].pc = "idle" /\ prog[p].pc # "idle",
                    p \in Jobs /\ prog'[p].pc # "idle")
    <3>1. CASE Scan(p)
      <4>1. GoesTo(p, "insert", due, {}, {})
        BY <1>1, <3>1, ProgramSteps
      <4>2. \/ lock' = [lock EXCEPT !["scheduler"] = p] /\ p \in Jobs
            \/ lock' = lock
        BY <3>1 DEF Scan, TakeLock
      <4> QED
        BY <4>1, <4>2, OutboxKindsAssumption DEF GoesTo, LockStep
    <3>2. CASE Claim(p)
      <4>1. PICK B \in Batches : GoesTo(p, "send", {}, B, {})
        BY <1>1, <3>2, ProgramSteps
      <4>2. \/ lock' = [lock EXCEPT !["worker"] = p] /\ p \in Jobs
            \/ lock' = lock
        BY <3>2 DEF Claim, TakeLock
      <4> QED
        BY <4>1, <4>2, OutboxKindsAssumption DEF GoesTo, LockStep
    <3>3. CASE ScanDone(p) \/ Finish(p) \/ Dies(p)
      BY <1>1, <3>3, ProgramSteps DEF ScanDone, Finish, Dies, GoesTo, LockStep
    <3>4. CASE ClaimNothing(p)
      BY <1>1, <3>4, ProgramSteps, OutboxKindsAssumption
      DEF ClaimNothing, GoesTo, LockStep
    <3>5. CASE \E n \in Notes : Insert(p, n)
      BY <1>1, <3>5, ProgramSteps DEF Insert, GoesTo, LockStep
    <3>6. CASE \E n \in Notes : Announce(p, n)
      BY <1>1, <3>6, ProgramSteps, OutboxKindsAssumption DEF Announce, GoesTo, LockStep
    <3>7. CASE \E n \in Notes : Send(p, n)
      BY <1>1, <3>7, ProgramSteps DEF Send, GoesTo, LockStep
    <3>8. CASE MarkSent(p) \/ MarkFailed(p) \/ MarkFailedFails(p) \/ MarkSentFails(p)
      BY <1>1, <3>8, ProgramSteps
      DEF MarkSent, MarkFailed, MarkFailedFails, MarkSentFails, GoesTo, LockStep
    <3> QED
      BY <1>3, <3>1, <3>2, <3>3, <3>4, <3>5, <3>6, <3>7, <3>8 DEF Mailing, Working
  <2>2. Jobs \subseteq Programs
    BY DEF Programs
  <2> QED
    BY <1>1, <2>1, <2>2, JobLockAssumption, OutboxKindsAssumption, AlertKindsAssumption,
       RunsAssumption
    DEF LockStep, LockTypeOK, Holding, Without
<1> QED
  BY <1>2, <1>3

\* Every step of a reconcile leaves no lock behind.
LEMMA AlertLocks ==
    ASSUME TypeOK, NEW p \in Reconcilers, UNCHANGED prog,
           Reconciling(p) \/ GivesUp(p) \/ Begin(p)
    PROVE  LockTypeOK' /\ Holding'
<1> USE DEF RecPcs
<1>1. /\ LockTypeOK /\ Holding /\ rec \in [Reconcilers -> Reconciles]
      /\ Checks \subseteq Reconcilers /\ Papers \subseteq Things
  BY DEF TypeOK, Holding, AlertsTypeOK, Reconcilers, Things
<1>2. /\ \A q \in Reconcilers : q # p => rec'[q].pc = rec[q].pc
      /\ LockStep(p, rec'[p].pc = "idle", p \in Checks /\ rec'[p].pc # "idle")
  <2>1. CASE Begin(p)
    <3> DEFINE v == Reconcile("damages", Called(Papers), {}, {}, {})
    <3>1. v.pc = "damages"
      BY DEF Reconcile
    <3>2. rec' = [rec EXCEPT ![p] = v]
      BY <2>1 DEF Begin
    <3>3. \/ lock' = [lock EXCEPT !["alerts"] = p] /\ p \in Checks
          \/ lock' = lock
      BY <2>1 DEF Begin, TakeLock
    <3> HIDE DEF v
    <3> QED
      BY <1>1, <3>1, <3>2, <3>3, AlertKindsAssumption DEF LockStep
  <2>2. CASE ReadDamages(p)
    BY <1>1, <2>2 DEF ReadDamages, Reconcile, LockStep
  <2>3. CASE \E a \in rec[p].due : Raise(p, a)
    BY <1>1, <2>3 DEF Raise, Reconcile, LockStep
  <2>4. CASE ListActive(p)
    BY <1>1, <2>4 DEF ListActive, Reconcile, LockStep
  <2>5. CASE Resolve(p)
    BY <1>1, <2>5 DEF Resolve, LockStep, Reconciles
  <2>6. CASE GivesUp(p)
    BY <1>1, <2>6 DEF GivesUp, LockStep
  <2> QED
    BY <2>1, <2>2, <2>3, <2>4, <2>5, <2>6 DEF Reconciling
<1> QED
  BY <1>1, <1>2, JobLockAssumption, OutboxKindsAssumption, AlertKindsAssumption,
     RunsAssumption
  DEF LockStep, LockTypeOK, Holding, Without

\* The jobs are of their types, and a lock that is taken has a run at work:
\* none is ever left behind.
THEOREM JobTypes == Spec => []TypeOK
<1>1. Init => TypeOK
  BY JobLockAssumption, OutboxKindsAssumption, AlertKindsAssumption
  DEF Init, LockInit, OutboxInit, AlertsInit, TypeOK, LockTypeOK, OutboxTypeOK,
      AlertsTypeOK, RowStates, Workings, At, PaperConds, Reconciles, Reconcile,
      NoReconcile
<1>2. TypeOK /\ OutboxInv /\ OutboxInv' /\ AlertsInv /\ AlertsInv' /\ [Next]_vars => TypeOK'
  <2> SUFFICES ASSUME TypeOK, OutboxInv', AlertsInv', [Next]_vars
               PROVE  LockTypeOK' /\ Holding' /\ watched' \in {"notifications", "alerts"}
    BY DEF TypeOK, Holding, OutboxInv, AlertsInv
  <2>1. LockTypeOK /\ Holding
    BY DEF TypeOK, Holding
  <2>2. CASE OutboxStep
    <3>1. CASE \E n \in Reminders : NoLongerDue(n)
      BY <2>1, <2>2, <3>1
      DEF OutboxStep, fleet, NoLongerDue, LockTypeOK, Holding, TypeOK
    <3>2. CASE \E p \in Programs : Mailing(p)
      BY <2>2, <3>2, OutboxLocks DEF OutboxStep, fleet, TypeOK
    <3> QED
      BY <2>2, <3>1, <3>2 DEF OutboxStep, OutboxNext
  <2>3. CASE AlertsStep
    <3>1. CASE \E p \in Reconcilers : Reconciling(p) \/ GivesUp(p) \/ Begin(p)
      BY <2>3, <3>1, AlertLocks DEF AlertsStep, outbox, TypeOK
    <3>2. CASE \E x \in Things :
                 DayPasses(x) \/ \E p \in Desks : ChangePaper(p, x) \/ ChangeDamage(p, x)
      <4>1. lock' = lock /\ prog' = prog /\ watched' = watched
        BY <2>3, <3>2
        DEF AlertsStep, outbox, DayPasses, ChangePaper, ChangeDamage, Changed
      <4>2. ASSUME NEW q \in Reconcilers, rec[q].pc # "idle"
            PROVE  rec'[q].pc # "idle"
        <5>1. PICK x \in Things :
                \/ rec' = Outdated(x)
                \/ \E p \in Desks : 
                      rec' = [Outdated(x) EXCEPT ![p] = Reconcile("changed", {}, {}, {}, {})]
          BY <3>2 DEF DayPasses, ChangePaper, ChangeDamage, Changed
        <5>2. Outdated(x) \in [Reconcilers -> Reconciles] /\ Outdated(x)[q].pc = rec[q].pc
          BY OutdatedView DEF TypeOK, AlertsTypeOK
        <5> DEFINE o == Outdated(x)
                   v == Reconcile("changed", {}, {}, {}, {})
        <5>3. v.pc = "changed"
          BY DEF Reconcile
        <5>4. rec' = o \/ \E p \in Desks : rec' = [o EXCEPT ![p] = v]
          BY <5>1
        <5>5. o \in [Reconcilers -> Reconciles] /\ o[q].pc = rec[q].pc
          BY <5>2
        <5> HIDE DEF o, v
        <5> QED
          BY <4>2, <5>3, <5>4, <5>5
      <4>3. Checks \subseteq Reconcilers
        BY DEF Reconcilers
      <4> QED
        BY <2>1, <4>1, <4>2, <4>3 DEF LockTypeOK, Holding, TypeOK
    <3> QED
      BY <2>3, <3>1, <3>2, AlertKindsAssumption DEF AlertsStep, AlertsNext, Reconcilers
  <2>4. CASE UNCHANGED vars
    BY <2>1, <2>4 DEF vars, outbox, fleet, LockTypeOK, Holding, TypeOK
  <2> QED
    BY <2>2, <2>3, <2>4 DEF Next
<1> QED
  BY <1>1, <1>2, OutboxInvariant, AlertsInvariant, PTL DEF Spec
=============================================================================
