--------------------------- MODULE EnrollmentProofs ---------------------------
(***************************************************************************)
(* Proofs about Enrollment, for every set of workers, request slots and    *)
(* sweepers.  The argument: the durable rows are always in one of a few    *)
(* shapes (open, claimed by w, enrolled w, one of these closed, or refused *)
(* and then recovered); the digest of the head determines the shape, so a  *)
(* transaction that gets past the compare-and-swap acts on exactly the     *)
(* rows it has read, and every commit is a step of EnrollmentAgreement.    *)
(***************************************************************************)
EXTENDS Enrollment, TLAPS

(* The rows an enrollment can have *)

BoundRow(w)    == Advanced(Opened, "worker_bound", w)
OfferRow(w)    == Advanced(BoundRow(w), "offer_transported", w)
ResultRow(w)   == Advanced(OfferRow(w), "result_transported", w)
VerifiedRow(w) == Advanced(ResultRow(w), "verified", w)
HealthyRow(w)  == Advanced(VerifiedRow(w), "healthy", w)

BindReceipts(w) ==
    {[step |-> "bind_worker_identity", input |-> w, rev |-> 1],
     [step |-> "record_controller_offer", input |-> w, rev |-> 2]}
ResultReceipts(w) ==
    {[step |-> "record_worker_result", input |-> w, rev |-> 3],
     [step |-> "mark_verified", input |-> Nobody, rev |-> 4],
     [step |-> "mark_healthy", input |-> Nobody, rev |-> 5]}

ClaimedDb(w) ==
    [head |-> OfferRow(w), history |-> {Opened, BoundRow(w), OfferRow(w)},
     consumed |-> TRUE, offer |-> w, receipts |-> BindReceipts(w)]
EnrolledDb(w) ==
    [head |-> HealthyRow(w),
     history |-> {Opened, BoundRow(w), OfferRow(w), ResultRow(w), VerifiedRow(w), HealthyRow(w)},
     consumed |-> TRUE, offer |-> w, receipts |-> BindReceipts(w) \cup ResultReceipts(w)]
ClosedDb(d, target) ==
    [head |-> Closed(d.head, target), history |-> d.history \cup {Closed(d.head, target)},
     consumed |-> d.consumed, offer |-> d.offer, receipts |-> d.receipts]

LiveDbs == {OpenDb} \cup {ClaimedDb(w) : w \in Workers} \cup {EnrolledDb(w) : w \in Workers}
ClosedDbs == {ClosedDb(d, target) : d \in LiveDbs, target \in Terminal}
RecoveredDb(d) == ClosedDb(ClosedDb(d, "refused"), "recovery_required")
RecoveredDbs == {RecoveredDb(d) : d \in LiveDbs}
Shapes == LiveDbs \cup ClosedDbs \cup RecoveredDbs

\* A transaction in progress has read a shape whose rows are still there, and
\* its service call has not refused.
TxOK ==
    \A t \in Slots : tx[t].kind \notin {"none", "selected"} =>
        /\ tx[t].snap \in Shapes
        /\ tx[t].snap.history \subseteq db.history
        /\ Outcome(tx[t]).ok
        /\ tx[t].kind \in {"bind", "result"} => tx[t].who \in Workers
        /\ tx[t].kind = "result" => "result" \in sent[tx[t].who]

\* A worker past the ownership step has its document on disk.
DriversOK ==
    \A w \in Workers :
        /\ drv[w].pc \in {"bound", "reporting"} => w \in owned
        /\ "result" \in sent[w] => w \in owned

IInv == TypeOK /\ db \in Shapes /\ TxOK /\ DriversOK /\ OwnedBeforeHealthy /\ HealthyIsAgreed

-----------------------------------------------------------------------------
(* The shapes *)

\* Every shape is live, closed or recovered rows; the closed and the recovered
\* ones name what they were before refuse or require_recovery.
LEMMA ShapeCases ==
    ASSUME NEW d \in Shapes
    PROVE  \/ d = OpenDb
           \/ \E w \in Workers : d = ClaimedDb(w)
           \/ \E w \in Workers : d = EnrolledDb(w)
           \/ \E target \in Terminal : d = ClosedDb(OpenDb, target)
           \/ \E w \in Workers, target \in Terminal : d = ClosedDb(ClaimedDb(w), target)
           \/ \E w \in Workers, target \in Terminal : d = ClosedDb(EnrolledDb(w), target)
           \/ d = RecoveredDb(OpenDb)
           \/ \E w \in Workers : d = RecoveredDb(ClaimedDb(w))
           \/ \E w \in Workers : d = RecoveredDb(EnrolledDb(w))
  BY DEF Shapes, LiveDbs, ClosedDbs, RecoveredDbs

\* The rows of each shape, written out.
LEMMA Rows ==
    ASSUME NEW w
    PROVE  /\ Opened = [st |-> "invited", rev |-> 0, worker |-> Nobody, pred |-> NoDigest]
           /\ BoundRow(w) = [st |-> "worker_bound", rev |-> 1, worker |-> w,
                             pred |-> <<"invited", 0, Nobody>>]
           /\ OfferRow(w) = [st |-> "offer_transported", rev |-> 2, worker |-> w,
                             pred |-> <<"worker_bound", 1, w>>]
           /\ ResultRow(w) = [st |-> "result_transported", rev |-> 3, worker |-> w,
                              pred |-> <<"offer_transported", 2, w>>]
           /\ VerifiedRow(w) = [st |-> "verified", rev |-> 4, worker |-> w,
                                pred |-> <<"result_transported", 3, w>>]
           /\ HealthyRow(w) = [st |-> "healthy", rev |-> 5, worker |-> w,
                               pred |-> <<"verified", 4, w>>]
  <1>1. BoundRow(w) = [st |-> "worker_bound", rev |-> 1, worker |-> w,
                       pred |-> <<"invited", 0, Nobody>>]
    BY DEF BoundRow, Advanced, Opened, Digest
  <1>2. OfferRow(w) = [st |-> "offer_transported", rev |-> 2, worker |-> w,
                       pred |-> <<"worker_bound", 1, w>>]
    BY <1>1 DEF OfferRow, Advanced, Digest
  <1>3. ResultRow(w) = [st |-> "result_transported", rev |-> 3, worker |-> w,
                        pred |-> <<"offer_transported", 2, w>>]
    BY <1>2 DEF ResultRow, Advanced, Digest
  <1>4. VerifiedRow(w) = [st |-> "verified", rev |-> 4, worker |-> w,
                          pred |-> <<"result_transported", 3, w>>]
    BY <1>3 DEF VerifiedRow, Advanced, Digest
  <1>5. HealthyRow(w) = [st |-> "healthy", rev |-> 5, worker |-> w,
                         pred |-> <<"verified", 4, w>>]
    BY <1>4 DEF HealthyRow, Advanced, Digest
  <1> QED
    BY <1>1, <1>2, <1>3, <1>4, <1>5 DEF Opened

\* The row refuse / require_recovery adds to each live shape.
LEMMA ClosedRows ==
    ASSUME NEW w, NEW target
    PROVE  /\ Closed(OpenDb.head, target) =
                 [st |-> target, rev |-> 1, worker |-> Nobody, pred |-> <<"invited", 0, Nobody>>]
           /\ Closed(ClaimedDb(w).head, target) =
                 [st |-> target, rev |-> 3, worker |-> w, pred |-> <<"offer_transported", 2, w>>]
           /\ Closed(EnrolledDb(w).head, target) =
                 [st |-> target, rev |-> 6, worker |-> w, pred |-> <<"healthy", 5, w>>]
  BY Rows DEF Closed, OpenDb, ClaimedDb, EnrolledDb, Digest

\* The row require_recovery adds to each refused shape.
LEMMA RecoveredRows ==
    ASSUME NEW w
    PROVE  /\ RecoveredDb(OpenDb).head =
                 [st |-> "recovery_required", rev |-> 2, worker |-> Nobody,
                  pred |-> <<"refused", 1, Nobody>>]
           /\ RecoveredDb(ClaimedDb(w)).head =
                 [st |-> "recovery_required", rev |-> 4, worker |-> w, pred |-> <<"refused", 3, w>>]
           /\ RecoveredDb(EnrolledDb(w)).head =
                 [st |-> "recovery_required", rev |-> 7, worker |-> w, pred |-> <<"refused", 6, w>>]
  <1>1. ASSUME NEW d, NEW n \in Nat, NEW v, NEW p,
               Closed(d.head, "refused") = [st |-> "refused", rev |-> n, worker |-> v, pred |-> p]
        PROVE  RecoveredDb(d).head = [st |-> "recovery_required", rev |-> n + 1, worker |-> v,
                                      pred |-> <<"refused", n, v>>]
    <2>1. RecoveredDb(d).head = Closed(Closed(d.head, "refused"), "recovery_required")
      BY DEF RecoveredDb, ClosedDb
    <2> QED
      BY <1>1, <2>1 DEF Closed, Digest
  <1>2. /\ Closed(OpenDb.head, "refused") =
              [st |-> "refused", rev |-> 1, worker |-> Nobody, pred |-> <<"invited", 0, Nobody>>]
        /\ Closed(ClaimedDb(w).head, "refused") =
              [st |-> "refused", rev |-> 3, worker |-> w, pred |-> <<"offer_transported", 2, w>>]
        /\ Closed(EnrolledDb(w).head, "refused") =
              [st |-> "refused", rev |-> 6, worker |-> w, pred |-> <<"healthy", 5, w>>]
    BY ClosedRows
  <1>3. RecoveredDb(OpenDb).head = [st |-> "recovery_required", rev |-> 1 + 1, worker |-> Nobody,
                                    pred |-> <<"refused", 1, Nobody>>]
    <2>1. RecoveredDb(OpenDb).head = Closed(Closed(OpenDb.head, "refused"), "recovery_required")
      BY DEF RecoveredDb, ClosedDb
    <2> QED
      BY <1>2, <2>1 DEF Closed, Digest
  <1>4. RecoveredDb(ClaimedDb(w)).head = [st |-> "recovery_required", rev |-> 3 + 1, worker |-> w,
                                          pred |-> <<"refused", 3, w>>]
    BY <1>1, <1>2
  <1>5. RecoveredDb(EnrolledDb(w)).head = [st |-> "recovery_required", rev |-> 6 + 1, worker |-> w,
                                           pred |-> <<"refused", 6, w>>]
    BY <1>1, <1>2
  <1> QED
    BY <1>3, <1>4, <1>5

\* Which shape a head belongs to can be read off its state and revision.
LEMMA ShapeByHead ==
    ASSUME NEW d \in Shapes
    PROVE  \/ /\ d.head.st = "invited" /\ d.head.rev = 0 /\ d.head.worker = Nobody
              /\ d = OpenDb
           \/ /\ d.head.st = "offer_transported" /\ d.head.rev = 2 /\ d.head.worker \in Workers
              /\ d = ClaimedDb(d.head.worker)
           \/ /\ d.head.st = "healthy" /\ d.head.rev = 5 /\ d.head.worker \in Workers
              /\ d = EnrolledDb(d.head.worker)
           \/ /\ d.head.st \in Terminal /\ d.head.rev = 1 /\ d.head.worker = Nobody
              /\ d = ClosedDb(OpenDb, d.head.st)
           \/ /\ d.head.st \in Terminal /\ d.head.rev = 3 /\ d.head.worker \in Workers
              /\ d = ClosedDb(ClaimedDb(d.head.worker), d.head.st)
           \/ /\ d.head.st \in Terminal /\ d.head.rev = 6 /\ d.head.worker \in Workers
              /\ d = ClosedDb(EnrolledDb(d.head.worker), d.head.st)
           \/ /\ d.head.st = "recovery_required" /\ d.head.rev = 2 /\ d.head.worker = Nobody
              /\ d = RecoveredDb(OpenDb)
           \/ /\ d.head.st = "recovery_required" /\ d.head.rev = 4 /\ d.head.worker \in Workers
              /\ d = RecoveredDb(ClaimedDb(d.head.worker))
           \/ /\ d.head.st = "recovery_required" /\ d.head.rev = 7 /\ d.head.worker \in Workers
              /\ d = RecoveredDb(EnrolledDb(d.head.worker))
  <1>1. CASE d = OpenDb
    BY <1>1 DEF OpenDb, Opened
  <1>2. CASE \E w \in Workers : d = ClaimedDb(w)
    <2> PICK w \in Workers : d = ClaimedDb(w)
      BY <1>2
    <2>1. d.head = OfferRow(w)
      BY DEF ClaimedDb
    <2>2. d.head.st = "offer_transported" /\ d.head.rev = 2 /\ d.head.worker = w
      BY <2>1, Rows
    <2> QED
      BY <2>2
  <1>3. CASE \E w \in Workers : d = EnrolledDb(w)
    <2> PICK w \in Workers : d = EnrolledDb(w)
      BY <1>3
    <2>1. d.head = HealthyRow(w)
      BY DEF EnrolledDb
    <2>2. d.head.st = "healthy" /\ d.head.rev = 5 /\ d.head.worker = w
      BY <2>1, Rows
    <2> QED
      BY <2>2
  <1>4. CASE \E target \in Terminal : d = ClosedDb(OpenDb, target)
    <2> PICK target \in Terminal : d = ClosedDb(OpenDb, target)
      BY <1>4
    <2>1. d.head = Closed(OpenDb.head, target)
      BY DEF ClosedDb
    <2>3. Closed(OpenDb.head, target) =
            [st |-> target, rev |-> 1, worker |-> Nobody, pred |-> <<"invited", 0, Nobody>>]
      BY ClosedRows
    <2>2. d.head.st = target /\ d.head.rev = 1 /\ d.head.worker = Nobody
      BY <2>1, <2>3
    <2> QED
      BY <2>2
  <1>5. CASE \E w \in Workers, target \in Terminal : d = ClosedDb(ClaimedDb(w), target)
    <2> PICK w \in Workers, target \in Terminal : d = ClosedDb(ClaimedDb(w), target)
      BY <1>5
    <2>1. d.head = Closed(ClaimedDb(w).head, target)
      BY DEF ClosedDb
    <2>3. Closed(ClaimedDb(w).head, target) =
            [st |-> target, rev |-> 3, worker |-> w, pred |-> <<"offer_transported", 2, w>>]
      BY ClosedRows
    <2>2. d.head.st = target /\ d.head.rev = 3 /\ d.head.worker = w
      BY <2>1, <2>3
    <2> QED
      BY <2>2
  <1>6. CASE \E w \in Workers, target \in Terminal : d = ClosedDb(EnrolledDb(w), target)
    <2> PICK w \in Workers, target \in Terminal : d = ClosedDb(EnrolledDb(w), target)
      BY <1>6
    <2>1. d.head = Closed(EnrolledDb(w).head, target)
      BY DEF ClosedDb
    <2>3. Closed(EnrolledDb(w).head, target) =
            [st |-> target, rev |-> 6, worker |-> w, pred |-> <<"healthy", 5, w>>]
      BY ClosedRows
    <2>2. d.head.st = target /\ d.head.rev = 6 /\ d.head.worker = w
      BY <2>1, <2>3
    <2> QED
      BY <2>2
  <1>7. CASE d = RecoveredDb(OpenDb)
    <2>1. RecoveredDb(OpenDb).head = [st |-> "recovery_required", rev |-> 2, worker |-> Nobody,
                                       pred |-> <<"refused", 1, Nobody>>]
      BY RecoveredRows
    <2>2. d.head.st = "recovery_required" /\ d.head.rev = 2 /\ d.head.worker = Nobody
      BY <1>7, <2>1
    <2> QED
      BY <1>7, <2>2
  <1>8. CASE \E w \in Workers : d = RecoveredDb(ClaimedDb(w))
    <2> PICK w \in Workers : d = RecoveredDb(ClaimedDb(w))
      BY <1>8
    <2>1. RecoveredDb(ClaimedDb(w)).head = [st |-> "recovery_required", rev |-> 4, worker |-> w,
                                       pred |-> <<"refused", 3, w>>]
      BY RecoveredRows
    <2>2. d.head.st = "recovery_required" /\ d.head.rev = 4 /\ d.head.worker = w
      BY <2>1
    <2> QED
      BY <2>2
  <1>9. CASE \E w \in Workers : d = RecoveredDb(EnrolledDb(w))
    <2> PICK w \in Workers : d = RecoveredDb(EnrolledDb(w))
      BY <1>9
    <2>1. RecoveredDb(EnrolledDb(w)).head = [st |-> "recovery_required", rev |-> 7, worker |-> w,
                                       pred |-> <<"refused", 6, w>>]
      BY RecoveredRows
    <2>2. d.head.st = "recovery_required" /\ d.head.rev = 7 /\ d.head.worker = w
      BY <2>1
    <2> QED
      BY <2>2
  <1> QED
    BY <1>1, <1>2, <1>3, <1>4, <1>5, <1>6, <1>7, <1>8, <1>9, ShapeCases

\* The digest of the head tells the shapes apart: what a transaction compared
\* and swapped is all it has read.
LEMMA DigestDetermines ==
    ASSUME NEW d \in Shapes, NEW e \in Shapes, Digest(d.head) = Digest(e.head)
    PROVE  d = e
  <1>1. d.head.st = e.head.st /\ d.head.rev = e.head.rev /\ d.head.worker = e.head.worker
    BY DEF Digest
  <1> QED
    BY <1>1, ShapeByHead DEF Terminal

-----------------------------------------------------------------------------
(* The service calls on the shapes *)

\* What a progression step that does not refuse has done: served a receipt, or
\* advanced a head of the state it may be taken from, in time.
LEMMA StepResult ==
    ASSUME NEW o, NEW step, NEW input, NEW target, NEW w, NEW late,
           Step(o, step, input, target, w, late).ok
    PROVE  /\ o.ok
           /\ \/ /\ Served(o.db, step, input)
                 /\ Step(o, step, input, target, w, late)
                       = [ok |-> TRUE, db |-> o.db, rev |-> ServedRevision(o.db, step, input)]
              \/ /\ ~Served(o.db, step, input)
                 /\ o.rev = o.db.head.rev /\ o.db.head.st = ADVANCE[target] /\ ~late
                 /\ Step(o, step, input, target, w, late)
                       = [ok  |-> TRUE,
                          db  |-> Record(o.db, Advanced(o.db.head, target, w), step, input),
                          rev |-> o.db.head.rev + 1]
  <1>1. CASE ~o.ok
    BY <1>1 DEF Step
  <1>2. CASE o.ok /\ Served(o.db, step, input)
    BY <1>2 DEF Step
  <1>3. CASE /\ o.ok /\ ~Served(o.db, step, input)
             /\ o.rev = o.db.head.rev /\ o.db.head.st = ADVANCE[target] /\ ~late
    <2>1. Advanced(o.db.head, target, w).rev = o.db.head.rev + 1
      BY DEF Advanced
    <2> QED
      BY <1>3, <2>1 DEF Step
  <1>4. CASE /\ o.ok /\ ~Served(o.db, step, input)
             /\ ~(o.rev = o.db.head.rev /\ o.db.head.st = ADVANCE[target] /\ ~late)
    <2>1. Step(o, step, input, target, w, late) = [ok |-> FALSE, db |-> o.db, rev |-> o.rev]
      BY <1>4 DEF Step
    <2> QED
      BY <2>1
  <1> QED
    BY <1>1, <1>2, <1>3, <1>4

\* A bind on an open enrollment claims it for the worker that asked.
LEMMA BindOpen ==
    ASSUME NEW w \in Workers, NEW late, FreshBind(OpenDb, w, late).ok
    PROVE  FreshBind(OpenDb, w, late).db = ClaimedDb(w)
  <1> DEFINE start == [ok |-> ~OpenDb.consumed, db |-> OpenDb, rev |-> BindRevision]
             bound == Step(start, "bind_worker_identity", w, "worker_bound", w, late)
             offered == Step(bound, "record_controller_offer", w, "offer_transported", w, late)
             d1 == [head |-> BoundRow(w), history |-> {Opened, BoundRow(w)}, consumed |-> FALSE,
                    offer |-> Nobody,
                    receipts |-> {[step |-> "bind_worker_identity", input |-> w, rev |-> 1]}]
             d2 == [head |-> OfferRow(w), history |-> {Opened, BoundRow(w), OfferRow(w)},
                    consumed |-> FALSE, offer |-> Nobody, receipts |-> BindReceipts(w)]
  <1>1. /\ FreshBind(OpenDb, w, late).ok = offered.ok
        /\ FreshBind(OpenDb, w, late).db = ConsumeAndPersist(offered.db, w)
    BY DEF FreshBind
  <1>2. offered.ok /\ bound.ok
    <2> HIDE DEF bound
    <2>1. offered.ok
      BY <1>1
    <2> QED
      BY <2>1, StepResult
  <1>4. bound = [ok |-> TRUE, db |-> d1, rev |-> 1]
    <2>1. start.db = OpenDb /\ OpenDb.head = Opened /\ Opened.rev = 0
      BY DEF Opened, OpenDb
    <2>2. ~Served(start.db, "bind_worker_identity", w)
      BY <2>1 DEF Served, OpenDb
    <2>3. bound = [ok |-> TRUE,
                   db |-> Record(OpenDb, Advanced(Opened, "worker_bound", w), "bind_worker_identity", w),
                   rev |-> 1]
      <3> HIDE DEF start
      <3> QED
        BY <1>2, <2>1, <2>2, StepResult
    <2>4. Record(OpenDb, Advanced(Opened, "worker_bound", w), "bind_worker_identity", w) = d1
      <3>1. Advanced(Opened, "worker_bound", w) = BoundRow(w) /\ BoundRow(w).rev = 1
        BY Rows DEF BoundRow
      <3> QED
        BY <3>1 DEF Record, OpenDb
    <2> HIDE DEF bound, d1
    <2> QED
      BY <2>3, <2>4
  <1>5. offered = [ok |-> TRUE, db |-> d2, rev |-> 2]
    <2>1. bound.db = d1 /\ d1.head = BoundRow(w) /\ BoundRow(w).rev = 1
      <3>1. bound.db = d1
        <4> HIDE DEF bound, d1
        <4> QED
          BY <1>4
      <3> QED
        BY <3>1, Rows
    <2>2. ~Served(bound.db, "record_controller_offer", w)
      <3> HIDE DEF bound
      <3> QED
        BY <2>1 DEF Served
    <2>3. offered = [ok |-> TRUE,
                     db |-> Record(d1, Advanced(BoundRow(w), "offer_transported", w),
                                   "record_controller_offer", w),
                     rev |-> 2]
      <3> HIDE DEF bound, d1
      <3> QED
        BY <1>2, <2>1, <2>2, StepResult
    <2>4. Record(d1, Advanced(BoundRow(w), "offer_transported", w),
                 "record_controller_offer", w) = d2
      <3>1. Advanced(BoundRow(w), "offer_transported", w) = OfferRow(w) /\ OfferRow(w).rev = 2
        BY Rows DEF OfferRow
      <3> QED
        BY <3>1 DEF Record, BindReceipts
    <2> HIDE DEF offered, d1, d2
    <2> QED
      BY <2>3, <2>4
  <1>6. ConsumeAndPersist(d2, w) = ClaimedDb(w)
    BY DEF ClaimedDb, ConsumeAndPersist
  <1>7. offered.db = d2
    <2> HIDE DEF offered, d2
    <2> QED
      BY <1>5
  <1> QED
    BY <1>1, <1>6, <1>7

\* A result on a claimed enrollment, from the worker it is bound to, enrols it.
LEMMA ResultClaimed ==
    ASSUME NEW w \in Workers, NEW late, ResultExchange(ClaimedDb(w), w, late).ok
    PROVE  ResultExchange(ClaimedDb(w), w, late).db = EnrolledDb(w)
  <1> DEFINE start == [ok |-> SignedByBoundWorker(ClaimedDb(w), w), db |-> ClaimedDb(w),
                       rev |-> ResultRevision]
             recorded == Step(start, "record_worker_result", w, "result_transported", w, late)
             verified == Step(recorded, "mark_verified", Nobody, "verified", w, late)
             done == Step(verified, "mark_healthy", Nobody, "healthy", w, late)
             r3 == [step |-> "record_worker_result", input |-> w, rev |-> 3]
             r4 == [step |-> "mark_verified", input |-> Nobody, rev |-> 4]
             d3 == [head |-> ResultRow(w),
                    history |-> {Opened, BoundRow(w), OfferRow(w), ResultRow(w)},
                    consumed |-> TRUE, offer |-> w, receipts |-> BindReceipts(w) \cup {r3}]
             d4 == [head |-> VerifiedRow(w),
                    history |-> {Opened, BoundRow(w), OfferRow(w), ResultRow(w), VerifiedRow(w)},
                    consumed |-> TRUE, offer |-> w, receipts |-> BindReceipts(w) \cup {r3, r4}]
  <1>0. ResultExchange(ClaimedDb(w), w, late) = done
    BY DEF ResultExchange
  <1>1. start.db = ClaimedDb(w)
    OBVIOUS
  <1>2. recorded.ok /\ verified.ok /\ done.ok
    <2>1. done.ok
      BY <1>0
    <2>2. verified.ok
      <3> HIDE DEF verified
      <3> QED
        BY <2>1, StepResult
    <2>3. recorded.ok
      <3> HIDE DEF recorded
      <3> QED
        BY <2>2, StepResult
    <2> QED
      BY <2>1, <2>2, <2>3
  <1>3. recorded = [ok |-> TRUE, db |-> d3, rev |-> 3]
    <2>1. start.db = ClaimedDb(w)
      BY <1>1
    <2>2. ClaimedDb(w).head = OfferRow(w) /\ OfferRow(w).rev = 2
      BY Rows DEF ClaimedDb
    <2>3. ~Served(start.db, "record_worker_result", w)
      <3> HIDE DEF start
      <3> QED
        BY <2>1 DEF Served, BindReceipts, ClaimedDb
    <2>4. recorded = [ok |-> TRUE,
                    db |-> Record(ClaimedDb(w), Advanced(OfferRow(w), "result_transported", w), "record_worker_result", w),
                    rev |-> 3]
      <3> HIDE DEF start
      <3> QED
        BY <1>2, <2>1, <2>2, <2>3, StepResult
    <2>5. Record(ClaimedDb(w), Advanced(OfferRow(w), "result_transported", w), "record_worker_result", w) = d3
      <3>1. Advanced(OfferRow(w), "result_transported", w) = ResultRow(w) /\ ResultRow(w).rev = 3
        BY Rows DEF ResultRow
      <3> QED
        BY <3>1 DEF Record, BindReceipts, ResultReceipts, ClaimedDb, EnrolledDb
    <2> HIDE DEF recorded, d3
    <2> QED
      BY <2>4, <2>5
  <1>4. verified = [ok |-> TRUE, db |-> d4, rev |-> 4]
    <2>1. recorded.db = d3
      <3> HIDE DEF recorded, d3
      <3> QED
        BY <1>3
    <2>2. d3.head = ResultRow(w) /\ ResultRow(w).rev = 3
      BY Rows
    <2>3. ~Served(recorded.db, "mark_verified", Nobody)
      <3> HIDE DEF recorded
      <3> QED
        BY <2>1 DEF Served, BindReceipts
    <2>4. verified = [ok |-> TRUE,
                    db |-> Record(d3, Advanced(ResultRow(w), "verified", w), "mark_verified", Nobody),
                    rev |-> 4]
      <3> HIDE DEF recorded, d3
      <3> QED
        BY <1>2, <2>1, <2>2, <2>3, StepResult
    <2>5. Record(d3, Advanced(ResultRow(w), "verified", w), "mark_verified", Nobody) = d4
      <3>1. Advanced(ResultRow(w), "verified", w) = VerifiedRow(w) /\ VerifiedRow(w).rev = 4
        BY Rows DEF VerifiedRow
      <3> QED
        BY <3>1 DEF Record, BindReceipts, ResultReceipts, ClaimedDb, EnrolledDb
    <2> HIDE DEF verified, d4
    <2> QED
      BY <2>4, <2>5
  <1>5. done = [ok |-> TRUE, db |-> EnrolledDb(w), rev |-> 5]
    <2>1. verified.db = d4
      <3> HIDE DEF verified, d4
      <3> QED
        BY <1>4
    <2>2. d4.head = VerifiedRow(w) /\ VerifiedRow(w).rev = 4
      BY Rows
    <2>3. ~Served(verified.db, "mark_healthy", Nobody)
      <3> HIDE DEF verified
      <3> QED
        BY <2>1 DEF Served, BindReceipts
    <2>4. done = [ok |-> TRUE,
                    db |-> Record(d4, Advanced(VerifiedRow(w), "healthy", w), "mark_healthy", Nobody),
                    rev |-> 5]
      <3> HIDE DEF verified, d4
      <3> QED
        BY <1>2, <2>1, <2>2, <2>3, StepResult
    <2>5. Record(d4, Advanced(VerifiedRow(w), "healthy", w), "mark_healthy", Nobody) = EnrolledDb(w)
      <3>1. Advanced(VerifiedRow(w), "healthy", w) = HealthyRow(w) /\ HealthyRow(w).rev = 5
        BY Rows DEF HealthyRow
      <3> QED
        BY <3>1 DEF Record, BindReceipts, ResultReceipts, ClaimedDb, EnrolledDb
    <2> HIDE DEF done
    <2> QED
      BY <2>4, <2>5
  <1> HIDE DEF done
  <1> QED
    BY <1>0, <1>5

\* An exact retry after the worker is enrolled is served from the receipts,
\* whatever has become of the enrollment since, and writes nothing.
LEMMA ResultReplayed ==
    ASSUME NEW w, NEW d, NEW late, d.receipts = BindReceipts(w) \cup ResultReceipts(w),
           ResultExchange(d, w, late).ok
    PROVE  ResultExchange(d, w, late).db = d
  <1> DEFINE start == [ok |-> SignedByBoundWorker(d, w), db |-> d, rev |-> ResultRevision]
             recorded == Step(start, "record_worker_result", w, "result_transported", w, late)
             verified == Step(recorded, "mark_verified", Nobody, "verified", w, late)
             done == Step(verified, "mark_healthy", Nobody, "healthy", w, late)
  <1>0. ResultExchange(d, w, late) = done
    BY DEF ResultExchange
  <1>1. /\ Served(d, "record_worker_result", w)
        /\ Served(d, "mark_verified", Nobody)
        /\ Served(d, "mark_healthy", Nobody)
    <2>1. /\ [step |-> "record_worker_result", input |-> w, rev |-> 3] \in d.receipts
          /\ [step |-> "mark_verified", input |-> Nobody, rev |-> 4] \in d.receipts
          /\ [step |-> "mark_healthy", input |-> Nobody, rev |-> 5] \in d.receipts
      BY DEF ResultReceipts
    <2>2. Served(d, "record_worker_result", w)
      BY <2>1 DEF Served
    <2>3. Served(d, "mark_verified", Nobody)
      BY <2>1 DEF Served
    <2>4. Served(d, "mark_healthy", Nobody)
      BY <2>1 DEF Served
    <2> QED
      BY <2>2, <2>3, <2>4
  <1>2. recorded.ok /\ verified.ok /\ done.ok
    <2>1. done.ok
      BY <1>0
    <2>2. verified.ok
      <3> HIDE DEF verified
      <3> QED
        BY <2>1, StepResult
    <2>3. recorded.ok
      <3> HIDE DEF recorded
      <3> QED
        BY <2>2, StepResult
    <2> QED
      BY <2>1, <2>2, <2>3
  <1>3. start.db = d
    OBVIOUS
  <1>4. recorded.db = d
    <2> HIDE DEF start
    <2> QED
      BY <1>1, <1>2, <1>3, StepResult
  <1>5. verified.db = d
    <2> HIDE DEF recorded
    <2> QED
      BY <1>1, <1>2, <1>4, StepResult
  <1>6. done.db = d
    <2> HIDE DEF verified
    <2> QED
      BY <1>1, <1>2, <1>5, StepResult
  <1> QED
    BY <1>0, <1>6

\* A result that comes after the enrollment was closed without one is refused.
LEMMA ResultTooLate ==
    ASSUME NEW w, NEW d, NEW late, d.receipts = BindReceipts(w), d.head.st \in Terminal
    PROVE  ~ResultExchange(d, w, late).ok
  <1> SUFFICES ASSUME ResultExchange(d, w, late).ok
               PROVE  FALSE
    OBVIOUS
  <1> DEFINE start == [ok |-> SignedByBoundWorker(d, w), db |-> d, rev |-> ResultRevision]
             recorded == Step(start, "record_worker_result", w, "result_transported", w, late)
             verified == Step(recorded, "mark_verified", Nobody, "verified", w, late)
             done == Step(verified, "mark_healthy", Nobody, "healthy", w, late)
  <1>0. ResultExchange(d, w, late) = done
    BY DEF ResultExchange
  <1>1. ~Served(d, "record_worker_result", w)
    BY DEF Served, BindReceipts
  <1>2. recorded.ok
    <2>1. done.ok
      BY <1>0
    <2>2. verified.ok
      <3> HIDE DEF verified
      <3> QED
        BY <2>1, StepResult
    <2> HIDE DEF recorded
    <2> QED
      BY <2>2, StepResult
  <1>3. start.db = d
    OBVIOUS
  <1>4. d.head.st = ADVANCE["result_transported"]
    <2> HIDE DEF start
    <2> QED
      BY <1>1, <1>2, <1>3, StepResult
  <1> QED
    BY <1>4 DEF ADVANCE, Terminal

\* The closed shapes keep the receipts, the offer and the worker.
LEMMA ClosedFields ==
    ASSUME NEW d, NEW target
    PROVE  /\ ClosedDb(d, target).receipts = d.receipts
           /\ ClosedDb(d, target).offer = d.offer
           /\ ClosedDb(d, target).consumed = d.consumed
           /\ ClosedDb(d, target).head = Closed(d.head, target)
           /\ ClosedDb(d, target).head.st = target
           /\ ClosedDb(d, target).head.worker = d.head.worker
           /\ ClosedDb(d, target).history = d.history \cup {Closed(d.head, target)}
  BY DEF ClosedDb, Closed

\* So do the recovered ones.
LEMMA RecoveredFields ==
    ASSUME NEW d
    PROVE  /\ RecoveredDb(d).receipts = d.receipts
           /\ RecoveredDb(d).offer = d.offer
           /\ RecoveredDb(d).head.st = "recovery_required"
           /\ RecoveredDb(d).head.worker = d.head.worker
  BY ClosedFields DEF RecoveredDb

\* The bind exchange on any shape: it claims an open enrollment or replays.
LEMMA BindOutcome ==
    ASSUME NEW d \in Shapes, NEW w \in Workers, NEW late, BindExchange(d, w, late).ok
    PROVE  \/ BindExchange(d, w, late).db = d
           \/ d = OpenDb /\ BindExchange(d, w, late).db = ClaimedDb(w)
  <1>1. CASE d.offer # Nobody
    BY <1>1 DEF BindExchange, ReplayBind
  <1>2. CASE d.offer = Nobody
    <2>0. BindExchange(d, w, late) = FreshBind(d, w, late)
      BY <1>2 DEF BindExchange
    <2>1. CASE d = OpenDb
      BY <2>0, <2>1, BindOpen
    <2>2. CASE d # OpenDb
      <3>1. \A v \in Workers : ClaimedDb(v).offer # Nobody /\ EnrolledDb(v).offer # Nobody
        BY EnrollmentAssumption DEF ClaimedDb, EnrolledDb
      <3>2. (\E target \in Terminal : d = ClosedDb(OpenDb, target)) \/ d = RecoveredDb(OpenDb)
        BY <1>2, <2>2, <3>1, ShapeCases, ClosedFields, RecoveredFields
      <3>3. d.receipts = {} /\ d.head.st \in Terminal
        BY <3>2, ClosedFields, RecoveredFields DEF OpenDb, Terminal
      <3> DEFINE start == [ok |-> ~d.consumed, db |-> d, rev |-> BindRevision]
                 bound == Step(start, "bind_worker_identity", w, "worker_bound", w, late)
                 offered == Step(bound, "record_controller_offer", w, "offer_transported", w, late)
      <3>4. FreshBind(d, w, late).ok = offered.ok
        BY DEF FreshBind
      <3>5. bound.ok
        <4> HIDE DEF bound
        <4> QED
          BY <2>0, <3>4, StepResult
      <3>6. ~Served(start.db, "bind_worker_identity", w) /\ start.db = d
        BY <3>3 DEF Served
      <3>7. d.head.st = ADVANCE["worker_bound"]
        <4> HIDE DEF start
        <4> QED
          BY <3>5, <3>6, StepResult
      <3> QED
        BY <3>3, <3>7 DEF ADVANCE, Terminal
    <2> QED
      BY <2>1, <2>2
  <1> QED
    BY <1>1, <1>2

\* The result exchange on any shape: it enrols the worker of a claimed
\* enrollment, or replays what an enrolled worker was told.
LEMMA ResultOutcome ==
    ASSUME NEW d \in Shapes, NEW w \in Workers, NEW late, ResultExchange(d, w, late).ok
    PROVE  \/ d = ClaimedDb(w) /\ ResultExchange(d, w, late).db = EnrolledDb(w)
           \/ /\ ResultExchange(d, w, late).db = d
              /\ d = EnrolledDb(w) \/ d.head.st \in Terminal
  <1>1. d.head.worker = w
    <2> DEFINE start == [ok |-> SignedByBoundWorker(d, w), db |-> d, rev |-> ResultRevision]
               recorded == Step(start, "record_worker_result", w, "result_transported", w, late)
               verified == Step(recorded, "mark_verified", Nobody, "verified", w, late)
               done == Step(verified, "mark_healthy", Nobody, "healthy", w, late)
    <2>1. ResultExchange(d, w, late) = done
      BY DEF ResultExchange
    <2>2. verified.ok
      <3> HIDE DEF verified
      <3> QED
        BY <2>1, StepResult
    <2>3. recorded.ok
      <3> HIDE DEF recorded
      <3> QED
        BY <2>2, StepResult
    <2>4. start.ok
      <3> HIDE DEF start
      <3> QED
        BY <2>3, StepResult
    <2> QED
      BY <2>4 DEF SignedByBoundWorker
  <1>2. w # Nobody
    BY EnrollmentAssumption
  <1>3. CASE d = ClaimedDb(w)
    BY <1>3, ResultClaimed
  <1>4. CASE d = EnrolledDb(w)
    <2>1. d.receipts = BindReceipts(w) \cup ResultReceipts(w)
      BY <1>4 DEF EnrolledDb
    <2> QED
      BY <1>4, <2>1, ResultReplayed
  <1>5. CASE d.head.st \in Terminal /\ d = ClosedDb(ClaimedDb(w), d.head.st)
    <2>1. d.receipts = BindReceipts(w)
      BY <1>5, ClosedFields DEF ClaimedDb
    <2> QED
      BY <1>5, <2>1, ResultTooLate
  <1>6. CASE d.head.st \in Terminal /\ d = ClosedDb(EnrolledDb(w), d.head.st)
    <2>1. d.receipts = BindReceipts(w) \cup ResultReceipts(w)
      BY <1>6, ClosedFields DEF EnrolledDb
    <2> QED
      BY <1>6, <2>1, ResultReplayed
  <1>7. CASE d = RecoveredDb(ClaimedDb(w))
    <2>1. d.receipts = BindReceipts(w) /\ d.head.st \in Terminal
      BY <1>7, RecoveredFields DEF ClaimedDb, Terminal
    <2> QED
      BY <2>1, ResultTooLate
  <1>8. CASE d = RecoveredDb(EnrolledDb(w))
    <2>1. d.receipts = BindReceipts(w) \cup ResultReceipts(w) /\ d.head.st \in Terminal
      BY <1>8, RecoveredFields DEF EnrolledDb, Terminal
    <2> QED
      BY <2>1, ResultReplayed
  <1> QED
    BY <1>1, <1>2, <1>3, <1>4, <1>5, <1>6, <1>7, <1>8, ShapeByHead

\* Closing adds one row to the rows it has read and touches nothing else.
LEMMA CloseResult ==
    ASSUME NEW d, NEW target, NEW allowed
    PROVE  /\ CloseTo(d, target, allowed).ok = allowed
           /\ CloseTo(d, target, allowed).db = ClosedDb(d, target)
  BY DEF CloseTo, ClosedDb

\* A shape whose head is not closed is live.
LEMMA NotClosedIsLive ==
    ASSUME NEW d \in Shapes, d.head.st \notin Terminal
    PROVE  d \in LiveDbs
  BY ShapeByHead DEF LiveDbs, Terminal

\* A refused shape is a live one that was closed once.
LEMMA RefusedIsClosed ==
    ASSUME NEW d \in Shapes, d.head.st = "refused"
    PROVE  \E e \in LiveDbs : d = ClosedDb(e, "refused")
  <1>1. \/ d = ClosedDb(OpenDb, "refused")
        \/ \E w \in Workers : d = ClosedDb(ClaimedDb(w), "refused")
        \/ \E w \in Workers : d = ClosedDb(EnrolledDb(w), "refused")
    BY ShapeByHead
  <1> QED
    BY <1>1 DEF LiveDbs

\* Everything a transaction that was not refused can do to the rows it read.
LEMMA OutcomeCases ==
    ASSUME NEW x, x.snap \in Shapes,
           x.kind \in TxKinds \ {"none", "selected"},
           x.kind \in {"bind", "result"} => x.who \in Workers,
           Outcome(x).ok
    PROVE  \/ x.kind = "bind" /\ Outcome(x).db = x.snap
           \/ /\ x.kind = "result" /\ Outcome(x).db = x.snap
              /\ x.snap = EnrolledDb(x.who) \/ x.snap.head.st \in Terminal
           \/ x.kind = "bind" /\ x.snap = OpenDb /\ Outcome(x).db = ClaimedDb(x.who)
           \/ x.kind = "result" /\ x.snap = ClaimedDb(x.who) /\ Outcome(x).db = EnrolledDb(x.who)
           \/ /\ x.kind \notin {"bind", "result"} /\ x.snap \in LiveDbs
              /\ \E target \in Terminal : Outcome(x).db = ClosedDb(x.snap, target)
           \/ /\ x.kind \notin {"bind", "result"}
              /\ \E e \in LiveDbs : x.snap = ClosedDb(e, "refused")
              /\ Outcome(x).db = ClosedDb(x.snap, "recovery_required")
  <1>1. CASE x.kind = "bind"
    <2>1. Outcome(x) = BindExchange(x.snap, x.who, x.late)
      BY <1>1 DEF Outcome
    <2> QED
      BY <1>1, <2>1, BindOutcome
  <1>2. CASE x.kind = "result"
    <2>1. Outcome(x) = ResultExchange(x.snap, x.who, x.late)
      BY <1>2 DEF Outcome
    <2> QED
      BY <1>2, <2>1, ResultOutcome
  <1>3. CASE x.kind = "revoke"
    <2>1. Outcome(x) = CloseTo(x.snap, "refused", Closeable(x))
      BY <1>3 DEF Outcome
    <2>2. Closeable(x) /\ Outcome(x).db = ClosedDb(x.snap, "refused")
      BY <2>1, CloseResult
    <2> QED
      BY <1>3, <2>2, NotClosedIsLive DEF Terminal, Closeable
  <1>4. CASE x.kind = "recover"
    <2>1. Outcome(x) = CloseTo(x.snap, "recovery_required", Recoverable(x))
      BY <1>4 DEF Outcome
    <2>2. Recoverable(x) /\ Outcome(x).db = ClosedDb(x.snap, "recovery_required")
      BY <2>1, CloseResult
    <2>3. x.snap \in LiveDbs \/ \E e \in LiveDbs : x.snap = ClosedDb(e, "refused")
      BY <2>2, NotClosedIsLive, RefusedIsClosed DEF Terminal, Recoverable
    <2> QED
      BY <1>4, <2>2, <2>3 DEF Terminal
  <1>5. CASE x.kind = "sweep"
    <2>1. Outcome(x) = CloseTo(x.snap, "recovery_required", Sweepable(x))
      BY <1>5 DEF Outcome
    <2>2. Sweepable(x) /\ Outcome(x).db = ClosedDb(x.snap, "recovery_required")
      BY <2>1, CloseResult
    <2>3. x.snap.head.st \notin Terminal
      BY <2>2 DEF Sweepable, ACTIVE, Terminal
    <2> QED
      BY <1>5, <2>2, <2>3, NotClosedIsLive DEF Terminal
  <1> QED
    BY <1>1, <1>2, <1>3, <1>4, <1>5 DEF TxKinds

-----------------------------------------------------------------------------
(* The shapes are rows of the right type, and a commit only ever grows them *)

\* Each row is a State, each receipt a Receipt.
LEMMA RowTypes ==
    ASSUME NEW w \in Workers, NEW target \in Terminal
    PROVE  /\ {Opened, BoundRow(w), OfferRow(w), ResultRow(w), VerifiedRow(w), HealthyRow(w)}
                 \subseteq State
           /\ Closed(OpenDb.head, target) \in State
           /\ Closed(ClaimedDb(w).head, target) \in State
           /\ Closed(EnrolledDb(w).head, target) \in State
           /\ RecoveredDb(ClaimedDb(w)).head \in State
           /\ RecoveredDb(EnrolledDb(w)).head \in State
           /\ BindReceipts(w) \subseteq Receipt
           /\ ResultReceipts(w) \subseteq Receipt
  <1>1. w \in Parties /\ Nobody \in Parties
    BY DEF Parties
  <1>2. /\ 0 \in Revisions /\ 1 \in Revisions /\ 2 \in Revisions /\ 3 \in Revisions
        /\ 4 \in Revisions /\ 5 \in Revisions /\ 6 \in Revisions /\ 7 \in Revisions
    BY DEF Revisions
  <1>3. /\ Opened \in State /\ BoundRow(w) \in State /\ OfferRow(w) \in State
        /\ ResultRow(w) \in State /\ VerifiedRow(w) \in State /\ HealthyRow(w) \in State
    BY <1>1, <1>2, Rows DEF State, States, ACTIVE, NoDigest
  <1>4. /\ Closed(OpenDb.head, target) \in State
        /\ Closed(ClaimedDb(w).head, target) \in State
        /\ Closed(EnrolledDb(w).head, target) \in State
    <2>1. target \in States
      BY DEF States
    <2>2. Closed(OpenDb.head, target) =
            [st |-> target, rev |-> 1, worker |-> Nobody, pred |-> <<"invited", 0, Nobody>>]
      BY ClosedRows
    <2>3. Closed(ClaimedDb(w).head, target) =
            [st |-> target, rev |-> 3, worker |-> w, pred |-> <<"offer_transported", 2, w>>]
      BY ClosedRows
    <2>4. Closed(EnrolledDb(w).head, target) =
            [st |-> target, rev |-> 6, worker |-> w, pred |-> <<"healthy", 5, w>>]
      BY ClosedRows
    <2>5. {"invited", "offer_transported", "healthy"} \subseteq States
      BY DEF States, ACTIVE
    <2> QED
      BY <1>1, <1>2, <2>1, <2>2, <2>3, <2>4, <2>5 DEF State
  <1>5. BindReceipts(w) \subseteq Receipt /\ ResultReceipts(w) \subseteq Receipt
    BY <1>1, <1>2 DEF BindReceipts, ResultReceipts, Receipt, Steps
  <1>6. RecoveredDb(ClaimedDb(w)).head \in State /\ RecoveredDb(EnrolledDb(w)).head \in State
    <2>1. {"refused", "recovery_required"} \subseteq States
      BY DEF States, Terminal
    <2>2. RecoveredDb(ClaimedDb(w)).head = [st |-> "recovery_required", rev |-> 4, worker |-> w,
                                       pred |-> <<"refused", 3, w>>]
      BY RecoveredRows
    <2>3. RecoveredDb(EnrolledDb(w)).head = [st |-> "recovery_required", rev |-> 7, worker |-> w,
                                       pred |-> <<"refused", 6, w>>]
      BY RecoveredRows
    <2> QED
      BY <1>1, <1>2, <2>1, <2>2, <2>3 DEF State
  <1> QED
    BY <1>3, <1>4, <1>5, <1>6

\* Every shape is well typed.
LEMMA ShapesAreDbs == Shapes \subseteq Db
  <1> SUFFICES ASSUME NEW d \in Shapes
               PROVE  d \in Db
    OBVIOUS
  <1>1. OpenDb \in Db
    <2>1. Opened \in State
      BY DEF Opened, State, States, ACTIVE, Revisions, Parties, NoDigest
    <2> QED
      BY <2>1 DEF OpenDb, Db, Parties
  <1>2. ASSUME NEW w \in Workers
        PROVE  ClaimedDb(w) \in Db /\ EnrolledDb(w) \in Db
    <2>1. "refused" \in Terminal
      BY DEF Terminal
    <2>2. ClaimedDb(w) \in Db
      BY <2>1, RowTypes DEF ClaimedDb, Db, Parties
    <2>3. EnrolledDb(w) \in Db
      BY <2>1, RowTypes DEF EnrolledDb, Db, Parties
    <2> QED
      BY <2>2, <2>3
  <1>3. ASSUME NEW e \in Db, NEW target \in Terminal, Closed(e.head, target) \in State
        PROVE  ClosedDb(e, target) \in Db
    BY <1>3 DEF ClosedDb, Db
  <1>4. ASSUME NEW target \in Terminal
        PROVE  Closed(OpenDb.head, target) \in State
    <2>1. Closed(OpenDb.head, target) =
            [st |-> target, rev |-> 1, worker |-> Nobody, pred |-> <<"invited", 0, Nobody>>]
      BY ClosedRows
    <2> QED
      BY <2>1 DEF State, States, ACTIVE, Revisions, Parties
  <1>5. ASSUME NEW target \in Terminal
        PROVE  ClosedDb(OpenDb, target) \in Db
    BY <1>1, <1>3, <1>4
  <1>6. ASSUME NEW w \in Workers, NEW target \in Terminal
        PROVE  ClosedDb(ClaimedDb(w), target) \in Db /\ ClosedDb(EnrolledDb(w), target) \in Db
    BY <1>2, <1>3, RowTypes
  <1>7. ASSUME NEW e, ClosedDb(e, "refused") \in Db, RecoveredDb(e).head \in State
        PROVE  RecoveredDb(e) \in Db
    <2>1. Closed(ClosedDb(e, "refused").head, "recovery_required") \in State
      BY <1>7, ClosedFields DEF RecoveredDb
    <2> QED
      BY <1>3, <1>7, <2>1 DEF RecoveredDb, Terminal
  <1>8. RecoveredDb(OpenDb) \in Db
    <2>0. RecoveredDb(OpenDb).head = [st |-> "recovery_required", rev |-> 2, worker |-> Nobody,
                                       pred |-> <<"refused", 1, Nobody>>]
      BY RecoveredRows
    <2>1. RecoveredDb(OpenDb).head \in State
      BY <2>0 DEF State, States, ACTIVE, Terminal, Revisions, Parties
    <2> QED
      BY <1>5, <1>7, <2>1 DEF Terminal
  <1>9. ASSUME NEW w \in Workers
        PROVE  RecoveredDb(ClaimedDb(w)) \in Db /\ RecoveredDb(EnrolledDb(w)) \in Db
    <2>1. "refused" \in Terminal
      BY DEF Terminal
    <2> QED
      BY <1>6, <1>7, <2>1, RowTypes
  <1> QED
    BY <1>1, <1>2, <1>5, <1>6, <1>8, <1>9, ShapeCases

\* Claiming, enrolling and closing keep every row already there.
LEMMA ShapesGrow ==
    ASSUME NEW w \in Workers, NEW d, NEW target
    PROVE  /\ OpenDb.history \subseteq ClaimedDb(w).history
           /\ OpenDb.receipts \subseteq ClaimedDb(w).receipts
           /\ OpenDb.consumed => ClaimedDb(w).consumed
           /\ ClaimedDb(w).history \subseteq EnrolledDb(w).history
           /\ ClaimedDb(w).receipts \subseteq EnrolledDb(w).receipts
           /\ ClaimedDb(w).consumed => EnrolledDb(w).consumed
           /\ d.history \subseteq ClosedDb(d, target).history
           /\ d.receipts \subseteq ClosedDb(d, target).receipts
           /\ d.consumed => ClosedDb(d, target).consumed
  BY DEF OpenDb, ClaimedDb, EnrolledDb, ClosedDb

\* What a transaction that was not refused leaves is a shape that has grown.
LEMMA OutcomeGrows ==
    ASSUME NEW x, x.snap \in Shapes,
           x.kind \in TxKinds \ {"none", "selected"},
           x.kind \in {"bind", "result"} => x.who \in Workers,
           Outcome(x).ok
    PROVE  /\ Outcome(x).db \in Shapes
           /\ x.snap.history \subseteq Outcome(x).db.history
           /\ x.snap.receipts \subseteq Outcome(x).db.receipts
           /\ x.snap.consumed => Outcome(x).db.consumed
  <1>1. CASE Outcome(x).db = x.snap
    BY <1>1
  <1>2. CASE x.kind = "bind" /\ x.snap = OpenDb /\ Outcome(x).db = ClaimedDb(x.who)
    BY <1>2, ShapesGrow DEF Shapes, LiveDbs
  <1>3. CASE x.kind = "result" /\ x.snap = ClaimedDb(x.who) /\ Outcome(x).db = EnrolledDb(x.who)
    BY <1>3, ShapesGrow DEF Shapes, LiveDbs
  <1>4. CASE /\ x.kind \notin {"bind", "result"} /\ x.snap \in LiveDbs
             /\ \E target \in Terminal : Outcome(x).db = ClosedDb(x.snap, target)
    <2>1. PICK target \in Terminal : Outcome(x).db = ClosedDb(x.snap, target)
      BY <1>4
    <2>2. Outcome(x).db \in Shapes
      BY <1>4, <2>1 DEF Shapes, ClosedDbs
    <2>3. /\ x.snap.history \subseteq ClosedDb(x.snap, target).history
          /\ x.snap.receipts \subseteq ClosedDb(x.snap, target).receipts
          /\ x.snap.consumed => ClosedDb(x.snap, target).consumed
      BY DEF ClosedDb
    <2> QED
      BY <2>1, <2>2, <2>3
  <1>5. CASE /\ x.kind \notin {"bind", "result"}
             /\ \E e \in LiveDbs : x.snap = ClosedDb(e, "refused")
             /\ Outcome(x).db = ClosedDb(x.snap, "recovery_required")
    <2>1. PICK e \in LiveDbs : x.snap = ClosedDb(e, "refused")
      BY <1>5
    <2>2. Outcome(x).db \in Shapes
      BY <1>5, <2>1 DEF Shapes, RecoveredDbs, RecoveredDb
    <2> QED
      BY <1>5, <2>2, ClosedFields
  <1> QED
    BY <1>1, <1>2, <1>3, <1>4, <1>5, OutcomeCases

\* A transaction that writes and gets past the compare-and-swap acted on the
\* rows as they are now: what it leaves is what it computed.
LEMMA WrittenIsOutcome ==
    ASSUME NEW x, db \in Shapes, x.snap \in Shapes,
           x.kind \in TxKinds \ {"none", "selected"},
           x.kind \in {"bind", "result"} => x.who \in Workers,
           Outcome(x).ok, Outcome(x).db # x.snap, Commits(x, Outcome(x))
    PROVE  db = x.snap /\ Written(x, Outcome(x)) = Outcome(x).db
  <1> DEFINE out == Outcome(x)
             d == out.db
  <1>1. /\ d \in Shapes
        /\ x.snap.history \subseteq d.history
        /\ x.snap.receipts \subseteq d.receipts
        /\ x.snap.consumed => d.consumed
    BY OutcomeGrows
  <1>2. db = x.snap
    <2>1. Digest(db.head) = Digest(x.snap.head)
      BY DEF Commits
    <2> QED
      BY <2>1, DigestDetermines
  <1>3. d \in Db /\ db \in Db
    BY <1>1, ShapesAreDbs
  <1> HIDE DEF out
  <1>4. Written(x, out) =
          [head |-> d.head,
           history |-> db.history \cup (d.history \ db.history),
           consumed |-> db.consumed \/ d.consumed,
           offer |-> IF d.offer # db.offer THEN d.offer ELSE db.offer,
           receipts |-> db.receipts \cup (d.receipts \ db.receipts)]
    BY <1>2 DEF Written, out
  <1>5. /\ db.history \cup (d.history \ db.history) = d.history
        /\ db.receipts \cup (d.receipts \ db.receipts) = d.receipts
        /\ (IF d.offer # db.offer THEN d.offer ELSE db.offer) = d.offer
    BY <1>1, <1>2
  <1>6. (db.consumed \/ d.consumed) = d.consumed
    <2>1. db.consumed \in BOOLEAN /\ d.consumed \in BOOLEAN
      BY <1>3 DEF Db
    <2> QED
      BY <1>1, <1>2, <2>1
  <1>7. d = [head |-> d.head, history |-> d.history, consumed |-> d.consumed,
             offer |-> d.offer, receipts |-> d.receipts]
    <2> HIDE DEF d
    <2> QED
      BY <1>3 DEF Db
  <1>8. Written(x, out) = d
    <2> HIDE DEF d
    <2> QED
      BY <1>4, <1>5, <1>6, <1>7
  <1> QED
    BY <1>2, <1>8 DEF out

-----------------------------------------------------------------------------
(* What the shapes say of the rows *)

\* The live shapes have a contiguous, chained history that ends in the head.
LEMMA LiveConsistent ==
    ASSUME NEW d \in LiveDbs
    PROVE  HistoryConsistent(d) /\ d.head.rev \in Nat
  <1>1. CASE d = OpenDb
    BY <1>1 DEF OpenDb, HistoryConsistent, Opened
  <1>2. CASE \E w \in Workers : d = ClaimedDb(w)
    <2> PICK w \in Workers : d = ClaimedDb(w)
      BY <1>2
    <2>1. d.head = OfferRow(w) /\ d.history = {Opened, BoundRow(w), OfferRow(w)}
      BY DEF ClaimedDb
    <2>2. {r.rev : r \in d.history} = 0..d.head.rev
      BY <2>1, Rows
    <2>3. \A r, q \in d.history : r.rev = q.rev => r = q
      BY <2>1, Rows
    <2>4. \A r \in d.history : r.rev = 0 => r.pred = NoDigest
      BY <2>1, Rows
    <2>5. \A r, q \in d.history : q.rev = r.rev + 1 => q.pred = Digest(r)
      BY <2>1, Rows DEF Digest
    <2> QED
      BY <2>1, <2>2, <2>3, <2>4, <2>5, Rows DEF HistoryConsistent
  <1>3. CASE \E w \in Workers : d = EnrolledDb(w)
    <2> PICK w \in Workers : d = EnrolledDb(w)
      BY <1>3
    <2>1. /\ d.head = HealthyRow(w)
          /\ d.history = {Opened, BoundRow(w), OfferRow(w), ResultRow(w), VerifiedRow(w), HealthyRow(w)}
      BY DEF EnrolledDb
    <2>2. {r.rev : r \in d.history} = 0..d.head.rev
      BY <2>1, Rows
    <2>3. \A r, q \in d.history : r.rev = q.rev => r = q
      BY <2>1, Rows
    <2>4. \A r \in d.history : r.rev = 0 => r.pred = NoDigest
      BY <2>1, Rows
    <2>5. \A r, q \in d.history : q.rev = r.rev + 1 => q.pred = Digest(r)
      BY <2>1, Rows DEF Digest
    <2> QED
      BY <2>1, <2>2, <2>3, <2>4, <2>5, Rows DEF HistoryConsistent
  <1> QED
    BY <1>1, <1>2, <1>3 DEF LiveDbs

\* Closing keeps the history contiguous and chained.
LEMMA ClosedConsistent ==
    ASSUME NEW e, NEW target, HistoryConsistent(e), e.head.rev \in Nat
    PROVE  HistoryConsistent(ClosedDb(e, target)) /\ ClosedDb(e, target).head.rev \in Nat
  <1> DEFINE d == ClosedDb(e, target)
             s == Closed(e.head, target)
  <1>0. \A r \in e.history : r.rev \in 0..e.head.rev
    BY DEF HistoryConsistent
  <1>1. d.head = s /\ d.history = e.history \cup {s}
    BY DEF ClosedDb
  <1>2. s.rev = e.head.rev + 1 /\ s.pred = Digest(e.head)
    BY DEF Closed
  <1> HIDE DEF s, d
  <1>3. \A r \in e.history : r.rev # s.rev /\ r.rev # s.rev + 1 /\ r.rev \in Nat
    BY <1>0, <1>2
  <1>4. {r.rev : r \in d.history} = 0..s.rev
    <2>1. {r.rev : r \in d.history} = {r.rev : r \in e.history} \cup {s.rev}
      BY <1>1
    <2>2. {r.rev : r \in e.history} = 0..e.head.rev
      BY <1>0 DEF HistoryConsistent
    <2>3. (0..e.head.rev) \cup {s.rev} = 0..s.rev
      BY <1>0, <1>2
    <2> QED
      BY <2>1, <2>2, <2>3
  <1>5. \A r, q \in d.history : r.rev = q.rev => r = q
    BY <1>0, <1>1, <1>3 DEF HistoryConsistent
  <1>6. \A r \in d.history : r.rev = 0 => r.pred = NoDigest
    BY <1>0, <1>1, <1>2 DEF HistoryConsistent
  <1>7. \A r, q \in d.history : q.rev = r.rev + 1 => q.pred = Digest(r)
    <2> TAKE r, q \in d.history
    <2> HAVE q.rev = r.rev + 1
    <2>1. CASE q = s
      <3>1. r.rev = e.head.rev
        BY <2>1, <1>0, <1>1, <1>2, <1>3
      <3>2. r \in e.history /\ e.head \in e.history
        BY <2>1, <3>1, <1>0, <1>1, <1>2 DEF HistoryConsistent
      <3>3. r = e.head
        BY <3>1, <3>2, <1>0 DEF HistoryConsistent
      <3> QED
        BY <2>1, <3>3, <1>2
    <2>2. CASE q \in e.history /\ r \in e.history
      BY <2>2, <1>0 DEF HistoryConsistent
    <2>3. CASE q \in e.history /\ r = s
      BY <2>3, <1>3
    <2> QED
      BY <1>1, <2>1, <2>2, <2>3
  <1> QED
    BY <1>1, <1>2, <1>4, <1>5, <1>6, <1>7 DEF HistoryConsistent, d

\* In every shape the history is what verify_history_consistent demands.
LEMMA ShapesConsistent ==
    ASSUME NEW d \in Shapes
    PROVE  HistoryConsistent(d)
  BY LiveConsistent, ClosedConsistent DEF Shapes, ClosedDbs, RecoveredDbs, RecoveredDb

\* In every shape the nonce, the offer and the rows name one worker, or none.
LEMMA ShapesSingleUse ==
    ASSUME NEW d \in Shapes
    PROVE  /\ d.consumed <=> d.head.worker # Nobody
           /\ d.offer = d.head.worker
           /\ \A r \in d.history : r.worker \in {Nobody, d.head.worker}
  <1> DEFINE P(e) == /\ e.consumed <=> e.head.worker # Nobody
                     /\ e.offer = e.head.worker
                     /\ \A r \in e.history : r.worker \in {Nobody, e.head.worker}
  <1>1. P(OpenDb)
    BY DEF OpenDb, Opened
  <1>2. ASSUME NEW w \in Workers
        PROVE  P(ClaimedDb(w))
    BY EnrollmentAssumption, Rows DEF ClaimedDb
  <1>3. ASSUME NEW w \in Workers
        PROVE  P(EnrolledDb(w))
    BY EnrollmentAssumption, Rows DEF EnrolledDb
  <1>4. ASSUME NEW e, NEW target, P(e)
        PROVE  P(ClosedDb(e, target))
    <2>1. Closed(e.head, target).worker = e.head.worker
      BY DEF Closed
    <2> QED
      BY <1>4, <2>1, ClosedFields
  <1> HIDE DEF P
  <1>5. P(d)
    BY <1>1, <1>2, <1>3, <1>4, ShapeCases DEF RecoveredDb
  <1> QED
    BY <1>5 DEF P

\* In every shape each receipt names the row of its own step, and each row of a
\* step has its receipt.
LEMMA ShapesTruthful ==
    ASSUME NEW d \in Shapes
    PROVE  /\ \A c \in d.receipts : \E r \in d.history :
                 r.rev = c.rev /\ r.st = StepOf[c.step] /\ c.input \in {Nobody, r.worker}
           /\ \A r \in d.history : \A step \in Steps :
                 r.st = StepOf[step] => \E c \in d.receipts : c.step = step /\ c.rev = r.rev
  <1> DEFINE Row(e, c) == \E r \in e.history :
                             r.rev = c.rev /\ r.st = StepOf[c.step] /\ c.input \in {Nobody, r.worker}
             Rec(e, r) == \A step \in Steps :
                             r.st = StepOf[step] => \E c \in e.receipts : c.step = step /\ c.rev = r.rev
             P(e) == (\A c \in e.receipts : Row(e, c)) /\ (\A r \in e.history : Rec(e, r))
  <1>0. /\ StepOf["bind_worker_identity"] = "worker_bound"
        /\ StepOf["record_controller_offer"] = "offer_transported"
        /\ StepOf["record_worker_result"] = "result_transported"
        /\ StepOf["mark_verified"] = "verified"
        /\ StepOf["mark_healthy"] = "healthy"
    BY DEF StepOf
  <1>1. P(OpenDb)
    BY <1>0 DEF OpenDb, Opened, Steps
  <1>2. ASSUME NEW w \in Workers
        PROVE  P(ClaimedDb(w))
    <2> DEFINE h == ClaimedDb(w).history
               c1 == [step |-> "bind_worker_identity", input |-> w, rev |-> 1]
               c2 == [step |-> "record_controller_offer", input |-> w, rev |-> 2]
    <2>1. /\ h = {Opened, BoundRow(w), OfferRow(w)}
          /\ ClaimedDb(w).receipts = {c1, c2}
      BY DEF ClaimedDb, BindReceipts
    <2>2. Row(ClaimedDb(w), c1)
      BY <1>0, <2>1, Rows
    <2>3. Row(ClaimedDb(w), c2)
      BY <1>0, <2>1, Rows
    <2>4. \A r \in h : Rec(ClaimedDb(w), r)
      BY <1>0, <2>1, Rows DEF Steps
    <2> QED
      BY <2>1, <2>2, <2>3, <2>4
  <1>3. ASSUME NEW w \in Workers
        PROVE  P(EnrolledDb(w))
    <2> DEFINE h == EnrolledDb(w).history
               c1 == [step |-> "bind_worker_identity", input |-> w, rev |-> 1]
               c2 == [step |-> "record_controller_offer", input |-> w, rev |-> 2]
               c3 == [step |-> "record_worker_result", input |-> w, rev |-> 3]
               c4 == [step |-> "mark_verified", input |-> Nobody, rev |-> 4]
               c5 == [step |-> "mark_healthy", input |-> Nobody, rev |-> 5]
    <2>1. /\ h = {Opened, BoundRow(w), OfferRow(w), ResultRow(w), VerifiedRow(w), HealthyRow(w)}
          /\ EnrolledDb(w).receipts = {c1, c2, c3, c4, c5}
      BY DEF EnrolledDb, BindReceipts, ResultReceipts
    <2>2. Row(EnrolledDb(w), c1) /\ Row(EnrolledDb(w), c2) /\ Row(EnrolledDb(w), c3)
      BY <1>0, <2>1, Rows
    <2>3. Row(EnrolledDb(w), c4) /\ Row(EnrolledDb(w), c5)
      BY <1>0, <2>1, Rows
    <2>4. \A r \in h : Rec(EnrolledDb(w), r)
      BY <1>0, <2>1, Rows DEF Steps
    <2> QED
      BY <2>1, <2>2, <2>3, <2>4
  <1>4. ASSUME NEW e, NEW target \in Terminal, P(e)
        PROVE  P(ClosedDb(e, target))
    <2>1. /\ ClosedDb(e, target).receipts = e.receipts
          /\ ClosedDb(e, target).history = e.history \cup {Closed(e.head, target)}
      BY ClosedFields
    <2>2. Closed(e.head, target).st \in Terminal
      BY DEF Closed
    <2>3. Rec(ClosedDb(e, target), Closed(e.head, target))
      BY <1>0, <2>2 DEF Steps, Terminal
    <2> QED
      BY <1>4, <2>1, <2>3
  <1>5. P(d)
    <2> HIDE DEF P
    <2> QED
      BY <1>1, <1>2, <1>3, <1>4, ShapeCases DEF RecoveredDb, Terminal
  <1> QED
    BY <1>5

-----------------------------------------------------------------------------
(* The inductive invariant *)

\* The invariant holds when the enrollment is opened.
LEMMA InitIInv == Init => IInv
  <1> SUFFICES ASSUME Init
               PROVE  IInv
    OBVIOUS
  <1>1. db = OpenDb /\ db \in Shapes
    BY DEF Init, Shapes, LiveDbs
  <1>2. NoTx \in Tx /\ IdleDriver \in Driver
    <2>1. OpenDb \in Db
      BY <1>1, ShapesAreDbs
    <2> QED
      BY <2>1 DEF NoTx, Tx, TxKinds, Parties, IdleDriver, Driver, DriverPcs
  <1>3. TypeOK
    BY <1>1, <1>2, ShapesAreDbs DEF Init, TypeOK
  <1>4. TxOK
    BY DEF Init, TxOK, NoTx
  <1>5. DriversOK
    BY DEF Init, DriversOK, IdleDriver
  <1>6. OwnedBeforeHealthy
    BY <1>1 DEF OwnedBeforeHealthy, OpenDb, Opened
  <1>7. HealthyIsAgreed
    BY DEF Init, HealthyIsAgreed, IdleDriver
  <1> QED
    BY <1>1, <1>3, <1>4, <1>5, <1>6, <1>7 DEF IInv

\* A request or a sweep that reads the rows as they are keeps the invariant.
LEMMA OpenKeepsIInv ==
    ASSUME IInv, NEW t \in Slots, NEW x \in Tx, x.snap = db,
           x.kind \in TxKinds \ {"none", "selected"},
           x.kind \in {"bind", "result"} => x.who \in Workers,
           x.kind = "result" => "result" \in sent[x.who],
           Open(t, x),
           UNCHANGED <<db, expired, rotated, sent, drv, owned, marker>>
    PROVE  IInv'
  <1>1. tx \in [Slots -> Tx] /\ tx' = [tx EXCEPT ![t] = x] /\ Outcome(x).ok
    BY DEF IInv, TypeOK, Open
  <1>2. TypeOK'
    BY <1>1 DEF IInv, TypeOK
  <1>3. TxOK'
    <2> SUFFICES ASSUME NEW u \in Slots, tx'[u].kind \notin {"none", "selected"}
                 PROVE  /\ tx'[u].snap \in Shapes
                        /\ tx'[u].snap.history \subseteq db'.history
                        /\ Outcome(tx'[u]).ok
                        /\ tx'[u].kind \in {"bind", "result"} => tx'[u].who \in Workers
                        /\ tx'[u].kind = "result" => "result" \in sent'[tx'[u].who]
      BY DEF TxOK
    <2>1. CASE u = t
      <3>1. tx'[u] = x
        BY <1>1, <2>1
      <3> QED
        BY <1>1, <3>1 DEF IInv
    <2>2. CASE u # t
      <3>1. tx'[u] = tx[u]
        BY <1>1, <2>2
      <3> QED
        BY <3>1 DEF IInv, TxOK
    <2> QED
      BY <2>1, <2>2
  <1>4. (db \in Shapes)' /\ DriversOK' /\ OwnedBeforeHealthy' /\ HealthyIsAgreed'
    BY DEF IInv, DriversOK, OwnedBeforeHealthy, HealthyIsAgreed
  <1> QED
    BY <1>2, <1>3, <1>4 DEF IInv

\* So does a transaction slot that holds no rows yet, or no longer.
LEMMA ReleaseKeepsIInv ==
    ASSUME IInv, NEW t \in Slots, NEW x \in Tx, x.kind \in {"none", "selected"},
           tx' = [tx EXCEPT ![t] = x],
           \/ UNCHANGED drv
           \/ \E w \in Workers : drv' = [drv EXCEPT ![w] = IdleDriver],
           UNCHANGED <<db, expired, rotated, sent, owned, marker>>
    PROVE  IInv'
  <1>1. tx \in [Slots -> Tx] /\ drv \in [Workers -> Driver]
    BY DEF IInv, TypeOK
  <1>2. /\ drv' \in [Workers -> Driver]
        /\ \A w \in Workers : drv'[w] = drv[w] \/ drv'[w] = IdleDriver
    <2>1. IdleDriver \in Driver
      BY DEF IdleDriver, Driver, DriverPcs
    <2> QED
      BY <1>1, <2>1
  <1>3. TypeOK'
    BY <1>1, <1>2 DEF IInv, TypeOK
  <1>4. TxOK'
    <2>1. \A u \in Slots : tx'[u].kind \notin {"none", "selected"} => tx'[u] = tx[u]
      BY <1>1
    <2> QED
      BY <2>1 DEF IInv, TxOK
  <1>5. DriversOK'
    BY <1>2 DEF IInv, DriversOK, IdleDriver
  <1>6. (db \in Shapes)' /\ OwnedBeforeHealthy'
    BY DEF IInv, OwnedBeforeHealthy
  <1>7. HealthyIsAgreed'
    BY <1>2 DEF IInv, HealthyIsAgreed, IdleDriver
  <1> QED
    BY <1>3, <1>4, <1>5, <1>6, <1>7 DEF IInv

\* What a commit does: the rows stay, or they were the rows it read and become
\* the shape it computed.
LEMMA CommitShape ==
    ASSUME IInv, NEW t \in Slots, Commit(t)
    PROVE  /\ tx[t].snap \in Shapes
           /\ tx[t].kind \in TxKinds \ {"none", "selected"}
           /\ tx[t].kind \in {"bind", "result"} => tx[t].who \in Workers
           /\ Outcome(tx[t]).ok
           /\ db' \in Shapes
           /\ db.history \subseteq db'.history
           /\ \/ db' = db /\ Outcome(tx[t]).db = tx[t].snap
              \/ db = tx[t].snap /\ db' = Outcome(tx[t]).db
  <1> DEFINE x == tx[t]
             out == Outcome(x)
  <1>1. /\ x \in Tx /\ x.kind \notin {"none", "selected"}
        /\ Commits(x, out) /\ db' = Written(x, out)
    BY DEF IInv, TypeOK, Commit
  <1>2. /\ x.snap \in Shapes /\ out.ok
        /\ x.kind \in {"bind", "result"} => x.who \in Workers
    BY <1>1 DEF IInv, TxOK
  <1>3. x.kind \in TxKinds \ {"none", "selected"}
    BY <1>1 DEF Tx
  <1>4. db \in Shapes
    BY DEF IInv
  <1> HIDE DEF x, out
  <1>5. CASE out.db = x.snap
    <2>1. db' = db
      BY <1>1, <1>5 DEF Written
    <2> QED
      BY <1>2, <1>3, <1>4, <1>5, <2>1 DEF x, out
  <1>6. CASE out.db # x.snap
    <2>1. db = x.snap /\ db' = out.db
      BY <1>1, <1>2, <1>3, <1>4, <1>6, WrittenIsOutcome DEF out
    <2>2. out.db \in Shapes /\ x.snap.history \subseteq out.db.history
      BY <1>2, <1>3, OutcomeGrows DEF out
    <2> QED
      BY <1>2, <1>3, <2>1, <2>2 DEF x, out
  <1> QED
    BY <1>5, <1>6

\* A commit keeps the invariant.
LEMMA CommitKeepsIInv ==
    ASSUME IInv, NEW t \in Slots, Commit(t)
    PROVE  IInv'
  <1> DEFINE x == tx[t]
             out == Outcome(x)
  <1>1. /\ x.snap \in Shapes
        /\ x.kind \in TxKinds \ {"none", "selected"}
        /\ x.kind \in {"bind", "result"} => x.who \in Workers
        /\ out.ok
        /\ db' \in Shapes
        /\ db.history \subseteq db'.history
        /\ \/ db' = db /\ out.db = x.snap
           \/ db = x.snap /\ db' = out.db
    BY CommitShape
  <1>2. /\ \/ drv' = drv
           \/ Waiting(x) /\ drv' = [drv EXCEPT ![x.who] = Heard(x, out)]
        /\ tx' = [tx EXCEPT ![t] = NoTx]
        /\ UNCHANGED <<expired, rotated, sent, owned, marker>>
    BY DEF Commit
  <1>3. x.kind = "result" => "result" \in sent[x.who] /\ x.snap.history \subseteq db.history
    BY <1>1 DEF IInv, TxOK
  <1>4. tx \in [Slots -> Tx] /\ drv \in [Workers -> Driver] /\ TypeOK
    BY DEF IInv, TypeOK
  <1>5. \/ x.kind = "bind" /\ out.db = x.snap
        \/ /\ x.kind = "result" /\ out.db = x.snap
           /\ x.snap = EnrolledDb(x.who) \/ x.snap.head.st \in Terminal
        \/ x.kind = "bind" /\ x.snap = OpenDb /\ out.db = ClaimedDb(x.who)
        \/ x.kind = "result" /\ x.snap = ClaimedDb(x.who) /\ out.db = EnrolledDb(x.who)
        \/ /\ x.kind \notin {"bind", "result"} /\ x.snap \in LiveDbs
           /\ \E target \in Terminal : out.db = ClosedDb(x.snap, target)
        \/ x.kind \notin {"bind", "result"} /\ out.db = ClosedDb(x.snap, "recovery_required")
    <2> HIDE DEF x
    <2> QED
      BY <1>1, OutcomeCases
  <1> HIDE DEF x, out
  <1>6. /\ x.kind \in {"bind", "result"} => x.who # Nobody
        /\ Waiting(x) => x.who \in Workers /\ x.kind \in {"bind", "result"}
    BY <1>1, EnrollmentAssumption DEF Waiting
  <1>7. \A w \in Workers :
          \/ drv'[w] = drv[w]
          \/ drv'[w] = [pc |-> "offered", told |-> "none"]
          \/ w = x.who /\ x.kind = "result" /\ drv'[w] = [pc |-> "reported", told |-> out.db.head.st]
    BY <1>2, <1>4, <1>6 DEF Heard, IdleDriver
  <1>8. TypeOK'
    <2>1. OpenDb \in Shapes
      BY DEF Shapes, LiveDbs
    <2>2. NoTx \in Tx
      BY <2>1, ShapesAreDbs DEF NoTx, Tx, TxKinds, Parties
    <2>3. db' \in Db
      BY <1>1, ShapesAreDbs
    <2>4. out.db.head.st \in States
      <3>1. out.db \in Db
        BY <1>1, ShapesAreDbs, OutcomeGrows DEF out
      <3> QED
        BY <3>1 DEF Db, State
    <2>5. Heard(x, out) \in Driver
      BY <2>4 DEF Heard, IdleDriver, Driver, DriverPcs
    <2> QED
      BY <1>2, <1>4, <2>2, <2>3, <2>5 DEF TypeOK
  <1>9. TxOK'
    <2>1. \A u \in Slots : tx'[u].kind \notin {"none", "selected"} => tx'[u] = tx[u]
      BY <1>2, <1>4 DEF NoTx
    <2> QED
      BY <1>1, <1>2, <2>1 DEF IInv, TxOK
  <1>10. DriversOK'
    BY <1>2, <1>7 DEF IInv, DriversOK
  <1>11. OwnedBeforeHealthy'
    <2> SUFFICES ASSUME NEW r \in db'.history,
                        r.st \in {"result_transported", "verified", "healthy"}
                 PROVE  r.worker \in owned'
      BY DEF OwnedBeforeHealthy
    <2>1. CASE r \in db.history
      BY <1>2, <2>1 DEF IInv, OwnedBeforeHealthy
    <2>2. CASE r \notin db.history
      <3>1. db = x.snap /\ db' = out.db /\ out.db # x.snap
        BY <1>1, <2>2
      <3>2. CASE x.kind = "bind" /\ x.snap = OpenDb /\ out.db = ClaimedDb(x.who)
        BY <2>2, <3>1, <3>2, Rows DEF OpenDb, ClaimedDb
      <3>3. CASE x.kind = "result" /\ x.snap = ClaimedDb(x.who) /\ out.db = EnrolledDb(x.who)
        <4>1. r.worker = x.who
          BY <2>2, <3>1, <3>3, Rows DEF ClaimedDb, EnrolledDb
        <4> QED
          BY <1>1, <1>2, <1>3, <3>3, <4>1 DEF IInv, DriversOK
      <3>4. CASE \E target \in Terminal : out.db = ClosedDb(x.snap, target)
        <4>1. PICK target \in Terminal : out.db = ClosedDb(x.snap, target)
          BY <3>4
        <4>2. r = Closed(x.snap.head, target)
          BY <2>2, <3>1, <4>1, ClosedFields
        <4>3. r.st = target
          BY <4>2 DEF Closed
        <4> QED
          BY <4>1, <4>3 DEF Terminal
      <3> QED
        BY <1>5, <3>1, <3>2, <3>3, <3>4 DEF Terminal
    <2> QED
      BY <2>1, <2>2
  <1>12. HealthyIsAgreed'
    <2> SUFFICES ASSUME NEW w \in Workers, marker'[w] = "healthy" \/ drv'[w].told = "healthy"
                 PROVE  \E r \in db'.history : r.st = "healthy" /\ r.worker = w
      BY DEF HealthyIsAgreed
    <2>1. CASE marker[w] = "healthy" \/ drv[w].told = "healthy"
      BY <1>1, <2>1 DEF IInv, HealthyIsAgreed
    <2>2. CASE /\ w = x.who /\ x.kind = "result" /\ out.db.head.st = "healthy"
      <3>2. \/ x.snap = EnrolledDb(w) /\ out.db = x.snap
            \/ x.snap = ClaimedDb(w) /\ out.db = EnrolledDb(w)
        BY <1>5, <2>2 DEF Terminal
      <3>3. HealthyRow(w) \in EnrolledDb(w).history
        BY DEF EnrolledDb
      <3>4. EnrolledDb(w) # ClaimedDb(w)
        <4>1. EnrolledDb(w).head = HealthyRow(w) /\ ClaimedDb(w).head = OfferRow(w)
          BY DEF EnrolledDb, ClaimedDb
        <4> QED
          BY <4>1, Rows
      <3>5. HealthyRow(w) \in db'.history
        BY <1>1, <1>3, <2>2, <3>2, <3>3, <3>4
      <3> QED
        BY <3>5, Rows
    <2> QED
      BY <1>2, <1>7, <2>1, <2>2
  <1> QED
    BY <1>1, <1>8, <1>9, <1>10, <1>11, <1>12 DEF IInv

\* The driver, the clock and a key rotation touch no row of the controller; they
\* keep the invariant if they only ever send more and own more, and believe
\* "healthy" only where it was already agreed.
LEMMA DriverKeepsIInv ==
    ASSUME IInv, TypeOK', UNCHANGED <<db, tx>>,
           \A w \in Workers : sent[w] \subseteq sent'[w],
           owned \subseteq owned',
           \A w \in Workers :
              /\ drv'[w].pc \in {"bound", "reporting"} => w \in owned'
              /\ "result" \in sent'[w] => w \in owned'
              /\ marker'[w] = "healthy" \/ drv'[w].told = "healthy" =>
                    marker[w] = "healthy" \/ drv[w].told = "healthy"
    PROVE  IInv'
  <1>1. TxOK'
    BY DEF IInv, TxOK
  <1>2. DriversOK'
    BY DEF DriversOK
  <1>3. (db \in Shapes)' /\ OwnedBeforeHealthy'
    BY DEF IInv, OwnedBeforeHealthy
  <1>4. HealthyIsAgreed'
    BY DEF IInv, HealthyIsAgreed
  <1> QED
    BY <1>1, <1>2, <1>3, <1>4 DEF IInv

\* Every step keeps the invariant.
LEMMA NextIInv == IInv /\ [Next]_vars => IInv'
  <1> SUFFICES ASSUME IInv, [Next]_vars
               PROVE  IInv'
    OBVIOUS
  <1>t. TypeOK
    BY DEF IInv
  <1>d. db \in Db
    BY DEF IInv, TypeOK
  <1>n. NoTx \in Tx /\ IdleDriver \in Driver
    <2>1. OpenDb \in Shapes
      BY DEF Shapes, LiveDbs
    <2> QED
      BY <2>1, ShapesAreDbs DEF NoTx, Tx, TxKinds, Parties, IdleDriver, Driver, DriverPcs
  <1>1. ASSUME NEW t \in Requests, NEW w \in Workers, BeginBind(t, w)
        PROVE  IInv'
    <2> DEFINE x == [kind |-> "bind", who |-> w, late |-> expired, snap |-> db]
    <2>1. x \in Tx
      BY <1>t, <1>d DEF Tx, TxKinds, Parties, TypeOK
    <2>2. Open(t, x) /\ UNCHANGED <<db, expired, rotated, sent, drv, owned, marker>>
      BY <1>1 DEF BeginBind
    <2>3. x.snap = db /\ x.kind = "bind" /\ x.who \in Workers /\ t \in Slots
      BY DEF Slots
    <2> HIDE DEF x
    <2> QED
      BY <2>1, <2>2, <2>3, OpenKeepsIInv DEF TxKinds
  <1>2. ASSUME NEW t \in Requests, NEW w \in Workers, BeginResult(t, w)
        PROVE  IInv'
    <2> DEFINE x == [kind |-> "result", who |-> w, late |-> expired, snap |-> db]
    <2>1. x \in Tx
      BY <1>t, <1>d DEF Tx, TxKinds, Parties, TypeOK
    <2>2. Open(t, x) /\ UNCHANGED <<db, expired, rotated, sent, drv, owned, marker>>
      BY <1>2 DEF BeginResult
    <2>3. /\ x.snap = db /\ x.kind = "result" /\ x.who \in Workers /\ t \in Slots
          /\ "result" \in sent[x.who]
      BY <1>2 DEF Slots, BeginResult
    <2> HIDE DEF x
    <2> QED
      BY <2>1, <2>2, <2>3, OpenKeepsIInv DEF TxKinds
  <1>3. ASSUME NEW t \in Requests, NEW kind \in {"revoke", "recover"}, BeginOperator(t, kind)
        PROVE  IInv'
    <2> DEFINE x == [kind |-> kind, who |-> Nobody, late |-> expired, snap |-> db]
    <2>1. x \in Tx
      BY <1>t, <1>d DEF Tx, TxKinds, Parties, TypeOK
    <2>2. Open(t, x) /\ UNCHANGED <<db, expired, rotated, sent, drv, owned, marker>>
      BY <1>3 DEF BeginOperator
    <2>3. x.snap = db /\ x.kind \in {"revoke", "recover"} /\ t \in Slots
      BY DEF Slots
    <2> HIDE DEF x
    <2> QED
      BY <2>1, <2>2, <2>3, OpenKeepsIInv DEF TxKinds
  <1>4. ASSUME NEW t \in Sweepers, SelectCandidate(t)
        PROVE  IInv'
    <2> DEFINE x == [NoTx EXCEPT !.kind = "selected", !.late = expired]
    <2>1. x \in Tx /\ x.kind = "selected" /\ t \in Slots
      BY <1>t, <1>n DEF NoTx, Tx, TxKinds, Slots, TypeOK
    <2>2. tx' = [tx EXCEPT ![t] = x] /\ UNCHANGED <<db, expired, rotated, sent, drv, owned, marker>>
      BY <1>4 DEF SelectCandidate
    <2> HIDE DEF x
    <2> QED
      BY <2>1, <2>2, ReleaseKeepsIInv
  <1>5. ASSUME NEW t \in Sweepers, BeginSweep(t)
        PROVE  IInv'
    <2> DEFINE x == [kind |-> "sweep", who |-> Nobody, late |-> tx[t].late, snap |-> db]
    <2>0. t \in Slots
      BY DEF Slots
    <2>1. x \in Tx
      BY <1>t, <1>d, <2>0 DEF Tx, TxKinds, Parties, TypeOK
    <2>2. Open(t, x) /\ UNCHANGED <<db, expired, rotated, sent, drv, owned, marker>>
      BY <1>5 DEF BeginSweep
    <2>3. x.snap = db /\ x.kind = "sweep"
      OBVIOUS
    <2> HIDE DEF x
    <2> QED
      BY <2>0, <2>1, <2>2, <2>3, OpenKeepsIInv DEF TxKinds
  <1>6. ASSUME NEW t \in Sweepers, SkipCandidate(t)
        PROVE  IInv'
    BY <1>6, <1>n, ReleaseKeepsIInv DEF SkipCandidate, NoTx, Slots
  <1>7. ASSUME NEW t \in Slots, Commit(t)
        PROVE  IInv'
    BY <1>7, CommitKeepsIInv
  <1>8. ASSUME NEW t \in Slots, Rollback(t)
        PROVE  IInv'
    <2>1. tx[t].kind \in {"bind", "result"} => tx[t].who \in Workers
      BY <1>8 DEF IInv, TxOK
    <2>2. \/ UNCHANGED drv
          \/ \E w \in Workers : drv' = [drv EXCEPT ![w] = IdleDriver]
      BY <1>8, <2>1 DEF Rollback, Waiting, AnsweredWithoutCommit
    <2>3. tx' = [tx EXCEPT ![t] = NoTx] /\ UNCHANGED <<db, expired, rotated, sent, owned, marker>>
      BY <1>8 DEF Rollback
    <2> QED
      BY <1>n, <2>2, <2>3, ReleaseKeepsIInv DEF NoTx
  <1>9. ASSUME NEW w \in Workers, SubmitBinding(w)
        PROVE  IInv'
    <2>1. TypeOK'
      BY <1>9, <1>t, <1>n DEF SubmitBinding, TypeOK, IdleDriver, Driver, DriverPcs
    <2>2. \A v \in Workers : sent[v] \subseteq sent'[v] /\ ("result" \in sent'[v] => "result" \in sent[v])
      BY <1>9, <1>t DEF SubmitBinding, TypeOK
    <2>3. \A v \in Workers : drv'[v] = drv[v] \/ drv'[v] = [pc |-> "binding", told |-> "none"]
      BY <1>9, <1>t DEF SubmitBinding, TypeOK, IdleDriver
    <2>4. UNCHANGED <<db, tx, owned, marker>>
      BY <1>9 DEF SubmitBinding
    <2> QED
      BY <2>1, <2>2, <2>3, <2>4, DriverKeepsIInv DEF IInv, DriversOK
  <1>10. ASSUME NEW w \in Workers, InstallOwnership(w)
        PROVE  IInv'
    <2>1. TypeOK'
      BY <1>10, <1>t DEF InstallOwnership, BindOwnership, TypeOK, Driver, DriverPcs
    <2>2. \A v \in Workers : \/ drv'[v] = drv[v]
                             \/ v = w /\ drv'[v].told = drv[v].told
      BY <1>10, <1>t DEF InstallOwnership, BindOwnership, TypeOK, Driver
    <2>3. owned' = owned \cup {w} /\ UNCHANGED <<db, tx, sent, marker>>
      BY <1>10 DEF InstallOwnership, BindOwnership
    <2> QED
      BY <2>1, <2>2, <2>3, DriverKeepsIInv DEF IInv, DriversOK
  <1>11. ASSUME NEW w \in Workers, SubmitResult(w)
        PROVE  IInv'
    <2>0. w \in owned
      BY <1>11 DEF SubmitResult, IInv, DriversOK
    <2>1. TypeOK'
      <3>1. drv' \in [Workers -> Driver]
        BY <1>11, <1>t, <1>n DEF SubmitResult, TypeOK, Driver, DriverPcs
      <3>2. marker' \in [Workers -> {"none", "offer_verified", "healthy"}]
        BY <1>11, <1>t DEF SubmitResult, Hint, TypeOK
      <3>3. sent' \in [Workers -> SUBSET {"bind", "result"}]
        BY <1>11, <1>t DEF SubmitResult, TypeOK
      <3> QED
        BY <1>11, <1>t, <3>1, <3>2, <3>3 DEF SubmitResult, TypeOK
    <2>2. \A v \in Workers :
            /\ sent[v] \subseteq sent'[v]
            /\ "result" \in sent'[v] => v = w \/ "result" \in sent[v]
      BY <1>11, <1>t DEF SubmitResult, TypeOK
    <2>3. \A v \in Workers : \/ drv'[v] = drv[v] \/ drv'[v] = IdleDriver
                             \/ v = w /\ drv'[v].told = drv[v].told
      BY <1>11, <1>t DEF SubmitResult, TypeOK, Driver
    <2>4. \A v \in Workers : marker'[v] = "healthy" => marker[v] = "healthy"
      BY <1>11, <1>t DEF SubmitResult, Hint, TypeOK
    <2>5. UNCHANGED <<db, tx, owned>>
      BY <1>11 DEF SubmitResult
    <2> QED
      BY <2>0, <2>1, <2>2, <2>3, <2>4, <2>5, DriverKeepsIInv DEF IInv, DriversOK, IdleDriver
  <1>12. ASSUME NEW w \in Workers, Reconcile(w)
        PROVE  IInv'
    <2>1. TypeOK'
      BY <1>12, <1>t, <1>n DEF Reconcile, Hint, TypeOK
    <2>2. \A v \in Workers : drv'[v] = drv[v] \/ drv'[v] = IdleDriver
      BY <1>12, <1>t DEF Reconcile, TypeOK
    <2>3. \A v \in Workers :
            marker'[v] = "healthy" => marker[v] = "healthy" \/ drv[v].told = "healthy"
      BY <1>12, <1>t DEF Reconcile, Hint, TypeOK
    <2>4. UNCHANGED <<db, tx, sent, owned>>
      BY <1>12 DEF Reconcile
    <2> QED
      BY <2>1, <2>2, <2>3, <2>4, DriverKeepsIInv DEF IInv, DriversOK, IdleDriver
  <1>13. ASSUME NEW w \in Workers, GiveUp(w)
        PROVE  IInv'
    <2>1. TypeOK'
      BY <1>13, <1>t, <1>n DEF GiveUp, TypeOK
    <2>2. \A v \in Workers : drv'[v] = drv[v] \/ drv'[v] = IdleDriver
      BY <1>13, <1>t DEF GiveUp, TypeOK
    <2>3. UNCHANGED <<db, tx, sent, owned, marker>>
      BY <1>13 DEF GiveUp
    <2> QED
      BY <2>1, <2>2, <2>3, DriverKeepsIInv DEF IInv, DriversOK, IdleDriver
  <1>14. CASE Expire \/ Rotate
    <2>1. TypeOK' /\ UNCHANGED <<db, tx, sent, drv, owned, marker>>
      BY <1>14, <1>t DEF Expire, Rotate, TypeOK
    <2> QED
      BY <2>1, DriverKeepsIInv DEF IInv, DriversOK
  <1>15. CASE UNCHANGED vars
    <2>1. TypeOK' /\ UNCHANGED <<db, tx, sent, drv, owned, marker>>
      BY <1>15, <1>t DEF vars, TypeOK
    <2> QED
      BY <2>1, DriverKeepsIInv DEF IInv, DriversOK
  <1> QED
    BY <1>1, <1>2, <1>3, <1>4, <1>5, <1>6, <1>7, <1>8, <1>9, <1>10, <1>11, <1>12, <1>13,
       <1>14, <1>15 DEF Next

-----------------------------------------------------------------------------
(* What follows from the invariant *)

\* The only ways the rows of an enrollment ever change.
LEMMA RowsChange ==
    ASSUME IInv, [Next]_vars
    PROVE  \/ db' = db
           \/ db = OpenDb /\ \E w \in Workers : db' = ClaimedDb(w)
           \/ \E w \in Workers : db = ClaimedDb(w) /\ db' = EnrolledDb(w)
           \/ db \in LiveDbs /\ \E target \in Terminal : db' = ClosedDb(db, target)
           \/ db.head.st = "refused" /\ db' = ClosedDb(db, "recovery_required")
  <1>1. ASSUME NEW t \in Slots, Commit(t)
        PROVE  \/ db' = db
               \/ db = OpenDb /\ \E w \in Workers : db' = ClaimedDb(w)
               \/ \E w \in Workers : db = ClaimedDb(w) /\ db' = EnrolledDb(w)
               \/ db \in LiveDbs /\ \E target \in Terminal : db' = ClosedDb(db, target)
               \/ db.head.st = "refused" /\ db' = ClosedDb(db, "recovery_required")
    <2> DEFINE x == tx[t]
    <2>1. /\ x.snap \in Shapes
          /\ x.kind \in TxKinds \ {"none", "selected"}
          /\ x.kind \in {"bind", "result"} => x.who \in Workers
          /\ Outcome(x).ok
          /\ \/ db' = db
             \/ db = x.snap /\ db' = Outcome(x).db
      BY <1>1, CommitShape
    <2> HIDE DEF x
    <2> QED
      BY <2>1, OutcomeCases, ClosedFields
  <1>2. (\E t \in Slots : Commit(t)) \/ db' = db
    BY DEF Next, vars, BeginBind, BeginResult, BeginOperator, SelectCandidate, BeginSweep,
           SkipCandidate, Rollback, SubmitBinding, InstallOwnership, SubmitResult, Reconcile,
           GiveUp, Expire, Rotate
  <1> QED
    BY <1>1, <1>2

\* The head of each shape a live enrollment can have.
LEMMA LiveHeads ==
    ASSUME NEW w
    PROVE  /\ OpenDb.head.st = "invited" /\ OpenDb.head.worker = Nobody
           /\ ClaimedDb(w).head.st = "offer_transported" /\ ClaimedDb(w).head.worker = w
           /\ EnrolledDb(w).head.st = "healthy" /\ EnrolledDb(w).head.worker = w
  BY Rows DEF OpenDb, ClaimedDb, EnrolledDb

\* The invariant that is inductive holds in every reachable state: the rows are
\* always one of the shapes, and every open transaction read one of them.
THEOREM Invariant == Spec => []IInv
  BY InitIInv, NextIInv, PTL DEF Spec

\* Type correctness of the exchange, and the bound 7 on the revision column,
\* for every number of workers, requests and sweeps.
THEOREM TypeCorrect == Spec => []TypeOK
  <1>1. IInv => TypeOK
    BY DEF IInv
  <1> QED
    BY <1>1, Invariant, PTL

\* verify_history_consistent never fails on rows the services have written.
THEOREM HistoryAlwaysAgrees == Spec => []HistoryAgrees
  <1>1. IInv => HistoryAgrees
    BY ShapesConsistent DEF IInv, HistoryAgrees
  <1> QED
    BY <1>1, Invariant, PTL

\* The invitation is used at most once, and by one worker only, although the
\* row lock is not relied on.
THEOREM UsedOnce == Spec => []SingleUse
  <1>1. IInv => SingleUse
    BY ShapesSingleUse DEF IInv, SingleUse
  <1> QED
    BY <1>1, Invariant, PTL

\* A receipt served to a retry names the revision its own step produced.
THEOREM RetriesAreAnsweredTruthfully == Spec => []ReceiptsTruthful
  <1>1. IInv => ReceiptsTruthful
    BY ShapesTruthful DEF IInv, ReceiptsTruthful
  <1> QED
    BY <1>1, Invariant, PTL

\* The controller records no result of a worker that has not installed its
\* ownership document.
THEOREM OwnershipComesFirst == Spec => []OwnedBeforeHealthy
  <1>1. IInv => OwnedBeforeHealthy
    BY DEF IInv
  <1> QED
    BY <1>1, Invariant, PTL

\* A worker believes in its health only if the controller committed to it.
THEOREM HealthIsAgreed == Spec => []HealthyIsAgreed
  <1>1. IInv => HealthyIsAgreed
    BY DEF IInv
  <1> QED
    BY <1>1, Invariant, PTL

\* recovery_required absorbs, a refused enrollment moves only there, for the same
\* worker and with the same receipts, and no history row is ever rewritten.
THEOREM ClosedStaysClosed == Spec => ClosedNeverReopens
  <1> DEFINE A == /\ db.head.st = "recovery_required" => db' = db
                  /\ db.head.st = "refused" /\ db' # db =>
                        /\ db'.head.st = "recovery_required" /\ db'.head.worker = db.head.worker
                        /\ db'.consumed = db.consumed /\ db'.offer = db.offer
                        /\ db'.receipts = db.receipts
                  /\ db.history \subseteq db'.history
  <1>1. IInv /\ [Next]_vars => [A]_vars
    <2> SUFFICES ASSUME IInv, [Next]_vars
                 PROVE  A
      OBVIOUS
    <2>1. CASE db' = db
      BY <2>1
    <2>2. CASE db = OpenDb /\ \E w \in Workers : db' = ClaimedDb(w)
      BY <2>2, LiveHeads, ShapesGrow
    <2>3. CASE \E w \in Workers : db = ClaimedDb(w) /\ db' = EnrolledDb(w)
      BY <2>3, LiveHeads, ShapesGrow
    <2>4. CASE db \in LiveDbs /\ \E target \in Terminal : db' = ClosedDb(db, target)
      <3>1. db.head.st \notin {"refused", "recovery_required"}
        BY <2>4, LiveHeads DEF LiveDbs
      <3>2. db.history \subseteq db'.history
        BY <2>4, ClosedFields
      <3> QED
        BY <3>1, <3>2
    <2>5. CASE db.head.st = "refused" /\ db' = ClosedDb(db, "recovery_required")
      BY <2>5, ClosedFields
    <2> QED
      BY <2>1, <2>2, <2>3, <2>4, <2>5, RowsChange
  <1> QED
    BY <1>1, Invariant, PTL DEF Spec, ClosedNeverReopens

\* What the refinement mapping makes of each state of the head.
LEMMA Phases ==
    /\ Phase("invited") = "open"
    /\ Phase("offer_transported") = "claimed"
    /\ Phase("healthy") = "enrolled"
    /\ \A st \in Terminal : Phase(st) = "closed"
  <1>1. Phase("invited") = "open"
    BY DEF Phase, Terminal
  <1>2. Phase("offer_transported") = "claimed"
    BY DEF Phase, Terminal
  <1>3. Phase("healthy") = "enrolled"
    BY DEF Phase, Terminal
  <1>4. Phase("refused") = "closed"
    BY DEF Phase, Terminal
  <1>5. Phase("recovery_required") = "closed"
    BY DEF Phase, Terminal
  <1> QED
    BY <1>1, <1>2, <1>3, <1>4, <1>5 DEF Terminal

\* The exchange implements the agreement: whatever is interleaved, retried or
\* lost, an enrollment is claimed by one worker, enrols it, and is closed once.
THEOREM ExchangeImplementsAgreement == Spec => ImplementsAgreement
  <1>1. Init => Agreement!Init
    BY LiveHeads, Phases DEF Init, Agreement!Init
  <1>2. IInv /\ [Next]_vars => [Agreement!Next]_<<Phase(db.head.st), db.head.worker>>
    <2> SUFFICES ASSUME IInv, [Next]_vars
                 PROVE  [Agreement!Next]_<<Phase(db.head.st), db.head.worker>>
      OBVIOUS
    <2>1. CASE db' = db
      BY <2>1
    <2>2. CASE db = OpenDb /\ \E w \in Workers : db' = ClaimedDb(w)
      <3>1. PICK w \in Workers : db' = ClaimedDb(w)
        BY <2>2
      <3>2. Agreement!Claim(w)
        BY <2>2, <3>1, LiveHeads, Phases DEF Agreement!Claim
      <3> QED
        BY <3>2 DEF Agreement!Next
    <2>3. CASE \E w \in Workers : db = ClaimedDb(w) /\ db' = EnrolledDb(w)
      <3>1. Agreement!Enrol
        BY <2>3, LiveHeads, Phases DEF Agreement!Enrol
      <3> QED
        BY <3>1 DEF Agreement!Next
    <2>4. CASE db \in LiveDbs /\ \E target \in Terminal : db' = ClosedDb(db, target)
      <3>1. Phase(db.head.st) \in {"open", "claimed", "enrolled"}
        BY <2>4, LiveHeads, Phases DEF LiveDbs
      <3>2. db'.head.st \in Terminal /\ db'.head.worker = db.head.worker
        BY <2>4, ClosedFields
      <3>3. Agreement!Close
        BY <3>1, <3>2, Phases DEF Agreement!Close
      <3> QED
        BY <3>3 DEF Agreement!Next
    <2>5. CASE db.head.st = "refused" /\ db' = ClosedDb(db, "recovery_required")
      <3>1. Phase(db.head.st) = Phase(db'.head.st) /\ db'.head.worker = db.head.worker
        BY <2>5, ClosedFields, Phases DEF Terminal
      <3> QED
        BY <3>1
    <2> QED
      BY <2>1, <2>2, <2>3, <2>4, <2>5, RowsChange
  <1> QED
    BY <1>1, <1>2, Invariant, PTL DEF Spec, ImplementsAgreement, Agreement!Spec

\* A worker is told "healthy" only by a result exchange that read an enrollment
\* not yet closed, however late the exchange is retried.
THEOREM HealthyIsNeverStale == Spec => NoStaleHealthy
  <1> DEFINE Fresh(w) == \E t \in Slots : /\ tx[t].kind = "result" /\ tx[t].who = w
                                          /\ tx[t].snap.head.st \notin Terminal
  <1>1. IInv /\ [Next]_vars =>
            [\A w \in Workers :
                drv[w].told # "healthy" /\ drv'[w].told = "healthy" => Fresh(w)]_vars
    <2> SUFFICES ASSUME IInv, [Next]_vars, NEW w \in Workers,
                        drv[w].told # "healthy", drv'[w].told = "healthy"
                 PROVE  Fresh(w)
      BY DEF vars
    <2>0. drv \in [Workers -> Driver]
      BY DEF IInv, TypeOK
    <2>1. \E t \in Slots : Commit(t)
      <3>1. ASSUME NEW v \in Workers,
                   \/ SubmitBinding(v) \/ InstallOwnership(v) \/ SubmitResult(v)
                   \/ Reconcile(v) \/ GiveUp(v)
            PROVE  FALSE
        BY <2>0, <3>1 DEF SubmitBinding, InstallOwnership, BindOwnership, SubmitResult, Reconcile,
              GiveUp, IdleDriver, Driver
      <3>2. ASSUME NEW t \in Slots, Rollback(t)
            PROVE  FALSE
        BY <2>0, <3>2 DEF Rollback, AnsweredWithoutCommit, IdleDriver
      <3> QED
        BY <3>1, <3>2 DEF Next, vars, BeginBind, BeginResult, BeginOperator, SelectCandidate,
              BeginSweep, SkipCandidate, Expire, Rotate
    <2>2. PICK t \in Slots : Commit(t)
      BY <2>1
    <2> DEFINE x == tx[t]
    <2>3. /\ x.snap \in Shapes
          /\ x.kind \in TxKinds \ {"none", "selected"}
          /\ x.kind \in {"bind", "result"} => x.who \in Workers
          /\ Outcome(x).ok
      BY <2>2, CommitShape
    <2>4. Waiting(x) /\ drv' = [drv EXCEPT ![x.who] = Heard(x, Outcome(x))]
      BY <2>2 DEF Commit
    <2> HIDE DEF x
    <2>5. w = x.who /\ Heard(x, Outcome(x)).told = "healthy"
      BY <2>0, <2>4
    <2>6. x.kind = "result" /\ Outcome(x).db.head.st = "healthy"
      BY <2>4, <2>5 DEF Heard, IdleDriver, Waiting
    <2>8. x.snap = EnrolledDb(x.who) \/ x.snap = ClaimedDb(x.who)
      BY <2>3, <2>6, OutcomeCases DEF Terminal
    <2>9. x.snap.head.st \notin Terminal
      BY <2>8, LiveHeads DEF Terminal
    <2> QED
      BY <2>5, <2>6, <2>9 DEF x
  <1> QED
    BY <1>1, Invariant, PTL DEF Spec, NoStaleHealthy
===============================================================================
