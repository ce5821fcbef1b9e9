---------------------------- MODULE OutboxProofs ----------------------------
(***************************************************************************)
(* What an outbox row's mark is worth, and that no batch outgrows its      *)
(* limit, for any number of requests, publishers, executors and faults.    *)
(*                                                                         *)
(* The mark's property is not inductive by itself: a mark is flushed by a  *)
(* publisher long before it is committed.  It holds of the flushed marks   *)
(* too, because Temporal forgets no execution that it has started.  The    *)
(* limit is a pigeonhole argument: of more rows than the limit the oldest  *)
(* one selected would have too many before it.                             *)
(***************************************************************************)
EXTENDS WorkflowOutbox, FiniteSetTheorems, TLAPS

MarkSet == {Unmarked, "submitted", "failed"}

Shape ==
    /\ outbox \in [Runs -> {"none", "pending", "submitted", "failed"}]
    /\ marks \in [Publishers -> [Runs -> MarkSet]]
    /\ wf \in [Runs -> {"absent", "open", "closed"}]

\* A publisher has flushed "submitted" only for what Temporal has taken.
FlushedWasTaken ==
    \A p \in Publishers, r \in Runs : marks[p][r] = "submitted" => wf[r] # "absent"

Taken == Shape /\ SubmittedWasTaken /\ FlushedWasTaken

LEMMA TakenInit == Init => Taken
<1> SUFFICES ASSUME Init PROVE Taken
    OBVIOUS
<1>1. \A p \in Publishers, r \in Runs : marks[p][r] = Unmarked
    BY DEF Init, NoMarks
<1> QED
    BY <1>1 DEF Init, NoMarks, Unmarked, Taken, Shape, MarkSet, SubmittedWasTaken, FlushedWasTaken

\* A step that marks nothing, and after which what was taken still is.
LEMMA NothingMarked ==
    ASSUME Taken, outbox' \in [Runs -> {"none", "pending", "submitted", "failed"}],
           \A r \in Runs : outbox'[r] = "submitted" => outbox[r] = "submitted",
           marks' = marks, wf' \in [Runs -> {"absent", "open", "closed"}],
           \A r \in Runs : wf[r] # "absent" => wf'[r] # "absent"
    PROVE  Taken'
    BY DEF Taken, Shape, SubmittedWasTaken, FlushedWasTaken

\* The execution of a submitted row is open, and no other one is lost.
LEMMA Started ==
    ASSUME Shape, NEW r \in Runs, StartWorkflow(r)
    PROVE  /\ wf' \in [Runs -> {"absent", "open", "closed"}]
           /\ wf'[r] = "open"
           /\ \A s \in Runs : wf[s] # "absent" => wf'[s] # "absent"
    BY DEF Shape, StartWorkflow

\* One mark is flushed.
LEMMA Flushed ==
    ASSUME Taken, NEW p \in Publishers, NEW r \in Runs, NEW m \in {"submitted", "failed"},
           Mark(p, r, m), outbox' = outbox,
           wf' \in [Runs -> {"absent", "open", "closed"}],
           \A s \in Runs : wf[s] # "absent" => wf'[s] # "absent",
           m = "submitted" => wf'[r] # "absent"
    PROVE  Taken'
<1>1. marks' = [marks EXCEPT ![p] = [marks[p] EXCEPT ![r] = m]]
    BY DEF Mark
<1>2. marks[p] \in [Runs -> MarkSet] /\ m \in MarkSet
    BY DEF Taken, Shape, MarkSet
<1>3. [marks[p] EXCEPT ![r] = m] \in [Runs -> MarkSet]
    BY <1>2
<1>4. marks' \in [Publishers -> [Runs -> MarkSet]]
    BY <1>1, <1>3 DEF Taken, Shape
<1>5. \A q \in Publishers, s \in Runs :
          marks'[q][s] = IF q = p /\ s = r THEN m ELSE marks[q][s]
    BY <1>1, <1>2 DEF Taken, Shape
<1>6. FlushedWasTaken'
    BY <1>5 DEF Taken, FlushedWasTaken
<1> QED
    BY <1>4, <1>6 DEF Taken, Shape, SubmittedWasTaken

\* A publisher's marks are dropped, and its outbox rows are what it had flushed or
\* what they were.
LEMMA MarksEnd ==
    ASSUME Taken, NEW p \in Publishers, marks' = [marks EXCEPT ![p] = NoMarks], wf' = wf,
           outbox' \in [Runs -> {"none", "pending", "submitted", "failed"}],
           \A r \in Runs : outbox'[r] = "submitted" =>
               outbox[r] = "submitted" \/ marks[p][r] = "submitted"
    PROVE  Taken'
<1>1. NoMarks \in [Runs -> MarkSet] /\ \A r \in Runs : NoMarks[r] # "submitted"
    BY DEF NoMarks, MarkSet, Unmarked
<1> HIDE DEF NoMarks
<1>2. marks' \in [Publishers -> [Runs -> MarkSet]]
    BY <1>1 DEF Taken, Shape
<1>3. \A q \in Publishers, r \in Runs :
          marks'[q][r] = "submitted" => marks[q][r] = "submitted"
    BY <1>1 DEF Taken, Shape
<1> QED
    BY <1>2, <1>3 DEF Taken, Shape, SubmittedWasTaken, FlushedWasTaken

LEMMA PublishKeeps ==
    ASSUME Taken, NEW p \in Publishers, Publish(p) PROVE Taken'
<1>1. CASE ReadPending(p)
    BY <1>1, NothingMarked DEF ReadPending, apiVars, Taken, Shape
<1>2. CASE SubmitAccepted(p)
  <2>1. Head(p) \in Runs /\ StartWorkflow(Head(p)) /\ Mark(p, Head(p), "submitted")
            /\ outbox' = outbox
      BY <1>2 DEF SubmitAccepted, apiVars
  <2>2. /\ wf' \in [Runs -> {"absent", "open", "closed"}]
        /\ wf'[Head(p)] = "open"
        /\ \A s \in Runs : wf[s] # "absent" => wf'[s] # "absent"
      BY <2>1, Started DEF Taken
  <2> QED
      BY <2>1, <2>2, Flushed
<1>3. CASE SubmitRaised(p)
  <2>1. Mark(p, Head(p), "failed") /\ outbox' = outbox /\ Head(p) \in Runs
            /\ (StartWorkflow(Head(p)) \/ wf' = wf)
      BY <1>3 DEF SubmitRaised, MarkRaised, apiVars
  <2>2. /\ wf' \in [Runs -> {"absent", "open", "closed"}]
        /\ \A s \in Runs : wf[s] # "absent" => wf'[s] # "absent"
      BY <2>1, Started DEF Taken, Shape
  <2> QED
      BY <2>1, <2>2, Flushed
<1>4. CASE CommitBatch(p)
  <2>1. \A r \in Runs : marks[p][r] \in MarkSet
      BY DEF Taken, Shape
  <2>2. /\ outbox' \in [Runs -> {"none", "pending", "submitted", "failed"}]
        /\ \A r \in Runs : outbox'[r] = "submitted" =>
               outbox[r] = "submitted" \/ marks[p][r] = "submitted"
      BY <1>4, <2>1 DEF CommitBatch, Taken, Shape, MarkSet
  <2> QED
      BY <1>4, <2>2, MarksEnd DEF CommitBatch
<1>5. CASE LoseBatch(p)
    BY <1>5, MarksEnd DEF LoseBatch, apiVars, Taken, Shape
<1> QED
    BY <1>1, <1>2, <1>3, <1>4, <1>5 DEF Publish

LEMMA NextKeeps ==
    ASSUME Taken, [Next]_vars PROVE Taken'
<1>1. ASSUME NEW r \in Runs, Enqueue(r) PROVE Taken'
    BY <1>1, NothingMarked DEF Enqueue, publisherVars, Taken, Shape
<1>2. ASSUME NEW r \in Runs, AttemptTimesOut(r) \/ \E w \in Workers : Take(w, r)
      PROVE  Taken'
    BY <1>2, NothingMarked DEF AttemptTimesOut, Take, apiVars, publisherVars, Taken, Shape
<1>3. ASSUME NEW p \in Publishers, Publish(p) PROVE Taken'
    BY <1>3, PublishKeeps
<1>4. ASSUME NEW w \in Workers, Finish(w) PROVE Taken'
  <2>1. outbox' = outbox /\ marks' = marks
            /\ (wf' = wf \/ wf' = [wf EXCEPT ![body[w]] = "closed"])
      BY <1>4 DEF Finish, publisherVars
  <2>2. /\ wf' \in [Runs -> {"absent", "open", "closed"}]
        /\ \A r \in Runs : wf[r] # "absent" => wf'[r] # "absent"
      BY <2>1 DEF Taken, Shape
  <2> QED
      BY <2>1, <2>2, NothingMarked DEF Taken, Shape
<1>5. ASSUME NEW w \in Workers, FinishUnheard(w) \/ Fail(w) PROVE Taken'
    BY <1>5, NothingMarked DEF FinishUnheard, Fail, apiVars, publisherVars, Taken, Shape
<1>6. CASE UNCHANGED vars
    BY <1>6, NothingMarked DEF vars, Taken, Shape
<1> QED
    BY <1>1, <1>2, <1>3, <1>4, <1>5, <1>6 DEF Next

-----------------------------------------------------------------------------
\* A committed "submitted" stands for a workflow that Temporal has taken, whatever
\* crashes, errors and publishers interleave (publish_one, publish_pending and the
\* commit that ends the batch).
THEOREM MarkedIsTaken == Spec => []SubmittedWasTaken
<1>1. Init => Taken
    BY TakenInit
<1>2. Taken /\ [Next]_vars => Taken'
    BY NextKeeps
<1>3. Taken => SubmittedWasTaken
    BY DEF Taken
<1> QED
    BY <1>1, <1>2, <1>3, PTL DEF Spec

-----------------------------------------------------------------------------
\* The batch.  The query's rows are numbered by the rows before them, so there are
\* no more of them than there are numbers below the limit.

LEMMA SelectedIsLimited ==
    Selected \in SUBSET Runs /\ IsFiniteSet(Selected) /\ Cardinality(Selected) <= Limit
<1> DEFINE Before(r) == {s \in Unsubmitted : s < r}
           place == [r \in Selected |-> Cardinality(Before(r))]
           Places == 0..(Limit - 1)
<1>1. Runs \subseteq Nat /\ IsFiniteSet(Runs) /\ Limit \in Nat
    BY OutboxAssumption
<1>2. Selected \in SUBSET Unsubmitted /\ Unsubmitted \in SUBSET Runs
    BY DEF Selected, Unsubmitted
<1>3. IsFiniteSet(Unsubmitted) /\ IsFiniteSet(Selected)
    BY <1>1, <1>2, FS_Subset
<1>4. \A r : IsFiniteSet(Before(r)) /\ Cardinality(Before(r)) \in Nat
  <2> SUFFICES ASSUME NEW r PROVE IsFiniteSet(Before(r)) /\ Cardinality(Before(r)) \in Nat
      OBVIOUS
  <2>1. Before(r) \in SUBSET Unsubmitted
      OBVIOUS
  <2> HIDE DEF Before
  <2> QED
      BY <1>3, <2>1, FS_Subset, FS_CardinalityType
<1>5. place \in [Selected -> Places]
  <2>1. \A r \in Selected : Cardinality(Before(r)) < Limit
      BY DEF Selected
  <2> HIDE DEF Before
  <2> QED
      BY <1>1, <1>4, <2>1
<1>6. ASSUME NEW x \in Selected, NEW y \in Selected, x < y
      PROVE  place[x] # place[y]
  <2>0. x \in Nat /\ y \in Nat /\ x \in Unsubmitted /\ \A s \in Unsubmitted : s \in Nat
      BY <1>1, <1>2
  <2>a. \A s \in Unsubmitted : s < x => s < y
      BY <1>6, <2>0
  <2>b. x < y /\ ~(x < x)
      BY <1>6, <2>0
  <2>1. Before(x) \in SUBSET Before(y) /\ x \in Before(y) /\ x \notin Before(x)
      BY <2>0, <2>a, <2>b, Zenon
  <2> HIDE DEF Before
  <2>2. Cardinality(Before(x)) # Cardinality(Before(y))
      BY <1>4, <2>1, FS_Subset
  <2> QED
      BY <2>2
<1>7. IsFiniteSet(Places) /\ Cardinality(Places) = Limit
    BY <1>1, FS_Interval
<1>8. \A x, y \in Selected : x # y => place[x] # place[y]
  <2> HIDE DEF place
  <2> QED
      BY <1>1, <1>2, <1>6
<1> HIDE DEF place, Places
<1>9. ~(Cardinality(Places) < Cardinality(Selected))
    BY <1>3, <1>5, <1>7, <1>8, FS_PigeonHole
<1>10. Cardinality(Selected) \in Nat
    BY <1>3, FS_CardinalityType
<1> QED
    BY <1>1, <1>2, <1>3, <1>7, <1>9, <1>10

LEMMA TypeInit == Init => TypeOK
<1> SUFFICES ASSUME Init PROVE TypeOK
    OBVIOUS
<1>1. Limit \in Nat /\ MaxFaults \in Nat
    BY OutboxAssumption
<1>2. \A p \in Publishers : Cardinality(batch[p]) <= Limit
    BY <1>1, FS_EmptySet DEF Init
<1>3. marks \in [Publishers -> [Runs -> {Unmarked, "submitted", "failed"}]]
    BY DEF Init, NoMarks
<1> QED
    BY <1>1, <1>2, <1>3 DEF Init, TypeOK, NoRun

\* A publisher's batch only shrinks.
LEMMA BatchShrinks ==
    ASSUME TypeOK, NEW p \in Publishers, NEW rows \in SUBSET batch[p],
           batch' = [batch EXCEPT ![p] = rows]
    PROVE  /\ batch' \in [Publishers -> SUBSET Runs]
           /\ \A q \in Publishers : Cardinality(batch'[q]) <= Limit
<1>1. IsFiniteSet(Runs) /\ Limit \in Nat
    BY OutboxAssumption
<1>2. batch[p] \in SUBSET Runs /\ Cardinality(batch[p]) <= Limit
    BY DEF TypeOK
<1>3. IsFiniteSet(batch[p]) /\ IsFiniteSet(rows) /\ Cardinality(rows) <= Cardinality(batch[p])
    BY <1>1, <1>2, FS_Subset
<1>4. Cardinality(rows) <= Limit
  <2>1. Cardinality(rows) \in Nat /\ Cardinality(batch[p]) \in Nat
      BY <1>3, FS_CardinalityType
  <2> QED
      BY <1>1, <1>2, <1>3, <2>1
<1> QED
    BY <1>2, <1>4 DEF TypeOK

LEMMA FaultCounted ==
    ASSUME TypeOK, Fault \/ faults' = faults PROVE faults' \in 0..MaxFaults
<1>1. MaxFaults \in Nat
    BY OutboxAssumption
<1> QED
    BY <1>1 DEF TypeOK, Fault

LEMMA MarkTyped ==
    ASSUME TypeOK, NEW p \in Publishers, NEW r \in Runs, NEW m \in {"submitted", "failed"},
           Mark(p, r, m)
    PROVE  /\ batch' \in [Publishers -> SUBSET Runs]
           /\ \A q \in Publishers : Cardinality(batch'[q]) <= Limit
           /\ marks' \in [Publishers -> [Runs -> {Unmarked, "submitted", "failed"}]]
<1>1. batch' = [batch EXCEPT ![p] = batch[p] \ {r}]
    BY DEF Mark
<1>2. marks' = [marks EXCEPT ![p] = [marks[p] EXCEPT ![r] = m]]
    BY DEF Mark
<1>3. [marks[p] EXCEPT ![r] = m] \in [Runs -> {Unmarked, "submitted", "failed"}]
    BY DEF TypeOK
<1>4. marks' \in [Publishers -> [Runs -> {Unmarked, "submitted", "failed"}]]
    BY <1>2, <1>3 DEF TypeOK
<1> QED
    BY <1>1, <1>4, BatchShrinks

LEMMA PublishTyped ==
    ASSUME TypeOK, NEW p \in Publishers, Publish(p) PROVE TypeOK'
<1>1. CASE ReadPending(p)
  <2>1. batch' \in [Publishers -> SUBSET Runs]
            /\ \A q \in Publishers : Cardinality(batch'[q]) <= Limit
      BY <1>1, SelectedIsLimited DEF ReadPending, TypeOK
  <2> QED
      BY <1>1, <2>1 DEF ReadPending, apiVars, TypeOK
<1>2. CASE SubmitAccepted(p)
  <2>1. Head(p) \in Runs /\ wf' = [wf EXCEPT ![Head(p)] = "open"] /\ Mark(p, Head(p), "submitted")
            /\ UNCHANGED <<run, outbox, claim, body, faults>>
      BY <1>2 DEF SubmitAccepted, StartWorkflow, apiVars
  <2>2. /\ batch' \in [Publishers -> SUBSET Runs]
        /\ \A q \in Publishers : Cardinality(batch'[q]) <= Limit
        /\ marks' \in [Publishers -> [Runs -> {Unmarked, "submitted", "failed"}]]
      BY <2>1, MarkTyped
  <2> QED
      BY <2>1, <2>2 DEF TypeOK
<1>3. CASE SubmitRaised(p)
  <2>1. Head(p) \in Runs /\ (wf' = [wf EXCEPT ![Head(p)] = "open"] \/ wf' = wf)
            /\ Mark(p, Head(p), "failed") /\ UNCHANGED <<run, outbox, claim, body>>
            /\ (Fault \/ faults' = faults)
      BY <1>3 DEF SubmitRaised, MarkRaised, StartWorkflow, apiVars
  <2>2. /\ batch' \in [Publishers -> SUBSET Runs]
        /\ \A q \in Publishers : Cardinality(batch'[q]) <= Limit
        /\ marks' \in [Publishers -> [Runs -> {Unmarked, "submitted", "failed"}]]
      BY <2>1, MarkTyped
  <2>3. faults' \in 0..MaxFaults
      BY <2>1, FaultCounted
  <2> QED
      BY <2>1, <2>2, <2>3 DEF TypeOK
<1>4. NoMarks \in [Runs -> {Unmarked, "submitted", "failed"}]
    BY DEF NoMarks
<1>5. CASE CommitBatch(p)
  <2>1. marks' \in [Publishers -> [Runs -> {Unmarked, "submitted", "failed"}]]
      BY <1>4, <1>5 DEF CommitBatch, TypeOK
  <2>2. outbox' \in [Runs -> {"none", "pending", "submitted", "failed"}]
      BY <1>5 DEF CommitBatch, TypeOK
  <2> QED
      BY <1>5, <2>1, <2>2 DEF CommitBatch, TypeOK
<1>6. CASE LoseBatch(p)
  <2>1. marks' \in [Publishers -> [Runs -> {Unmarked, "submitted", "failed"}]]
      BY <1>4, <1>6 DEF LoseBatch, TypeOK
  <2>2. /\ batch' \in [Publishers -> SUBSET Runs]
        /\ \A q \in Publishers : Cardinality(batch'[q]) <= Limit
      BY <1>6, BatchShrinks DEF LoseBatch
  <2>3. faults' \in 0..MaxFaults
      BY <1>6, FaultCounted DEF LoseBatch
  <2> QED
      BY <1>6, <2>1, <2>2, <2>3 DEF LoseBatch, apiVars, TypeOK
<1> QED
    BY <1>1, <1>2, <1>3, <1>5, <1>6 DEF Publish

LEMMA NextTyped ==
    ASSUME TypeOK, [Next]_vars PROVE TypeOK'
<1>1. ASSUME NEW r \in Runs, Enqueue(r) PROVE TypeOK'
    BY <1>1 DEF Enqueue, publisherVars, TypeOK
<1>2. ASSUME NEW r \in Runs, AttemptTimesOut(r) PROVE TypeOK'
  <2>1. faults' \in 0..MaxFaults
      BY <1>2, FaultCounted DEF AttemptTimesOut
  <2> QED
      BY <1>2, <2>1 DEF AttemptTimesOut, apiVars, publisherVars, TypeOK
<1>3. ASSUME NEW r \in Runs, NEW w \in Workers, Take(w, r) PROVE TypeOK'
    BY <1>3 DEF Take, apiVars, publisherVars, TypeOK
<1>4. ASSUME NEW p \in Publishers, Publish(p) PROVE TypeOK'
    BY <1>4, PublishTyped
<1>5. ASSUME NEW w \in Workers, Finish(w) PROVE TypeOK'
    BY <1>5 DEF Finish, publisherVars, TypeOK
<1>6. ASSUME NEW w \in Workers, FinishUnheard(w) \/ Fail(w) PROVE TypeOK'
  <2>1. faults' \in 0..MaxFaults
      BY <1>6, FaultCounted DEF FinishUnheard, Fail
  <2> QED
      BY <1>6, <2>1 DEF FinishUnheard, Fail, apiVars, publisherVars, TypeOK
<1>7. CASE UNCHANGED vars
    BY <1>7 DEF vars, TypeOK
<1> QED
    BY <1>1, <1>2, <1>3, <1>4, <1>5, <1>6, <1>7 DEF Next

\* However many rows wait, a publisher works on at most Limit of them at a time (the
\* limit of publish_pending's query), and every table keeps its vocabulary.
THEOREM TypeCorrect == Spec => []TypeOK
<1>1. TypeOK /\ [Next]_vars => TypeOK'
    BY NextTyped
<1> QED
    BY <1>1, TypeInit, PTL DEF Spec
=============================================================================
