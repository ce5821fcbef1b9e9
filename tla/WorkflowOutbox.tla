--------------------------- MODULE WorkflowOutbox ---------------------------
(***************************************************************************)
(* The transactional outbox between the API and Temporal (dispatch.py),    *)
(* the loop of the worker process that drains it (main.py), and the        *)
(* activity body at the other end (temporal_app.py).                       *)
(*                                                                         *)
(* An API transaction commits a queued WorkflowRun and its outbox row.  Any*)
(* number of publishers read the oldest rows that are not submitted, submit*)
(* them one by one and write all the marks in the transaction that ends    *)
(* the batch.  A publisher may die between a submission and that commit,   *)
(* and a submission may reach the server although the caller sees an error.*)
(*                                                                         *)
(* Two publishers' marks of one row are ordered by the row lock in the     *)
(* code; here either commit may come last.                                 *)
(***************************************************************************)
EXTENDS Integers, FiniteSets, FiniteSetsExt

CONSTANTS
    Runs,         \* WorkflowRun rows: numbers in the order of created_at
    Poison,       \* rows Temporal never accepts (a payload it rejects)
    Publishers,   \* processes that run _run_outbox_publisher_loop
    Limit,        \* the limit of publish_pending's query
    Workers,      \* executors of activities
    MaxFaults,    \* bound on what goes wrong: crashes, errors, lost answers
    NoOne         \* not a worker

ASSUME OutboxAssumption ==
    /\ Runs \subseteq Nat \ {0} /\ IsFiniteSet(Runs)
    /\ Poison \subseteq Runs
    /\ Limit \in Nat /\ Cardinality(Poison) < Limit
    /\ MaxFaults \in Nat
    /\ NoOne \notin Workers

VARIABLES
    run,      \* WorkflowRun.status as committed
    outbox,   \* WorkflowDispatchOutbox.status as committed
    batch,    \* per publisher: the rows of its query it has still to submit
    marks,    \* per publisher: the statuses its open transaction has flushed
    wf,       \* Temporal: the workflow execution of each workflow id
    claim,    \* Temporal: the executor of the current activity attempt
    body,     \* per worker: the run whose activity body it executes, or 0
    faults    \* what has gone wrong so far

vars == <<run, outbox, batch, marks, wf, claim, body, faults>>
apiVars == <<run, outbox>>
publisherVars == <<batch, marks>>

Unmarked == "unmarked"
NoMarks == [r \in Runs |-> Unmarked]
NoRun == 0

TypeOK ==
    /\ run \in [Runs -> {"none", "queued", "completed"}]
    /\ outbox \in [Runs -> {"none", "pending", "submitted", "failed"}]
    /\ batch \in [Publishers -> SUBSET Runs]
    /\ \A p \in Publishers : Cardinality(batch[p]) <= Limit
    /\ marks \in [Publishers -> [Runs -> {Unmarked, "submitted", "failed"}]]
    /\ wf \in [Runs -> {"absent", "open", "closed"}]
    /\ claim \in [Runs -> Workers \union {NoOne}]
    /\ body \in [Workers -> Runs \union {NoRun}]
    /\ faults \in 0..MaxFaults

Init ==
    /\ run = [r \in Runs |-> "none"]
    /\ outbox = [r \in Runs |-> "none"]
    /\ batch = [p \in Publishers |-> {}]
    /\ marks = [p \in Publishers |-> NoMarks]
    /\ wf = [r \in Runs |-> "absent"]
    /\ claim = [r \in Runs |-> NoOne]
    /\ body = [w \in Workers |-> NoRun]
    /\ faults = 0

Fault == faults < MaxFaults /\ faults' = faults + 1

-----------------------------------------------------------------------------
(* The API side.                                                           *)

\* _queue_run and _queue_outbox in the request's transaction: one commit.  The
\* rows are created before it, so they may become visible in any order.
Enqueue(r) ==
    /\ run[r] = "none"
    /\ run' = [run EXCEPT ![r] = "queued"]
    /\ outbox' = [outbox EXCEPT ![r] = "pending"]
    /\ UNCHANGED <<publisherVars, wf, claim, body, faults>>

-----------------------------------------------------------------------------
(* The publisher.                                                          *)

\* publish_pending's query: not yet submitted, oldest first, at most Limit.
Unsubmitted == {r \in Runs : outbox[r] \in {"pending", "failed"}}

SelectedWithoutLimit == Unsubmitted

Selected ==
    {r \in Unsubmitted : Cardinality({s \in Unsubmitted : s < r}) < Limit}

Idle(p) == batch[p] = {} /\ marks[p] = NoMarks

\* The later steps use the rows as the query read them.
ReadPending(p) ==
    /\ Idle(p)
    /\ Unsubmitted # {}
    /\ batch' = [batch EXCEPT ![p] = Selected]
    /\ UNCHANGED <<apiVars, marks, wf, claim, body, faults>>

\* Temporal's start_workflow under its default id reuse policy: while an
\* execution is open it raises AlreadyStarted, which the submitter swallows; an
\* id that is new, or whose execution is closed, starts one.
StartWorkflow(r) ==
    wf' = [wf EXCEPT ![r] = "open"]

MarkAndStopOnError(p, r, m) ==
    /\ batch' = [batch EXCEPT ![p] = IF m = "failed" THEN {} ELSE @ \ {r}]
    /\ marks' = [marks EXCEPT ![p][r] = m]

\* What publish_one flushes; the loop of publish_pending goes on.
Mark(p, r, m) ==
    /\ batch' = [batch EXCEPT ![p] = @ \ {r}]
    /\ marks' = [marks EXCEPT ![p][r] = m]

\* The row the loop of publish_pending comes to next.
Head(p) == IF batch[p] = {} THEN NoRun ELSE Min(batch[p])

\* publish_one: submit returns.
SubmitAccepted(p) ==
    /\ Head(p) \in Runs \ Poison
    /\ StartWorkflow(Head(p))
    /\ Mark(p, Head(p), "submitted")
    /\ UNCHANGED <<apiVars, claim, body, faults>>

MarkRaisedAsSubmitted(p, r) == Mark(p, r, "submitted")

\* How publish_one marks a row when submit raises.
MarkRaised(p, r) == Mark(p, r, "failed")

\* publish_one: submit raises; unless it rejects the request, the server may
\* have taken it.
SubmitRaised(p) ==
    /\ Head(p) \in Runs
    /\ \/ Head(p) \in Poison /\ UNCHANGED <<wf, faults>>
       \/ Head(p) \notin Poison /\ Fault /\ (StartWorkflow(Head(p)) \/ UNCHANGED wf)
    /\ MarkRaised(p, Head(p))
    /\ UNCHANGED <<apiVars, claim, body>>

\* The end of the batch: session_scope commits what publish_one flushed, over
\* whatever another publisher has committed since the query.
CommitBatch(p) ==
    /\ batch[p] = {}
    /\ marks[p] # NoMarks
    /\ outbox' = [r \in Runs |-> IF marks[p][r] = Unmarked THEN outbox[r]
                                 ELSE marks[p][r]]
    /\ marks' = [marks EXCEPT ![p] = NoMarks]
    /\ UNCHANGED <<run, batch, wf, claim, body, faults>>

\* The process dies, or the commit fails: the flushed marks are rolled back and
\* the loop starts over with a fresh session.
LoseBatch(p) ==
    /\ ~Idle(p)
    /\ Fault
    /\ batch' = [batch EXCEPT ![p] = {}]
    /\ marks' = [marks EXCEPT ![p] = NoMarks]
    /\ UNCHANGED <<apiVars, wf, claim, body>>

-----------------------------------------------------------------------------
(* The activity.                                                           *)

\* Temporal hands the attempt of an open workflow to a free executor.
Take(w, r) ==
    /\ body[w] = NoRun
    /\ wf[r] = "open" /\ claim[r] = NoOne
    /\ body' = [body EXCEPT ![w] = r]
    /\ claim' = [claim EXCEPT ![r] = w]
    /\ UNCHANGED <<apiVars, publisherVars, wf, faults>>

\* start_to_close_timeout passes: the attempt is given up and may be retried
\* while its executor, if it is still there, carries on.  The workflows modelled
\* here set no retry_policy, so they retry without limit; RangeOperationWorkflow,
\* which limits its attempts to three, is modelled in RangeLifecycle.
AttemptTimesOut(r) ==
    /\ claim[r] # NoOne
    /\ IF body[claim[r]] = r THEN Fault ELSE UNCHANGED faults
    /\ claim' = [claim EXCEPT ![r] = NoOne]
    /\ UNCHANGED <<apiVars, publisherVars, wf, body>>

\* The body returns: its one transaction has committed with _finish_run, and the
\* answer closes the workflow if it is the current attempt's.
Finish(w) ==
    LET r == body[w] IN
    /\ r # NoRun
    /\ run' = [run EXCEPT ![r] = "completed"]
    /\ body' = [body EXCEPT ![w] = NoRun]
    /\ IF claim[r] = w
       THEN /\ claim' = [claim EXCEPT ![r] = NoOne]
            /\ wf' = [wf EXCEPT ![r] = "closed"]
       ELSE UNCHANGED <<claim, wf>>
    /\ UNCHANGED <<outbox, publisherVars, faults>>

\* The transaction has committed and the answer is lost: the attempt runs into
\* its timeout and is repeated.
FinishUnheard(w) ==
    /\ body[w] # NoRun
    /\ Fault
    /\ run' = [run EXCEPT ![body[w]] = "completed"]
    /\ body' = [body EXCEPT ![w] = NoRun]
    /\ UNCHANGED <<outbox, publisherVars, wf, claim>>

\* The worker dies, or the body raises: session_scope rolls everything back.
Fail(w) ==
    /\ body[w] # NoRun
    /\ Fault
    /\ body' = [body EXCEPT ![w] = NoRun]
    /\ UNCHANGED <<apiVars, publisherVars, wf, claim>>

-----------------------------------------------------------------------------
Publish(p) ==
    \/ ReadPending(p) \/ SubmitAccepted(p) \/ SubmitRaised(p)
    \/ CommitBatch(p) \/ LoseBatch(p)

Next ==
    \/ \E r \in Runs : Enqueue(r) \/ AttemptTimesOut(r) \/ \E w \in Workers : Take(w, r)
    \/ \E p \in Publishers : Publish(p)
    \/ \E w \in Workers : Finish(w) \/ FinishUnheard(w) \/ Fail(w)

\* The loop runs for ever, an activity body ends, an attempt nobody executes times
\* out, and an executor that is free takes what is waiting.
Fairness ==
    /\ \A p \in Publishers : WF_vars(Publish(p))
    /\ \A w \in Workers : WF_vars(Finish(w)) /\ WF_vars(\E r \in Runs : Take(w, r))
    /\ \A r \in Runs : WF_vars(AttemptTimesOut(r) /\ UNCHANGED faults)

Spec == Init /\ [][Next]_vars /\ Fairness

-----------------------------------------------------------------------------
\* An outbox row that says "submitted" stands for a workflow that Temporal has
\* taken: no crash, error or second publisher loses a request by marking it.
SubmittedWasTaken ==
    \A r \in Runs : outbox[r] = "submitted" => wf[r] # "absent"

\* A committed request is executed: whatever submissions raise, publishers and
\* workers die, and however long the row at the head of the queue is rejected,
\* its run is completed by an activity that has returned.
RunsFinish ==
    \A r \in Runs \ Poison : run[r] = "queued" ~> run[r] = "completed"
=============================================================================
