--------------------------- MODULE PlanGeneration ---------------------------
(***************************************************************************)
(* Real plan generation for one manifest: the decisions it depends on      *)
(* (PlanActivation) and the worker activity that executes it               *)
(* (secp_worker/plan_gen).                                                 *)
(*                                                                         *)
(* The activity is delivered any number of times at any moment and to      *)
(* several workers at once: that is what the outbox, the retries of        *)
(* Temporal and repeated requests amount to (WorkflowOutbox).              *)
(*                                                                         *)
(* The whole activity body runs in ONE database transaction: the lease row,*)
(* the attempt row and the spent attempt are flushed before the first      *)
(* credential is resolved and committed only when the body returns.  Until *)
(* then other workers see none of it, but an insert that collides with it  *)
(* in a unique index waits for that transaction to end.  An activity that  *)
(* dies, or raises, leaves nothing behind in the database.                 *)
(*                                                                         *)
(* The operation fingerprint is a digest over the dossier and the upstream *)
(* facts and not over the authorization, so it is the dossier's number.    *)
(***************************************************************************)
EXTENDS PlanActivation

CONSTANTS
    Workers,        \* executors of the activity
    AttemptBudget   \* PLAN_EXECUTION_ATTEMPT_BUDGET

ASSUME BudgetAssumption == AttemptBudget \in Nat \ {0} /\ IsFiniteSet(Workers)

VARIABLES
    leases,     \* per authorization version: committed leases in epoch order
    results,    \* versions with a committed RealPlanGenerationResult
    work        \* per worker: where its activity body is and what it read

planVars == <<leases, results, work>>
vars == <<activationVars, planVars>>

LeaseStatus == {"active", "consumed", "expired", "recovery_required"}
Lease(fp, status) == [fp |-> fp, status |-> status]
Steps == {"bound", "checked", "inspected", "granted", "inserting", "running"}
NoWork == [at |-> "idle"]
NoRow == <<0, 0>>   \* a lease row is named by its version and its epoch

TypeOK ==
    /\ ActivationTypeOK
    /\ leases \in [Versions -> Seq([fp : Dossiers, status : LeaseStatus])]
    /\ results \subseteq Versions
    /\ work \in [Workers -> {NoWork} \union
                    [at : Steps, ver : Versions,
                     fp : Dossiers, epoch : Nat, stale : (0..MaxVersions) \X Nat]]

Init ==
    /\ ActivationInit
    /\ leases = [v \in Versions |-> << >>]
    /\ results = {}
    /\ work = [w \in Workers |-> NoWork]

-----------------------------------------------------------------------------
(* The leases.                                                             *)

\* active_lease and _has_recovery_required_lease: by fingerprint alone.
LeaseRows(fp, status) ==
    UNION {{<<v, i>> : i \in {j \in DOMAIN leases[v] : leases[v][j] = Lease(fp, status)}} :
               v \in Versions}

\* The sum of attempts_used over the version's leases: begin_attempt runs once
\* in the life of a lease.
PriorUsed(v) == Len(leases[v])

WithinBudgetAndOne(v) == PriorUsed(v) <= AttemptBudget

WithinBudget(v) == PriorUsed(v) < AttemptBudget

\* Why acquire_execution_lease refuses before it looks at the budget, with live
\* telling whether an active lease it finds is still within its ttl.
Blocked(fp, live) ==
    \/ LeaseRows(fp, "recovery_required") # {}
    \/ LeaseRows(fp, "active") # {} /\ live

\* The update that expires a stale lease waits for a transaction that has
\* expired the same row.
RowLocked(w) ==
    /\ work[w].stale # NoRow
    /\ \E x \in Workers \ {w} :
          /\ work[x].at \in {"granted", "inserting", "running"}
          /\ work[x].stale = work[w].stale

\* _next_lease_epoch.
NextEpoch(v) == Len(leases[v]) + 1

\* Workers whose open transaction holds an inserted active lease.
Holds(w) == work[w].at = "running"

NeverWaits(w) == FALSE

\* The insert waits for a transaction that holds the same fingerprint (the
\* active partial index) or the same epoch of the same version.
Waits(w) ==
    \E x \in Workers \ {w} :
        /\ Holds(x)
        /\ \/ work[x].fp = work[w].fp
           \/ work[x].ver = work[w].ver /\ work[x].epoch = work[w].epoch

\* The insert hits a committed row: an active lease that this worker has not
\* expired itself, or the epoch of another lease of the version.
Collides(w) ==
    \/ LeaseRows(work[w].fp, "active") \ {work[w].stale} # {}
    \/ work[w].epoch <= Len(leases[work[w].ver])

-----------------------------------------------------------------------------
(* The activity body.                                                      *)

Goto(w, step) == work' = [work EXCEPT ![w].at = step]

\* run_real_plan_generation_activity_body and run_plan_generation: a worker takes
\* a delivery, combined readiness holds, assemble_execution_binding fixes what is
\* executed.  (A delivery that finds it not ready is refused and changes nothing.)
Load(w) ==
    /\ work[w] = NoWork
    /\ Ready
    /\ work' = [work EXCEPT ![w] = [at |-> "bound", ver |-> authz.no, fp |-> dossier.no,
                                    epoch |-> 0, stale |-> NoRow]]
    /\ UNCHANGED <<activationVars, leases, results>>

\* The body returns and its transaction commits.
Return(w) ==
    /\ work' = [work EXCEPT ![w] = NoWork]
    /\ UNCHANGED activationVars

\* _refuse: before a lease is held the body may stop for a reason of its own (the
\* activity is cancelled, a gate or an upstream fact is not ready, the composition
\* is sealed, a destination does not match).  It records a refused attempt, of
\* which there is one per fingerprint: a racing refusal raises (see Die).
Refuse(w) ==
    /\ work[w].at = "bound"
    /\ work[w].ver \notin results
    /\ Return(w)
    /\ UNCHANGED <<leases, results>>

\* existing_successful_result: a replay returns the stored result.
Replay(w) ==
    /\ work[w].at = "bound"
    /\ work[w].ver \in results
    /\ Return(w)
    /\ UNCHANGED <<leases, results>>

\* No result yet, and the composition and the destinations verify.
Verify(w) ==
    /\ work[w].at = "bound"
    /\ work[w].ver \notin results
    /\ Goto(w, "checked")
    /\ UNCHANGED <<activationVars, leases, results>>

\* acquire_execution_lease: nothing blocks.  An active lease that is past its ttl
\* is the one to expire.
Inspect(w) ==
    /\ work[w].at = "checked"
    /\ \E live \in BOOLEAN : ~Blocked(work[w].fp, live)
    /\ work' = [work EXCEPT ![w].at = "inspected",
                            ![w].stale = IF LeaseRows(work[w].fp, "active") = {} THEN NoRow
                                         ELSE CHOOSE row \in LeaseRows(work[w].fp, "active") : TRUE]
    /\ UNCHANGED <<activationVars, leases, results>>

\* The stale lease is expired in this transaction, then the budget is summed.
Acquire(w) ==
    /\ work[w].at = "inspected"
    /\ ~RowLocked(w)
    /\ WithinBudget(work[w].ver)
    /\ Goto(w, "granted")
    /\ UNCHANGED <<activationVars, leases, results>>

\* What the transaction commits to the rows that were there: the stale one expired.
Kept(w) ==
    [v \in Versions |-> [i \in DOMAIN leases[v] |->
        IF <<v, i>> = work[w].stale THEN Lease(work[w].fp, "expired") ELSE leases[v][i]]]

\* acquire_execution_lease refuses: blocked, or the budget is exhausted (after the
\* stale lease was expired, which the commit of the refusal keeps).
RefuseLease(w) ==
    /\ \/ /\ work[w].at = "checked"
          /\ \E live \in BOOLEAN : Blocked(work[w].fp, live)
          /\ UNCHANGED leases
       \/ /\ work[w].at = "inspected"
          /\ ~RowLocked(w)
          /\ ~WithinBudget(work[w].ver)
          /\ leases' = Kept(w)
    /\ Return(w)
    /\ UNCHANGED results

\* The epoch is a query of its own, later than the checks.
ReadEpoch(w) ==
    /\ work[w].at = "granted"
    /\ work' = [work EXCEPT ![w].at = "inserting", ![w].epoch = NextEpoch(work[w].ver)]
    /\ UNCHANGED <<activationVars, leases, results>>

\* The insert under its savepoint, and begin_attempt: flushed, not committed.  The
\* execution that follows (attestation, rendering, the two credentials, init, plan
\* and show) ends in one of the steps below.
Insert(w) ==
    /\ work[w].at = "inserting"
    /\ ~Waits(w) /\ ~Collides(w)
    /\ Goto(w, "running")
    /\ UNCHANGED <<activationVars, leases, results>>

\* The insert collides with a committed row: lease_contended, and only the
\* savepoint is rolled back.
LoseInsert(w) ==
    /\ work[w].at = "inserting"
    /\ ~Waits(w) /\ Collides(w)
    /\ leases' = Kept(w)
    /\ Return(w)
    /\ UNCHANGED results

\* ... and its own lease.
Leased(w, status) ==
    leases' = [Kept(w) EXCEPT ![work[w].ver] = Append(@, Lease(work[w].fp, status))]

AlwaysConsumed(w) == "consumed"

\* record_plan_generation_result: a result somebody else has recorded is returned
\* with this lease as it is; otherwise consume_lease.
RecordedAs(w) == IF work[w].ver \in results THEN "active" ELSE "consumed"

\* The plan succeeded: result, pending approval, lease and attempt in one commit.
Complete(w) ==
    /\ Holds(w)
    /\ Leased(w, RecordedAs(w))
    /\ results' = results \union {work[w].ver}
    /\ Return(w)

\* _terminate_running: fail_attempt, or require_recovery when a process may
\* still run or the workspace could not be removed.
Terminate(w, status) ==
    /\ Holds(w)
    /\ Leased(w, status)
    /\ Return(w)
    /\ UNCHANGED results

\* The worker dies, or the body raises (a refused row that a racing refusal has
\* inserted meanwhile, an exception no handler names): everything the transaction
\* flushed, the spent attempt included, is rolled back.
Die(w) ==
    /\ work[w] # NoWork
    /\ work' = [work EXCEPT ![w] = NoWork]
    /\ UNCHANGED <<activationVars, leases, results>>

-----------------------------------------------------------------------------
Body(w) ==
    \/ Load(w) \/ Refuse(w) \/ Replay(w) \/ Verify(w)
    \/ Inspect(w) \/ Acquire(w) \/ RefuseLease(w) \/ ReadEpoch(w) \/ Insert(w) \/ LoseInsert(w)
    \/ Complete(w)
    \/ \E status \in {"expired", "recovery_required"} : Terminate(w, status)

Next ==
    \/ Activation /\ UNCHANGED planVars
    \/ \E w \in Workers : Body(w) \/ Die(w)

Spec == Init /\ [][Next]_vars

-----------------------------------------------------------------------------
\* The edges the immutability guard and its trigger know.
Transitions == {<<"draft", "approved">>, <<"draft", "revoked">>, <<"approved", "revoked">>}

\* A decision is never undone: no interleaving of the handlers' reads and writes
\* takes a dossier or an authorization along an edge the immutability guard
\* forbids, so what was revoked is never approved again.
DecisionsStand ==
    [][/\ dossier'.no = dossier.no /\ dossier'.status # dossier.status
            => <<dossier.status, dossier'.status>> \in Transitions
       /\ authz'.no = authz.no /\ authz'.status # authz.status
            => <<authz.status, authz'.status>> \in Transitions]_vars

\* At no time do two workers execute a plan for the same operation: whatever is
\* redelivered, timed out or resubmitted, the lease index admits one.
OneProcess ==
    \A w, x \in Workers :
        Holds(w) /\ Holds(x) /\ work[w].fp = work[x].fp => w = x

\* A result is recorded with exactly one consumed lease, and a lease is consumed
\* only for a result, however often the operation is executed or replayed.
ResultsAreLeased ==
    \A v \in Versions :
        Cardinality({i \in DOMAIN leases[v] : leases[v][i].status = "consumed"})
            = IF v \in results THEN 1 ELSE 0

\* The attempt budget of a version is overrun by no more than the workers that had
\* summed it before the last lease was committed: the sum and the epoch are two
\* queries, and the index only separates workers that read the same epoch.
BudgetOverrunBounded ==
    \A v \in Versions :
        Len(leases[v]) <= AttemptBudget + Cardinality(Workers) - 1

\* The replay rule of run_plan_generation: an operation that has a successful
\* result is answered from it and is never executed again.
NothingRunsAfterResult ==
    \A w \in Workers : Holds(w) => work[w].ver \notin results
=============================================================================
