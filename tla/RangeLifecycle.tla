---------------------------- MODULE RangeLifecycle ----------------------------
(***************************************************************************)
(* The lifecycle of ONE range: the API transactions that start and abandon *)
(* operations (services/ranges.py), the worker that executes them          *)
(* (secp_worker/range/execution.py), the local Docker provider it drives   *)
(* (secp_worker/range/local_docker.py) and the Docker daemon underneath.   *)
(*                                                                         *)
(* An object is named 0 (the isolated network) or 1..N (the container of   *)
(* the template's component of that index).  The daemon gives every object *)
(* it creates a new id; 0 stands for "no object" / "no id".                *)
(***************************************************************************)
EXTENDS Naturals, FiniteSets

CONSTANTS N,            \* components of the template
          MaxOps,       \* bound: operations ever started on the range
          MaxIds,       \* bound: objects the daemon ever creates
          MaxAttempts,  \* RetryPolicy(maximum_attempts=3) of the workflow
          Execs,        \* worker threads that can execute an attempt
          Clients,      \* API requests that can be open at the same time
          Overlap,      \* may a thread outlive the attempt that started it?
          LiveAbandon   \* may an operation be abandoned while a thread runs it?

ASSUME ConstAssumption ==
    /\ N \in Nat \ {0} /\ MaxOps \in Nat /\ MaxIds \in Nat
    /\ MaxAttempts \in Nat \ {0}
    /\ Overlap \in BOOLEAN /\ LiveAbandon \in BOOLEAN

VARIABLES state,        \* RangeInstance.state
          verdict,      \* RangeInstance.residue_verdict ("none" when NULL)
          competing,    \* the competition's state is "running"
          op,           \* RangeDeploymentOperation rows, with their workflow
          nOps,         \* how many operations exist
          rows,         \* RangeProviderResource rows, by object
          daemon,       \* what exists on the Docker daemon, by object
          nextId,       \* the next id the daemon hands out
          ex,           \* worker threads
          tx            \* open start_operation transactions

vars == <<state, verdict, competing, op, nOps, rows, daemon, nextId, ex, tx>>

-----------------------------------------------------------------------------
(* Vocabulary *)

Names == 0..N
Net == 0
Components == 1..N
OpIds == 1..MaxOps
Ids == 0..MaxIds

RangeState == {"draft", "deploying", "ready", "active", "resetting",
               "recovery_required", "failed", "destroying", "destroyed"}
Kinds == {"deploy", "reset", "destroy"}
Statuses == {"pending", "running", "succeeded", "failed", "unproven"}
InFlightStatuses == {"pending", "running"}

AllowedFrom(k) ==
    CASE k = "deploy"  -> {"draft", "failed"}
      [] k = "reset"   -> {"ready", "active", "failed"}
      [] k = "destroy" -> {"draft", "ready", "active", "failed", "recovery_required"}

InFlightState(k) ==
    CASE k = "deploy"  -> "deploying"
      [] k = "reset"   -> "resetting"
      [] k = "destroy" -> "destroying"

\* stale: the lease of an in-flight operation has run out.  wf and attempts are
\* the Temporal workflow's: queued (an attempt may start), running, done.
NoOp == [kind |-> "deploy", status |-> "none",
         stale |-> FALSE, wf |-> "done", attempts |-> 0]
OpRecord == [kind : Kinds, status : Statuses \cup {"none"},
             stale : BOOLEAN, wf : {"queued", "running", "done"},
             attempts : 0..MaxAttempts]

\* st is "none" for a resource that was never recorded.
RowStates == {"none", "created", "verified", "removed", "unproven", "failed"}
NoRow == [id |-> 0, st |-> "none"]
RowRecord == [id : Ids, st : RowStates]

\* removed_at is written exactly when the state becomes "removed", and cleared
\* exactly when the row is observed again, so one field stands for both.
Live(n) == rows[n].st \notin {"none", "removed"}

\* A worker thread: pc is the provider step it is about to run, k the object
\* the step is about, snap the live resources it read when it claimed the
\* operation, made the objects it observed itself creating, ver the ones it
\* verified, out the teardown outcomes, ok the provider's verdict.
Outcomes == {"none", "removed", "present", "unproven"}
Pcs == {"idle", "claim", "preflight", "remove", "network", "pull", "start",
        "verify", "record"}
IdleThread == [pc |-> "idle", op |-> 0, current |-> FALSE, write |-> FALSE, k |-> 0,
               snap |-> [n \in Names |-> 0], made |-> [n \in Names |-> 0],
               ver |-> {}, out |-> [n \in Names |-> "none"],
               ok |-> FALSE, probe |-> TRUE]
Thread == [pc : Pcs, op : 0..MaxOps, current : BOOLEAN, write : BOOLEAN,
           k : Names, snap : [Names -> Ids], made : [Names -> Ids],
           ver : SUBSET Names, out : [Names -> Outcomes],
           ok : BOOLEAN, probe : BOOLEAN]

NoTx == [kind |-> "none", fresh |-> FALSE]
TxRecord == [kind : Kinds \cup {"none"}, fresh : BOOLEAN]

\* Every column, object and thread stays within its vocabulary; in particular
\* Temporal never counts more attempts of an operation than its retry policy has.
TypeOK ==
    /\ state \in RangeState
    /\ verdict \in {"none", "clean", "residue", "unproven"}
    /\ competing \in BOOLEAN
    /\ op \in [OpIds -> OpRecord]
    /\ nOps \in 0..MaxOps
    /\ rows \in [Names -> RowRecord]
    /\ daemon \in [Names -> Ids]
    /\ nextId \in 1..(MaxIds + 1)
    /\ ex \in [Execs -> Thread]
    /\ tx \in [Clients -> TxRecord]

InFlight(o) == op[o].status \in InFlightStatuses
Executing(o) == {e \in Execs : ex[e].pc # "idle" /\ ex[e].op = o}

Init ==
    /\ state = "draft" /\ verdict = "none" /\ competing = FALSE
    /\ op = [o \in OpIds |-> NoOp] /\ nOps = 0
    /\ rows = [n \in Names |-> NoRow]
    /\ daemon = [n \in Names |-> 0] /\ nextId = 1
    /\ ex = [e \in Execs |-> IdleThread]
    /\ tx = [c \in Clients |-> NoTx]

-----------------------------------------------------------------------------
\* The operation gets a terminal status; a resolved operation is never stale.
Resolved(opr, o, st) == [opr EXCEPT ![o].status = st, ![o].stale = FALSE]

\* The workflow is over (its attempts no longer matter).
WorkflowDone(opr, o) == [opr EXCEPT ![o].wf = "done", ![o].attempts = 0]

(* record_event: UNIQUE(range_instance_id, sequence).  An event committed   *)
(* by one transaction makes the sequence number another open transaction    *)
(* has read unusable, so that one will fail on insert.                      *)
EventCommitted(txs) ==
    tx' = [c \in Clients |-> IF txs[c] = NoTx THEN NoTx
                             ELSE [txs[c] EXCEPT !.fresh = FALSE]]

SequenceUnchecked(c) == TRUE

SequenceFree(c) == tx[c].fresh

RetainAsUnproven ==
    rows' = [n \in Names |-> IF Live(n) /\ rows[n].st # "failed"
                             THEN [rows[n] EXCEPT !.st = "unproven"]
                             ELSE rows[n]]

(* API: start_operation *)

StartableAnew(kind) == state \in AllowedFrom(kind) \cup {"destroyed"}

Startable(kind) == state # "destroyed" /\ state \in AllowedFrom(kind)

BeginStart(c, kind) ==
    /\ tx[c] = NoTx /\ nOps < MaxOps
    /\ Startable(kind)
    /\ \A o \in OpIds : ~InFlight(o)
    /\ tx' = [tx EXCEPT ![c] = [kind |-> kind, fresh |-> TRUE]]
    /\ UNCHANGED <<state, verdict, competing, op, nOps, rows, daemon, nextId, ex>>

CommitStart(c) ==
    /\ tx[c] # NoTx /\ SequenceFree(c)
    /\ nOps < MaxOps
    /\ nOps' = nOps + 1
    /\ op' = [op EXCEPT ![nOps + 1] =
                [kind |-> tx[c].kind, status |-> "pending",
                 stale |-> FALSE, wf |-> "queued", attempts |-> 0]]
    /\ state' = InFlightState(tx[c].kind)
    /\ EventCommitted([tx EXCEPT ![c] = NoTx])
    /\ UNCHANGED <<verdict, competing, rows, daemon, nextId, ex>>

RollbackStart(c) ==
    /\ tx[c] # NoTx /\ ~SequenceFree(c)
    /\ tx' = [tx EXCEPT ![c] = NoTx]
    /\ UNCHANGED <<state, verdict, competing, op, nOps, rows, daemon, nextId, ex>>

(* API: abandon_operation.  Without LiveAbandon the operator has confirmed  *)
(* that no worker is executing the operation, as the refusal text asks.     *)

AbandonableWhilePending(o) == op[o].status = "pending"

Abandonable(o) == InFlight(o)

Abandon(o) ==
    /\ Abandonable(o)
    /\ ~LiveAbandon => Executing(o) = {}
    /\ op' = Resolved(op, o, "unproven")
    /\ RetainAsUnproven
    /\ state' = "recovery_required"
    /\ EventCommitted(tx)
    /\ UNCHANGED <<verdict, competing, nOps, daemon, nextId, ex>>

AbandonStale(o) == op[o].stale /\ Abandon(o)
AbandonForced(o) == ~op[o].stale /\ Abandon(o)

\* operation_staleness: the lease runs out with no new step stamp.
LeaseExpires(o) ==
    /\ InFlight(o) /\ ~op[o].stale
    /\ op' = [op EXCEPT ![o].stale = TRUE]
    /\ UNCHANGED <<state, verdict, competing, nOps, rows, daemon, nextId, ex, tx>>

(* API: start_competition, stop_competition *)

StartCompetition ==
    /\ ~competing /\ state \in {"ready", "active"}
    /\ competing' = TRUE /\ state' = "active"
    /\ EventCommitted(tx)
    /\ UNCHANGED <<verdict, op, nOps, rows, daemon, nextId, ex>>

StopCompetition ==
    /\ competing
    /\ competing' = FALSE
    /\ IF state = "active" THEN state' = "ready" /\ EventCommitted(tx)
                           ELSE UNCHANGED <<state, tx>>
    /\ UNCHANGED <<verdict, op, nOps, rows, daemon, nextId, ex>>

-----------------------------------------------------------------------------
(* Worker: the preamble of execute_range_operation *)

AttemptStarts(o) ==
    op[o].wf = "queued"

\* The workflow after an attempt ends in a retryable way.
RequeueForever(o, opr) == [opr EXCEPT ![o].wf = "queued"]

Requeue(o, opr) ==
    IF opr[o].attempts < MaxAttempts THEN [opr EXCEPT ![o].wf = "queued"]
    ELSE WorkflowDone(opr, o)

\* A sealed provider, or a worker on another database: nothing is written.
RefuseUnresolved(o, retryable) ==
    /\ AttemptStarts(o)
    /\ op' = IF retryable THEN Requeue(o, [op EXCEPT ![o].attempts = @ + 1])
             ELSE WorkflowDone(op, o)
    /\ UNCHANGED <<state, verdict, competing, nOps, rows, daemon, nextId, ex, tx>>

\* "operation_not_in_flight": already resolved, not executed.
Executable(o) == InFlight(o)

RefuseResolved(o) ==
    /\ AttemptStarts(o) /\ ~Executable(o)
    /\ op' = WorkflowDone(op, o)
    /\ UNCHANGED <<state, verdict, competing, nOps, rows, daemon, nextId, ex, tx>>

\* "lease_expired": _fail_operation.
FailExpired(o) ==
    /\ AttemptStarts(o) /\ InFlight(o) /\ op[o].stale
    /\ op' = WorkflowDone(Resolved(op, o, "failed"), o)
    /\ RetainAsUnproven
    /\ state' = "recovery_required"
    /\ EventCommitted(tx)
    /\ UNCHANGED <<verdict, competing, nOps, daemon, nextId, ex>>

\* The status is read and found in flight.  The later "running" is a real
\* UPDATE unless this session has loaded "running" (steps already planned).
PickUp(e, o) ==
    /\ AttemptStarts(o) /\ ex[e].pc = "idle"
    /\ Executable(o) /\ ~op[o].stale
    /\ op' = [op EXCEPT ![o].wf = "running", ![o].attempts = @ + 1]
    /\ ex' = [ex EXCEPT ![e] = [IdleThread EXCEPT !.pc = "claim", !.op = o,
                 !.current = TRUE,
                 !.write = op[o].status # "running"]]
    /\ UNCHANGED <<state, verdict, competing, nOps, rows, daemon, nextId, tx>>

\* Steps planned and committed, status committed, live resources read once.
Claim(e) ==
    /\ ex[e].pc = "claim"
    /\ op' = [op EXCEPT ![ex[e].op].status = IF ex[e].write THEN "running" ELSE @]
    /\ ex' = [ex EXCEPT ![e].pc = "preflight",
                        ![e].snap = [n \in Names |-> IF Live(n) THEN rows[n].id ELSE 0],
                        ![e].ver = {Net} \cap {n \in Names : rows[n].st = "verified"}]
    /\ UNCHANGED <<state, verdict, competing, nOps, rows, daemon, nextId, tx>>

-----------------------------------------------------------------------------
(* Worker: the provider's steps.  Every ctx.begin / ctx.finish goes through *)
(* on_change, which commits status "running" whatever the row holds by now, *)
(* and renews the lease when the step had no stamp yet (a later attempt may *)
(* be re-running a step that an earlier one has stamped).                   *)

OnChange(e) ==
    \E s \in IF op[ex[e].op].attempts = 1 THEN {FALSE} ELSE {FALSE, op[ex[e].op].stale} :
        op' = [op EXCEPT ![ex[e].op].status = "running", ![ex[e].op].stale = s]

Kind(e) == op[ex[e].op].kind

\* The object ids are drawn from 1..MaxIds.
Created(n) == daemon' = [daemon EXCEPT ![n] = nextId] /\ nextId' = nextId + 1

\* The provider gives up on the operation with ok = False.
GiveUp(e) == ex' = [ex EXCEPT ![e].pc = "record", ![e].ok = FALSE]

Preflight(e) ==
    /\ ex[e].pc = "preflight"
    /\ OnChange(e)
    /\ \/ /\ ex' = [ex EXCEPT ![e].pc = IF Kind(e) = "deploy" THEN "network" ELSE "remove",
                              ![e].k = IF Kind(e) = "deploy" THEN Net ELSE 1]
       \/ /\ Kind(e) # "destroy"            \* daemon unreachable
          /\ GiveUp(e)
       \/ /\ Kind(e) = "destroy"            \* unreachable: everything unproven
          /\ ex' = [ex EXCEPT ![e].pc = "record", ![e].probe = FALSE,
                      ![e].out = [n \in Names |-> IF ex[e].snap[n] # 0 THEN "unproven" ELSE "none"]]
    /\ UNCHANGED <<state, verdict, competing, nOps, rows, daemon, nextId, tx>>

CreateNetwork(e) ==
    /\ ex[e].pc = "network"
    /\ OnChange(e)
    /\ \/ /\ daemon[Net] = 0 /\ nextId <= MaxIds
          /\ Created(Net)
          /\ ex' = [ex EXCEPT ![e].pc = "pull", ![e].made[Net] = nextId,
                              ![e].ver = @ \cup {Net}]
          /\ EventCommitted(tx)
       \/ /\ GiveUp(e)                      \* refused: name taken, daemon away
          /\ UNCHANGED <<daemon, nextId, tx>>
       \/ /\ daemon[Net] = 0 /\ nextId <= MaxIds   \* done, but the answer was lost
          /\ Created(Net) /\ GiveUp(e)
          /\ UNCHANGED tx
    /\ UNCHANGED <<state, verdict, competing, nOps, rows>>

Pull(e) ==
    /\ ex[e].pc = "pull"
    /\ OnChange(e)
    /\ \/ ex' = [ex EXCEPT ![e].pc = "start", ![e].k = 1]
       \/ GiveUp(e)
    /\ UNCHANGED <<state, verdict, competing, nOps, rows, daemon, nextId, tx>>

\* docker run --name: refused when the name is taken or the network missing;
\* it may also fail after the container exists (start refused, CLI timeout).
StartContainer(e) ==
    /\ ex[e].pc = "start"
    /\ OnChange(e)
    /\ LET n == ex[e].k
           possible == daemon[n] = 0 /\ daemon[Net] # 0 /\ nextId <= MaxIds
       IN  \/ /\ possible
              /\ Created(n)
              /\ ex' = [ex EXCEPT ![e].made[n] = nextId,
                                  ![e].pc = IF n = N THEN "verify" ELSE "start",
                                  ![e].k = IF n = N THEN n ELSE n + 1]
              /\ EventCommitted(tx)
           \/ /\ GiveUp(e)
              /\ UNCHANGED <<daemon, nextId, tx>>
           \/ /\ possible
              /\ Created(n) /\ GiveUp(e)
              /\ UNCHANGED tx
    /\ UNCHANGED <<state, verdict, competing, nOps, rows>>

SomeAnswered(answered) == answered > 0

AllAnswered(answered) == answered = N

\* Readiness by observation, component by component; stops at the first
\* component that does not answer.
Verify(e) ==
    /\ ex[e].pc = "verify"
    /\ OnChange(e)
    /\ \E answered \in 0..N :
         /\ \A n \in 1..answered : daemon[n] # 0
         /\ ex' = [ex EXCEPT ![e].pc = "record", ![e].ok = AllAnswered(answered),
                             ![e].ver = @ \cup (1..answered)]
         /\ IF answered > 0 THEN EventCommitted(tx) ELSE UNCHANGED tx
    /\ UNCHANGED <<state, verdict, competing, nOps, rows, daemon, nextId>>

(* _remove_one on the id that was recorded for object n: the outcome it     *)
(* reports, and whether the object is gone afterwards.                      *)
RemoveOne(n, id, outcome, gone) ==
    \/ outcome = "unproven" /\ ~gone                      \* existence unknown
    \/ daemon[n] # id /\ outcome = "removed" /\ ~gone     \* already absent
    \/ daemon[n] = id /\ outcome = "present" /\ ~gone     \* labels not readable as ours
    \/ daemon[n] = id /\ outcome \in {"removed", "unproven"}  \* rm requested / unanswered

DaemonAfter(n, gone) == daemon' = IF gone THEN [daemon EXCEPT ![n] = 0] ELSE daemon

\* reset: the recorded containers, before they are recreated.
ResetRemove(e) ==
    /\ ex[e].pc = "remove" /\ Kind(e) = "reset"
    /\ OnChange(e)
    /\ LET n == ex[e].k
           then == IF n < N THEN [ex[e] EXCEPT !.k = n + 1]
                   ELSE [ex[e] EXCEPT !.pc = IF ex[e].snap[Net] = 0 THEN "network" ELSE "pull"]
       IN  \/ /\ ex[e].snap[n] = 0
              /\ ex' = [ex EXCEPT ![e] = then]
              /\ UNCHANGED daemon
           \/ /\ ex[e].snap[n] # 0
              /\ \E outcome \in Outcomes \ {"none"}, gone \in BOOLEAN :
                    /\ RemoveOne(n, ex[e].snap[n], outcome, gone)
                    /\ DaemonAfter(n, gone)
                    /\ IF outcome = "removed" THEN ex' = [ex EXCEPT ![e] = then]
                                              ELSE GiveUp(e)
    /\ UNCHANGED <<state, verdict, competing, nOps, rows, nextId, tx>>

\* destroy: the recorded containers in order, then the recorded network.
DestroyRemove(e) ==
    /\ ex[e].pc = "remove" /\ Kind(e) = "destroy"
    /\ OnChange(e)
    /\ LET n == ex[e].k
           then == IF n = Net THEN [ex[e] EXCEPT !.pc = "record"]
                   ELSE [ex[e] EXCEPT !.k = IF n < N THEN n + 1 ELSE Net]
       IN  \/ /\ ex[e].snap[n] = 0
              /\ ex' = [ex EXCEPT ![e] = then]
              /\ UNCHANGED daemon
           \/ /\ ex[e].snap[n] # 0
              /\ \E outcome \in Outcomes \ {"none"}, gone \in BOOLEAN :
                    /\ RemoveOne(n, ex[e].snap[n], outcome, gone)
                    /\ DaemonAfter(n, gone)
                    /\ ex' = [ex EXCEPT ![e] = [then EXCEPT !.out[n] = outcome]]
    /\ UNCHANGED <<state, verdict, competing, nOps, rows, nextId, tx>>

-----------------------------------------------------------------------------
(* Worker: the final transactions *)

\* The attempt returns; a thread whose attempt timed out is not listened to.
Completed(e, opr) ==
    IF ex[e].current THEN WorkflowDone(opr, ex[e].op) ELSE opr

\* _persist_resources: what the provider reported is live again; nothing is
\* ever marked removed here.  A successful reset also reports the kept network.
Reported(e) ==
    [n \in Names |->
        IF ex[e].made[n] = 0 /\ n = Net /\ ex[e].ok /\ Kind(e) = "reset"
        THEN ex[e].snap[Net] ELSE ex[e].made[n]]

ObservedRow(e, n) ==
    [id |-> Reported(e)[n], st |-> IF n \in ex[e].ver THEN "verified" ELSE "created"]

PersistAndRetire(e) ==
    rows' = [n \in Names |-> IF Reported(e)[n] # 0 THEN ObservedRow(e, n)
                             ELSE IF Live(n) THEN [rows[n] EXCEPT !.st = "removed"] ELSE rows[n]]

PersistResources(e) ==
    rows' = [n \in Names |-> IF Reported(e)[n] # 0 THEN ObservedRow(e, n) ELSE rows[n]]

RecordBringUp(e) ==
    /\ ex[e].pc = "record" /\ Kind(e) # "destroy"
    /\ PersistResources(e)
    /\ op' = Completed(e, Resolved(op, ex[e].op, IF ex[e].ok THEN "succeeded" ELSE "failed"))
    /\ state' = IF ex[e].ok THEN "ready" ELSE "failed"
    /\ ex' = [ex EXCEPT ![e] = IdleThread]
    /\ EventCommitted(tx)
    /\ UNCHANGED <<verdict, competing, nOps, daemon, nextId>>

\* What _confirm_absent asks the daemon about once more.
Asked(e, reachable) ==
    {n \in Names : reachable /\ ex[e].out[n] \in {"removed", "unproven"}}

\* The provider's final answer: _confirm_absent on every outcome, unless the
\* daemon stopped answering or changed identity; unknown is the set of objects
\* whose existence check could not be trusted.
Confirmed(e, reachable, unknown) ==
    [n \in Names |->
        IF ex[e].out[n] = "none" THEN "none"
        ELSE IF ~reachable THEN "unproven"
        ELSE IF ex[e].out[n] = "present" THEN "present"
        ELSE IF n \in unknown THEN "unproven"
        ELSE IF daemon[n] = ex[e].snap[n] THEN "present" ELSE "removed"]

RowStateFor(outcome) ==
    CASE outcome = "removed"  -> "removed"
      [] outcome = "present"  -> "failed"
      [] outcome = "unproven" -> "unproven"

\* Strongest claim first: an unreachable probe observed nothing; a resource
\* confirmed present is a fact; clean needs every live resource proved absent.
VerdictIgnoringUnproven(reachable, present, unproven) ==
    IF ~reachable THEN "unproven" ELSE IF present # {} THEN "residue" ELSE "clean"

Verdict(reachable, present, unproven) ==
    IF ~reachable THEN "unproven"
    ELSE IF present # {} THEN "residue"
    ELSE IF unproven # {} THEN "unproven" ELSE "clean"

StateTrustingSilence(headline) ==
    IF headline = "residue" THEN "recovery_required" ELSE "destroyed"

StateAfterTeardown(headline) ==
    IF headline = "clean" THEN "destroyed" ELSE "recovery_required"

\* Rows are matched by name among the rows live NOW; a live row the teardown
\* said nothing about counts as unproven.
RecordDestroy(e) ==
    /\ ex[e].pc = "record" /\ Kind(e) = "destroy"
    /\ \E reachable \in IF ex[e].probe THEN BOOLEAN ELSE {FALSE} :
       \E unknown \in SUBSET Asked(e, reachable) :
         LET final == Confirmed(e, reachable, unknown)
             seen == {n \in Names : final[n] # "none"}
             silent == {n \in Names \ seen : Live(n)}
             present == {n \in seen : final[n] = "present"}
             unproven == {n \in seen : final[n] = "unproven"} \cup silent
             headline == Verdict(reachable, present, unproven)
         IN  /\ rows' = [n \in Names |->
                           IF ~Live(n) THEN rows[n]
                           ELSE [rows[n] EXCEPT !.st =
                                   IF n \in silent THEN "unproven" ELSE RowStateFor(final[n])]]
             /\ verdict' = headline
             /\ op' = Completed(e, Resolved(op, ex[e].op,
                          CASE headline = "clean"    -> "succeeded"
                            [] headline = "residue"  -> "failed"
                            [] headline = "unproven" -> "unproven"))
             /\ state' = StateAfterTeardown(headline)
    /\ ex' = [ex EXCEPT ![e] = IdleThread]
    /\ EventCommitted(tx)
    /\ UNCHANGED <<competing, nOps, daemon, nextId>>

\* Any exception out of the provider or the final transaction (a lost race on
\* the event sequence included): rolled back, recorded as internal_error.
UnexpectedFailure(e) ==
    /\ ex[e].pc \notin {"idle", "claim"}
    /\ op' = Completed(e, Resolved(op, ex[e].op, "failed"))
    /\ state' = "failed"
    /\ ex' = [ex EXCEPT ![e] = IdleThread]
    /\ EventCommitted(tx)
    /\ UNCHANGED <<verdict, competing, nOps, rows, daemon, nextId>>

\* The worker process dies; Temporal times the attempt out and retries it.
Crash(e) ==
    /\ ex[e].pc # "idle"
    /\ op' = IF ex[e].current THEN Requeue(ex[e].op, op) ELSE op
    /\ ex' = [ex EXCEPT ![e] = IdleThread]
    /\ UNCHANGED <<state, verdict, competing, nOps, rows, daemon, nextId, tx>>

\* start_to_close_timeout: Temporal gives up on the attempt, but the thread
\* started by asyncio.to_thread cannot be cancelled and runs on.
AttemptTimesOut(e) ==
    /\ Overlap
    /\ ex[e].pc # "idle" /\ ex[e].current
    /\ op' = Requeue(ex[e].op, op)
    /\ ex' = [ex EXCEPT ![e].current = FALSE]
    /\ UNCHANGED <<state, verdict, competing, nOps, rows, daemon, nextId, tx>>

-----------------------------------------------------------------------------

WorkerStep(e) ==
    \/ Claim(e) \/ Preflight(e) \/ CreateNetwork(e) \/ Pull(e)
    \/ StartContainer(e) \/ Verify(e) \/ ResetRemove(e) \/ DestroyRemove(e)
    \/ RecordBringUp(e) \/ RecordDestroy(e)

Next ==
    \/ \E c \in Clients :
          (\E kind \in Kinds : BeginStart(c, kind)) \/ CommitStart(c) \/ RollbackStart(c)
    \/ \E o \in OpIds :
          \/ AbandonStale(o) \/ AbandonForced(o) \/ LeaseExpires(o)
          \/ RefuseResolved(o) \/ FailExpired(o)
          \/ \E retryable \in BOOLEAN : RefuseUnresolved(o, retryable)
          \/ \E e \in Execs : PickUp(e, o)
    \/ \E e \in Execs : WorkerStep(e) \/ UnexpectedFailure(e) \/ Crash(e) \/ AttemptTimesOut(e)
    \/ StartCompetition \/ StopCompetition

Spec == Init /\ [][Next]_vars

\* The worker's threads run, time passes, and the operator abandons what the
\* API reports as stuck.
Fairness ==
    /\ \A e \in Execs : WF_vars(WorkerStep(e))
    /\ \A o \in OpIds : WF_vars(LeaseExpires(o)) /\ WF_vars(AbandonStale(o))

FairSpec == Spec /\ Fairness

-----------------------------------------------------------------------------
(* Properties.  The ones marked SERIAL hold when no thread outlives its     *)
(* attempt or its operation (~Overlap, ~LiveAbandon).                       *)

\* SERIAL.  A range sits in deploying / resetting / destroying exactly while
\* one operation of that kind is in flight: two racing start_operation requests
\* never both get through, and no range is stranded in an in-flight state that
\* no operation can be abandoned out of.
InFlightAgrees ==
    /\ \A o \in OpIds : InFlight(o) => state = InFlightState(op[o].kind)
    /\ \A o, p \in OpIds : InFlight(o) /\ InFlight(p) => o = p
    /\ state \in {"deploying", "resetting", "destroying"} => \E o \in OpIds : InFlight(o)

\* SERIAL.  A range offered as ready or active has every component recorded as
\* verified under the id the daemon really runs, on a network that exists and is
\* recorded.  (A reset keeps the network under the state and the id its row has;
\* after a failed destroy these may be older than the network.)
ReadyMeansObserved ==
    state \in {"ready", "active"} =>
        /\ \A n \in Components :
              rows[n].st = "verified" /\ rows[n].id = daemon[n] /\ daemon[n] # 0
        /\ Live(Net) /\ daemon[Net] # 0

\* SERIAL.  A destroyed range has a clean verdict, no live row, and every id it
\* ever recorded is absent from the daemon.
DestroyedMeansProved ==
    state = "destroyed" =>
        /\ verdict = "clean"
        /\ \A n \in Names : ~Live(n) /\ (rows[n].st = "removed" => daemon[n] # rows[n].id)

\* SERIAL.  A resource leaves the live set only when the object it names is
\* gone: nothing narrows the set a later destroy is asked about.
NeverForgets ==
    [][\A n \in Names : Live(n) /\ ~Live(n)' => daemon'[n] # rows[n].id]_vars

\* SERIAL.  destroyed is final: no operation, retry or late delivery of an
\* abandoned operation brings a destroyed range back.
DestroyedIsFinal == [][state = "destroyed" => state' = "destroyed"]_vars

\* Even with late writers, a range offered as ready has every object enumerated
\* for its next destroy, and destroyed is only ever claimed with a clean verdict.
ReadyMeansEnumerated ==
    /\ state \in {"ready", "active"} => \A n \in Names : Live(n)
    /\ state = "destroyed" => verdict = "clean"

\* Even with late writers, every operation is eventually resolved for good: the
\* lease makes a stranded one abandonable, so no range is wedged for ever.
OperationsSettle == <>[](\A o \in OpIds : ~InFlight(o))

\* "A destroy therefore always sweeps everything this range has ever created":
\* a destroyed range has left nothing on the daemon.
DestroyedMeansGone == state = "destroyed" => \A n \in Names : daemon[n] = 0

\* "The final state is written once, from the provider's result": a resolved
\* operation keeps its status.
ResolvedOnce ==
    [][\A o \in OpIds : op[o].status \in {"succeeded", "failed", "unproven"}
                           => op'[o].status = op[o].status]_vars
===============================================================================
