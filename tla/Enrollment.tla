------------------------------ MODULE Enrollment ------------------------------
(***************************************************************************)
(* The worker enrollment exchange: the controller's durable enrollment     *)
(* (worker_enrollment_contract.py, worker_enrollment_repository.py), the   *)
(* transactions that advance it (services/worker_enrollment.py), the       *)
(* expiry sweep (services/worker_enrollment_recovery.py) and the driver    *)
(* each worker runs (secp_worker/enrollment_driver.py), over a network     *)
(* that loses answers and delivers requests late and more than once.       *)
(*                                                                         *)
(* One enrollment is modelled: rows of different enrollments never meet.   *)
(* The row lock of load_for_update does nothing on SQLite, so it is not    *)
(* assumed: a transaction reads a snapshot when it begins and must get     *)
(* past the compare-and-swap and the UNIQUE constraints when it commits.   *)
(***************************************************************************)
EXTENDS Naturals, FiniteSets

CONSTANTS Workers,    \* worker hosts that hold the invitation
          Requests,   \* API requests the controller can serve at a time
          Sweepers,   \* expiry sweeps that can run at a time
          Nobody      \* "no worker": an empty identity column

ASSUME EnrollmentAssumption ==
    /\ Nobody \notin Workers
    /\ Requests \cap Sweepers = {}

VARIABLES db,        \* the durable rows of the enrollment
          tx,        \* open transactions, with the snapshot each has read
          expired,   \* the clock has passed expires_at
          rotated,   \* the active controller key is no longer the invited one
          sent,      \* requests each worker has put on the wire, ever
          drv,       \* each worker's driver
          owned,     \* workers whose ownership document is installed
          marker     \* each worker's durable retry hint

vars == <<db, tx, expired, rotated, sent, drv, owned, marker>>

-----------------------------------------------------------------------------
(* The contract's states *)

ACTIVE == {"invited", "worker_bound", "offer_transported", "result_transported", "verified"}
Terminal == {"refused", "recovery_required"}
States == ACTIVE \cup {"healthy"} \cup Terminal

\* ADVANCE: the only state each forward step may be taken from.
ADVANCE == [worker_bound       |-> "invited",
            offer_transported  |-> "worker_bound",
            result_transported |-> "offer_transported",
            verified           |-> "result_transported",
            healthy            |-> "verified"]

Steps == {"bind_worker_identity", "record_controller_offer",
          "record_worker_result", "mark_verified", "mark_healthy"}

Parties == Workers \cup {Nobody}
Revisions == 0..7

\* digest(): a content address.  The rows of one enrollment form one chain, so
\* the identifying columns stand for the hash of the whole record.
Digest(s) == <<s.st, s.rev, s.worker>>
NoDigest == <<"none", 0, Nobody>>

State == [st : States, rev : Revisions, worker : Parties,
          pred : (States \cup {"none"}) \X Revisions \X Parties]
Receipt == [step : Steps, input : Parties, rev : Revisions]

\* head: the enrollment row.  history: its revision rows.  consumed: the
\* invitation's single-use nonce.  offer: the worker the write-once signed
\* offer was minted for.  receipts: the step receipts.
Db == [head : State, history : SUBSET State, consumed : BOOLEAN,
       offer : Parties, receipts : SUBSET Receipt]

Opened == [st |-> "invited", rev |-> 0, worker |-> Nobody, pred |-> NoDigest]
OpenDb == [head |-> Opened, history |-> {Opened}, consumed |-> FALSE,
           offer |-> Nobody, receipts |-> {}]

\* A transaction: what it does, for whom, whether its `now` is past the expiry,
\* and the rows it has read.
Slots == Requests \cup Sweepers
TxKinds == {"none", "bind", "result", "revoke", "recover", "selected", "sweep"}
Tx == [kind : TxKinds, who : Parties, late : BOOLEAN, snap : Db]
NoTx == [kind |-> "none", who |-> Nobody, late |-> FALSE, snap |-> OpenDb]

\* A driver: where it is in enroll(), and the state the controller reported.
DriverPcs == {"idle", "binding", "offered", "bound", "reporting", "reported"}
Driver == [pc : DriverPcs, told : States \cup {"none"}]
IdleDriver == [pc |-> "idle", told |-> "none"]

\* Every variable holds a value of the shape its rows, requests and files have;
\* the revision column never passes 7 (enrolled, refused, then recovered), however
\* the exchange is retried.
TypeOK ==
    /\ db \in Db
    /\ tx \in [Slots -> Tx]
    /\ expired \in BOOLEAN /\ rotated \in BOOLEAN
    /\ sent \in [Workers -> SUBSET {"bind", "result"}]
    /\ drv \in [Workers -> Driver]
    /\ owned \in SUBSET Workers
    /\ marker \in [Workers -> {"none", "offer_verified", "healthy"}]

Init ==
    /\ db = OpenDb
    /\ tx = [t \in Slots |-> NoTx]
    /\ expired = FALSE /\ rotated = FALSE
    /\ sent = [w \in Workers |-> {}]
    /\ drv = [w \in Workers |-> IdleDriver]
    /\ owned = {}
    /\ marker = [w \in Workers |-> "none"]

-----------------------------------------------------------------------------
(* The pure transitions *)

\* _advance
Advanced(s, target, w) ==
    [st |-> target, rev |-> s.rev + 1, worker |-> w, pred |-> Digest(s)]

\* refuse, require_recovery
Closed(s, target) ==
    [st |-> target, rev |-> s.rev + 1, worker |-> s.worker, pred |-> Digest(s)]

\* verify_history_consistent: contiguous, ends in the head, chained by digest.
HistoryConsistent(d) ==
    /\ d.head \in d.history
    /\ {r.rev : r \in d.history} = 0..d.head.rev
    /\ \A r, q \in d.history : r.rev = q.rev => r = q
    /\ \A r \in d.history : r.rev = 0 => r.pred = NoDigest
    /\ \A r, q \in d.history : q.rev = r.rev + 1 => q.pred = Digest(r)

\* commit_transition, on the rows a transaction sees: history row, head, receipt.
RecordAsOfBefore(d, s, step, input) ==
    [head |-> s, history |-> d.history \cup {s}, consumed |-> d.consumed, offer |-> d.offer,
     receipts |-> d.receipts \cup {[step |-> step, input |-> input, rev |-> d.head.rev]}]

Record(d, s, step, input) ==
    [head |-> s, history |-> d.history \cup {s}, consumed |-> d.consumed, offer |-> d.offer,
     receipts |-> d.receipts \cup {[step |-> step, input |-> input, rev |-> s.rev]}]

Served(d, step, input) == \E r \in d.receipts : r.step = step /\ r.input = input
ServedRevision(d, step, input) ==
    (CHOOSE r \in d.receipts : r.step = step /\ r.input = input).rev

(* One progression step (_advance_step, the tail of bind_worker) inside a     *)
(* transaction.  o is the transaction so far: may it go on, the rows as it    *)
(* sees them, and the revision the step expects.  An exact retry is served    *)
(* from its receipt before the expected revision is looked at.                *)
Step(o, step, input, target, w, late) ==
    CASE ~o.ok -> o
      [] o.ok /\ Served(o.db, step, input) ->
            [ok |-> TRUE, db |-> o.db, rev |-> ServedRevision(o.db, step, input)]
      [] o.ok /\ ~Served(o.db, step, input)
              /\ o.rev = o.db.head.rev /\ o.db.head.st = ADVANCE[target] /\ ~late ->
            LET s == Advanced(o.db.head, target, w)
            IN  [ok |-> TRUE, db |-> Record(o.db, s, step, input), rev |-> s.rev]
      [] OTHER -> [ok |-> FALSE, db |-> o.db, rev |-> o.rev]

\* The revision a worker has last seen when it binds, and when it reports.
BindRevision == 0
ResultRevision == 2

\* consume_invitation and persist_signed_offer, in the transaction of the bind.
PersistOfferOnly(d, w) ==
    [head |-> d.head, history |-> d.history, consumed |-> d.consumed, offer |-> w,
     receipts |-> d.receipts]

ConsumeAndPersist(d, w) ==
    [head |-> d.head, history |-> d.history, consumed |-> TRUE, offer |-> w,
     receipts |-> d.receipts]

\* bind_worker_exchange with no winning offer on record: bind, consume the
\* nonce, mint, record the offer, persist it write-once.
FreshBind(d, w, late) ==
    LET start   == [ok |-> ~d.consumed, db |-> d, rev |-> BindRevision]
        bound   == Step(start, "bind_worker_identity", w, "worker_bound", w, late)
        offered == Step(bound, "record_controller_offer", w, "offer_transported", w, late)
    IN  [ok |-> offered.ok, db |-> ConsumeAndPersist(offered.db, w), rev |-> offered.rev]

\* _replay_bind_record: only the exact winning request gets the offer again, so
\* an offer a driver receives is one minted for it (_verify_offer checks that).
ReplayBind(d, w) == [ok |-> d.offer = w, db |-> d, rev |-> BindRevision]

BindExchange(d, w, late) ==
    IF d.offer = Nobody THEN FreshBind(d, w, late) ELSE ReplayBind(d, w)

\* record_worker_result_exchange: signed by the bound key, against the persisted
\* offer; three steps.  verified and healthy are keyed by no worker input.
SignedByBoundWorker(d, w) == d.head.worker = w /\ d.offer # Nobody

ResultExchange(d, w, late) ==
    LET start    == [ok |-> SignedByBoundWorker(d, w), db |-> d, rev |-> ResultRevision]
        recorded == Step(start, "record_worker_result", w, "result_transported", w, late)
        verified == Step(recorded, "mark_verified", Nobody, "verified", w, late)
    IN  Step(verified, "mark_healthy", Nobody, "healthy", w, late)

\* revoke_enrollment, mark_recovery_required, _lifecycle, _recover_one: a history
\* row and the head, no receipt.
CloseTo(d, target, allowed) ==
    LET s == Closed(d.head, target)
    IN  [ok |-> allowed, rev |-> s.rev,
         db |-> [head |-> s, history |-> d.history \cup {s}, consumed |-> d.consumed,
                 offer |-> d.offer, receipts |-> d.receipts]]

\* revoke_enrollment, refuse_enrollment: anything that is not closed already,
\* healthy included; a closed enrollment is answered without a write.
Closeable(x) == x.snap.head.st \notin Terminal

\* recover_enrollment: require_recovery absorbs recovery_required alone, so a
\* refused enrollment may still be recovered.  mark_recovery_required is narrower
\* (it answers a refused one without a write), so its writes are among these.
Recoverable(x) == x.snap.head.st # "recovery_required"

\* _recover_one: an active row that is really due, re-read under its own lock.
SweepableAnyState(x) == x.late

Sweepable(x) == x.snap.head.st \in ACTIVE /\ x.late

\* What the transaction x does to the rows it has read.
Outcome(x) ==
    CASE x.kind = "bind"    -> BindExchange(x.snap, x.who, x.late)
      [] x.kind = "result"  -> ResultExchange(x.snap, x.who, x.late)
      [] x.kind = "revoke"  -> CloseTo(x.snap, "refused", Closeable(x))
      [] x.kind = "recover" -> CloseTo(x.snap, "recovery_required", Recoverable(x))
      [] x.kind = "sweep"   -> CloseTo(x.snap, "recovery_required", Sweepable(x))

-----------------------------------------------------------------------------
(* Transactions *)

Open(t, x) ==
    /\ HistoryConsistent(db)
    /\ Outcome(x).ok
    /\ tx' = [tx EXCEPT ![t] = x]

\* The signer cross-checks the invited key with the live one, and may fail.
BeginBind(t, w) ==
    /\ tx[t] = NoTx /\ "bind" \in sent[w]
    /\ db.offer = Nobody => ~rotated
    /\ Open(t, [kind |-> "bind", who |-> w, late |-> expired, snap |-> db])
    /\ UNCHANGED <<db, expired, rotated, sent, drv, owned, marker>>

BeginResult(t, w) ==
    /\ tx[t] = NoTx /\ "result" \in sent[w]
    /\ Open(t, [kind |-> "result", who |-> w, late |-> expired, snap |-> db])
    /\ UNCHANGED <<db, expired, rotated, sent, drv, owned, marker>>

\* An operator names the revision shown to him; a stale one is refused, and a
\* request with nothing left to do is answered without a write.
BeginOperator(t, kind) ==
    /\ tx[t] = NoTx
    /\ Open(t, [kind |-> kind, who |-> Nobody, late |-> expired, snap |-> db])
    /\ UNCHANGED <<db, expired, rotated, sent, drv, owned, marker>>

\* select_due_active_candidates
UnclaimedDue == db.head.st = "invited" /\ expired

DueActive == db.head.st \in ACTIVE /\ expired

\* The sweep: candidates are read in one session, each is recovered in its own.
SelectCandidate(t) ==
    /\ tx[t] = NoTx
    /\ DueActive
    /\ tx' = [tx EXCEPT ![t] = [NoTx EXCEPT !.kind = "selected", !.late = expired]]
    /\ UNCHANGED <<db, expired, rotated, sent, drv, owned, marker>>

BeginSweep(t) ==
    /\ tx[t].kind = "selected"
    /\ Open(t, [kind |-> "sweep", who |-> Nobody, late |-> tx[t].late, snap |-> db])
    /\ UNCHANGED <<db, expired, rotated, sent, drv, owned, marker>>

SkipCandidate(t) ==
    /\ tx[t].kind = "selected"
    /\ db.head.st \notin ACTIVE
    /\ tx' = [tx EXCEPT ![t] = NoTx]
    /\ UNCHANGED <<db, expired, rotated, sent, drv, owned, marker>>

\* _cas_head, UNIQUE(enrollment_id, revision), the conditional UPDATE of the
\* nonce, the write-once offer and the UNIQUE receipts, against the rows now.
CommitsAlways(x, out) == TRUE

Commits(x, out) ==
    out.db # x.snap =>
        /\ Digest(db.head) = Digest(x.snap.head)
        /\ \A r \in out.db.history \ x.snap.history : \A q \in db.history : q.rev # r.rev
        /\ out.db.consumed /\ ~x.snap.consumed => ~db.consumed
        /\ out.db.offer # x.snap.offer => db.offer = Nobody
        /\ \A r \in out.db.receipts \ x.snap.receipts : ~Served(db, r.step, r.input)

Written(x, out) ==
    IF out.db = x.snap THEN db
    ELSE [head |-> out.db.head,
          history |-> db.history \cup (out.db.history \ x.snap.history),
          consumed |-> db.consumed \/ out.db.consumed,
          offer |-> IF out.db.offer # x.snap.offer THEN out.db.offer ELSE db.offer,
          receipts |-> db.receipts \cup (out.db.receipts \ x.snap.receipts)]

\* The driver of w hears the answer of its request, if it is still waiting.
Waiting(x) ==
    \/ x.kind = "bind" /\ drv[x.who].pc = "binding"
    \/ x.kind = "result" /\ drv[x.who].pc = "reporting"

\* The result exchange answers with the head as it now is, not with the step.
HeardStep(x, out) ==
    IF x.kind = "bind" THEN [IdleDriver EXCEPT !.pc = "offered"]
    ELSE [pc |-> "reported", told |-> "healthy"]

Heard(x, out) ==
    IF x.kind = "bind" THEN [IdleDriver EXCEPT !.pc = "offered"]
    ELSE [pc |-> "reported", told |-> out.db.head.st]

Commit(t) ==
    /\ tx[t].kind \notin {"none", "selected"}
    /\ LET x == tx[t] out == Outcome(tx[t])
       IN  /\ Commits(x, out)
           /\ db' = Written(x, out)
           /\ \/ UNCHANGED drv               \* the answer is lost, or nobody waits
              \/ /\ Waiting(x)
                 /\ drv' = [drv EXCEPT ![x.who] = Heard(x, out)]
    /\ tx' = [tx EXCEPT ![t] = NoTx]
    /\ UNCHANGED <<expired, rotated, sent, owned, marker>>

\* The request's transaction ends before its answer is written (deps.py): one
\* that does not commit is a 409 or a 5xx, and on a 409 the driver gives up.
AnsweredBeforeCommit(x) == Heard(x, Outcome(x))

AnsweredWithoutCommit(x) == IdleDriver

\* A conflict, a failed commit or a dead API process: nothing was written.
Rollback(t) ==
    /\ tx[t].kind \notin {"none", "selected"}
    /\ tx' = [tx EXCEPT ![t] = NoTx]
    /\ \/ UNCHANGED drv
       \/ /\ ~Commits(tx[t], Outcome(tx[t])) /\ Waiting(tx[t])
          /\ drv' = [drv EXCEPT ![tx[t].who] = AnsweredWithoutCommit(tx[t])]
    /\ UNCHANGED <<db, expired, rotated, sent, owned, marker>>

-----------------------------------------------------------------------------
(* The worker's driver, enroll() *)

\* Invitation still fresh, ownership gate passed: the binding goes out.
SubmitBinding(w) ==
    /\ drv[w].pc = "idle" /\ ~expired
    /\ drv' = [drv EXCEPT ![w] = [IdleDriver EXCEPT !.pc = "binding"]]
    /\ sent' = [sent EXCEPT ![w] = @ \cup {"bind"}]
    /\ UNCHANGED <<db, tx, expired, rotated, owned, marker>>

\* _verify_offer, _bind_ownership: the ownership document, from the signed offer.
BindOwnershipInMemory(w) ==
    /\ drv[w].pc = "offered"
    /\ drv' = [drv EXCEPT ![w].pc = "bound"]
    /\ UNCHANGED owned

BindOwnership(w) ==
    /\ drv[w].pc = "offered"
    /\ drv' = [drv EXCEPT ![w].pc = "bound"]
    /\ owned' = owned \cup {w}

InstallOwnership(w) ==
    /\ BindOwnership(w)
    /\ UNCHANGED <<db, tx, expired, rotated, sent, marker>>

\* The durable retry hint is best-effort: a filesystem fault is swallowed.
Hint(w, step) == marker' = [marker EXCEPT ![w] = step] \/ UNCHANGED marker

\* The offer_verified hint; the signed result goes out only if every health
\* check was observed true.
SubmitResult(w) ==
    /\ drv[w].pc = "bound"
    /\ Hint(w, "offer_verified")
    /\ \/ /\ drv' = [drv EXCEPT ![w].pc = "reporting"]
          /\ sent' = [sent EXCEPT ![w] = @ \cup {"result"}]
       \/ /\ drv' = [drv EXCEPT ![w] = IdleDriver]
          /\ UNCHANGED sent
    /\ UNCHANGED <<db, tx, expired, rotated, owned>>

\* Reconcile: the healthy hint is recorded only if the controller reports it.
Reconcile(w) ==
    /\ drv[w].pc = "reported"
    /\ IF drv[w].told = "healthy" THEN Hint(w, "healthy") ELSE UNCHANGED marker
    /\ drv' = [drv EXCEPT ![w] = IdleDriver]
    /\ UNCHANGED <<db, tx, expired, rotated, sent, owned>>

\* A refusal, the retries used up, a failed write, or the host went down.
GiveUp(w) ==
    /\ drv[w].pc # "idle"
    /\ drv' = [drv EXCEPT ![w] = IdleDriver]
    /\ UNCHANGED <<db, tx, expired, rotated, sent, owned, marker>>

-----------------------------------------------------------------------------
(* The environment: the clock, and the rotation of the controller key *)

Expire == ~expired /\ expired' = TRUE /\ UNCHANGED <<db, tx, rotated, sent, drv, owned, marker>>

Rotate == ~rotated /\ rotated' = TRUE /\ UNCHANGED <<db, tx, expired, sent, drv, owned, marker>>

Next ==
    \/ \E t \in Requests, w \in Workers : BeginBind(t, w) \/ BeginResult(t, w)
    \/ \E t \in Requests, kind \in {"revoke", "recover"} : BeginOperator(t, kind)
    \/ \E t \in Sweepers : SelectCandidate(t) \/ BeginSweep(t) \/ SkipCandidate(t)
    \/ \E t \in Slots : Commit(t) \/ Rollback(t)
    \/ \E w \in Workers : \/ SubmitBinding(w) \/ InstallOwnership(w) \/ SubmitResult(w)
                          \/ Reconcile(w) \/ GiveUp(w)
    \/ Expire \/ Rotate

Spec == Init /\ [][Next]_vars

\* Time passes, the sweep is scheduled again and again, and its transaction on
\* this row does not fail for ever.
Fairness ==
    /\ WF_vars(Expire)
    /\ \A t \in Sweepers :
          /\ WF_vars(SelectCandidate(t)) /\ WF_vars(SkipCandidate(t) \/ BeginSweep(t))
          /\ WF_vars(Commit(t) \/ Rollback(t)) /\ SF_vars(Commit(t))

FairSpec == Spec /\ Fairness

-----------------------------------------------------------------------------
(* Properties *)

\* Whatever transactions race, the append-only history is what
\* verify_history_consistent demands: contiguous, chained, ending in the head.
HistoryAgrees == HistoryConsistent(db)

\* The invitation is used once: the nonce is consumed exactly when a worker is
\* bound, the signed offer was minted for that worker, and no row of the whole
\* history names another.
SingleUse ==
    /\ db.consumed <=> db.head.worker # Nobody
    /\ db.offer = db.head.worker
    /\ \A r \in db.history : r.worker \in {Nobody, db.head.worker}

\* A receipt names the revision its own step produced, and a step that is in
\* the history has its receipt: a delayed exact retry gets the original answer.
StepOf == [bind_worker_identity |-> "worker_bound", record_controller_offer |-> "offer_transported",
           record_worker_result |-> "result_transported", mark_verified |-> "verified",
           mark_healthy |-> "healthy"]

ReceiptsTruthful ==
    /\ \A c \in db.receipts : \E r \in db.history :
          r.rev = c.rev /\ r.st = StepOf[c.step] /\ c.input \in {Nobody, r.worker}
    /\ \A r \in db.history : \A step \in Steps :
          r.st = StepOf[step] => \E c \in db.receipts : c.step = step /\ c.rev = r.rev

\* "A controller must never regard a privileged worker as healthy while the
\* worker failed to remember who owns it": no result of a worker is recorded
\* before its ownership document is on disk, whatever crashes and is retried.
OwnedBeforeHealthy ==
    \A r \in db.history :
        r.st \in {"result_transported", "verified", "healthy"} => r.worker \in owned

\* A worker believes it is healthy, durably or in the answer it holds, only if
\* the controller has committed the healthy revision for that very worker.
HealthyIsAgreed ==
    \A w \in Workers :
        marker[w] = "healthy" \/ drv[w].told = "healthy" =>
            \E r \in db.history : r.st = "healthy" /\ r.worker = w

\* A worker that asks again after the enrollment was closed is told so: healthy
\* is only ever heard from a transaction that read an enrollment not yet closed.
NoStaleHealthy ==
    [][\A w \in Workers :
        drv[w].told # "healthy" /\ drv'[w].told = "healthy" =>
            \E t \in Slots : /\ tx[t].kind = "result" /\ tx[t].who = w
                             /\ tx[t].snap.head.st \notin Terminal]_vars

\* recovery_required is the only absorbing state, and a refused enrollment moves
\* nowhere else: no late request, retry, sweep or second operator reopens a closed
\* enrollment, hands it to another worker or adds to its receipts, and no history
\* row is rewritten.
ClosedNeverReopens ==
    [][/\ db.head.st = "recovery_required" => db' = db
       /\ db.head.st = "refused" /\ db' # db =>
             /\ db'.head.st = "recovery_required" /\ db'.head.worker = db.head.worker
             /\ db'.consumed = db.consumed /\ db'.offer = db.offer
             /\ db'.receipts = db.receipts
       /\ db.history \subseteq db'.history]_vars

\* An enrollment that is not finished when it expires does not stay active.
ExpiredIsRecovered == expired ~> db.head.st \notin ACTIVE

-----------------------------------------------------------------------------
(* What the exchange promises *)

Phase(st) ==
    CASE st = "invited" -> "open"
      [] st \in {"worker_bound", "offer_transported", "result_transported", "verified"} -> "claimed"
      [] st = "healthy" -> "enrolled"
      [] st \in Terminal -> "closed"

Agreement == INSTANCE EnrollmentAgreement
                WITH phase <- Phase(db.head.st), party <- db.head.worker

\* The exchange, with its snapshots, retries and receipts, does no more to an
\* enrollment than claim it for one worker, enrol that worker, and close it.
ImplementsAgreement == Agreement!Spec
===============================================================================
