---------------------------- MODULE RangeProofs ----------------------------
(***************************************************************************)
(* Proofs about the lifecycle of a range, for any template, any number of  *)
(* operations, attempts, worker threads and API requests.                  *)
(*                                                                         *)
(* What holds whatever outlives what (Base) rests on what one thread knows *)
(* of itself: a bring-up that reports success has made, or kept, every     *)
(* object of the template.  What holds when no thread outlives its attempt *)
(* or its operation (Serial) rests on a chain: an open request that can    *)
(* still commit has seen no operation in flight; so one operation is in    *)
(* flight at a time; so one thread works at a time; so what that thread    *)
(* has read of the rows and made on the daemon still holds when it writes. *)
(***************************************************************************)
EXTENDS RangeLifecycle, TLAPS

Serial == ~Overlap /\ ~LiveAbandon

-----------------------------------------------------------------------------
\* The invariants.

\* An operation that was never started has no status and no workflow.
OpsCounted == \A o \in OpIds : o > nOps => op[o].status = "none" /\ op[o].wf = "done"

\* Temporal queues an attempt only while the policy has one left.
AttemptsLeft == \A o \in OpIds : op[o].wf = "queued" => op[o].attempts < MaxAttempts

HasNetwork(t, kind) == t.made[Net] # 0 \/ (kind = "reset" /\ t.snap[Net] # 0)

\* What a thread has made by the step it is about to run.
Advanced(t, kind) ==
    /\ t.pc \in {"pull", "start", "verify"} => HasNetwork(t, kind)
    /\ t.pc = "start" =>
          t.k \in Components /\ \A n \in Components : n < t.k => t.made[n] # 0
    /\ t.pc = "verify" => \A n \in Components : t.made[n] # 0
    /\ t.pc = "record" /\ t.ok /\ kind # "destroy" =>
          HasNetwork(t, kind) /\ \A n \in Components : t.made[n] # 0

ThreadsAdvance ==
    \A e \in Execs : ex[e].pc # "idle" =>
        ex[e].op \in 1..nOps /\ Advanced(ex[e], op[ex[e].op].kind)

\* A request that can still commit names the operation it starts.
TxTable == {txs \in [Clients -> TxRecord] :
               \A c \in Clients : txs[c].fresh => txs[c].kind \in Kinds}

Base ==
    /\ TypeOK /\ OpsCounted /\ AttemptsLeft /\ ThreadsAdvance /\ tx \in TxTable
    /\ ReadyMeansEnumerated

\* A thread that works is the only one, and its operation is in flight.
OneThread ==
    /\ \A e, f \in Execs : ex[e].pc # "idle" /\ ex[f].pc # "idle" => e = f
    /\ \A e \in Execs : ex[e].pc # "idle" =>
          ex[e].current /\ InFlight(ex[e].op) /\ op[ex[e].op].wf = "running"

\* A request whose event number is still free sees the range it began on.
FreshSees ==
    \A c \in Clients : tx[c].fresh =>
        /\ tx[c].kind \in Kinds /\ state \in AllowedFrom(tx[c].kind)
        /\ \A o \in OpIds : ~InFlight(o)

FlightInv == InFlightAgrees /\ OneThread /\ FreshSees

\* An id is given once; a row that was written names one; what was removed is gone.
IdsSpent ==
    \A n \in Names :
        /\ daemon[n] < nextId /\ rows[n].id < nextId
        /\ rows[n].st # "none" => rows[n].id # 0
        /\ rows[n].st = "removed" => daemon[n] # rows[n].id

\* What a thread has read of the rows rs and made on the daemon dm is still so.
Faithful(t, kind, rs, dm) ==
    /\ t.pc \in {"claim", "preflight", "remove", "network"} => \A n \in Names : t.made[n] = 0
    /\ \A n \in Names : t.made[n] # 0 => dm[n] = t.made[n]
    /\ t.pc # "claim" => \A n \in Names :
          t.snap[n] = IF rs[n].st \in {"none", "removed"} THEN 0 ELSE rs[n].id
    /\ t.pc = "start" /\ t.k # 1 => dm[Net] # 0
    /\ t.pc = "verify" => dm[Net] # 0
    /\ t.pc = "record" /\ t.ok /\ kind # "destroy" => dm[Net] # 0 /\ Components \subseteq t.ver

ThreadsFaithful ==
    \A e \in Execs : ex[e].pc # "idle" => Faithful(ex[e], op[ex[e].op].kind, rows, daemon)

NothingLive == state = "destroyed" => \A n \in Names : ~Live(n)

ObjectInv == IdsSpent /\ ThreadsFaithful /\ ReadyMeansObserved /\ NothingLive

SerialInv == FlightInv /\ ObjectInv

-----------------------------------------------------------------------------
\* The operators on operation rows: what each keeps and what it sets.

OpTable == [OpIds -> OpRecord]

\* Row o of the table q may differ from row o of the table opr, but for its kind.
OnlyRow(o, q, opr) ==
    /\ q \in OpTable
    /\ q[o].kind = opr[o].kind
    /\ \A p \in OpIds : p # o => q[p] = opr[p]

LEMMA RowReplaced ==
    ASSUME NEW opr \in OpTable, NEW o \in OpIds, NEW r \in OpRecord,
           r.kind = opr[o].kind
    PROVE  OnlyRow(o, [opr EXCEPT ![o] = r], opr) /\ [opr EXCEPT ![o] = r][o] = r
BY DEF OnlyRow, OpTable

LEMMA ResolvedShape ==
    ASSUME NEW opr \in OpTable, NEW o \in OpIds, NEW st \in Statuses
    PROVE  /\ OnlyRow(o, Resolved(opr, o, st), opr)
           /\ Resolved(opr, o, st)[o].status = st
           /\ Resolved(opr, o, st)[o].wf = opr[o].wf
           /\ Resolved(opr, o, st)[o].attempts = opr[o].attempts
<1> DEFINE r == [opr[o] EXCEPT !.status = st, !.stale = FALSE]
<1>1. opr[o] \in OpRecord
  BY DEF OpTable
<1>2. /\ r \in OpRecord /\ r.kind = opr[o].kind /\ r.status = st
      /\ r.wf = opr[o].wf /\ r.attempts = opr[o].attempts
  BY <1>1, st \in Statuses \cup {"none"}, Zenon DEF OpRecord
<1>3. Resolved(opr, o, st) = [opr EXCEPT ![o] = r]
  BY DEF Resolved, OpTable
<1> HIDE DEF r
<1>4. OnlyRow(o, [opr EXCEPT ![o] = r], opr) /\ [opr EXCEPT ![o] = r][o] = r
  BY <1>2, RowReplaced
<1> QED
  BY <1>2, <1>3, <1>4, Zenon

LEMMA WorkflowDoneShape ==
    ASSUME NEW opr \in OpTable, NEW o \in OpIds
    PROVE  /\ OnlyRow(o, WorkflowDone(opr, o), opr)
           /\ WorkflowDone(opr, o)[o].status = opr[o].status
           /\ WorkflowDone(opr, o)[o].wf = "done"
<1> DEFINE r == [opr[o] EXCEPT !.wf = "done", !.attempts = 0]
<1>1. opr[o] \in OpRecord
  BY DEF OpTable
<1>2. 0 \in 0..MaxAttempts
  BY ConstAssumption
<1>3. /\ r \in OpRecord /\ r.kind = opr[o].kind
      /\ r.status = opr[o].status /\ r.wf = "done"
  BY <1>1, <1>2, Zenon DEF OpRecord
<1>4. WorkflowDone(opr, o) = [opr EXCEPT ![o] = r]
  BY DEF WorkflowDone, OpTable
<1> HIDE DEF r
<1>5. OnlyRow(o, [opr EXCEPT ![o] = r], opr) /\ [opr EXCEPT ![o] = r][o] = r
  BY <1>3, RowReplaced
<1> QED
  BY <1>3, <1>4, <1>5, Zenon

LEMMA RequeueShape ==
    ASSUME NEW opr \in OpTable, NEW o \in OpIds
    PROVE  /\ OnlyRow(o, Requeue(o, opr), opr)
           /\ Requeue(o, opr)[o].status = opr[o].status
           /\ Requeue(o, opr)[o].wf \in {"queued", "done"}
           /\ Requeue(o, opr)[o].wf = "queued" => Requeue(o, opr)[o].attempts < MaxAttempts
<1> DEFINE r == [opr[o] EXCEPT !.wf = "queued"]
<1>1. opr[o] \in OpRecord
  BY DEF OpTable
<1>2. /\ r \in OpRecord /\ r.kind = opr[o].kind /\ r.status = opr[o].status
      /\ r.wf = "queued" /\ r.attempts = opr[o].attempts
  BY <1>1, Zenon DEF OpRecord
<1>3. [opr EXCEPT ![o].wf = "queued"] = [opr EXCEPT ![o] = r]
  BY DEF OpTable
<1>4. CASE opr[o].attempts < MaxAttempts
  BY <1>2, <1>3, <1>4, RowReplaced DEF Requeue
<1>5. CASE ~(opr[o].attempts < MaxAttempts)
  BY <1>5, WorkflowDoneShape DEF Requeue
<1> QED
  BY <1>4, <1>5

LEMMA CompletedShape ==
    ASSUME NEW opr \in OpTable, NEW e \in Execs, ex[e].op \in OpIds
    PROVE  LET q == Completed(e, opr) IN
           /\ OnlyRow(ex[e].op, q, opr)
           /\ q[ex[e].op].status = opr[ex[e].op].status
           /\ q[ex[e].op].wf = "done" \/ q = opr
<1>1. CASE ex[e].current
  BY <1>1, WorkflowDoneShape DEF Completed
<1>2. CASE ~ex[e].current
  BY <1>2 DEF Completed, OnlyRow
<1> QED
  BY <1>1, <1>2

\* A stamp of a provider step, on an operation table that has this operation.
LEMMA OnChangeShape ==
    ASSUME op \in OpTable, NEW e \in Execs, ex[e].op \in OpIds, OnChange(e)
    PROVE  /\ OnlyRow(ex[e].op, op', op)
           /\ op'[ex[e].op].status = "running"
           /\ op'[ex[e].op].wf = op[ex[e].op].wf
           /\ op'[ex[e].op].attempts = op[ex[e].op].attempts
<1> DEFINE o == ex[e].op
<1>1. op[o] \in OpRecord
  BY DEF OpTable
<1>2. op[o].stale \in BOOLEAN
  BY <1>1, Zenon DEF OpRecord
<1>3. PICK s \in BOOLEAN : op' = [op EXCEPT ![o].status = "running", ![o].stale = s]
  BY <1>2, Zenon DEF OnChange
<1> DEFINE r == [op[o] EXCEPT !.status = "running", !.stale = s]
<1>4. /\ r \in OpRecord /\ r.kind = op[o].kind /\ r.status = "running"
      /\ r.wf = op[o].wf /\ r.attempts = op[o].attempts
  BY <1>1, "running" \in Statuses \cup {"none"}, Zenon DEF OpRecord, Statuses
<1>5. op' = [op EXCEPT ![o] = r]
  BY <1>3 DEF OpTable
<1> QED
  BY <1>4, <1>5, RowReplaced

-----------------------------------------------------------------------------
\* Transactions, rows and threads.

LEMMA EventShape ==
    ASSUME NEW txs \in [Clients -> TxRecord], EventCommitted(txs)
    PROVE  tx' \in TxTable /\ \A c \in Clients : tx'[c].fresh = FALSE
<1>1. NoTx \in TxRecord /\ NoTx.fresh = FALSE
  BY Zenon DEF NoTx, TxRecord
<1>2. ASSUME NEW r \in TxRecord
      PROVE  [r EXCEPT !.fresh = FALSE] \in TxRecord /\ [r EXCEPT !.fresh = FALSE].fresh = FALSE
  BY Zenon DEF TxRecord
<1>3. ASSUME NEW c \in Clients
      PROVE  tx'[c] \in TxRecord /\ tx'[c].fresh = FALSE
  <2>1. txs[c] \in TxRecord
    OBVIOUS
  <2>2. tx'[c] = IF txs[c] = NoTx THEN NoTx ELSE [txs[c] EXCEPT !.fresh = FALSE]
    BY Zenon DEF EventCommitted
  <2>3. CASE txs[c] = NoTx
    BY <2>2, <2>3, <1>1, Zenon
  <2>4. CASE txs[c] # NoTx
    <3>1. tx'[c] = [txs[c] EXCEPT !.fresh = FALSE]
      BY <2>2, <2>4, Zenon
    <3> QED
      BY <2>1, <3>1, <1>2, Zenon
  <2> QED
    BY <2>3, <2>4
<1>4. tx' = [c \in Clients |-> tx'[c]]
  BY Zenon DEF EventCommitted
<1> QED
  BY <1>3, <1>4, Zenon DEF TxTable

LEMMA RetainShape ==
    ASSUME rows \in [Names -> RowRecord], RetainAsUnproven
    PROVE  /\ rows' \in [Names -> RowRecord]
           /\ \A n \in Names :
                /\ rows'[n].id = rows[n].id
                /\ Live(n)' <=> Live(n)
                /\ rows'[n].st \in {"none", "removed"} => rows'[n].st = rows[n].st
BY DEF RetainAsUnproven, RowRecord, RowStates, Live

LEMMA ThreadReplaced ==
    ASSUME ex \in [Execs -> Thread], NEW e \in Execs, NEW t \in Thread,
           ex' = [ex EXCEPT ![e] = t]
    PROVE  /\ ex' \in [Execs -> Thread] /\ ex'[e] = t
           /\ \A f \in Execs : f # e => ex'[f] = ex[f]
OBVIOUS

LEMMA IdleIsThread == IdleThread \in Thread /\ IdleThread.pc = "idle"
<1>1. 0 \in Names /\ 0 \in Ids /\ 0 \in 0..MaxOps
  BY ConstAssumption DEF Names, Ids
<1>2. {} \in SUBSET Names /\ [n \in Names |-> 0] \in [Names -> Ids]
      /\ [n \in Names |-> "none"] \in [Names -> Outcomes]
  BY <1>1 DEF Outcomes
<1>3. "idle" \in Pcs
  BY DEF Pcs
<1> QED
  BY <1>1, <1>2, <1>3, Zenon DEF IdleThread, Thread

\* The ways in which a step changes its thread.
LEMMA ThreadShape ==
    ASSUME NEW t \in Thread
    PROVE  /\ [t EXCEPT !.current = FALSE] \in Thread
           /\ \A k \in Names : [t EXCEPT !.k = k] \in Thread
           /\ \A out \in [Names -> Outcomes] : [t EXCEPT !.out = out] \in Thread
           /\ \A pc \in Pcs :
                /\ [t EXCEPT !.pc = pc] \in Thread
                /\ \A k \in Names : [t EXCEPT !.pc = pc, !.k = k] \in Thread
                /\ \A ok \in BOOLEAN : [t EXCEPT !.pc = pc, !.ok = ok] \in Thread
                /\ \A ok \in BOOLEAN, ver \in SUBSET Names :
                      [t EXCEPT !.pc = pc, !.ok = ok, !.ver = ver] \in Thread
                /\ \A snap \in [Names -> Ids], ver \in SUBSET Names :
                      [t EXCEPT !.pc = pc, !.snap = snap, !.ver = ver] \in Thread
                /\ \A out \in [Names -> Outcomes] :
                      [t EXCEPT !.pc = pc, !.probe = FALSE, !.out = out] \in Thread
                /\ \A made \in [Names -> Ids], ver \in SUBSET Names :
                      [t EXCEPT !.pc = pc, !.made = made, !.ver = ver] \in Thread
                /\ \A made \in [Names -> Ids], k \in Names :
                      [t EXCEPT !.made = made, !.pc = pc, !.k = k] \in Thread
BY Zenon DEF Thread

-----------------------------------------------------------------------------
\* The invariant that needs no assumption on what outlives what.

LEMMA BaseInit == Init => Base
<1> SUFFICES ASSUME Init PROVE Base
  OBVIOUS
<1>0. 0 \in 0..MaxAttempts
  BY ConstAssumption
<1>1. NoOp \in OpRecord
  BY <1>0, "none" \in Statuses \cup {"none"}, Zenon DEF NoOp, OpRecord, Kinds
<1>2. NoTx \in TxRecord
  BY Zenon DEF NoTx, TxRecord
<1>3. TypeOK
  <2>1. op \in [OpIds -> OpRecord]
    BY <1>1 DEF Init
  <2>2. tx \in [Clients -> TxRecord]
    BY <1>2 DEF Init
  <2>3. ex \in [Execs -> Thread]
    BY IdleIsThread DEF Init
  <2>4. rows \in [Names -> RowRecord] /\ daemon \in [Names -> Ids] /\ nextId \in 1..(MaxIds + 1)
    BY ConstAssumption DEF Init, NoRow, RowRecord, RowStates, Ids
  <2>5. /\ state \in RangeState /\ verdict \in {"none", "clean", "residue", "unproven"}
        /\ nOps \in 0..MaxOps
    BY ConstAssumption DEF Init, RangeState
  <2>6. competing \in BOOLEAN
    BY Zenon DEF Init
  <2> QED
    BY <2>1, <2>2, <2>3, <2>4, <2>5, <2>6 DEF TypeOK
<1>4. OpsCounted /\ AttemptsLeft
  BY DEF Init, OpsCounted, AttemptsLeft, NoOp
<1>5. ThreadsAdvance
  BY IdleIsThread DEF Init, ThreadsAdvance
<1>6. ReadyMeansEnumerated
  BY DEF Init, ReadyMeansEnumerated
<1>7. tx \in TxTable
  <2>1. \A c \in Clients : tx[c] = NoTx /\ tx[c].fresh = FALSE
    BY Zenon DEF Init, NoTx
  <2> QED
    BY <1>2, <2>1, Zenon DEF Init, TxTable
<1> QED
  BY <1>3, <1>4, <1>5, <1>6, <1>7 DEF Base

\* A step on the row of a started operation that leaves the threads' kinds alone.
LEMMA OpRowStep ==
    ASSUME Base, NEW o \in 1..nOps, OnlyRow(o, op', op), UNCHANGED nOps,
           op'[o].wf = "queued" => op'[o].attempts < MaxAttempts
    PROVE  op' \in OpTable /\ OpsCounted' /\ AttemptsLeft'
           /\ \A p \in OpIds : op'[p].kind = op[p].kind
BY DEF Base, TypeOK, OnlyRow, OpsCounted, AttemptsLeft

LEMMA StartedOps ==
    ASSUME Base
    PROVE  /\ 1..nOps \subseteq OpIds /\ op \in OpTable
           /\ \A o \in OpIds : InFlight(o) \/ op[o].wf # "done" => o \in 1..nOps
           /\ \A e \in Execs : ex[e].pc # "idle" => ex[e].op \in 1..nOps /\ ex[e].op \in OpIds
BY ConstAssumption DEF Base, TypeOK, OpsCounted, OpIds, OpTable, InFlight, InFlightStatuses,
   ThreadsAdvance

\* A step that touches one operation row and no thread.
LEMMA BaseByRow ==
    ASSUME Base, NEW o \in 1..nOps, OnlyRow(o, op', op),
           op'[o].wf = "queued" => op'[o].attempts < MaxAttempts,
           UNCHANGED <<competing, nOps, daemon, nextId, ex>>,
           tx' \in TxTable, rows' \in [Names -> RowRecord],
           state' \in RangeState, verdict' \in {"none", "clean", "residue", "unproven"},
           ReadyMeansEnumerated'
    PROVE  Base'
<1>1. op' \in OpTable /\ OpsCounted' /\ AttemptsLeft' /\ \A p \in OpIds : op'[p].kind = op[p].kind
  BY OpRowStep
<1>2. TypeOK'
  BY <1>1 DEF Base, TypeOK, OpTable, TxTable
<1>3. ThreadsAdvance'
  BY <1>1, StartedOps DEF Base, ThreadsAdvance
<1> QED
  BY <1>1, <1>2, <1>3 DEF Base

\* A step of one thread.
LEMMA BaseByThread ==
    ASSUME Base, NEW e \in Execs, ex[e].pc # "idle", NEW t \in Thread,
           ex' = [ex EXCEPT ![e] = t],
           t.pc # "idle" => t.op = ex[e].op /\ Advanced(t, Kind(e)),
           OnlyRow(ex[e].op, op', op),
           op'[ex[e].op].wf = "queued" => op'[ex[e].op].attempts < MaxAttempts,
           UNCHANGED <<competing, nOps>>,
           daemon' \in [Names -> Ids], nextId' \in 1..(MaxIds + 1),
           tx' \in TxTable, rows' \in [Names -> RowRecord],
           state' \in RangeState, verdict' \in {"none", "clean", "residue", "unproven"},
           ReadyMeansEnumerated'
    PROVE  Base'
<1>0. ex[e].op \in 1..nOps
  BY StartedOps
<1>1. op' \in OpTable /\ OpsCounted' /\ AttemptsLeft' /\ \A p \in OpIds : op'[p].kind = op[p].kind
  BY <1>0, OpRowStep
<1>2. ex' \in [Execs -> Thread] /\ ex'[e] = t /\ \A f \in Execs : f # e => ex'[f] = ex[f]
  BY ThreadReplaced DEF Base, TypeOK
<1>3. TypeOK'
  BY <1>1, <1>2 DEF Base, TypeOK, OpTable, TxTable
<1>4. ThreadsAdvance'
  <2> SUFFICES ASSUME NEW f \in Execs, ex'[f].pc # "idle"
               PROVE  ex'[f].op \in 1..nOps /\ Advanced(ex'[f], op'[ex'[f].op].kind)
    BY DEF ThreadsAdvance
  <2>1. CASE f = e
    BY <2>1, <1>0, <1>1, <1>2, StartedOps DEF Kind
  <2>2. CASE f # e
    BY <2>2, <1>1, <1>2, StartedOps DEF Base, ThreadsAdvance
  <2> QED
    BY <2>1, <2>2
<1> QED
  BY <1>1, <1>3, <1>4 DEF Base

\* A step of the provider: stamped, and neither rows nor range change.
LEMMA BaseByProvider ==
    ASSUME Base, NEW e \in Execs, ex[e].pc # "idle", NEW t \in Thread,
           ex' = [ex EXCEPT ![e] = t], OnChange(e),
           t.op = ex[e].op, Advanced(t, Kind(e)),
           UNCHANGED <<state, verdict, competing, nOps, rows>>,
           daemon' \in [Names -> Ids], nextId' \in 1..(MaxIds + 1),
           tx' \in TxTable
    PROVE  Base'
<1>1. OnlyRow(ex[e].op, op', op)
      /\ op'[ex[e].op].wf = op[ex[e].op].wf /\ op'[ex[e].op].attempts = op[ex[e].op].attempts
  BY StartedOps, OnChangeShape
<1>2. op'[ex[e].op].wf = "queued" => op'[ex[e].op].attempts < MaxAttempts
  BY <1>1, StartedOps DEF Base, AttemptsLeft
<1>3. ReadyMeansEnumerated'
  BY DEF Base, ReadyMeansEnumerated, Live
<1>4. rows' \in [Names -> RowRecord] /\ state' \in RangeState
      /\ verdict' \in {"none", "clean", "residue", "unproven"}
  BY DEF Base, TypeOK
<1> QED
  BY <1>1, <1>2, <1>3, <1>4, BaseByThread

-----------------------------------------------------------------------------
\* What every step of the provider has in common.

Moved(e, t) ==
    /\ t \in Thread /\ ex' = [ex EXCEPT ![e] = t]
    /\ t.op = ex[e].op /\ t.current = ex[e].current /\ t.pc \notin {"idle", "claim"}
    /\ Advanced(t, Kind(e))

ProviderFrame(e) ==
    /\ ex[e].pc \notin {"idle", "claim"} /\ OnChange(e)
    /\ UNCHANGED <<state, verdict, competing, nOps, rows>>
    /\ daemon' \in [Names -> Ids] /\ nextId' \in 1..(MaxIds + 1)
    /\ UNCHANGED tx \/ EventCommitted(tx)
    /\ \E t \in Thread : Moved(e, t)

ProviderStep(e) ==
    \/ Preflight(e) \/ CreateNetwork(e) \/ Pull(e) \/ StartContainer(e)
    \/ Verify(e) \/ ResetRemove(e) \/ DestroyRemove(e)

\* The thread of a working e, and the fields the steps read.
LEMMA ThreadFields ==
    ASSUME Base, NEW e \in Execs, ex[e].pc # "idle"
    PROVE  /\ ex[e] \in Thread /\ ex[e].k \in Names /\ ex[e].ver \in SUBSET Names
           /\ ex[e].made \in [Names -> Ids] /\ ex[e].snap \in [Names -> Ids]
           /\ ex[e].out \in [Names -> Outcomes]
           /\ Advanced(ex[e], Kind(e))
           /\ daemon \in [Names -> Ids] /\ nextId \in 1..(MaxIds + 1)
BY DEF Base, TypeOK, Thread, ThreadsAdvance, Kind

LEMMA GiveUpMoves ==
    ASSUME Base, NEW e \in Execs, ex[e].pc # "idle", GiveUp(e)
    PROVE  \E t \in Thread : Moved(e, t)
<1> DEFINE t == [ex[e] EXCEPT !.pc = "record", !.ok = FALSE]
<1>1. t \in Thread
  BY ThreadFields, ThreadShape, "record" \in Pcs, FALSE \in BOOLEAN, Zenon DEF Pcs
<1>2. ex' = [ex EXCEPT ![e] = t]
  BY DEF GiveUp
<1>3. t.pc = "record" /\ t.ok = FALSE /\ t.op = ex[e].op /\ t.current = ex[e].current
  BY ThreadFields DEF Thread
<1>4. Advanced(t, Kind(e))
  <2> HIDE DEF t
  <2> QED BY <1>3 DEF Advanced
<1> HIDE DEF t
<1> QED
  BY <1>1, <1>2, <1>3, <1>4 DEF Moved

LEMMA CreatedShape ==
    ASSUME Base, NEW n \in Names, nextId <= MaxIds, Created(n)
    PROVE  /\ daemon' \in [Names -> Ids] /\ nextId' \in 1..(MaxIds + 1)
           /\ nextId \in Ids /\ nextId # 0
BY ConstAssumption DEF Base, TypeOK, Created, Ids

LEMMA PreflightFrame ==
    ASSUME Base, NEW e \in Execs, Preflight(e)
    PROVE  ProviderFrame(e)
<1>0. ex[e].pc = "preflight" /\ ex[e].pc # "idle"
  BY DEF Preflight
<1>1. 1 \in Names /\ Net \in Names
  BY ConstAssumption DEF Names, Net
<1>2. CASE ex' = [ex EXCEPT ![e].pc = IF Kind(e) = "deploy" THEN "network" ELSE "remove",
                            ![e].k = IF Kind(e) = "deploy" THEN Net ELSE 1]
  <2> DEFINE p == IF Kind(e) = "deploy" THEN "network" ELSE "remove"
             k == IF Kind(e) = "deploy" THEN Net ELSE 1
             t == [ex[e] EXCEPT !.pc = p, !.k = k]
  <2>1. p \in Pcs /\ k \in Names /\ p \in {"network", "remove"}
    BY <1>1 DEF Pcs
  <2>2. ex' = [ex EXCEPT ![e] = t]
    BY <1>2
  <2> HIDE DEF p, k
  <2>3. t \in Thread
    BY <2>1, <1>0, ThreadFields, ThreadShape, Zenon
  <2>4. t.pc = p /\ t.op = ex[e].op /\ t.current = ex[e].current
    BY <1>0, ThreadFields DEF Thread
  <2> HIDE DEF t
  <2>5. Advanced(t, Kind(e))
    BY <2>4, <2>1 DEF Advanced
  <2> QED
    BY <2>1, <2>2, <2>3, <2>4, <2>5, <1>0, ThreadFields DEF Moved, ProviderFrame, Preflight
<1>3. CASE GiveUp(e)
  BY <1>3, <1>0, GiveUpMoves, ThreadFields DEF ProviderFrame, Preflight
<1>4. CASE /\ Kind(e) = "destroy"
           /\ ex' = [ex EXCEPT ![e].pc = "record", ![e].probe = FALSE,
                ![e].out = [n \in Names |-> IF ex[e].snap[n] # 0 THEN "unproven" ELSE "none"]]
  <2> DEFINE out == [n \in Names |-> IF ex[e].snap[n] # 0 THEN "unproven" ELSE "none"]
             t == [ex[e] EXCEPT !.pc = "record", !.probe = FALSE, !.out = out]
  <2>1. out \in [Names -> Outcomes]
    BY DEF Outcomes
  <2>2. ex' = [ex EXCEPT ![e] = t]
    BY <1>4
  <2> HIDE DEF out
  <2>3. t \in Thread
    BY <2>1, <1>0, "record" \in Pcs, ThreadFields, ThreadShape, Zenon DEF Pcs
  <2>4. t.pc = "record" /\ t.op = ex[e].op /\ t.current = ex[e].current
    BY <1>0, ThreadFields DEF Thread
  <2> HIDE DEF t
  <2>5. Advanced(t, Kind(e))
    BY <2>4, <1>4 DEF Advanced
  <2> QED
    BY <2>2, <2>3, <2>4, <2>5, <1>0, ThreadFields DEF Moved, ProviderFrame, Preflight
<1> QED
  BY <1>2, <1>3, <1>4 DEF Preflight

LEMMA CreateNetworkFrame ==
    ASSUME Base, NEW e \in Execs, CreateNetwork(e)
    PROVE  ProviderFrame(e)
<1>0. ex[e].pc = "network" /\ ex[e].pc # "idle"
  BY DEF CreateNetwork
<1>1. Net \in Names
  BY ConstAssumption DEF Names, Net
<1>2. CASE /\ nextId <= MaxIds /\ Created(Net) /\ EventCommitted(tx)
           /\ ex' = [ex EXCEPT ![e].pc = "pull", ![e].made[Net] = nextId,
                               ![e].ver = @ \cup {Net}]
  <2> DEFINE made == [ex[e].made EXCEPT ![Net] = nextId]
             ver == ex[e].ver \cup {Net}
             t == [ex[e] EXCEPT !.pc = "pull", !.made = made, !.ver = ver]
  <2>1. made \in [Names -> Ids] /\ ver \in SUBSET Names /\ made[Net] # 0
    BY <1>0, <1>1, <1>2, ThreadFields, CreatedShape
  <2>2. ex' = [ex EXCEPT ![e] = t]
    BY <1>2
  <2> HIDE DEF made, ver
  <2>3. t \in Thread
    BY <2>1, <1>0, "pull" \in Pcs, ThreadFields, ThreadShape, Zenon DEF Pcs
  <2>4. t.pc = "pull" /\ t.op = ex[e].op /\ t.current = ex[e].current /\ t.made = made
    BY <1>0, ThreadFields DEF Thread
  <2> HIDE DEF t
  <2>5. Advanced(t, Kind(e))
    BY <2>1, <2>4 DEF Advanced, HasNetwork
  <2> QED
    BY <2>2, <2>3, <2>4, <2>5, <1>0, <1>1, <1>2, CreatedShape
    DEF Moved, ProviderFrame, CreateNetwork
<1>3. CASE GiveUp(e) /\ UNCHANGED <<daemon, nextId, tx>>
  BY <1>3, <1>0, GiveUpMoves, ThreadFields DEF ProviderFrame, CreateNetwork
<1>4. CASE nextId <= MaxIds /\ Created(Net) /\ GiveUp(e) /\ UNCHANGED tx
  BY <1>4, <1>0, <1>1, GiveUpMoves, CreatedShape DEF ProviderFrame, CreateNetwork
<1> QED
  BY <1>2, <1>3, <1>4 DEF CreateNetwork

LEMMA PullFrame ==
    ASSUME Base, NEW e \in Execs, Pull(e)
    PROVE  ProviderFrame(e)
<1>0. ex[e].pc = "pull" /\ ex[e].pc # "idle"
  BY DEF Pull
<1>1. 1 \in Names /\ 1 \in Components /\ \A n \in Components : ~(n < 1)
  BY ConstAssumption DEF Names, Components
<1>2. CASE ex' = [ex EXCEPT ![e].pc = "start", ![e].k = 1]
  <2> DEFINE t == [ex[e] EXCEPT !.pc = "start", !.k = 1]
  <2>1. ex' = [ex EXCEPT ![e] = t]
    BY <1>2
  <2>2. t \in Thread
    BY <1>0, <1>1, "start" \in Pcs, ThreadFields, ThreadShape, Zenon DEF Pcs
  <2>3. /\ t.pc = "start" /\ t.k = 1 /\ t.op = ex[e].op /\ t.current = ex[e].current
        /\ t.made = ex[e].made /\ t.snap = ex[e].snap
    BY <1>0, ThreadFields DEF Thread
  <2> HIDE DEF t
  <2>4. Advanced(t, Kind(e))
    BY <2>3, <1>0, <1>1, ThreadFields DEF Advanced, HasNetwork
  <2> QED
    BY <2>1, <2>2, <2>3, <2>4, <1>0, ThreadFields DEF Moved, ProviderFrame, Pull
<1>3. CASE GiveUp(e)
  BY <1>3, <1>0, GiveUpMoves, ThreadFields DEF ProviderFrame, Pull
<1> QED
  BY <1>2, <1>3 DEF Pull

LEMMA StartContainerFrame ==
    ASSUME Base, NEW e \in Execs, StartContainer(e)
    PROVE  ProviderFrame(e)
<1> DEFINE n == ex[e].k
<1>0. ex[e].pc = "start" /\ ex[e].pc # "idle"
  BY DEF StartContainer
<1>1. /\ n \in Components /\ n \in Names /\ n \in Nat /\ N \in Nat /\ n <= N
      /\ n # N => n + 1 \in Components /\ n + 1 \in Names
      /\ Components \subseteq Names
  BY <1>0, ThreadFields, ConstAssumption DEF Advanced, Components, Names
<1>2. CASE /\ nextId <= MaxIds /\ Created(n) /\ EventCommitted(tx)
           /\ ex' = [ex EXCEPT ![e].made[n] = nextId,
                               ![e].pc = IF n = N THEN "verify" ELSE "start",
                               ![e].k = IF n = N THEN n ELSE n + 1]
  <2> DEFINE made == [ex[e].made EXCEPT ![n] = nextId]
             p == IF n = N THEN "verify" ELSE "start"
             k == IF n = N THEN n ELSE n + 1
             t == [ex[e] EXCEPT !.made = made, !.pc = p, !.k = k]
  <2>1. made \in [Names -> Ids] /\ p \in Pcs /\ k \in Names
    BY <1>0, <1>1, <1>2, ThreadFields, CreatedShape DEF Pcs
  <2>2. \A m \in Components : m <= n => made[m] # 0
    <3> SUFFICES ASSUME NEW m \in Components, m <= n PROVE made[m] # 0
      OBVIOUS
    <3>1. CASE m = n
      BY <3>1, <1>0, <1>1, <1>2, ThreadFields, CreatedShape
    <3>2. CASE m # n
      BY <3>2, <1>0, <1>1, ThreadFields DEF Advanced, Components
    <3> QED
      BY <3>1, <3>2
  <2>3. made[Net] = ex[e].made[Net]
    BY <1>0, <1>1, ThreadFields DEF Components, Net, Names
  <2>4. ex' = [ex EXCEPT ![e] = t]
    BY <1>2
  <2>5. t \in Thread
    <3> HIDE DEF made, p, k
    <3> QED BY <2>1, <1>0, ThreadFields, ThreadShape, Zenon
  <2>6. /\ t.pc = p /\ t.k = k /\ t.op = ex[e].op /\ t.current = ex[e].current
        /\ t.made = made /\ t.snap = ex[e].snap
    <3> HIDE DEF made, p, k
    <3> QED BY <1>0, ThreadFields DEF Thread
  <2> HIDE DEF t, made
  <2>7. HasNetwork(t, Kind(e))
    BY <2>3, <2>6, <1>0, ThreadFields DEF HasNetwork, Advanced
  <2>8. Advanced(t, Kind(e))
    <3>1. CASE n = N
      BY <3>1, <1>1, <2>2, <2>6, <2>7 DEF Advanced, Components
    <3>2. CASE n # N
      BY <3>2, <1>1, <2>2, <2>6, <2>7 DEF Advanced, Components
    <3> QED
      BY <3>1, <3>2
  <2>9. daemon' \in [Names -> Ids] /\ nextId' \in 1..(MaxIds + 1)
    BY <1>1, <1>2, CreatedShape
  <2>10. Moved(e, t)
    BY <2>4, <2>5, <2>6, <2>8 DEF Moved
  <2> QED
    BY <2>5, <2>9, <2>10, <1>0, <1>2 DEF ProviderFrame, StartContainer
<1>3. CASE GiveUp(e) /\ UNCHANGED <<daemon, nextId, tx>>
  BY <1>3, <1>0, GiveUpMoves, ThreadFields DEF ProviderFrame, StartContainer
<1>4. CASE nextId <= MaxIds /\ Created(n) /\ GiveUp(e) /\ UNCHANGED tx
  BY <1>4, <1>0, <1>1, GiveUpMoves, CreatedShape DEF ProviderFrame, StartContainer
<1> QED
  BY <1>2, <1>3, <1>4 DEF StartContainer

LEMMA VerifyFrame ==
    ASSUME Base, NEW e \in Execs, Verify(e)
    PROVE  ProviderFrame(e)
<1>0. ex[e].pc = "verify" /\ ex[e].pc # "idle"
  BY DEF Verify
<1>1. PICK answered \in 0..N :
        /\ ex' = [ex EXCEPT ![e].pc = "record", ![e].ok = AllAnswered(answered),
                            ![e].ver = @ \cup (1..answered)]
        /\ UNCHANGED tx \/ EventCommitted(tx)
  BY DEF Verify
<1> DEFINE ok == AllAnswered(answered)
           ver == ex[e].ver \cup (1..answered)
           t == [ex[e] EXCEPT !.pc = "record", !.ok = ok, !.ver = ver]
<1>2. ver \in SUBSET Names
  BY <1>0, ThreadFields, ConstAssumption DEF Names
<1>3. ok \in BOOLEAN
  BY Zenon DEF AllAnswered
<1>4. ex' = [ex EXCEPT ![e] = t]
  BY <1>1
<1> HIDE DEF ok, ver
<1>5. t \in Thread
  BY <1>2, <1>3, <1>0, "record" \in Pcs, ThreadFields, ThreadShape, Zenon DEF Pcs
<1>6. /\ t.pc = "record" /\ t.op = ex[e].op /\ t.current = ex[e].current
      /\ t.made = ex[e].made /\ t.snap = ex[e].snap
  BY <1>0, ThreadFields DEF Thread
<1> HIDE DEF t
<1>7. Advanced(t, Kind(e))
  BY <1>6, <1>0, ThreadFields DEF Advanced, HasNetwork
<1> QED
  BY <1>1, <1>4, <1>5, <1>6, <1>7, <1>0, ThreadFields DEF Moved, ProviderFrame, Verify

LEMMA DaemonAfterShape ==
    ASSUME Base, NEW n \in Names, NEW gone, DaemonAfter(n, gone)
    PROVE  daemon' \in [Names -> Ids]
BY ConstAssumption DEF Base, TypeOK, DaemonAfter, Ids

LEMMA ResetRemoveFrame ==
    ASSUME Base, NEW e \in Execs, ResetRemove(e)
    PROVE  ProviderFrame(e)
<1> DEFINE n == ex[e].k
           then == IF n < N THEN [ex[e] EXCEPT !.k = n + 1]
                   ELSE [ex[e] EXCEPT !.pc = IF ex[e].snap[Net] = 0 THEN "network" ELSE "pull"]
<1>0. ex[e].pc = "remove" /\ ex[e].pc # "idle" /\ Kind(e) = "reset"
  BY DEF ResetRemove
<1>1. n \in Names /\ (n < N => n + 1 \in Names)
  BY <1>0, ThreadFields, ConstAssumption DEF Names
<1>2. /\ then \in Thread /\ then.op = ex[e].op /\ then.current = ex[e].current
      /\ then.pc \notin {"idle", "claim"} /\ Advanced(then, Kind(e))
  <2>1. CASE n < N
    <3> DEFINE t == [ex[e] EXCEPT !.k = n + 1]
    <3>1. t \in Thread
      BY <2>1, <1>0, <1>1, ThreadFields, ThreadShape, Zenon
    <3>2. t.pc = "remove" /\ t.op = ex[e].op /\ t.current = ex[e].current
      BY <1>0, ThreadFields DEF Thread
    <3>3. then = t
      BY <2>1
    <3> HIDE DEF t, then
    <3>4. Advanced(t, Kind(e))
      BY <3>2 DEF Advanced
    <3> QED
      BY <3>1, <3>2, <3>3, <3>4
  <2>2. CASE ~(n < N)
    <3> DEFINE p == IF ex[e].snap[Net] = 0 THEN "network" ELSE "pull"
               t == [ex[e] EXCEPT !.pc = p]
    <3>1. p \in Pcs /\ p \in {"network", "pull"} /\ (p = "pull" => ex[e].snap[Net] # 0)
      BY DEF Pcs
    <3>2. then = t
      BY <2>2
    <3> HIDE DEF p, then
    <3>3. t \in Thread
      BY <3>1, <1>0, ThreadFields, ThreadShape, Zenon
    <3>4. t.pc = p /\ t.op = ex[e].op /\ t.current = ex[e].current /\ t.snap = ex[e].snap
      BY <1>0, ThreadFields DEF Thread
    <3> HIDE DEF t
    <3>5. Advanced(t, Kind(e))
      BY <3>1, <3>4, <1>0 DEF Advanced, HasNetwork
    <3> QED
      BY <3>1, <3>2, <3>3, <3>4, <3>5
  <2> QED
    BY <2>1, <2>2
<1>3. ex' = [ex EXCEPT ![e] = then] \/ GiveUp(e)
  BY DEF ResetRemove
<1>4. \E t \in Thread : Moved(e, t)
  <2>1. CASE GiveUp(e)
    BY <2>1, <1>0, GiveUpMoves
  <2>2. CASE ex' = [ex EXCEPT ![e] = then]
    <3> HIDE DEF then
    <3> QED BY <2>2, <1>2 DEF Moved
  <2> QED
    BY <2>1, <2>2, <1>3
<1>5. daemon' \in [Names -> Ids]
  <2>1. UNCHANGED daemon \/ \E gone \in BOOLEAN : DaemonAfter(n, gone)
    BY DEF ResetRemove
  <2> QED
    BY <2>1, <1>0, <1>1, DaemonAfterShape, ThreadFields
<1> QED
  BY <1>0, <1>4, <1>5, ThreadFields DEF ProviderFrame, ResetRemove

LEMMA DestroyRemoveFrame ==
    ASSUME Base, NEW e \in Execs, DestroyRemove(e)
    PROVE  ProviderFrame(e)
<1> DEFINE n == ex[e].k
           then == IF n = Net THEN [ex[e] EXCEPT !.pc = "record"]
                   ELSE [ex[e] EXCEPT !.k = IF n < N THEN n + 1 ELSE Net]
<1>0. ex[e].pc = "remove" /\ ex[e].pc # "idle" /\ Kind(e) = "destroy"
  BY DEF DestroyRemove
<1>1. n \in Names /\ (IF n < N THEN n + 1 ELSE Net) \in Names
  BY <1>0, ThreadFields, ConstAssumption DEF Names, Net
<1>2. /\ then \in Thread /\ then.op = ex[e].op /\ then.current = ex[e].current
      /\ then.pc \in {"remove", "record"}
  <2>1. CASE n = Net
    <3>1. then = [ex[e] EXCEPT !.pc = "record"]
      BY <2>1
    <3>2. [ex[e] EXCEPT !.pc = "record"] \in Thread
      BY <1>0, "record" \in Pcs, ThreadFields, ThreadShape, Zenon DEF Pcs
    <3> QED
      BY <3>1, <3>2, <1>0, ThreadFields DEF Thread
  <2>2. CASE n # Net
    <3> DEFINE k == IF n < N THEN n + 1 ELSE Net
    <3>1. then = [ex[e] EXCEPT !.k = k]
      BY <2>2
    <3> HIDE DEF k
    <3>2. [ex[e] EXCEPT !.k = k] \in Thread
      <4>1. k \in Names
        BY <1>1 DEF k
      <4> QED BY <4>1, <1>0, ThreadFields, ThreadShape, Zenon
    <3> QED
      BY <3>1, <3>2, <1>0, ThreadFields DEF Thread
  <2> QED
    BY <2>1, <2>2
<1> HIDE DEF then
<1>3. ASSUME NEW outcome \in Outcomes
      PROVE  LET t == [then EXCEPT !.out[n] = outcome] IN
             /\ t \in Thread /\ t.op = ex[e].op /\ t.current = ex[e].current /\ t.pc = then.pc
  <2> DEFINE out == [then.out EXCEPT ![n] = outcome]
             t == [then EXCEPT !.out = out]
  <2>1. out \in [Names -> Outcomes]
    BY <1>1, <1>2 DEF Thread
  <2> HIDE DEF out
  <2>2. t \in Thread
    BY <2>1, <1>2, ThreadShape, Zenon
  <2>3. t.op = ex[e].op /\ t.current = ex[e].current /\ t.pc = then.pc
    BY <1>2 DEF Thread
  <2> QED
    BY <2>2, <2>3 DEF out
<1>4. \E t \in Thread : /\ ex' = [ex EXCEPT ![e] = t] /\ t.op = ex[e].op
                        /\ t.current = ex[e].current /\ t.pc \in {"remove", "record"}
  <2>1. \/ ex' = [ex EXCEPT ![e] = then]
        \/ \E outcome \in Outcomes : ex' = [ex EXCEPT ![e] = [then EXCEPT !.out[n] = outcome]]
    BY DEF DestroyRemove, then
  <2> QED
    BY <2>1, <1>2, <1>3
<1>5. \E t \in Thread : Moved(e, t)
  BY <1>4, <1>0 DEF Moved, Advanced
<1>6. daemon' \in [Names -> Ids]
  <2>1. UNCHANGED daemon \/ \E gone \in BOOLEAN : DaemonAfter(n, gone)
    BY DEF DestroyRemove
  <2> QED
    BY <2>1, <1>0, <1>1, DaemonAfterShape, ThreadFields
<1> QED
  BY <1>0, <1>5, <1>6, ThreadFields DEF ProviderFrame, DestroyRemove

LEMMA ProviderSteps ==
    ASSUME Base, NEW e \in Execs, ProviderStep(e)
    PROVE  ProviderFrame(e)
BY PreflightFrame, CreateNetworkFrame, PullFrame, StartContainerFrame, VerifyFrame,
   ResetRemoveFrame, DestroyRemoveFrame DEF ProviderStep

-----------------------------------------------------------------------------
\* Every step keeps the base invariant.

LEMMA BaseProvider ==
    ASSUME Base, NEW e \in Execs, ProviderStep(e)
    PROVE  Base'
<1>1. ProviderFrame(e)
  BY ProviderSteps
<1>2. PICK t \in Thread : Moved(e, t)
  BY <1>1 DEF ProviderFrame
<1>3. tx' \in TxTable
  BY <1>1, EventShape DEF ProviderFrame, Base, TypeOK
<1> QED
  BY <1>1, <1>2, <1>3, BaseByProvider DEF ProviderFrame, Moved

LEMMA ClaimShape ==
    ASSUME Base, NEW e \in Execs, Claim(e)
    PROVE  /\ OnlyRow(ex[e].op, op', op)
           /\ op'[ex[e].op].status \in {op[ex[e].op].status, "running"}
           /\ op'[ex[e].op].wf = op[ex[e].op].wf
           /\ op'[ex[e].op].attempts = op[ex[e].op].attempts
           /\ \E t \in Thread : Moved(e, t)
<1> DEFINE o == ex[e].op
           st == IF ex[e].write THEN "running" ELSE op[o].status
           r == [op[o] EXCEPT !.status = st]
           snap == [n \in Names |-> IF Live(n) THEN rows[n].id ELSE 0]
           ver == {Net} \cap {n \in Names : rows[n].st = "verified"}
           t == [ex[e] EXCEPT !.pc = "preflight", !.snap = snap, !.ver = ver]
<1>0. ex[e].pc # "idle"
  BY DEF Claim
<1>1. o \in OpIds /\ op \in OpTable /\ op[o] \in OpRecord
  BY <1>0, StartedOps DEF OpTable
<1>2. st \in Statuses \cup {"none"} /\ st \in {op[o].status, "running"}
  BY <1>1 DEF OpRecord, Statuses
<1>3. op' = [op EXCEPT ![o] = r]
  BY <1>1 DEF Claim, OpTable
<1> HIDE DEF st
<1>4. /\ r \in OpRecord /\ r.kind = op[o].kind /\ r.status = st
      /\ r.wf = op[o].wf /\ r.attempts = op[o].attempts
  BY <1>1, <1>2, Zenon DEF OpRecord
<1> HIDE DEF r
<1>5. OnlyRow(o, op', op) /\ op'[o] = r
  BY <1>1, <1>3, <1>4, RowReplaced
<1>6. snap \in [Names -> Ids] /\ ver \in SUBSET Names
  BY ConstAssumption DEF Base, TypeOK, RowRecord, Ids
<1>7. ex' = [ex EXCEPT ![e] = t]
  BY DEF Claim
<1> HIDE DEF snap, ver
<1>8. t \in Thread
  BY <1>0, <1>6, "preflight" \in Pcs, ThreadFields, ThreadShape, Zenon DEF Pcs
<1>9. t.pc = "preflight" /\ t.op = ex[e].op /\ t.current = ex[e].current
  BY <1>0, ThreadFields DEF Thread
<1> HIDE DEF t
<1>10. Moved(e, t)
  BY <1>7, <1>8, <1>9 DEF Moved, Advanced
<1> QED
  BY <1>2, <1>4, <1>5, <1>8, <1>10

LEMMA BaseClaim ==
    ASSUME Base, NEW e \in Execs, Claim(e)
    PROVE  Base'
<1>0. ex[e].pc # "idle"
  BY DEF Claim
<1>1. PICK t \in Thread : Moved(e, t)
  BY ClaimShape
<1>2. op'[ex[e].op].wf = "queued" => op'[ex[e].op].attempts < MaxAttempts
  BY <1>0, ClaimShape, StartedOps DEF Base, AttemptsLeft
<1>3. ReadyMeansEnumerated'
  BY DEF Base, ReadyMeansEnumerated, Live, Claim
<1>4. /\ rows' \in [Names -> RowRecord] /\ state' \in RangeState
      /\ verdict' \in {"none", "clean", "residue", "unproven"}
      /\ daemon' \in [Names -> Ids] /\ nextId' \in 1..(MaxIds + 1)
      /\ tx' \in TxTable /\ UNCHANGED <<competing, nOps>>
  BY DEF Base, TypeOK, Claim
<1> QED
  BY <1>0, <1>1, <1>2, <1>3, <1>4, ClaimShape, BaseByThread DEF Moved

\* The operation row after a thread has written its final status and returned.
LEMMA FinalShape ==
    ASSUME Base, NEW e \in Execs, ex[e].pc # "idle", NEW st \in Statuses,
           op' = Completed(e, Resolved(op, ex[e].op, st))
    PROVE  /\ OnlyRow(ex[e].op, op', op)
           /\ op'[ex[e].op].status = st
           /\ op'[ex[e].op].wf = "queued" => op'[ex[e].op].attempts < MaxAttempts
           /\ ex[e].current => op'[ex[e].op].wf = "done"
<1> DEFINE o == ex[e].op
           q == Resolved(op, o, st)
<1>1. o \in OpIds /\ op \in OpTable
  BY StartedOps
<1>2. OnlyRow(o, q, op) /\ q[o].status = st /\ q[o].wf = op[o].wf /\ q[o].attempts = op[o].attempts
  BY <1>1, ResolvedShape
<1>3. op' = Completed(e, q)
  OBVIOUS
<1> HIDE DEF q
<1>4. q \in OpTable
  BY <1>2 DEF OnlyRow
<1>5. OnlyRow(o, op', q) /\ op'[o].status = st /\ (op'[o].wf = "done" \/ op' = q)
  BY <1>1, <1>2, <1>3, <1>4, CompletedShape
<1>6. OnlyRow(o, op', op)
  BY <1>2, <1>5 DEF OnlyRow
<1>7. op'[o].wf = "queued" => op'[o].attempts < MaxAttempts
  BY <1>1, <1>2, <1>5 DEF Base, AttemptsLeft
<1>8. ex[e].current => op'[o].wf = "done"
  BY <1>1, <1>3, <1>4, WorkflowDoneShape DEF Completed
<1> QED
  BY <1>5, <1>6, <1>7, <1>8

LEMMA BaseUnexpectedFailure ==
    ASSUME Base, NEW e \in Execs, UnexpectedFailure(e)
    PROVE  Base'
<1>0. ex[e].pc # "idle" /\ "failed" \in Statuses
  BY DEF UnexpectedFailure, Statuses
<1>1. /\ OnlyRow(ex[e].op, op', op)
      /\ op'[ex[e].op].wf = "queued" => op'[ex[e].op].attempts < MaxAttempts
  BY <1>0, FinalShape DEF UnexpectedFailure
<1>2. tx' \in TxTable
  BY EventShape DEF UnexpectedFailure, Base, TypeOK
<1>3. /\ rows' \in [Names -> RowRecord] /\ state' \in RangeState
      /\ verdict' \in {"none", "clean", "residue", "unproven"}
      /\ daemon' \in [Names -> Ids] /\ nextId' \in 1..(MaxIds + 1)
      /\ ReadyMeansEnumerated' /\ UNCHANGED <<competing, nOps>>
  BY DEF Base, TypeOK, UnexpectedFailure, RangeState, ReadyMeansEnumerated
<1>4. ex' = [ex EXCEPT ![e] = IdleThread]
  BY DEF UnexpectedFailure
<1> QED
  BY <1>0, <1>1, <1>2, <1>3, <1>4, IdleIsThread, BaseByThread

LEMMA CrashShape ==
    ASSUME Base, NEW e \in Execs, Crash(e) \/ AttemptTimesOut(e)
    PROVE  /\ OnlyRow(ex[e].op, op', op)
           /\ op'[ex[e].op].status = op[ex[e].op].status
           /\ op'[ex[e].op].wf = "queued" => op'[ex[e].op].attempts < MaxAttempts
           /\ ex[e].current => op'[ex[e].op].wf \in {"queued", "done"}
<1>0. ex[e].pc # "idle" /\ op' = IF ex[e].current THEN Requeue(ex[e].op, op) ELSE op
  BY DEF Crash, AttemptTimesOut
<1>1. ex[e].op \in OpIds /\ op \in OpTable
  BY <1>0, StartedOps
<1>2. CASE ex[e].current
  BY <1>0, <1>1, <1>2, RequeueShape
<1>3. CASE ~ex[e].current
  BY <1>0, <1>1, <1>3 DEF Base, AttemptsLeft, OnlyRow
<1> QED
  BY <1>2, <1>3

LEMMA BaseCrash ==
    ASSUME Base, NEW e \in Execs, Crash(e) \/ AttemptTimesOut(e)
    PROVE  Base'
<1>0. ex[e].pc # "idle"
  BY DEF Crash, AttemptTimesOut
<1>1. /\ rows' \in [Names -> RowRecord] /\ state' \in RangeState
      /\ verdict' \in {"none", "clean", "residue", "unproven"}
      /\ daemon' \in [Names -> Ids] /\ nextId' \in 1..(MaxIds + 1)
      /\ tx' \in TxTable /\ UNCHANGED <<competing, nOps>>
  BY DEF Base, TypeOK, Crash, AttemptTimesOut
<1>2. ReadyMeansEnumerated'
  BY DEF Base, ReadyMeansEnumerated, Live, Crash, AttemptTimesOut
<1>3. CASE Crash(e)
  <2>1. ex' = [ex EXCEPT ![e] = IdleThread]
    BY <1>3 DEF Crash
  <2> QED
    BY <1>0, <1>1, <1>2, <2>1, CrashShape, IdleIsThread, BaseByThread
<1>4. CASE AttemptTimesOut(e)
  <2> DEFINE t == [ex[e] EXCEPT !.current = FALSE]
  <2>1. ex' = [ex EXCEPT ![e] = t]
    BY <1>4 DEF AttemptTimesOut
  <2>2. t \in Thread
    BY <1>0, ThreadFields, ThreadShape, Zenon
  <2>3. /\ t.pc = ex[e].pc /\ t.op = ex[e].op /\ t.k = ex[e].k /\ t.made = ex[e].made
        /\ t.snap = ex[e].snap /\ t.ok = ex[e].ok
    BY <1>0, ThreadFields, Zenon DEF Thread
  <2> HIDE DEF t
  <2>4. Advanced(t, Kind(e))
    BY <1>0, <2>3, ThreadFields DEF Advanced, HasNetwork
  <2> QED
    BY <1>0, <1>1, <1>2, <2>1, <2>2, <2>3, <2>4, CrashShape, BaseByThread
<1> QED
  BY <1>3, <1>4

\* What a bring-up writes: a row for what it reports, the others as they were.
LEMMA PersistShape ==
    ASSUME Base, NEW e \in Execs, ex[e].pc # "idle", PersistResources(e)
    PROVE  /\ rows' \in [Names -> RowRecord]
           /\ \A n \in Names : Reported(e)[n] = 0 => rows'[n] = rows[n]
           /\ \A n \in Names : Reported(e)[n] # 0 =>
                /\ rows'[n].id = Reported(e)[n]
                /\ rows'[n].st = IF n \in ex[e].ver THEN "verified" ELSE "created"
<1>1. Reported(e) \in [Names -> Ids]
  BY ThreadFields, ConstAssumption DEF Reported, Net, Names
<1>2. ASSUME NEW n \in Names
      PROVE  rows'[n] = IF Reported(e)[n] # 0 THEN ObservedRow(e, n) ELSE rows[n]
  BY DEF PersistResources
<1>3. ASSUME NEW n \in Names
      PROVE  /\ ObservedRow(e, n) \in RowRecord
             /\ ObservedRow(e, n).id = Reported(e)[n]
             /\ ObservedRow(e, n).st = IF n \in ex[e].ver THEN "verified" ELSE "created"
  BY <1>1 DEF ObservedRow, RowRecord, RowStates
<1>4. rows' = [n \in Names |-> rows'[n]]
  BY DEF PersistResources
<1>5. \A n \in Names : rows'[n] \in RowRecord
  BY <1>2, <1>3 DEF Base, TypeOK
<1> QED
  BY <1>2, <1>3, <1>4, <1>5

\* A bring-up that succeeded reports every object of the template.
LEMMA SuccessReportsAll ==
    ASSUME Base, NEW e \in Execs, ex[e].pc = "record", ex[e].ok, Kind(e) # "destroy"
    PROVE  \A n \in Names : Reported(e)[n] # 0
<1>1. HasNetwork(ex[e], Kind(e)) /\ \A n \in Components : ex[e].made[n] # 0
  BY ThreadFields DEF Advanced
<1>2. \A n \in Names : n = Net \/ n \in Components
  BY ConstAssumption DEF Names, Net, Components
<1> QED
  BY <1>1, <1>2 DEF Reported, HasNetwork

LEMMA BaseRecordBringUp ==
    ASSUME Base, NEW e \in Execs, RecordBringUp(e)
    PROVE  Base'
<1> DEFINE st == IF ex[e].ok THEN "succeeded" ELSE "failed"
<1>0. ex[e].pc = "record" /\ ex[e].pc # "idle" /\ Kind(e) # "destroy" /\ PersistResources(e)
  BY DEF RecordBringUp
<1>1. st \in Statuses /\ op' = Completed(e, Resolved(op, ex[e].op, st))
  BY DEF RecordBringUp, Statuses
<1> HIDE DEF st
<1>2. /\ OnlyRow(ex[e].op, op', op)
      /\ op'[ex[e].op].wf = "queued" => op'[ex[e].op].attempts < MaxAttempts
  BY <1>0, <1>1, FinalShape
<1>3. tx' \in TxTable
  BY EventShape DEF RecordBringUp, Base, TypeOK
<1>4. rows' \in [Names -> RowRecord]
  BY <1>0, PersistShape
<1>5. /\ state' \in RangeState
      /\ verdict' \in {"none", "clean", "residue", "unproven"}
      /\ daemon' \in [Names -> Ids] /\ nextId' \in 1..(MaxIds + 1)
      /\ UNCHANGED <<competing, nOps>> /\ ex' = [ex EXCEPT ![e] = IdleThread]
  BY DEF Base, TypeOK, RecordBringUp, RangeState
<1>6. ReadyMeansEnumerated'
  <2>1. CASE ex[e].ok
    <3>1. \A n \in Names : Live(n)'
      BY <2>1, <1>0, PersistShape, SuccessReportsAll DEF Live
    <3> QED
      BY <2>1, <3>1 DEF ReadyMeansEnumerated, RecordBringUp
  <2>2. CASE ~ex[e].ok
    BY <2>2 DEF ReadyMeansEnumerated, RecordBringUp
  <2> QED
    BY <2>1, <2>2
<1> QED
  BY <1>0, <1>2, <1>3, <1>4, <1>5, <1>6, IdleIsThread, BaseByThread

\* What a teardown writes.
Teardown(e, reachable, unknown, headline) ==
    LET final == Confirmed(e, reachable, unknown)
        silent(n) == Live(n) /\ final[n] = "none"
    IN  /\ headline = Verdict(reachable,
               {n \in Names : final[n] = "present"},
               {n \in Names : final[n] = "unproven" \/ silent(n)})
        /\ \A n \in Names : rows'[n] =
               IF ~Live(n) THEN rows[n]
               ELSE [rows[n] EXCEPT !.st =
                        IF silent(n) THEN "unproven" ELSE RowStateFor(final[n])]
        /\ verdict' = headline
        /\ state' = StateAfterTeardown(headline)

LEMMA TeardownShape ==
    ASSUME Base, NEW e \in Execs, RecordDestroy(e)
    PROVE  \E reachable \in BOOLEAN, unknown \in SUBSET Names,
              headline \in {"clean", "residue", "unproven"} :
              /\ Teardown(e, reachable, unknown, headline)
              /\ op' = Completed(e, Resolved(op, ex[e].op,
                          CASE headline = "clean"    -> "succeeded"
                            [] headline = "residue"  -> "failed"
                            [] headline = "unproven" -> "unproven"))
              /\ rows' = [n \in Names |-> rows'[n]]
<1> DEFINE Written(reachable, unknown) ==
         LET final == Confirmed(e, reachable, unknown)
             seen == {n \in Names : final[n] # "none"}
             silent == {n \in Names \ seen : Live(n)}
             present == {n \in seen : final[n] = "present"}
             unproven == {n \in seen : final[n] = "unproven"} \cup silent
             headline == Verdict(reachable, present, unproven)
         IN  /\ rows' = [n \in Names |->
                           IF ~Live(n) THEN rows[n]
                           ELSE [rows[n] EXCEPT !.st =
                                   IF n \in silent THEN "unproven" ELSE RowStateFor(final[n])]]
             /\ verdict' = headline
             /\ op' = Completed(e, Resolved(op, ex[e].op,
                          CASE headline = "clean"    -> "succeeded"
                            [] headline = "residue"  -> "failed"
                            [] headline = "unproven" -> "unproven"))
             /\ state' = StateAfterTeardown(headline)
<1>0. \E reachable \in IF ex[e].probe THEN BOOLEAN ELSE {FALSE} :
         \E unknown \in SUBSET Asked(e, reachable) : Written(reachable, unknown)
  BY Zenon DEF RecordDestroy
<1> HIDE DEF Written
<1>1. PICK reachable \in BOOLEAN, unknown \in SUBSET Names : Written(reachable, unknown)
  BY <1>0, Zenon DEF Asked
<1> USE DEF Written
<1> DEFINE final == Confirmed(e, reachable, unknown)
           seen == {n \in Names : final[n] # "none"}
           silent == {n \in Names \ seen : Live(n)}
           present == {n \in seen : final[n] = "present"}
           unproven == {n \in seen : final[n] = "unproven"} \cup silent
           headline == Verdict(reachable, present, unproven)
           P == {n \in Names : final[n] = "present"}
           U == {n \in Names : final[n] = "unproven" \/ (Live(n) /\ final[n] = "none")}
<1>2. present = P /\ unproven = U
  <2> HIDE DEF final
  <2> QED OBVIOUS
<1>3. headline = Verdict(reachable, P, U)
  BY <1>2
<1>4. headline \in {"clean", "residue", "unproven"}
  BY DEF Verdict
<1>5. \A n \in Names : n \in silent <=> Live(n) /\ final[n] = "none"
  <2> HIDE DEF final
  <2> QED OBVIOUS
<1>6. \A n \in Names : rows'[n] =
               IF ~Live(n) THEN rows[n]
               ELSE [rows[n] EXCEPT !.st = IF Live(n) /\ final[n] = "none"
                                           THEN "unproven" ELSE RowStateFor(final[n])]
  <2> SUFFICES ASSUME NEW n \in Names
               PROVE  rows'[n] = IF ~Live(n) THEN rows[n]
                                 ELSE [rows[n] EXCEPT !.st = IF Live(n) /\ final[n] = "none"
                                           THEN "unproven" ELSE RowStateFor(final[n])]
    OBVIOUS
  <2>1. rows'[n] = IF ~Live(n) THEN rows[n]
                   ELSE [rows[n] EXCEPT !.st = IF n \in silent THEN "unproven"
                                               ELSE RowStateFor(final[n])]
    BY <1>1, Zenon
  <2> HIDE DEF silent, final
  <2> QED
    BY <2>1, <1>5
<1>7. Teardown(e, reachable, unknown, headline)
  BY <1>1, <1>3, <1>6 DEF Teardown
<1>8. rows' = [n \in Names |-> rows'[n]]
  BY <1>1, Zenon
<1>9. op' = Completed(e, Resolved(op, ex[e].op,
                          CASE headline = "clean"    -> "succeeded"
                            [] headline = "residue"  -> "failed"
                            [] headline = "unproven" -> "unproven"))
  BY <1>1, Zenon
<1> HIDE DEF headline
<1> QED
  BY <1>4, <1>7, <1>8, <1>9

LEMMA BaseRecordDestroy ==
    ASSUME Base, NEW e \in Execs, RecordDestroy(e)
    PROVE  Base'
<1>0. ex[e].pc # "idle" /\ UNCHANGED <<competing, nOps, daemon, nextId>>
      /\ ex' = [ex EXCEPT ![e] = IdleThread] /\ EventCommitted(tx)
  BY DEF RecordDestroy
<1>1. PICK reachable \in BOOLEAN, unknown \in SUBSET Names,
           headline \in {"clean", "residue", "unproven"} :
              /\ Teardown(e, reachable, unknown, headline)
              /\ op' = Completed(e, Resolved(op, ex[e].op,
                          CASE headline = "clean"    -> "succeeded"
                            [] headline = "residue"  -> "failed"
                            [] headline = "unproven" -> "unproven"))
              /\ rows' = [n \in Names |-> rows'[n]]
  BY TeardownShape
<1> DEFINE st == CASE headline = "clean"    -> "succeeded"
                   [] headline = "residue"  -> "failed"
                   [] headline = "unproven" -> "unproven"
           final == Confirmed(e, reachable, unknown)
<1>2. st \in Statuses /\ op' = Completed(e, Resolved(op, ex[e].op, st))
  BY <1>1 DEF Statuses
<1> HIDE DEF st
<1>3. /\ OnlyRow(ex[e].op, op', op)
      /\ op'[ex[e].op].wf = "queued" => op'[ex[e].op].attempts < MaxAttempts
  BY <1>0, <1>2, FinalShape
<1>4. \A n \in Names : final[n] \in Outcomes
  BY DEF Confirmed, Outcomes
<1>5. \A n \in Names : rows'[n] =
               IF ~Live(n) THEN rows[n]
               ELSE [rows[n] EXCEPT !.st =
                        IF Live(n) /\ final[n] = "none" THEN "unproven" ELSE RowStateFor(final[n])]
  BY <1>1 DEF Teardown
<1> HIDE DEF final
<1>6. \A n \in Names : rows'[n] \in RowRecord
  <2> SUFFICES ASSUME NEW n \in Names PROVE rows'[n] \in RowRecord
    OBVIOUS
  <2>1. final[n] # "none" => RowStateFor(final[n]) \in RowStates
    BY <1>4 DEF RowStateFor, Outcomes, RowStates
  <2>2. rows[n] \in RowRecord
    BY DEF Base, TypeOK
  <2> QED
    BY <2>1, <2>2, <1>5 DEF RowRecord, RowStates
<1>7. rows' \in [Names -> RowRecord]
  BY <1>1, <1>6
<1>8. /\ verdict' = headline
      /\ state' = IF headline = "clean" THEN "destroyed" ELSE "recovery_required"
  BY <1>1 DEF Teardown, StateAfterTeardown
<1>9. /\ state' \in RangeState /\ verdict' \in {"none", "clean", "residue", "unproven"}
      /\ ReadyMeansEnumerated'
  BY <1>8 DEF RangeState, ReadyMeansEnumerated
<1>10. tx' \in TxTable /\ daemon' \in [Names -> Ids] /\ nextId' \in 1..(MaxIds + 1)
  BY <1>0, EventShape DEF Base, TypeOK
<1> QED
  BY <1>0, <1>3, <1>7, <1>9, <1>10, IdleIsThread, BaseByThread

LEMMA BeginShape ==
    ASSUME Base, NEW c \in Clients, NEW kind \in Kinds, BeginStart(c, kind)
    PROVE  /\ tx' \in TxTable /\ tx'[c].kind = kind
           /\ \A d \in Clients : d # c => tx'[d] = tx[d]
<1> DEFINE r == [kind |-> kind, fresh |-> TRUE]
<1>1. r \in TxRecord /\ r.kind \in Kinds /\ r.kind = kind
  BY Zenon DEF TxRecord
<1>2. tx' = [tx EXCEPT ![c] = r]
  BY DEF BeginStart
<1> HIDE DEF r
<1> QED
  BY <1>1, <1>2 DEF Base, TxTable

\* A step that leaves operations and threads alone.
LEMMA BaseByRequest ==
    ASSUME Base, UNCHANGED <<verdict, op, nOps, rows, daemon, nextId, ex>>,
           tx' \in TxTable, competing' \in BOOLEAN, state' \in RangeState,
           state' \in {"ready", "active"} => state \in {"ready", "active"},
           state' = "destroyed" => state = "destroyed"
    PROVE  Base'
<1>1. TypeOK'
  BY DEF Base, TypeOK, TxTable
<1>2. OpsCounted' /\ AttemptsLeft' /\ ThreadsAdvance'
  BY DEF Base, OpsCounted, AttemptsLeft, ThreadsAdvance
<1>3. ReadyMeansEnumerated'
  BY DEF Base, ReadyMeansEnumerated, Live
<1> QED
  BY <1>1, <1>2, <1>3 DEF Base

LEMMA BaseRequests ==
    ASSUME Base, NEW c \in Clients,
           (\E kind \in Kinds : BeginStart(c, kind)) \/ RollbackStart(c)
    PROVE  Base'
<1>0. competing \in BOOLEAN /\ state \in RangeState
  BY DEF Base, TypeOK
<1>1. CASE \E kind \in Kinds : BeginStart(c, kind)
  <2>1. PICK kind \in Kinds : BeginStart(c, kind)
    BY <1>1
  <2>2. tx' \in TxTable
    BY <2>1, BeginShape
  <2> QED
    BY <2>1, <2>2, <1>0, BaseByRequest DEF BeginStart
<1>2. CASE RollbackStart(c)
  <2>1. NoTx \in TxRecord /\ NoTx.fresh = FALSE
    BY Zenon DEF NoTx, TxRecord
  <2>2. tx' = [tx EXCEPT ![c] = NoTx]
    BY <1>2 DEF RollbackStart
  <2>3. tx' \in TxTable
    BY <2>1, <2>2 DEF Base, TxTable
  <2> QED
    BY <1>2, <2>3, <1>0, BaseByRequest DEF RollbackStart
<1> QED
  BY <1>1, <1>2

LEMMA BaseCompetition ==
    ASSUME Base, StartCompetition \/ StopCompetition
    PROVE  Base'
<1>1. tx' \in TxTable
  BY EventShape DEF StartCompetition, StopCompetition, Base, TypeOK
<1>2. competing' \in BOOLEAN
  BY Zenon DEF StartCompetition, StopCompetition
<1>3. /\ state' \in RangeState
      /\ state' \in {"ready", "active"} => state \in {"ready", "active"}
      /\ state' = "destroyed" => state = "destroyed"
      /\ UNCHANGED <<verdict, op, nOps, rows, daemon, nextId, ex>>
  BY DEF StartCompetition, StopCompetition, Base, TypeOK, RangeState
<1> QED
  BY <1>1, <1>2, <1>3, BaseByRequest

LEMMA CommitShape ==
    ASSUME Base, NEW c \in Clients, CommitStart(c)
    PROVE  /\ op' \in OpTable /\ nOps + 1 \in OpIds /\ tx[c].kind \in Kinds
           /\ op'[nOps + 1].kind = tx[c].kind /\ op'[nOps + 1].status = "pending"
           /\ op'[nOps + 1].wf = "queued" /\ op'[nOps + 1].attempts = 0
           /\ \A p \in OpIds : p # nOps + 1 => op'[p] = op[p]
           /\ tx' \in TxTable /\ \A d \in Clients : tx'[d].fresh = FALSE
<1> DEFINE r == [kind |-> tx[c].kind, status |-> "pending",
                 stale |-> FALSE, wf |-> "queued", attempts |-> 0]
<1>1. tx[c].kind \in Kinds
  BY DEF Base, TxTable, CommitStart, SequenceFree
<1>2. 0 \in 0..MaxAttempts
  BY ConstAssumption
<1>3. r \in OpRecord
  BY <1>1, <1>2, "pending" \in Statuses \cup {"none"}, Zenon DEF OpRecord, Statuses
<1>4. nOps + 1 \in OpIds
  BY ConstAssumption DEF Base, TypeOK, CommitStart, OpIds
<1>5. op' = [op EXCEPT ![nOps + 1] = r]
  BY DEF CommitStart
<1>6. r.kind = tx[c].kind /\ r.status = "pending" /\ r.wf = "queued" /\ r.attempts = 0
  OBVIOUS
<1> HIDE DEF r
<1>7. op \in OpTable
  BY StartedOps
<1>8. op' \in OpTable /\ op'[nOps + 1] = r /\ \A p \in OpIds : p # nOps + 1 => op'[p] = op[p]
  BY <1>3, <1>4, <1>5, <1>7 DEF OpTable
<1>9. NoTx \in TxRecord
  BY Zenon DEF NoTx, TxRecord
<1>10. [tx EXCEPT ![c] = NoTx] \in [Clients -> TxRecord]
  BY <1>9 DEF Base, TypeOK
<1>11. tx' \in TxTable /\ \A d \in Clients : tx'[d].fresh = FALSE
  BY <1>10, EventShape DEF CommitStart
<1> QED
  BY <1>1, <1>4, <1>6, <1>8, <1>11

LEMMA BaseCommitStart ==
    ASSUME Base, NEW c \in Clients, CommitStart(c)
    PROVE  Base'
<1>0. nOps' = nOps + 1 /\ nOps \in Nat /\ nOps < MaxOps /\ nOps' \in 0..MaxOps
  BY ConstAssumption DEF Base, TypeOK, CommitStart
<1>s. /\ op' \in OpTable /\ nOps + 1 \in OpIds
      /\ op'[nOps + 1].wf = "queued" /\ op'[nOps + 1].attempts = 0
      /\ \A p \in OpIds : p # nOps + 1 => op'[p] = op[p]
  BY CommitShape
<1>1. TypeOK'
  <2>1. state' \in RangeState
    BY CommitShape DEF CommitStart, InFlightState, Kinds, RangeState
  <2> QED
    BY <2>1, <1>0, CommitShape DEF Base, TypeOK, CommitStart, OpTable, TxTable
<1>2. OpsCounted'
  BY <1>0, <1>s DEF Base, OpsCounted, OpIds
<1>3. AttemptsLeft'
  BY <1>0, <1>s, ConstAssumption DEF Base, AttemptsLeft
<1>4. ThreadsAdvance'
  <2> SUFFICES ASSUME NEW e \in Execs, ex[e].pc # "idle"
               PROVE  ex[e].op \in 1..nOps' /\ Advanced(ex[e], op'[ex[e].op].kind)
    BY DEF ThreadsAdvance, CommitStart
  <2>1. ex[e].op \in 1..nOps /\ ex[e].op \in OpIds
    BY StartedOps
  <2>2. op'[ex[e].op] = op[ex[e].op]
    BY <2>1, <1>0, <1>s
  <2> QED
    BY <2>1, <2>2, <1>0 DEF Base, ThreadsAdvance
<1>5. ReadyMeansEnumerated'
  BY CommitShape DEF ReadyMeansEnumerated, CommitStart, InFlightState, Kinds
<1> QED
  BY <1>1, <1>2, <1>3, <1>4, <1>5, CommitShape DEF Base

\* Abandonment and the worker's lease check write the same thing, but for the workflow.
LEMMA SetAside ==
    ASSUME Base, NEW o \in OpIds, Abandon(o) \/ FailExpired(o)
    PROVE  /\ o \in 1..nOps /\ OnlyRow(o, op', op)
           /\ op'[o].status \in {"unproven", "failed"}
           /\ op'[o].wf \in {op[o].wf, "done"}
           /\ op'[o].wf = "queued" => op'[o].attempts < MaxAttempts
<1>1. o \in 1..nOps /\ op \in OpTable
  BY StartedOps DEF Abandon, Abandonable, FailExpired
<1>2. {"unproven", "failed"} \subseteq Statuses
  BY DEF Statuses
<1>3. CASE Abandon(o)
  BY <1>1, <1>2, <1>3, ResolvedShape DEF Abandon, Base, AttemptsLeft
<1>4. CASE FailExpired(o)
  <2> DEFINE q == Resolved(op, o, "failed")
  <2>1. OnlyRow(o, q, op) /\ q[o].status = "failed"
    BY <1>1, <1>2, ResolvedShape
  <2>2. op' = WorkflowDone(q, o)
    BY <1>4 DEF FailExpired
  <2> HIDE DEF q
  <2>3. OnlyRow(o, op', q) /\ op'[o].status = "failed" /\ op'[o].wf = "done"
    BY <2>1, <2>2, WorkflowDoneShape DEF OnlyRow
  <2> QED
    BY <1>1, <2>1, <2>3 DEF OnlyRow
<1> QED
  BY <1>3, <1>4

LEMMA BaseSetAside ==
    ASSUME Base, NEW o \in OpIds, Abandon(o) \/ FailExpired(o)
    PROVE  Base'
<1>1. rows' \in [Names -> RowRecord] /\ tx' \in TxTable
  BY RetainShape, EventShape DEF Abandon, FailExpired, Base, TypeOK
<1>2. /\ state' = "recovery_required" /\ state' \in RangeState
      /\ verdict' \in {"none", "clean", "residue", "unproven"}
      /\ UNCHANGED <<competing, nOps, daemon, nextId, ex>>
  BY DEF Abandon, FailExpired, Base, TypeOK, RangeState
<1>3. ReadyMeansEnumerated'
  BY <1>2 DEF ReadyMeansEnumerated
<1> QED
  BY <1>1, <1>2, <1>3, SetAside, BaseByRow

\* The steps of one operation row that write nothing else.
RowOnly(o) ==
    \/ LeaseExpires(o) \/ RefuseResolved(o)
    \/ \E retryable \in BOOLEAN : RefuseUnresolved(o, retryable)

LEMMA RowOnlyShape ==
    ASSUME Base, NEW o \in OpIds, RowOnly(o)
    PROVE  /\ o \in 1..nOps /\ OnlyRow(o, op', op)
           /\ op'[o].status = op[o].status
           /\ op'[o].wf = "queued" => op'[o].attempts < MaxAttempts
           /\ op[o].wf # "queued" => op'[o].wf = op[o].wf
<1>0. op \in OpTable /\ op[o] \in OpRecord
  BY StartedOps DEF OpTable
<1>1. CASE LeaseExpires(o)
  <2> DEFINE r == [op[o] EXCEPT !.stale = TRUE]
  <2>1. /\ r \in OpRecord /\ r.kind = op[o].kind /\ r.status = op[o].status
        /\ r.wf = op[o].wf /\ r.attempts = op[o].attempts
    BY <1>0, Zenon DEF OpRecord
  <2>2. op' = [op EXCEPT ![o] = r] /\ InFlight(o)
    BY <1>1 DEF LeaseExpires
  <2> HIDE DEF r
  <2>3. OnlyRow(o, op', op) /\ op'[o] = r
    BY <1>0, <2>1, <2>2, RowReplaced
  <2> QED
    BY <2>1, <2>2, <2>3, StartedOps DEF Base, AttemptsLeft
<1>2. CASE RefuseResolved(o)
  BY <1>0, <1>2, WorkflowDoneShape, StartedOps DEF RefuseResolved, AttemptStarts
<1>3. CASE \E retryable \in BOOLEAN : RefuseUnresolved(o, retryable)
  <2> DEFINE r == [op[o] EXCEPT !.attempts = op[o].attempts + 1]
             q == [op EXCEPT ![o].attempts = @ + 1]
  <2>1. op[o].wf = "queued" /\ (op' = Requeue(o, q) \/ op' = WorkflowDone(op, o))
    BY <1>3 DEF RefuseUnresolved, AttemptStarts
  <2>2. op[o].attempts + 1 \in 0..MaxAttempts
    BY <1>0, <2>1, ConstAssumption DEF OpRecord, Base, AttemptsLeft
  <2>3. r \in OpRecord /\ r.kind = op[o].kind /\ r.status = op[o].status
    BY <1>0, <2>2, Zenon DEF OpRecord
  <2>4. q = [op EXCEPT ![o] = r]
    BY <1>0 DEF OpTable
  <2> HIDE DEF r, q
  <2>5. OnlyRow(o, q, op) /\ q[o].status = op[o].status
    BY <1>0, <2>3, <2>4, RowReplaced
  <2>6. q \in OpTable
    BY <2>5 DEF OnlyRow
  <2>7. CASE op' = Requeue(o, q)
    <3>1. /\ OnlyRow(o, op', q) /\ op'[o].status = q[o].status
          /\ op'[o].wf = "queued" => op'[o].attempts < MaxAttempts
      BY <2>6, <2>7, RequeueShape
    <3> QED
      BY <2>1, <2>5, <3>1, StartedOps DEF OnlyRow
  <2>8. CASE op' = WorkflowDone(op, o)
    BY <1>0, <2>1, <2>8, WorkflowDoneShape, StartedOps
  <2> QED
    BY <2>1, <2>7, <2>8
<1> QED
  BY <1>1, <1>2, <1>3 DEF RowOnly

LEMMA BaseRowOnly ==
    ASSUME Base, NEW o \in OpIds, RowOnly(o)
    PROVE  Base'
<1>1. UNCHANGED <<state, verdict, competing, nOps, rows, daemon, nextId, ex, tx>>
  BY DEF RowOnly, LeaseExpires, RefuseResolved, RefuseUnresolved
<1>2. ReadyMeansEnumerated'
  BY <1>1 DEF Base, ReadyMeansEnumerated, Live
<1>3. /\ tx' \in TxTable /\ rows' \in [Names -> RowRecord]
      /\ state' \in RangeState /\ verdict' \in {"none", "clean", "residue", "unproven"}
  BY <1>1 DEF Base, TypeOK
<1> QED
  BY <1>1, <1>2, <1>3, RowOnlyShape, BaseByRow

LEMMA PickUpShape ==
    ASSUME Base, NEW e \in Execs, NEW o \in OpIds, PickUp(e, o)
    PROVE  /\ o \in 1..nOps /\ OnlyRow(o, op', op)
           /\ op'[o].status = op[o].status /\ op'[o].wf = "running"
           /\ ex' \in [Execs -> Thread] /\ \A f \in Execs : f # e => ex'[f] = ex[f]
           /\ ex'[e].pc = "claim" /\ ex'[e].op = o /\ ex'[e].current
           /\ ex'[e].made = [n \in Names |-> 0]
<1> DEFINE r == [op[o] EXCEPT !.wf = "running", !.attempts = op[o].attempts + 1]
           w == op[o].status # "running"
           t == [IdleThread EXCEPT !.pc = "claim", !.op = o, !.current = TRUE, !.write = w]
<1>0. /\ op \in OpTable /\ op[o] \in OpRecord /\ op[o].wf = "queued"
      /\ o \in 1..nOps /\ o \in 0..MaxOps
  BY StartedOps DEF OpTable, PickUp, AttemptStarts, Base, TypeOK, OpIds
<1>1. op[o].attempts + 1 \in 0..MaxAttempts
  BY <1>0, ConstAssumption DEF OpRecord, Base, AttemptsLeft
<1>2. /\ r \in OpRecord /\ r.kind = op[o].kind /\ r.status = op[o].status
      /\ r.wf = "running"
  BY <1>0, <1>1, Zenon DEF OpRecord
<1>3. op' = [op EXCEPT ![o] = r]
  BY <1>0 DEF PickUp, OpTable
<1> HIDE DEF r
<1>4. OnlyRow(o, op', op) /\ op'[o] = r
  BY <1>0, <1>2, <1>3, RowReplaced
<1>5. w \in BOOLEAN
  BY Zenon
<1>6. ex' = [ex EXCEPT ![e] = t]
  BY DEF PickUp
<1> HIDE DEF w
<1>7. t \in Thread
  BY <1>0, <1>5, IdleIsThread, "claim" \in Pcs, Zenon DEF Thread, Pcs
<1>8. t.pc = "claim" /\ t.op = o /\ t.current = TRUE /\ t.made = [n \in Names |-> 0]
  BY Zenon DEF IdleThread
<1> HIDE DEF t
<1>9. ex' \in [Execs -> Thread] /\ ex'[e] = t /\ \A f \in Execs : f # e => ex'[f] = ex[f]
  BY <1>6, <1>7, ThreadReplaced DEF Base, TypeOK
<1> QED
  BY <1>0, <1>2, <1>4, <1>8, <1>9

LEMMA BasePickUp ==
    ASSUME Base, NEW e \in Execs, NEW o \in OpIds, PickUp(e, o)
    PROVE  Base'
<1>1. UNCHANGED <<state, verdict, competing, nOps, rows, daemon, nextId, tx>>
  BY DEF PickUp
<1>2. op' \in OpTable /\ OpsCounted' /\ AttemptsLeft' /\ \A p \in OpIds : op'[p].kind = op[p].kind
  BY <1>1, PickUpShape, OpRowStep
<1>3. TypeOK'
  BY <1>1, <1>2, PickUpShape DEF Base, TypeOK, OpTable
<1>4. ThreadsAdvance'
  <2> SUFFICES ASSUME NEW f \in Execs, ex'[f].pc # "idle"
               PROVE  ex'[f].op \in 1..nOps /\ Advanced(ex'[f], op'[ex'[f].op].kind)
    BY <1>1 DEF ThreadsAdvance
  <2>1. CASE f = e
    BY <2>1, PickUpShape DEF Advanced
  <2>2. CASE f # e
    BY <2>2, <1>2, PickUpShape, StartedOps DEF Base, ThreadsAdvance
  <2> QED
    BY <2>1, <2>2
<1>5. ReadyMeansEnumerated'
  BY <1>1 DEF Base, ReadyMeansEnumerated, Live
<1> QED
  BY <1>1, <1>2, <1>3, <1>4, <1>5 DEF Base

\* The steps of the system, grouped as the lemmas take them.
LEMMA StepCases ==
    ASSUME Next
    PROVE  \/ \E c \in Clients : (\E kind \in Kinds : BeginStart(c, kind)) \/ RollbackStart(c)
           \/ \E c \in Clients : CommitStart(c)
           \/ \E o \in OpIds : Abandon(o) \/ FailExpired(o)
           \/ \E o \in OpIds : RowOnly(o)
           \/ \E e \in Execs, o \in OpIds : PickUp(e, o)
           \/ \E e \in Execs : Claim(e)
           \/ \E e \in Execs : ProviderStep(e)
           \/ \E e \in Execs : RecordBringUp(e)
           \/ \E e \in Execs : RecordDestroy(e)
           \/ \E e \in Execs : UnexpectedFailure(e)
           \/ \E e \in Execs : Crash(e) \/ AttemptTimesOut(e)
           \/ StartCompetition \/ StopCompetition
BY Zenon DEF Next, RowOnly, ProviderStep, WorkerStep, AbandonStale, AbandonForced

LEMMA BaseNext == Base /\ [Next]_vars => Base'
<1> SUFFICES ASSUME Base, [Next]_vars PROVE Base'
  OBVIOUS
<1>1. CASE Next
  BY <1>1, StepCases, BaseRequests, BaseCommitStart, BaseSetAside, BaseRowOnly, BasePickUp,
     BaseClaim, BaseProvider, BaseRecordBringUp, BaseRecordDestroy, BaseUnexpectedFailure,
     BaseCrash, BaseCompetition
<1>2. CASE UNCHANGED vars
  <2>1. competing' \in BOOLEAN /\ state' \in RangeState /\ tx' \in TxTable
    BY <1>2 DEF vars, Base, TypeOK
  <2> QED
    BY <1>2, <2>1, BaseByRequest DEF vars
<1> QED
  BY <1>1, <1>2

\* Every column, object and thread stays within its vocabulary, whatever threads
\* outlive their attempts: in particular Temporal never counts more attempts of an
\* operation than its retry policy has.
THEOREM TypeCorrect == Spec => []TypeOK
<1>1. Base => TypeOK
  BY DEF Base
<1> QED
  BY <1>1, BaseInit, BaseNext, PTL DEF Spec

\* Whatever late writers do, a range offered as ready or active has every object
\* of its template among the rows a later destroy enumerates, and destroyed is only
\* written together with a clean verdict.
THEOREM ReadyIsEnumerated == Spec => []ReadyMeansEnumerated
<1>1. Base => ReadyMeansEnumerated
  BY DEF Base
<1> QED
  BY <1>1, BaseInit, BaseNext, PTL DEF Spec

-----------------------------------------------------------------------------
\* One operation in flight, one thread at work.

LEMMA FlightInit == Init => FlightInv
<1> SUFFICES ASSUME Init PROVE FlightInv
  OBVIOUS
<1>1. \A o \in OpIds : ~InFlight(o)
  BY DEF Init, InFlight, InFlightStatuses, NoOp
<1>2. \A e \in Execs : ex[e].pc = "idle"
  BY IdleIsThread DEF Init
<1>3. \A c \in Clients : tx[c].fresh = FALSE
  BY Zenon DEF Init, NoTx
<1> QED
  BY <1>1, <1>2, <1>3 DEF Init, FlightInv, InFlightAgrees, OneThread, FreshSees

\* A thread at work carries the operation in flight.
LEMMA WorkerCarries ==
    ASSUME Base, FlightInv, NEW e \in Execs, ex[e].pc # "idle"
    PROVE  /\ ex[e].op \in OpIds /\ InFlight(ex[e].op) /\ op[ex[e].op].wf = "running"
           /\ ex[e].current
           /\ \A o \in OpIds : InFlight(o) => o = ex[e].op
           /\ \A f \in Execs : ex[f].pc # "idle" => f = e
           /\ \A c \in Clients : ~tx[c].fresh
           /\ state = InFlightState(Kind(e)) /\ Kind(e) \in Kinds
<1>1. ex[e].op \in OpIds
  BY StartedOps
<1>2. op[ex[e].op].kind \in Kinds
  BY <1>1, StartedOps DEF OpTable, OpRecord
<1> QED
  BY <1>1, <1>2 DEF FlightInv, InFlightAgrees, OneThread, FreshSees, Kind

\* Nothing is in flight after the step, and no thread works.
LEMMA FlightEnds ==
    ASSUME \A o \in OpIds : op'[o].status \notin InFlightStatuses,
           \A e \in Execs : ex'[e].pc = "idle",
           \A c \in Clients : tx'[c].fresh = FALSE,
           state' \notin {"deploying", "resetting", "destroying"}
    PROVE  FlightInv'
BY DEF FlightInv, InFlightAgrees, OneThread, FreshSees, InFlight

\* The thread at work goes on with the operation in flight.
LEMMA FlightGoesOn ==
    ASSUME Base, FlightInv, NEW e \in Execs, ex[e].pc # "idle",
           NEW t \in Thread, Moved(e, t),
           OnlyRow(ex[e].op, op', op), op'[ex[e].op].status \in InFlightStatuses,
           op'[ex[e].op].wf = op[ex[e].op].wf,
           UNCHANGED state, UNCHANGED tx \/ EventCommitted(tx)
    PROVE  FlightInv'
<1> DEFINE o == ex[e].op
<1>1. ex'[e] = t /\ \A f \in Execs : f # e => ex'[f] = ex[f]
  BY ThreadReplaced DEF Base, TypeOK, Moved
<1>2. t.op = o /\ t.current = ex[e].current /\ t.pc # "idle"
  BY DEF Moved
<1>3. o \in OpIds /\ op'[o].kind = op[o].kind /\ \A p \in OpIds : p # o => op'[p] = op[p]
  BY WorkerCarries DEF OnlyRow
<1>4. InFlightAgrees'
  BY <1>3, WorkerCarries DEF InFlightAgrees, InFlight, Kind, InFlightState
<1>5. OneThread'
  BY <1>1, <1>2, <1>3, WorkerCarries DEF OneThread, InFlight
<1>6. \A c \in Clients : ~tx'[c].fresh
  BY WorkerCarries, EventShape DEF Base, TypeOK
<1> QED
  BY <1>4, <1>5, <1>6 DEF FlightInv, FreshSees

\* The thread at work resolves its operation and returns.
LEMMA FlightResolves ==
    ASSUME Base, FlightInv, NEW e \in Execs, ex[e].pc # "idle",
           NEW st \in Statuses \ InFlightStatuses,
           op' = Completed(e, Resolved(op, ex[e].op, st)),
           ex' = [ex EXCEPT ![e] = IdleThread], EventCommitted(tx),
           state' \notin {"deploying", "resetting", "destroying"}
    PROVE  FlightInv'
<1>1. OnlyRow(ex[e].op, op', op) /\ op'[ex[e].op].status = st
  BY FinalShape
<1>2. \A o \in OpIds : op'[o].status \notin InFlightStatuses
  BY <1>1, WorkerCarries DEF OnlyRow, InFlight
<1>3. \A f \in Execs : ex'[f].pc = "idle"
  BY WorkerCarries, IdleIsThread, ThreadReplaced DEF Base, TypeOK
<1>4. \A c \in Clients : tx'[c].fresh = FALSE
  BY EventShape DEF Base, TypeOK
<1> QED
  BY <1>2, <1>3, <1>4, FlightEnds

\* A step that leaves operations and threads alone.
LEMMA FlightFrame ==
    ASSUME FlightInv, UNCHANGED <<op, ex, state>>
    PROVE  InFlightAgrees' /\ OneThread'
BY DEF FlightInv, InFlightAgrees, OneThread, InFlight

LEMMA FlightRequests ==
    ASSUME Base, FlightInv, NEW c \in Clients,
           (\E kind \in Kinds : BeginStart(c, kind)) \/ RollbackStart(c)
    PROVE  FlightInv'
<1>1. InFlightAgrees' /\ OneThread'
  BY FlightFrame DEF BeginStart, RollbackStart
<1>2. CASE \E kind \in Kinds : BeginStart(c, kind)
  <2>1. PICK kind \in Kinds : BeginStart(c, kind)
    BY <1>2
  <2>2. tx'[c].kind = kind /\ \A d \in Clients : d # c => tx'[d] = tx[d]
    BY <2>1, BeginShape
  <2>3. UNCHANGED <<state, op>> /\ state \in AllowedFrom(kind) /\ \A o \in OpIds : ~InFlight(o)
    BY <2>1 DEF BeginStart, Startable
  <2>4. FreshSees'
    BY <2>2, <2>3 DEF FlightInv, FreshSees, InFlight
  <2> QED
    BY <1>1, <2>4 DEF FlightInv
<1>3. CASE RollbackStart(c)
  <2>1. NoTx.fresh = FALSE
    BY Zenon DEF NoTx
  <2>2. tx'[c] = NoTx /\ \A d \in Clients : d # c => tx'[d] = tx[d]
    BY <1>3 DEF RollbackStart, Base, TypeOK
  <2>3. UNCHANGED <<state, op>>
    BY <1>3 DEF RollbackStart
  <2>4. FreshSees'
    BY <2>1, <2>2, <2>3 DEF FlightInv, FreshSees, InFlight
  <2> QED
    BY <1>1, <2>4 DEF FlightInv
<1> QED
  BY <1>2, <1>3

LEMMA FlightCommitStart ==
    ASSUME Base, FlightInv, NEW c \in Clients, CommitStart(c)
    PROVE  FlightInv'
<1>1. tx[c].fresh
  BY DEF CommitStart, SequenceFree
<1>2. \A o \in OpIds : ~InFlight(o)
  BY <1>1 DEF FlightInv, FreshSees
<1>3. \A e \in Execs : ex[e].pc = "idle"
  BY <1>2, WorkerCarries
<1>4. /\ nOps + 1 \in OpIds /\ tx[c].kind \in Kinds
      /\ op'[nOps + 1].kind = tx[c].kind /\ op'[nOps + 1].status = "pending"
      /\ \A p \in OpIds : p # nOps + 1 => op'[p] = op[p]
      /\ \A d \in Clients : tx'[d].fresh = FALSE
  BY CommitShape
<1>5. UNCHANGED ex /\ state' = InFlightState(tx[c].kind)
  BY DEF CommitStart
<1>6. \A p \in OpIds : op'[p].status \in InFlightStatuses <=> p = nOps + 1
  BY <1>2, <1>4 DEF InFlight, InFlightStatuses
<1>7. InFlightAgrees'
  BY <1>4, <1>5, <1>6 DEF InFlightAgrees, InFlight
<1> QED
  BY <1>3, <1>4, <1>5, <1>7 DEF FlightInv, OneThread, FreshSees

\* An operation is set aside only when nobody works on it.
LEMMA SetAsideAlone ==
    ASSUME Serial, Base, FlightInv, NEW o \in OpIds, Abandon(o) \/ FailExpired(o)
    PROVE  InFlight(o) /\ \A e \in Execs : ex[e].pc = "idle"
<1>1. InFlight(o)
  BY DEF Abandon, Abandonable, FailExpired
<1> SUFFICES ASSUME NEW e \in Execs, ex[e].pc # "idle" PROVE FALSE
  BY <1>1
<1>2. ex[e].op = o /\ op[o].wf = "running"
  BY <1>1, WorkerCarries
<1>3. e \in Executing(o)
  BY <1>2 DEF Executing
<1> QED
  BY <1>2, <1>3 DEF Abandon, FailExpired, AttemptStarts, Serial

LEMMA FlightSetAside ==
    ASSUME Serial, Base, FlightInv, NEW o \in OpIds, Abandon(o) \/ FailExpired(o)
    PROVE  FlightInv'
<1>1. OnlyRow(o, op', op) /\ op'[o].status \in {"unproven", "failed"}
  BY SetAside
<1>2. InFlight(o) /\ UNCHANGED ex /\ state' = "recovery_required" /\ EventCommitted(tx)
  BY DEF Abandon, Abandonable, FailExpired
<1>3. \A p \in OpIds : op'[p].status \notin InFlightStatuses
  BY <1>1, <1>2 DEF OnlyRow, FlightInv, InFlightAgrees, InFlight, InFlightStatuses
<1>4. \A e \in Execs : ex[e].pc = "idle"
  BY SetAsideAlone
<1>5. \A c \in Clients : tx'[c].fresh = FALSE
  BY <1>2, EventShape DEF Base, TypeOK
<1> QED
  BY <1>2, <1>3, <1>4, <1>5, FlightEnds

LEMMA FlightRowOnly ==
    ASSUME Base, FlightInv, NEW o \in OpIds, RowOnly(o)
    PROVE  FlightInv'
<1>1. UNCHANGED <<state, ex, tx>>
  BY DEF RowOnly, LeaseExpires, RefuseResolved, RefuseUnresolved
<1>2. /\ OnlyRow(o, op', op) /\ op'[o].status = op[o].status
      /\ op[o].wf # "queued" => op'[o].wf = op[o].wf
  BY RowOnlyShape
<1>3. \A p \in OpIds : /\ op'[p].status = op[p].status /\ op'[p].kind = op[p].kind
                       /\ op[p].wf = "running" => op'[p].wf = "running"
  BY <1>2 DEF OnlyRow
<1>4. InFlightAgrees'
  BY <1>1, <1>3 DEF FlightInv, InFlightAgrees, InFlight
<1>5. OneThread'
  BY <1>1, <1>3, StartedOps DEF FlightInv, OneThread, InFlight
<1>6. FreshSees'
  BY <1>1, <1>3 DEF FlightInv, FreshSees, InFlight
<1> QED
  BY <1>4, <1>5, <1>6 DEF FlightInv

LEMMA FlightPickUp ==
    ASSUME Base, FlightInv, NEW e \in Execs, NEW o \in OpIds, PickUp(e, o)
    PROVE  FlightInv'
<1>1. UNCHANGED <<state, tx>> /\ InFlight(o) /\ op[o].wf = "queued"
  BY DEF PickUp, Executable, AttemptStarts
<1>2. \A f \in Execs : ex[f].pc = "idle"
  BY <1>1, WorkerCarries
<1>3. /\ OnlyRow(o, op', op) /\ op'[o].status = op[o].status /\ op'[o].wf = "running"
      /\ \A f \in Execs : f # e => ex'[f] = ex[f]
      /\ ex'[e].pc = "claim" /\ ex'[e].op = o /\ ex'[e].current
  BY PickUpShape
<1>4. \A p \in OpIds : op'[p].status = op[p].status /\ op'[p].kind = op[p].kind
  BY <1>3 DEF OnlyRow
<1>5. InFlightAgrees'
  BY <1>1, <1>4 DEF FlightInv, InFlightAgrees, InFlight
<1>6. OneThread'
  BY <1>1, <1>2, <1>3 DEF OneThread, InFlight
<1>7. FreshSees'
  BY <1>1, <1>4 DEF FlightInv, FreshSees, InFlight
<1> QED
  BY <1>5, <1>6, <1>7 DEF FlightInv

LEMMA FlightWorks ==
    ASSUME Base, FlightInv, NEW e \in Execs, Claim(e) \/ ProviderStep(e)
    PROVE  FlightInv'
<1>1. CASE Claim(e)
  <2>1. ex[e].pc # "idle" /\ UNCHANGED <<state, tx>>
    BY <1>1 DEF Claim
  <2>2. PICK t \in Thread : Moved(e, t)
    BY <1>1, ClaimShape
  <2>3. /\ OnlyRow(ex[e].op, op', op) /\ op'[ex[e].op].wf = op[ex[e].op].wf
        /\ op'[ex[e].op].status \in {op[ex[e].op].status, "running"}
    BY <1>1, ClaimShape
  <2>4. op'[ex[e].op].status \in InFlightStatuses
    BY <2>1, <2>3, WorkerCarries DEF InFlight, InFlightStatuses
  <2> QED
    BY <2>1, <2>2, <2>3, <2>4, FlightGoesOn
<1>2. CASE ProviderStep(e)
  <2>1. ProviderFrame(e)
    BY <1>2, ProviderSteps
  <2>2. PICK t \in Thread : Moved(e, t)
    BY <2>1 DEF ProviderFrame
  <2>3. ex[e].pc # "idle" /\ OnChange(e) /\ UNCHANGED state /\ (UNCHANGED tx \/ EventCommitted(tx))
    BY <2>1 DEF ProviderFrame
  <2>4. /\ OnlyRow(ex[e].op, op', op) /\ op'[ex[e].op].wf = op[ex[e].op].wf
        /\ op'[ex[e].op].status = "running"
    BY <2>3, StartedOps, OnChangeShape
  <2>5. op'[ex[e].op].status \in InFlightStatuses
    BY <2>4 DEF InFlightStatuses
  <2> QED
    BY <2>2, <2>3, <2>4, <2>5, FlightGoesOn
<1> QED
  BY <1>1, <1>2

LEMMA FlightFinal ==
    ASSUME Base, FlightInv, NEW e \in Execs,
           RecordBringUp(e) \/ RecordDestroy(e) \/ UnexpectedFailure(e)
    PROVE  FlightInv'
<1>0. {"succeeded", "failed", "unproven"} \subseteq Statuses \ InFlightStatuses
  BY DEF Statuses, InFlightStatuses
<1>1. CASE RecordBringUp(e)
  <2> DEFINE st == IF ex[e].ok THEN "succeeded" ELSE "failed"
  <2>1. /\ st \in Statuses \ InFlightStatuses /\ ex[e].pc # "idle"
        /\ op' = Completed(e, Resolved(op, ex[e].op, st))
        /\ ex' = [ex EXCEPT ![e] = IdleThread] /\ EventCommitted(tx)
        /\ state' \notin {"deploying", "resetting", "destroying"}
    BY <1>0, <1>1 DEF RecordBringUp
  <2> HIDE DEF st
  <2> QED
    BY <2>1, FlightResolves
<1>2. CASE RecordDestroy(e)
  <2>1. PICK reachable \in BOOLEAN, unknown \in SUBSET Names,
             headline \in {"clean", "residue", "unproven"} :
                /\ Teardown(e, reachable, unknown, headline)
                /\ op' = Completed(e, Resolved(op, ex[e].op,
                            CASE headline = "clean"    -> "succeeded"
                              [] headline = "residue"  -> "failed"
                              [] headline = "unproven" -> "unproven"))
    BY <1>2, TeardownShape
  <2> DEFINE st == CASE headline = "clean"    -> "succeeded"
                     [] headline = "residue"  -> "failed"
                     [] headline = "unproven" -> "unproven"
  <2>2. st \in Statuses \ InFlightStatuses /\ op' = Completed(e, Resolved(op, ex[e].op, st))
    BY <1>0, <2>1
  <2>3. /\ ex[e].pc # "idle" /\ ex' = [ex EXCEPT ![e] = IdleThread] /\ EventCommitted(tx)
    BY <1>2 DEF RecordDestroy
  <2>4. state' \notin {"deploying", "resetting", "destroying"}
    BY <2>1 DEF Teardown, StateAfterTeardown
  <2> HIDE DEF st
  <2> QED
    BY <2>2, <2>3, <2>4, FlightResolves
<1>3. CASE UnexpectedFailure(e)
  <2>1. /\ ex[e].pc # "idle" /\ op' = Completed(e, Resolved(op, ex[e].op, "failed"))
        /\ ex' = [ex EXCEPT ![e] = IdleThread] /\ EventCommitted(tx)
        /\ state' \notin {"deploying", "resetting", "destroying"}
    BY <1>3 DEF UnexpectedFailure
  <2> QED
    BY <1>0, <2>1, FlightResolves
<1> QED
  BY <1>1, <1>2, <1>3

LEMMA FlightCrash ==
    ASSUME Serial, Base, FlightInv, NEW e \in Execs, Crash(e) \/ AttemptTimesOut(e)
    PROVE  FlightInv'
<1>1. /\ ex[e].pc # "idle" /\ UNCHANGED <<state, tx>>
      /\ ex' = [ex EXCEPT ![e] = IdleThread]
  BY DEF Crash, AttemptTimesOut, Serial
<1>2. OnlyRow(ex[e].op, op', op) /\ op'[ex[e].op].status = op[ex[e].op].status
  BY CrashShape
<1>3. \A p \in OpIds : op'[p].status = op[p].status /\ op'[p].kind = op[p].kind
  BY <1>2 DEF OnlyRow
<1>4. \A f \in Execs : ex'[f].pc = "idle"
  BY <1>1, WorkerCarries, IdleIsThread, ThreadReplaced DEF Base, TypeOK
<1>5. InFlightAgrees'
  BY <1>1, <1>3 DEF FlightInv, InFlightAgrees, InFlight
<1>6. FreshSees'
  BY <1>1, <1>3 DEF FlightInv, FreshSees, InFlight
<1> QED
  BY <1>4, <1>5, <1>6 DEF FlightInv, OneThread

LEMMA FlightCompetition ==
    ASSUME Base, FlightInv, StartCompetition \/ StopCompetition
    PROVE  FlightInv'
<1>1. UNCHANGED <<op, ex>>
  BY DEF StartCompetition, StopCompetition
<1>2. CASE UNCHANGED <<state, tx>>
  BY <1>1, <1>2 DEF FlightInv, InFlightAgrees, OneThread, FreshSees, InFlight
<1>3. CASE state \in {"ready", "active"} /\ state' \in {"ready", "active"} /\ EventCommitted(tx)
  <2>1. \A o \in OpIds : ~InFlight(o)
    <3> SUFFICES ASSUME NEW o \in OpIds, InFlight(o) PROVE FALSE
      OBVIOUS
    <3>1. op[o].kind \in Kinds /\ state = InFlightState(op[o].kind)
      BY StartedOps DEF FlightInv, InFlightAgrees, OpTable, OpRecord
    <3> QED
      BY <3>1, <1>3 DEF InFlightState, Kinds
  <2>2. \A c \in Clients : tx'[c].fresh = FALSE
    BY <1>3, EventShape DEF Base, TypeOK
  <2>3. \A e \in Execs : ex[e].pc = "idle"
    BY <2>1, WorkerCarries
  <2>4. state' \notin {"deploying", "resetting", "destroying"}
    BY <1>3
  <2> QED
    BY <1>1, <2>1, <2>2, <2>3, <2>4, FlightEnds DEF InFlight
<1> QED
  BY <1>2, <1>3 DEF StartCompetition, StopCompetition

LEMMA FlightNext ==
    ASSUME Serial, Base, FlightInv, [Next]_vars
    PROVE  FlightInv'
<1>1. CASE Next
  BY <1>1, StepCases, FlightRequests, FlightCommitStart, FlightSetAside, FlightRowOnly,
     FlightPickUp, FlightWorks, FlightFinal, FlightCrash, FlightCompetition
<1>2. CASE UNCHANGED vars
  BY <1>2 DEF vars, FlightInv, InFlightAgrees, OneThread, FreshSees, InFlight
<1> QED
  BY <1>1, <1>2

-----------------------------------------------------------------------------
\* What the rows say of the daemon.

LEMMA ObjectInit == Init => ObjectInv
<1> SUFFICES ASSUME Init PROVE ObjectInv
  OBVIOUS
<1>1. IdsSpent
  BY DEF Init, IdsSpent, NoRow
<1>2. ThreadsFaithful
  BY IdleIsThread DEF Init, ThreadsFaithful
<1> QED
  BY <1>1, <1>2 DEF Init, ObjectInv, ReadyMeansObserved, NothingLive

\* While a thread works the range is neither offered nor destroyed.
LEMMA WorkingState ==
    ASSUME Base, FlightInv, NEW o \in OpIds, InFlight(o)
    PROVE  state \in {"deploying", "resetting", "destroying"}
<1>1. op[o].kind \in Kinds /\ state = InFlightState(op[o].kind)
  BY StartedOps DEF FlightInv, InFlightAgrees, OpTable, OpRecord
<1> QED
  BY <1>1 DEF InFlightState, Kinds

LEMMA ObjectByThread ==
    ASSUME Base, FlightInv, ObjectInv, NEW e \in Execs, ex[e].pc # "idle",
           \E t \in Thread : Moved(e, t),
           op'[ex[e].op].kind = op[ex[e].op].kind,
           UNCHANGED <<state, rows>>, IdsSpent',
           Faithful(ex'[e], Kind(e), rows, daemon')
    PROVE  ObjectInv'
<1>1. state \in {"deploying", "resetting", "destroying"}
  BY WorkerCarries, WorkingState
<1>2. PICK t \in Thread : Moved(e, t)
  OBVIOUS
<1>3. ex'[e].op = ex[e].op /\ \A f \in Execs : f # e => ex'[f] = ex[f]
  BY <1>2, ThreadReplaced DEF Moved, Base, TypeOK
<1>4. ThreadsFaithful'
  <2> SUFFICES ASSUME NEW f \in Execs, ex'[f].pc # "idle"
               PROVE  Faithful(ex'[f], op'[ex'[f].op].kind, rows', daemon')
    BY DEF ThreadsFaithful
  <2>1. f = e
    BY <1>3, WorkerCarries
  <2> QED
    BY <2>1, <1>3 DEF Kind
<1> QED
  BY <1>1, <1>4 DEF ObjectInv, ReadyMeansObserved, NothingLive

\* A step that leaves rows and daemon alone, and starts no thread.
LEMMA ObjectFrame ==
    ASSUME Base, FlightInv, ObjectInv,
           UNCHANGED <<rows, daemon, nextId>>,
           \A e \in Execs : ex'[e].pc # "idle" =>
              ex'[e] = ex[e] /\ op'[ex[e].op].kind = op[ex[e].op].kind,
           state' \in {"ready", "active"} => state \in {"ready", "active"},
           state' = "destroyed" => state = "destroyed"
    PROVE  ObjectInv'
<1>1. IdsSpent'
  BY DEF ObjectInv, IdsSpent
<1>2. ThreadsFaithful'
  BY DEF ObjectInv, ThreadsFaithful
<1>3. ReadyMeansObserved' /\ NothingLive'
  BY DEF ObjectInv, ReadyMeansObserved, NothingLive, Live
<1> QED
  BY <1>1, <1>2, <1>3 DEF ObjectInv

LEMMA ObjectRequests ==
    ASSUME Base, FlightInv, ObjectInv,
           \/ \E c \in Clients : (\E kind \in Kinds : BeginStart(c, kind)) \/ RollbackStart(c)
           \/ StartCompetition \/ StopCompetition \/ UNCHANGED vars
    PROVE  ObjectInv'
<1>1. /\ UNCHANGED <<rows, daemon, nextId, ex, op>>
      /\ state' \in {"ready", "active"} => state \in {"ready", "active"}
      /\ state' = "destroyed" => state = "destroyed"
  BY DEF BeginStart, RollbackStart, StartCompetition, StopCompetition, vars
<1> QED
  BY <1>1, ObjectFrame

LEMMA ObjectCommitStart ==
    ASSUME Base, FlightInv, ObjectInv, NEW c \in Clients, CommitStart(c)
    PROVE  ObjectInv'
<1>1. /\ UNCHANGED <<rows, daemon, nextId, ex>>
      /\ state' \notin {"ready", "active", "destroyed"}
  BY CommitShape DEF CommitStart, InFlightState, Kinds
<1>2. \A e \in Execs : ex[e].pc = "idle"
  <2>1. ~(\E o \in OpIds : InFlight(o))
    BY DEF CommitStart, SequenceFree, FlightInv, FreshSees
  <2> QED
    BY <2>1, WorkerCarries
<1> QED
  BY <1>1, <1>2, ObjectFrame

LEMMA ObjectRowOnly ==
    ASSUME Base, FlightInv, ObjectInv, NEW o \in OpIds, RowOnly(o)
    PROVE  ObjectInv'
<1>1. UNCHANGED <<state, rows, daemon, nextId, ex>>
  BY DEF RowOnly, LeaseExpires, RefuseResolved, RefuseUnresolved
<1>2. \A p \in OpIds : op'[p].kind = op[p].kind
  BY RowOnlyShape DEF OnlyRow
<1> QED
  BY <1>1, <1>2, StartedOps, ObjectFrame

LEMMA ObjectSetAside ==
    ASSUME Serial, Base, FlightInv, ObjectInv, NEW o \in OpIds, Abandon(o) \/ FailExpired(o)
    PROVE  ObjectInv'
<1>1. /\ RetainAsUnproven /\ state' = "recovery_required"
      /\ UNCHANGED <<daemon, nextId, ex>>
  BY DEF Abandon, FailExpired
<1>2. \A n \in Names : /\ rows'[n].id = rows[n].id
                       /\ rows'[n].st \in {"none", "removed"} => rows'[n].st = rows[n].st
                       /\ Live(n)' <=> Live(n)
  BY <1>1, RetainShape DEF Base, TypeOK
<1>3. IdsSpent'
  BY <1>1, <1>2 DEF ObjectInv, IdsSpent, Live
<1>4. ThreadsFaithful'
  BY <1>1, SetAsideAlone DEF ThreadsFaithful
<1> QED
  BY <1>1, <1>3, <1>4 DEF ObjectInv, ReadyMeansObserved, NothingLive

LEMMA ObjectPickUp ==
    ASSUME Base, FlightInv, ObjectInv, NEW e \in Execs, NEW o \in OpIds, PickUp(e, o)
    PROVE  ObjectInv'
<1>1. UNCHANGED <<state, rows, daemon, nextId>> /\ InFlight(o) /\ op[o].wf = "queued"
  BY DEF PickUp, Executable, AttemptStarts
<1>2. \A f \in Execs : ex[f].pc = "idle"
  BY <1>1, WorkerCarries
<1>3. /\ \A f \in Execs : f # e => ex'[f] = ex[f]
      /\ ex'[e].pc = "claim" /\ ex'[e].made = [n \in Names |-> 0]
  BY PickUpShape
<1>4. \A kind : Faithful(ex'[e], kind, rows, daemon)
  BY <1>3 DEF Faithful
<1>5. ThreadsFaithful'
  BY <1>1, <1>2, <1>3, <1>4 DEF ThreadsFaithful
<1> QED
  BY <1>1, <1>5 DEF ObjectInv, IdsSpent, ReadyMeansObserved, NothingLive, Live

LEMMA ObjectClaim ==
    ASSUME Base, FlightInv, ObjectInv, NEW e \in Execs, Claim(e)
    PROVE  ObjectInv'
<1>0. ex[e].pc = "claim" /\ UNCHANGED <<state, rows, daemon, nextId>>
  BY DEF Claim
<1>1. \E t \in Thread : Moved(e, t)
  BY ClaimShape
<1>2. op'[ex[e].op].kind = op[ex[e].op].kind
  BY ClaimShape DEF OnlyRow
<1>3. /\ ex'[e].pc = "preflight" /\ ex'[e].made = ex[e].made
      /\ ex'[e].snap = [n \in Names |-> IF Live(n) THEN rows[n].id ELSE 0]
  BY <1>0, ThreadFields DEF Claim, Thread, Base, TypeOK
<1>4. Faithful(ex'[e], Kind(e), rows, daemon)
  BY <1>0, <1>3 DEF ObjectInv, ThreadsFaithful, Faithful, Live
<1>5. IdsSpent'
  BY <1>0 DEF ObjectInv, IdsSpent
<1> QED
  BY <1>0, <1>1, <1>2, <1>4, <1>5, ObjectByThread

\* What a thread at work knows, with the types of what it reads.
LEMMA WorkerKnows ==
    ASSUME Base, FlightInv, ObjectInv, NEW e \in Execs, ex[e].pc # "idle"
    PROVE  /\ Faithful(ex[e], Kind(e), rows, daemon) /\ IdsSpent
           /\ ex \in [Execs -> Thread] /\ ex[e] \in Thread
           /\ ex[e].made \in [Names -> Ids] /\ ex[e].snap \in [Names -> Ids]
           /\ daemon \in [Names -> Ids] /\ rows \in [Names -> RowRecord]
           /\ nextId \in Nat /\ nextId > 0 /\ Ids \subseteq Nat
BY ThreadFields, ConstAssumption DEF ObjectInv, ThreadsFaithful, Kind, Base, TypeOK, Ids

\* A step of the provider keeps the invariant if the thread's knowledge survives it.
LEMMA ObjectByProvider ==
    ASSUME Base, FlightInv, ObjectInv, NEW e \in Execs, ProviderStep(e), IdsSpent',
           Faithful(ex'[e], Kind(e), rows, daemon')
    PROVE  ObjectInv'
<1>1. ProviderFrame(e)
  BY ProviderSteps
<1>2. ex[e].pc # "idle" /\ OnChange(e) /\ UNCHANGED <<state, rows>> /\ \E t \in Thread : Moved(e, t)
  BY <1>1 DEF ProviderFrame
<1>3. op'[ex[e].op].kind = op[ex[e].op].kind
  BY <1>2, StartedOps, OnChangeShape DEF OnlyRow
<1> QED
  BY <1>2, <1>3, ObjectByThread

LEMMA GiveUpFaithful ==
    ASSUME Base, FlightInv, ObjectInv, NEW e \in Execs, ex[e].pc \notin {"idle", "claim"},
           GiveUp(e), \A n \in Names : ex[e].made[n] # 0 => daemon'[n] = daemon[n]
    PROVE  Faithful(ex'[e], Kind(e), rows, daemon')
<1>1. /\ ex'[e].pc = "record" /\ ex'[e].ok = FALSE
      /\ ex'[e].made = ex[e].made /\ ex'[e].snap = ex[e].snap
  BY WorkerKnows DEF GiveUp, Thread
<1> QED
  BY <1>1, WorkerKnows DEF Faithful

\* A new object has an id that no row and no other object has.
LEMMA CreatedIds ==
    ASSUME Base, IdsSpent, NEW n \in Names, Created(n), UNCHANGED rows
    PROVE  IdsSpent' /\ daemon'[n] = nextId /\ nextId # 0
           /\ \A m \in Names : m # n => daemon'[m] = daemon[m]
<1>1. /\ daemon \in [Names -> Ids] /\ rows \in [Names -> RowRecord]
      /\ nextId \in Nat /\ nextId > 0 /\ Ids \subseteq Nat
      /\ \A m \in Names : rows[m].id \in Nat
  BY ConstAssumption DEF Base, TypeOK, Ids, RowRecord
<1>2. daemon'[n] = nextId /\ nextId' = nextId + 1 /\ \A m \in Names : m # n => daemon'[m] = daemon[m]
  BY <1>1 DEF Created
<1>3. IdsSpent'
  <2> SUFFICES ASSUME NEW m \in Names
               PROVE  /\ daemon'[m] < nextId' /\ rows'[m].id < nextId'
                      /\ rows'[m].st # "none" => rows'[m].id # 0
                      /\ rows'[m].st = "removed" => daemon'[m] # rows'[m].id
    BY DEF IdsSpent
  <2>1. /\ rows' = rows /\ daemon[m] \in Nat /\ rows[m].id \in Nat
        /\ daemon[m] < nextId /\ rows[m].id < nextId
        /\ rows[m].st # "none" => rows[m].id # 0
        /\ rows[m].st = "removed" => daemon[m] # rows[m].id
    BY <1>1 DEF IdsSpent
  <2>2. CASE m = n
    BY <1>1, <1>2, <2>1, <2>2
  <2>3. CASE m # n
    BY <1>1, <1>2, <2>1, <2>3
  <2> QED
    BY <2>2, <2>3
<1> QED
  BY <1>1, <1>2, <1>3

LEMMA ObjectPreflight ==
    ASSUME Base, FlightInv, ObjectInv, NEW e \in Execs, Preflight(e)
    PROVE  ObjectInv'
<1>0. ex[e].pc = "preflight" /\ UNCHANGED <<rows, daemon, nextId>>
  BY DEF Preflight
<1>1. IdsSpent'
  BY <1>0 DEF ObjectInv, IdsSpent
<1>2. CASE GiveUp(e)
  BY <1>0, <1>1, <1>2, GiveUpFaithful, ObjectByProvider DEF ProviderStep
<1>3. CASE ~GiveUp(e)
  <2>1. /\ ex'[e].made = ex[e].made /\ ex'[e].snap = ex[e].snap
        /\ \/ ex'[e].pc \in {"network", "remove"}
           \/ ex'[e].pc = "record" /\ Kind(e) = "destroy"
    BY <1>0, <1>3, WorkerKnows DEF Preflight, Thread
  <2>2. Faithful(ex'[e], Kind(e), rows, daemon')
    BY <1>0, <2>1, WorkerKnows DEF Faithful
  <2> QED
    BY <1>1, <2>2, ObjectByProvider DEF ProviderStep
<1> QED
  BY <1>2, <1>3

LEMMA ObjectCreateNetwork ==
    ASSUME Base, FlightInv, ObjectInv, NEW e \in Execs, CreateNetwork(e)
    PROVE  ObjectInv'
<1>0. ex[e].pc = "network" /\ UNCHANGED rows
  BY DEF CreateNetwork
<1>1. Net \in Names
  BY ConstAssumption DEF Names, Net
<1>2. \A n \in Names : ex[e].made[n] = 0
  BY <1>0, WorkerKnows DEF Faithful
<1>3. CASE /\ Created(Net)
           /\ ex' = [ex EXCEPT ![e].pc = "pull", ![e].made[Net] = nextId,
                               ![e].ver = @ \cup {Net}]
  <2>1. IdsSpent' /\ daemon'[Net] = nextId
    BY <1>0, <1>1, <1>3, CreatedIds, WorkerKnows
  <2>2. /\ ex'[e].pc = "pull" /\ ex'[e].snap = ex[e].snap
        /\ ex'[e].made = [ex[e].made EXCEPT ![Net] = nextId]
    BY <1>0, <1>3, WorkerKnows DEF Thread
  <2>3. Faithful(ex'[e], Kind(e), rows, daemon')
    BY <1>0, <1>1, <1>2, <2>1, <2>2, WorkerKnows DEF Faithful
  <2> QED
    BY <2>1, <2>3, ObjectByProvider DEF ProviderStep
<1>4. CASE GiveUp(e) /\ UNCHANGED <<daemon, nextId>>
  <2>1. IdsSpent'
    BY <1>0, <1>4 DEF ObjectInv, IdsSpent
  <2> QED
    BY <1>0, <1>4, <2>1, GiveUpFaithful, ObjectByProvider DEF ProviderStep
<1>5. CASE GiveUp(e) /\ Created(Net)
  <2>1. IdsSpent'
    BY <1>0, <1>1, <1>5, CreatedIds, WorkerKnows
  <2> QED
    BY <1>0, <1>2, <1>5, <2>1, GiveUpFaithful, ObjectByProvider DEF ProviderStep
<1> QED
  BY <1>3, <1>4, <1>5 DEF CreateNetwork

LEMMA ObjectPull ==
    ASSUME Base, FlightInv, ObjectInv, NEW e \in Execs, Pull(e)
    PROVE  ObjectInv'
<1>0. ex[e].pc = "pull" /\ UNCHANGED <<rows, daemon, nextId>>
  BY DEF Pull
<1>1. IdsSpent'
  BY <1>0 DEF ObjectInv, IdsSpent
<1>2. CASE GiveUp(e)
  BY <1>0, <1>1, <1>2, GiveUpFaithful, ObjectByProvider DEF ProviderStep
<1>3. CASE ~GiveUp(e)
  <2>1. /\ ex'[e].made = ex[e].made /\ ex'[e].snap = ex[e].snap
        /\ ex'[e].pc = "start" /\ ex'[e].k = 1
    BY <1>0, <1>3, WorkerKnows DEF Pull, Thread
  <2>2. Faithful(ex'[e], Kind(e), rows, daemon')
    BY <1>0, <2>1, WorkerKnows DEF Faithful
  <2> QED
    BY <1>1, <2>2, ObjectByProvider DEF ProviderStep
<1> QED
  BY <1>2, <1>3

LEMMA ObjectStartContainer ==
    ASSUME Base, FlightInv, ObjectInv, NEW e \in Execs, StartContainer(e)
    PROVE  ObjectInv'
<1> DEFINE n == ex[e].k
<1>0. ex[e].pc = "start" /\ UNCHANGED rows
  BY DEF StartContainer
<1>1. n \in Components /\ n \in Names /\ n # Net /\ Net \in Names
  BY <1>0, ThreadFields, ConstAssumption DEF Advanced, Components, Names, Net
<1>2. daemon[n] = 0 => ex[e].made[n] = 0
  BY <1>0, <1>1, WorkerKnows DEF Faithful
<1>3. CASE /\ daemon[n] = 0 /\ daemon[Net] # 0 /\ Created(n)
           /\ ex' = [ex EXCEPT ![e].made[n] = nextId,
                               ![e].pc = IF n = N THEN "verify" ELSE "start",
                               ![e].k = IF n = N THEN n ELSE n + 1]
  <2>1. IdsSpent' /\ daemon'[n] = nextId /\ \A m \in Names : m # n => daemon'[m] = daemon[m]
    BY <1>0, <1>1, <1>3, CreatedIds, WorkerKnows
  <2>2. /\ ex'[e].pc \in {"verify", "start"} /\ ex'[e].snap = ex[e].snap
        /\ ex'[e].made = [ex[e].made EXCEPT ![n] = nextId]
    BY <1>0, <1>3, WorkerKnows DEF Thread
  <2>3. daemon'[Net] # 0
    BY <2>1, <1>1, <1>3
  <2>4. \A m \in Names : ex'[e].made[m] # 0 => daemon'[m] = ex'[e].made[m]
    BY <1>0, <1>1, <2>1, <2>2, WorkerKnows DEF Faithful
  <2>5. Faithful(ex'[e], Kind(e), rows, daemon')
    BY <1>0, <2>2, <2>3, <2>4, WorkerKnows DEF Faithful
  <2> QED
    BY <2>1, <2>5, ObjectByProvider DEF ProviderStep
<1>4. CASE GiveUp(e) /\ UNCHANGED <<daemon, nextId>>
  <2>1. IdsSpent'
    BY <1>0, <1>4 DEF ObjectInv, IdsSpent
  <2> QED
    BY <1>0, <1>4, <2>1, GiveUpFaithful, ObjectByProvider DEF ProviderStep
<1>5. CASE daemon[n] = 0 /\ GiveUp(e) /\ Created(n)
  <2>1. IdsSpent' /\ \A m \in Names : m # n => daemon'[m] = daemon[m]
    BY <1>0, <1>1, <1>5, CreatedIds, WorkerKnows
  <2> QED
    BY <1>0, <1>2, <1>5, <2>1, GiveUpFaithful, ObjectByProvider DEF ProviderStep
<1> QED
  BY <1>3, <1>4, <1>5 DEF StartContainer

LEMMA ObjectVerify ==
    ASSUME Base, FlightInv, ObjectInv, NEW e \in Execs, Verify(e)
    PROVE  ObjectInv'
<1>0. ex[e].pc = "verify" /\ UNCHANGED <<rows, daemon, nextId>>
  BY DEF Verify
<1>1. IdsSpent'
  BY <1>0 DEF ObjectInv, IdsSpent
<1>2. PICK answered \in 0..N :
        ex' = [ex EXCEPT ![e].pc = "record", ![e].ok = AllAnswered(answered),
                         ![e].ver = @ \cup (1..answered)]
  BY DEF Verify
<1>3. /\ ex'[e].pc = "record" /\ ex'[e].made = ex[e].made /\ ex'[e].snap = ex[e].snap
      /\ ex'[e].ver = ex[e].ver \cup (1..answered)
  BY <1>0, <1>2, WorkerKnows DEF Thread
<1>4. ex'[e].ok = AllAnswered(answered)
  BY <1>0, <1>2, WorkerKnows, Zenon DEF Thread
<1>5. ex'[e].ok => Components \subseteq ex'[e].ver
  BY <1>3, <1>4 DEF AllAnswered, Components
<1>6. Faithful(ex'[e], Kind(e), rows, daemon')
  BY <1>0, <1>3, <1>5, WorkerKnows DEF Faithful
<1> QED
  BY <1>1, <1>6, ObjectByProvider DEF ProviderStep

\* A removal takes objects away and gives no id.
LEMMA RemovalIds ==
    ASSUME Base, IdsSpent, NEW n \in Names, UNCHANGED <<rows, nextId>>,
           UNCHANGED daemon \/ \E gone \in BOOLEAN : DaemonAfter(n, gone)
    PROVE  IdsSpent'
<1>1. daemon \in [Names -> Ids] /\ nextId \in Nat /\ nextId > 0
  BY DEF Base, TypeOK
<1>2. \A m \in Names : daemon'[m] = daemon[m] \/ daemon'[m] = 0
  BY <1>1 DEF DaemonAfter
<1> QED
  BY <1>1, <1>2 DEF IdsSpent

LEMMA ObjectResetRemove ==
    ASSUME Base, FlightInv, ObjectInv, NEW e \in Execs, ResetRemove(e)
    PROVE  ObjectInv'
<1> DEFINE n == ex[e].k
           then == IF n < N THEN [ex[e] EXCEPT !.k = n + 1]
                   ELSE [ex[e] EXCEPT !.pc = IF ex[e].snap[Net] = 0 THEN "network" ELSE "pull"]
<1>0. ex[e].pc = "remove" /\ UNCHANGED <<rows, nextId>> /\ n \in Names
  BY ThreadFields DEF ResetRemove
<1>1. \A m \in Names : ex[e].made[m] = 0
  BY <1>0, WorkerKnows DEF Faithful
<1>2. IdsSpent'
  <2>1. UNCHANGED daemon \/ \E gone \in BOOLEAN : DaemonAfter(n, gone)
    BY DEF ResetRemove
  <2> QED
    BY <1>0, <2>1, RemovalIds, WorkerKnows
<1>3. CASE GiveUp(e)
  BY <1>0, <1>1, <1>2, <1>3, GiveUpFaithful, ObjectByProvider DEF ProviderStep
<1>4. CASE ex' = [ex EXCEPT ![e] = then]
  <2>1. ex'[e] = then
    BY <1>0, <1>4, WorkerKnows
  <2>2. /\ then.made = ex[e].made /\ then.snap = ex[e].snap
        /\ then.pc \in {"remove", "network", "pull"}
    BY <1>0, WorkerKnows DEF Thread
  <2> HIDE DEF then
  <2>3. Faithful(ex'[e], Kind(e), rows, daemon')
    BY <1>0, <1>1, <2>1, <2>2, WorkerKnows DEF Faithful
  <2> QED
    BY <1>2, <2>3, ObjectByProvider DEF ProviderStep
<1> QED
  BY <1>3, <1>4 DEF ResetRemove

LEMMA ObjectDestroyRemove ==
    ASSUME Base, FlightInv, ObjectInv, NEW e \in Execs, DestroyRemove(e)
    PROVE  ObjectInv'
<1> DEFINE n == ex[e].k
           then == IF n = Net THEN [ex[e] EXCEPT !.pc = "record"]
                   ELSE [ex[e] EXCEPT !.k = IF n < N THEN n + 1 ELSE Net]
<1>0. ex[e].pc = "remove" /\ UNCHANGED <<rows, nextId>> /\ n \in Names /\ Kind(e) = "destroy"
  BY ThreadFields DEF DestroyRemove
<1>1. \A m \in Names : ex[e].made[m] = 0
  BY <1>0, WorkerKnows DEF Faithful
<1>2. IdsSpent'
  <2>1. UNCHANGED daemon \/ \E gone \in BOOLEAN : DaemonAfter(n, gone)
    BY DEF DestroyRemove
  <2> QED
    BY <1>0, <2>1, RemovalIds, WorkerKnows
<1>3. /\ then.made = ex[e].made /\ then.snap = ex[e].snap
      /\ then.pc \in {"remove", "record"}
      /\ DOMAIN then = DOMAIN ex[e]
  BY <1>0, WorkerKnows DEF Thread
<1>4. \/ ex' = [ex EXCEPT ![e] = then]
      \/ \E outcome \in Outcomes : ex' = [ex EXCEPT ![e] = [then EXCEPT !.out[n] = outcome]]
  BY DEF DestroyRemove
<1> HIDE DEF then
<1>5. /\ ex'[e].made = ex[e].made /\ ex'[e].snap = ex[e].snap
      /\ ex'[e].pc \in {"remove", "record"}
  <2>1. CASE ex' = [ex EXCEPT ![e] = then]
    BY <1>0, <1>3, <2>1, WorkerKnows
  <2>2. CASE \E outcome \in Outcomes : ex' = [ex EXCEPT ![e] = [then EXCEPT !.out[n] = outcome]]
    <3>1. PICK outcome \in Outcomes : ex' = [ex EXCEPT ![e] = [then EXCEPT !.out[n] = outcome]]
      BY <2>2
    <3>2. ex'[e] = [then EXCEPT !.out[n] = outcome]
      BY <1>0, <3>1, WorkerKnows
    <3> QED
      BY <1>0, <1>3, <3>2, WorkerKnows DEF Thread
  <2> QED
    BY <1>4, <2>1, <2>2
<1>6. Faithful(ex'[e], Kind(e), rows, daemon')
  BY <1>0, <1>1, <1>5, WorkerKnows DEF Faithful
<1> QED
  BY <1>2, <1>6, ObjectByProvider DEF ProviderStep

LEMMA ObjectProvider ==
    ASSUME Base, FlightInv, ObjectInv, NEW e \in Execs, ProviderStep(e)
    PROVE  ObjectInv'
BY ObjectPreflight, ObjectCreateNetwork, ObjectPull, ObjectStartContainer, ObjectVerify,
   ObjectResetRemove, ObjectDestroyRemove DEF ProviderStep

\* A thread that returns was the last one at work.
LEMMA LastReturns ==
    ASSUME Base, FlightInv, NEW e \in Execs, ex[e].pc # "idle",
           ex' = [ex EXCEPT ![e] = IdleThread]
    PROVE  \A f \in Execs : ex'[f].pc = "idle"
BY WorkerCarries, IdleIsThread, ThreadReplaced DEF Base, TypeOK

LEMMA ObjectReturn ==
    ASSUME Serial, Base, FlightInv, ObjectInv, NEW e \in Execs,
           UnexpectedFailure(e) \/ Crash(e) \/ AttemptTimesOut(e)
    PROVE  ObjectInv'
<1>1. /\ ex[e].pc # "idle" /\ ex' = [ex EXCEPT ![e] = IdleThread]
      /\ UNCHANGED <<rows, daemon, nextId>> /\ state' \in {state, "failed"}
  BY DEF UnexpectedFailure, Crash, AttemptTimesOut, Serial
<1>2. \A f \in Execs : ex'[f].pc = "idle"
  BY <1>1, LastReturns
<1> QED
  BY <1>1, <1>2, ObjectFrame

\* What a bring-up reports exists, or is the network whose row it has read.
LEMMA ReportedExists ==
    ASSUME Base, FlightInv, ObjectInv, NEW e \in Execs, ex[e].pc = "record",
           NEW n \in Names, Reported(e)[n] # 0
    PROVE  \/ Reported(e)[n] = daemon[n] /\ ex[e].made[n] = Reported(e)[n]
           \/ Reported(e)[n] = rows[n].id /\ n = Net
BY WorkerKnows DEF Reported, Faithful

LEMMA ObjectRecordBringUp ==
    ASSUME Base, FlightInv, ObjectInv, NEW e \in Execs, RecordBringUp(e)
    PROVE  ObjectInv'
<1>0. /\ ex[e].pc = "record" /\ Kind(e) # "destroy" /\ PersistResources(e)
      /\ ex' = [ex EXCEPT ![e] = IdleThread] /\ UNCHANGED <<daemon, nextId>>
      /\ state' = IF ex[e].ok THEN "ready" ELSE "failed"
  BY DEF RecordBringUp
<1>1. /\ \A n \in Names : Reported(e)[n] = 0 => rows'[n] = rows[n]
      /\ \A n \in Names : Reported(e)[n] # 0 =>
            /\ rows'[n].id = Reported(e)[n]
            /\ rows'[n].st = IF n \in ex[e].ver THEN "verified" ELSE "created"
  BY <1>0, PersistShape
<1>2. IdsSpent'
  <2> SUFFICES ASSUME NEW n \in Names
               PROVE  /\ daemon[n] < nextId /\ rows'[n].id < nextId
                      /\ rows'[n].st # "none" => rows'[n].id # 0
                      /\ rows'[n].st = "removed" => daemon[n] # rows'[n].id
    BY <1>0 DEF IdsSpent
  <2>1. CASE Reported(e)[n] = 0
    BY <1>0, <1>1, <2>1, WorkerKnows DEF IdsSpent
  <2>2. CASE Reported(e)[n] # 0
    BY <1>0, <1>1, <2>2, WorkerKnows, ReportedExists DEF IdsSpent
  <2> QED
    BY <2>1, <2>2
<1>3. ThreadsFaithful'
  BY <1>0, LastReturns DEF ThreadsFaithful
<1>4. ReadyMeansObserved'
  <2> SUFFICES ASSUME ex[e].ok
               PROVE  /\ \A n \in Components : rows'[n].st = "verified"
                            /\ rows'[n].id = daemon[n] /\ daemon[n] # 0
                      /\ rows'[Net].st \notin {"none", "removed"} /\ daemon[Net] # 0
    BY <1>0 DEF ReadyMeansObserved, Live
  <2>1. Components \subseteq Names /\ Net \in Names /\ Net \notin Components
    BY ConstAssumption DEF Components, Names, Net
  <2>2. daemon[Net] # 0 /\ Components \subseteq ex[e].ver
    BY <1>0, WorkerKnows DEF Faithful
  <2>3. \A n \in Names : Reported(e)[n] # 0
    BY <1>0, SuccessReportsAll
  <2>4. \A n \in Components : Reported(e)[n] = daemon[n] /\ daemon[n] # 0
    BY <1>0, <2>1, <2>3, ReportedExists
  <2> QED
    BY <1>1, <2>1, <2>2, <2>3, <2>4
<1>5. NothingLive'
  BY <1>0 DEF NothingLive
<1> QED
  BY <1>2, <1>3, <1>4, <1>5 DEF ObjectInv

\* A teardown proves a row removed only when the object it names is gone, and
\* reports clean only when every live row was.
LEMMA TeardownRows ==
    ASSUME Base, FlightInv, ObjectInv, NEW e \in Execs, RecordDestroy(e), NEW n \in Names
    PROVE  /\ rows'[n].id = rows[n].id
           /\ ~Live(n) => rows'[n] = rows[n]
           /\ Live(n) /\ ~Live(n)' => rows'[n].st = "removed" /\ daemon[n] # rows[n].id
           /\ state' = "destroyed" => ~Live(n)'
<1>1. PICK reachable \in BOOLEAN, unknown \in SUBSET Names,
           headline \in {"clean", "residue", "unproven"} :
              Teardown(e, reachable, unknown, headline)
  BY TeardownShape
<1> DEFINE final == Confirmed(e, reachable, unknown)
           P == {m \in Names : final[m] = "present"}
           U == {m \in Names : final[m] = "unproven" \/ (Live(m) /\ final[m] = "none")}
<1>2. ex[e].pc = "record"
  BY DEF RecordDestroy
<1>3. rows[n] \in RowRecord
  BY DEF Base, TypeOK
<1>4. /\ final[n] \in Outcomes
      /\ final[n] = "removed" => daemon[n] # ex[e].snap[n]
  BY DEF Confirmed, Outcomes
<1>5. Live(n) => ex[e].snap[n] = rows[n].id
  BY <1>2, WorkerKnows DEF Faithful, Live
<1>6. rows'[n] = IF ~Live(n) THEN rows[n]
                 ELSE [rows[n] EXCEPT !.st = IF Live(n) /\ final[n] = "none"
                                             THEN "unproven" ELSE RowStateFor(final[n])]
  BY <1>1 DEF Teardown
<1>7. headline = Verdict(reachable, P, U) /\ state' = StateAfterTeardown(headline)
  BY <1>1 DEF Teardown
<1>8. state' = "destroyed" => P = {} /\ U = {}
  <2> HIDE DEF P, U
  <2> QED BY <1>7 DEF Verdict, StateAfterTeardown
<1> HIDE DEF final
<1>9. CASE ~Live(n)
  <2>1. rows'[n] = rows[n]
    BY <1>6, <1>9
  <2> QED
    BY <1>9, <2>1 DEF Live
<1>10. CASE Live(n)
  <2>1. rows'[n].id = rows[n].id
        /\ rows'[n].st = IF final[n] = "none" THEN "unproven" ELSE RowStateFor(final[n])
    BY <1>3, <1>6, <1>10 DEF RowRecord
  <2>2. rows'[n].st \in {"none", "removed"} => final[n] = "removed" /\ rows'[n].st = "removed"
    BY <1>4, <2>1 DEF RowStateFor, Outcomes
  <2>3. state' = "destroyed" => final[n] = "removed" /\ rows'[n].st = "removed"
    BY <1>4, <1>8, <1>10, <2>1 DEF RowStateFor, Outcomes
  <2> QED
    BY <1>4, <1>5, <1>10, <2>1, <2>2, <2>3 DEF Live
<1> QED
  BY <1>9, <1>10

LEMMA ObjectRecordDestroy ==
    ASSUME Base, FlightInv, ObjectInv, NEW e \in Execs, RecordDestroy(e)
    PROVE  ObjectInv'
<1>0. /\ ex[e].pc = "record" /\ ex' = [ex EXCEPT ![e] = IdleThread]
      /\ UNCHANGED <<daemon, nextId>>
  BY DEF RecordDestroy
<1>1. IdsSpent'
  <2> SUFFICES ASSUME NEW n \in Names
               PROVE  /\ daemon[n] < nextId /\ rows'[n].id < nextId
                      /\ rows'[n].st # "none" => rows'[n].id # 0
                      /\ rows'[n].st = "removed" => daemon[n] # rows'[n].id
    BY <1>0 DEF IdsSpent
  <2>1. /\ rows'[n].id = rows[n].id
        /\ ~Live(n) => rows'[n] = rows[n]
        /\ Live(n) /\ ~Live(n)' => rows'[n].st = "removed" /\ daemon[n] # rows[n].id
    BY TeardownRows
  <2> QED
    BY <1>0, <2>1, WorkerKnows DEF IdsSpent, Live
<1>2. ThreadsFaithful'
  BY <1>0, LastReturns DEF ThreadsFaithful
<1>3. NothingLive'
  BY TeardownRows DEF NothingLive
<1>4. ReadyMeansObserved'
  BY DEF ReadyMeansObserved, RecordDestroy, StateAfterTeardown
<1> QED
  BY <1>1, <1>2, <1>3, <1>4 DEF ObjectInv

LEMMA ObjectNext ==
    ASSUME Serial, Base, FlightInv, ObjectInv, [Next]_vars
    PROVE  ObjectInv'
<1>1. CASE Next
  BY <1>1, StepCases, ObjectRequests, ObjectCommitStart, ObjectSetAside, ObjectRowOnly,
     ObjectPickUp, ObjectClaim, ObjectProvider, ObjectRecordBringUp, ObjectRecordDestroy,
     ObjectReturn
<1>2. CASE UNCHANGED vars
  BY <1>2, ObjectRequests
<1> QED
  BY <1>1, <1>2

-----------------------------------------------------------------------------
\* The theorems about a range whose threads do not outlive their attempts.

LEMMA SerialInvariant == Serial => (Spec => [](Base /\ SerialInv))
<1> SUFFICES ASSUME Serial PROVE Spec => [](Base /\ SerialInv)
  OBVIOUS
<1>1. Init => Base /\ SerialInv
  BY BaseInit, FlightInit, ObjectInit DEF SerialInv
<1>2. Base /\ SerialInv /\ [Next]_vars => (Base /\ SerialInv)'
  BY BaseNext, FlightNext, ObjectNext DEF SerialInv
<1> QED
  BY <1>1, <1>2, PTL DEF Spec

\* Two racing start_operation requests never both get through, and no range is
\* stranded in an in-flight state without an operation to abandon.
THEOREM OneOperationInFlight == Serial => (Spec => []InFlightAgrees)
<1>1. Base /\ SerialInv => InFlightAgrees
  BY DEF SerialInv, FlightInv
<1> QED
  BY <1>1, SerialInvariant, PTL

\* A range offered as ready or active was observed: every component is recorded
\* verified under the id that really runs.  Of the network it says less: a live
\* row and an object exist, and the row may name an older id (a reset keeps it).
THEOREM ReadyIsObserved == Serial => (Spec => []ReadyMeansObserved)
<1>1. Base /\ SerialInv => ReadyMeansObserved
  BY DEF SerialInv, ObjectInv
<1> QED
  BY <1>1, SerialInvariant, PTL

\* A destroyed range has a clean verdict, no live row, and nothing running under
\* an id it recorded.  An object that no row names is outside the statement, as it
\* is outside what _run_destroy asks the provider: DestroyedMeansGone is violated.
THEOREM DestroyedIsProved == Serial => (Spec => []DestroyedMeansProved)
<1>1. Base /\ SerialInv => DestroyedMeansProved
  BY DEF Base, SerialInv, ObjectInv, NothingLive, IdsSpent, ReadyMeansEnumerated,
         DestroyedMeansProved
<1> QED
  BY <1>1, SerialInvariant, PTL

\* No step narrows the set of objects a later destroy is asked about, but for a
\* resource whose object is gone.
THEOREM RowsNeverForgotten == Serial => (Spec => NeverForgets)
<1> DEFINE Keeps == \A n \in Names : Live(n) /\ ~Live(n)' => daemon'[n] # rows[n].id
<1> SUFFICES ASSUME Serial PROVE Spec => NeverForgets
  OBVIOUS
<1>1. Base /\ SerialInv /\ [Next]_vars => [Keeps]_vars
  <2> SUFFICES ASSUME Base, FlightInv, ObjectInv, Next PROVE Keeps
    BY DEF SerialInv
  <2>1. CASE UNCHANGED rows
    BY <2>1 DEF Live
  <2>2. CASE \E o \in OpIds : Abandon(o) \/ FailExpired(o)
    <3>1. RetainAsUnproven
      BY <2>2 DEF Abandon, FailExpired
    <3> QED
      BY <3>1, RetainShape DEF Base, TypeOK
  <2>3. CASE \E e \in Execs : RecordBringUp(e)
    <3>1. PICK e \in Execs : RecordBringUp(e)
      BY <2>3
    <3>2. ex[e].pc # "idle" /\ PersistResources(e)
      BY <3>1 DEF RecordBringUp
    <3> QED
      BY <3>2, PersistShape DEF Live
  <2>4. CASE \E e \in Execs : RecordDestroy(e)
    <3>1. PICK e \in Execs : RecordDestroy(e)
      BY <2>4
    <3>2. UNCHANGED daemon
      BY <3>1 DEF RecordDestroy
    <3> QED
      BY <3>1, <3>2, TeardownRows
  <2>5. ASSUME NEW e \in Execs, ProviderStep(e) PROVE UNCHANGED rows
    BY <2>5, ProviderSteps DEF ProviderFrame
  <2> QED
    BY <2>1, <2>2, <2>3, <2>4, <2>5, StepCases
    DEF BeginStart, RollbackStart, CommitStart, RowOnly, LeaseExpires, RefuseResolved,
        RefuseUnresolved, PickUp, Claim, UnexpectedFailure, Crash, AttemptTimesOut,
        StartCompetition, StopCompetition
<1>2. Spec => [](Base /\ SerialInv)
  BY SerialInvariant
<1> QED
  BY <1>1, <1>2, PTL DEF Spec, NeverForgets

\* destroyed is final: no request, retry or late delivery of an abandoned
\* operation brings a destroyed range back.
THEOREM DestroyedStays == Serial => (Spec => DestroyedIsFinal)
<1> DEFINE Stays == state = "destroyed" => state' = "destroyed"
<1> SUFFICES ASSUME Serial PROVE Spec => DestroyedIsFinal
  OBVIOUS
<1>1. Base /\ SerialInv /\ [Next]_vars => [Stays]_vars
  <2> SUFFICES ASSUME Base, FlightInv, Next, state = "destroyed", state' # "destroyed"
               PROVE  FALSE
    BY DEF SerialInv
  <2>1. \A o \in OpIds : ~InFlight(o)
    BY WorkingState
  <2>2. \A e \in Execs : ex[e].pc = "idle"
    BY <2>1, WorkerCarries
  <2>3. ASSUME NEW c \in Clients, CommitStart(c) PROVE FALSE
    <3>1. tx[c].kind \in Kinds /\ state \in AllowedFrom(tx[c].kind)
      BY <2>3 DEF CommitStart, SequenceFree, FlightInv, FreshSees
    <3> QED
      BY <3>1 DEF AllowedFrom, Kinds
  <2>4. ASSUME NEW o \in OpIds, Abandon(o) \/ FailExpired(o) PROVE FALSE
    BY <2>1, <2>4 DEF Abandon, Abandonable, FailExpired
  <2>5. ASSUME NEW e \in Execs,
               \/ Claim(e) \/ ProviderStep(e) \/ RecordBringUp(e) \/ RecordDestroy(e)
               \/ UnexpectedFailure(e) \/ Crash(e) \/ AttemptTimesOut(e)
        PROVE  FALSE
    <3>1. ProviderStep(e) => ex[e].pc # "idle"
      BY ProviderSteps DEF ProviderFrame
    <3> QED
      BY <2>2, <2>5, <3>1 DEF Claim, RecordBringUp, RecordDestroy, UnexpectedFailure, Crash,
                              AttemptTimesOut
  <2> QED
    BY <2>3, <2>4, <2>5, StepCases
    DEF BeginStart, RollbackStart, RowOnly, LeaseExpires, RefuseResolved,
        RefuseUnresolved, PickUp, StartCompetition, StopCompetition
<1>2. Spec => [](Base /\ SerialInv)
  BY SerialInvariant
<1> QED
  BY <1>1, <1>2, PTL DEF Spec, DestroyedIsFinal
=============================================================================
