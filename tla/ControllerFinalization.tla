---------------------- MODULE ControllerFinalization ----------------------
(***************************************************************************)
(* `secpctl controller install --write --confirm`: the transaction of the  *)
(* management plane that installs or upgrades a controller                 *)
(* (secp_management/engine.py) through the finalization adapter            *)
(* (controller_finalization.py).  One installer runs at a time.  Every     *)
(* step may fail before it changes anything, fail after it changed the     *)
(* host and before its effect is recorded, or be the last one before the   *)
(* process dies; the host and the database survive, the transaction and    *)
(* the adapter's receipt do not.                                           *)
(*                                                                         *)
(* Releases are numbered along the signed lineage: the parent of r is      *)
(* r - 1.  The three TLS files are one object, and so are a document's     *)
(* bytes: which release, activation row and commit state it binds.  The    *)
(* hand-off files are left out (they are removed in a `finally`; a crash   *)
(* that leaves one leaves the journal too), and so is the bootstrap        *)
(* adapter's own receipt: its teardown succeeds or is unproven.  The       *)
(* canonical origin and the rendered broker unit are those of the first    *)
(* install, so the locator and the unit are created or adopted; their      *)
(* staged replacement (MANAGED_REPLACED, which needs the staging root as   *)
(* the marker's does) is left out.                                         *)
(***************************************************************************)
EXTENDS Naturals, Sequences

CONSTANTS MaxRelease,   \* releases of the lineage
          MaxFaults     \* failed calls and crashes

ASSUME FinalizationAssumption == MaxRelease \in Nat \ {0} /\ MaxFaults \in Nat

VARIABLES objs,     \* installer-owned objects on the host
          rows,     \* controller_enrollment_identity: the release of each
                    \* activation; the last is active, row i has generation i - 1
          marker,   \* the row the enablement marker binds, 0 when absent
          api,      \* the row the running API was enabled with, 0 when it is
                    \* sealed or does not run
          stack,    \* the release of the controller stack, 0 none, Mixed
          docs,     \* the five managed documents
          journal,  \* the recovery journal exists
          root,     \* the directory finalization-staging exists
          staged,   \* the row of the staged prior marker, 0 when none
          tx,       \* the running transaction
          last,     \* how the last command ended, and what it found
          faults

host == <<objs, rows, marker, api, stack, docs, journal, staged>>
vars == <<host, root, tx, last, faults>>

Releases == 1..MaxRelease
Mixed == MaxRelease + 1          \* neither the prior stack nor the candidate
MaxRows == 2 * MaxRelease

Objects == {"gate", "tls", "locator", "credential", "role", "key", "unit", "service"}
ReleaseDocuments == {"identity", "manifest", "signature"}
Documents == ReleaseDocuments \cup {"evidence", "attestation"}
NoDoc == [rel |-> 0, row |-> 0, state |-> "none"]

(***************************************************************************)
(* The steps of a transaction, in the order of _write_transaction and      *)
(* _drive_controller_finalization.  Fresh installs and upgrades make the   *)
(* readiness gate before the stack mounts it; a rollback drives it in      *)
(* place.                                                                  *)
(***************************************************************************)
Prepare == <<"gate", "stack", "identity", "manifest", "signature", "observe">>
DriveMarkerFirst(gate) == <<"tls", "locator", "signer", "key">> \o gate
    \o <<"unit", "service", "verify", "marker", "activate", "runtime">>
Drive(gate) == <<"tls", "locator", "signer", "key">> \o gate
    \o <<"unit", "service", "verify", "activate", "marker", "runtime">>
Record == <<"evidence", "attestation", "verified">>

Forward == Prepare \o Drive(<<>>) \o Record \o <<"cleanup">> \o Record
Backward == Drive(<<"gate">>) \o Record \o <<"cleanup">>

UndoAdapter == <<"undo marker", "undo objects", "undo journal">>

Makes(s) == IF s = "signer" THEN {"credential", "role"} ELSE {s}
ObjectSteps == {"gate", "tls", "locator", "signer", "key", "unit", "service"}
Checks == {"observe", "verify", "verified"}
Undos == {"undo marker", "undo objects", "undo journal", "restore stack",
          "undo documents", "teardown", "roll back"}

NoTx == [mode |-> "none", rel |-> 0, prior |-> 0, todo |-> <<>>, state |-> "none",
         undoing |-> FALSE, noted |-> {}, created |-> {}, wrote |-> {},
         originals |-> [d \in Documents |-> NoDoc], activated |-> 0,
         stackUp |-> FALSE, residual |-> FALSE, unproven |-> FALSE]

At(s) == tx.todo # <<>> /\ Head(tx.todo) = s
Advance(t) == [t EXCEPT !.todo = Tail(@)]

Rows == 0..MaxRows
Document == [rel : 0..MaxRelease, row : Rows, state : {"none", "prepared", "committed"}]

TypeOK ==
    /\ objs \subseteq Objects
    /\ rows \in Seq(Releases) /\ Len(rows) <= MaxRows
    /\ {marker, api, staged} \subseteq 0..Len(rows)
    /\ stack \in 0..Mixed
    /\ docs \in [Documents -> Document]
    /\ {journal, root} \subseteq BOOLEAN
    /\ tx.mode \in {"none", "fresh", "upgrade", "rollback"}
    /\ tx.created \subseteq Objects /\ tx.wrote \subseteq Documents
    /\ last.outcome \in {"none", "written", "refused", "error", "recovery_required", "died"}
    /\ faults \in 0..MaxFaults

Init ==
    /\ objs = {} /\ rows = <<>> /\ marker = 0 /\ api = 0 /\ stack = 0
    /\ docs = [d \in Documents |-> NoDoc]
    /\ journal = FALSE /\ root = FALSE /\ staged = 0
    /\ tx = NoTx /\ faults = 0
    /\ last = [outcome |-> "none", objs |-> {}, stack |-> 0, row |-> 0]

Fault == faults < MaxFaults /\ faults' = faults + 1

-----------------------------------------------------------------------------
(***************************************************************************)
(* Classification, before any mutation.                                    *)
(***************************************************************************)
Active == Len(rows)
Evidence == docs["evidence"]

\* All five documents are there, and the signature of the attestation covers
\* the evidence, identity and record on disk.
DocumentsAgree ==
    /\ \A d \in Documents : docs[d] # NoDoc
    /\ \A d \in ReleaseDocuments : docs[d].rel = Evidence.rel
    /\ docs["attestation"] = Evidence

IsFresh == /\ \A d \in Documents : docs[d] = NoDoc
           /\ objs = {} /\ marker = 0 /\ rows = <<>>
           /\ ~journal /\ ~root

HasTransientState == journal \/ root

IsComplete == objs = Objects /\ marker # 0 /\ rows # <<>>

\* _live_state_refusal: one active identity, marker, API, image and
\* generation agree with the evidence.
LiveStateProven ==
    /\ Evidence.row = Active /\ rows[Active] = Evidence.rel
    /\ marker = Active /\ api = Active
    /\ stack = Evidence.rel

Installed == /\ ~HasTransientState /\ IsComplete
             /\ DocumentsAgree /\ LiveStateProven

Idle == tx.mode = "none"

Ends(how) == last' = [last EXCEPT !.outcome = how]

\* A transaction begins: FRESH, or an authenticated linear successor.
Begin(r) ==
    /\ Idle
    /\ \/ IsFresh /\ tx' = [NoTx EXCEPT !.mode = "fresh", !.rel = r, !.todo = Forward,
                                        !.state = "prepared"]
       \/ /\ Installed /\ r = Evidence.rel + 1
          /\ tx' = [NoTx EXCEPT !.mode = "upgrade", !.rel = r, !.prior = Evidence.rel,
                                !.todo = Forward, !.state = "prepared"]
    /\ last' = [outcome |-> "none", objs |-> objs, stack |-> stack, row |-> Active]
    /\ UNCHANGED <<host, root, faults>>

\* The exact same release: re-proved, nothing is changed.
Replay(r) == /\ Idle /\ Installed /\ r = Evidence.rel
             /\ Ends("written")
             /\ UNCHANGED <<host, root, tx, faults>>

Refuse(r) == /\ Idle /\ ~IsFresh
             /\ ~(Installed /\ r \in {Evidence.rel, Evidence.rel + 1})
             /\ Ends("refused")
             /\ UNCHANGED <<host, root, tx, faults>>

-----------------------------------------------------------------------------
(***************************************************************************)
(* Compensation (_compensate), as the steps still to run.                  *)
(***************************************************************************)
CompensationRollingBackAgain(t) ==
    UndoAdapter \o <<"undo documents">>
    \o (IF t.activated # 0 THEN <<"roll back">> ELSE <<>>)

Compensation(t) ==
    LET adapter == IF t.noted # {} THEN UndoAdapter ELSE <<>>
    IN  IF t.mode = "rollback" THEN adapter \o <<"undo documents">>
        ELSE IF t.mode = "upgrade" /\ t.activated # 0
             THEN <<"restore stack">> \o adapter \o <<"undo documents", "roll back">>
             ELSE adapter
                  \o (IF t.stackUp THEN <<"restore stack">> ELSE <<>>)
                  \o <<"undo documents">>
                  \o (IF t.mode = "fresh" THEN <<"teardown">> ELSE <<>>)

\* After the first cleanup the install stands: nothing is undone, and what the code
\* catches is recovery_required (see CommitEscapes for the rest).  A failed rollback
\* is undone and always reported.
Cleaning(t) == t.mode # "rollback" /\ (t.state = "committed" \/ Head(t.todo) = "cleanup")

FailedAsDeterminate(t, indeterminate) ==
    [t EXCEPT !.todo = IF Cleaning(t) THEN <<>> ELSE Compensation(t),
              !.undoing = ~Cleaning(t),
              !.unproven = @ \/ Cleaning(t) \/ t.mode = "rollback"]

Fails(t, indeterminate) ==
    IF Cleaning(t)
    THEN [t EXCEPT !.todo = <<>>, !.unproven = TRUE]
    ELSE [t EXCEPT !.todo = Compensation(t), !.undoing = TRUE,
                   !.unproven = @ \/ indeterminate \/ t.mode = "rollback"]

-----------------------------------------------------------------------------
(***************************************************************************)
(* Forward steps.                                                          *)
(***************************************************************************)
\* An object is adopted when it is there, created when it is not; the journal
\* is written first and the effect recorded last.
InstallObject(s) ==
    /\ At(s) /\ s \in ObjectSteps
    /\ objs' = objs \cup Makes(s)
    /\ journal' = TRUE
    /\ tx' = [Advance(tx) EXCEPT !.noted = @ \cup {s},
                              !.created = @ \cup (Makes(s) \ objs)]
    /\ UNCHANGED <<rows, marker, api, stack, docs, root, staged, last, faults>>

\* The readback, the provisioning one-shot or the start fails after the host
\* was changed: the effect is not recorded.
InstallObjectUnrecorded(s) ==
    /\ At(s) /\ s \in ObjectSteps /\ Fault
    /\ \E done \in SUBSET Makes(s) :
          /\ "role" \in done => "credential" \in done
          /\ objs' = objs \cup done
    /\ journal' = TRUE
    /\ tx' = Fails(tx, FALSE)
    /\ UNCHANGED <<rows, marker, api, stack, docs, root, staged, last>>

\* _run_controller_ops, or _apply_controller_stack_upgrade: the API container
\* is recreated and reads the marker.
ApplyStack ==
    /\ At("stack")
    /\ stack' = tx.rel /\ api' = marker
    /\ tx' = [Advance(tx) EXCEPT !.stackUp = (tx.mode = "upgrade")]
    /\ UNCHANGED <<objs, rows, marker, docs, journal, root, staged, last, faults>>

\* A call that recreates the API fails: the old process still runs, the new one
\* does, reading marker m, or none does.
ApiLeft(m) == {api, m, 0}

ApplyStackPartly ==
    /\ At("stack") /\ Fault
    /\ stack' \in {stack, Mixed} /\ api' \in ApiLeft(marker)
    /\ tx' = Fails(tx, FALSE)
    /\ UNCHANGED <<objs, rows, marker, docs, journal, root, staged, last>>

\* _DocWriter.install: the first original of each document is kept; a document
\* that is there and cannot be read is taken for one that is not.  The rename is
\* the last thing atomic_install does, so an install that fails has written nothing.
Content(d) == IF d \in {"evidence", "attestation"}
              THEN [rel |-> tx.rel, row |-> Active, state |-> tx.state]
              ELSE [rel |-> tx.rel, row |-> 0, state |-> "none"]

WriteKeeping(d, original) ==
    /\ At(d)
    /\ docs' = [docs EXCEPT ![d] = Content(d)]
    /\ tx' = [Advance(tx) EXCEPT !.wrote = @ \cup {d}, !.originals[d] = original]
    /\ UNCHANGED <<objs, rows, marker, api, stack, journal, root, staged, last>>

WriteDocument(d) == /\ WriteKeeping(d, IF d \in tx.wrote THEN tx.originals[d] ELSE docs[d])
                    /\ UNCHANGED faults

WriteDocumentUnread(d) == /\ d \notin tx.wrote /\ docs[d] # NoDoc /\ Fault
                          /\ WriteKeeping(d, NoDoc)

\* _finalize_prepared_checkpoint catches ManagementError only: a FilesystemError
\* of the committed evidence or attestation leaves the command as an ordinary
\* refusal (cli.main), after the activation.
CommitEscapes ==
    /\ tx.state = "committed" /\ (At("evidence") \/ At("attestation")) /\ Fault
    /\ Ends("error") /\ tx' = NoTx
    /\ UNCHANGED <<host, root>>

\* The end state, the broker and the installed documents are observed.
Observed(s) ==
    CASE s = "observe" -> stack = tx.rel
      [] s = "verify" -> objs = Objects
      [] s = "verified" -> DocumentsAgree /\ Evidence.rel = tx.rel
                           /\ (tx.mode = "rollback" => marker = Evidence.row)

Check(s) == /\ At(s) /\ s \in Checks /\ Observed(s)
            /\ tx' = Advance(tx)
            /\ UNCHANGED <<host, root, last, faults>>

\* The one-shot commits the row, then its receipt is parsed.
Activate ==
    /\ At("activate")
    /\ rows' = Append(rows, tx.rel)
    /\ tx' = [Advance(tx) EXCEPT !.activated = Len(rows) + 1, !.noted = @ \cup {"activate"}]
    /\ UNCHANGED <<objs, marker, api, stack, docs, journal, root, staged, last, faults>>

ActivationUnconfirmed ==
    /\ At("activate") /\ Fault
    /\ rows' \in {rows, Append(rows, tx.rel)}
    /\ tx' = Fails(tx, TRUE)
    /\ UNCHANGED <<objs, marker, api, stack, docs, journal, root, staged, last>>

\* The prior marker is staged in a directory under the staging root, which
\* makedir does not create; then the new one is written.
CanStage == marker = 0 \/ root

WriteMarker ==
    /\ At("marker") /\ CanStage
    /\ marker' = Active /\ staged' = marker
    /\ tx' = [Advance(tx) EXCEPT !.noted = @ \cup {"marker"}]
    /\ UNCHANGED <<objs, rows, api, stack, docs, journal, root, last, faults>>

WriteMarkerUnrecorded ==
    /\ At("marker") /\ CanStage /\ Fault
    /\ marker' = Active /\ staged' = marker
    /\ tx' = Fails(tx, FALSE)
    /\ UNCHANGED <<objs, rows, api, stack, docs, journal, root, last>>

StagingAwaited == At("marker") /\ ~CanStage /\ UNCHANGED vars
StagingUnavailable ==
    /\ At("marker") /\ ~CanStage
    /\ tx' = Fails(tx, FALSE)
    /\ UNCHANGED <<host, root, last, faults>>

\* The API is restarted and observed; when the observation fails the marker is
\* reverted and the API restarted at once, and how that went is not looked at.
ObserveRuntime ==
    /\ At("runtime") /\ stack = tx.rel
    /\ api' = marker
    /\ tx' = Advance(tx)
    /\ UNCHANGED <<objs, rows, marker, stack, docs, journal, root, staged, last, faults>>

RuntimeUnverified ==
    /\ At("runtime")
    /\ \/ stack # tx.rel /\ marker' = staged /\ api' = staged /\ UNCHANGED faults
       \/ Fault /\ marker' \in {marker, staged} /\ api' \in ApiLeft(marker) \cup ApiLeft(marker')
    /\ tx' = Fails(tx, FALSE)
    /\ UNCHANGED <<objs, rows, stack, docs, journal, root, staged, last>>

\* commit(): the staged backups, then the journal, are removed; the evidence
\* written from here on is COMMITTED.
Cleanup ==
    /\ At("cleanup")
    /\ staged' = 0 /\ journal' = FALSE
    /\ tx' = [Advance(tx) EXCEPT !.state = "committed"]
    /\ UNCHANGED <<objs, rows, marker, api, stack, docs, root, last, faults>>

CleanupUnproven ==
    /\ At("cleanup") /\ Fault
    /\ staged' \in {0, staged} /\ journal' \in BOOLEAN
    /\ tx' = Fails(tx, FALSE)
    /\ UNCHANGED <<objs, rows, marker, api, stack, docs, root, last>>

\* Any other call of a step raises before it changes the host; a refusal the
\* activation reports is one of these.
StepRaises ==
    /\ ~Idle /\ tx.todo # <<>> /\ Head(tx.todo) \notin Undos /\ Fault
    /\ journal' \in {journal, journal \/ Head(tx.todo) \in ObjectSteps}
    /\ tx' = Fails(tx, FALSE)
    /\ UNCHANGED <<objs, rows, marker, api, stack, docs, root, staged, last>>

-----------------------------------------------------------------------------
(***************************************************************************)
(* Compensation steps.  Each is proven or leaves a residual.               *)
(***************************************************************************)
\* Remove the marker (fresh) or restore the staged one, then restart the API.
UndoMarker ==
    /\ At("undo marker")
    /\ IF "marker" \notin tx.noted
       THEN tx' = Advance(tx) /\ UNCHANGED <<marker, api, faults>>
       ELSE LET restorable == tx.mode = "fresh" \/ staged # 0
            IN  \/ /\ marker' = IF restorable THEN staged ELSE marker
                   /\ api' = marker' /\ UNCHANGED faults
                   /\ tx' = [Advance(tx) EXCEPT !.residual = @ \/ ~restorable]
                \/ /\ Fault /\ restorable
                   /\ marker' \in {marker, staged} /\ api' \in ApiLeft(marker')
                   /\ tx' = [Advance(tx) EXCEPT !.residual = TRUE]
    /\ UNCHANGED <<objs, rows, stack, docs, journal, root, staged, last>>

\* What this transaction created is removed; nothing drops a created database
\* role, and an activated identity stays.
UndoObjects ==
    /\ At("undo objects")
    /\ \/ objs' = objs \ (tx.created \ {"role"}) /\ UNCHANGED faults
          /\ tx' = [Advance(tx) EXCEPT !.residual = @ \/ "role" \in tx.created]
       \/ /\ Fault /\ \E left \in tx.created : objs' = objs \ (tx.created \ {"role", left})
          /\ tx' = [Advance(tx) EXCEPT !.residual = TRUE]
    /\ UNCHANGED <<rows, marker, api, stack, docs, journal, root, staged, last>>

\* compensate() ends: an identity residual is expected of an upgrade, any
\* other one stops its rollback.
UndoJournal ==
    /\ At("undo journal")
    /\ \/ staged' = 0 /\ journal' = FALSE /\ UNCHANGED faults
          /\ tx' = LET stuck == tx.residual
                       t == [Advance(tx) EXCEPT !.unproven = @ \/ stuck
                                 \/ (tx.mode = "fresh" /\ tx.activated # 0)]
                   IN  IF stuck /\ tx.mode = "upgrade" /\ tx.activated # 0
                       THEN [t EXCEPT !.todo = <<>>] ELSE t
       \/ /\ Fault /\ UNCHANGED <<staged, journal>>
          /\ tx' = LET t == [Advance(tx) EXCEPT !.unproven = TRUE]
                   IN  IF tx.mode = "upgrade" /\ tx.activated # 0
                       THEN [t EXCEPT !.todo = <<>>] ELSE t
    /\ UNCHANGED <<objs, rows, marker, api, stack, docs, root, last>>

RestoreStack ==
    /\ At("restore stack")
    /\ \/ stack' = tx.prior /\ api' = marker /\ tx' = Advance(tx) /\ UNCHANGED faults
       \/ /\ Fault /\ stack' \in {stack, tx.prior, Mixed} /\ api' \in ApiLeft(marker)
          /\ tx' = [Advance(tx) EXCEPT !.unproven = TRUE]
    /\ UNCHANGED <<objs, rows, marker, docs, journal, root, staged, last>>

\* _DocWriter.compensate; an upgrade whose documents cannot be restored is not
\* rolled back.
UndoDocuments ==
    /\ At("undo documents")
    /\ \/ /\ docs' = [d \in Documents |-> IF d \in tx.wrote THEN tx.originals[d] ELSE docs[d]]
          /\ tx' = Advance(tx) /\ UNCHANGED faults
       \/ /\ Fault
          /\ \E back \in SUBSET tx.wrote \ {tx.wrote} :
                docs' = [d \in Documents |-> IF d \in back THEN tx.originals[d] ELSE docs[d]]
          /\ tx' = [Advance(tx) EXCEPT
                      !.unproven = TRUE,
                      !.todo = IF tx.mode = "upgrade" /\ tx.activated # 0
                               THEN <<>> ELSE @]
    /\ UNCHANGED <<objs, rows, marker, api, stack, journal, root, staged, last>>

\* _compensate_host: the stack is stopped if its start returned; one that was
\* started partly is not in the receipt.
Teardown ==
    /\ At("teardown")
    /\ \/ /\ stack' \in (IF stack = Mixed THEN {0, Mixed} ELSE {0}) /\ api' = 0
          /\ tx' = Advance(tx) /\ UNCHANGED faults
       \/ /\ Fault /\ stack' \in {0, stack, Mixed} /\ api' \in ApiLeft(0)
          /\ tx' = [Advance(tx) EXCEPT !.unproven = TRUE]
    /\ UNCHANGED <<objs, rows, marker, docs, journal, root, staged, last>>

\* _upgrade_rollback: the prior release is driven again, as a new generation
\* whose predecessor is the candidate, if its documents can be loaded.
Loadable == \A d \in ReleaseDocuments : docs[d] # NoDoc

RollBack ==
    /\ At("roll back") /\ Loadable
    /\ tx' = [NoTx EXCEPT !.mode = "rollback", !.rel = tx.prior, !.todo = Backward,
                          !.state = "prepared", !.unproven = tx.unproven]
    /\ UNCHANGED <<host, root, last, faults>>

RollBackUnloadable ==
    /\ At("roll back")
    /\ IF Loadable THEN Fault ELSE UNCHANGED faults
    /\ tx' = [Advance(tx) EXCEPT !.unproven = TRUE]
    /\ UNCHANGED <<host, root, last>>

\* The command returns.  A proven compensation re-raises the first reason.
Verdict(t) == IF t.unproven THEN "recovery_required"
              ELSE IF t.undoing \/ t.mode = "rollback" THEN "error" ELSE "written"

Return == /\ ~Idle /\ tx.todo = <<>>
          /\ Ends(Verdict(tx)) /\ tx' = NoTx
          /\ UNCHANGED <<host, root, faults>>

Die == /\ ~Idle /\ tx.todo # <<>> /\ Fault
       /\ Ends("died") /\ tx' = NoTx
       /\ UNCHANGED <<host, root>>

\* Nothing in the code makes the staging root; an operator can.
MakeStagingRoot == /\ ~root /\ root' = TRUE
                   /\ UNCHANGED <<host, tx, last, faults>>

Install == \E r \in Releases : Begin(r) \/ Replay(r) \/ Refuse(r)

Step ==
    \/ \E s \in ObjectSteps : InstallObject(s) \/ InstallObjectUnrecorded(s)
    \/ ApplyStack \/ ApplyStackPartly
    \/ \E d \in Documents : WriteDocument(d) \/ WriteDocumentUnread(d)
    \/ CommitEscapes
    \/ \E s \in Checks : Check(s)
    \/ Activate \/ ActivationUnconfirmed
    \/ WriteMarker \/ WriteMarkerUnrecorded \/ StagingUnavailable
    \/ ObserveRuntime \/ RuntimeUnverified
    \/ Cleanup \/ CleanupUnproven
    \/ StepRaises

Undo == UndoMarker \/ UndoObjects \/ UndoJournal \/ RestoreStack
        \/ UndoDocuments \/ Teardown \/ RollBack \/ RollBackUnloadable

Next == Install \/ Step \/ Undo \/ Return \/ Die \/ MakeStagingRoot

\* The installer is one process whose calls all have time limits; nothing else
\* is fair.
Fairness == WF_vars(Step \/ Undo \/ Return)

Spec == Init /\ [][Next]_vars /\ Fairness

-----------------------------------------------------------------------------
(***************************************************************************)
(* What the transaction promises.                                          *)
(***************************************************************************)
\* `written` is never a false success (engine.py: the commit gate, the runtime
\* proof and the cleanup phase): whatever failed before, the documents, the
\* active identity, the marker, the enabled API, the stack and every object
\* agree, and neither the journal nor a staged backup is left.
WrittenMeansInstalled ==
    last.outcome = "written" =>
        /\ IsComplete /\ DocumentsAgree /\ LiveStateProven
        /\ ~journal /\ staged = 0

\* An ordinary error leaves one generation, not two (the activation_unproven and
\* identity residuals of _compensate, the proofs of _upgrade_rollback, and what
\* _finalize_prepared_checkpoint lets escape): the marker binds the active identity,
\* and every document that is there belongs to it.  When the identity moved, its
\* release is there in full and runs; only the commit state that the evidence and
\* the attestation bind may differ.
BelongsTo(d, row) == /\ docs[d].rel = rows[row]
                     /\ d \notin ReleaseDocuments => docs[d].row = row

ErrorIsCoherent ==
    last.outcome = "error" =>
        /\ marker = Active
        /\ \A d \in Documents : docs[d] # NoDoc => Active # 0 /\ BelongsTo(d, Active)
        /\ Active # last.row => /\ objs = Objects /\ stack = rows[Active] /\ api = Active
                                /\ \A d \in Documents : docs[d] # NoDoc

\* How many calls a command can still make: the steps in front of it, those of the
\* compensation (at most 6), of the rollback (15) and of the compensation of that
\* rollback (at most 4), as far as they may still come.
CallsLeft(t) == Len(t.todo) + IF t.mode = "rollback" THEN IF t.undoing THEN 0 ELSE 4
                              ELSE IF t.undoing THEN 19 ELSE 25

\* A command cannot go on for ever, however its calls fail (the compensations of
\* _write_transaction and _upgrade_rollback, and _compensate_rollback_participant,
\* which starts no rollback): it begins with at most 48 calls ahead, and while it
\* runs whatever changes the host or the transaction uses one up.
CommandShrinks ==
    [][~Idle' /\ <<host, tx, faults>>' # <<host, tx, faults>>
          => IF Idle THEN CallsLeft(tx') <= 48 ELSE CallsLeft(tx') < CallsLeft(tx)]_vars

\* Every install returns: a failing rollback is undone and reported, never
\* rolled back again (_compensate_rollback_participant).
InstallReturns == ~Idle ~> Idle

\* engine.py, _compensate: "Any unproven residual in ANY participant ->
\* recovery_required (never an ordinary transaction error, never a false
\* success)."  After an ordinary error the host has the objects and the stack
\* the command found, and no journal.
ErrorLeavesNothing ==
    last.outcome = "error" =>
        objs = last.objs /\ stack = last.stack /\ ~journal /\ staged = 0
=============================================================================
