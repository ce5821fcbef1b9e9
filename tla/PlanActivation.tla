--------------------------- MODULE PlanActivation ---------------------------
(***************************************************************************)
(* The two human decisions real plan generation needs for one manifest     *)
(* (services/plan_activation.py): an activation dossier with its review    *)
(* evidence, and a plan-generation authorization bound to that dossier.    *)
(*                                                                         *)
(* A handler reads its row, decides, and writes under a compare-and-swap   *)
(* on the row's revision, so its read and its write are two steps and      *)
(* other handlers may commit in between.  Creation is one step: a partial  *)
(* unique index admits one active row.                                     *)
(*                                                                         *)
(* A new row is created only when the one before it is closed, and closed  *)
(* rows are never read again, so each table is its newest row.             *)
(***************************************************************************)
EXTENDS Integers, Sequences, FiniteSets

CONSTANTS
    Clients,       \* concurrent API requests
    MaxDossiers,   \* bound on dossier revisions
    MaxVersions    \* bound on authorization versions

ASSUME ActivationBounds == MaxDossiers \in Nat \ {0} /\ MaxVersions \in Nat \ {0}

VARIABLES
    dossier,   \* the newest RealLabActivationDossier row
    authz,     \* the newest RealPlanGenerationAuthorization row
    call       \* per client: what its handler has read

activationVars == <<dossier, authz, call>>

Dossiers == 1..MaxDossiers
Versions == 1..MaxVersions
ActiveStatus == {"draft", "approved"}
RowStatus == ActiveStatus \union {"revoked"}   \* "expired" is written with its successor
Verbs == {"approve", "revoke", "evidence"}

\* no is the dossier_revision or authorization_version; of is the dossier an
\* authorization is bound to; due says that authorization_expiry has passed.
NewDossier(n) == [no |-> n, status |-> "draft", revision |-> 0, complete |-> FALSE,
                  due |-> FALSE]
NewAuthz(n, d) == [no |-> n, status |-> "draft", revision |-> 0, of |-> d, due |-> FALSE]
NoCall == [verb |-> "none", table |-> "none", no |-> 0, revision |-> 0]

ActivationTypeOK ==
    /\ dossier \in [no : 0..MaxDossiers, status : RowStatus, revision : 0..2,
                    complete : BOOLEAN, due : BOOLEAN]
    /\ authz \in [no : 0..MaxVersions, status : RowStatus, revision : 0..2,
                  of : 0..MaxDossiers, due : BOOLEAN]
    /\ call \in [Clients -> {NoCall} \union
                            [verb : Verbs, table : {"dossier", "authz"},
                             no : Nat, revision : 0..2]]

\* Nothing exists yet: number 0 stands for a row that is closed.
ActivationInit ==
    /\ dossier = [NewDossier(0) EXCEPT !.status = "revoked"]
    /\ authz = [NewAuthz(0, 0) EXCEPT !.status = "revoked"]
    /\ call = [c \in Clients |-> NoCall]

-----------------------------------------------------------------------------
(* What the handlers and the worker read.                                  *)

Active(row) == row.status \in ActiveStatus
Usable(row) == row.status = "approved" /\ ~row.due

\* plan_generation_readiness_status, with the upstream facts (preflight,
\* attestation, credentials, readiness records) taken to be current: a refusal
\* for their sake is a step of its own in the worker.
Ready == /\ Usable(dossier) /\ dossier.complete
         /\ Usable(authz) /\ authz.of = dossier.no

\* The status a row has once _expire_active_dossier_if_due or its counterpart for
\* authorizations has looked at it: only then may a successor be created.
Superseded(row) == Active(row) => row.due

-----------------------------------------------------------------------------
(* Creation.                                                               *)

\* create_activation_dossier.
CreateDossier ==
    /\ dossier.no < MaxDossiers
    /\ Superseded(dossier)
    /\ dossier' = NewDossier(dossier.no + 1)
    /\ UNCHANGED <<authz, call>>

\* create_plan_generation_authorization and _resolve_authz_facts.
CreateAuthz ==
    /\ authz.no < MaxVersions
    /\ Superseded(authz)
    /\ Usable(dossier)
    /\ authz' = NewAuthz(authz.no + 1, dossier.no)
    /\ UNCHANGED <<dossier, call>>

-----------------------------------------------------------------------------
(* The handlers that change a row: read and decide, then write.            *)

Begin(c, verb, table, row) ==
    /\ call[c] = NoCall
    /\ call' = [call EXCEPT ![c] = [verb |-> verb, table |-> table, no |-> row.no,
                                    revision |-> row.revision]]
    /\ UNCHANGED <<dossier, authz>>

\* record_dossier_evidence: the dossier is a draft.
BeginEvidence(c) ==
    /\ dossier.status = "draft"
    /\ Begin(c, "evidence", "dossier", dossier)

\* approve_activation_dossier: a draft, not due, with complete evidence.  (When
\* it is due the handler marks it expired and then raises, and the request's
\* transaction is rolled back with the mark.)
BeginApproveDossier(c) ==
    /\ dossier.status = "draft" /\ ~dossier.due /\ dossier.complete
    /\ Begin(c, "approve", "dossier", dossier)

BeginRevokeAnyDossier(c) == Begin(c, "revoke", "dossier", dossier)

\* revoke_activation_dossier.
BeginRevokeDossier(c) ==
    /\ Active(dossier)
    /\ Begin(c, "revoke", "dossier", dossier)

\* approve_plan_generation_authorization.
BeginApproveAuthz(c) ==
    /\ authz.status = "draft" /\ ~authz.due
    /\ Begin(c, "approve", "authz", authz)

\* revoke_plan_generation_authorization.
BeginRevokeAuthz(c) ==
    /\ Active(authz)
    /\ Begin(c, "revoke", "authz", authz)

SwapWithoutRevision(row, k) ==
    IF row.no = k.no
    THEN [row EXCEPT !.status = IF k.verb = "approve" THEN "approved" ELSE "revoked",
                     !.revision = @ + 1]
    ELSE row

\* _dossier_cas and _authz_cas: an update that no longer finds the revision the
\* handler read changes nothing (lifecycle_conflict).
Swap(row, k) ==
    IF row.no = k.no /\ row.revision = k.revision
    THEN [row EXCEPT !.status = IF k.verb = "approve" THEN "approved" ELSE "revoked",
                     !.revision = @ + 1]
    ELSE row

\* The write of an approval or a revocation.
Decide(c) ==
    LET k == call[c] IN
    /\ k.verb \in {"approve", "revoke"}
    /\ call' = [call EXCEPT ![c] = NoCall]
    /\ dossier' = IF k.table = "dossier" THEN Swap(dossier, k) ELSE dossier
    /\ authz' = IF k.table = "authz" THEN Swap(authz, k) ELSE authz

\* The write of an evidence item: it leaves the evidence set complete or not and
\* the dossier's revision alone; the draft-only guard refuses it once the
\* dossier has left draft.
WriteEvidence(c, full) ==
    LET k == call[c] IN
    /\ k.verb = "evidence"
    /\ call' = [call EXCEPT ![c] = NoCall]
    /\ dossier' = [dossier EXCEPT !.complete =
                      IF dossier.no = k.no /\ dossier.status = "draft" THEN full ELSE @]
    /\ UNCHANGED authz

-----------------------------------------------------------------------------
\* authorization_expiry passes: nothing is written until somebody looks.
DossierDue ==
    /\ Active(dossier) /\ ~dossier.due
    /\ dossier' = [dossier EXCEPT !.due = TRUE]
    /\ UNCHANGED <<authz, call>>

AuthzDue ==
    /\ Active(authz) /\ ~authz.due
    /\ authz' = [authz EXCEPT !.due = TRUE]
    /\ UNCHANGED <<dossier, call>>

Activation ==
    \/ CreateDossier \/ DossierDue
    \/ CreateAuthz \/ AuthzDue
    \/ \E c \in Clients :
        \/ BeginEvidence(c) \/ BeginApproveDossier(c) \/ BeginRevokeDossier(c)
        \/ BeginApproveAuthz(c) \/ BeginRevokeAuthz(c)
        \/ Decide(c)
        \/ \E full \in BOOLEAN : WriteEvidence(c, full)
=============================================================================
