----------------------------- MODULE PlanProofs -----------------------------
(***************************************************************************)
(* Proofs about real plan generation, for any number of requests, workers, *)
(* dossiers and authorization versions.                                    *)
(*                                                                         *)
(* The decisions rest on what a handler's read still says when it writes:  *)
(* a row whose revision has not moved still has the status the handler saw.*)
(* The lease rests on the wait for the unique index.                       *)
(***************************************************************************)
EXTENDS PlanGeneration, SequenceTheorems, FiniteSetTheorems, TLAPS

DossierRow == [no : 0..MaxDossiers, status : RowStatus, revision : 0..2,
               complete : BOOLEAN, due : BOOLEAN]
AuthzRow == [no : 0..MaxVersions, status : RowStatus, revision : 0..2,
             of : 0..MaxDossiers, due : BOOLEAN]
Call == [verb : Verbs, table : {"dossier", "authz"}, no : Nat, revision : 0..2]
LeaseRow == [fp : Dossiers, status : LeaseStatus]
Work == [at : Steps, ver : Versions, fp : Dossiers, epoch : Nat,
         stale : (0..MaxVersions) \X Nat]

\* The revision counts the decisions, and only a row that was created is open.
Counted(row) ==
    /\ row.status = "draft" => row.revision = 0
    /\ row.status = "approved" => row.revision = 1
    /\ row.status \in ActiveStatus => row.no # 0

\* What a handler has read is not newer than the row, and while the revision is
\* the same the row still allows what the handler has decided.
ReadBehind(k, row) ==
    /\ k.no <= row.no
    /\ k.no = row.no => k.revision <= row.revision
    /\ k.no = row.no /\ k.revision = row.revision =>
          /\ k.verb = "approve" => row.status = "draft"
          /\ k.verb = "revoke" => row.status \in ActiveStatus

DecisionInv ==
    /\ dossier \in DossierRow /\ Counted(dossier)
    /\ authz \in AuthzRow /\ Counted(authz)
    /\ call \in [Clients -> {NoCall} \union Call]
    /\ \A c \in Clients :
          /\ call[c].table = "dossier" => ReadBehind(call[c], dossier)
          /\ call[c].table = "authz" => ReadBehind(call[c], authz)

WorkInv ==
    /\ leases \in [Versions -> Seq(LeaseRow)]
    /\ results \subseteq Versions
    /\ work \in [Workers -> {NoWork} \union Work]

\* The row a worker is to expire is a committed one and not a consumed one.
StaleRow(rows, row) ==
    row # NoRow => /\ row[1] \in Versions
                   /\ row[2] \in 1..Len(rows[row[1]])
                   /\ rows[row[1]][row[2]].status # "consumed"

StaleInv == \A w \in Workers : work[w] \in Work => StaleRow(leases, work[w].stale)

ConsumedRows(rows) == {i \in DOMAIN rows : rows[i].status = "consumed"}

ConsumedInv ==
    \A v \in Versions : /\ v \in results => \E i : ConsumedRows(leases[v]) = {i}
                        /\ v \notin results => ConsumedRows(leases[v]) = {}

PlanInv == WorkInv /\ StaleInv /\ ConsumedInv /\ OneProcess

\* Leases that follow the present ones: none is taken away, none becomes consumed
\* and none stops being consumed.
Follows(new) ==
    /\ new \in [Versions -> Seq(LeaseRow)]
    /\ \A v \in Versions :
          /\ Len(new[v]) >= Len(leases[v])
          /\ \A i \in 1..Len(leases[v]) :
                new[v][i].status = "consumed" <=> leases[v][i].status = "consumed"

-----------------------------------------------------------------------------
\* The decisions.

LEMMA DecisionInit == Init => DecisionInv
<1> SUFFICES ASSUME Init PROVE DecisionInv
    OBVIOUS
<1>1. dossier \in DossierRow /\ Counted(dossier)
  <2>1. dossier = [no |-> 0, status |-> "revoked", revision |-> 0, complete |-> FALSE,
                   due |-> FALSE]
      BY DEF Init, ActivationInit, NewDossier
  <2>2. dossier \in DossierRow
      BY <2>1, ActivationBounds DEF DossierRow, RowStatus
  <2> QED
      BY <2>1, <2>2 DEF Counted, ActiveStatus
<1>2. authz \in AuthzRow /\ Counted(authz)
  <2>1. authz = [no |-> 0, status |-> "revoked", revision |-> 0, of |-> 0, due |-> FALSE]
      BY DEF Init, ActivationInit, NewAuthz
  <2>2. authz \in AuthzRow
      BY <2>1, ActivationBounds DEF AuthzRow, RowStatus
  <2> QED
      BY <2>1, <2>2 DEF Counted, ActiveStatus
<1>3. call = [c \in Clients |-> NoCall] /\ NoCall.table = "none"
    BY DEF Init, ActivationInit, NoCall
<1> QED
    BY <1>1, <1>2, <1>3 DEF DecisionInv

\* A decision leaves a row of its type.
LEMMA RowUpdated ==
    ASSUME NEW s \in RowStatus, NEW n \in 0..2
    PROVE  /\ \A row \in DossierRow : [row EXCEPT !.status = s, !.revision = n] \in DossierRow
           /\ \A row \in AuthzRow : [row EXCEPT !.status = s, !.revision = n] \in AuthzRow
<1>1. \A row \in DossierRow : [row EXCEPT !.status = s, !.revision = n] \in DossierRow
    BY Zenon DEF DossierRow
<1>2. \A row \in AuthzRow : [row EXCEPT !.status = s, !.revision = n] \in AuthzRow
    BY Zenon DEF AuthzRow
<1> QED
    BY <1>1, <1>2

\* _dossier_cas and _authz_cas keep a row well formed, along a known edge.
LEMMA SwapSound ==
    ASSUME NEW row, NEW k \in Call, k.verb \in {"approve", "revoke"},
           row \in DossierRow \/ row \in AuthzRow,
           Counted(row), ReadBehind(k, row)
    PROVE  /\ row \in DossierRow => Swap(row, k) \in DossierRow
           /\ row \in AuthzRow => Swap(row, k) \in AuthzRow
           /\ Counted(Swap(row, k))
           /\ Swap(row, k).no = row.no
           /\ Swap(row, k) # row => Swap(row, k).revision = row.revision + 1
           /\ Swap(row, k).status # row.status
                => <<row.status, Swap(row, k).status>> \in Transitions
<1> DEFINE new(s) == [row EXCEPT !.status = s, !.revision = row.revision + 1]
<1>1. row.revision \in 0..2 /\ row.no \in Nat
    BY ActivationBounds DEF DossierRow, AuthzRow
<1>2. \A s : new(s).status = s /\ new(s).revision = row.revision + 1 /\ new(s).no = row.no
  <2>1. CASE row \in DossierRow
      BY <2>1 DEF DossierRow
  <2>2. CASE row \in AuthzRow
      BY <2>2 DEF AuthzRow
  <2> QED
      BY <2>1, <2>2
<1>3. \A s \in RowStatus : row.revision \in {0, 1} =>
          (row \in DossierRow => new(s) \in DossierRow) /\ (row \in AuthzRow => new(s) \in AuthzRow)
  <2> SUFFICES ASSUME NEW s \in RowStatus, row.revision \in {0, 1}
               PROVE  /\ row \in DossierRow => new(s) \in DossierRow
                      /\ row \in AuthzRow => new(s) \in AuthzRow
      OBVIOUS
  <2>1. row.revision + 1 \in 0..2
      OBVIOUS
  <2> QED
      BY <2>1, RowUpdated, Zenon
<1> HIDE DEF new
<1>4. CASE ~(row.no = k.no /\ row.revision = k.revision)
    BY <1>4 DEF Swap
<1>5. CASE row.no = k.no /\ row.revision = k.revision /\ k.verb = "approve"
  <2>1. Swap(row, k) = new("approved")
      BY <1>5 DEF Swap, new
  <2>2. row.status = "draft" /\ row.revision = 0 /\ row.no # 0
      BY <1>5 DEF ReadBehind, Counted, ActiveStatus
  <2> QED
      BY <1>1, <1>2, <1>3, <2>1, <2>2 DEF Counted, ActiveStatus, RowStatus, Transitions
<1>6. CASE row.no = k.no /\ row.revision = k.revision /\ k.verb = "revoke"
  <2>1. Swap(row, k) = new("revoked")
      BY <1>6 DEF Swap, new
  <2>2. row.status \in {"draft", "approved"} /\ row.revision \in {0, 1}
      BY <1>6 DEF ReadBehind, Counted, ActiveStatus
  <2> QED
      BY <1>1, <1>2, <1>3, <2>1, <2>2 DEF Counted, ActiveStatus, RowStatus, Transitions
<1> QED
    BY <1>4, <1>5, <1>6

\* Another handler's read stays behind the row that a swap has moved.
LEMMA SwapLeavesBehind ==
    ASSUME NEW row, NEW k \in Call, NEW j \in Call,
           row \in DossierRow \/ row \in AuthzRow,
           Swap(row, k).no = row.no,
           Swap(row, k) # row => Swap(row, k).revision = row.revision + 1,
           ReadBehind(j, row)
    PROVE  ReadBehind(j, Swap(row, k))
<1>1. CASE Swap(row, k) = row
    BY <1>1
<1>2. CASE Swap(row, k) # row
    BY <1>2 DEF ReadBehind, DossierRow, AuthzRow, Call
<1> QED
    BY <1>1, <1>2

\* What a Begin reads of a row is not newer than the row.
LEMMA BeginSound ==
    ASSUME DecisionInv, NEW c \in Clients, NEW verb \in Verbs, NEW row,
           NEW table \in {"dossier", "authz"},
           table = "dossier" => row = dossier, table = "authz" => row = authz,
           verb = "approve" => row.status = "draft",
           verb = "revoke" => row.status \in ActiveStatus,
           Begin(c, verb, table, row)
    PROVE  DecisionInv' /\ dossier' = dossier /\ authz' = authz
<1> DEFINE k == [verb |-> verb, table |-> table, no |-> row.no, revision |-> row.revision]
<1>1. dossier' = dossier /\ authz' = authz /\ call' = [call EXCEPT ![c] = k]
    BY DEF Begin
<1>2. row.no \in Nat /\ row.revision \in 0..2
    BY ActivationBounds DEF DecisionInv, DossierRow, AuthzRow
<1>3. k \in Call
    BY <1>2 DEF Call
<1>4. ReadBehind(k, row)
    BY <1>2 DEF ReadBehind
<1>5. k.table = table
    OBVIOUS
<1> HIDE DEF k
<1>6. call' \in [Clients -> {NoCall} \union Call]
    BY <1>1, <1>3 DEF DecisionInv
<1>7. \A d \in Clients : call'[d] = IF d = c THEN k ELSE call[d]
    BY <1>1 DEF DecisionInv
<1>8. \A d \in Clients : /\ call'[d].table = "dossier" => ReadBehind(call'[d], dossier)
                         /\ call'[d].table = "authz" => ReadBehind(call'[d], authz)
    BY <1>4, <1>5, <1>7 DEF DecisionInv
<1> QED
    BY <1>1, <1>6, <1>8 DEF DecisionInv

\* A row is replaced by its successor, or moved along, and no handler reads ahead.
LEMMA RowReplaced ==
    ASSUME DecisionInv, call' = call,
           dossier' \in DossierRow, Counted(dossier)',
           authz' \in AuthzRow, Counted(authz)',
           \A k \in Call : ReadBehind(k, dossier) => ReadBehind(k, dossier'),
           \A k \in Call : ReadBehind(k, authz) => ReadBehind(k, authz')
    PROVE  DecisionInv'
<1>1. \A c \in Clients : call[c] = NoCall \/ call[c] \in Call
    BY DEF DecisionInv
<1>2. NoCall.table = "none"
    BY DEF NoCall
<1> QED
    BY <1>1, <1>2 DEF DecisionInv

\* The step DecisionsStand allows.
KnownEdge(old, new) ==
    new.no = old.no /\ new.status # old.status => <<old.status, new.status>> \in Transitions

StandsStep == KnownEdge(dossier, dossier') /\ KnownEdge(authz, authz')

LEMMA CreateDossierSound ==
    ASSUME DecisionInv, CreateDossier PROVE DecisionInv' /\ StandsStep
<1>1. dossier' = [no |-> dossier.no + 1, status |-> "draft", revision |-> 0, complete |-> FALSE,
                  due |-> FALSE]
    BY DEF CreateDossier, NewDossier
<1>2. authz' = authz /\ call' = call /\ dossier.no < MaxDossiers
    BY DEF CreateDossier
<1>3. dossier.no \in 0..MaxDossiers
    BY DEF DecisionInv, DossierRow
<1>4. dossier' \in DossierRow
    BY <1>1, <1>2, <1>3, ActivationBounds DEF DossierRow, RowStatus, ActiveStatus
<1>5. Counted(dossier)'
    BY <1>1, <1>3, ActivationBounds DEF Counted, ActiveStatus
<1>6. \A k \in Call : ReadBehind(k, dossier) => ReadBehind(k, dossier')
    BY <1>1, <1>3, ActivationBounds DEF ReadBehind, Call
<1>7. authz' \in AuthzRow /\ Counted(authz)'
    BY <1>2 DEF DecisionInv
<1>8. DecisionInv'
    BY <1>2, <1>4, <1>5, <1>6, <1>7, RowReplaced
<1>9. StandsStep
    BY <1>1, <1>2, <1>3, ActivationBounds DEF StandsStep, KnownEdge
<1> QED
    BY <1>8, <1>9

LEMMA CreateAuthzSound ==
    ASSUME DecisionInv, CreateAuthz PROVE DecisionInv' /\ StandsStep
<1>1. authz' = [no |-> authz.no + 1, status |-> "draft", revision |-> 0, of |-> dossier.no,
                due |-> FALSE]
    BY DEF CreateAuthz, NewAuthz
<1>2. dossier' = dossier /\ call' = call /\ authz.no < MaxVersions
    BY DEF CreateAuthz
<1>3. authz.no \in 0..MaxVersions /\ dossier.no \in 0..MaxDossiers
    BY DEF DecisionInv, AuthzRow, DossierRow
<1>4. authz' \in AuthzRow
    BY <1>1, <1>2, <1>3, ActivationBounds DEF AuthzRow, RowStatus, ActiveStatus
<1>5. Counted(authz)'
    BY <1>1, <1>3, ActivationBounds DEF Counted, ActiveStatus
<1>6. \A k \in Call : ReadBehind(k, authz) => ReadBehind(k, authz')
    BY <1>1, <1>3, ActivationBounds DEF ReadBehind, Call
<1>7. dossier' \in DossierRow /\ Counted(dossier)'
    BY <1>2 DEF DecisionInv
<1>8. DecisionInv'
    BY <1>2, <1>4, <1>5, <1>6, <1>7, RowReplaced
<1>9. StandsStep
    BY <1>1, <1>2, <1>3, ActivationBounds DEF StandsStep, KnownEdge
<1> QED
    BY <1>8, <1>9

\* Only the clock or the evidence of a row moves.
LEMMA RowDue ==
    /\ \A row \in DossierRow : [row EXCEPT !.due = TRUE] \in DossierRow
    /\ \A row \in AuthzRow : [row EXCEPT !.due = TRUE] \in AuthzRow
    /\ \A row \in DossierRow : \A b \in BOOLEAN : [row EXCEPT !.complete = b] \in DossierRow
<1>0. TRUE \in BOOLEAN
    OBVIOUS
<1>1. \A row \in DossierRow : [row EXCEPT !.due = TRUE] \in DossierRow
    BY <1>0, Zenon DEF DossierRow
<1>2. \A row \in AuthzRow : [row EXCEPT !.due = TRUE] \in AuthzRow
    BY <1>0, Zenon DEF AuthzRow
<1>3. \A row \in DossierRow : \A b \in BOOLEAN : [row EXCEPT !.complete = b] \in DossierRow
    BY Zenon DEF DossierRow
<1> QED
    BY <1>1, <1>2, <1>3

LEMMA SameDecision ==
    ASSUME NEW old, NEW new, new.no = old.no, new.status = old.status,
           new.revision = old.revision
    PROVE  /\ Counted(old) => Counted(new)
           /\ \A k \in Call : ReadBehind(k, old) => ReadBehind(k, new)
           /\ KnownEdge(old, new)
    BY DEF Counted, ReadBehind, KnownEdge

LEMMA DueSound ==
    ASSUME DecisionInv, DossierDue \/ AuthzDue PROVE DecisionInv' /\ StandsStep
<1>1. CASE DossierDue
  <2>1. dossier' = [dossier EXCEPT !.due = TRUE] /\ authz' = authz /\ call' = call
      BY <1>1 DEF DossierDue
  <2>2. dossier' \in DossierRow
      BY <2>1, RowDue DEF DecisionInv
  <2>3. dossier'.no = dossier.no /\ dossier'.status = dossier.status
            /\ dossier'.revision = dossier.revision
      BY <2>1 DEF DecisionInv, DossierRow
  <2>4. authz'.no = authz.no /\ authz'.status = authz.status /\ authz'.revision = authz.revision
      BY <2>1
  <2>5. /\ Counted(dossier) => Counted(dossier')
        /\ \A k \in Call : ReadBehind(k, dossier) => ReadBehind(k, dossier')
        /\ KnownEdge(dossier, dossier')
      BY <2>3, SameDecision
  <2>6. KnownEdge(authz, authz')
      BY <2>4, SameDecision
  <2>7. DecisionInv'
      BY <2>1, <2>2, <2>5, RowReplaced DEF DecisionInv
  <2> QED
      BY <2>5, <2>6, <2>7 DEF StandsStep
<1>2. CASE AuthzDue
  <2>1. authz' = [authz EXCEPT !.due = TRUE] /\ dossier' = dossier /\ call' = call
      BY <1>2 DEF AuthzDue
  <2>2. authz' \in AuthzRow
      BY <2>1, RowDue DEF DecisionInv
  <2>3. authz'.no = authz.no /\ authz'.status = authz.status /\ authz'.revision = authz.revision
      BY <2>1 DEF DecisionInv, AuthzRow
  <2>4. dossier'.no = dossier.no /\ dossier'.status = dossier.status
            /\ dossier'.revision = dossier.revision
      BY <2>1
  <2>5. /\ Counted(authz) => Counted(authz')
        /\ \A k \in Call : ReadBehind(k, authz) => ReadBehind(k, authz')
        /\ KnownEdge(authz, authz')
      BY <2>3, SameDecision
  <2>6. KnownEdge(dossier, dossier')
      BY <2>4, SameDecision
  <2>7. DecisionInv'
      BY <2>1, <2>2, <2>5, RowReplaced DEF DecisionInv
  <2> QED
      BY <2>5, <2>6, <2>7 DEF StandsStep
<1> QED
    BY <1>1, <1>2

\* A handler that is done has read nothing, and the others read what they read.
LEMMA CallEnds ==
    ASSUME DecisionInv, NEW c \in Clients, call' = [call EXCEPT ![c] = NoCall],
           dossier' \in DossierRow, Counted(dossier'),
           authz' \in AuthzRow, Counted(authz'),
           \A k \in Call : ReadBehind(k, dossier) => ReadBehind(k, dossier'),
           \A k \in Call : ReadBehind(k, authz) => ReadBehind(k, authz')
    PROVE  DecisionInv'
<1>1. call' \in [Clients -> {NoCall} \union Call]
    BY DEF DecisionInv
<1>2. \A d \in Clients : call'[d] = IF d = c THEN NoCall ELSE call[d]
    BY DEF DecisionInv
<1>3. NoCall.table = "none"
    BY DEF NoCall
<1>4. \A d \in Clients : call[d] = NoCall \/ call[d] \in Call
    BY DEF DecisionInv
<1>5. \A d \in Clients : /\ call'[d].table = "dossier" => ReadBehind(call'[d], dossier')
                         /\ call'[d].table = "authz" => ReadBehind(call'[d], authz')
    BY <1>2, <1>3, <1>4 DEF DecisionInv
<1> QED
    BY <1>1, <1>5 DEF DecisionInv

LEMMA DecideSound ==
    ASSUME DecisionInv, NEW c \in Clients, Decide(c) PROVE DecisionInv' /\ StandsStep
<1> DEFINE k == call[c]
<1>1. k \in Call /\ k.verb \in {"approve", "revoke"}
    BY DEF Decide, DecisionInv, NoCall
<1>2. call' = [call EXCEPT ![c] = NoCall]
    BY DEF Decide
<1>3. CASE k.table = "dossier"
  <2>1. dossier' = Swap(dossier, k) /\ authz' = authz
      BY <1>3 DEF Decide
  <2>2. dossier \in DossierRow /\ Counted(dossier) /\ ReadBehind(k, dossier)
      BY <1>3 DEF DecisionInv
  <2> HIDE DEF k
  <2>3. /\ dossier' \in DossierRow /\ Counted(dossier')
        /\ dossier'.no = dossier.no
        /\ dossier' # dossier => dossier'.revision = dossier.revision + 1
        /\ dossier'.status # dossier.status
              => <<dossier.status, dossier'.status>> \in Transitions
      BY <1>1, <2>1, <2>2, SwapSound
  <2>4. \A j \in Call : ReadBehind(j, dossier) => ReadBehind(j, dossier')
      BY <1>1, <2>1, <2>2, <2>3, SwapLeavesBehind
  <2>5. authz' \in AuthzRow /\ Counted(authz')
      BY <2>1 DEF DecisionInv
  <2>6. \A j \in Call : ReadBehind(j, authz) => ReadBehind(j, authz')
      BY <2>1
  <2>7. DecisionInv'
      BY <1>2, <2>3, <2>4, <2>5, <2>6, CallEnds
  <2> QED
      BY <2>1, <2>3, <2>7 DEF StandsStep, KnownEdge
<1>4. CASE k.table = "authz"
  <2>1. authz' = Swap(authz, k) /\ dossier' = dossier
      BY <1>4 DEF Decide
  <2>2. authz \in AuthzRow /\ Counted(authz) /\ ReadBehind(k, authz)
      BY <1>4 DEF DecisionInv
  <2> HIDE DEF k
  <2>3. /\ authz' \in AuthzRow /\ Counted(authz')
        /\ authz'.no = authz.no
        /\ authz' # authz => authz'.revision = authz.revision + 1
        /\ authz'.status # authz.status
              => <<authz.status, authz'.status>> \in Transitions
      BY <1>1, <2>1, <2>2, SwapSound
  <2>4. \A j \in Call : ReadBehind(j, authz) => ReadBehind(j, authz')
      BY <1>1, <2>1, <2>2, <2>3, SwapLeavesBehind
  <2>5. dossier' \in DossierRow /\ Counted(dossier')
      BY <2>1 DEF DecisionInv
  <2>6. \A j \in Call : ReadBehind(j, dossier) => ReadBehind(j, dossier')
      BY <2>1
  <2>7. DecisionInv'
      BY <1>2, <2>3, <2>4, <2>5, <2>6, CallEnds
  <2> QED
      BY <2>1, <2>3, <2>7 DEF StandsStep, KnownEdge
<1> QED
    BY <1>1, <1>3, <1>4 DEF Call

LEMMA WriteEvidenceSound ==
    ASSUME DecisionInv, NEW c \in Clients, NEW full \in BOOLEAN, WriteEvidence(c, full)
    PROVE  DecisionInv' /\ StandsStep
<1>1. PICK b \in BOOLEAN : dossier' = [dossier EXCEPT !.complete = b]
  <2>1. dossier' = [dossier EXCEPT !.complete = full]
            \/ dossier' = [dossier EXCEPT !.complete = dossier.complete]
      BY DEF WriteEvidence
  <2>2. dossier.complete \in BOOLEAN
      BY Zenon DEF DecisionInv, DossierRow
  <2> QED
      BY <2>1, <2>2, Zenon
<1>2. authz' = authz /\ call' = [call EXCEPT ![c] = NoCall]
    BY DEF WriteEvidence
<1>3. dossier' \in DossierRow
    BY <1>1, RowDue DEF DecisionInv
<1>4. dossier'.no = dossier.no /\ dossier'.status = dossier.status
          /\ dossier'.revision = dossier.revision
    BY <1>1 DEF DecisionInv, DossierRow
<1>5. /\ Counted(dossier) => Counted(dossier')
      /\ \A k \in Call : ReadBehind(k, dossier) => ReadBehind(k, dossier')
      /\ KnownEdge(dossier, dossier')
    BY <1>4, SameDecision
<1>6. KnownEdge(authz, authz')
    BY <1>2 DEF KnownEdge
<1>7. DecisionInv'
    BY <1>2, <1>3, <1>5, CallEnds DEF DecisionInv
<1> QED
    BY <1>5, <1>6, <1>7 DEF StandsStep

LEMMA ActivationSound ==
    ASSUME DecisionInv, Activation PROVE DecisionInv' /\ StandsStep
<1>1. CASE CreateDossier \/ CreateAuthz
    BY <1>1, CreateDossierSound, CreateAuthzSound
<1>2. CASE DossierDue \/ AuthzDue
    BY <1>2, DueSound
<1>3. ASSUME NEW c \in Clients,
             \/ BeginEvidence(c) \/ BeginApproveDossier(c) \/ BeginRevokeDossier(c)
             \/ BeginApproveAuthz(c) \/ BeginRevokeAuthz(c)
      PROVE  DecisionInv' /\ StandsStep
  <2>1. CASE BeginEvidence(c)
      BY <2>1, BeginSound DEF BeginEvidence, Verbs, StandsStep, KnownEdge
  <2>2. CASE BeginApproveDossier(c)
      BY <2>2, BeginSound DEF BeginApproveDossier, Verbs, StandsStep, KnownEdge
  <2>3. CASE BeginRevokeDossier(c)
      BY <2>3, BeginSound DEF BeginRevokeDossier, Active, Verbs, StandsStep, KnownEdge
  <2>4. CASE BeginApproveAuthz(c)
      BY <2>4, BeginSound DEF BeginApproveAuthz, Verbs, StandsStep, KnownEdge
  <2>5. CASE BeginRevokeAuthz(c)
      BY <2>5, BeginSound DEF BeginRevokeAuthz, Active, Verbs, StandsStep, KnownEdge
  <2> QED
      BY <1>3, <2>1, <2>2, <2>3, <2>4, <2>5
<1>4. ASSUME NEW c \in Clients, Decide(c) PROVE DecisionInv' /\ StandsStep
    BY <1>4, DecideSound
<1>5. ASSUME NEW c \in Clients, NEW full \in BOOLEAN, WriteEvidence(c, full)
      PROVE  DecisionInv' /\ StandsStep
    BY <1>5, WriteEvidenceSound
<1> QED
    BY <1>1, <1>2, <1>3, <1>4, <1>5 DEF Activation

-----------------------------------------------------------------------------
\* The worker.

LEMMA PlanInit == Init => PlanInv
<1> SUFFICES ASSUME Init PROVE PlanInv
    OBVIOUS
<1>1. leases = [v \in Versions |-> << >>] /\ results = {} /\ work = [w \in Workers |-> NoWork]
    BY DEF Init
<1>2. << >> \in Seq(LeaseRow) /\ DOMAIN << >> = {}
    OBVIOUS
<1>3. WorkInv
    BY <1>1, <1>2 DEF WorkInv
<1>4. StaleInv
    BY <1>1 DEF StaleInv, Work, NoWork
<1>5. ConsumedInv
    BY <1>1, <1>2 DEF ConsumedInv, ConsumedRows
<1>6. OneProcess
    BY <1>1 DEF OneProcess, Holds, NoWork
<1> QED
    BY <1>3, <1>4, <1>5, <1>6 DEF PlanInv

LEMMA FollowsItself == WorkInv => Follows(leases)
    BY LenProperties DEF WorkInv, Follows

\* What every move of a worker keeps, whatever it does to the leases.
LEMMA WorkerMoves ==
    ASSUME PlanInv, NEW w \in Workers, NEW rec \in {NoWork} \union Work,
           work' = [work EXCEPT ![w] = rec],
           Follows(leases'), results' \subseteq Versions,
           rec \in Work => StaleRow(leases, rec.stale),
           rec.at = "running" => /\ rec.fp = work[w].fp
                                 /\ \A x \in Workers \ {w} : Holds(x) => work[x].fp # work[w].fp
    PROVE  (WorkInv /\ StaleInv /\ OneProcess)'
<1>1. \A x \in Workers : work'[x] = IF x = w THEN rec ELSE work[x]
    BY DEF PlanInv, WorkInv
<1>2. WorkInv'
    BY DEF PlanInv, WorkInv, Follows
<1>3. \A r \in (0..MaxVersions) \X Nat : StaleRow(leases, r) => StaleRow(leases', r)
  <2> SUFFICES ASSUME NEW r \in (0..MaxVersions) \X Nat, StaleRow(leases, r), r # NoRow
               PROVE  /\ r[1] \in Versions
                      /\ r[2] \in 1..Len(leases'[r[1]])
                      /\ leases'[r[1]][r[2]].status # "consumed"
      BY DEF StaleRow
  <2>1. r[1] \in Versions /\ r[2] \in 1..Len(leases[r[1]])
            /\ leases[r[1]][r[2]].status # "consumed"
      BY DEF StaleRow
  <2>2. Len(leases'[r[1]]) \in Nat /\ Len(leases[r[1]]) \in Nat
      BY <2>1, LenProperties DEF Follows, PlanInv, WorkInv
  <2> QED
      BY <2>1, <2>2 DEF Follows
<1>4. StaleInv'
  <2> SUFFICES ASSUME NEW x \in Workers, work'[x] \in Work PROVE StaleRow(leases', work'[x].stale)
      BY DEF StaleInv
  <2>1. StaleRow(leases, work'[x].stale)
      BY <1>1 DEF PlanInv, StaleInv
  <2>2. work'[x].stale \in (0..MaxVersions) \X Nat
      BY DEF Work
  <2> QED
      BY <1>3, <2>1, <2>2
<1>5. OneProcess'
    BY <1>1 DEF OneProcess, Holds, PlanInv
<1> QED
    BY <1>2, <1>4, <1>5

\* A move that changes no lease.
LEMMA LeasesAlone ==
    ASSUME PlanInv, NEW w \in Workers, NEW rec \in {NoWork} \union Work,
           work' = [work EXCEPT ![w] = rec], leases' = leases, results' = results,
           rec \in Work => StaleRow(leases, rec.stale),
           rec.at = "running" => /\ rec.fp = work[w].fp
                                 /\ \A x \in Workers \ {w} : Holds(x) => work[x].fp # work[w].fp
    PROVE  PlanInv'
<1>1. Follows(leases') /\ results' \subseteq Versions
    BY FollowsItself DEF PlanInv, WorkInv
<1>2. (WorkInv /\ StaleInv /\ OneProcess)'
    BY <1>1, WorkerMoves
<1>3. ConsumedInv'
    BY DEF PlanInv, ConsumedInv, ConsumedRows
<1> QED
    BY <1>2, <1>3 DEF PlanInv

\* Expiring the stale lease consumes nothing and keeps every row.
LEMMA KeptSound ==
    ASSUME WorkInv, StaleInv, NEW w \in Workers, work[w] \in Work
    PROVE  /\ Follows(Kept(w))
           /\ \A v \in Versions : Len(Kept(w)[v]) = Len(leases[v])
<1> DEFINE gone == Lease(work[w].fp, "expired")
           row(v, i) == IF <<v, i>> = work[w].stale THEN gone ELSE leases[v][i]
           kept(v) == [i \in 1..Len(leases[v]) |-> row(v, i)]
<1>1. gone \in LeaseRow /\ gone.status = "expired"
    BY DEF Lease, LeaseRow, LeaseStatus, Work
<1> HIDE DEF gone
<1>2. \A v \in Versions : /\ leases[v] \in Seq(LeaseRow)
                          /\ Len(leases[v]) \in Nat
                          /\ DOMAIN leases[v] = 1..Len(leases[v])
    BY LenProperties DEF WorkInv
<1>3. \A v \in Versions : \A i \in 1..Len(leases[v]) :
          /\ row(v, i) \in LeaseRow
          /\ row(v, i).status = "consumed" <=> leases[v][i].status = "consumed"
  <2> SUFFICES ASSUME NEW v \in Versions, NEW i \in 1..Len(leases[v])
               PROVE  /\ row(v, i) \in LeaseRow
                      /\ row(v, i).status = "consumed" <=> leases[v][i].status = "consumed"
      OBVIOUS
  <2>1. leases[v][i] \in LeaseRow
      BY <1>2, ElementOfSeq
  <2>2. <<v, i>> = work[w].stale => leases[v][i].status # "consumed"
      BY <1>2 DEF StaleInv, StaleRow, NoRow, Versions
  <2> QED
      BY <1>1, <2>1, <2>2
<1>4. Kept(w) = [v \in Versions |-> kept(v)]
    BY <1>2 DEF Kept, gone
<1> HIDE DEF row
<1>5. \A v \in Versions : /\ kept(v) \in Seq(LeaseRow)
                          /\ Len(kept(v)) = Len(leases[v])
                          /\ \A i \in 1..Len(leases[v]) : kept(v)[i] = row(v, i)
  <2> SUFFICES ASSUME NEW v \in Versions
               PROVE  /\ kept(v) \in Seq(LeaseRow)
                      /\ Len(kept(v)) = Len(leases[v])
      OBVIOUS
  <2>1. kept(v) \in [1..Len(leases[v]) -> LeaseRow]
      BY <1>3
  <2> QED
      BY <1>2, <2>1
<1> HIDE DEF kept
<1> QED
    BY <1>2, <1>3, <1>4, <1>5 DEF Follows

\* One lease more, behind those a transaction keeps.
LEMMA LeasedSound ==
    ASSUME WorkInv, StaleInv, NEW w \in Workers, work[w] \in Work, NEW status \in LeaseStatus,
           Leased(w, status)
    PROVE  /\ Follows(leases')
           /\ \A v \in Versions \ {work[w].ver} : Len(leases'[v]) = Len(leases[v])
           /\ Len(leases'[work[w].ver]) = Len(leases[work[w].ver]) + 1
           /\ leases'[work[w].ver][Len(leases[work[w].ver]) + 1].status = status
<1> DEFINE own == Lease(work[w].fp, status)
           ver == work[w].ver
<1>1. own \in LeaseRow /\ own.status = status /\ ver \in Versions
    BY DEF Lease, LeaseRow, Work
<1>2. leases' = [Kept(w) EXCEPT ![ver] = Append(@, own)]
    BY DEF Leased
<1> HIDE DEF own, ver
<1>3. /\ Kept(w) \in [Versions -> Seq(LeaseRow)]
      /\ \A v \in Versions : Len(Kept(w)[v]) = Len(leases[v])
      /\ \A v \in Versions : \A i \in 1..Len(leases[v]) :
            Kept(w)[v][i].status = "consumed" <=> leases[v][i].status = "consumed"
    BY KeptSound DEF Follows
<1>4. \A v \in Versions : Len(leases[v]) \in Nat
    BY LenProperties DEF WorkInv
<1>5. \A v \in Versions : leases'[v] = IF v = ver THEN Append(Kept(w)[v], own) ELSE Kept(w)[v]
    BY <1>1, <1>2, <1>3
<1>6. LET s == Kept(w)[ver] IN
      /\ Append(s, own) \in Seq(LeaseRow)
      /\ Len(Append(s, own)) = Len(s) + 1
      /\ \A i \in 1..Len(s) : Append(s, own)[i] = s[i]
      /\ Append(s, own)[Len(s) + 1] = own
    BY <1>1, <1>3, AppendProperties
<1>7. leases' \in [Versions -> Seq(LeaseRow)]
    BY <1>1, <1>2, <1>3, <1>6
<1>8. Follows(leases')
  <2> SUFFICES ASSUME NEW v \in Versions
               PROVE  /\ Len(leases'[v]) >= Len(leases[v])
                      /\ \A i \in 1..Len(leases[v]) :
                            leases'[v][i].status = "consumed" <=> leases[v][i].status = "consumed"
      BY <1>7 DEF Follows
  <2>1. CASE v = ver
    <3>1. leases'[v] = Append(Kept(w)[v], own) /\ Len(Kept(w)[v]) = Len(leases[v])
        BY <1>3, <1>5, <2>1
    <3>2. Len(leases'[v]) = Len(leases[v]) + 1
              /\ \A i \in 1..Len(leases[v]) : leases'[v][i] = Kept(w)[v][i]
        BY <1>6, <2>1, <3>1
    <3> QED
        BY <1>3, <1>4, <3>2
  <2>2. CASE v # ver
      BY <1>3, <1>4, <1>5, <2>2
  <2> QED
      BY <2>1, <2>2
<1>9. /\ \A v \in Versions \ {ver} : Len(leases'[v]) = Len(leases[v])
      /\ Len(leases'[ver]) = Len(leases[ver]) + 1
      /\ leases'[ver][Len(leases[ver]) + 1].status = status
    BY <1>1, <1>3, <1>5, <1>6
<1> QED
    BY <1>8, <1>9 DEF ver

\* A version whose rows stay as many has the consumed rows it had.
LEMMA SameConsumed ==
    ASSUME WorkInv, NEW v \in Versions, Follows(leases'), Len(leases'[v]) = Len(leases[v])
    PROVE  ConsumedRows(leases'[v]) = ConsumedRows(leases[v])
<1>1. leases[v] \in Seq(LeaseRow) /\ leases'[v] \in Seq(LeaseRow)
    BY DEF WorkInv, Follows
<1>2. DOMAIN leases[v] = 1..Len(leases[v]) /\ DOMAIN leases'[v] = 1..Len(leases[v])
    BY <1>1, LenProperties
<1> QED
    BY <1>2 DEF ConsumedRows, Follows

\* A version with one row more has a consumed row more if that row is consumed.
LEMMA OneMoreRow ==
    ASSUME WorkInv, NEW v \in Versions, Follows(leases'),
           Len(leases'[v]) = Len(leases[v]) + 1
    PROVE  ConsumedRows(leases'[v]) = IF leases'[v][Len(leases[v]) + 1].status = "consumed"
                              THEN ConsumedRows(leases[v]) \union {Len(leases[v]) + 1}
                              ELSE ConsumedRows(leases[v])
<1>1. leases[v] \in Seq(LeaseRow) /\ leases'[v] \in Seq(LeaseRow)
    BY DEF WorkInv, Follows
<1>2. /\ Len(leases[v]) \in Nat
      /\ DOMAIN leases[v] = 1..Len(leases[v])
      /\ DOMAIN leases'[v] = 1..(Len(leases[v]) + 1)
    BY <1>1, LenProperties
<1>3. DOMAIN leases'[v] = DOMAIN leases[v] \union {Len(leases[v]) + 1}
    BY <1>2
<1>4. \A i \in DOMAIN leases[v] :
          leases'[v][i].status = "consumed" <=> leases[v][i].status = "consumed"
    BY <1>2 DEF Follows
<1> QED
    BY <1>3, <1>4 DEF ConsumedRows

\* A body that ends and leaves the rows it found, the stale one expired.
LEMMA ReturnsKept ==
    ASSUME PlanInv, NEW w \in Workers, work[w] \in Work,
           leases' = Kept(w), work' = [work EXCEPT ![w] = NoWork], results' = results
    PROVE  PlanInv'
<1>1. Follows(leases') /\ \A v \in Versions : Len(leases'[v]) = Len(leases[v])
    BY KeptSound DEF PlanInv
<1>2. NoWork.at = "idle" /\ NoWork \notin Work
    BY DEF NoWork, Work, Steps
<1>3. (WorkInv /\ StaleInv /\ OneProcess)'
    BY <1>1, <1>2, WorkerMoves DEF PlanInv, WorkInv
<1>4. \A v \in Versions : ConsumedRows(leases'[v]) = ConsumedRows(leases[v])
    BY <1>1, SameConsumed DEF PlanInv
<1>5. ConsumedInv'
    BY <1>4 DEF PlanInv, ConsumedInv
<1> QED
    BY <1>3, <1>5 DEF PlanInv

\* A body that ends with a lease of its own: consumed only with the first result.
LEMMA ReturnsLeased ==
    ASSUME PlanInv, NEW w \in Workers, work[w] \in Work, NEW status \in LeaseStatus,
           Leased(w, status), work' = [work EXCEPT ![w] = NoWork],
           \/ status # "consumed" /\ results' = results
           \/ /\ status = "consumed" /\ work[w].ver \notin results
              /\ results' = results \union {work[w].ver}
    PROVE  PlanInv'
<1> DEFINE ver == work[w].ver
<1>0. ver \in Versions
    BY DEF Work
<1>1. /\ Follows(leases')
      /\ \A v \in Versions \ {ver} : Len(leases'[v]) = Len(leases[v])
      /\ Len(leases'[ver]) = Len(leases[ver]) + 1
      /\ leases'[ver][Len(leases[ver]) + 1].status = status
    BY LeasedSound DEF PlanInv
<1>2. NoWork.at = "idle" /\ NoWork \notin Work
    BY DEF NoWork, Work, Steps
<1> HIDE DEF ver
<1>3. results' \subseteq Versions
    BY <1>0 DEF PlanInv, WorkInv, ver
<1>4. (WorkInv /\ StaleInv /\ OneProcess)'
    BY <1>1, <1>2, <1>3, WorkerMoves
<1>5. \A v \in Versions \ {ver} : ConsumedRows(leases'[v]) = ConsumedRows(leases[v])
    BY <1>1, SameConsumed DEF PlanInv
<1>6. ConsumedRows(leases'[ver]) = IF status = "consumed" THEN ConsumedRows(leases[ver]) \union {Len(leases[ver]) + 1}
                           ELSE ConsumedRows(leases[ver])
    BY <1>0, <1>1, OneMoreRow DEF PlanInv, ver
<1>7. ConsumedInv'
  <2> SUFFICES ASSUME NEW v \in Versions
               PROVE  /\ v \in results' => \E i : ConsumedRows(leases'[v]) = {i}
                      /\ v \notin results' => ConsumedRows(leases'[v]) = {}
      BY DEF ConsumedInv
  <2>1. CASE v # ver
      BY <1>5, <2>1 DEF PlanInv, ConsumedInv, ver
  <2>2. CASE v = ver /\ status # "consumed"
      BY <1>6, <2>2 DEF PlanInv, ConsumedInv
  <2>3. CASE v = ver /\ status = "consumed"
    <3>1. v \notin results /\ v \in results'
        BY <2>3 DEF ver
    <3>2. ConsumedRows(leases[v]) = {}
        BY <3>1 DEF PlanInv, ConsumedInv
    <3>3. ConsumedRows(leases'[ver]) = {Len(leases[ver]) + 1}
        BY <1>6, <2>3, <3>2
    <3> QED
        BY <2>3, <3>1, <3>3
  <2> QED
      BY <2>1, <2>2, <2>3
<1> QED
    BY <1>4, <1>7 DEF PlanInv

LEMMA WorkFacts ==
    ASSUME WorkInv, NEW w \in Workers
    PROVE  /\ work[w] = NoWork \/ work[w] \in Work
           /\ NoWork.at = "idle" /\ NoWork \notin Work
    BY DEF WorkInv, NoWork, Work, Steps

\* A body that goes on, or ends, and has committed nothing.
LEMMA Advances ==
    ASSUME PlanInv, NEW w \in Workers, work[w] \in Work, NEW step \in Steps, Goto(w, step),
           leases' = leases, results' = results,
           step = "running" =>
              \A x \in Workers \ {w} : Holds(x) => work[x].fp # work[w].fp
    PROVE  PlanInv'
<1> DEFINE rec == [work[w] EXCEPT !.at = step]
<1>1. rec \in Work /\ rec.at = step /\ rec.fp = work[w].fp /\ rec.stale = work[w].stale
    BY DEF Work
<1>2. work' = [work EXCEPT ![w] = rec]
    BY DEF Goto
<1> HIDE DEF rec
<1>3. StaleRow(leases, rec.stale)
    BY <1>1 DEF PlanInv, StaleInv
<1> QED
    BY <1>1, <1>2, <1>3, LeasesAlone

LEMMA Ends ==
    ASSUME PlanInv, NEW w \in Workers, work' = [work EXCEPT ![w] = NoWork],
           leases' = leases, results' = results
    PROVE  PlanInv'
<1>1. NoWork.at = "idle" /\ NoWork \notin Work
    BY WorkFacts DEF PlanInv
<1> QED
    BY <1>1, LeasesAlone

LEMMA LoadSound ==
    ASSUME DecisionInv, PlanInv, NEW w \in Workers, Load(w) PROVE PlanInv'
<1> DEFINE rec == [at |-> "bound", ver |-> authz.no, fp |-> dossier.no, epoch |-> 0,
                   stale |-> NoRow]
<1>1. authz.no \in Versions /\ dossier.no \in Dossiers
    BY ActivationBounds
       DEF Load, Ready, Usable, DecisionInv, Counted, ActiveStatus, DossierRow, AuthzRow,
           Versions, Dossiers
<1>2. NoRow \in (0..MaxVersions) \X Nat
    BY ActivationBounds DEF NoRow
<1>3. rec \in Work /\ rec.stale = NoRow /\ rec.at = "bound"
    BY <1>1, <1>2 DEF Work, Steps
<1>4. work' = [work EXCEPT ![w] = rec] /\ leases' = leases /\ results' = results
    BY DEF Load
<1> HIDE DEF rec
<1>5. StaleRow(leases, rec.stale)
    BY <1>3 DEF StaleRow
<1> QED
    BY <1>3, <1>4, <1>5, LeasesAlone

\* An active lease that was found is a committed row and not a consumed one.
LEMMA FoundActive ==
    ASSUME WorkInv, NEW fp, NEW row \in LeaseRows(fp, "active")
    PROVE  row \in (0..MaxVersions) \X Nat /\ StaleRow(leases, row)
<1>1. PICK v \in Versions : \E i \in DOMAIN leases[v] :
          row = <<v, i>> /\ leases[v][i] = Lease(fp, "active")
    BY DEF LeaseRows
<1>i. PICK i \in DOMAIN leases[v] : row = <<v, i>> /\ leases[v][i] = Lease(fp, "active")
    BY <1>1
<1>2. i \in 1..Len(leases[v]) /\ i \in Nat
    BY <1>1, LenProperties DEF WorkInv
<1>3. leases[v][i].status = "active"
    BY <1>i DEF Lease
<1> QED
    BY <1>1, <1>i, <1>2, <1>3, ActivationBounds DEF StaleRow, Versions

LEMMA InspectSound ==
    ASSUME PlanInv, NEW w \in Workers, work[w] \in Work, Inspect(w) PROVE PlanInv'
<1> DEFINE found == LeaseRows(work[w].fp, "active")
           stale == IF found = {} THEN NoRow ELSE CHOOSE row \in found : TRUE
           rec == [work[w] EXCEPT !.at = "inspected", !.stale = stale]
<1>1. stale \in (0..MaxVersions) \X Nat /\ StaleRow(leases, stale)
  <2>1. CASE found = {}
      BY <2>1, ActivationBounds DEF NoRow, StaleRow
  <2>2. CASE found # {}
    <3>1. stale \in found
        BY <2>2
    <3> QED
        BY <3>1, FoundActive DEF PlanInv
  <2> QED
      BY <2>1, <2>2
<1>2. work' = [work EXCEPT ![w] = rec] /\ leases' = leases /\ results' = results
    BY DEF Inspect
<1> HIDE DEF stale
<1>3. rec \in Work /\ rec.at = "inspected" /\ rec.stale = stale
    BY <1>1 DEF Work, Steps
<1> HIDE DEF rec
<1> QED
    BY <1>1, <1>2, <1>3, LeasesAlone

LEMMA ReadEpochSound ==
    ASSUME PlanInv, NEW w \in Workers, work[w] \in Work, ReadEpoch(w) PROVE PlanInv'
<1> DEFINE rec == [work[w] EXCEPT !.at = "inserting", !.epoch = NextEpoch(work[w].ver)]
<1>1. NextEpoch(work[w].ver) \in Nat
    BY LenProperties DEF NextEpoch, PlanInv, WorkInv, Work
<1>2. work' = [work EXCEPT ![w] = rec] /\ leases' = leases /\ results' = results
    BY DEF ReadEpoch
<1>3. rec \in Work /\ rec.at = "inserting" /\ rec.stale = work[w].stale
    BY <1>1 DEF Work, Steps
<1> HIDE DEF rec
<1>4. StaleRow(leases, rec.stale)
    BY <1>3 DEF PlanInv, StaleInv
<1> QED
    BY <1>2, <1>3, <1>4, LeasesAlone

LEMMA BodySound ==
    ASSUME DecisionInv, PlanInv, NEW w \in Workers, Body(w) \/ Die(w)
    PROVE  PlanInv' /\ UNCHANGED activationVars
<1>1. UNCHANGED activationVars
    BY DEF Body, Die, Load, Refuse, Replay, Verify, Inspect, Acquire, RefuseLease, ReadEpoch,
           Insert, LoseInsert, Complete, Terminate, Return
<1>2. ~Load(w) => work[w] \in Work
  <2>1. work[w] = NoWork \/ work[w] \in Work
      BY WorkFacts DEF PlanInv
  <2>2. work[w] = NoWork => work[w].at = "idle"
      BY DEF NoWork
  <2> QED
      BY <2>1, <2>2 DEF Body, Die, Refuse, Replay, Verify, Inspect, Acquire, RefuseLease,
         ReadEpoch, Insert, LoseInsert, Complete, Terminate, Holds
<1>3. CASE Load(w)
    BY <1>1, <1>3, LoadSound
<1>4. CASE ~Load(w) /\ (Refuse(w) \/ Replay(w) \/ Die(w))
    BY <1>1, <1>4, Ends DEF Refuse, Replay, Die, Return
<1>5. CASE ~Load(w) /\ (Verify(w) \/ Acquire(w))
    BY <1>1, <1>2, <1>5, Advances DEF Verify, Acquire, Steps
<1>6. CASE ~Load(w) /\ Inspect(w)
    BY <1>1, <1>2, <1>6, InspectSound
<1>7. CASE ~Load(w) /\ RefuseLease(w)
    BY <1>1, <1>2, <1>7, Ends, ReturnsKept DEF RefuseLease, Return
<1>8. CASE ~Load(w) /\ ReadEpoch(w)
    BY <1>1, <1>2, <1>8, ReadEpochSound
<1>9. CASE ~Load(w) /\ Insert(w)
  <2>1. Goto(w, "running") /\ leases' = leases /\ results' = results
      BY <1>9 DEF Insert
  <2>2. \A x \in Workers \ {w} : Holds(x) => work[x].fp # work[w].fp
      BY <1>9 DEF Insert, Waits
  <2> QED
      BY <1>1, <1>2, <1>9, <2>1, <2>2, Advances DEF Steps
<1>10. CASE ~Load(w) /\ LoseInsert(w)
    BY <1>1, <1>2, <1>10, ReturnsKept DEF LoseInsert, Return
<1>11. CASE ~Load(w) /\ Complete(w)
  <2>1. Leased(w, RecordedAs(w)) /\ work' = [work EXCEPT ![w] = NoWork]
            /\ results' = results \union {work[w].ver}
      BY <1>11 DEF Complete, Return
  <2>2. CASE work[w].ver \in results
    <3>1. RecordedAs(w) = "active" /\ results' = results
        BY <2>1, <2>2 DEF RecordedAs
    <3> QED
        BY <1>1, <1>2, <1>11, <2>1, <3>1, ReturnsLeased DEF LeaseStatus
  <2>3. CASE work[w].ver \notin results
    <3>1. RecordedAs(w) = "consumed"
        BY <2>3 DEF RecordedAs
    <3> QED
        BY <1>1, <1>2, <1>11, <2>1, <2>3, <3>1, ReturnsLeased DEF LeaseStatus
  <2> QED
      BY <2>2, <2>3
<1>12. ASSUME ~Load(w), NEW status \in {"expired", "recovery_required"}, Terminate(w, status)
       PROVE  PlanInv'
    BY <1>2, <1>12, ReturnsLeased DEF Terminate, Return, LeaseStatus
<1> QED
    BY <1>1, <1>3, <1>4, <1>5, <1>6, <1>7, <1>8, <1>9, <1>10, <1>11, <1>12 DEF Body

LEMMA NextSound ==
    ASSUME DecisionInv, PlanInv, [Next]_vars
    PROVE  DecisionInv' /\ PlanInv' /\ (StandsStep \/ UNCHANGED vars)
<1>1. CASE Activation /\ UNCHANGED planVars
  <2>1. DecisionInv' /\ StandsStep
      BY <1>1, ActivationSound
  <2>2. PlanInv'
      BY <1>1 DEF planVars, PlanInv, WorkInv, StaleInv, ConsumedInv, OneProcess, Holds
  <2> QED
      BY <2>1, <2>2
<1>2. ASSUME NEW w \in Workers, Body(w) \/ Die(w)
      PROVE  DecisionInv' /\ PlanInv' /\ StandsStep
  <2>1. PlanInv' /\ UNCHANGED activationVars
      BY <1>2, BodySound
  <2>2. DecisionInv' /\ StandsStep
      BY <2>1 DEF activationVars, DecisionInv, StandsStep, KnownEdge
  <2> QED
      BY <2>1, <2>2
<1>3. CASE UNCHANGED vars
  <2>1. DecisionInv'
      BY <1>3 DEF vars, activationVars, DecisionInv
  <2>2. PlanInv'
      BY <1>3 DEF vars, planVars, PlanInv, WorkInv, StaleInv, ConsumedInv, OneProcess, Holds
  <2> QED
      BY <1>3, <2>1, <2>2
<1> QED
    BY <1>1, <1>2, <1>3 DEF Next

-----------------------------------------------------------------------------
\* The invariants hold in every behaviour of the specification.
THEOREM PlanInvariant == Spec => [](DecisionInv /\ PlanInv)
<1>1. Init => DecisionInv /\ PlanInv
    BY DecisionInit, PlanInit
<1>2. DecisionInv /\ PlanInv /\ [Next]_vars => (DecisionInv /\ PlanInv)'
    BY NextSound
<1> QED
    BY <1>1, <1>2, PTL DEF Spec

\* Rows, leases, handlers and workers stay of their types (services/plan_activation.py
\* and plan_gen/lease.py).
THEOREM TypeCorrect == Spec => []TypeOK
<1>1. DecisionInv /\ PlanInv => TypeOK
    BY DEF DecisionInv, PlanInv, WorkInv, TypeOK, ActivationTypeOK, DossierRow, AuthzRow, Call,
           LeaseRow, Work
<1> QED
    BY <1>1, PlanInvariant, PTL

\* No interleaving of handlers undoes a decision on a dossier or an authorization:
\* _dossier_cas and _authz_cas write only over the revision the handler has read.
THEOREM DecisionsNeverUndone == Spec => DecisionsStand
<1>1. DecisionInv /\ PlanInv /\ [Next]_vars => StandsStep \/ UNCHANGED vars
    BY NextSound
<1>2. StandsStep => (/\ dossier'.no = dossier.no /\ dossier'.status # dossier.status
                          => <<dossier.status, dossier'.status>> \in Transitions
                     /\ authz'.no = authz.no /\ authz'.status # authz.status
                          => <<authz.status, authz'.status>> \in Transitions)
    BY DEF StandsStep, KnownEdge
<1> QED
    BY <1>1, <1>2, PlanInvariant, PTL DEF Spec, DecisionsStand

\* However many workers the activity is delivered to, the active-lease index lets
\* one of them execute an operation at a time (acquire_execution_lease).
THEOREM OneProcessAtATime == Spec => []OneProcess
<1>1. PlanInv => OneProcess
    BY DEF PlanInv
<1> QED
    BY <1>1, PlanInvariant, PTL

\* A version has one consumed lease when it has a result and none before
\* (record_plan_generation_result).
THEOREM ResultsHaveTheirLease == Spec => []ResultsAreLeased
<1>1. PlanInv => ResultsAreLeased
  <2> SUFFICES ASSUME PlanInv, NEW v \in Versions
               PROVE  Cardinality(ConsumedRows(leases[v])) = IF v \in results THEN 1 ELSE 0
      BY DEF ResultsAreLeased, ConsumedRows
  <2>1. CASE v \in results
    <3>1. PICK i : ConsumedRows(leases[v]) = {i}
        BY <2>1 DEF PlanInv, ConsumedInv
    <3> QED
        BY <2>1, <3>1, FS_Singleton
  <2>2. CASE v \notin results
    <3>1. ConsumedRows(leases[v]) = {}
        BY <2>2 DEF PlanInv, ConsumedInv
    <3> QED
        BY <2>2, <3>1, FS_EmptySet
  <2> QED
      BY <2>1, <2>2
<1> QED
    BY <1>1, PlanInvariant, PTL

-----------------------------------------------------------------------------
\* The attempt budget.  A worker spends the budget of a version from the sum that
\* found it within the budget until its transaction ends.

Budgeted(k, v) == k.at \in {"granted", "inserting", "running"} /\ k.ver = v

Spending(v, wk) == {w \in Workers : Budgeted(wk[w], v)}

\* The last worker to pass saw fewer leases than the budget, and those spending it
\* then are at most all the workers.
BudgetInv ==
    \A v \in Versions :
        Len(leases[v]) + Cardinality(Spending(v, work)) < AttemptBudget + Cardinality(Workers)

\* What is counted can be counted.
LEMMA SpendingCounts ==
    ASSUME NEW v, NEW wk
    PROVE  /\ IsFiniteSet(Spending(v, wk))
           /\ Cardinality(Spending(v, wk)) \in Nat
           /\ Cardinality(Spending(v, wk)) <= Cardinality(Workers)
           /\ Cardinality(Workers) \in Nat
<1>1. IsFiniteSet(Workers)
    BY BudgetAssumption
<1>2. Spending(v, wk) \in SUBSET Workers
    BY DEF Spending
<1>3. IsFiniteSet(Spending(v, wk)) /\ Cardinality(Spending(v, wk)) <= Cardinality(Workers)
    BY <1>1, <1>2, FS_Subset
<1> QED
    BY <1>1, <1>3, FS_CardinalityType

LEMMA BudgetInit == Init => BudgetInv
<1> SUFFICES ASSUME Init, NEW v \in Versions
             PROVE  Len(leases[v]) + Cardinality(Spending(v, work))
                        < AttemptBudget + Cardinality(Workers)
    BY DEF BudgetInv
<1>1. Len(leases[v]) = 0
    BY DEF Init
<1>2. Spending(v, work) = {}
    BY DEF Init, Spending, Budgeted, NoWork
<1>3. Cardinality({}) = 0
    BY FS_EmptySet
<1>4. AttemptBudget \in Nat \ {0}
    BY BudgetAssumption
<1>5. Cardinality(Workers) \in Nat
    BY SpendingCounts
<1> QED
    BY <1>1, <1>2, <1>3, <1>4, <1>5

\* A worker moves, spends nothing it did not spend, and adds no lease.
LEMMA SpendsNoMore ==
    ASSUME WorkInv, BudgetInv, NEW w \in Workers, NEW rec, work' = [work EXCEPT ![w] = rec],
           \A v \in Versions : Len(leases'[v]) = Len(leases[v]),
           \A v \in Versions : Budgeted(rec, v) => Budgeted(work[w], v)
    PROVE  BudgetInv'
<1> SUFFICES ASSUME NEW v \in Versions
             PROVE  Len(leases'[v]) + Cardinality(Spending(v, work'))
                        < AttemptBudget + Cardinality(Workers)
    BY DEF BudgetInv
<1> DEFINE old == Spending(v, work)
           new == Spending(v, work')
<1>1. \A x \in Workers : work'[x] = IF x = w THEN rec ELSE work[x]
    BY DEF WorkInv
<1>2. new \in SUBSET old
    BY <1>1 DEF Spending
<1>3. IsFiniteSet(old) /\ Cardinality(old) \in Nat /\ Cardinality(Workers) \in Nat
          /\ Cardinality(new) \in Nat
    BY SpendingCounts
<1>4. Len(leases[v]) + Cardinality(old) < AttemptBudget + Cardinality(Workers)
    BY DEF BudgetInv
<1>5. Len(leases'[v]) = Len(leases[v]) /\ Len(leases[v]) \in Nat
    BY LenProperties DEF WorkInv
<1> HIDE DEF old, new
<1>6. Cardinality(new) <= Cardinality(old)
    BY <1>2, <1>3, FS_Subset
<1>7. AttemptBudget \in Nat
    BY BudgetAssumption
<1>8. Len(leases'[v]) + Cardinality(new) < AttemptBudget + Cardinality(Workers)
    BY <1>3, <1>4, <1>5, <1>6, <1>7
<1> QED
    BY <1>8 DEF new

\* acquire_execution_lease finds the version within its budget.
LEMMA AcquireWithinBudget ==
    ASSUME WorkInv, BudgetInv, NEW w \in Workers, work[w] \in Work, Acquire(w)
    PROVE  BudgetInv'
<1> DEFINE rec == [work[w] EXCEPT !.at = "granted"]
           ver == work[w].ver
<1>1. work' = [work EXCEPT ![w] = rec] /\ leases' = leases /\ Len(leases[ver]) < AttemptBudget
    BY DEF Acquire, Goto, WithinBudget, PriorUsed
<1>2. \A x \in Workers : work'[x] = IF x = w THEN rec ELSE work[x]
    BY <1>1 DEF WorkInv
<1>3. rec.ver = ver /\ work[w].at = "inspected"
    BY DEF Work, Acquire
<1> HIDE DEF rec, ver
<1> SUFFICES ASSUME NEW v \in Versions
             PROVE  Len(leases[v]) + Cardinality(Spending(v, work'))
                        < AttemptBudget + Cardinality(Workers)
    BY <1>1 DEF BudgetInv
<1>4. CASE v # ver
  <2>1. Spending(v, work') = Spending(v, work)
      BY <1>2, <1>3, <1>4 DEF Spending, Budgeted
  <2> QED
      BY <2>1 DEF BudgetInv
<1>5. CASE v = ver
  <2>1. Cardinality(Spending(v, work')) \in Nat /\ Cardinality(Workers) \in Nat
            /\ Cardinality(Spending(v, work')) <= Cardinality(Workers)
      BY SpendingCounts
  <2>2. AttemptBudget \in Nat
      BY BudgetAssumption
  <2>3. Len(leases[v]) \in Nat
      BY LenProperties DEF WorkInv
  <2> QED
      BY <1>1, <1>5, <2>1, <2>2, <2>3
<1> QED
    BY <1>4, <1>5

\* The commit of a lease: one row more and one worker spending less.
LEMMA LeasedWithinBudget ==
    ASSUME PlanInv, BudgetInv, NEW w \in Workers, work[w] \in Work, Holds(w),
           NEW status \in LeaseStatus, Leased(w, status), work' = [work EXCEPT ![w] = NoWork]
    PROVE  BudgetInv'
<1> DEFINE ver == work[w].ver
<1>1. /\ \A v \in Versions \ {ver} : Len(leases'[v]) = Len(leases[v])
      /\ Len(leases'[ver]) = Len(leases[ver]) + 1
    BY LeasedSound DEF PlanInv
<1>2. \A x \in Workers : work'[x] = IF x = w THEN NoWork ELSE work[x]
    BY DEF PlanInv, WorkInv
<1>3. NoWork.at = "idle" /\ work[w].at = "running"
    BY DEF NoWork, Holds
<1>4. AttemptBudget \in Nat
    BY BudgetAssumption
<1> SUFFICES ASSUME NEW v \in Versions
             PROVE  Len(leases'[v]) + Cardinality(Spending(v, work'))
                        < AttemptBudget + Cardinality(Workers)
    BY DEF BudgetInv
<1> DEFINE old == Cardinality(Spending(v, work))
           new == Cardinality(Spending(v, work'))
           workers == Cardinality(Workers)
           before == Len(leases[v])
           after == Len(leases'[v])
<1>5. before + old < AttemptBudget + workers
    BY DEF BudgetInv
<1>6. old \in Nat /\ workers \in Nat /\ IsFiniteSet(Spending(v, work))
    BY SpendingCounts
<1>7. before \in Nat
    BY LenProperties DEF PlanInv, WorkInv
<1>8. CASE v # ver
  <2>1. Spending(v, work') = Spending(v, work)
      BY <1>2, <1>3, <1>8 DEF Spending, Budgeted
  <2>2. after = before
      BY <1>1, <1>8
  <2> QED
      BY <1>5, <2>1, <2>2
<1>9. CASE v = ver
  <2>1. Spending(v, work') = Spending(v, work) \ {w} /\ w \in Spending(v, work)
      BY <1>2, <1>3, <1>9 DEF Spending, Budgeted
  <2>2. new = old - 1
      BY <1>6, <2>1, FS_RemoveElement
  <2>3. after = before + 1
      BY <1>1, <1>9
  <2> HIDE DEF old, new, workers, before, after
  <2>4. after + new < AttemptBudget + workers
      BY <1>4, <1>5, <1>6, <1>7, <2>2, <2>3
  <2> QED
      BY <2>4 DEF new, workers, after
<1> QED
    BY <1>8, <1>9

LEMMA BodyWithinBudget ==
    ASSUME DecisionInv, PlanInv, BudgetInv, NEW w \in Workers, Body(w) \/ Die(w)
    PROVE  BudgetInv'
<1>0. WorkInv /\ NoWork.at = "idle"
    BY DEF PlanInv, NoWork
<1>1. ASSUME work' = [work EXCEPT ![w] = NoWork],
             \A v \in Versions : Len(leases'[v]) = Len(leases[v])
      PROVE  BudgetInv'
  <2>1. \A v \in Versions : ~Budgeted(NoWork, v)
      BY <1>0 DEF Budgeted
  <2> QED
      BY <1>0, <1>1, <2>1, SpendsNoMore
<1>2. ~Load(w) => work[w] \in Work
  <2>1. work[w] = NoWork \/ work[w] \in Work
      BY <1>0, WorkFacts
  <2> QED
      BY <1>0, <2>1 DEF Body, Die, Refuse, Replay, Verify, Inspect, Acquire, RefuseLease,
         ReadEpoch, Insert, LoseInsert, Complete, Terminate, Holds
<1>3. CASE Load(w)
  <2> DEFINE rec == [at |-> "bound", ver |-> authz.no, fp |-> dossier.no, epoch |-> 0,
                     stale |-> NoRow]
  <2>1. work' = [work EXCEPT ![w] = rec] /\ leases' = leases /\ rec.at = "bound"
      BY <1>3 DEF Load
  <2> HIDE DEF rec
  <2>2. \A v \in Versions : ~Budgeted(rec, v) /\ Len(leases'[v]) = Len(leases[v])
      BY <2>1 DEF Budgeted
  <2> QED
      BY <1>0, <2>1, <2>2, SpendsNoMore
<1>4. CASE Refuse(w) \/ Replay(w) \/ Die(w)
    BY <1>1, <1>4 DEF Refuse, Replay, Die, Return
<1>5. CASE ~Load(w) /\ Verify(w)
  <2> DEFINE rec == [work[w] EXCEPT !.at = "checked"]
  <2>1. work' = [work EXCEPT ![w] = rec] /\ leases' = leases /\ rec.at = "checked"
      BY <1>2, <1>5 DEF Verify, Goto, Work
  <2> HIDE DEF rec
  <2>2. \A v \in Versions : ~Budgeted(rec, v) /\ Len(leases'[v]) = Len(leases[v])
      BY <2>1 DEF Budgeted
  <2> QED
      BY <1>0, <2>1, <2>2, SpendsNoMore
<1>6. CASE ~Load(w) /\ Inspect(w)
  <2> DEFINE row == IF LeaseRows(work[w].fp, "active") = {} THEN NoRow
                    ELSE CHOOSE r \in LeaseRows(work[w].fp, "active") : TRUE
             rec == [work[w] EXCEPT !.at = "inspected", !.stale = row]
  <2>1. work' = [work EXCEPT ![w] = rec] /\ leases' = leases
      BY <1>6 DEF Inspect
  <2>2. rec.at = "inspected"
      BY <1>2, <1>6 DEF Work
  <2> HIDE DEF rec
  <2>3. \A v \in Versions : ~Budgeted(rec, v) /\ Len(leases'[v]) = Len(leases[v])
      BY <2>1, <2>2 DEF Budgeted
  <2> QED
      BY <1>0, <2>1, <2>3, SpendsNoMore
<1>7. CASE ~Load(w) /\ Acquire(w)
    BY <1>0, <1>2, <1>7, AcquireWithinBudget
<1>8. CASE ~Load(w) /\ (RefuseLease(w) \/ LoseInsert(w))
  <2>1. \A v \in Versions : Len(Kept(w)[v]) = Len(leases[v])
      BY <1>2, <1>8, KeptSound DEF PlanInv
  <2>2. leases' = leases \/ leases' = Kept(w)
      BY <1>8 DEF RefuseLease, LoseInsert
  <2> QED
      BY <1>1, <1>8, <2>1, <2>2 DEF RefuseLease, LoseInsert, Return
<1>9. CASE ~Load(w) /\ ReadEpoch(w)
  <2> DEFINE rec == [work[w] EXCEPT !.at = "inserting", !.epoch = NextEpoch(work[w].ver)]
  <2>1. work' = [work EXCEPT ![w] = rec] /\ leases' = leases /\ work[w].at = "granted"
      BY <1>9 DEF ReadEpoch
  <2>2. rec.at = "inserting" /\ rec.ver = work[w].ver
      BY <1>2, <1>9 DEF Work
  <2> HIDE DEF rec
  <2>3. \A v \in Versions : /\ Budgeted(rec, v) => Budgeted(work[w], v)
                            /\ Len(leases'[v]) = Len(leases[v])
      BY <2>1, <2>2 DEF Budgeted
  <2> QED
      BY <1>0, <2>1, <2>3, SpendsNoMore
<1>10. CASE ~Load(w) /\ Insert(w)
  <2> DEFINE rec == [work[w] EXCEPT !.at = "running"]
  <2>1. work' = [work EXCEPT ![w] = rec] /\ leases' = leases /\ work[w].at = "inserting"
      BY <1>10 DEF Insert, Goto
  <2>2. rec.at = "running" /\ rec.ver = work[w].ver
      BY <1>2, <1>10 DEF Work
  <2> HIDE DEF rec
  <2>3. \A v \in Versions : /\ Budgeted(rec, v) => Budgeted(work[w], v)
                            /\ Len(leases'[v]) = Len(leases[v])
      BY <2>1, <2>2 DEF Budgeted
  <2> QED
      BY <1>0, <2>1, <2>3, SpendsNoMore
<1>11. CASE ~Load(w) /\ Complete(w)
  <2>1. RecordedAs(w) \in LeaseStatus
      BY DEF RecordedAs, LeaseStatus
  <2>2. Holds(w) /\ Leased(w, RecordedAs(w)) /\ work' = [work EXCEPT ![w] = NoWork]
      BY <1>11 DEF Complete, Return
  <2> QED
      BY <1>2, <1>11, <2>1, <2>2, LeasedWithinBudget
<1>12. ASSUME ~Load(w), NEW status \in {"expired", "recovery_required"}, Terminate(w, status)
       PROVE  BudgetInv'
    BY <1>2, <1>12, LeasedWithinBudget DEF Terminate, Return, LeaseStatus
<1> QED
    BY <1>3, <1>4, <1>5, <1>6, <1>7, <1>8, <1>9, <1>10, <1>11, <1>12 DEF Body

\* The sum of the attempts and the insert are two statements: a version never has more
\* leases than its budget and one for every other worker (acquire_execution_lease).
THEOREM BudgetOverrunStaysBounded == Spec => []BudgetOverrunBounded
<1>1. Init => BudgetInv
    BY BudgetInit
<1>2. DecisionInv /\ PlanInv /\ BudgetInv /\ [Next]_vars => BudgetInv'
  <2> SUFFICES ASSUME DecisionInv, PlanInv, BudgetInv, [Next]_vars PROVE BudgetInv'
      OBVIOUS
  <2>1. CASE UNCHANGED planVars
      BY <2>1 DEF planVars, BudgetInv
  <2>2. ASSUME NEW w \in Workers, Body(w) \/ Die(w) PROVE BudgetInv'
      BY <2>2, BodyWithinBudget
  <2>3. CASE UNCHANGED vars
      BY <2>1, <2>3 DEF vars
  <2> QED
      BY <2>1, <2>2, <2>3 DEF Next
<1>3. PlanInv /\ BudgetInv => BudgetOverrunBounded
  <2> SUFFICES ASSUME PlanInv, BudgetInv, NEW v \in Versions
               PROVE  Len(leases[v]) <= AttemptBudget + Cardinality(Workers) - 1
      BY DEF BudgetOverrunBounded
  <2>1. Cardinality(Spending(v, work)) \in Nat /\ Cardinality(Workers) \in Nat
      BY SpendingCounts
  <2>2. Len(leases[v]) \in Nat
      BY LenProperties DEF PlanInv, WorkInv
  <2>3. AttemptBudget \in Nat
      BY BudgetAssumption
  <2>4. Len(leases[v]) + Cardinality(Spending(v, work)) < AttemptBudget + Cardinality(Workers)
      BY DEF BudgetInv
  <2> QED
      BY <2>1, <2>2, <2>3, <2>4
<1> QED
    BY <1>1, <1>2, <1>3, PlanInvariant, PTL DEF Spec
=============================================================================
