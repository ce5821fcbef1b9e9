-------------------------- MODULE FinalizationProofs --------------------------
(***************************************************************************)
(* What the two honest outcomes of `secpctl controller install` are worth, *)
(* for every lineage and every number of failed calls and crashes.         *)
(*                                                                         *)
(* A transaction that has not failed is at some step of its plan, and each *)
(* step it has passed vouches for a part of the host.  A transaction that  *)
(* has failed is either reported as unproven or still has ahead of it the  *)
(* undo step that makes good, or reports, what is not yet as it was found. *)
(***************************************************************************)
EXTENDS ControllerFinalization, SequenceTheorems, TLAPS

\* The steps of all plans.
Words == ObjectSteps \cup Checks \cup Documents \cup Undos
         \cup {"stack", "activate", "marker", "runtime", "cleanup"}

Modes == {"none", "fresh", "upgrade", "rollback"}
Outcomes == {"none", "written", "refused", "error", "recovery_required", "died"}

Transaction ==
    [mode : Modes, rel : 0..MaxRelease, prior : 0..MaxRelease, todo : Seq(Words),
     state : {"none", "prepared", "committed"}, undoing : BOOLEAN, noted : SUBSET Words,
     created : SUBSET Objects, wrote : SUBSET Documents, originals : [Documents -> Document],
     activated : Nat, stackUp : BOOLEAN, residual : BOOLEAN, unproven : BOOLEAN]

Command == [outcome : Outcomes, objs : SUBSET Objects, stack : 0..Mixed, row : Rows]

-----------------------------------------------------------------------------
(* Where a transaction is.                                                 *)

\* todo is what is left of plan from its k-th step on.
OnPlan(todo, plan, k) ==
    /\ k \in 1..(Len(plan) + 1)
    /\ Len(todo) = Len(plan) + 1 - k
    /\ \A i \in 1..Len(todo) : todo[i] = plan[k + i - 1]

\* Steps are counted along Forward: from `unit` on, those of a rollback are the
\* same, five places earlier in its own plan.
Tracks(t, n) ==
    IF t.mode = "rollback" THEN OnPlan(t.todo, Backward, n - 5) ELSE OnPlan(t.todo, Forward, n)

Early == {"gate", "stack", "identity", "manifest", "signature", "observe",
          "tls", "locator", "signer", "key", "unit", "service"}

\* Every document is there and belongs to the active identity.
AllBelong == \A d \in Documents : docs[d] # NoDoc /\ BelongsTo(d, Active)

\* What the steps before the n-th vouch for.
Progress(n) ==
    /\ n > 13 => objs = Objects                                     \* verify
    /\ n <= 14 => /\ tx.activated = 0
                  /\ tx.mode = "fresh" => Len(rows) = 0
                  /\ tx.mode = "upgrade" => Len(rows) = 1
                  /\ tx.mode = "rollback" => Len(rows) <= 2
    /\ n > 14 => /\ tx.activated # 0 /\ "activate" \in tx.noted     \* activate
                 /\ Active # 0 /\ rows[Active] = tx.rel
    /\ n <= 15 => "marker" \notin tx.noted
    /\ n > 15 => "marker" \in tx.noted /\ marker = Active           \* marker
    /\ n > 16 => api = Active /\ stack = tx.rel                     \* runtime
    /\ n > 17 => Evidence.row = Active                              \* evidence
    /\ n > 20 => ~journal /\ staged = 0                             \* cleanup
    /\ n \in {20, 21, 24} => DocumentsAgree /\ Evidence.rel = tx.rel  \* verified
    /\ n = 22 => AllBelong
    /\ n <= 20 => tx.state = "prepared"

OnTrack ==
    tx.mode # "none" /\ ~tx.undoing =>
        \/ tx.mode # "rollback" /\ tx.unproven /\ tx.todo = <<>>
        \/ /\ tx.mode = "rollback" \/ ~tx.unproven
           /\ \E n \in 1..24 : Tracks(tx, n) /\ Progress(n)

-----------------------------------------------------------------------------
(* What a failed transaction still has to do.                              *)

Ahead(todo, s) == \E i \in 1..Len(todo) : todo[i] = s

\* The documents as the transaction found them.
Found(ds, t) == [d \in Documents |-> IF d \in t.wrote THEN t.originals[d] ELSE ds[d]]

\* v, as document d, belongs to the first activation.
Bound(d, v) == v.rel = rows[1] /\ (d \notin ReleaseDocuments => v.row = 1)

BackingOut ==
    tx.undoing =>
        /\ \A i \in 1..Len(tx.todo) : tx.todo[i] \in Undos
        /\ Ahead(tx.todo, "roll back") => tx.mode = "upgrade"
        /\ Ahead(tx.todo, "teardown") => tx.mode = "fresh"
        /\ tx.mode = "rollback" => tx.unproven
        /\ ~tx.unproven =>
              /\ Ahead(tx.todo, "undo documents") \/ docs = Found(docs, tx)
              /\ tx.mode = "fresh" =>
                    rows = <<>> \/ (tx.activated # 0 /\ Ahead(tx.todo, "undo journal"))
              /\ tx.mode = "upgrade" /\ tx.activated = 0 => Len(rows) = 1
              /\ tx.mode = "upgrade" /\ tx.activated # 0 => Ahead(tx.todo, "roll back")

\* What holds from the first step of a command to its last.
Found0 == Found(docs, tx)
Modal ==
    /\ tx.mode = "none" => tx = NoTx
    /\ tx.mode # "none" => last.outcome = "none" /\ tx.rel \in Releases
    /\ tx.mode = "fresh" => /\ Len(rows) <= 1 /\ last.row = 0
                            /\ \A d \in Documents : Found0[d] = NoDoc
    /\ tx.mode = "upgrade" =>
          /\ Len(rows) \in 1..2 /\ last.row = 1
          /\ \A d \in Documents : Found0[d] # NoDoc => Bound(d, Found0[d])
          /\ tx.prior \in Releases
          /\ tx.activated = 0 => marker = 1 /\ "marker" \notin tx.noted
    /\ tx.mode = "rollback" => Len(rows) <= 3
    /\ tx.mode \in {"upgrade", "rollback"} =>
          /\ MaxRelease >= 2
          /\ ~root => marker # 0 /\ "marker" \notin tx.noted

\* Nothing but a first install writes the marker while there is no staging root.
Unstaged == ~root => marker <= 1 /\ staged = 0

Typed == TypeOK /\ tx \in Transaction /\ last \in Command

IInv == /\ Typed /\ OnTrack /\ BackingOut /\ Modal /\ Unstaged
        /\ WrittenMeansInstalled /\ ErrorIsCoherent

-----------------------------------------------------------------------------
(* The plans.                                                              *)

\* A sequence of n steps, and one sequence after another: kept folded in the proofs.
List(s, n) == n \in Nat /\ s \in Seq(Words) /\ Len(s) = n
Cat(s, t) == s \o t

LEMMA CatList ==
    ASSUME NEW s, NEW t, NEW m \in Nat, NEW n \in Nat, List(s, m), List(t, n)
    PROVE  /\ List(Cat(s, t), m + n)
           /\ \A i \in 1..(m + n) : Cat(s, t)[i] = IF i <= m THEN s[i] ELSE t[i - m]
    BY DEF List, Cat

LEMMA PlanParts ==
    /\ List(Prepare, 6) /\ \A i \in 1..6 : Prepare[i] \in Early
    /\ List(Record, 3)
    /\ Record[1] = "evidence" /\ Record[2] = "attestation" /\ Record[3] = "verified"
    /\ List(<<"cleanup">>, 1) /\ <<"cleanup">>[1] = "cleanup"
    /\ List(<<"gate">>, 1) /\ \A i \in 1..1 : <<"gate">>[i] \in Early
    /\ List(<<>>, 0)
<1> USE DEF Words, ObjectSteps, Checks, Documents, ReleaseDocuments, Early, List
<1>1. List(Prepare, 6)
    BY DEF Prepare
<1>2. \A i \in 1..6 : Prepare[i] \in Early
    BY DEF Prepare
<1>3. List(Record, 3)
    BY DEF Record
<1>4. Record[1] = "evidence" /\ Record[2] = "attestation" /\ Record[3] = "verified"
    BY DEF Record
<1>5. List(<<"cleanup">>, 1) /\ <<"cleanup">>[1] = "cleanup"
    OBVIOUS
<1>6. List(<<"gate">>, 1) /\ \A i \in 1..1 : <<"gate">>[i] \in Early
    OBVIOUS
<1>7. List(<<>>, 0)
    BY EmptySeq
<1> QED
    BY <1>1, <1>2, <1>3, <1>4, <1>5, <1>6, <1>7

DriveHead == <<"tls", "locator", "signer", "key">>
DriveTail == <<"unit", "service", "verify", "activate", "marker", "runtime">>

LEMMA DriveParts ==
    /\ List(DriveHead, 4) /\ \A i \in 1..4 : DriveHead[i] \in Early
    /\ List(DriveTail, 6) /\ DriveTail[1] \in Early /\ DriveTail[2] \in Early
    /\ DriveTail[3] = "verify" /\ DriveTail[4] = "activate"
    /\ DriveTail[5] = "marker" /\ DriveTail[6] = "runtime"
<1>1. List(DriveHead, 4)
    BY DEF DriveHead, Words, ObjectSteps, List
<1>2. \A i \in 1..4 : DriveHead[i] \in Early
    BY DEF DriveHead, Early
<1>3. List(DriveTail, 6)
    BY DEF DriveTail, Words, ObjectSteps, Checks, List
<1>4. /\ DriveTail[1] \in Early /\ DriveTail[2] \in Early
      /\ DriveTail[3] = "verify" /\ DriveTail[4] = "activate"
      /\ DriveTail[5] = "marker" /\ DriveTail[6] = "runtime"
    BY DEF DriveTail, Early
<1> QED
    BY <1>1, <1>2, <1>3, <1>4

LEMMA DrivePlan ==
    ASSUME NEW gate, NEW g \in Nat, List(gate, g), \A i \in 1..g : gate[i] \in Early
    PROVE  /\ List(Drive(gate), g + 10)
           /\ \A i \in 1..(g + 6) : Drive(gate)[i] \in Early
           /\ Drive(gate)[g + 7] = "verify" /\ Drive(gate)[g + 8] = "activate"
           /\ Drive(gate)[g + 9] = "marker" /\ Drive(gate)[g + 10] = "runtime"
<1> DEFINE start == Cat(DriveHead, gate)
           all == Cat(start, DriveTail)
<1>1. Drive(gate) = all
    BY DEF Drive, DriveHead, DriveTail, Cat
<1>2. /\ List(start, 4 + g)
      /\ \A i \in 1..(4 + g) : start[i] = IF i <= 4 THEN DriveHead[i] ELSE gate[i - 4]
    BY DriveParts, CatList
<1>3. \A i \in 1..(4 + g) : start[i] \in Early
    BY <1>2, DriveParts
<1> HIDE DEF start
<1>4. /\ List(all, (4 + g) + 6)
      /\ \A i \in 1..((4 + g) + 6) :
            all[i] = IF i <= 4 + g THEN start[i] ELSE DriveTail[i - (4 + g)]
    BY <1>2, DriveParts, CatList
<1> HIDE DEF all
<1>5. \A i \in 1..(g + 6) : all[i] \in Early
  <2> SUFFICES ASSUME NEW i \in 1..(g + 6) PROVE all[i] \in Early
      OBVIOUS
  <2>1. CASE i <= 4 + g
      BY <1>3, <1>4, <2>1
  <2>2. CASE ~(i <= 4 + g)
    <3>1. all[i] = DriveTail[i - (4 + g)]
        BY <1>4, <2>2
    <3>2. i - (4 + g) = 1 \/ i - (4 + g) = 2
        BY <2>2
    <3> QED
        BY <3>1, <3>2, DriveParts
  <2> QED
      BY <2>1, <2>2
<1>6. /\ all[g + 7] = DriveTail[3] /\ all[g + 8] = DriveTail[4]
      /\ all[g + 9] = DriveTail[5] /\ all[g + 10] = DriveTail[6]
    BY <1>4
<1>7. List(all, g + 10)
  <2>1. (4 + g) + 6 = g + 10
      OBVIOUS
  <2> QED
      BY <1>4, <2>1
<1> QED
    BY <1>1, <1>5, <1>6, <1>7, DriveParts

LEMMA ForwardPlan ==
    /\ List(Forward, 23)
    /\ \A i \in 1..12 : Forward[i] \in Early
    /\ Forward[13] = "verify" /\ Forward[14] = "activate" /\ Forward[15] = "marker"
    /\ Forward[16] = "runtime" /\ Forward[17] = "evidence" /\ Forward[18] = "attestation"
    /\ Forward[19] = "verified" /\ Forward[20] = "cleanup" /\ Forward[21] = "evidence"
    /\ Forward[22] = "attestation" /\ Forward[23] = "verified"
<1> DEFINE d == Drive(<<>>)
           one == <<"cleanup">>
           p1 == Cat(Prepare, d)
           p2 == Cat(p1, Record)
           p3 == Cat(p2, one)
           p4 == Cat(p3, Record)
<1>1. List(<<>>, 0) /\ \A i \in 1..0 : <<>>[i] \in Early
    BY PlanParts
<1>2. /\ List(d, 10) /\ \A i \in 1..6 : d[i] \in Early
      /\ d[7] = "verify" /\ d[8] = "activate" /\ d[9] = "marker" /\ d[10] = "runtime"
    BY <1>1, DrivePlan
<1>3. List(one, 1) /\ one[1] = "cleanup"
    BY PlanParts
<1>4. Forward = p4
    BY DEF Forward, Cat
<1>5. /\ List(Prepare, 6) /\ \A i \in 1..6 : Prepare[i] \in Early
      /\ List(Record, 3)
      /\ Record[1] = "evidence" /\ Record[2] = "attestation" /\ Record[3] = "verified"
    BY PlanParts
<1> HIDE DEF d, one
<1>6. List(p1, 16) /\ \A i \in 1..16 : p1[i] = IF i <= 6 THEN Prepare[i] ELSE d[i - 6]
    BY <1>2, <1>5, CatList
<1> HIDE DEF p1
<1>7. /\ \A i \in 1..12 : p1[i] \in Early
      /\ p1[13] = "verify" /\ p1[14] = "activate" /\ p1[15] = "marker" /\ p1[16] = "runtime"
    BY <1>2, <1>5, <1>6
<1>8. List(p2, 19) /\ \A i \in 1..19 : p2[i] = IF i <= 16 THEN p1[i] ELSE Record[i - 16]
    BY <1>5, <1>6, CatList
<1> HIDE DEF p2
<1>9. List(p3, 20) /\ \A i \in 1..20 : p3[i] = IF i <= 19 THEN p2[i] ELSE one[i - 19]
    BY <1>3, <1>8, CatList
<1> HIDE DEF p3
<1>10. List(p4, 23) /\ \A i \in 1..23 : p4[i] = IF i <= 20 THEN p3[i] ELSE Record[i - 20]
    BY <1>5, <1>9, CatList
<1> HIDE DEF p4
<1> QED
    BY <1>3, <1>4, <1>5, <1>7, <1>8, <1>9, <1>10

LEMMA BackwardPlan ==
    /\ List(Backward, 15)
    /\ \A i \in 1..7 : Backward[i] \in Early
    /\ Backward[8] = "verify" /\ Backward[9] = "activate" /\ Backward[10] = "marker"
    /\ Backward[11] = "runtime" /\ Backward[12] = "evidence" /\ Backward[13] = "attestation"
    /\ Backward[14] = "verified" /\ Backward[15] = "cleanup"
<1> DEFINE gate == <<"gate">>
           d == Drive(gate)
           one == <<"cleanup">>
           p1 == Cat(d, Record)
           p2 == Cat(p1, one)
<1>1. /\ List(gate, 1) /\ \A i \in 1..1 : gate[i] \in Early
      /\ List(one, 1) /\ one[1] = "cleanup"
      /\ List(Record, 3)
      /\ Record[1] = "evidence" /\ Record[2] = "attestation" /\ Record[3] = "verified"
    BY PlanParts
<1>2. Backward = p2
    BY DEF Backward, Cat
<1> HIDE DEF gate, one
<1>3. /\ List(d, 11) /\ \A i \in 1..7 : d[i] \in Early
      /\ d[8] = "verify" /\ d[9] = "activate" /\ d[10] = "marker" /\ d[11] = "runtime"
    BY <1>1, DrivePlan
<1> HIDE DEF d
<1>4. List(p1, 14) /\ \A i \in 1..14 : p1[i] = IF i <= 11 THEN d[i] ELSE Record[i - 11]
    BY <1>1, <1>3, CatList
<1> HIDE DEF p1
<1>5. List(p2, 15) /\ \A i \in 1..15 : p2[i] = IF i <= 14 THEN p1[i] ELSE one[i - 14]
    BY <1>1, <1>4, CatList
<1> HIDE DEF p2
<1> QED
    BY <1>1, <1>2, <1>3, <1>4, <1>5

\* The steps of a compensation.
LEMMA AheadCat ==
    ASSUME NEW s, NEW t, NEW m \in Nat, NEW n \in Nat, List(s, m), List(t, n)
    PROVE  /\ List(Cat(s, t), m + n)
           /\ \A x \in Words : Ahead(Cat(s, t), x) <=> Ahead(s, x) \/ Ahead(t, x)
<1>1. /\ List(Cat(s, t), m + n)
      /\ \A i \in 1..(m + n) : Cat(s, t)[i] = IF i <= m THEN s[i] ELSE t[i - m]
    BY CatList
<1>2. Len(s) = m /\ Len(t) = n /\ Len(Cat(s, t)) = m + n
    BY <1>1 DEF List
<1>3. \A i \in 1..m : Cat(s, t)[i] = s[i]
    BY <1>1
<1>4. \A i \in 1..n : Cat(s, t)[i + m] = t[i] /\ i + m \in 1..(m + n)
    BY <1>1
<1>5. \A i \in 1..(m + n) : \/ i \in 1..m /\ Cat(s, t)[i] = s[i]
                            \/ i - m \in 1..n /\ Cat(s, t)[i] = t[i - m]
    BY <1>1
<1>6. \A x \in Words : Ahead(s, x) => Ahead(Cat(s, t), x)
    BY <1>2, <1>3 DEF Ahead
<1>7. \A x \in Words : Ahead(t, x) => Ahead(Cat(s, t), x)
    BY <1>2, <1>4 DEF Ahead
<1>8. \A x \in Words : Ahead(Cat(s, t), x) => Ahead(s, x) \/ Ahead(t, x)
    BY <1>2, <1>5 DEF Ahead
<1> QED
    BY <1>1, <1>6, <1>7, <1>8

LEMMA SmallPlans ==
    /\ List(<<>>, 0) /\ \A x \in Words : ~Ahead(<<>>, x)
    /\ \A w \in Words : List(<<w>>, 1) /\ \A x \in Words : Ahead(<<w>>, x) <=> x = w
    /\ \A v, w \in Words : List(<<v, w>>, 2) /\ \A x \in Words : Ahead(<<v, w>>, x) <=> x = v \/ x = w
    /\ List(UndoAdapter, 3)
    /\ \A x \in Words : Ahead(UndoAdapter, x) <=> x \in {"undo marker", "undo objects", "undo journal"}
<1>1. List(<<>>, 0) /\ \A x \in Words : ~Ahead(<<>>, x)
    BY EmptySeq DEF List, Ahead
<1>2. \A w \in Words : List(<<w>>, 1) /\ \A x \in Words : Ahead(<<w>>, x) <=> x = w
    BY DEF List, Ahead
<1>3. \A v, w \in Words : List(<<v, w>>, 2) /\ \A x \in Words : Ahead(<<v, w>>, x) <=> x = v \/ x = w
  <2> SUFFICES ASSUME NEW v \in Words, NEW w \in Words
               PROVE  List(<<v, w>>, 2) /\ \A x \in Words : Ahead(<<v, w>>, x) <=> x = v \/ x = w
      OBVIOUS
  <2>1. List(<<v, w>>, 2)
      BY DEF List
  <2>2. Len(<<v, w>>) = 2 /\ <<v, w>>[1] = v /\ <<v, w>>[2] = w /\ 1..2 = {1, 2}
      OBVIOUS
  <2> QED
      BY <2>1, <2>2 DEF Ahead
<1>4. List(UndoAdapter, 3)
    BY DEF List, UndoAdapter, Words, Undos
<1>5. \A x \in Words : Ahead(UndoAdapter, x) <=> x \in {"undo marker", "undo objects", "undo journal"}
  <2>1. /\ Len(UndoAdapter) = 3 /\ 1..3 = {1, 2, 3} /\ UndoAdapter[1] = "undo marker"
        /\ UndoAdapter[2] = "undo objects" /\ UndoAdapter[3] = "undo journal"
      BY DEF UndoAdapter
  <2> QED
      BY <2>1, Zenon DEF Ahead
<1> QED
    BY <1>1, <1>2, <1>3, <1>4, <1>5

\* A compensation consists of undo steps, the documents' among them; a first install
\* that has changed anything undoes its journal, an upgrade that has activated rolls
\* back, and nothing else does.
LEMMA CompensationPlan ==
    ASSUME NEW t
    PROVE  /\ \E n \in Nat : List(Compensation(t), n)
           /\ \A x \in Words : Ahead(Compensation(t), x) => x \in Undos
           /\ Ahead(Compensation(t), "undo documents")
           /\ Ahead(Compensation(t), "roll back") <=> t.mode = "upgrade" /\ t.activated # 0
           /\ Ahead(Compensation(t), "teardown") => t.mode = "fresh"
           /\ t.mode = "fresh" /\ t.noted # {} => Ahead(Compensation(t), "undo journal")
<1> DEFINE adapter == IF t.noted # {} THEN UndoAdapter ELSE <<>>
           stackup == IF t.stackUp THEN <<"restore stack">> ELSE <<>>
           tear == IF t.mode = "fresh" THEN <<"teardown">> ELSE <<>>
           stk == <<"restore stack">>
           doc == <<"undo documents">>
           back == <<"undo documents", "roll back">>
<1>0. {"restore stack", "undo documents", "roll back", "teardown", "undo journal"} \subseteq Words
    BY DEF Words, Undos
<1>1. PICK a \in Nat : List(adapter, a)
    BY SmallPlans
<1>2. PICK b \in Nat : List(stackup, b)
    BY <1>0, SmallPlans
<1>3. PICK e \in Nat : List(tear, e)
    BY <1>0, SmallPlans
<1>4. List(stk, 1) /\ List(doc, 1) /\ List(back, 2)
    BY <1>0, SmallPlans
<1>5. \A x \in Words : Ahead(adapter, x) <=> t.noted # {} /\ x \in {"undo marker", "undo objects", "undo journal"}
    BY SmallPlans
<1>6. \A x \in Words : Ahead(stackup, x) <=> t.stackUp /\ x = "restore stack"
    BY <1>0, SmallPlans
<1>7. \A x \in Words : Ahead(tear, x) <=> t.mode = "fresh" /\ x = "teardown"
    BY <1>0, SmallPlans
<1>8. \A x \in Words : Ahead(stk, x) <=> x = "restore stack"
    BY <1>0, SmallPlans
<1>9. \A x \in Words : Ahead(doc, x) <=> x = "undo documents"
    BY <1>0, SmallPlans
<1>10. \A x \in Words : Ahead(back, x) <=> x = "undo documents" \/ x = "roll back"
    BY <1>0, SmallPlans
<1>11. Compensation(t) =
        IF t.mode = "rollback" THEN Cat(adapter, doc)
        ELSE IF t.mode = "upgrade" /\ t.activated # 0 THEN Cat(Cat(stk, adapter), back)
             ELSE Cat(Cat(Cat(adapter, stackup), doc), tear)
    BY DEF Compensation, Cat
<1> HIDE DEF adapter, stackup, tear, stk, doc, back
<1>12. CASE t.mode = "rollback"
  <2>1. /\ List(Cat(adapter, doc), a + 1)
        /\ \A x \in Words : Ahead(Cat(adapter, doc), x) <=> Ahead(adapter, x) \/ Ahead(doc, x)
      BY <1>1, <1>4, AheadCat
  <2>2. Compensation(t) = Cat(adapter, doc)
      BY <1>11, <1>12
  <2>3. /\ \E n \in Nat : List(Compensation(t), n)
        /\ \A x \in Words : Ahead(Compensation(t), x) <=>
                    (t.noted # {} /\ x \in {"undo marker", "undo objects", "undo journal"})
                    \/ x = "undo documents"
    <3>1. \E n \in Nat : List(Compensation(t), n)
        BY <2>1, <2>2
    <3>2. \A x \in Words : Ahead(Compensation(t), x) <=>
                    (t.noted # {} /\ x \in {"undo marker", "undo objects", "undo journal"})
                    \/ x = "undo documents"
        BY <1>5, <1>9, <2>1, <2>2
    <3> QED
        BY <3>1, <3>2
  <2>4. \A x \in Words : Ahead(Compensation(t), x) => x \in Undos
      BY <2>3 DEF Undos
  <2>5. Ahead(Compensation(t), "undo documents")
      BY <1>0, <2>3
  <2>6. Ahead(Compensation(t), "roll back") <=> t.mode = "upgrade" /\ t.activated # 0
      BY <1>0, <1>12, <2>3
  <2>7. Ahead(Compensation(t), "teardown") => t.mode = "fresh"
      BY <1>0, <1>12, <2>3
  <2>8. t.mode = "fresh" /\ t.noted # {} => Ahead(Compensation(t), "undo journal")
      BY <1>0, <1>12, <2>3
  <2> QED
      BY <2>3, <2>4, <2>5, <2>6, <2>7, <2>8
<1>13. CASE t.mode = "upgrade" /\ t.activated # 0
  <2>1. /\ List(Cat(stk, adapter), 1 + a)
        /\ \A x \in Words : Ahead(Cat(stk, adapter), x) <=> Ahead(stk, x) \/ Ahead(adapter, x)
      BY <1>1, <1>4, AheadCat
  <2>2. /\ List(Cat(Cat(stk, adapter), back), (1 + a) + 2)
        /\ \A x \in Words : Ahead(Cat(Cat(stk, adapter), back), x) <=> Ahead(Cat(stk, adapter), x) \/ Ahead(back, x)
      BY <1>4, <2>1, AheadCat
  <2>3. Compensation(t) = Cat(Cat(stk, adapter), back)
      BY <1>11, <1>13
  <2>4. /\ \E n \in Nat : List(Compensation(t), n)
        /\ \A x \in Words : Ahead(Compensation(t), x) <=>
                    (t.noted # {} /\ x \in {"undo marker", "undo objects", "undo journal"})
                    \/ x \in {"restore stack", "undo documents", "roll back"}
    <3>1. \E n \in Nat : List(Compensation(t), n)
        BY <2>2, <2>3
    <3>2. \A x \in Words : Ahead(Compensation(t), x) <=>
                    (t.noted # {} /\ x \in {"undo marker", "undo objects", "undo journal"})
                    \/ x \in {"restore stack", "undo documents", "roll back"}
        BY <1>5, <1>8, <1>10, <2>1, <2>2, <2>3
    <3> QED
        BY <3>1, <3>2
  <2>5. \A x \in Words : Ahead(Compensation(t), x) => x \in Undos
      BY <2>4 DEF Undos
  <2>6. Ahead(Compensation(t), "undo documents")
      BY <1>0, <2>4
  <2>7. Ahead(Compensation(t), "roll back") <=> t.mode = "upgrade" /\ t.activated # 0
      BY <1>0, <1>13, <2>4
  <2>8. Ahead(Compensation(t), "teardown") => t.mode = "fresh"
      BY <1>0, <1>13, <2>4
  <2>9. t.mode = "fresh" /\ t.noted # {} => Ahead(Compensation(t), "undo journal")
      BY <1>0, <1>13, <2>4
  <2> QED
      BY <2>4, <2>5, <2>6, <2>7, <2>8, <2>9
<1>14. CASE t.mode # "rollback" /\ ~(t.mode = "upgrade" /\ t.activated # 0)
  <2>1. /\ List(Cat(adapter, stackup), a + b)
        /\ \A x \in Words : Ahead(Cat(adapter, stackup), x) <=> Ahead(adapter, x) \/ Ahead(stackup, x)
      BY <1>1, <1>2, AheadCat
  <2> DEFINE front == Cat(adapter, stackup)
             mid == Cat(front, doc)
  <2> HIDE DEF front
  <2>2. /\ List(mid, (a + b) + 1)
        /\ \A x \in Words : Ahead(mid, x) <=> Ahead(front, x) \/ Ahead(doc, x)
      BY <1>4, <2>1, AheadCat DEF front
  <2> HIDE DEF mid
  <2>3. /\ List(Cat(mid, tear), ((a + b) + 1) + e)
        /\ \A x \in Words : Ahead(Cat(mid, tear), x) <=> Ahead(mid, x) \/ Ahead(tear, x)
      BY <1>3, <2>2, AheadCat
  <2>4. Compensation(t) = Cat(mid, tear)
      BY <1>11, <1>14 DEF front, mid
  <2>5. \E n \in Nat : List(Compensation(t), n)
      BY <2>3, <2>4
  <2>6. \A x \in Words : Ahead(Compensation(t), x) <=>
                  \/ t.noted # {} /\ x \in {"undo marker", "undo objects", "undo journal"}
                  \/ t.stackUp /\ x = "restore stack"
                  \/ x = "undo documents"
                  \/ t.mode = "fresh" /\ x = "teardown"
      BY <1>5, <1>6, <1>7, <1>9, <2>1, <2>2, <2>3, <2>4 DEF front
  <2>7. \A x \in Words : Ahead(Compensation(t), x) => x \in Undos
      BY <2>6 DEF Undos
  <2>8. Ahead(Compensation(t), "undo documents")
      BY <1>0, <2>6
  <2>9. Ahead(Compensation(t), "roll back") <=> t.mode = "upgrade" /\ t.activated # 0
      BY <1>0, <1>14, <2>6
  <2>10. Ahead(Compensation(t), "teardown") => t.mode = "fresh"
      BY <1>0, <1>14, <2>6
  <2>11. t.mode = "fresh" /\ t.noted # {} => Ahead(Compensation(t), "undo journal")
      BY <1>0, <1>14, <2>6
  <2> QED
      BY <2>5, <2>7, <2>8, <2>9, <2>10, <2>11
<1> QED
    BY <1>12, <1>13, <1>14

\* The next step is taken off a plan.
LEMMA PlanTail ==
    ASSUME NEW todo \in Seq(Words), todo # <<>>
    PROVE  /\ Tail(todo) \in Seq(Words) /\ Head(todo) \in Words
           /\ \A x \in Words : Ahead(todo, x) <=> x = Head(todo) \/ Ahead(Tail(todo), x)
           /\ \A plan, k : Len(plan) \in Nat /\ OnPlan(todo, plan, k) =>
                 OnPlan(Tail(todo), plan, k + 1) /\ Head(todo) = plan[k] /\ k <= Len(plan)
<1>1. /\ Tail(todo) \in Seq(Words) /\ Head(todo) \in Words
      /\ Len(Tail(todo)) = Len(todo) - 1
      /\ \A i \in 1..Len(Tail(todo)) : Tail(todo)[i] = todo[i + 1]
    BY HeadTailProperties
<1>2. \A x \in Words : Ahead(todo, x) <=> x = Head(todo) \/ Ahead(Tail(todo), x)
  <2>1. Head(todo) = todo[1] /\ Len(todo) \in Nat /\ Len(todo) >= 1
      BY HeadTailProperties, LenProperties
  <2>2. \A i \in 1..Len(todo) : i = 1 \/ (i - 1 \in 1..Len(Tail(todo)) /\ Tail(todo)[i - 1] = todo[i])
      BY <1>1, <2>1
  <2>3. \A i \in 1..Len(Tail(todo)) : i + 1 \in 1..Len(todo) /\ Tail(todo)[i] = todo[i + 1]
      BY <1>1, <2>1
  <2>4. 1 \in 1..Len(todo)
      BY <2>1
  <2> QED
      BY <2>1, <2>2, <2>3, <2>4 DEF Ahead
<1>3. ASSUME NEW plan, NEW k, Len(plan) \in Nat, OnPlan(todo, plan, k)
      PROVE  OnPlan(Tail(todo), plan, k + 1) /\ Head(todo) = plan[k] /\ k <= Len(plan)
  <2>1. Head(todo) = todo[1] /\ Len(todo) \in Nat /\ Len(todo) >= 1
      BY HeadTailProperties, LenProperties
  <2>2. /\ k \in 1..(Len(plan) + 1) /\ Len(todo) = Len(plan) + 1 - k
        /\ \A i \in 1..Len(todo) : todo[i] = plan[k + i - 1]
      BY <1>3 DEF OnPlan
  <2>3. k <= Len(plan) /\ k + 1 \in 1..(Len(plan) + 1)
      BY <1>3, <2>1, <2>2
  <2>4. todo[1] = plan[k]
    <3>1. k + 1 - 1 = k /\ 1 \in 1..Len(todo)
        BY <1>3, <2>1, <2>2
    <3> QED
        BY <2>2, <3>1
  <2>5. ASSUME NEW i \in 1..Len(Tail(todo)) PROVE Tail(todo)[i] = plan[(k + 1) + i - 1]
    <3>1. i + 1 \in 1..Len(todo) /\ k + (i + 1) - 1 = (k + 1) + i - 1
        BY <1>1, <1>3, <2>1, <2>2
    <3>2. todo[i + 1] = plan[k + (i + 1) - 1]
        BY <2>2, <3>1
    <3> QED
        BY <1>1, <3>1, <3>2
  <2>6. Len(Tail(todo)) = Len(plan) + 1 - (k + 1)
      BY <1>1, <1>3, <2>1, <2>2
  <2> QED
      BY <2>1, <2>3, <2>4, <2>5, <2>6 DEF OnPlan
<1> QED
    BY <1>1, <1>2, <1>3

\* The step a transaction is at, by its place in the plan.
Place(w, n) ==
    /\ n <= 12 => w \in Early
    /\ n = 13 => w = "verify"
    /\ n = 14 => w = "activate"
    /\ n = 15 => w = "marker"
    /\ n = 16 => w = "runtime"
    /\ n \in {17, 21} => w = "evidence"
    /\ n \in {18, 22} => w = "attestation"
    /\ n \in {19, 23} => w = "verified"
    /\ n = 20 => w = "cleanup"

LEMMA PlanPlaces ==
    /\ Len(Forward) = 23 /\ Len(Backward) = 15
    /\ \A n \in 1..23 : Place(Forward[n], n)
    /\ \A k \in 1..15 : Place(Backward[k], k + 5)
<1>1. Len(Forward) = 23 /\ Len(Backward) = 15
    BY ForwardPlan, BackwardPlan DEF List
<1>2. \A n \in 1..23 : Place(Forward[n], n)
    BY ForwardPlan DEF Place
<1>3. \A k \in 1..15 : Place(Backward[k], k + 5)
  <2> SUFFICES ASSUME NEW k \in 1..15 PROVE Place(Backward[k], k + 5)
      OBVIOUS
  <2>1. k <= 7 => Backward[k] \in Early
      BY BackwardPlan
  <2> QED
      BY <2>1, BackwardPlan DEF Place
<1> QED
    BY <1>1, <1>2, <1>3

\* Taking a step moves a transaction one place on; its plan ends at place 24, a
\* rollback's at place 21.
LEMMA TrackStep ==
    ASSUME NEW t, t.todo \in Seq(Words), NEW n \in 1..24, Tracks(t, n)
    PROVE  /\ t.todo = <<>> => n = IF t.mode = "rollback" THEN 21 ELSE 24
           /\ t.todo # <<>> => /\ n <= 23 /\ Place(Head(t.todo), n)
                               /\ t.mode = "rollback" => n <= 20
                               /\ \A u : u.mode = t.mode /\ u.todo = Tail(t.todo) => Tracks(u, n + 1)
<1>1. CASE t.mode = "rollback"
  <2>1. OnPlan(t.todo, Backward, n - 5)
      BY <1>1 DEF Tracks
  <2>2. t.todo = <<>> => n = 21
    <3>1. t.todo = <<>> => Len(t.todo) = 0
        BY EmptySeq
    <3> QED
        BY <2>1, <3>1, PlanPlaces DEF OnPlan
  <2>3. ASSUME t.todo # <<>>
        PROVE  /\ n <= 20 /\ Place(Head(t.todo), n)
               /\ \A u : u.mode = t.mode /\ u.todo = Tail(t.todo) => Tracks(u, n + 1)
    <3>1. /\ OnPlan(Tail(t.todo), Backward, (n - 5) + 1)
          /\ Head(t.todo) = Backward[n - 5] /\ n - 5 <= 15
      <4>1. Len(Backward) \in Nat
          BY PlanPlaces
      <4>2. /\ OnPlan(Tail(t.todo), Backward, (n - 5) + 1)
            /\ Head(t.todo) = Backward[n - 5] /\ n - 5 <= Len(Backward)
          BY <2>1, <2>3, <4>1, PlanTail, Zenon
      <4> QED
          BY <4>2, PlanPlaces
    <3>2. n - 5 \in 1..15
        BY <2>1, <3>1, PlanPlaces DEF OnPlan
    <3>3. n <= 20 /\ (n - 5) + 5 = n /\ (n - 5) + 1 = (n + 1) - 5
        BY <3>1
    <3>4. Place(Head(t.todo), n)
      <4>1. Place(Backward[n - 5], (n - 5) + 5)
          BY <3>2, PlanPlaces
      <4> QED
          BY <3>1, <3>3, <4>1
    <3>5. ASSUME NEW u, u.mode = t.mode, u.todo = Tail(t.todo) PROVE Tracks(u, n + 1)
        BY <1>1, <3>1, <3>3, <3>5 DEF Tracks
    <3> QED
        BY <3>3, <3>4, <3>5, Zenon
  <2> QED
      BY <1>1, <2>2, <2>3
<1>2. CASE t.mode # "rollback"
  <2>1. OnPlan(t.todo, Forward, n)
      BY <1>2 DEF Tracks
  <2>2. t.todo = <<>> => n = 24
    <3>1. t.todo = <<>> => Len(t.todo) = 0
        BY EmptySeq
    <3> QED
        BY <2>1, <3>1, PlanPlaces DEF OnPlan
  <2>3. ASSUME t.todo # <<>>
        PROVE  /\ n <= 23 /\ Place(Head(t.todo), n)
               /\ \A u : u.mode = t.mode /\ u.todo = Tail(t.todo) => Tracks(u, n + 1)
    <3>1. /\ OnPlan(Tail(t.todo), Forward, n + 1)
          /\ Head(t.todo) = Forward[n] /\ n <= 23
      <4>1. Len(Forward) \in Nat
          BY PlanPlaces
      <4>2. /\ OnPlan(Tail(t.todo), Forward, n + 1)
            /\ Head(t.todo) = Forward[n] /\ n <= Len(Forward)
          BY <2>1, <2>3, <4>1, PlanTail, Zenon
      <4> QED
          BY <4>2, PlanPlaces
    <3>2. n \in 1..23
        BY <3>1
    <3>3. Place(Head(t.todo), n)
        BY <3>1, <3>2, PlanPlaces
    <3>4. ASSUME NEW u, u.mode = t.mode, u.todo = Tail(t.todo) PROVE Tracks(u, n + 1)
        BY <1>2, <3>1, <3>4 DEF Tracks
    <3> QED
        BY <3>1, <3>3, <3>4, Zenon
  <2> QED
      BY <1>2, <2>2, <2>3
<1> QED
    BY <1>1, <1>2

\* Which places a step has.
LEMMA PlaceOf ==
    ASSUME NEW w \in Words, NEW n \in 1..23, Place(w, n)
    PROVE  /\ w \notin Undos
           /\ w = "verify" => n = 13
           /\ w = "activate" => n = 14
           /\ w = "marker" => n = 15
           /\ w = "runtime" => n = 16
           /\ w = "evidence" => n \in {17, 21}
           /\ w = "attestation" => n \in {18, 22}
           /\ w = "verified" => n \in {19, 23}
           /\ w = "cleanup" => n = 20
           /\ w \in Early => n <= 12
<1>1. w \in Early \/ w \in {"verify", "activate", "marker", "runtime", "evidence",
                            "attestation", "verified", "cleanup"}
    BY DEF Place
<1>2. w \notin Undos
    BY <1>1 DEF Early, Undos
<1>3. w \in Early => w \notin {"verify", "activate", "marker", "runtime", "evidence",
                               "attestation", "verified", "cleanup"}
    BY DEF Early
<1>4. /\ w = "verify" => n = 13
      /\ w = "activate" => n = 14
      /\ w = "marker" => n = 15
      /\ w = "runtime" => n = 16
    BY <1>3 DEF Place
<1>5. /\ w = "evidence" => n \in {17, 21}
      /\ w = "attestation" => n \in {18, 22}
      /\ w = "verified" => n \in {19, 23}
      /\ w = "cleanup" => n = 20
    BY <1>3 DEF Place
<1>6. w \in Early => n <= 12
    BY <1>3 DEF Place
<1> QED
    BY <1>2, <1>4, <1>5, <1>6

-----------------------------------------------------------------------------
(* The shapes of the transaction record.                                   *)

LEMMA NoTransaction ==
    /\ NoTx \in Transaction
    /\ NoTx.mode = "none" /\ NoTx.undoing = FALSE /\ NoTx.unproven = FALSE
    /\ NoTx.noted = {} /\ NoTx.wrote = {} /\ NoTx.activated = 0 /\ NoTx.todo = <<>>
<1>1. {"none"} \subseteq Modes /\ "none" \in {"none", "prepared", "committed"}
    BY DEF Modes
<1>2. 0 \in 0..MaxRelease /\ 0 \in Rows /\ 0 \in Nat
    BY FinalizationAssumption DEF Rows, MaxRows
<1>3. NoDoc \in Document
    BY <1>2 DEF NoDoc, Document
<1>4. [d \in Documents |-> NoDoc] \in [Documents -> Document]
    BY <1>3
<1>5. <<>> \in Seq(Words)
    BY EmptySeq
<1>6. NoTx \in Transaction
    BY <1>1, <1>2, <1>4, <1>5, Zenon DEF NoTx, Transaction
<1> QED
    BY <1>6 DEF NoTx

LEMMA BeginShape ==
    ASSUME NEW m \in Modes, NEW r \in 0..MaxRelease, NEW p \in 0..MaxRelease,
           NEW q \in Seq(Words), NEW b \in BOOLEAN
    PROVE  /\ [NoTx EXCEPT !.mode = m, !.rel = r, !.todo = q, !.state = "prepared"] \in Transaction
           /\ [NoTx EXCEPT !.mode = m, !.rel = r, !.prior = p, !.todo = q,
                           !.state = "prepared"] \in Transaction
           /\ [NoTx EXCEPT !.mode = m, !.rel = r, !.todo = q, !.state = "prepared",
                           !.unproven = b] \in Transaction
<1>1. "prepared" \in {"none", "prepared", "committed"}
    OBVIOUS
<1> QED
    BY <1>1, NoTransaction, Zenon DEF Transaction

\* What every step of a transaction keeps.
Same(u, t) == u.mode = t.mode /\ u.rel = t.rel /\ u.prior = t.prior

LEMMA ForwardShape ==
    ASSUME NEW t \in Transaction, NEW q \in Seq(Words)
    PROVE  LET a == [t EXCEPT !.todo = q] IN
           /\ a \in Transaction
           /\ \A x \in SUBSET Words, y \in SUBSET Objects :
                 [a EXCEPT !.noted = @ \cup x, !.created = @ \cup y] \in Transaction
           /\ \A b \in BOOLEAN : [a EXCEPT !.stackUp = b] \in Transaction
           /\ \A x \in SUBSET Words, k \in Nat :
                 [a EXCEPT !.activated = k, !.noted = @ \cup x] \in Transaction
           /\ \A x \in SUBSET Words : [a EXCEPT !.noted = @ \cup x] \in Transaction
           /\ \A w \in {"none", "prepared", "committed"} : [a EXCEPT !.state = w] \in Transaction
           /\ \A b \in BOOLEAN : [a EXCEPT !.residual = b] \in Transaction
           /\ \A b \in BOOLEAN : [a EXCEPT !.unproven = b] \in Transaction
<1> DEFINE a == [t EXCEPT !.todo = q]
<1>1. a \in Transaction
    BY Zenon DEF Transaction
<1> HIDE DEF a
<1>2. \A x \in SUBSET Words, y \in SUBSET Objects :
          [a EXCEPT !.noted = @ \cup x, !.created = @ \cup y] \in Transaction
    BY <1>1, Zenon DEF Transaction
<1>3. \A b \in BOOLEAN : [a EXCEPT !.stackUp = b] \in Transaction
    BY <1>1, Zenon DEF Transaction
<1>4. \A x \in SUBSET Words, k \in Nat :
          [a EXCEPT !.activated = k, !.noted = @ \cup x] \in Transaction
    BY <1>1, Zenon DEF Transaction
<1>5. \A x \in SUBSET Words : [a EXCEPT !.noted = @ \cup x] \in Transaction
    BY <1>1, Zenon DEF Transaction
<1>6. \A w \in {"none", "prepared", "committed"} : [a EXCEPT !.state = w] \in Transaction
    BY <1>1, Zenon DEF Transaction
<1>7. \A b \in BOOLEAN : [a EXCEPT !.residual = b] \in Transaction
    BY <1>1, Zenon DEF Transaction
<1>8. \A b \in BOOLEAN : [a EXCEPT !.unproven = b] \in Transaction
    BY <1>1, Zenon DEF Transaction
<1> QED
    BY <1>1, <1>2, <1>3, <1>4, <1>5, <1>6, <1>7, <1>8, Zenon DEF a

Written(t, q, d, v) ==
    [[t EXCEPT !.todo = q] EXCEPT !.wrote = @ \cup {d},
                                  !.originals[d] = v]

Originals(t, d, v) == [t.originals EXCEPT ![d] = v]

LEMMA WriteShape ==
    ASSUME NEW t \in Transaction, NEW q \in Seq(Words), NEW d \in Documents, NEW v \in Document
    PROVE  /\ Written(t, q, d, v) \in Transaction
           /\ Written(t, q, d, v).originals = Originals(t, d, v)
<1> DEFINE o == [t.originals EXCEPT ![d] = v]
<1>1. t.originals \in [Documents -> Document]
    BY Zenon DEF Transaction
<1>2. o \in [Documents -> Document]
    BY <1>1
<1>3. Written(t, q, d, v) =
        [[t EXCEPT !.todo = q] EXCEPT !.wrote = @ \cup {d}, !.originals = o]
    BY DEF Transaction, Written
<1> HIDE DEF o
<1>4. [[t EXCEPT !.todo = q] EXCEPT !.wrote = @ \cup {d}, !.originals = o] \in Transaction
    BY <1>2, Zenon DEF Transaction
<1>5. Written(t, q, d, v).originals = o
    BY <1>3 DEF Transaction
<1> QED
    BY <1>3, <1>4, <1>5 DEF o, Originals

\* A step fails: the install stands and is reported unproven, or it is undone.
LEMMA FailShape ==
    ASSUME NEW t \in Transaction, NEW indeterminate \in BOOLEAN
    PROVE  LET u == Fails(t, indeterminate) IN
           /\ u \in Transaction /\ Same(u, t) /\ u.noted = t.noted /\ u.activated = t.activated
           /\ u.wrote = t.wrote /\ u.originals = t.originals
           /\ \/ /\ t.mode # "rollback" /\ u.todo = <<>> /\ u.unproven /\ u.undoing = t.undoing
              \/ /\ u.todo = Compensation(t) /\ u.undoing
                 /\ t.mode = "rollback" \/ indeterminate => u.unproven
<1> DEFINE left == [t EXCEPT !.todo = <<>>, !.unproven = TRUE]
           b == t.unproven \/ indeterminate \/ t.mode = "rollback"
           undone == [t EXCEPT !.todo = Compensation(t), !.undoing = TRUE, !.unproven = b]
<1>1. <<>> \in Seq(Words) /\ Compensation(t) \in Seq(Words)
    BY EmptySeq, CompensationPlan DEF List
<1>2. b \in BOOLEAN
    OBVIOUS
<1>3. Fails(t, indeterminate) = IF Cleaning(t) THEN left ELSE undone
    BY DEF Fails
<1>4. CASE Cleaning(t)
  <2>1. left \in Transaction
      BY <1>1, Zenon DEF Transaction
  <2>2. /\ Same(left, t) /\ left.noted = t.noted /\ left.activated = t.activated
        /\ left.wrote = t.wrote /\ left.originals = t.originals
        /\ left.todo = <<>> /\ left.unproven /\ left.undoing = t.undoing
      BY DEF Transaction, Same
  <2>3. t.mode # "rollback"
      BY <1>4 DEF Cleaning
  <2>4. Fails(t, indeterminate) = left
      BY <1>3, <1>4
  <2> HIDE DEF left
  <2> QED
      BY <2>1, <2>2, <2>3, <2>4
<1>5. CASE ~Cleaning(t)
  <2> HIDE DEF b
  <2>1. undone \in Transaction
      BY <1>1, <1>2, Zenon DEF Transaction
  <2>2. /\ Same(undone, t) /\ undone.noted = t.noted /\ undone.activated = t.activated
        /\ undone.wrote = t.wrote /\ undone.originals = t.originals
        /\ undone.todo = Compensation(t) /\ undone.undoing = TRUE /\ undone.unproven = b
      BY DEF Transaction, Same
  <2>3. t.mode = "rollback" \/ indeterminate => b
      BY DEF b
  <2>4. Fails(t, indeterminate) = undone
      BY <1>3, <1>5
  <2> HIDE DEF undone
  <2> QED
      BY <2>1, <2>2, <2>3, <2>4
<1> QED
    BY <1>4, <1>5

-----------------------------------------------------------------------------
(* Steps of a transaction.                                                 *)

\* The host's part of the type invariant.
Flag(b) == b \in BOOLEAN
HostOK ==
    /\ objs \subseteq Objects
    /\ rows \in Seq(Releases) /\ Len(rows) <= MaxRows
    /\ marker \in 0..Len(rows) /\ api \in 0..Len(rows) /\ staged \in 0..Len(rows)
    /\ stack \in 0..Mixed
    /\ docs \in [Documents -> Document]
    /\ Flag(journal) /\ Flag(root)
    /\ faults \in 0..MaxFaults

LEMMA TypedParts == Typed <=> HostOK /\ tx \in Transaction /\ last \in Command
<1>1. tx \in Transaction => /\ tx.mode \in {"none", "fresh", "upgrade", "rollback"}
                            /\ tx.created \subseteq Objects /\ tx.wrote \subseteq Documents
    BY DEF Transaction, Modes
<1>2. last \in Command =>
        last.outcome \in {"none", "written", "refused", "error", "recovery_required", "died"}
    BY DEF Command, Outcomes
<1>3. {journal, root} \subseteq BOOLEAN <=> Flag(journal) /\ Flag(root)
    BY Zenon DEF Flag
<1>4. {marker, api, staged} \subseteq 0..Len(rows) <=>
        marker \in 0..Len(rows) /\ api \in 0..Len(rows) /\ staged \in 0..Len(rows)
    BY Zenon
<1> QED
    BY <1>1, <1>2, <1>3, <1>4, Zenon DEF Typed, TypeOK, HostOK

TxOK == tx \in Transaction
LastOK == last \in Command

LEMMA TypedNext == HostOK' /\ tx' \in Transaction /\ last' \in Command => Typed'
<1>1. Typed <=> HostOK /\ TxOK /\ LastOK
    BY TypedParts DEF TxOK, LastOK
<1>2. HostOK' /\ TxOK' /\ LastOK' => Typed'
    BY <1>1, PTL
<1> QED
    BY <1>2 DEF TxOK, LastOK

Core == Typed /\ OnTrack /\ BackingOut /\ Modal /\ Unstaged

\* A transaction that is not at an undo step is at a place of its plan.
LEMMA Ready ==
    ASSUME Core, tx.todo # <<>>, Head(tx.todo) \notin Undos
    PROVE  /\ tx.mode # "none" /\ ~tx.undoing /\ (tx.mode = "rollback" \/ ~tx.unproven)
           /\ last.outcome = "none" /\ tx.rel \in Releases
           /\ \E n \in 1..23 : /\ Tracks(tx, n) /\ Progress(n)
                               /\ Place(Head(tx.todo), n) /\ (tx.mode = "rollback" => n <= 20)
<1>1. tx \in Transaction /\ tx.todo \in Seq(Words)
    BY DEF Core, Typed, Transaction
<1>2. tx.mode # "none" /\ last.outcome = "none" /\ tx.rel \in Releases
    BY NoTransaction DEF Core, Modal
<1>3. ~tx.undoing
  <2>1. Head(tx.todo) = tx.todo[1] /\ 1 \in 1..Len(tx.todo)
      BY <1>1, HeadTailProperties, LenProperties
  <2> QED
      BY <2>1 DEF Core, BackingOut
<1>4. /\ tx.mode = "rollback" \/ ~tx.unproven
      /\ \E n \in 1..24 : Tracks(tx, n) /\ Progress(n)
    BY <1>2, <1>3 DEF Core, OnTrack
<1>5. PICK n \in 1..24 : Tracks(tx, n) /\ Progress(n)
    BY <1>4
<1>6. n <= 23 /\ Place(Head(tx.todo), n) /\ (tx.mode = "rollback" => n <= 20)
    BY <1>1, <1>5, TrackStep
<1>7. n \in 1..23
    BY <1>6
<1> QED
    BY <1>2, <1>3, <1>4, <1>5, <1>6, <1>7

\* A step that succeeds.
LEMMA StepForward ==
    ASSUME Core, tx.todo # <<>>, tx.mode # "none", tx.mode = "rollback" \/ ~tx.unproven,
           NEW n \in 1..23, Tracks(tx, n), Progress(n + 1)',
           Same(tx', tx), tx'.todo = Tail(tx.todo), ~tx'.undoing, tx'.unproven = tx.unproven
    PROVE  OnTrack' /\ BackingOut'
<1>1. tx.todo \in Seq(Words)
    BY DEF Core, Typed, Transaction
<1>2. n \in 1..24 /\ n + 1 \in 1..24
    OBVIOUS
<1>3. Tracks(tx', n + 1)
    BY <1>1, <1>2, TrackStep DEF Same
<1>4. Tracks(tx, n + 1)'
    BY <1>3 DEF Tracks
<1>5. tx'.mode = "rollback" \/ ~tx'.unproven
    BY DEF Same
<1> QED
    BY <1>2, <1>4, <1>5 DEF OnTrack, BackingOut

\* A step that fails.
LEMMA StepFails ==
    ASSUME Core, tx.todo # <<>>, Head(tx.todo) \notin Undos, NEW indeterminate \in BOOLEAN,
           tx' = Fails(tx, indeterminate), indeterminate \/ rows' = rows
    PROVE  /\ OnTrack' /\ BackingOut' /\ tx' \in Transaction
           /\ Same(tx', tx) /\ tx'.noted = tx.noted /\ tx'.activated = tx.activated
           /\ tx'.wrote = tx.wrote /\ tx'.originals = tx.originals
<1>1. tx \in Transaction
    BY DEF Core, Typed
<1>2. /\ tx' \in Transaction /\ Same(tx', tx) /\ tx'.noted = tx.noted
      /\ tx'.activated = tx.activated /\ tx'.wrote = tx.wrote /\ tx'.originals = tx.originals
      /\ \/ tx.mode # "rollback" /\ tx'.todo = <<>> /\ tx'.unproven /\ tx'.undoing = tx.undoing
         \/ /\ tx'.todo = Compensation(tx) /\ tx'.undoing
            /\ tx.mode = "rollback" \/ indeterminate => tx'.unproven
    BY <1>1, FailShape
<1>3. tx.mode # "none" /\ ~tx.undoing
    BY Ready
<1>4. PICK n \in 1..23 : Progress(n)
    BY Ready
<1>5. CASE tx.mode # "rollback" /\ tx'.todo = <<>> /\ tx'.unproven /\ tx'.undoing = tx.undoing
    BY <1>2, <1>3, <1>5 DEF OnTrack, BackingOut, Same
<1>6. CASE /\ tx'.todo = Compensation(tx) /\ tx'.undoing
           /\ tx.mode = "rollback" \/ indeterminate => tx'.unproven
  <2>1. OnTrack'
      BY <1>6 DEF OnTrack
  <2>2. /\ tx'.todo \in Seq(Words)
        /\ \A x \in Words : Ahead(tx'.todo, x) => x \in Undos
        /\ Ahead(tx'.todo, "undo documents")
        /\ Ahead(tx'.todo, "roll back") <=> tx.mode = "upgrade" /\ tx.activated # 0
        /\ Ahead(tx'.todo, "teardown") => tx.mode = "fresh"
        /\ tx.mode = "fresh" /\ tx.noted # {} => Ahead(tx'.todo, "undo journal")
      BY <1>6, CompensationPlan DEF List
  <2>3. \A i \in 1..Len(tx'.todo) : tx'.todo[i] \in Undos
    <3> SUFFICES ASSUME NEW i \in 1..Len(tx'.todo) PROVE tx'.todo[i] \in Undos
        OBVIOUS
    <3>1. tx'.todo[i] \in Words /\ Ahead(tx'.todo, tx'.todo[i])
        BY <2>2, ElementOfSeq DEF Ahead
    <3> QED
        BY <2>2, <3>1
  <2>4. ASSUME ~tx'.unproven
        PROVE  /\ tx'.mode = "fresh" =>
                    rows' = <<>> \/ (tx'.activated # 0 /\ Ahead(tx'.todo, "undo journal"))
               /\ tx'.mode = "upgrade" /\ tx'.activated = 0 => Len(rows') = 1
    <3>1. rows' = rows /\ tx.mode # "rollback" /\ rows \in Seq(Releases)
        BY <1>6, <2>4 DEF Core, Typed, TypeOK
    <3>2. CASE n <= 14
      <4>1. /\ tx.mode = "fresh" => Len(rows) = 0
            /\ tx.mode = "upgrade" => Len(rows) = 1
          BY <1>4, <3>2 DEF Progress
      <4>2. Len(rows) = 0 => rows = <<>>
          BY <3>1, EmptySeq
      <4> QED
          BY <1>2, <3>1, <4>1, <4>2 DEF Same
    <3>3. CASE n > 14
        BY <1>2, <1>4, <2>2, <3>3 DEF Progress, Same
    <3>4. n <= 14 \/ n > 14
        OBVIOUS
    <3> QED
        BY <3>2, <3>3, <3>4, Zenon
  <2>5. tx'.mode = "rollback" => tx'.unproven
      BY <1>2, <1>6 DEF Same
  <2> QED
      BY <1>2, <2>1, <2>2, <2>3, <2>4, <2>5 DEF BackingOut, Same
<1> QED
    BY <1>2, <1>5, <1>6

\* No step changes the document an undo would put back; it may lose it.
Forgets == \A d \in Documents : Found0'[d] = Found0[d] \/ Found0'[d] = NoDoc

LEMMA Remembers == Found0' = Found0 => Forgets
    BY Zenon DEF Forgets

\* What a step inside a transaction must leave as it was.
LEMMA ModalStep ==
    ASSUME Typed, Modal, tx.mode # "none", Same(tx', tx), last' = last, Forgets,
           Len(rows') \in Nat, Len(rows') >= Len(rows),
           tx.mode = "fresh" => Len(rows') <= 1,
           tx.mode = "upgrade" => Len(rows') <= 2 /\ rows'[1] = rows[1],
           tx.mode = "rollback" => Len(rows') <= 3,
           tx.mode = "upgrade" /\ tx'.activated = 0 =>
               /\ tx.activated = 0 /\ marker' = marker
               /\ "marker" \in tx'.noted => "marker" \in tx.noted,
           tx.mode # "fresh" /\ ~root' =>
               /\ ~root /\ marker' = marker
               /\ "marker" \in tx'.noted => "marker" \in tx.noted
    PROVE  Modal'
<1>1. tx'.mode = tx.mode /\ tx'.rel = tx.rel /\ tx'.prior = tx.prior
    BY DEF Same
<1>2. rows \in Seq(Releases) /\ Len(rows) \in Nat
    BY LenProperties DEF Typed, TypeOK
<1>3. /\ tx'.mode = "none" => tx' = NoTx
      /\ tx'.mode # "none" => last'.outcome = "none" /\ tx'.rel \in Releases
    BY <1>1 DEF Modal
<1>4. tx'.mode = "fresh" => /\ Len(rows') <= 1 /\ last'.row = 0
                            /\ \A d \in Documents : Found0'[d] = NoDoc
    BY <1>1 DEF Modal, Forgets
<1>5. tx'.mode = "upgrade" =>
          /\ Len(rows') \in 1..2 /\ last'.row = 1
          /\ \A d \in Documents : Found0'[d] # NoDoc => Bound(d, Found0[d])'
          /\ tx'.prior \in Releases
  <2> SUFFICES ASSUME tx.mode = "upgrade"
               PROVE  /\ Len(rows') \in 1..2 /\ last'.row = 1
                      /\ \A d \in Documents : Found0'[d] # NoDoc => Bound(d, Found0[d])'
                      /\ tx'.prior \in Releases
      BY <1>1
  <2>1. /\ Len(rows) \in 1..2 /\ last.row = 1
        /\ \A d \in Documents : Found0[d] # NoDoc => Bound(d, Found0[d])
        /\ tx.prior \in Releases
      BY DEF Modal
  <2>2. ASSUME NEW d \in Documents, Found0'[d] # NoDoc PROVE Bound(d, Found0[d])'
    <3>1. Found0'[d] = Found0[d]
        BY <2>2 DEF Forgets
    <3>2. Bound(d, Found0[d])
        BY <2>1, <2>2, <3>1
    <3> QED
        BY <3>1, <3>2 DEF Bound
  <2>3. Len(rows') \in 1..2
    <3>1. Len(rows) >= 1 /\ Len(rows') <= 2
        BY <2>1
    <3>2. \A a, b \in Nat : b >= a /\ a >= 1 /\ b <= 2 => b \in 1..2
        OBVIOUS
    <3> QED
        BY <1>2, <3>1, <3>2, Zenon
  <2>4. last'.row = 1 /\ tx'.prior \in Releases
      BY <1>1, <2>1
  <2> QED
      BY <2>2, <2>3, <2>4
<1>6. tx'.mode = "upgrade" /\ tx'.activated = 0 =>
          marker' = 1 /\ "marker" \notin tx'.noted
    BY <1>1 DEF Modal
<1>7. tx'.mode \in {"upgrade", "rollback"} =>
          /\ MaxRelease >= 2
          /\ ~root' => marker' # 0 /\ "marker" \notin tx'.noted
    BY <1>1 DEF Modal
<1>8. tx'.mode = "rollback" => Len(rows') <= 3
    BY <1>1
<1> QED
    BY <1>3, <1>4, <1>5, <1>6, <1>7, <1>8 DEF Modal

\* Inside a transaction no outcome is claimed.
LEMMA StepClaims ==
    ASSUME last.outcome = "none", last' = last, Core'
    PROVE  IInv'
    BY DEF IInv, Core, WrittenMeansInstalled, ErrorIsCoherent

LEMMA RowsTyped ==
    ASSUME Typed
    PROVE  /\ rows \in Seq(Releases) /\ Len(rows) \in Nat /\ Len(rows) <= MaxRows
           /\ marker \in 0..Len(rows) /\ api \in 0..Len(rows) /\ staged \in 0..Len(rows)
           /\ tx \in Transaction /\ last \in Command /\ HostOK
    BY TypedParts, LenProperties DEF HostOK

LEMMA RowsKept ==
    ASSUME Typed, rows' = rows
    PROVE  Len(rows') \in Nat /\ Len(rows') >= Len(rows)
    BY RowsTyped

LEMMA RowsBounded ==
    ASSUME Modal
    PROVE  /\ tx.mode = "fresh" => Len(rows) <= 1
           /\ tx.mode = "upgrade" => Len(rows) <= 2
           /\ tx.mode = "rollback" => Len(rows) <= 3
<1>1. \A a : a \in 1..2 => a <= 2
    OBVIOUS
<1> QED
    BY <1>1 DEF Modal

\* What a failing step leaves.
LEMMA FailingStep ==
    ASSUME IInv, tx.todo # <<>>, Head(tx.todo) \notin Undos, NEW indeterminate \in BOOLEAN,
           tx' = Fails(tx, indeterminate), rows' = rows,
           HostOK', Unstaged', docs' = docs, root' = root, last' = last,
           tx.activated = 0 => marker' = marker,
           tx.mode # "fresh" /\ ~root => marker' = marker
    PROVE  IInv'
<1>1. Core
    BY DEF IInv, Core
<1>2. /\ OnTrack' /\ BackingOut' /\ tx' \in Transaction
      /\ Same(tx', tx) /\ tx'.noted = tx.noted /\ tx'.activated = tx.activated
      /\ tx'.wrote = tx.wrote /\ tx'.originals = tx.originals
    BY <1>1, StepFails
<1>3. Typed'
  <2>1. last' \in Command
      BY <1>1 DEF Core, Typed
  <2> QED
      BY <1>2, <2>1, TypedNext
<1>4. Found0' = Found0
    BY <1>2 DEF Found0, Found
<1>5. tx.mode # "none" /\ last.outcome = "none"
    BY <1>1, Ready
<1>6. Len(rows') \in Nat /\ Len(rows') >= Len(rows)
    BY <1>1, RowsTyped DEF Core
<1>7. /\ tx.mode = "fresh" => Len(rows') <= 1
      /\ tx.mode = "upgrade" => Len(rows') <= 2 /\ rows'[1] = rows[1]
      /\ tx.mode = "rollback" => Len(rows') <= 3
    BY <1>1, RowsBounded DEF Core
<1>8. Modal'
    BY <1>1, <1>2, <1>4, <1>5, <1>6, <1>7, Remembers, ModalStep DEF Core
<1> QED
    BY <1>2, <1>3, <1>5, <1>8, StepClaims DEF Core

LEMMA FaultCounted == ASSUME Typed, Fault PROVE faults' \in 0..MaxFaults
<1>1. faults \in 0..MaxFaults /\ faults < MaxFaults /\ faults' = faults + 1
    BY TypedParts DEF HostOK, Fault
<1>2. MaxFaults \in Nat
    BY FinalizationAssumption
<1> QED
    BY <1>1, <1>2

LEMMA FailInstallObject ==
    ASSUME IInv, NEW s \in ObjectSteps, InstallObjectUnrecorded(s)
    PROVE  IInv'
<1>1. Typed /\ Unstaged
    BY DEF IInv
<1>2. tx.todo # <<>> /\ Head(tx.todo) \notin Undos
    BY DEF InstallObjectUnrecorded, At, ObjectSteps, Undos
<1>3. HostOK'
  <2>1. objs' \subseteq Objects
      BY <1>1, RowsTyped DEF HostOK, InstallObjectUnrecorded, Makes, ObjectSteps, Objects
  <2>2. Flag(journal')
      BY Zenon DEF InstallObjectUnrecorded, Flag
  <2>3. faults' \in 0..MaxFaults
      BY <1>1, FaultCounted DEF InstallObjectUnrecorded
  <2> QED
      BY <1>1, <2>1, <2>2, <2>3, RowsTyped DEF HostOK, InstallObjectUnrecorded
<1>4. Unstaged'
    BY <1>1 DEF Unstaged, InstallObjectUnrecorded
<1> QED
    BY <1>2, <1>3, <1>4, FailingStep DEF InstallObjectUnrecorded

LEMMA FailStack ==
    ASSUME IInv, ApplyStackPartly
    PROVE  IInv'
<1>1. Typed /\ Unstaged
    BY DEF IInv
<1>2. tx.todo # <<>> /\ Head(tx.todo) \notin Undos
    BY DEF ApplyStackPartly, At, Undos
<1>3. HostOK'
  <2>1. stack' \in 0..Mixed
    <3>1. Mixed \in 0..Mixed
        BY FinalizationAssumption DEF Mixed
    <3> QED
        BY <1>1, <3>1, RowsTyped DEF HostOK, ApplyStackPartly
  <2>2. faults' \in 0..MaxFaults
      BY <1>1, FaultCounted DEF ApplyStackPartly
  <2>3. api' \in 0..Len(rows)
      BY <1>1, RowsTyped DEF ApplyStackPartly, ApiLeft
  <2> QED
      BY <1>1, <2>1, <2>2, <2>3, RowsTyped DEF HostOK, ApplyStackPartly
<1>4. Unstaged'
    BY <1>1 DEF Unstaged, ApplyStackPartly
<1> QED
    BY <1>2, <1>3, <1>4, FailingStep DEF ApplyStackPartly

LEMMA FailCleanup ==
    ASSUME IInv, CleanupUnproven
    PROVE  IInv'
<1>1. Typed /\ Unstaged
    BY DEF IInv
<1>2. tx.todo # <<>> /\ Head(tx.todo) \notin Undos
    BY DEF CleanupUnproven, At, Undos
<1>3. HostOK'
  <2>1. staged' \in 0..Len(rows)
      BY <1>1, RowsTyped DEF CleanupUnproven
  <2>2. Flag(journal')
      BY Zenon DEF CleanupUnproven, Flag
  <2>3. faults' \in 0..MaxFaults
      BY <1>1, FaultCounted DEF CleanupUnproven
  <2> QED
      BY <1>1, <2>1, <2>2, <2>3, RowsTyped DEF HostOK, CleanupUnproven
<1>4. Unstaged'
    BY <1>1 DEF Unstaged, CleanupUnproven
<1> QED
    BY <1>2, <1>3, <1>4, FailingStep DEF CleanupUnproven

LEMMA FailStaging ==
    ASSUME IInv, StagingUnavailable
    PROVE  IInv'
<1>1. Typed /\ Unstaged
    BY DEF IInv
<1>2. tx.todo # <<>> /\ Head(tx.todo) \notin Undos
    BY DEF StagingUnavailable, At, Undos
<1>3. HostOK'
    BY <1>1, RowsTyped DEF HostOK, StagingUnavailable, host
<1>4. Unstaged'
    BY <1>1 DEF Unstaged, StagingUnavailable, host
<1> QED
    BY <1>2, <1>3, <1>4, FailingStep DEF StagingUnavailable, host

LEMMA FailRaise ==
    ASSUME IInv, StepRaises
    PROVE  IInv'
<1>1. Typed /\ Unstaged
    BY DEF IInv
<1>2. tx.todo # <<>> /\ Head(tx.todo) \notin Undos
    BY DEF StepRaises
<1>3. HostOK'
  <2>1. Flag(journal)
      BY <1>1, RowsTyped DEF HostOK
  <2>2. Flag(journal')
      BY <2>1 DEF StepRaises, Flag
  <2>3. faults' \in 0..MaxFaults
      BY <1>1, FaultCounted DEF StepRaises
  <2> QED
      BY <1>1, <2>2, <2>3, RowsTyped DEF HostOK, StepRaises
<1>4. Unstaged'
    BY <1>1 DEF Unstaged, StepRaises
<1> QED
    BY <1>2, <1>3, <1>4, FailingStep DEF StepRaises

\* Where a transaction is when its next step is w.
LEMMA ReadyAt ==
    ASSUME IInv, NEW w \in Words \ Undos, At(w)
    PROVE  /\ Core /\ tx.todo # <<>> /\ Head(tx.todo) \notin Undos /\ tx.mode # "none"
           /\ ~tx.undoing /\ (tx.mode = "rollback" \/ ~tx.unproven)
           /\ last.outcome = "none" /\ tx.rel \in Releases
           /\ \E n \in 1..23 : /\ Tracks(tx, n) /\ Progress(n)
                               /\ Place(w, n) /\ (tx.mode = "rollback" => n <= 20)
<1>1. Core /\ tx.todo # <<>> /\ Head(tx.todo) = w /\ Head(tx.todo) \notin Undos
    BY DEF IInv, Core, At
<1> QED
    BY <1>1, Ready

LEMMA MarkerCase ==
    ASSUME IInv, At("marker"), CanStage
    PROVE  /\ tx.activated # 0 /\ Active # 0 /\ tx.todo # <<>> /\ Head(tx.todo) \notin Undos
           /\ Core /\ tx.mode # "none" /\ last.outcome = "none"
           /\ ~root => tx.mode = "fresh" /\ marker = 0 /\ Len(rows) <= 1
<1>1. "marker" \in Words \ Undos
    BY DEF Words, Undos
<1>2. /\ Core /\ tx.todo # <<>> /\ Head(tx.todo) \notin Undos
      /\ tx.mode # "none" /\ last.outcome = "none"
    BY <1>1, ReadyAt
<1>3. PICK n \in 1..23 : Tracks(tx, n) /\ Progress(n) /\ Place("marker", n)
    BY <1>1, ReadyAt
<1>4. n = 15
    BY <1>1, <1>3, PlaceOf
<1>5. tx.activated # 0 /\ Active # 0
    BY <1>3, <1>4 DEF Progress
<1>6. tx.mode \in {"none", "fresh", "upgrade", "rollback"}
    BY <1>2, RowsTyped DEF Core, Transaction, Modes
<1>7. ~root => tx.mode = "fresh" /\ marker = 0 /\ Len(rows) <= 1
    BY <1>2, <1>6 DEF Core, Modal, CanStage
<1> QED
    BY <1>2, <1>5, <1>7

LEMMA FailWriteMarker ==
    ASSUME IInv, WriteMarkerUnrecorded
    PROVE  IInv'
<1>1. /\ tx.activated # 0 /\ tx.todo # <<>> /\ Head(tx.todo) \notin Undos
      /\ Typed /\ (~root => tx.mode = "fresh" /\ marker = 0 /\ Len(rows) <= 1)
    BY MarkerCase DEF WriteMarkerUnrecorded, Core
<1>2. HostOK'
  <2>1. marker' \in 0..Len(rows) /\ staged' \in 0..Len(rows)
      BY <1>1, RowsTyped DEF WriteMarkerUnrecorded, Active
  <2>2. faults' \in 0..MaxFaults
      BY <1>1, FaultCounted DEF WriteMarkerUnrecorded
  <2> QED
      BY <1>1, <2>1, <2>2, RowsTyped DEF HostOK, WriteMarkerUnrecorded
<1>3. Unstaged'
    BY <1>1 DEF Unstaged, WriteMarkerUnrecorded, Active
<1> QED
    BY <1>1, <1>2, <1>3, FailingStep DEF WriteMarkerUnrecorded

LEMMA FailRuntime ==
    ASSUME IInv, RuntimeUnverified
    PROVE  IInv'
<1>1. "runtime" \in Words \ Undos
    BY DEF Words, Undos
<1>2. At("runtime")
    BY DEF RuntimeUnverified
<1>3. Core /\ tx.todo # <<>> /\ Head(tx.todo) \notin Undos /\ tx.mode # "none"
    BY <1>1, <1>2, ReadyAt
<1>4. PICK n \in 1..23 : Tracks(tx, n) /\ Progress(n) /\ Place("runtime", n)
    BY <1>1, <1>2, ReadyAt
<1>5. n = 16
    BY <1>1, <1>4, PlaceOf
<1>6. tx.activated # 0 /\ "marker" \in tx.noted
    BY <1>4, <1>5 DEF Progress
<1>7. tx.mode # "fresh" => root
  <2>1. tx.mode \in {"none", "fresh", "upgrade", "rollback"}
      BY <1>3, RowsTyped DEF Core, Transaction, Modes
  <2> QED
      BY <1>3, <1>6, <2>1 DEF Core, Modal
<1>8. Typed /\ Unstaged
    BY <1>3 DEF Core
<1>9. HostOK'
  <2>1. marker' \in 0..Len(rows)
      BY <1>8, RowsTyped DEF RuntimeUnverified
  <2>2. api' \in 0..Len(rows)
      BY <1>8, <2>1, RowsTyped DEF RuntimeUnverified, ApiLeft
  <2>3. faults' \in 0..MaxFaults
      BY <1>8, FaultCounted, RowsTyped DEF RuntimeUnverified, HostOK
  <2> QED
      BY <1>8, <2>1, <2>2, <2>3, RowsTyped DEF HostOK, RuntimeUnverified
<1>10. Unstaged'
    BY <1>8 DEF Unstaged, RuntimeUnverified
<1> QED
    BY <1>3, <1>6, <1>7, <1>9, <1>10, FailingStep DEF RuntimeUnverified

\* A new row: the rows of a transaction stay within the bound.
LEMMA RowAdded ==
    ASSUME Core, tx.mode # "none", tx.rel \in Releases, NEW n \in 1..14, Progress(n)
    PROVE  LET more == Append(rows, tx.rel) IN
           /\ more \in Seq(Releases) /\ Len(more) = Len(rows) + 1 /\ Len(more) <= MaxRows
           /\ Len(rows) \in Nat
           /\ more[Len(more)] = tx.rel
           /\ tx.mode = "fresh" => Len(more) <= 1
           /\ tx.mode = "upgrade" => Len(more) <= 2 /\ more[1] = rows[1]
           /\ tx.mode = "rollback" => Len(more) <= 3
<1> DEFINE more == Append(rows, tx.rel)
<1>1. rows \in Seq(Releases) /\ Len(rows) \in Nat
    BY RowsTyped DEF Core
<1>2. more \in Seq(Releases) /\ Len(more) = Len(rows) + 1 /\ more[Len(more)] = tx.rel
    BY <1>1, AppendProperties
<1>3. \A i \in 1..Len(rows) : more[i] = rows[i]
    BY <1>1, AppendProperties
<1> HIDE DEF more
<1>4. /\ tx.mode = "fresh" => Len(rows) = 0
      /\ tx.mode = "upgrade" => Len(rows) = 1
      /\ tx.mode = "rollback" => Len(rows) <= 2
    BY DEF Progress
<1>5. tx.mode = "upgrade" => more[1] = rows[1]
  <2>1. Len(rows) = 1 => 1 \in 1..Len(rows)
      BY <1>1
  <2> QED
      BY <1>3, <1>4, <2>1
<1>6. tx.mode \in {"none", "fresh", "upgrade", "rollback"}
    BY RowsTyped DEF Core, Transaction, Modes
<1>7. tx.mode \in {"upgrade", "rollback"} => MaxRelease >= 2
    BY DEF Core, Modal
<1> DEFINE l == Len(rows)
           k == Len(more)
<1>8. /\ tx.mode = "fresh" => k <= 1
      /\ tx.mode = "upgrade" => k <= 2
      /\ tx.mode = "rollback" => k <= 3
  <2>1. l \in Nat /\ k = l + 1
      BY <1>1, <1>2
  <2>2. /\ tx.mode = "fresh" => l = 0
        /\ tx.mode = "upgrade" => l = 1
        /\ tx.mode = "rollback" => l <= 2
      BY <1>4
  <2> HIDE DEF l, k
  <2> QED
      BY <2>1, <2>2
<1>9. k <= MaxRows
  <2>1. k \in Nat
      BY <1>1, <1>2
  <2> HIDE DEF k
  <2>2. MaxRelease \in Nat /\ MaxRelease >= 1 /\ MaxRows = 2 * MaxRelease
      BY FinalizationAssumption DEF MaxRows
  <2> QED
      BY <1>6, <1>7, <1>8, <2>1, <2>2
<1> QED
    BY <1>1, <1>2, <1>5, <1>8, <1>9 DEF more

LEMMA HostRowAdded ==
    ASSUME Core, tx.mode # "none", tx.rel \in Releases, NEW n \in 1..14, Progress(n),
           rows' = Append(rows, tx.rel), faults' \in 0..MaxFaults,
           UNCHANGED <<objs, marker, api, stack, docs, journal, root, staged>>
    PROVE  HostOK'
<1>1. rows' \in Seq(Releases) /\ Len(rows') = Len(rows) + 1 /\ Len(rows') <= MaxRows
    BY RowAdded
<1>2. /\ marker \in 0..Len(rows) /\ api \in 0..Len(rows) /\ staged \in 0..Len(rows)
      /\ Len(rows) \in Nat /\ HostOK
    BY RowsTyped DEF Core
<1>3. marker \in 0..Len(rows') /\ api \in 0..Len(rows') /\ staged \in 0..Len(rows')
  <2> DEFINE l == Len(rows)
             k == Len(rows')
  <2>1. l \in Nat /\ k = l + 1 /\ marker \in 0..l /\ api \in 0..l /\ staged \in 0..l
      BY <1>1, <1>2
  <2> HIDE DEF l, k
  <2>2. marker \in 0..k /\ api \in 0..k /\ staged \in 0..k
      BY <2>1
  <2> QED
      BY <2>2 DEF k
<1> QED
    BY <1>1, <1>2, <1>3 DEF HostOK

LEMMA ActivateCase ==
    ASSUME IInv, At("activate")
    PROVE  /\ Core /\ tx.todo # <<>> /\ Head(tx.todo) \notin Undos /\ tx.mode # "none"
           /\ last.outcome = "none" /\ tx.rel \in Releases /\ ~tx.undoing
           /\ tx.mode = "rollback" \/ ~tx.unproven
           /\ Tracks(tx, 14) /\ Progress(14)
<1>1. "activate" \in Words \ Undos
    BY DEF Words, Undos
<1>2. PICK n \in 1..23 : Tracks(tx, n) /\ Progress(n) /\ Place("activate", n)
    BY <1>1, ReadyAt
<1>3. n = 14
    BY <1>1, <1>2, PlaceOf
<1> QED
    BY <1>1, <1>2, <1>3, ReadyAt

LEMMA FailActivate ==
    ASSUME IInv, ActivationUnconfirmed
    PROVE  IInv'
<1>1. /\ Core /\ tx.todo # <<>> /\ Head(tx.todo) \notin Undos /\ tx.mode # "none"
      /\ last.outcome = "none" /\ tx.rel \in Releases /\ Progress(14)
    BY ActivateCase DEF ActivationUnconfirmed
<1>2. Typed /\ Unstaged /\ Modal
    BY <1>1 DEF Core
<1>3. faults' \in 0..MaxFaults
    BY <1>2, FaultCounted DEF ActivationUnconfirmed
<1>4. Unstaged'
    BY <1>2 DEF Unstaged, ActivationUnconfirmed
<1>5. CASE rows' = rows
  <2>1. HostOK'
      BY <1>2, <1>3, <1>5, RowsTyped DEF HostOK, ActivationUnconfirmed
  <2> QED
      BY <1>1, <1>4, <1>5, <2>1, FailingStep DEF ActivationUnconfirmed
<1>6. CASE rows' = Append(rows, tx.rel)
  <2>1. HostOK'
      BY <1>1, <1>3, <1>6, HostRowAdded DEF ActivationUnconfirmed
  <2>2. /\ Len(rows') = Len(rows) + 1 /\ Len(rows) \in Nat
        /\ tx.mode = "fresh" => Len(rows') <= 1
        /\ tx.mode = "upgrade" => Len(rows') <= 2 /\ rows'[1] = rows[1]
        /\ tx.mode = "rollback" => Len(rows') <= 3
      BY <1>1, <1>6, RowAdded
  <2>3. Len(rows') \in Nat /\ Len(rows') >= Len(rows)
      BY <2>2
  <2>4. /\ OnTrack' /\ BackingOut' /\ tx' \in Transaction
        /\ Same(tx', tx) /\ tx'.noted = tx.noted /\ tx'.activated = tx.activated
        /\ tx'.wrote = tx.wrote /\ tx'.originals = tx.originals
      BY <1>1, StepFails DEF ActivationUnconfirmed
  <2>5. Found0' = Found0
      BY <2>4 DEF Found0, Found, ActivationUnconfirmed
  <2>6. UNCHANGED <<marker, api, root, last>>
      BY DEF ActivationUnconfirmed
  <2>7. Modal'
      BY <1>1, <1>2, <2>2, <2>3, <2>4, <2>5, <2>6, Remembers, ModalStep
  <2>8. Typed'
      BY <1>2, <2>1, <2>4, <2>6, TypedNext, RowsTyped
  <2> QED
      BY <1>1, <1>4, <2>4, <2>6, <2>7, <2>8, StepClaims DEF Core
<1> QED
    BY <1>5, <1>6 DEF ActivationUnconfirmed

\* A step that succeeds, as a whole.
LEMMA GoodStep ==
    ASSUME IInv, tx.todo # <<>>, Head(tx.todo) \notin Undos,
           NEW n \in 1..23, Tracks(tx, n), Progress(n + 1)', tx' \in Transaction,
           Same(tx', tx), tx'.todo = Tail(tx.todo),
           tx'.undoing = tx.undoing, tx'.unproven = tx.unproven, tx'.activated = tx.activated,
           HostOK', Unstaged', rows' = rows, root' = root, last' = last, Forgets,
           tx.mode = "upgrade" /\ tx.activated = 0 =>
               /\ marker' = marker
               /\ "marker" \in tx'.noted => "marker" \in tx.noted,
           tx.mode # "fresh" /\ ~root =>
               /\ marker' = marker
               /\ "marker" \in tx'.noted => "marker" \in tx.noted
    PROVE  IInv'
<1>1. Core
    BY DEF IInv, Core
<1>2. /\ tx.mode # "none" /\ ~tx.undoing /\ (tx.mode = "rollback" \/ ~tx.unproven)
      /\ last.outcome = "none"
    BY <1>1, Ready
<1>3. ~tx'.undoing
    BY <1>2
<1>4. OnTrack' /\ BackingOut'
    BY <1>1, <1>2, <1>3, StepForward
<1>5. Typed /\ Modal
    BY <1>1 DEF Core
<1>6. Typed'
    BY <1>5, TypedNext, RowsTyped
<1>7. Len(rows') \in Nat /\ Len(rows') >= Len(rows)
    BY <1>5, RowsTyped
<1>8. /\ tx.mode = "fresh" => Len(rows) <= 1
      /\ tx.mode = "upgrade" => Len(rows) <= 2
      /\ tx.mode = "rollback" => Len(rows) <= 3
    BY <1>5, RowsBounded
<1>9. Modal'
    BY <1>2, <1>5, <1>7, <1>8, ModalStep
<1> QED
    BY <1>2, <1>4, <1>6, <1>9, StepClaims DEF Core

LEMMA EarlyProgress ==
    ASSUME NEW n \in 1..12, Progress(n), tx'.activated = tx.activated, Same(tx', tx),
           tx'.state = tx.state, rows' = rows, "marker" \in tx'.noted => "marker" \in tx.noted
    PROVE  Progress(n + 1)'
<1>1. /\ n + 1 <= 13 /\ n <= 14 /\ n <= 15
      /\ ~(n + 1 > 13) /\ ~(n + 1 > 14) /\ ~(n + 1 > 15) /\ ~(n + 1 > 16) /\ ~(n + 1 > 17)
      /\ ~(n + 1 > 20) /\ n + 1 \notin {20, 21, 24} /\ n + 1 # 22 /\ n <= 20
    OBVIOUS
<1>2. /\ tx.activated = 0 /\ "marker" \notin tx.noted /\ tx.state = "prepared"
      /\ tx.mode = "fresh" => Len(rows) = 0
      /\ tx.mode = "upgrade" => Len(rows) = 1
      /\ tx.mode = "rollback" => Len(rows) <= 2
    BY <1>1 DEF Progress
<1> QED
    BY <1>1, <1>2 DEF Progress, Same

\* The place of an early step.
LEMMA EarlyCase ==
    ASSUME IInv, NEW w \in Early, At(w)
    PROVE  /\ Core /\ tx.todo # <<>> /\ Head(tx.todo) \notin Undos
           /\ Tail(tx.todo) \in Seq(Words) /\ tx.rel \in Releases
           /\ \E n \in 1..12 : Tracks(tx, n) /\ Progress(n)
<1>1. w \in Words \ Undos
    BY DEF Early, Words, Undos, ObjectSteps, Checks, Documents, ReleaseDocuments
<1>2. PICK n \in 1..23 : Tracks(tx, n) /\ Progress(n) /\ Place(w, n)
    BY <1>1, ReadyAt
<1>3. n <= 12
    BY <1>1, <1>2, PlaceOf
<1>4. n \in 1..12
    BY <1>3
<1>5. /\ Core /\ tx.todo # <<>> /\ Head(tx.todo) \notin Undos /\ tx.rel \in Releases
    BY <1>1, ReadyAt
<1>6. Tail(tx.todo) \in Seq(Words)
    BY <1>5, RowsTyped, PlanTail DEF Core, Transaction
<1> QED
    BY <1>2, <1>4, <1>5, <1>6

LEMMA GoodInstallObject ==
    ASSUME IInv, NEW s \in ObjectSteps, InstallObject(s)
    PROVE  IInv'
<1>1. s \in Early /\ s \in Words /\ s # "marker"
    BY DEF ObjectSteps, Early, Words
<1>2. /\ Core /\ tx.todo # <<>> /\ Head(tx.todo) \notin Undos
      /\ Tail(tx.todo) \in Seq(Words)
    BY <1>1, EarlyCase DEF InstallObject
<1>3. PICK n \in 1..12 : Tracks(tx, n) /\ Progress(n)
    BY <1>1, EarlyCase DEF InstallObject
<1>4. Typed /\ Unstaged /\ tx \in Transaction
    BY <1>2, RowsTyped DEF Core
<1>5. Makes(s) \subseteq Objects
    BY DEF Makes, ObjectSteps, Objects
<1>6. tx' \in Transaction
  <2>1. {s} \in SUBSET Words /\ Makes(s) \ objs \in SUBSET Objects
      BY <1>1, <1>5
  <2> QED
      BY <1>2, <1>4, <2>1, ForwardShape DEF InstallObject, Advance
<1>7. /\ Same(tx', tx) /\ tx'.todo = Tail(tx.todo) /\ tx'.state = tx.state
      /\ tx'.undoing = tx.undoing /\ tx'.unproven = tx.unproven
      /\ tx'.activated = tx.activated /\ tx'.wrote = tx.wrote /\ tx'.originals = tx.originals
      /\ tx'.noted = tx.noted \cup {s}
    BY <1>4 DEF InstallObject, Advance, Transaction, Same
<1>8. "marker" \in tx'.noted => "marker" \in tx.noted
    BY <1>1, <1>7
<1>9. HostOK'
  <2>1. objs' \subseteq Objects
      BY <1>4, <1>5, RowsTyped DEF HostOK, InstallObject
  <2>2. Flag(journal')
      BY Zenon DEF InstallObject, Flag
  <2> QED
      BY <1>4, <2>1, <2>2, RowsTyped DEF HostOK, InstallObject
<1>10. Progress(n + 1)'
    BY <1>3, <1>7, <1>8, EarlyProgress DEF InstallObject
<1>11. Unstaged' /\ Found0' = Found0
    BY <1>4, <1>7 DEF Unstaged, InstallObject, Found0, Found
<1>12. n \in 1..23
    OBVIOUS
<1> QED
    BY <1>2, <1>3, <1>6, <1>7, <1>8, <1>9, <1>10, <1>11, <1>12, Remembers, GoodStep DEF InstallObject

LEMMA GoodStack ==
    ASSUME IInv, ApplyStack
    PROVE  IInv'
<1>1. "stack" \in Early
    BY DEF Early
<1>2. /\ Core /\ tx.todo # <<>> /\ Head(tx.todo) \notin Undos
      /\ Tail(tx.todo) \in Seq(Words) /\ tx.rel \in Releases
    BY <1>1, EarlyCase DEF ApplyStack
<1>3. PICK n \in 1..12 : Tracks(tx, n) /\ Progress(n)
    BY <1>1, EarlyCase DEF ApplyStack
<1>4. Typed /\ Unstaged /\ tx \in Transaction
    BY <1>2, RowsTyped DEF Core
<1>5. tx' \in Transaction
  <2>1. (tx.mode = "upgrade") \in BOOLEAN
      OBVIOUS
  <2> QED
      BY <1>2, <1>4, <2>1, ForwardShape DEF ApplyStack, Advance
<1>6. /\ Same(tx', tx) /\ tx'.todo = Tail(tx.todo) /\ tx'.state = tx.state
      /\ tx'.undoing = tx.undoing /\ tx'.unproven = tx.unproven
      /\ tx'.activated = tx.activated /\ tx'.wrote = tx.wrote /\ tx'.originals = tx.originals
      /\ tx'.noted = tx.noted
    BY <1>4 DEF ApplyStack, Advance, Transaction, Same
<1>7. HostOK'
  <2>1. stack' \in 0..Mixed
      BY <1>2, FinalizationAssumption DEF ApplyStack, Releases, Mixed
  <2> QED
      BY <1>4, <2>1, RowsTyped DEF HostOK, ApplyStack
<1>8. Progress(n + 1)'
    BY <1>3, <1>6, EarlyProgress DEF ApplyStack
<1>9. Unstaged' /\ Found0' = Found0
    BY <1>4, <1>6 DEF Unstaged, ApplyStack, Found0, Found
<1>10. n \in 1..23
    OBVIOUS
<1> QED
    BY <1>2, <1>3, <1>5, <1>6, <1>7, <1>8, <1>9, <1>10, Remembers, GoodStep DEF ApplyStack

\* A check changes nothing on the host and moves the transaction on.
LEMMA CheckStep ==
    ASSUME IInv, NEW s \in Checks, Check(s), NEW n \in 1..23, Tracks(tx, n), Progress(n + 1)',
           Head(tx.todo) \notin Undos
    PROVE  IInv'
<1>1. Typed /\ Unstaged /\ tx \in Transaction /\ tx.todo # <<>> /\ tx.todo \in Seq(Words)
    BY RowsTyped DEF IInv, Check, At, Transaction
<1>2. Tail(tx.todo) \in Seq(Words)
    BY <1>1, PlanTail
<1>3. tx' \in Transaction
    BY <1>1, <1>2, ForwardShape DEF Check, Advance
<1>4. /\ Same(tx', tx) /\ tx'.todo = Tail(tx.todo) /\ tx'.state = tx.state
      /\ tx'.undoing = tx.undoing /\ tx'.unproven = tx.unproven
      /\ tx'.activated = tx.activated /\ tx'.wrote = tx.wrote /\ tx'.originals = tx.originals
      /\ tx'.noted = tx.noted
    BY <1>1 DEF Check, Advance, Transaction, Same
<1>5. HostOK'
    BY <1>1, RowsTyped DEF HostOK, Check, host
<1>6. Unstaged' /\ Found0' = Found0
    BY <1>1, <1>4 DEF Unstaged, Check, host, Found0, Found
<1> QED
    BY <1>1, <1>3, <1>4, <1>5, <1>6, Remembers, GoodStep DEF Check, host

LEMMA GoodCheck ==
    ASSUME IInv, NEW s \in Checks, Check(s)
    PROVE  IInv'
<1>1. s \in Words \ Undos /\ s \in {"observe", "verify", "verified"}
    BY DEF Checks, Words, Undos
<1>2. At(s) /\ Observed(s) /\ UNCHANGED <<host, root, last>> /\ tx' = Advance(tx)
    BY DEF Check
<1>3. Core /\ tx.todo # <<>> /\ Head(tx.todo) \notin Undos
    BY <1>1, <1>2, ReadyAt
<1>4. /\ Same(tx', tx) /\ tx'.activated = tx.activated /\ tx'.noted = tx.noted
      /\ tx'.state = tx.state
    BY <1>2, <1>3, RowsTyped DEF Core, Advance, Transaction, Same
<1>5. CASE s = "observe"
  <2>1. s \in Early
      BY <1>5 DEF Early
  <2>2. PICK n \in 1..12 : Tracks(tx, n) /\ Progress(n)
      BY <1>2, <2>1, EarlyCase
  <2>3. Progress(n + 1)'
      BY <1>2, <1>4, <2>2, EarlyProgress DEF host
  <2>4. n \in 1..23
      OBVIOUS
  <2> QED
      BY <1>3, <2>2, <2>3, <2>4, CheckStep
<1>6. CASE s = "verify"
  <2>1. PICK n \in 1..23 : Tracks(tx, n) /\ Progress(n) /\ Place(s, n)
      BY <1>1, <1>2, ReadyAt
  <2>2. n = 13
      BY <1>1, <1>6, <2>1, PlaceOf
  <2>3. objs = Objects
      BY <1>2, <1>6 DEF Observed
  <2>4. Progress(13 + 1)'
      BY <1>2, <1>4, <2>1, <2>2, <2>3 DEF Progress, Same, host
  <2> QED
      BY <1>3, <2>1, <2>2, <2>4, CheckStep
<1>7. CASE s = "verified"
  <2>1. PICK n \in 1..23 : Tracks(tx, n) /\ Progress(n) /\ Place(s, n)
      BY <1>1, <1>2, ReadyAt
  <2>2. n \in {19, 23}
      BY <1>1, <1>7, <2>1, PlaceOf
  <2>3. DocumentsAgree /\ Evidence.rel = tx.rel
      BY <1>2, <1>7 DEF Observed
  <2>4. (DocumentsAgree /\ Evidence.rel = tx.rel)'
      BY <1>2, <1>4, <2>3 DEF DocumentsAgree, Evidence, host, Same
  <2>5. Progress(n + 1)'
      BY <1>2, <1>4, <2>1, <2>2, <2>4 DEF Progress, Same, host, Active, Evidence
  <2> QED
      BY <1>3, <2>1, <2>5, CheckStep
<1> QED
    BY <1>1, <1>5, <1>6, <1>7

LEMMA ContentTyped ==
    ASSUME Typed, tx.rel \in Releases, NEW d \in Documents
    PROVE  Content(d) \in Document
<1>1. tx.rel \in 0..MaxRelease
    BY DEF Releases
<1>2. Active \in Rows /\ 0 \in Rows
  <2>1. Len(rows) \in Nat /\ Len(rows) <= MaxRows
      BY RowsTyped
  <2>2. MaxRows \in Nat
      BY FinalizationAssumption DEF MaxRows
  <2> DEFINE l == Len(rows)
  <2>3. l \in 0..MaxRows /\ 0 \in 0..MaxRows
    <3>1. l \in Nat /\ l <= MaxRows
        BY <2>1
    <3> HIDE DEF l
    <3> QED
        BY <2>2, <3>1
  <2> QED
      BY <2>3 DEF Active, Rows
<1>3. tx.state \in {"none", "prepared", "committed"}
    BY RowsTyped DEF Transaction
<1> HIDE DEF Active
<1> QED
    BY <1>1, <1>2, <1>3 DEF Content, Document

\* A document is written: the transaction keeps what it found, or nothing.
LEMMA DocumentStep ==
    ASSUME IInv, NEW d \in Documents, NEW v \in Document, WriteKeeping(d, v),
           v = Found0[d] \/ v = NoDoc, faults' \in 0..MaxFaults,
           NEW n \in 1..23, Tracks(tx, n), tx.rel \in Releases, Head(tx.todo) \notin Undos
    PROVE  /\ Same(tx', tx) /\ tx'.activated = tx.activated /\ tx'.noted = tx.noted
           /\ tx'.state = tx.state
           /\ Progress(n + 1)' => IInv'
<1>1. Typed /\ Unstaged /\ tx \in Transaction /\ tx.todo # <<>> /\ tx.todo \in Seq(Words)
    BY RowsTyped DEF IInv, WriteKeeping, At, Transaction
<1>2. Tail(tx.todo) \in Seq(Words) /\ docs \in [Documents -> Document]
    BY <1>1, PlanTail, RowsTyped DEF HostOK
<1>3. tx' = Written(tx, Tail(tx.todo), d, v)
    BY DEF WriteKeeping, Advance, Written
<1>4. /\ tx' \in Transaction
      /\ tx'.originals = Originals(tx, d, v)
    BY <1>1, <1>2, <1>3, WriteShape
<1>5. /\ Same(tx', tx) /\ tx'.todo = Tail(tx.todo) /\ tx'.state = tx.state
      /\ tx'.undoing = tx.undoing /\ tx'.unproven = tx.unproven
      /\ tx'.activated = tx.activated /\ tx'.wrote = tx.wrote \cup {d}
      /\ tx'.noted = tx.noted
    BY <1>1, <1>3 DEF Written, Transaction, Same
<1>6. docs' = [docs EXCEPT ![d] = Content(d)] /\ Content(d) \in Document
    BY <1>1, ContentTyped DEF WriteKeeping
<1>7. docs' \in [Documents -> Document]
    BY <1>2, <1>6
<1>8. HostOK'
    BY <1>1, <1>7, RowsTyped DEF HostOK, WriteKeeping
<1>9. Forgets
  <2>1. tx.originals \in [Documents -> Document]
      BY <1>1 DEF Transaction
  <2>2. ASSUME NEW e \in Documents
        PROVE  Found0'[e] = Found0[e] \/ Found0'[e] = NoDoc
    <3>1. /\ Found0'[e] = IF e \in tx'.wrote THEN tx'.originals[e] ELSE docs'[e]
          /\ Found0[e] = IF e \in tx.wrote THEN tx.originals[e] ELSE docs[e]
        BY DEF Found0, Found
    <3>2. CASE e = d
      <4>1. e \in tx'.wrote
          BY <1>5, <3>2
      <4>2. tx'.originals[e] = v
          BY <1>4, <2>1, <3>2 DEF Originals
      <4> QED
          BY <3>1, <3>2, <4>1, <4>2
    <3>3. CASE e # d
      <4>1. tx'.originals[e] = tx.originals[e] /\ docs'[e] = docs[e]
          BY <1>2, <1>4, <1>6, <2>1, <3>3 DEF Originals
      <4>2. e \in tx'.wrote <=> e \in tx.wrote
          BY <1>5, <3>3
      <4> QED
          BY <3>1, <4>1, <4>2
    <3> QED
        BY <3>2, <3>3
  <2> QED
      BY <2>2, Zenon DEF Forgets
<1>10. Unstaged'
    BY <1>1 DEF Unstaged, WriteKeeping
<1>11. Progress(n + 1)' => IInv'
    BY <1>1, <1>4, <1>5, <1>8, <1>9, <1>10, GoodStep DEF WriteKeeping
<1> QED
    BY <1>5, <1>11

\* Documents that agree with evidence of the active identity all belong to it.
LEMMA AgreeBelongs ==
    ASSUME DocumentsAgree, Evidence.rel = rows[Active], Evidence.row = Active
    PROVE  AllBelong
<1> SUFFICES ASSUME NEW d \in Documents PROVE docs[d] # NoDoc /\ BelongsTo(d, Active)
    BY DEF AllBelong
<1>1. d \in ReleaseDocuments \/ docs[d] = Evidence
    BY DEF Documents, DocumentsAgree, Evidence
<1> QED
    BY <1>1 DEF DocumentsAgree, BelongsTo

LEMMA GoodDocument ==
    ASSUME IInv, NEW d \in Documents, NEW v \in Document, WriteKeeping(d, v),
           v = Found0[d] \/ v = NoDoc, faults' \in 0..MaxFaults
    PROVE  IInv'
<1>1. /\ d \in Words \ Undos
      /\ d \in ReleaseDocuments \/ d = "evidence" \/ d = "attestation"
    BY DEF Documents, ReleaseDocuments, Words, Undos
<1>2. At(d) /\ UNCHANGED <<objs, rows, marker, api, stack, journal, staged>>
    BY DEF WriteKeeping
<1>3. Core /\ tx.rel \in Releases /\ Head(tx.todo) \notin Undos
    BY <1>1, <1>2, ReadyAt
<1>4. docs \in [Documents -> Document]
    BY <1>3, RowsTyped DEF Core, HostOK
<1>5. CASE d \in ReleaseDocuments
  <2>1. d \in Early
      BY <1>5 DEF Early, ReleaseDocuments
  <2>2. PICK n \in 1..12 : Tracks(tx, n) /\ Progress(n)
      BY <1>2, <2>1, EarlyCase
  <2>3. n \in 1..23
      OBVIOUS
  <2>4. /\ Same(tx', tx) /\ tx'.activated = tx.activated /\ tx'.noted = tx.noted
        /\ tx'.state = tx.state
        /\ Progress(n + 1)' => IInv'
      BY <1>3, <2>2, <2>3, DocumentStep
  <2>5. Progress(n + 1)'
      BY <1>2, <2>2, <2>4, EarlyProgress
  <2> QED
      BY <2>4, <2>5
<1>6. CASE d = "evidence"
  <2>1. PICK n \in 1..23 : Tracks(tx, n) /\ Progress(n) /\ Place(d, n)
      BY <1>1, <1>2, ReadyAt
  <2>2. n \in {17, 21}
      BY <1>1, <1>6, <2>1, PlaceOf
  <2>3. /\ Same(tx', tx) /\ tx'.activated = tx.activated /\ tx'.noted = tx.noted
        /\ tx'.state = tx.state
        /\ Progress(n + 1)' => IInv'
      BY <1>3, <2>1, DocumentStep
  <2>4. /\ docs'["evidence"] = [rel |-> tx.rel, row |-> Len(rows), state |-> tx.state]
        /\ \A e \in Documents : e # "evidence" => docs'[e] = docs[e]
      BY <1>4, <1>6 DEF WriteKeeping, Content, Active
  <2>5. docs'["evidence"].row = Len(rows) /\ docs'["evidence"].rel = tx.rel
      BY <2>4
  <2>6. n = 21 => AllBelong'
    <3> SUFFICES ASSUME n = 21, NEW e \in Documents PROVE (docs[e] # NoDoc /\ BelongsTo(e, Active))'
        BY DEF AllBelong
    <3>1. /\ DocumentsAgree /\ Evidence.rel = tx.rel /\ Evidence.row = Active
          /\ rows[Active] = tx.rel
        BY <2>1 DEF Progress
    <3>2. docs[e] # NoDoc /\ BelongsTo(e, Active)
        BY <3>1, AgreeBelongs DEF AllBelong
    <3>3. CASE e # "evidence"
        BY <1>2, <2>4, <3>2, <3>3 DEF BelongsTo, Active
    <3>4. CASE e = "evidence"
      <4>1. docs'[e].rel = rows'[Len(rows')] /\ docs'[e].row = Len(rows')
          BY <1>2, <2>5, <3>1, <3>4 DEF Active
      <4>2. tx.rel # 0
          BY <1>3 DEF Releases
      <4>3. docs'[e] # NoDoc
          BY <2>5, <3>4, <4>2 DEF NoDoc
      <4> QED
          BY <4>1, <4>3 DEF BelongsTo, Active
    <3> QED
        BY <3>3, <3>4
  <2>7. Progress(n + 1)'
      BY <1>2, <2>1, <2>2, <2>3, <2>5, <2>6 DEF Progress, Same, Active, Evidence
  <2> QED
      BY <2>3, <2>7
<1>7. CASE d = "attestation"
  <2>1. PICK n \in 1..23 : Tracks(tx, n) /\ Progress(n) /\ Place(d, n)
      BY <1>1, <1>2, ReadyAt
  <2>2. n \in {18, 22}
      BY <1>1, <1>7, <2>1, PlaceOf
  <2>3. /\ Same(tx', tx) /\ tx'.activated = tx.activated /\ tx'.noted = tx.noted
        /\ tx'.state = tx.state
        /\ Progress(n + 1)' => IInv'
      BY <1>3, <2>1, DocumentStep
  <2>4. docs'["evidence"] = docs["evidence"]
      BY <1>4, <1>7 DEF WriteKeeping, Documents
  <2>5. Progress(n + 1)'
      BY <1>2, <2>1, <2>2, <2>3, <2>4 DEF Progress, Same, Active, Evidence
  <2> QED
      BY <2>3, <2>5
<1> QED
    BY <1>1, <1>5, <1>6, <1>7

LEMMA GoodWrite ==
    ASSUME IInv, NEW d \in Documents, WriteDocument(d)
    PROVE  IInv'
<1>1. Typed
    BY DEF IInv
<1>2. docs \in [Documents -> Document] /\ tx.originals \in [Documents -> Document]
    BY <1>1, RowsTyped DEF HostOK, Transaction
<1> DEFINE v == IF d \in tx.wrote THEN tx.originals[d] ELSE docs[d]
<1>3. v \in Document /\ v = Found0[d]
    BY <1>2 DEF Found0, Found
<1>4. WriteKeeping(d, v) /\ faults' \in 0..MaxFaults
    BY <1>1, RowsTyped DEF WriteDocument, HostOK
<1> HIDE DEF v
<1> QED
    BY <1>3, <1>4, GoodDocument

LEMMA UnreadWrite ==
    ASSUME IInv, NEW d \in Documents, WriteDocumentUnread(d)
    PROVE  IInv'
<1>1. NoDoc \in Document
    BY FinalizationAssumption DEF NoDoc, Document, Rows, MaxRows
<1>2. WriteKeeping(d, NoDoc) /\ faults' \in 0..MaxFaults
    BY FaultCounted DEF WriteDocumentUnread, IInv
<1> QED
    BY <1>1, <1>2, GoodDocument

LEMMA GoodActivate ==
    ASSUME IInv, Activate
    PROVE  IInv'
<1>1. /\ Core /\ tx.todo # <<>> /\ tx.mode # "none" /\ last.outcome = "none"
      /\ tx.rel \in Releases /\ ~tx.undoing /\ (tx.mode = "rollback" \/ ~tx.unproven)
      /\ Tracks(tx, 14) /\ Progress(14)
    BY ActivateCase DEF Activate
<1>2. Typed /\ Unstaged /\ Modal /\ tx \in Transaction /\ Len(rows) \in Nat
    BY <1>1, RowsTyped DEF Core
<1>3. tx.todo \in Seq(Words)
    BY <1>2 DEF Transaction
<1>4. Tail(tx.todo) \in Seq(Words)
    BY <1>1, <1>3, PlanTail
<1>5. UNCHANGED <<objs, marker, api, stack, docs, journal, root, staged, last, faults>>
    BY DEF Activate
<1>6. tx' \in Transaction
  <2>1. {"activate"} \in SUBSET Words
      BY DEF Words
  <2>2. Len(rows) + 1 \in Nat
      BY <1>2
  <2> QED
      BY <1>2, <1>4, <2>1, <2>2, ForwardShape DEF Activate, Advance
<1>7. /\ Same(tx', tx) /\ tx'.todo = Tail(tx.todo) /\ tx'.state = tx.state
      /\ tx'.undoing = tx.undoing /\ tx'.unproven = tx.unproven
      /\ tx'.activated = Len(rows) + 1 /\ tx'.wrote = tx.wrote /\ tx'.originals = tx.originals
      /\ tx'.noted = tx.noted \cup {"activate"}
    BY <1>2 DEF Activate, Advance, Transaction, Same
<1>8. faults' \in 0..MaxFaults
    BY <1>2, <1>5, RowsTyped DEF HostOK
<1>9. HostOK'
    BY <1>1, <1>5, <1>8, HostRowAdded DEF Activate
<1>10. /\ Len(rows') = Len(rows) + 1 /\ rows'[Len(rows')] = tx.rel
       /\ tx.mode = "fresh" => Len(rows') <= 1
       /\ tx.mode = "upgrade" => Len(rows') <= 2 /\ rows'[1] = rows[1]
       /\ tx.mode = "rollback" => Len(rows') <= 3
    BY <1>1, RowAdded DEF Activate
<1>11. Len(rows') \in Nat /\ Len(rows') >= Len(rows) /\ Len(rows') # 0 /\ Len(rows) + 1 # 0
    BY <1>2, <1>10
<1>12. "marker" \in tx'.noted => "marker" \in tx.noted
    BY <1>7
<1>13. Progress(14 + 1)'
  <2>1. objs = Objects /\ "marker" \notin tx.noted /\ tx.state = "prepared"
      BY <1>1 DEF Progress
  <2>2. /\ tx'.activated # 0 /\ "activate" \in tx'.noted /\ "marker" \notin tx'.noted
        /\ tx'.state = "prepared"
      BY <1>7, <1>11, <1>12, <2>1
  <2>3. rows'[Len(rows')] = tx'.rel
      BY <1>7, <1>10 DEF Same
  <2> QED
      BY <1>5, <1>11, <2>1, <2>2, <2>3 DEF Progress, Active
<1>14. OnTrack' /\ BackingOut'
    BY <1>1, <1>7, <1>13, StepForward
<1>15. Found0' = Found0
    BY <1>5, <1>7 DEF Found0, Found
<1>16. tx'.activated # 0
    BY <1>7, <1>11
<1>17. Modal'
    BY <1>1, <1>2, <1>5, <1>7, <1>10, <1>11, <1>12, <1>15, <1>16, Remembers, ModalStep
<1>18. Typed'
    BY <1>2, <1>5, <1>6, <1>9, TypedNext, RowsTyped
<1>19. Unstaged'
    BY <1>2, <1>5 DEF Unstaged
<1> QED
    BY <1>1, <1>5, <1>14, <1>17, <1>18, <1>19, StepClaims DEF Core

LEMMA GoodMarker ==
    ASSUME IInv, WriteMarker
    PROVE  IInv'
<1>1. At("marker") /\ CanStage
    BY DEF WriteMarker
<1>2. /\ tx.activated # 0 /\ tx.todo # <<>> /\ Head(tx.todo) \notin Undos /\ Core
      /\ ~root => tx.mode = "fresh" /\ marker = 0 /\ Len(rows) <= 1
    BY <1>1, MarkerCase
<1>3. "marker" \in Words \ Undos
    BY DEF Words, Undos
<1>4. PICK n \in 1..23 : Tracks(tx, n) /\ Progress(n) /\ Place("marker", n)
    BY <1>1, <1>3, ReadyAt
<1>5. n = 15
    BY <1>3, <1>4, PlaceOf
<1>6. Typed /\ tx \in Transaction
    BY <1>2, RowsTyped DEF Core
<1>7. Tail(tx.todo) \in Seq(Words)
    BY <1>2, <1>6, PlanTail DEF Transaction
<1>8. tx' \in Transaction
  <2>1. {"marker"} \in SUBSET Words
      BY <1>3
  <2> QED
      BY <1>6, <1>7, <2>1, ForwardShape DEF WriteMarker, Advance
<1>9. /\ Same(tx', tx) /\ tx'.todo = Tail(tx.todo) /\ tx'.state = tx.state
      /\ tx'.undoing = tx.undoing /\ tx'.unproven = tx.unproven
      /\ tx'.activated = tx.activated /\ tx'.wrote = tx.wrote /\ tx'.originals = tx.originals
      /\ tx'.noted = tx.noted \cup {"marker"}
    BY <1>6 DEF WriteMarker, Advance, Transaction, Same
<1>10. /\ marker' = Len(rows) /\ staged' = marker
       /\ UNCHANGED <<objs, rows, api, stack, docs, journal, root, last, faults>>
    BY DEF WriteMarker, Active
<1>11. HostOK'
  <2>1. marker' \in 0..Len(rows) /\ staged' \in 0..Len(rows)
      BY <1>6, <1>10, RowsTyped
  <2> QED
      BY <1>6, <1>10, <2>1, RowsTyped DEF HostOK
<1>12. Unstaged'
    BY <1>2, <1>10 DEF Unstaged
<1>13. Found0' = Found0
    BY <1>9, <1>10 DEF Found0, Found
<1>14. Progress(15 + 1)'
    BY <1>4, <1>5, <1>9, <1>10 DEF Progress, Active, Same
<1> QED
    BY <1>2, <1>4, <1>5, <1>8, <1>9, <1>10, <1>11, <1>12, <1>13, <1>14, Remembers, GoodStep

LEMMA GoodRuntime ==
    ASSUME IInv, ObserveRuntime
    PROVE  IInv'
<1>1. "runtime" \in Words \ Undos /\ At("runtime")
    BY DEF Words, Undos, ObserveRuntime
<1>2. Core /\ tx.todo # <<>> /\ Head(tx.todo) \notin Undos
    BY <1>1, ReadyAt
<1>3. PICK n \in 1..23 : Tracks(tx, n) /\ Progress(n) /\ Place("runtime", n)
    BY <1>1, ReadyAt
<1>4. n = 16
    BY <1>1, <1>3, PlaceOf
<1>5. Typed /\ Unstaged /\ tx \in Transaction
    BY <1>2, RowsTyped DEF Core
<1>6. Tail(tx.todo) \in Seq(Words)
    BY <1>2, <1>5, PlanTail DEF Transaction
<1>7. tx' \in Transaction
    BY <1>5, <1>6, ForwardShape DEF ObserveRuntime, Advance
<1>8. /\ Same(tx', tx) /\ tx'.todo = Tail(tx.todo) /\ tx'.state = tx.state
      /\ tx'.undoing = tx.undoing /\ tx'.unproven = tx.unproven
      /\ tx'.activated = tx.activated /\ tx'.wrote = tx.wrote /\ tx'.originals = tx.originals
      /\ tx'.noted = tx.noted
    BY <1>5 DEF ObserveRuntime, Advance, Transaction, Same
<1>9. /\ api' = marker /\ stack = tx.rel
      /\ UNCHANGED <<objs, rows, marker, stack, docs, journal, root, staged, last, faults>>
    BY DEF ObserveRuntime
<1>10. HostOK'
    BY <1>5, <1>9, RowsTyped DEF HostOK
<1>11. Unstaged' /\ Found0' = Found0
    BY <1>5, <1>8, <1>9 DEF Unstaged, Found0, Found
<1>12. Progress(16 + 1)'
    BY <1>3, <1>4, <1>8, <1>9 DEF Progress, Active, Same
<1> QED
    BY <1>2, <1>3, <1>4, <1>7, <1>8, <1>9, <1>10, <1>11, <1>12, Remembers, GoodStep

LEMMA GoodCleanup ==
    ASSUME IInv, Cleanup
    PROVE  IInv'
<1>1. "cleanup" \in Words \ Undos /\ At("cleanup")
    BY DEF Words, Undos, Cleanup
<1>2. Core /\ tx.todo # <<>> /\ Head(tx.todo) \notin Undos
    BY <1>1, ReadyAt
<1>3. PICK n \in 1..23 : Tracks(tx, n) /\ Progress(n) /\ Place("cleanup", n)
    BY <1>1, ReadyAt
<1>4. n = 20
    BY <1>1, <1>3, PlaceOf
<1>5. Typed /\ Unstaged /\ tx \in Transaction
    BY <1>2, RowsTyped DEF Core
<1>6. Tail(tx.todo) \in Seq(Words)
    BY <1>2, <1>5, PlanTail DEF Transaction
<1>7. tx' \in Transaction
  <2>1. "committed" \in {"none", "prepared", "committed"}
      OBVIOUS
  <2> QED
      BY <1>5, <1>6, <2>1, ForwardShape DEF Cleanup, Advance
<1>8. /\ Same(tx', tx) /\ tx'.todo = Tail(tx.todo)
      /\ tx'.undoing = tx.undoing /\ tx'.unproven = tx.unproven
      /\ tx'.activated = tx.activated /\ tx'.wrote = tx.wrote /\ tx'.originals = tx.originals
      /\ tx'.noted = tx.noted
    BY <1>5 DEF Cleanup, Advance, Transaction, Same
<1>9. /\ staged' = 0 /\ journal' = FALSE
      /\ UNCHANGED <<objs, rows, marker, api, stack, docs, root, last, faults>>
    BY DEF Cleanup
<1>10. HostOK'
  <2>1. staged' \in 0..Len(rows)
      BY <1>5, <1>9, RowsTyped
  <2>2. Flag(journal')
      BY <1>9, Zenon DEF Flag
  <2> QED
      BY <1>5, <1>9, <2>1, <2>2, RowsTyped DEF HostOK
<1>11. Unstaged' /\ Found0' = Found0
    BY <1>5, <1>8, <1>9 DEF Unstaged, Found0, Found
<1>12. Progress(20 + 1)'
  <2>1. DocumentsAgree /\ Evidence.rel = tx.rel
      BY <1>3, <1>4 DEF Progress
  <2>2. (DocumentsAgree /\ Evidence.rel = tx.rel)'
      BY <1>8, <1>9, <2>1 DEF DocumentsAgree, Evidence, Same
  <2> QED
      BY <1>3, <1>4, <1>8, <1>9, <2>2 DEF Progress, Active, Same, Evidence
<1> QED
    BY <1>2, <1>3, <1>4, <1>7, <1>8, <1>9, <1>10, <1>11, <1>12, Remembers, GoodStep

-----------------------------------------------------------------------------
(* Steps of a compensation.                                                *)

LEMMA Undoing ==
    ASSUME IInv, NEW w \in Undos, At(w)
    PROVE  /\ Core /\ tx.undoing /\ tx.mode # "none" /\ last.outcome = "none"
           /\ tx.todo # <<>> /\ Tail(tx.todo) \in Seq(Words)
           /\ \A x \in Words : Ahead(tx.todo, x) <=> x = w \/ Ahead(Tail(tx.todo), x)
           /\ \A i \in 1..Len(Tail(tx.todo)) : Tail(tx.todo)[i] \in Undos
<1>1. Core /\ tx.todo # <<>> /\ Head(tx.todo) = w
    BY DEF IInv, Core, At
<1>2. tx \in Transaction /\ tx.todo \in Seq(Words) /\ w \in Words
    BY <1>1, RowsTyped DEF Core, Transaction, Words
<1>3. tx.mode # "none" /\ last.outcome = "none"
    BY <1>1, NoTransaction DEF Core, Modal
<1>4. tx.undoing
  <2> SUFFICES ASSUME ~tx.undoing PROVE FALSE
      OBVIOUS
  <2>1. PICK n \in 1..24 : Tracks(tx, n)
      BY <1>1, <1>3 DEF Core, OnTrack
  <2>2. n <= 23 /\ Place(w, n)
      BY <1>1, <1>2, <2>1, TrackStep
  <2>3. n \in 1..23
      BY <2>2
  <2> QED
      BY <1>2, <2>2, <2>3, PlaceOf
<1>5. /\ Tail(tx.todo) \in Seq(Words)
      /\ \A x \in Words : Ahead(tx.todo, x) <=> x = w \/ Ahead(Tail(tx.todo), x)
    BY <1>1, <1>2, PlanTail
<1>6. ASSUME NEW i \in 1..Len(Tail(tx.todo)) PROVE Tail(tx.todo)[i] \in Undos
  <2>1. Tail(tx.todo)[i] = tx.todo[i + 1] /\ i + 1 \in 1..Len(tx.todo)
      BY <1>1, <1>2, HeadTailProperties, LenProperties
  <2> QED
      BY <1>1, <1>4, <2>1 DEF Core, BackingOut
<1> QED
    BY <1>1, <1>3, <1>4, <1>5, <1>6

LEMMA NothingLeft ==
    (\A i \in 1..Len(<<>>) : <<>>[i] \in Undos) /\ \A x \in Words : ~Ahead(<<>>, x)
    BY EmptySeq DEF Ahead

LEMMA UndoStep ==
    ASSUME IInv, NEW w \in Undos, At(w), w # "roll back" \/ tx'.unproven,
           tx' \in Transaction, Same(tx', tx),
           tx'.undoing = tx.undoing, tx'.activated = tx.activated, tx'.noted = tx.noted,
           tx'.todo = Tail(tx.todo) \/ (tx'.todo = <<>> /\ tx'.unproven),
           tx.unproven => tx'.unproven,
           HostOK', Unstaged', rows' = rows, root' = root, last' = last, Found0' = Found0,
           w # "undo documents" => docs' = docs,
           w = "undo documents" /\ ~tx'.unproven => docs' = Found0',
           w = "undo journal" /\ ~tx'.unproven => ~(tx.mode = "fresh" /\ tx.activated # 0),
           tx.mode = "upgrade" /\ tx.activated = 0 => marker' = marker,
           tx.mode # "fresh" /\ ~root => marker' = marker
    PROVE  IInv'
<1>1. /\ Core /\ tx.undoing /\ tx.mode # "none" /\ last.outcome = "none"
      /\ \A x \in Words : Ahead(tx.todo, x) <=> x = w \/ Ahead(Tail(tx.todo), x)
      /\ \A i \in 1..Len(Tail(tx.todo)) : Tail(tx.todo)[i] \in Undos
    BY Undoing
<1>2. Typed /\ Modal /\ BackingOut
    BY <1>1 DEF Core
<1>3. OnTrack'
    BY <1>1 DEF OnTrack
<1>4. {"undo documents", "undo journal", "roll back", "teardown"} \subseteq Words
    BY DEF Words, Undos
<1>5. \A i \in 1..Len(tx'.todo) : tx'.todo[i] \in Undos
  <2>1. CASE tx'.todo = Tail(tx.todo)
      BY <1>1, <2>1
  <2>2. CASE tx'.todo = <<>>
      BY <2>2, NothingLeft
  <2> QED
      BY <2>1, <2>2
<1>6. \A x \in Words : Ahead(tx'.todo, x) => Ahead(tx.todo, x)
  <2>1. CASE tx'.todo = Tail(tx.todo)
      BY <1>1, <2>1
  <2>2. CASE tx'.todo = <<>>
      BY <2>2, NothingLeft
  <2> QED
      BY <2>1, <2>2
<1>7. /\ Ahead(tx'.todo, "roll back") => tx'.mode = "upgrade"
      /\ Ahead(tx'.todo, "teardown") => tx'.mode = "fresh"
      /\ tx'.mode = "rollback" => tx'.unproven
    BY <1>1, <1>2, <1>4, <1>6 DEF BackingOut, Same
<1>8. ASSUME ~tx'.unproven
      PROVE  /\ Ahead(tx'.todo, "undo documents") \/ docs' = Found0'
             /\ tx'.mode = "fresh" =>
                  rows' = <<>> \/ (tx'.activated # 0 /\ Ahead(tx'.todo, "undo journal"))
             /\ tx'.mode = "upgrade" /\ tx'.activated = 0 => Len(rows') = 1
             /\ tx'.mode = "upgrade" /\ tx'.activated # 0 => Ahead(tx'.todo, "roll back")
  <2>1. ~tx.unproven /\ tx'.todo = Tail(tx.todo)
      BY <1>8
  <2>2. /\ Ahead(tx.todo, "undo documents") \/ docs = Found0
        /\ tx.mode = "fresh" =>
              rows = <<>> \/ (tx.activated # 0 /\ Ahead(tx.todo, "undo journal"))
        /\ tx.mode = "upgrade" /\ tx.activated = 0 => Len(rows) = 1
        /\ tx.mode = "upgrade" /\ tx.activated # 0 => Ahead(tx.todo, "roll back")
      BY <1>1, <1>2, <2>1 DEF BackingOut, Found0
  <2>3. \A x \in Words : Ahead(tx.todo, x) => x = w \/ Ahead(tx'.todo, x)
      BY <1>1, <2>1
  <2>4. Ahead(tx'.todo, "undo documents") \/ docs' = Found0'
    <3>1. CASE w = "undo documents"
        BY <1>8, <3>1
    <3>2. CASE w # "undo documents"
        BY <1>4, <2>2, <2>3, <3>2
    <3> QED
        BY <3>1, <3>2
  <2>5. tx'.mode = "fresh" =>
            rows' = <<>> \/ (tx'.activated # 0 /\ Ahead(tx'.todo, "undo journal"))
    <3>1. CASE w = "undo journal"
        BY <1>8, <2>2, <3>1 DEF Same
    <3>2. CASE w # "undo journal"
        BY <1>4, <2>2, <2>3, <3>2 DEF Same
    <3> QED
        BY <3>1, <3>2
  <2>6. /\ tx'.mode = "upgrade" /\ tx'.activated = 0 => Len(rows') = 1
        /\ tx'.mode = "upgrade" /\ tx'.activated # 0 => Ahead(tx'.todo, "roll back")
      BY <1>4, <1>8, <2>2, <2>3 DEF Same
  <2> QED
      BY <2>4, <2>5, <2>6
<1>9. BackingOut'
  <2>1. docs' = Found0' <=> docs' = Found(docs', tx')
      BY DEF Found0
  <2> QED
      BY <1>5, <1>7, <1>8, <2>1, Zenon DEF BackingOut, Found0
<1>10. Len(rows') \in Nat /\ Len(rows') >= Len(rows)
    BY <1>2, RowsKept
<1>11. /\ tx.mode = "fresh" => Len(rows) <= 1
       /\ tx.mode = "upgrade" => Len(rows) <= 2
       /\ tx.mode = "rollback" => Len(rows) <= 3
    BY <1>2, RowsBounded
<1>12. Modal'
    BY <1>1, <1>2, <1>10, <1>11, Remembers, ModalStep
<1>13. Typed'
    BY <1>2, TypedNext, RowsTyped
<1> QED
    BY <1>1, <1>3, <1>9, <1>12, <1>13, StepClaims DEF Core

\* The shapes a compensation step gives the transaction.
UndoneTo(u, t) ==
    /\ u \in Transaction /\ Same(u, t) /\ u.undoing = t.undoing
    /\ u.activated = t.activated /\ u.noted = t.noted
    /\ u.wrote = t.wrote /\ u.originals = t.originals

Residual(t, b) == [Advance(t) EXCEPT !.residual = b]
Unproven(t, b) == [Advance(t) EXCEPT !.unproven = b]
Stopped(t, b) == [Unproven(t, b) EXCEPT !.todo = <<>>]

LEMMA UndoShape ==
    ASSUME NEW t \in Transaction, t.todo # <<>>, NEW b \in BOOLEAN
    PROVE  /\ UndoneTo(Advance(t), t) /\ Advance(t).todo = Tail(t.todo)
           /\ Advance(t).unproven = t.unproven
           /\ UndoneTo(Residual(t, b), t) /\ Residual(t, b).todo = Tail(t.todo)
           /\ Residual(t, b).unproven = t.unproven
           /\ UndoneTo(Unproven(t, b), t) /\ Unproven(t, b).todo = Tail(t.todo)
           /\ Unproven(t, b).unproven = b
           /\ UndoneTo(Stopped(t, b), t) /\ Stopped(t, b).todo = <<>>
           /\ Stopped(t, b).unproven = b
<1> DEFINE q == Tail(t.todo)
           a == [t EXCEPT !.todo = q]
<1>1. q \in Seq(Words) /\ <<>> \in Seq(Words)
    BY PlanTail, EmptySeq DEF Transaction
<1>2. /\ a \in Transaction
      /\ [a EXCEPT !.residual = b] \in Transaction
      /\ [a EXCEPT !.unproven = b] \in Transaction
    BY <1>1, ForwardShape
<1>3. Advance(t) = a
    BY DEF Advance
<1>4. UndoneTo(a, t) /\ a.todo = q /\ a.unproven = t.unproven
    BY <1>2 DEF UndoneTo, Same, Transaction
<1>5. ASSUME NEW u, u = [a EXCEPT !.residual = b]
      PROVE  UndoneTo(u, t) /\ u.todo = q /\ u.unproven = t.unproven
  <2>1. u \in Transaction
      BY <1>2, <1>5
  <2> QED
      BY <1>5, <2>1 DEF UndoneTo, Same, Transaction
<1>6. ASSUME NEW u, u = [a EXCEPT !.unproven = b]
      PROVE  /\ UndoneTo(u, t) /\ u.todo = q /\ u.unproven = b
             /\ UndoneTo([u EXCEPT !.todo = <<>>], t)
             /\ [u EXCEPT !.todo = <<>>].todo = <<>>
             /\ [u EXCEPT !.todo = <<>>].unproven = b
  <2>1. u \in Transaction
      BY <1>2, <1>6
  <2>2. UndoneTo(u, t) /\ u.todo = q /\ u.unproven = b
      BY <1>6, <2>1 DEF UndoneTo, Same, Transaction
  <2>3. [u EXCEPT !.todo = <<>>] \in Transaction
      BY <1>1, <2>1, Zenon DEF Transaction
  <2>4. /\ Same([u EXCEPT !.todo = <<>>], u) /\ [u EXCEPT !.todo = <<>>].undoing = u.undoing
        /\ [u EXCEPT !.todo = <<>>].activated = u.activated
        /\ [u EXCEPT !.todo = <<>>].noted = u.noted
        /\ [u EXCEPT !.todo = <<>>].wrote = u.wrote
        /\ [u EXCEPT !.todo = <<>>].originals = u.originals
        /\ [u EXCEPT !.todo = <<>>].todo = <<>>
        /\ [u EXCEPT !.todo = <<>>].unproven = u.unproven
      BY <2>1 DEF Same, Transaction
  <2> QED
      BY <2>2, <2>3, <2>4 DEF UndoneTo, Same
<1> HIDE DEF a
<1>7. Residual(t, b) = [a EXCEPT !.residual = b] /\ Unproven(t, b) = [a EXCEPT !.unproven = b]
    BY <1>3 DEF Residual, Unproven
<1>8. /\ UndoneTo(Residual(t, b), t) /\ Residual(t, b).todo = q
      /\ Residual(t, b).unproven = t.unproven
    BY <1>5, <1>7
<1>9. /\ UndoneTo(Unproven(t, b), t) /\ Unproven(t, b).todo = q
      /\ Unproven(t, b).unproven = b
      /\ UndoneTo(Stopped(t, b), t) /\ Stopped(t, b).todo = <<>>
      /\ Stopped(t, b).unproven = b
    BY <1>6, <1>7 DEF Stopped
<1> QED
    BY <1>3, <1>4, <1>8, <1>9

LEMMA AdvanceShape ==
    ASSUME NEW t \in Transaction, t.todo # <<>>
    PROVE  /\ UndoneTo(Advance(t), t) /\ Advance(t).todo = Tail(t.todo)
           /\ Advance(t).unproven = t.unproven
           /\ UndoneTo(Unproven(t, TRUE), t) /\ Unproven(t, TRUE).todo = Tail(t.todo)
           /\ Unproven(t, TRUE).unproven
<1>1. TRUE \in BOOLEAN
    OBVIOUS
<1>2. /\ UndoneTo(Advance(t), t) /\ Advance(t).todo = Tail(t.todo)
      /\ Advance(t).unproven = t.unproven
      /\ UndoneTo(Unproven(t, TRUE), t) /\ Unproven(t, TRUE).todo = Tail(t.todo)
      /\ Unproven(t, TRUE).unproven = TRUE
    BY <1>1, UndoShape, Zenon
<1> QED
    BY <1>2

\* A compensation step that leaves the documents alone.
LEMMA UndoQuietly ==
    ASSUME IInv, NEW w \in Undos, At(w), w \notin {"roll back", "undo documents", "undo journal"},
           UndoneTo(tx', tx), tx'.todo = Tail(tx.todo), tx.unproven => tx'.unproven,
           HostOK', Unstaged', UNCHANGED <<rows, root, last, docs>>,
           tx.mode = "upgrade" /\ tx.activated = 0 => marker' = marker,
           tx.mode # "fresh" /\ ~root => marker' = marker
    PROVE  IInv'
<1>1. /\ tx' \in Transaction /\ Same(tx', tx) /\ tx'.undoing = tx.undoing
      /\ tx'.activated = tx.activated /\ tx'.noted = tx.noted
      /\ tx'.wrote = tx.wrote /\ tx'.originals = tx.originals
    BY DEF UndoneTo
<1>2. Found0' = Found0
    BY <1>1 DEF Found0, Found
<1>3. w # "roll back" /\ w # "undo documents" /\ w # "undo journal"
    OBVIOUS
<1> QED
    BY <1>1, <1>2, <1>3, UndoStep

LEMMA UndosMarker ==
    ASSUME IInv, UndoMarker
    PROVE  IInv'
<1>1. "undo marker" \in Undos /\ At("undo marker")
    BY DEF Undos, UndoMarker
<1>2. "undo marker" \notin {"roll back", "undo documents", "undo journal"}
    OBVIOUS
<1>3. Core /\ tx.undoing /\ tx.todo # <<>>
    BY <1>1, Undoing
<1>4. Typed /\ Unstaged /\ Modal /\ tx \in Transaction
    BY <1>3, RowsTyped DEF Core
<1>5. UNCHANGED <<objs, rows, stack, docs, journal, root, staged, last>>
    BY DEF UndoMarker
<1>6. \/ tx' = Advance(tx)
      \/ \E b \in BOOLEAN : tx' = Residual(tx, b)
  <2>1. tx.residual \in BOOLEAN
      BY <1>4, Zenon DEF Transaction
  <2>2. \A restorable : (tx.residual \/ ~restorable) \in BOOLEAN
      OBVIOUS
  <2>3. Advance(tx).residual = tx.residual
      BY <1>4 DEF Advance, Transaction
  <2> QED
      BY <2>2, <2>3 DEF UndoMarker, Residual
<1>7. UndoneTo(tx', tx) /\ tx'.todo = Tail(tx.todo) /\ tx'.unproven = tx.unproven
  <2>1. CASE tx' = Advance(tx)
      BY <1>3, <1>4, <2>1, AdvanceShape
  <2>2. CASE \E b \in BOOLEAN : tx' = Residual(tx, b)
      BY <1>3, <1>4, <2>2, UndoShape
  <2> QED
      BY <1>6, <2>1, <2>2
<1>8. faults' = faults \/ Fault
    BY DEF UndoMarker
<1>9. /\ marker' \in {marker, staged} /\ api' \in {api, marker', 0}
      /\ "marker" \notin tx.noted => marker' = marker
    BY DEF UndoMarker, ApiLeft
<1>10. HostOK'
  <2>1. faults' \in 0..MaxFaults
      BY <1>4, <1>8, FaultCounted, RowsTyped DEF HostOK
  <2>2. marker' \in 0..Len(rows) /\ api' \in 0..Len(rows)
      BY <1>4, <1>9, RowsTyped
  <2> QED
      BY <1>4, <1>5, <2>1, <2>2, RowsTyped DEF HostOK
<1>11. Unstaged'
  <2>1. ~root => marker \in {0, 1} /\ staged = 0
    <3>1. marker \in 0..Len(rows) /\ Len(rows) \in Nat
        BY <1>4, RowsTyped
    <3> QED
        BY <1>4, <3>1 DEF Unstaged
  <2> QED
      BY <1>5, <1>9, <2>1 DEF Unstaged
<1>12. /\ tx.mode = "upgrade" /\ tx.activated = 0 => "marker" \notin tx.noted
       /\ tx.mode # "fresh" /\ ~root => "marker" \notin tx.noted
  <2>1. tx.mode \in {"none", "fresh", "upgrade", "rollback"}
      BY <1>4 DEF Transaction, Modes
  <2>2. tx.mode # "none"
      BY <1>1, Undoing
  <2> QED
      BY <1>4, <2>1, <2>2 DEF Modal
<1> QED
    BY <1>1, <1>2, <1>5, <1>7, <1>9, <1>10, <1>11, <1>12, UndoQuietly

LEMMA UndosObjects ==
    ASSUME IInv, UndoObjects
    PROVE  IInv'
<1>1. "undo objects" \in Undos /\ At("undo objects")
    BY DEF Undos, UndoObjects
<1>2. "undo objects" \notin {"roll back", "undo documents", "undo journal"}
    OBVIOUS
<1>3. Core /\ tx.undoing /\ tx.todo # <<>>
    BY <1>1, Undoing
<1>4. Typed /\ Unstaged /\ tx \in Transaction
    BY <1>3, RowsTyped DEF Core
<1>5. UNCHANGED <<rows, marker, api, stack, docs, journal, root, staged, last>>
    BY DEF UndoObjects
<1>6. \E b \in BOOLEAN : tx' = Residual(tx, b)
  <2>1. \A x : (x \/ "role" \in tx.created) \in BOOLEAN
      OBVIOUS
  <2> QED
      BY <2>1 DEF UndoObjects, Residual
<1>7. UndoneTo(tx', tx) /\ tx'.todo = Tail(tx.todo) /\ tx'.unproven = tx.unproven
    BY <1>3, <1>4, <1>6, UndoShape
<1>8. (faults' = faults \/ Fault) /\ objs' \subseteq objs
    BY DEF UndoObjects
<1>9. HostOK'
  <2>1. faults' \in 0..MaxFaults
      BY <1>4, <1>8, FaultCounted, RowsTyped DEF HostOK
  <2>2. objs' \subseteq Objects
      BY <1>4, <1>8, RowsTyped DEF HostOK
  <2> QED
      BY <1>4, <1>5, <2>1, <2>2, RowsTyped DEF HostOK
<1>10. Unstaged'
    BY <1>4, <1>5 DEF Unstaged
<1> QED
    BY <1>1, <1>2, <1>5, <1>7, <1>9, <1>10, UndoQuietly

LEMMA UndosStack ==
    ASSUME IInv, RestoreStack
    PROVE  IInv'
<1>1. "restore stack" \in Undos /\ At("restore stack")
    BY DEF Undos, RestoreStack
<1>2. "restore stack" \notin {"roll back", "undo documents", "undo journal"}
    OBVIOUS
<1>3. Core /\ tx.undoing /\ tx.todo # <<>>
    BY <1>1, Undoing
<1>4. Typed /\ Unstaged /\ tx \in Transaction
    BY <1>3, RowsTyped DEF Core
<1>5. /\ stack' \in {stack, tx.prior, Mixed} /\ api' \in {api, marker, 0}
      /\ UNCHANGED <<objs, rows, marker, docs, journal, root, staged, last>>
    BY DEF RestoreStack, ApiLeft
<1>6. \/ tx' = Advance(tx) /\ faults' = faults
      \/ tx' = Unproven(tx, TRUE) /\ Fault
    BY DEF RestoreStack, Unproven
<1>7. UndoneTo(tx', tx) /\ tx'.todo = Tail(tx.todo) /\ (tx.unproven => tx'.unproven)
  <2>1. tx' = Advance(tx) \/ tx' = Unproven(tx, TRUE)
      BY <1>6
  <2> QED
      BY <1>3, <1>4, <2>1, AdvanceShape
<1>8. HostOK'
  <2>1. faults' \in 0..MaxFaults
      BY <1>4, <1>6, FaultCounted, RowsTyped DEF HostOK
  <2>2. stack' \in 0..Mixed
    <3>1. tx.prior \in 0..MaxRelease /\ stack \in 0..Mixed
        BY <1>4, RowsTyped DEF Transaction, HostOK
    <3> QED
        BY <1>5, <3>1, FinalizationAssumption DEF Mixed
  <2>3. api' \in 0..Len(rows)
      BY <1>4, <1>5, RowsTyped
  <2> QED
      BY <1>4, <1>5, <2>1, <2>2, <2>3, RowsTyped DEF HostOK
<1>9. Unstaged'
    BY <1>4, <1>5 DEF Unstaged
<1> QED
    BY <1>1, <1>2, <1>5, <1>7, <1>8, <1>9, UndoQuietly

LEMMA UndosBootstrap ==
    ASSUME IInv, Teardown
    PROVE  IInv'
<1>1. "teardown" \in Undos /\ At("teardown") /\ "teardown" \in Words
    BY DEF Undos, Teardown, Words
<1>2. "teardown" \notin {"roll back", "undo documents", "undo journal"}
    OBVIOUS
<1>3. Core /\ tx.undoing /\ tx.todo # <<>> /\ Ahead(tx.todo, "teardown")
    BY <1>1, Undoing
<1>4. Typed /\ Unstaged /\ tx \in Transaction /\ tx.mode = "fresh"
    BY <1>3, RowsTyped DEF Core, BackingOut
<1>5. /\ stack' \in {0, stack, Mixed} /\ api' \in {api, 0}
      /\ UNCHANGED <<objs, rows, marker, docs, journal, root, staged, last>>
    BY DEF Teardown, ApiLeft
<1>6. \/ tx' = Advance(tx) /\ faults' = faults
      \/ tx' = Unproven(tx, TRUE) /\ Fault
    BY DEF Teardown, Unproven
<1>7. UndoneTo(tx', tx) /\ tx'.todo = Tail(tx.todo) /\ (tx.unproven => tx'.unproven)
  <2>1. tx' = Advance(tx) \/ tx' = Unproven(tx, TRUE)
      BY <1>6
  <2> QED
      BY <1>3, <1>4, <2>1, AdvanceShape
<1>8. HostOK'
  <2>1. faults' \in 0..MaxFaults
      BY <1>4, <1>6, FaultCounted, RowsTyped DEF HostOK
  <2>2. api' \in 0..Len(rows)
      BY <1>4, <1>5, RowsTyped
  <2>3. stack' \in 0..Mixed
    <3>1. stack \in 0..Mixed /\ 0 \in 0..Mixed /\ Mixed \in 0..Mixed
        BY <1>4, RowsTyped, FinalizationAssumption DEF HostOK, Mixed
    <3> QED
        BY <1>5, <3>1
  <2> QED
      BY <1>4, <1>5, <2>1, <2>2, <2>3, RowsTyped DEF HostOK
<1>9. Unstaged'
    BY <1>4, <1>5 DEF Unstaged
<1> QED
    BY <1>1, <1>2, <1>4, <1>5, <1>7, <1>8, <1>9, UndoQuietly

LEMMA UndosJournal ==
    ASSUME IInv, UndoJournal
    PROVE  IInv'
<1>1. "undo journal" \in Undos /\ At("undo journal")
    BY DEF Undos, UndoJournal
<1>2. "undo journal" # "undo documents" /\ "undo journal" # "roll back"
    OBVIOUS
<1>3. Core /\ tx.undoing /\ tx.todo # <<>>
    BY <1>1, Undoing
<1>4. Typed /\ Unstaged /\ tx \in Transaction
    BY <1>3, RowsTyped DEF Core
<1>5. UNCHANGED <<objs, rows, marker, api, stack, docs, root, last>>
    BY DEF UndoJournal
<1>6. /\ (staged' = 0 /\ journal' = FALSE) \/ (staged' = staged /\ journal' = journal)
      /\ faults' = faults \/ Fault
    BY DEF UndoJournal
<1>7. \E b \in BOOLEAN : /\ tx.unproven => b
                         /\ tx.mode = "fresh" /\ tx.activated # 0 => b
                         /\ tx' = Unproven(tx, b) \/ (b /\ tx' = Stopped(tx, b))
  <2> DEFINE b == tx.unproven \/ tx.residual \/ (tx.mode = "fresh" /\ tx.activated # 0)
  <2>1. /\ b \in BOOLEAN /\ (tx.unproven => b) /\ (tx.residual => b)
        /\ tx.mode = "fresh" /\ tx.activated # 0 => b
      OBVIOUS
  <2>2. Advance(tx).unproven = tx.unproven
      BY <1>3, <1>4, AdvanceShape
  <2>3. \/ tx' = IF tx.residual /\ tx.mode = "upgrade" /\ tx.activated # 0
                 THEN Stopped(tx, b) ELSE Unproven(tx, b)
        \/ tx' = IF tx.mode = "upgrade" /\ tx.activated # 0
                 THEN Stopped(tx, TRUE) ELSE Unproven(tx, TRUE)
      BY <2>2 DEF UndoJournal, Stopped, Unproven
  <2> HIDE DEF b
  <2>4. CASE tx' = IF tx.residual /\ tx.mode = "upgrade" /\ tx.activated # 0
                   THEN Stopped(tx, b) ELSE Unproven(tx, b)
    <3>1. tx' = Unproven(tx, b) \/ (b /\ tx' = Stopped(tx, b))
        BY <2>1, <2>4
    <3> QED
        BY <2>1, <3>1, Zenon
  <2>5. CASE tx' = IF tx.mode = "upgrade" /\ tx.activated # 0
                   THEN Stopped(tx, TRUE) ELSE Unproven(tx, TRUE)
    <3>1. tx' = Unproven(tx, TRUE) \/ tx' = Stopped(tx, TRUE)
        BY <2>5
    <3> QED
        BY <3>1, Zenon
  <2> QED
      BY <2>3, <2>4, <2>5
<1>8. PICK b \in BOOLEAN : /\ tx.unproven => b
                           /\ tx.mode = "fresh" /\ tx.activated # 0 => b
                           /\ tx' = Unproven(tx, b) \/ (b /\ tx' = Stopped(tx, b))
    BY <1>7
<1>9. /\ UndoneTo(tx', tx) /\ tx'.unproven = b
      /\ tx'.todo = Tail(tx.todo) \/ (tx'.todo = <<>> /\ tx'.unproven)
  <2>1. /\ UndoneTo(Unproven(tx, b), tx) /\ Unproven(tx, b).todo = Tail(tx.todo)
        /\ Unproven(tx, b).unproven = b
        /\ UndoneTo(Stopped(tx, b), tx) /\ Stopped(tx, b).todo = <<>>
        /\ Stopped(tx, b).unproven = b
      BY <1>3, <1>4, UndoShape, Zenon
  <2>2. CASE tx' = Unproven(tx, b)
      BY <2>1, <2>2
  <2>3. CASE b /\ tx' = Stopped(tx, b)
      BY <2>1, <2>3
  <2> QED
      BY <1>8, <2>2, <2>3
<1>10. /\ tx' \in Transaction /\ Same(tx', tx) /\ tx'.undoing = tx.undoing
       /\ tx'.activated = tx.activated /\ tx'.noted = tx.noted
       /\ tx'.wrote = tx.wrote /\ tx'.originals = tx.originals
    BY <1>9 DEF UndoneTo
<1>11. Found0' = Found0
    BY <1>5, <1>10 DEF Found0, Found
<1>12. HostOK'
  <2>1. faults' \in 0..MaxFaults
      BY <1>4, <1>6, FaultCounted, RowsTyped DEF HostOK
  <2>2. staged' \in 0..Len(rows)
    <3>1. staged' = 0 \/ staged' = staged
        BY <1>6
    <3> QED
        BY <1>4, <3>1, RowsTyped
  <2>3. Flag(journal')
    <3>1. Flag(journal) /\ Flag(FALSE)
        BY <1>4, RowsTyped DEF HostOK, Flag
    <3>2. journal' = FALSE \/ journal' = journal
        BY <1>6
    <3> QED
        BY <3>1, <3>2
  <2> QED
      BY <1>4, <1>5, <2>1, <2>2, <2>3, RowsTyped DEF HostOK
<1>13. Unstaged'
  <2>1. staged' = 0 \/ staged' = staged
      BY <1>6
  <2> QED
      BY <1>4, <1>5, <2>1 DEF Unstaged
<1>14. /\ tx.unproven => tx'.unproven
       /\ ~tx'.unproven => ~(tx.mode = "fresh" /\ tx.activated # 0)
    BY <1>8, <1>9
<1> QED
    BY <1>1, <1>2, <1>5, <1>9, <1>10, <1>11, <1>12, <1>13, <1>14, UndoStep

LEMMA UndosDocuments ==
    ASSUME IInv, UndoDocuments
    PROVE  IInv'
<1>1. "undo documents" \in Undos /\ At("undo documents")
    BY DEF Undos, UndoDocuments
<1>2. "undo documents" # "undo journal" /\ "undo documents" # "roll back"
    OBVIOUS
<1>3. Core /\ tx.undoing /\ tx.todo # <<>>
    BY <1>1, Undoing
<1>4. Typed /\ Unstaged /\ tx \in Transaction
    BY <1>3, RowsTyped DEF Core
<1>5. UNCHANGED <<objs, rows, marker, api, stack, journal, root, staged, last>>
    BY DEF UndoDocuments
<1>6. /\ docs \in [Documents -> Document] /\ tx.originals \in [Documents -> Document]
      /\ tx.wrote \subseteq Documents
    BY <1>4, RowsTyped DEF HostOK, Transaction
<1>7. \E back \in SUBSET tx.wrote :
          /\ docs' = [d \in Documents |-> IF d \in back THEN tx.originals[d] ELSE docs[d]]
          /\ \/ back = tx.wrote /\ tx' = Advance(tx) /\ faults' = faults
             \/ /\ Fault
                /\ tx' = Unproven(tx, TRUE) \/ tx' = Stopped(tx, TRUE)
  <2>1. CASE /\ docs' = [d \in Documents |-> IF d \in tx.wrote THEN tx.originals[d] ELSE docs[d]]
             /\ tx' = Advance(tx) /\ faults' = faults
      BY <2>1
  <2>2. CASE /\ Fault
             /\ \E back \in SUBSET tx.wrote \ {tx.wrote} :
                  docs' = [d \in Documents |-> IF d \in back THEN tx.originals[d] ELSE docs[d]]
             /\ tx' = [Advance(tx) EXCEPT
                         !.unproven = TRUE,
                         !.todo = IF tx.mode = "upgrade" /\ tx.activated # 0 THEN <<>> ELSE @]
    <3>1. tx' = Unproven(tx, TRUE) \/ tx' = Stopped(tx, TRUE)
        BY <1>4, <2>2 DEF Unproven, Stopped, Advance, Transaction
    <3> QED
        BY <2>2, <3>1
  <2> QED
      BY <2>1, <2>2 DEF UndoDocuments
<1>8. PICK back \in SUBSET tx.wrote :
          /\ docs' = [d \in Documents |-> IF d \in back THEN tx.originals[d] ELSE docs[d]]
          /\ \/ back = tx.wrote /\ tx' = Advance(tx) /\ faults' = faults
             \/ /\ Fault
                /\ tx' = Unproven(tx, TRUE) \/ tx' = Stopped(tx, TRUE)
    BY <1>7
<1>9. /\ UndoneTo(tx', tx) /\ (tx.unproven => tx'.unproven)
      /\ tx'.todo = Tail(tx.todo) \/ (tx'.todo = <<>> /\ tx'.unproven)
      /\ ~tx'.unproven => back = tx.wrote
  <2>1. CASE tx' = Advance(tx) /\ back = tx.wrote
      BY <1>3, <1>4, <2>1, AdvanceShape
  <2>2. CASE tx' = Unproven(tx, TRUE)
      BY <1>3, <1>4, <2>2, AdvanceShape
  <2>3. CASE tx' = Stopped(tx, TRUE)
    <3>1. TRUE \in BOOLEAN
        OBVIOUS
    <3>2. /\ UndoneTo(Stopped(tx, TRUE), tx) /\ Stopped(tx, TRUE).todo = <<>>
          /\ Stopped(tx, TRUE).unproven = TRUE
        BY <1>3, <1>4, <3>1, UndoShape, Zenon
    <3> QED
        BY <2>3, <3>2
  <2> QED
      BY <1>8, <2>1, <2>2, <2>3
<1>10. /\ tx' \in Transaction /\ Same(tx', tx) /\ tx'.undoing = tx.undoing
       /\ tx'.activated = tx.activated /\ tx'.noted = tx.noted
       /\ tx'.wrote = tx.wrote /\ tx'.originals = tx.originals
    BY <1>9 DEF UndoneTo
<1>11. /\ docs' \in [Documents -> Document]
       /\ \A d \in Documents : docs'[d] = IF d \in back THEN tx.originals[d] ELSE docs[d]
    BY <1>6, <1>8
<1>12. Found0' = Found0
  <2>1. \A d \in Documents : (IF d \in tx.wrote THEN tx.originals[d] ELSE docs'[d]) =
                             (IF d \in tx.wrote THEN tx.originals[d] ELSE docs[d])
      BY <1>11
  <2> QED
      BY <1>10, <2>1, Zenon DEF Found0, Found
<1>13. ~tx'.unproven => docs' = Found0'
    BY <1>8, <1>9, <1>12 DEF Found0, Found
<1>14. HostOK'
  <2>1. faults' \in 0..MaxFaults
    <3>1. faults' = faults \/ Fault
        BY <1>8
    <3> QED
        BY <1>4, <3>1, FaultCounted, RowsTyped DEF HostOK
  <2> QED
      BY <1>4, <1>5, <1>11, <2>1, RowsTyped DEF HostOK
<1>15. Unstaged'
    BY <1>4, <1>5 DEF Unstaged
<1> QED
    BY <1>1, <1>2, <1>5, <1>9, <1>10, <1>12, <1>13, <1>14, <1>15, UndoStep

\* A transaction begins, and a rollback begins.
LEMMA WholePlan ==
    /\ Forward \in Seq(Words) /\ Backward \in Seq(Words)
    /\ \A t : t.mode # "rollback" /\ t.todo = Forward => Tracks(t, 1)
    /\ \A t : t.mode = "rollback" /\ t.todo = Backward => Tracks(t, 6)
<1>1. /\ Forward \in Seq(Words) /\ Backward \in Seq(Words)
      /\ Len(Forward) = 23 /\ Len(Backward) = 15
    BY ForwardPlan, BackwardPlan DEF List
<1>2. OnPlan(Forward, Forward, 1)
  <2>1. \A i \in 1..23 : 1 + i - 1 = i
      OBVIOUS
  <2>2. \A i \in 1..23 : Forward[i] = Forward[1 + i - 1]
      BY <2>1
  <2>3. 1 \in 1..(23 + 1) /\ 23 = 23 + 1 - 1
      OBVIOUS
  <2> QED
      BY <1>1, <2>2, <2>3 DEF OnPlan
<1>3. OnPlan(Backward, Backward, 1)
  <2>1. \A i \in 1..15 : 1 + i - 1 = i
      OBVIOUS
  <2>2. \A i \in 1..15 : Backward[i] = Backward[1 + i - 1]
      BY <2>1
  <2>3. 1 \in 1..(15 + 1) /\ 15 = 15 + 1 - 1
      OBVIOUS
  <2> QED
      BY <1>1, <2>2, <2>3 DEF OnPlan
<1>4. ASSUME NEW t, t.mode # "rollback", t.todo = Forward PROVE Tracks(t, 1)
    BY <1>2, <1>4 DEF Tracks
<1>5. ASSUME NEW t, t.mode = "rollback", t.todo = Backward PROVE Tracks(t, 6)
  <2>1. 6 - 5 = 1
      OBVIOUS
  <2> QED
      BY <1>3, <1>5, <2>1 DEF Tracks
<1> QED
    BY <1>1, <1>4, <1>5, Zenon

LEMMA RollsBack ==
    ASSUME IInv, RollBack
    PROVE  IInv'
<1>1. "roll back" \in Undos /\ At("roll back") /\ "roll back" \in Words
    BY DEF Undos, RollBack, Words
<1>2. Core /\ tx.undoing /\ last.outcome = "none" /\ Ahead(tx.todo, "roll back")
    BY <1>1, Undoing
<1>3. Typed /\ Unstaged /\ Modal /\ tx \in Transaction /\ tx.mode = "upgrade"
    BY <1>2, RowsTyped DEF Core, BackingOut
<1>4. UNCHANGED <<host, root, last, faults>>
    BY DEF RollBack
<1>5. /\ tx.prior \in Releases /\ MaxRelease >= 2 /\ Len(rows) \in 1..2
      /\ ~root => marker # 0
    BY <1>3 DEF Modal
<1>6. /\ tx'.mode = "rollback" /\ tx'.rel = tx.prior /\ tx'.todo = Backward
      /\ tx'.undoing = FALSE /\ tx'.noted = {} /\ tx'.activated = 0 /\ tx'.state = "prepared"
    BY DEF RollBack, NoTx
<1>7. tx' \in Transaction
  <2>1. tx.unproven \in BOOLEAN
      BY <1>3, Zenon DEF Transaction
  <2>2. tx.prior \in 0..MaxRelease /\ "rollback" \in Modes
      BY <1>5 DEF Releases, Modes
  <2> QED
      BY <2>1, <2>2, WholePlan, BeginShape, Zenon DEF RollBack
<1>8. HostOK'
    BY <1>3, <1>4, RowsTyped DEF HostOK, host
<1>9. Typed'
    BY <1>3, <1>4, <1>7, <1>8, TypedNext, RowsTyped
<1>10. BackingOut'
    BY <1>6 DEF BackingOut
<1>11. Len(rows') <= 2
  <2>1. \A a : a \in 1..2 => a <= 2
      OBVIOUS
  <2> QED
      BY <1>4, <1>5, <2>1 DEF host
<1>12. OnTrack'
  <2>1. Tracks(tx', 6)
      BY <1>6, WholePlan
  <2>2. Tracks(tx, 6)'
      BY <2>1 DEF Tracks
  <2>3. Progress(6)'
      BY <1>6, <1>11 DEF Progress
  <2>4. 6 \in 1..24
      OBVIOUS
  <2> QED
      BY <1>6, <2>2, <2>3, <2>4 DEF OnTrack
<1>13. Modal'
  <2>1. Len(rows') <= 3
    <3>1. Len(rows') \in Nat
        BY <1>3, <1>4, RowsTyped DEF host
    <3> QED
        BY <1>11, <3>1
  <2> QED
      BY <1>2, <1>4, <1>5, <1>6, <2>1 DEF Modal, host
<1>14. Unstaged'
    BY <1>3, <1>4 DEF Unstaged, host
<1> QED
    BY <1>2, <1>4, <1>9, <1>10, <1>12, <1>13, <1>14, StepClaims DEF Core

LEMMA CannotRollBack ==
    ASSUME IInv, RollBackUnloadable
    PROVE  IInv'
<1>1. "roll back" \in Undos /\ At("roll back")
    BY DEF Undos, RollBackUnloadable
<1>2. Core /\ tx.todo # <<>>
    BY <1>1, Undoing
<1>3. Typed /\ Unstaged /\ tx \in Transaction
    BY <1>2, RowsTyped DEF Core
<1>4. UNCHANGED <<host, root, last>> /\ (faults' = faults \/ Fault)
    BY DEF RollBackUnloadable
<1>5. UndoneTo(tx', tx) /\ tx'.todo = Tail(tx.todo) /\ tx'.unproven
  <2>1. tx' = Unproven(tx, TRUE)
      BY DEF RollBackUnloadable, Unproven
  <2> QED
      BY <1>2, <1>3, <2>1, AdvanceShape
<1>6. /\ tx' \in Transaction /\ Same(tx', tx) /\ tx'.undoing = tx.undoing
      /\ tx'.activated = tx.activated /\ tx'.noted = tx.noted
      /\ tx'.wrote = tx.wrote /\ tx'.originals = tx.originals
    BY <1>5 DEF UndoneTo
<1>7. Found0' = Found0
    BY <1>4, <1>6 DEF Found0, Found, host
<1>8. HostOK'
  <2>1. faults' \in 0..MaxFaults
      BY <1>3, <1>4, FaultCounted, RowsTyped DEF HostOK
  <2> QED
      BY <1>3, <1>4, <2>1, RowsTyped DEF HostOK, host
<1>9. Unstaged'
    BY <1>3, <1>4 DEF Unstaged, host
<1>10. UNCHANGED <<rows, docs, marker>>
    BY <1>4 DEF host
<1> QED
    BY <1>1, <1>4, <1>5, <1>6, <1>7, <1>8, <1>9, <1>10, UndoStep

-----------------------------------------------------------------------------
(* The command begins and ends.                                            *)

LEMMA BeginsFresh ==
    ASSUME IInv, NEW r \in Releases, IsFresh,
           tx' = [NoTx EXCEPT !.mode = "fresh", !.rel = r, !.todo = Forward,
                              !.state = "prepared"],
           last' = [outcome |-> "none", objs |-> objs, stack |-> stack, row |-> Active],
           UNCHANGED <<host, root, faults>>
    PROVE  IInv'
<1>1. Typed /\ Unstaged
    BY DEF IInv
<1>2. /\ tx'.mode = "fresh" /\ tx'.rel = r /\ tx'.todo = Forward /\ tx'.undoing = FALSE
      /\ tx'.noted = {} /\ tx'.activated = 0 /\ tx'.wrote = {} /\ tx'.unproven = FALSE
      /\ tx'.state = "prepared"
    BY DEF NoTx
<1>3. r \in 0..MaxRelease /\ "fresh" \in Modes
    BY DEF Releases, Modes
<1>4. tx' \in Transaction
    BY <1>3, WholePlan, BeginShape, Zenon
<1>5. /\ Len(rows) = 0 /\ \A d \in Documents : docs[d] = NoDoc
  <2>1. rows = <<>> /\ \A d \in Documents : docs[d] = NoDoc
      BY DEF IsFresh
  <2>2. Len(<<>>) = 0
      BY EmptySeq
  <2> QED
      BY <2>1, <2>2
<1>6. HostOK'
    BY <1>1, RowsTyped DEF HostOK, host
<1>7. last' \in Command /\ last'.outcome = "none" /\ last'.row = 0
  <2>1. objs \in SUBSET Objects /\ stack \in 0..Mixed
      BY <1>1, RowsTyped DEF HostOK
  <2>2. Active = 0 /\ 0 \in Rows /\ "none" \in Outcomes
      BY <1>5, FinalizationAssumption DEF Active, Rows, MaxRows, Outcomes
  <2> QED
      BY <2>1, <2>2 DEF Command
<1>8. Typed'
    BY <1>4, <1>6, <1>7, TypedNext
<1>9. OnTrack'
  <2>1. Tracks(tx', 1)
      BY <1>2, WholePlan
  <2>2. Tracks(tx, 1)'
      BY <2>1 DEF Tracks
  <2>3. Progress(1)'
      BY <1>2, <1>5 DEF Progress, host
  <2>4. 1 \in 1..24
      OBVIOUS
  <2> QED
      BY <1>2, <2>2, <2>3, <2>4 DEF OnTrack
<1>10. BackingOut'
    BY <1>2 DEF BackingOut
<1>11. Modal'
  <2>1. \A d \in Documents : Found0'[d] = NoDoc
      BY <1>2, <1>5 DEF Found0, Found, host
  <2>2. Len(rows') <= 1
      BY <1>5 DEF host
  <2> QED
      BY <1>2, <1>7, <2>1, <2>2 DEF Modal
<1>12. Unstaged'
    BY <1>1 DEF Unstaged, host
<1> QED
    BY <1>7, <1>8, <1>9, <1>10, <1>11, <1>12
    DEF IInv, WrittenMeansInstalled, ErrorIsCoherent

LEMMA BeginsUpgrade ==
    ASSUME IInv, NEW r \in Releases, Installed, r = Evidence.rel + 1,
           tx' = [NoTx EXCEPT !.mode = "upgrade", !.rel = r, !.prior = Evidence.rel,
                              !.todo = Forward, !.state = "prepared"],
           last' = [outcome |-> "none", objs |-> objs, stack |-> stack, row |-> Active],
           UNCHANGED <<host, root, faults>>
    PROVE  IInv'
<1>1. Typed /\ Unstaged
    BY DEF IInv
<1>2. /\ tx'.mode = "upgrade" /\ tx'.rel = r /\ tx'.prior = Evidence.rel
      /\ tx'.todo = Forward /\ tx'.undoing = FALSE
      /\ tx'.noted = {} /\ tx'.activated = 0 /\ tx'.wrote = {} /\ tx'.unproven = FALSE
      /\ tx'.state = "prepared"
    BY DEF NoTx
<1>3. /\ ~root /\ marker = Len(rows) /\ api = Len(rows) /\ marker # 0
      /\ Evidence.row = Len(rows) /\ rows[Len(rows)] = Evidence.rel
    BY DEF Installed, HasTransientState, LiveStateProven, IsComplete, Active
<1>4. rows \in Seq(Releases) /\ Len(rows) = 1
  <2>1. rows \in Seq(Releases) /\ Len(rows) \in Nat /\ marker <= 1
      BY <1>1, <1>3, RowsTyped DEF Unstaged
  <2>2. \A l \in Nat : l <= 1 /\ l # 0 => l = 1
      OBVIOUS
  <2>3. Len(rows) <= 1 /\ Len(rows) # 0
      BY <1>3, <2>1
  <2> QED
      BY <2>1, <2>2, <2>3
<1>5. marker = 1 /\ api = 1 /\ Evidence.row = 1 /\ rows[1] = Evidence.rel
    BY <1>3, <1>4
<1>6. Evidence.rel \in Releases
  <2>1. 1 \in 1..Len(rows)
      BY <1>4
  <2>2. rows[1] \in Releases
      BY <1>4, <2>1, ElementOfSeq
  <2> QED
      BY <1>5, <2>2
<1>7. MaxRelease >= 2
    BY <1>6, FinalizationAssumption DEF Releases
<1>8. tx' \in Transaction
  <2>1. r \in 0..MaxRelease /\ Evidence.rel \in 0..MaxRelease /\ "upgrade" \in Modes
      BY <1>6 DEF Releases, Modes
  <2> QED
      BY <2>1, WholePlan, BeginShape, Zenon
<1>9. HostOK'
    BY <1>1, RowsTyped DEF HostOK, host
<1>10. last' \in Command /\ last'.outcome = "none" /\ last'.row = 1
  <2>1. objs \in SUBSET Objects /\ stack \in 0..Mixed
      BY <1>1, RowsTyped DEF HostOK
  <2>2. Active = 1 /\ 1 \in Rows /\ "none" \in Outcomes
      BY <1>4, FinalizationAssumption DEF Active, Rows, MaxRows, Outcomes
  <2> QED
      BY <2>1, <2>2 DEF Command
<1>11. Typed'
    BY <1>8, <1>9, <1>10, TypedNext
<1>12. OnTrack'
  <2>1. Tracks(tx', 1)
      BY <1>2, WholePlan
  <2>2. Tracks(tx, 1)'
      BY <2>1 DEF Tracks
  <2>3. Progress(1)'
      BY <1>2, <1>4 DEF Progress, host
  <2>4. 1 \in 1..24
      OBVIOUS
  <2> QED
      BY <1>2, <2>2, <2>3, <2>4 DEF OnTrack
<1>13. BackingOut'
    BY <1>2 DEF BackingOut
<1>14. Modal'
  <2>1. Found0' = docs /\ docs' = docs
    <3>1. docs \in [Documents -> Document]
        BY <1>1, RowsTyped DEF HostOK
    <3> QED
        BY <1>2, <3>1 DEF Found0, Found, host
  <2>2. \A d \in Documents : Bound(d, docs[d])
    <3>1. AllBelong /\ Active = 1
        BY <1>4, <1>5, AgreeBelongs DEF Installed, Active
    <3> QED
        BY <3>1 DEF AllBelong, BelongsTo, Bound
  <2>3. \A d \in Documents : Bound(d, Found0[d])'
      BY <2>1, <2>2 DEF Bound, host
  <2>4. Len(rows') \in 1..2 /\ marker' = 1
      BY <1>4, <1>5 DEF host
  <2> QED
      BY <1>2, <1>6, <1>7, <1>10, <2>3, <2>4 DEF Modal
<1>15. Unstaged'
    BY <1>1 DEF Unstaged, host
<1> QED
    BY <1>10, <1>11, <1>12, <1>13, <1>14, <1>15
    DEF IInv, WrittenMeansInstalled, ErrorIsCoherent

\* Between commands nothing is in the transaction.
LEMMA IdleKept ==
    ASSUME Typed, Unstaged, HostOK', tx' = NoTx, last' \in Command, UNCHANGED <<host, root>>
    PROVE  Typed' /\ OnTrack' /\ BackingOut' /\ Modal' /\ Unstaged'
<1>1. tx' \in Transaction /\ tx'.mode = "none" /\ tx'.undoing = FALSE
    BY NoTransaction
<1>2. Typed'
    BY <1>1, TypedNext
<1>3. OnTrack' /\ BackingOut'
    BY <1>1 DEF OnTrack, BackingOut
<1>4. Modal'
    BY <1>1 DEF Modal
<1>5. Unstaged'
    BY DEF Unstaged, host
<1> QED
    BY <1>2, <1>3, <1>4, <1>5

LEMMA EndShape ==
    ASSUME NEW l \in Command, NEW how \in Outcomes
    PROVE  /\ [l EXCEPT !.outcome = how] \in Command
           /\ [l EXCEPT !.outcome = how].outcome = how /\ [l EXCEPT !.outcome = how].row = l.row
    BY DEF Command

LEMMA Ended ==
    ASSUME Typed, NEW how \in Outcomes, Ends(how)
    PROVE  last' \in Command /\ last'.outcome = how /\ last'.row = last.row
<1>1. last \in Command
    BY RowsTyped
<1> QED
    BY <1>1, EndShape DEF Ends

LEMMA Answers ==
    ASSUME IInv, NEW r \in Releases, Replay(r) \/ Refuse(r)
    PROVE  IInv'
<1>1. Typed /\ Unstaged /\ Modal
    BY DEF IInv
<1>2. tx = NoTx /\ UNCHANGED <<host, root, tx, faults>>
    BY <1>1 DEF Replay, Refuse, Idle, Modal
<1>3. HostOK'
    BY <1>1, <1>2, RowsTyped DEF HostOK, host
<1>4. {"written", "refused"} \subseteq Outcomes
    BY DEF Outcomes
<1>5. CASE Replay(r)
  <2>1. last' \in Command /\ last'.outcome = "written"
      BY <1>1, <1>4, <1>5, Ended DEF Replay
  <2>2. /\ IsComplete /\ DocumentsAgree /\ LiveStateProven /\ ~journal /\ ~root
      BY <1>5 DEF Replay, Installed, HasTransientState
  <2>3. staged = 0
      BY <1>1, <2>2 DEF Unstaged
  <2>4. (IsComplete /\ DocumentsAgree /\ LiveStateProven /\ ~journal /\ staged = 0)'
      BY <1>2, <2>2, <2>3
      DEF host, IsComplete, DocumentsAgree, LiveStateProven, Evidence, Active
  <2> QED
      BY <1>1, <1>2, <1>3, <2>1, <2>4, IdleKept
      DEF IInv, WrittenMeansInstalled, ErrorIsCoherent
<1>6. CASE Refuse(r)
  <2>1. last' \in Command /\ last'.outcome = "refused"
      BY <1>1, <1>4, <1>6, Ended DEF Refuse
  <2> QED
      BY <1>1, <1>2, <1>3, <2>1, IdleKept
      DEF IInv, WrittenMeansInstalled, ErrorIsCoherent
<1> QED
    BY <1>5, <1>6

LEMMA Dies ==
    ASSUME IInv, Die
    PROVE  IInv'
<1>1. Typed /\ Unstaged
    BY DEF IInv
<1>2. tx' = NoTx /\ UNCHANGED <<host, root>>
    BY DEF Die
<1>3. faults' \in 0..MaxFaults
    BY <1>1, FaultCounted DEF Die
<1>4. HostOK'
    BY <1>1, <1>2, <1>3, RowsTyped DEF HostOK, host
<1>5. last' \in Command /\ last'.outcome = "died"
  <2>1. "died" \in Outcomes
      BY DEF Outcomes
  <2> QED
      BY <1>1, <2>1, Ended DEF Die
<1> QED
    BY <1>1, <1>2, <1>4, <1>5, IdleKept DEF IInv, WrittenMeansInstalled, ErrorIsCoherent

\* What stands when a transaction has run to the end of its plan.
LEMMA EndOfPlan ==
    ASSUME NEW n \in {21, 24}, Progress(n)
    PROVE  /\ IsComplete /\ DocumentsAgree /\ LiveStateProven /\ ~journal /\ staged = 0
           /\ marker = Active /\ api = Active /\ Active # 0
           /\ Evidence.row = Active /\ Evidence.rel = rows[Active]
           /\ objs = Objects /\ stack = rows[Active]
<1>1. /\ objs = Objects /\ Active # 0 /\ rows[Active] = tx.rel /\ marker = Active
      /\ api = Active /\ stack = tx.rel /\ Evidence.row = Active
      /\ ~journal /\ staged = 0 /\ DocumentsAgree /\ Evidence.rel = tx.rel
    BY DEF Progress
<1>2. rows # <<>>
  <2>1. Len(<<>>) = 0
      BY EmptySeq
  <2> QED
      BY <1>1, <2>1 DEF Active
<1> QED
    BY <1>1, <1>2 DEF IsComplete, LiveStateProven

\* What an ordinary error says of the host.
Coherent(row) ==
    /\ marker = Active
    /\ \A d \in Documents : docs[d] # NoDoc => Active # 0 /\ BelongsTo(d, Active)
    /\ Active # row => /\ objs = Objects /\ stack = rows[Active] /\ api = Active
                       /\ \A d \in Documents : docs[d] # NoDoc

LEMMA CoherentError ==
    ASSUME Coherent(last.row), last'.row = last.row, UNCHANGED host
    PROVE  ErrorIsCoherent'
    BY DEF ErrorIsCoherent, Coherent, BelongsTo, Active, host

\* A compensation that is proven has put everything back.
LEMMA PutBack ==
    ASSUME IInv, tx.mode # "none", tx.todo = <<>>, tx.undoing, ~tx.unproven
    PROVE  Coherent(last.row)
<1>1. Typed /\ Modal /\ BackingOut
    BY DEF IInv
<1>2. ~Ahead(tx.todo, "undo documents") /\ ~Ahead(tx.todo, "undo journal")
      /\ ~Ahead(tx.todo, "roll back")
  <2>1. {"undo documents", "undo journal", "roll back"} \subseteq Words
      BY DEF Words, Undos
  <2> QED
      BY <2>1, NothingLeft
<1>3. /\ docs = Found0 /\ tx.mode # "rollback"
      /\ tx.mode = "fresh" => rows = <<>>
      /\ tx.mode = "upgrade" => tx.activated = 0 /\ Len(rows) = 1
    BY <1>1, <1>2 DEF BackingOut, Found0
<1>4. tx.mode \in {"none", "fresh", "upgrade", "rollback"}
    BY <1>1, RowsTyped DEF Transaction, Modes
<1>5. CASE tx.mode = "fresh"
  <2>1. Len(rows) = 0 /\ marker \in 0..Len(rows)
    <3>1. Len(<<>>) = 0
        BY EmptySeq
    <3> QED
        BY <1>1, <1>3, <1>5, <3>1, RowsTyped
  <2>2. Active = 0 /\ marker = 0
      BY <2>1 DEF Active
  <2>3. last.row = 0 /\ \A d \in Documents : docs[d] = NoDoc
      BY <1>1, <1>3, <1>5 DEF Modal
  <2> QED
      BY <2>2, <2>3 DEF Coherent
<1>6. CASE tx.mode = "upgrade"
  <2>1. /\ Active = 1 /\ marker = 1 /\ last.row = 1
        /\ \A d \in Documents : docs[d] # NoDoc => Bound(d, docs[d])
      BY <1>1, <1>3, <1>6 DEF Modal, Active
  <2>2. \A d \in Documents : docs[d] # NoDoc => Active # 0 /\ BelongsTo(d, Active)
      BY <2>1 DEF Bound, BelongsTo
  <2> QED
      BY <2>1, <2>2 DEF Coherent
<1> QED
    BY <1>3, <1>4, <1>5, <1>6

LEMMA Returns ==
    ASSUME IInv, Return
    PROVE  IInv'
<1>1. Typed /\ Unstaged /\ OnTrack
    BY DEF IInv
<1>2. /\ tx.mode # "none" /\ tx.todo = <<>> /\ tx' = NoTx
      /\ Ends(Verdict(tx)) /\ UNCHANGED <<host, root, faults>>
    BY DEF Return, Idle
<1>3. HostOK'
    BY <1>1, <1>2, RowsTyped DEF HostOK, host
<1>4. Verdict(tx) \in Outcomes
    BY DEF Verdict, Outcomes
<1>5. last' \in Command /\ last'.outcome = Verdict(tx) /\ last'.row = last.row
    BY <1>1, <1>2, <1>4, Ended
<1>6. Typed' /\ OnTrack' /\ BackingOut' /\ Modal' /\ Unstaged'
    BY <1>1, <1>2, <1>3, <1>5, IdleKept
<1>7. tx.todo \in Seq(Words)
    BY <1>1, RowsTyped DEF Transaction
<1>8. ASSUME ~tx.undoing, ~tx.unproven
      PROVE  \E n \in {21, 24} : Progress(n)
  <2>1. PICK n \in 1..24 : Tracks(tx, n) /\ Progress(n)
      BY <1>1, <1>2, <1>8 DEF OnTrack
  <2>2. n = 21 \/ n = 24
      BY <1>2, <1>7, <2>1, TrackStep
  <2> QED
      BY <2>1, <2>2
<1>9. last'.outcome = "written" =>
        IsComplete /\ DocumentsAgree /\ LiveStateProven /\ ~journal /\ staged = 0
  <2> SUFFICES ASSUME last'.outcome = "written"
               PROVE  IsComplete /\ DocumentsAgree /\ LiveStateProven /\ ~journal /\ staged = 0
      OBVIOUS
  <2>1. ~tx.undoing /\ ~tx.unproven
      BY <1>5 DEF Verdict
  <2> QED
      BY <1>8, <2>1, EndOfPlan
<1>10. last'.outcome = "error" => Coherent(last.row)
  <2> SUFFICES ASSUME last'.outcome = "error" PROVE Coherent(last.row)
      OBVIOUS
  <2>1. ~tx.unproven
      BY <1>5 DEF Verdict
  <2>2. CASE tx.undoing
      BY <1>2, <2>1, <2>2, PutBack
  <2>3. CASE ~tx.undoing
    <3>1. PICK n \in {21, 24} : Progress(n)
        BY <1>8, <2>1, <2>3
    <3>2. AllBelong
        BY <3>1, EndOfPlan, AgreeBelongs
    <3> QED
        BY <3>1, <3>2, EndOfPlan DEF Coherent, AllBelong
  <2> QED
      BY <2>2, <2>3
<1>11. WrittenMeansInstalled'
    BY <1>2, <1>9 DEF WrittenMeansInstalled, host, IsComplete, DocumentsAgree,
                      LiveStateProven, Evidence, Active
<1>12. ErrorIsCoherent'
  <2>1. CASE last'.outcome = "error"
      BY <1>2, <1>5, <1>10, <2>1, CoherentError
  <2>2. CASE last'.outcome # "error"
      BY <2>2 DEF ErrorIsCoherent
  <2> QED
      BY <2>1, <2>2
<1> QED
    BY <1>6, <1>11, <1>12 DEF IInv

\* What escapes after the cleanup: the new generation stands, and the evidence may
\* say committed where the attestation says prepared.
LEMMA Escapes ==
    ASSUME IInv, CommitEscapes
    PROVE  IInv'
<1>1. Typed /\ Unstaged
    BY DEF IInv
<1>2. PICK w \in {"evidence", "attestation"} : At(w)
    BY DEF CommitEscapes
<1>3. w \in Words \ Undos
    BY <1>2 DEF Words, Undos, Documents
<1>4. PICK n \in 1..23 : Tracks(tx, n) /\ Progress(n) /\ Place(w, n)
    BY <1>2, <1>3, ReadyAt
<1>5. n \in {21, 22}
  <2>1. n \in {17, 18, 21, 22}
      BY <1>2, <1>3, <1>4, PlaceOf
  <2>2. n <= 20 => tx.state = "prepared"
      BY <1>4 DEF Progress
  <2>3. tx.state = "committed"
      BY DEF CommitEscapes
  <2> QED
      BY <2>1, <2>2, <2>3
<1>6. /\ objs = Objects /\ Active # 0 /\ rows[Active] = tx.rel /\ marker = Active
      /\ api = Active /\ stack = tx.rel /\ Evidence.row = Active
    BY <1>4, <1>5 DEF Progress
<1>7. AllBelong
  <2>1. CASE n = 21
    <3>1. DocumentsAgree /\ Evidence.rel = tx.rel
        BY <1>4, <2>1 DEF Progress
    <3> QED
        BY <1>6, <3>1, AgreeBelongs
  <2>2. CASE n = 22
      BY <1>4, <2>2 DEF Progress
  <2> QED
      BY <1>5, <2>1, <2>2
<1>8. Coherent(last.row)
    BY <1>6, <1>7 DEF Coherent, AllBelong
<1>9. tx' = NoTx /\ UNCHANGED <<host, root>> /\ Ends("error")
    BY DEF CommitEscapes
<1>10. HostOK'
  <2>1. faults' \in 0..MaxFaults
      BY <1>1, FaultCounted DEF CommitEscapes
  <2> QED
      BY <1>1, <1>9, <2>1, RowsTyped DEF HostOK, host
<1>11. last' \in Command /\ last'.outcome = "error" /\ last'.row = last.row
  <2>1. "error" \in Outcomes
      BY DEF Outcomes
  <2> QED
      BY <1>1, <1>9, <2>1, Ended
<1>12. Typed' /\ OnTrack' /\ BackingOut' /\ Modal' /\ Unstaged'
    BY <1>1, <1>9, <1>10, <1>11, IdleKept
<1>13. WrittenMeansInstalled'
    BY <1>11 DEF WrittenMeansInstalled
<1>14. ErrorIsCoherent'
    BY <1>8, <1>9, <1>11, CoherentError
<1> QED
    BY <1>12, <1>13, <1>14 DEF IInv

\* A step that changes no part of the model but, perhaps, the staging root.
LEMMA Stands ==
    ASSUME IInv, UNCHANGED <<host, tx, last, faults>>, root' = root \/ (root' = TRUE)
    PROVE  IInv'
<1> USE DEF host
<1>1. HostOK'
  <2>1. Flag(root')
    <3>1. Flag(root) /\ Flag(TRUE)
        BY RowsTyped DEF IInv, HostOK, Flag
    <3> QED
        BY <3>1
  <2> QED
      BY <2>1, RowsTyped DEF IInv, HostOK
<1>2. Typed'
    BY <1>1, TypedNext, RowsTyped DEF IInv
<1>3. OnTrack'
    BY DEF IInv, OnTrack, Tracks, Progress, DocumentsAgree, Evidence, Active, AllBelong, BelongsTo
<1>4. BackingOut'
    BY DEF IInv, BackingOut, Found
<1>5. Modal'
  <2>1. Found0' = Found0
      BY DEF Found0, Found
  <2>2. \A d \in Documents : Bound(d, Found0[d]) => Bound(d, Found0[d])'
      BY <2>1 DEF Bound
  <2> QED
      BY <2>1, <2>2 DEF IInv, Modal
<1>6. Unstaged'
    BY DEF IInv, Unstaged
<1>7. WrittenMeansInstalled' /\ ErrorIsCoherent'
    BY DEF IInv, WrittenMeansInstalled, ErrorIsCoherent, IsComplete, DocumentsAgree,
           LiveStateProven, Evidence, Active, BelongsTo
<1> QED
    BY <1>2, <1>3, <1>4, <1>5, <1>6, <1>7 DEF IInv

LEMMA Starts == Init => IInv
<1> SUFFICES ASSUME Init PROVE IInv
    OBVIOUS
<1>1. HostOK
  <2>1. rows = <<>> /\ rows \in Seq(Releases) /\ Len(rows) = 0
    <3>1. <<>> \in Seq(Releases) /\ Len(<<>>) = 0
        BY EmptySeq
    <3> QED
        BY <3>1 DEF Init
  <2>2. 0 \in 0..0 /\ 0 \in 0..Mixed /\ 0 \in 0..MaxFaults /\ 0 <= MaxRows
        /\ 0 \in 0..MaxRelease /\ 0 \in Rows
      BY FinalizationAssumption DEF Mixed, MaxRows, Rows
  <2>3. docs \in [Documents -> Document]
    <3>1. NoDoc \in Document
        BY <2>2 DEF NoDoc, Document
    <3> QED
        BY <3>1 DEF Init
  <2>4. Flag(journal) /\ Flag(root)
      BY Zenon DEF Init, Flag
  <2> QED
      BY <2>1, <2>2, <2>3, <2>4 DEF HostOK, Init
<1>2. tx = NoTx /\ tx \in Transaction /\ tx.mode = "none" /\ tx.undoing = FALSE
    BY NoTransaction DEF Init
<1>3. last \in Command /\ last.outcome = "none"
  <2>1. 0 \in 0..Mixed /\ 0 \in Rows /\ "none" \in Outcomes
      BY FinalizationAssumption DEF Mixed, Rows, MaxRows, Outcomes
  <2> QED
      BY <2>1 DEF Init, Command
<1>4. Typed
    BY <1>1, <1>2, <1>3, TypedParts
<1>5. OnTrack /\ BackingOut /\ Modal
    BY <1>2 DEF OnTrack, BackingOut, Modal
<1>6. Unstaged
    BY DEF Init, Unstaged
<1> QED
    BY <1>3, <1>4, <1>5, <1>6 DEF IInv, WrittenMeansInstalled, ErrorIsCoherent

LEMMA Continues == IInv /\ [Next]_vars => IInv'
<1> SUFFICES ASSUME IInv, [Next]_vars PROVE IInv'
    OBVIOUS
<1>1. CASE Install
  <2>1. PICK r \in Releases : Begin(r) \/ Replay(r) \/ Refuse(r)
      BY <1>1 DEF Install
  <2>2. CASE Begin(r)
      BY <2>2, BeginsFresh, BeginsUpgrade DEF Begin
  <2> QED
      BY <2>1, <2>2, Answers
<1>2. CASE Step
  <2>1. ASSUME NEW s \in ObjectSteps, InstallObject(s) \/ InstallObjectUnrecorded(s) PROVE IInv'
      BY <2>1, GoodInstallObject, FailInstallObject
  <2>2. CASE ApplyStack \/ ApplyStackPartly
      BY <2>2, GoodStack, FailStack
  <2>3. ASSUME NEW d \in Documents, WriteDocument(d) \/ WriteDocumentUnread(d) PROVE IInv'
      BY <2>3, GoodWrite, UnreadWrite
  <2>4. ASSUME NEW s \in Checks, Check(s) PROVE IInv'
      BY <2>4, GoodCheck
  <2>5. CASE Activate \/ ActivationUnconfirmed
      BY <2>5, GoodActivate, FailActivate
  <2>6. CASE WriteMarker \/ WriteMarkerUnrecorded \/ StagingUnavailable
      BY <2>6, GoodMarker, FailWriteMarker, FailStaging
  <2>7. CASE ObserveRuntime \/ RuntimeUnverified
      BY <2>7, GoodRuntime, FailRuntime
  <2>8. CASE Cleanup \/ CleanupUnproven \/ StepRaises
      BY <2>8, GoodCleanup, FailCleanup, FailRaise
  <2>9. CASE CommitEscapes
      BY <2>9, Escapes
  <2> QED
      BY <1>2, <2>1, <2>2, <2>3, <2>4, <2>5, <2>6, <2>7, <2>8, <2>9 DEF Step
<1>3. CASE Undo
    BY <1>3, UndosMarker, UndosObjects, UndosJournal, UndosStack, UndosDocuments,
       UndosBootstrap, RollsBack, CannotRollBack DEF Undo
<1>4. CASE Return
    BY <1>4, Returns
<1>5. CASE Die
    BY <1>5, Dies
<1>6. CASE MakeStagingRoot
    BY <1>6, Stands DEF MakeStagingRoot
<1>7. CASE UNCHANGED vars
    BY <1>7, Stands DEF vars
<1> QED
    BY <1>1, <1>2, <1>3, <1>4, <1>5, <1>6, <1>7 DEF Next

LEMMA Invariance == Spec => []IInv
    BY Starts, Continues, PTL DEF Spec

-----------------------------------------------------------------------------
(* The theorems.                                                           *)

\* The host, the transaction and the outcome have the types of the model: the
\* activations of one command never outgrow the rows the lineage allows for.
THEOREM TypeCorrect == Spec => []TypeOK
<1>1. IInv => TypeOK
    BY DEF IInv, Typed
<1> QED
    BY <1>1, Invariance, PTL

\* `written` is never a false success, whatever failed or died before it and
\* however long the lineage: documents, identity, marker, API, stack and objects
\* agree, and no journal or staged backup is left.
THEOREM WrittenIsInstalled == Spec => []WrittenMeansInstalled
<1>1. IInv => WrittenMeansInstalled
    BY DEF IInv
<1> QED
    BY <1>1, Invariance, PTL

\* An ordinary error leaves one generation, not two, whatever failed before it, the
\* failures after the cleanup and the documents that could not be read included: the
\* marker and every document that is there belong to the active identity, and an
\* identity that moved has its objects, its stack, its API and all its documents.  The
\* host need not be as the command found it: see ErrorLeavesNothing.
THEOREM ErrorsAreCoherent == Spec => []ErrorIsCoherent
<1>1. IInv => ErrorIsCoherent
    BY DEF IInv
<1> QED
    BY <1>1, Invariance, PTL

-----------------------------------------------------------------------------
(* A command ends.                                                         *)

\* A compensation has at most six steps, that of a rollback at most four.
LEMMA CompensationLength ==
    ASSUME NEW t
    PROVE  /\ Len(Compensation(t)) \in 0..6
           /\ t.mode = "rollback" => Len(Compensation(t)) \in 0..4
<1> DEFINE adapter == IF t.noted # {} THEN UndoAdapter ELSE <<>>
           stackup == IF t.stackUp THEN <<"restore stack">> ELSE <<>>
           tear == IF t.mode = "fresh" THEN <<"teardown">> ELSE <<>>
           stk == <<"restore stack">>
           doc == <<"undo documents">>
           back == <<"undo documents", "roll back">>
<1>0. {"restore stack", "undo documents", "roll back", "teardown"} \subseteq Words
    BY DEF Words, Undos
<1>1. PICK a \in {0, 3} : List(adapter, a)
    BY SmallPlans
<1>2. PICK b \in {0, 1} : List(stackup, b)
    BY <1>0, SmallPlans
<1>3. PICK e \in {0, 1} : List(tear, e)
    BY <1>0, SmallPlans
<1>4. List(stk, 1) /\ List(doc, 1) /\ List(back, 2)
    BY <1>0, SmallPlans
<1>5. Compensation(t) =
        IF t.mode = "rollback" THEN Cat(adapter, doc)
        ELSE IF t.mode = "upgrade" /\ t.activated # 0 THEN Cat(Cat(stk, adapter), back)
             ELSE Cat(Cat(Cat(adapter, stackup), doc), tear)
    BY DEF Compensation, Cat
<1> HIDE DEF adapter, stackup, tear, stk, doc, back
<1>6. List(Cat(adapter, doc), a + 1)
    BY <1>1, <1>4, CatList
<1>7. List(Cat(Cat(stk, adapter), back), (1 + a) + 2)
  <2>1. List(Cat(stk, adapter), 1 + a)
      BY <1>1, <1>4, CatList
  <2> QED
      BY <1>4, <2>1, CatList
<1>8. List(Cat(Cat(Cat(adapter, stackup), doc), tear), ((a + b) + 1) + e)
  <2>1. List(Cat(adapter, stackup), a + b)
      BY <1>1, <1>2, CatList
  <2>2. List(Cat(Cat(adapter, stackup), doc), (a + b) + 1)
      BY <1>4, <2>1, CatList
  <2> QED
      BY <1>3, <2>2, CatList
<1>9. /\ Len(Cat(adapter, doc)) = a + 1
      /\ Len(Cat(Cat(stk, adapter), back)) = (1 + a) + 2
      /\ Len(Cat(Cat(Cat(adapter, stackup), doc), tear)) = ((a + b) + 1) + e
    BY <1>6, <1>7, <1>8 DEF List
<1>10. a + 1 \in 0..4 /\ a + 1 \in 0..6 /\ (1 + a) + 2 \in 0..6 /\ ((a + b) + 1) + e \in 0..6
    OBVIOUS
<1> QED
    BY <1>5, <1>9, <1>10

LEMMA Shortened ==
    ASSUME NEW q \in Seq(Words), q # <<>>
    PROVE  /\ Len(q) \in Nat /\ Len(q) >= 1
           /\ \A r : r = Tail(q) \/ r = <<>> => Len(r) \in Nat /\ Len(r) < Len(q)
<1>1. Len(q) \in Nat /\ Len(q) # 0
    BY EmptySeq, LenProperties
<1>2. Len(Tail(q)) = Len(q) - 1
    BY HeadTailProperties
<1>3. Len(<<>>) = 0
    OBVIOUS
<1> QED
    BY <1>1, <1>2, <1>3

\* One step less, or none left.
LEMMA Shorter ==
    ASSUME NEW t \in Transaction, NEW u, t.todo # <<>>,
           u.mode = t.mode, u.undoing = t.undoing, u.todo = Tail(t.todo) \/ u.todo = <<>>
    PROVE  CallsLeft(u) < CallsLeft(t)
<1>1. t.todo \in Seq(Words)
    BY DEF Transaction
<1>2. Len(t.todo) \in Nat /\ Len(u.todo) \in Nat /\ Len(u.todo) < Len(t.todo)
    BY <1>1, Shortened
<1>3. \A m, n \in Nat : m < n => m + 0 < n + 0 /\ m + 4 < n + 4 /\ m + 19 < n + 19 /\ m + 25 < n + 25
    OBVIOUS
<1>4. CASE t.mode = "rollback"
    BY <1>2, <1>3, <1>4 DEF CallsLeft
<1>5. CASE t.mode # "rollback"
    BY <1>2, <1>3, <1>5 DEF CallsLeft
<1> QED
    BY <1>4, <1>5

\* A failure stops the command or turns it back.
LEMMA FailureShortens ==
    ASSUME NEW t \in Transaction, t.todo # <<>>, ~t.undoing, NEW indeterminate \in BOOLEAN
    PROVE  CallsLeft(Fails(t, indeterminate)) < CallsLeft(t)
<1> DEFINE u == Fails(t, indeterminate)
<1>1. /\ u.mode = t.mode
      /\ (u.todo = <<>> /\ u.undoing = t.undoing) \/ (u.todo = Compensation(t) /\ u.undoing)
    BY FailShape DEF Same
<1> HIDE DEF u
<1> SUFFICES CallsLeft(u) < CallsLeft(t)
    BY DEF u
<1>2. CASE u.todo = <<>> /\ u.undoing = t.undoing
    BY <1>1, <1>2, Shorter
<1>3. CASE u.todo = Compensation(t) /\ u.undoing
  <2>1. Len(t.todo) \in Nat /\ Len(t.todo) >= 1
    <3>1. t.todo \in Seq(Words)
        BY DEF Transaction
    <3> QED
        BY <3>1, Shortened
  <2>2. CASE t.mode = "rollback"
    <3>1. CallsLeft(u) = Len(Compensation(t)) + 0 /\ CallsLeft(t) = Len(t.todo) + 4
        BY <1>1, <1>3, <2>2, CompensationLength DEF CallsLeft
    <3>2. Len(Compensation(t)) \in 0..4
        BY <2>2, CompensationLength
    <3>3. \A m \in Nat, n \in 0..4 : m >= 1 => n + 0 < m + 4
        OBVIOUS
    <3> QED
        BY <2>1, <3>1, <3>2, <3>3
  <2>3. CASE t.mode # "rollback"
    <3>1. CallsLeft(u) = Len(Compensation(t)) + 19 /\ CallsLeft(t) = Len(t.todo) + 25
        BY <1>1, <1>3, <2>3 DEF CallsLeft
    <3>2. Len(Compensation(t)) \in 0..6
        BY CompensationLength
    <3>3. \A m \in Nat, n \in 0..6 : m >= 1 => n + 19 < m + 25
        OBVIOUS
    <3> QED
        BY <2>1, <3>1, <3>2, <3>3
  <2> QED
      BY <2>2, <2>3
<1> QED
    BY <1>1, <1>2, <1>3

LEMMA FailedStepShortens ==
    ASSUME IInv, tx.todo # <<>>, Head(tx.todo) \notin Undos,
           tx' = Fails(tx, TRUE) \/ tx' = Fails(tx, FALSE)
    PROVE  CallsLeft(tx') < CallsLeft(tx)
<1>1. Core
    BY DEF IInv, Core
<1>2. ~tx.undoing /\ tx \in Transaction
    BY <1>1, Ready, RowsTyped DEF Core, Typed
<1> QED
    BY <1>2, FailureShortens

\* Every step of a transaction.
LEMMA StepShortens ==
    ASSUME IInv, Step, tx'.mode # "none"
    PROVE  CallsLeft(tx') < CallsLeft(tx)
<1>1. tx \in Transaction
    BY DEF IInv, Typed
<1>2. ASSUME tx.todo # <<>>, tx'.mode = tx.mode, tx'.undoing = tx.undoing,
             tx'.todo = Tail(tx.todo)
      PROVE  CallsLeft(tx') < CallsLeft(tx)
    BY <1>1, <1>2, Shorter
<1>3. ASSUME NEW s \in ObjectSteps, InstallObject(s) PROVE CallsLeft(tx') < CallsLeft(tx)
    BY <1>1, <1>2, <1>3 DEF InstallObject, At, Advance, Transaction
<1>4. ASSUME NEW s \in ObjectSteps, InstallObjectUnrecorded(s)
      PROVE  CallsLeft(tx') < CallsLeft(tx)
    BY <1>4, FailedStepShortens DEF InstallObjectUnrecorded, At, ObjectSteps, Undos
<1>5. CASE ApplyStack
    BY <1>1, <1>2, <1>5 DEF ApplyStack, At, Advance, Transaction
<1>6. CASE ApplyStackPartly
    BY <1>6, FailedStepShortens DEF ApplyStackPartly, At, Undos
<1>7. ASSUME NEW d \in Documents, WriteDocument(d) \/ WriteDocumentUnread(d)
      PROVE  CallsLeft(tx') < CallsLeft(tx)
  <2>1. PICK v : WriteKeeping(d, v)
      BY <1>7 DEF WriteDocument, WriteDocumentUnread
  <2> QED
      BY <1>1, <1>2, <2>1 DEF WriteKeeping, At, Advance, Transaction
<1>8. ASSUME NEW s \in Checks, Check(s) PROVE CallsLeft(tx') < CallsLeft(tx)
    BY <1>1, <1>2, <1>8 DEF Check, At, Advance, Transaction
<1>9. CASE Activate
    BY <1>1, <1>2, <1>9 DEF Activate, At, Advance, Transaction
<1>10. CASE ActivationUnconfirmed
    BY <1>10, FailedStepShortens DEF ActivationUnconfirmed, At, Undos
<1>11. CASE WriteMarker
    BY <1>1, <1>2, <1>11 DEF WriteMarker, At, Advance, Transaction
<1>12. CASE WriteMarkerUnrecorded \/ StagingUnavailable
    BY <1>12, FailedStepShortens DEF WriteMarkerUnrecorded, StagingUnavailable, At, Undos
<1>13. CASE ObserveRuntime
    BY <1>1, <1>2, <1>13 DEF ObserveRuntime, At, Advance, Transaction
<1>14. CASE RuntimeUnverified
    BY <1>14, FailedStepShortens DEF RuntimeUnverified, At, Undos
<1>15. CASE Cleanup
    BY <1>1, <1>2, <1>15 DEF Cleanup, At, Advance, Transaction
<1>16. CASE CleanupUnproven
    BY <1>16, FailedStepShortens DEF CleanupUnproven, At, Undos
<1>17. CASE StepRaises
    BY <1>17, FailedStepShortens DEF StepRaises
<1>18. ~CommitEscapes
    BY NoTransaction DEF CommitEscapes
<1> QED
    BY <1>3, <1>4, <1>5, <1>6, <1>7, <1>8, <1>9, <1>10, <1>11, <1>12, <1>13, <1>14,
       <1>15, <1>16, <1>17, <1>18 DEF Step

\* Every step of a compensation; the rollback it may end in is shorter than what an
\* upgrade that is backing out may still have ahead.
LEMMA UndoShortens ==
    ASSUME IInv, Undo
    PROVE  CallsLeft(tx') < CallsLeft(tx)
<1>1. tx \in Transaction
    BY DEF IInv, Typed
<1>2. ASSUME tx.todo # <<>>, tx'.mode = tx.mode, tx'.undoing = tx.undoing,
             tx'.todo = Tail(tx.todo) \/ tx'.todo = <<>>
      PROVE  CallsLeft(tx') < CallsLeft(tx)
    BY <1>1, <1>2, Shorter
<1>3. CASE UndoMarker
    BY <1>1, <1>2, <1>3 DEF UndoMarker, At, Advance, Transaction
<1>4. CASE UndoObjects
    BY <1>1, <1>2, <1>4 DEF UndoObjects, At, Advance, Transaction
<1>5. CASE UndoJournal
    BY <1>1, <1>2, <1>5 DEF UndoJournal, At, Advance, Transaction
<1>6. CASE RestoreStack
    BY <1>1, <1>2, <1>6 DEF RestoreStack, At, Advance, Transaction
<1>7. CASE UndoDocuments
    BY <1>1, <1>2, <1>7 DEF UndoDocuments, At, Advance, Transaction
<1>8. CASE Teardown
    BY <1>1, <1>2, <1>8 DEF Teardown, At, Advance, Transaction
<1>9. CASE RollBackUnloadable
    BY <1>1, <1>2, <1>9 DEF RollBackUnloadable, At, Advance, Transaction
<1>10. CASE RollBack
  <2>1. "roll back" \in Undos /\ At("roll back") /\ "roll back" \in Words
      BY <1>10 DEF Undos, RollBack, Words
  <2>2. Core /\ tx.undoing /\ Ahead(tx.todo, "roll back")
      BY <2>1, Undoing
  <2>3. tx.mode = "upgrade"
      BY <2>2 DEF Core, BackingOut
  <2>4. tx'.mode = "rollback" /\ tx'.undoing = FALSE /\ tx'.todo = Backward
      BY <1>10 DEF RollBack, NoTx
  <2>5. Len(Backward) = 15
      BY BackwardPlan DEF List
  <2>6. Len(tx.todo) \in Nat /\ Len(tx.todo) >= 1
    <3>1. tx.todo \in Seq(Words) /\ tx.todo # <<>>
        BY <1>1, <2>1 DEF Transaction, At
    <3> QED
        BY <3>1, Shortened
  <2>7. CallsLeft(tx') = 15 + 4 /\ CallsLeft(tx) = Len(tx.todo) + 19
      BY <2>2, <2>3, <2>4, <2>5 DEF CallsLeft
  <2>8. \A n \in Nat : n >= 1 => 15 + 4 < n + 19
      OBVIOUS
  <2> QED
      BY <2>6, <2>7, <2>8
<1> QED
    BY <1>3, <1>4, <1>5, <1>6, <1>7, <1>8, <1>9, <1>10 DEF Undo

LEMMA BeginsLimited ==
    ASSUME NEW r \in Releases, Begin(r)
    PROVE  CallsLeft(tx') <= 48
<1>1. tx'.mode # "rollback" /\ tx'.undoing = FALSE /\ tx'.todo = Forward
    BY DEF Begin, NoTx
<1>2. Len(Forward) = 23
    BY ForwardPlan DEF List
<1>3. CallsLeft(tx') = 23 + 25
    BY <1>1, <1>2 DEF CallsLeft
<1> QED
    BY <1>3

\* A command makes at most 48 calls, however many of them fail: none of its steps,
\* of its compensation's or of its rollback's leaves as much to do as it found.
THEOREM CommandsShrink == Spec => CommandShrinks
<1> DEFINE Shrinks ==
        ~Idle' /\ <<host, tx, faults>>' # <<host, tx, faults>>
          => IF Idle THEN CallsLeft(tx') <= 48 ELSE CallsLeft(tx') < CallsLeft(tx)
<1>1. IInv /\ [Next]_vars => [Shrinks]_vars
  <2> SUFFICES ASSUME IInv, Next, ~Idle', <<host, tx, faults>>' # <<host, tx, faults>>
               PROVE  IF Idle THEN CallsLeft(tx') <= 48 ELSE CallsLeft(tx') < CallsLeft(tx)
      OBVIOUS
  <2>1. CASE Install
    <3>1. PICK r \in Releases : Begin(r) \/ Replay(r) \/ Refuse(r)
        BY <2>1 DEF Install
    <3>2. Begin(r)
        BY <3>1 DEF Replay, Refuse, host
    <3> QED
        BY <3>2, BeginsLimited DEF Begin
  <2>2. ASSUME Step \/ Undo PROVE IF Idle THEN CallsLeft(tx') <= 48 ELSE CallsLeft(tx') < CallsLeft(tx)
    <3>1. CallsLeft(tx') < CallsLeft(tx)
        BY <2>2, StepShortens, UndoShortens DEF Idle
    <3>2. tx.todo # <<>>
      <4>1. CASE Step
          BY <4>1 DEF Step, At, InstallObject, InstallObjectUnrecorded, ApplyStack,
             ApplyStackPartly, WriteDocument, WriteDocumentUnread, WriteKeeping, CommitEscapes, Check, Activate, ActivationUnconfirmed, WriteMarker,
             WriteMarkerUnrecorded, StagingUnavailable, ObserveRuntime, RuntimeUnverified,
             Cleanup, CleanupUnproven, StepRaises
      <4>2. CASE Undo
          BY <4>2 DEF Undo, At, UndoMarker, UndoObjects, UndoJournal, RestoreStack,
             UndoDocuments, Teardown, RollBack, RollBackUnloadable
      <4> QED
          BY <2>2, <4>1, <4>2
    <3>3. ~Idle
        BY <3>2, NoTransaction DEF IInv, Modal, Idle
    <3> QED
        BY <3>1, <3>3
  <2>3. CASE Return \/ Die
      BY <2>3 DEF Return, Die, Idle, NoTx
  <2>4. CASE MakeStagingRoot
      BY <2>4 DEF MakeStagingRoot, host
  <2> QED
      BY <2>1, <2>2, <2>3, <2>4 DEF Next
<1> QED
    BY <1>1, Invariance, PTL DEF Spec, CommandShrinks
===============================================================================
