-------------------------- MODULE CompetitionProofs --------------------------
(***************************************************************************)
(* Single credit and the attempt limit, for every number of teams, clients *)
(* and submissions.                                                        *)
(*                                                                         *)
(* Single credit is about what a reset has deleted and not yet committed:  *)
(* an award it holds cannot change under it, and once its second DELETE    *)
(* has run it also holds the accepted row of every award it holds, so the  *)
(* commit never leaves an accepted row without its award.                  *)
(*                                                                         *)
(* The limit is about who has counted and not yet committed: the attempts  *)
(* a team has, with those still open past their count, exceed the limit by *)
(* fewer than there are clients.                                           *)
(***************************************************************************)
EXTENDS Competition, FiniteSetTheorems, TLAPS

\* The part of TypeOK the argument needs; how far `used` can count is not.
LooseRequest == [pc : {"idle", "opened", "counted", "unsolved", "judged", "awards_deleted", "rows_deleted"},
                 by : {{}} \cup {{t} : t \in Teams}, value : Values, open : BOOLEAN,
                 used : Nat, verdict : Verdicts, awards : SUBSET Teams, rows : SUBSET Ids]

Typed ==
    /\ phase \in {"draft", "running", "stopped"}
    /\ submissions \in SUBSET Submission
    /\ IsFiniteSet(submissions)
    /\ award \in [Teams -> 0..MaxSubmissions]
    /\ nextId \in Nat \ {0}
    /\ req \in [Clients -> LooseRequest]

\* Only a reset holds awards, and a submission in progress knows its team.
Roles ==
    \A c \in Clients :
        /\ req[c].awards # {} => req[c].pc \in {"awards_deleted", "rows_deleted"}
        /\ req[c].pc \in {"opened", "counted", "unsolved", "judged"} => req[c].by # {}

\* An award held by a reset is still there, and no other reset holds it.
Held ==
    /\ \A c \in Clients : \A t \in req[c].awards : award[t] # 0
    /\ \A c, d \in Clients : c # d => req[c].awards \cap req[d].awards = {}

\* A reset about to commit takes the accepted row of every award it takes.
Covered ==
    \A c \in Clients : req[c].pc = "rows_deleted" =>
        \A s \in submissions :
            s.verdict = "accepted" /\ s.team \in req[c].awards => s.id \in req[c].rows

IInv == Typed /\ Roles /\ Held /\ Covered /\ AcceptedIsAwarded

-----------------------------------------------------------------------------
\* A submission in progress names one of the teams.
LEMMA TeamKnown ==
    ASSUME Typed, Roles, NEW c \in Clients,
           req[c].pc \in {"opened", "counted", "unsolved", "judged"}
    PROVE  TeamOf(c) \in Teams
<1>1. req[c] \in LooseRequest
  BY DEF Typed
<1>2. req[c].by \in {{}} \cup {{t} : t \in Teams} /\ req[c].by # {}
  BY <1>1 DEF LooseRequest, Roles
<1>3. PICK t \in Teams : req[c].by = {t}
  BY <1>2
<1> QED
  BY <1>3 DEF TeamOf

\* The count of a team's attempts is a number.
LEMMA CountIsNat ==
    ASSUME Typed, NEW t
    PROVE  Cardinality(Of(t)) \in Nat
BY FS_Subset, FS_CardinalityType DEF Typed, Of

\* The verdicts submit_flag can reach are verdicts.
LEMMA JudgedType == \A c, v : Judged(c, v) \in Verdicts
BY DEF Judged, Verdicts

\* A request that has ended is a request.
LEMMA IdleType == IdleRequest \in LooseRequest
BY DEF IdleRequest, LooseRequest, Values, Verdicts

\* The tables start empty and nobody holds anything.
LEMMA InitIInv == Init => IInv
<1> SUFFICES ASSUME Init PROVE IInv
  OBVIOUS
<1>1. \A c \in Clients : req[c] = IdleRequest
  BY DEF Init
<1>2. \A c \in Clients : req[c].awards = {} /\ req[c].pc = "idle"
  BY <1>1 DEF IdleRequest
<1>3. Typed
  <2>1. req \in [Clients -> LooseRequest]
    BY IdleType DEF Init
  <2>2. IsFiniteSet(submissions)
    BY FS_EmptySet DEF Init
  <2>3. award \in [Teams -> 0..MaxSubmissions]
    BY CompetitionAssumption DEF Init
  <2> QED
    BY <2>1, <2>2, <2>3 DEF Init, Typed
<1>4. Roles /\ Held /\ Covered /\ AcceptedIsAwarded
  BY <1>2 DEF Init, Roles, Held, Covered, AcceptedIsAwarded
<1> QED
  BY <1>3, <1>4 DEF IInv

\* A step that writes no table and moves one request, leaving what it has deleted alone and
\* not completing a reset, keeps the invariant.
LEMMA QuietStep ==
    ASSUME IInv, NEW c \in Clients, NEW r \in LooseRequest,
           req' = [req EXCEPT ![c] = r], ReadOnly,
           r.awards = {} \/ (r.awards = req[c].awards /\ r.pc = "awards_deleted"),
           r.pc # "rows_deleted",
           r.pc \in {"opened", "counted", "unsolved", "judged"} => r.by # {}
    PROVE  IInv'
<1>1. req'[c] = r /\ \A d \in Clients : d # c => req'[d] = req[d]
  BY DEF IInv, Typed
<1>2. Typed'
  BY DEF IInv, Typed, ReadOnly
<1>3. Roles'
  BY <1>1 DEF IInv, Roles
<1>4. \A d \in Clients : req'[d].awards \subseteq req[d].awards
  BY <1>1
<1>5. Held'
  BY <1>4 DEF IInv, Held, ReadOnly
<1>6. Covered'
  BY <1>1 DEF IInv, Covered, ReadOnly
<1>7. AcceptedIsAwarded'
  BY DEF IInv, AcceptedIsAwarded, ReadOnly
<1> QED
  BY <1>2, <1>3, <1>5, <1>6, <1>7 DEF IInv

\* The statements of submit_flag up to its commit, and an abort, only move their request.
LEMMA ReadsKeepIInv ==
    ASSUME IInv, NEW c \in Clients,
           \/ \E t \in Teams, v \in Values : Submit(c, t, v)
           \/ CountAttempts(c) \/ CheckAward(c) \/ Judge(c) \/ Abort(c)
    PROVE  IInv'
<1> USE DEF IInv
<1>0. req[c] \in LooseRequest
  BY DEF Typed
<1>1. CASE \E t \in Teams, v \in Values : Submit(c, t, v)
  <2>1. PICK t \in Teams, v \in Values : Submit(c, t, v)
    BY <1>1
  <2> DEFINE open == phase = "running"
             r == [IdleRequest EXCEPT !.pc = "opened", !.by = {t}, !.value = v, !.open = open]
  <2>2. req' = [req EXCEPT ![c] = r] /\ ReadOnly
    BY <2>1 DEF Submit
  <2>3. open \in BOOLEAN
    OBVIOUS
  <2> HIDE DEF open
  <2>4. r \in LooseRequest /\ r.pc = "opened" /\ r.by # {}
    BY <2>3, IdleType DEF LooseRequest
  <2>5. r.awards = {}
    BY DEF IdleRequest
  <2> HIDE DEF r
  <2> QED
    BY <2>2, <2>4, <2>5, QuietStep
<1>2. CASE CountAttempts(c)
  <2> DEFINE used == Cardinality(Of(TeamOf(c)))
             r == [req[c] EXCEPT !.used = used,
                                 !.pc = IF req[c].open THEN "counted" ELSE "judged",
                                 !.verdict = IF req[c].open THEN @ ELSE "not_open"]
  <2>1. used \in Nat
    BY CountIsNat
  <2>2. req[c].awards = {} /\ req[c].by # {}
    BY <1>2 DEF CountAttempts, Roles
  <2>3. r \in LooseRequest /\ r.awards = {} /\ r.by # {} /\ r.pc \in {"counted", "judged"}
    BY <1>0, <2>1, <2>2 DEF LooseRequest, Verdicts
  <2>4. req' = [req EXCEPT ![c] = r] /\ ReadOnly
    BY <1>2 DEF CountAttempts, Typed
  <2> HIDE DEF r
  <2> QED
    BY <2>3, <2>4, QuietStep
<1>3. CASE CheckAward(c)
  <2> DEFINE solved == award[TeamOf(c)] # 0
             r == [req[c] EXCEPT !.pc = IF solved THEN "judged" ELSE "unsolved",
                                 !.verdict = IF solved THEN "already_solved" ELSE @]
  <2>1. req[c].awards = {} /\ req[c].by # {}
    BY <1>3 DEF CheckAward, Roles
  <2>2. r \in LooseRequest /\ r.awards = {} /\ r.by # {} /\ r.pc \in {"unsolved", "judged"}
    BY <1>0, <2>1 DEF LooseRequest, Verdicts
  <2>3. req' = [req EXCEPT ![c] = r] /\ ReadOnly
    BY <1>3 DEF CheckAward, Typed
  <2> HIDE DEF r
  <2> QED
    BY <2>2, <2>3, QuietStep
<1>4. CASE Judge(c)
  <2> DEFINE verdict == Judged(c, req[c].value)
             r == [req[c] EXCEPT !.pc = "judged", !.verdict = verdict]
  <2>1. req[c].awards = {} /\ req[c].by # {}
    BY <1>4 DEF Judge, Roles
  <2>2. verdict \in Verdicts
    BY JudgedType
  <2>3. req' = [req EXCEPT ![c] = r] /\ ReadOnly
    BY <1>4 DEF Judge, Typed
  <2> HIDE DEF verdict
  <2>4. r \in LooseRequest /\ r.awards = {} /\ r.by # {} /\ r.pc = "judged"
    BY <1>0, <2>1, <2>2 DEF LooseRequest
  <2> HIDE DEF r
  <2> QED
    BY <2>3, <2>4, QuietStep
<1>5. CASE Abort(c)
  <2>1. req' = [req EXCEPT ![c] = IdleRequest] /\ ReadOnly
    BY <1>5 DEF Abort, Ended
  <2>2. IdleRequest.awards = {} /\ IdleRequest.pc = "idle"
    BY DEF IdleRequest
  <2> QED
    BY <2>1, <2>2, IdleType, QuietStep
<1> QED
  BY <1>1, <1>2, <1>3, <1>4, <1>5

\* The award is inserted only where there is none and no reset is deleting one.
LEMMA CommitKeepsIInv ==
    ASSUME IInv, NEW c \in Clients, CommitSubmission(c)
    PROVE  IInv'
<1> USE DEF IInv
<1> DEFINE t == TeamOf(c)
           wins == req[c].verdict = "accepted" /\ ScoreFree(t)
           loses == req[c].verdict = "accepted" /\ ~ScoreFree(t)
           row == [id |-> nextId, team |-> t, value |-> req[c].value,
                   verdict |-> IF loses THEN "already_solved" ELSE req[c].verdict]
<1>1. req[c] \in LooseRequest
  BY DEF Typed
<1>2. t \in Teams
  BY TeamKnown DEF CommitSubmission
<1>3. nextId \in Ids /\ MaxSubmissions \in Nat
  BY CompetitionAssumption DEF CommitSubmission, Typed, Ids
<1>4. row \in Submission
  BY <1>1, <1>2, <1>3 DEF Submission, LooseRequest, Verdicts
<1>5. /\ submissions' = submissions \cup {row}
      /\ award' = IF wins THEN [award EXCEPT ![t] = nextId] ELSE award
      /\ req' = [req EXCEPT ![c] = IdleRequest]
      /\ nextId' = nextId + 1 /\ phase' = phase
      /\ req[c].verdict = "accepted" => t \notin LockedAwards
  BY DEF CommitSubmission, Recorded, Ended
<1>6. req'[c].awards = {} /\ req'[c].pc = "idle" /\ \A d \in Clients : d # c => req'[d] = req[d]
  BY <1>5 DEF Typed, IdleRequest
<1>7. row.id = nextId /\ row.team = t /\ (row.verdict = "accepted" => wins)
  OBVIOUS
<1>8. wins => /\ award[t] = 0
              /\ \A d \in Clients : t \notin req[d].awards
  BY <1>5 DEF ScoreFree, LockedAwards
<1> HIDE DEF row, wins, loses, t
<1>9. Typed'
  <2>1. IsFiniteSet(submissions')
    BY <1>5, FS_AddElement DEF Typed
  <2>2. award' \in [Teams -> 0..MaxSubmissions]
    BY <1>2, <1>3, <1>5 DEF Typed, Ids
  <2>3. req' \in [Clients -> LooseRequest]
    BY <1>5, IdleType DEF Typed
  <2> QED
    BY <1>4, <1>5, <2>1, <2>2, <2>3 DEF Typed
<1>10. Roles'
  BY <1>6 DEF Roles
<1>11. \A d \in Clients : req'[d].awards \subseteq req[d].awards
  BY <1>6
<1>12. \A u \in Teams : award'[u] = award[u] \/ (wins /\ u = t /\ award'[u] = nextId)
  BY <1>2, <1>5 DEF Typed
<1>13. Held'
  <2>1. \A d \in Clients : \A u \in req'[d].awards : u \in Teams
    BY <1>9 DEF Typed, LooseRequest
  <2> QED
    BY <1>8, <1>11, <1>12, <2>1 DEF Held
<1>14. Covered'
  <2> SUFFICES ASSUME NEW d \in Clients, req'[d].pc = "rows_deleted", NEW s \in submissions',
                      s.verdict = "accepted", s.team \in req'[d].awards
               PROVE  s.id \in req'[d].rows
    BY DEF Covered
  <2>1. d # c /\ req'[d] = req[d]
    BY <1>6
  <2>2. s # row
    BY <1>7, <1>8, <2>1
  <2> QED
    BY <1>5, <2>1, <2>2 DEF Covered
<1>15. AcceptedIsAwarded'
  <2> SUFFICES ASSUME NEW s \in submissions', s.verdict = "accepted"
               PROVE  award'[s.team] = s.id
    BY DEF AcceptedIsAwarded
  <2>1. CASE s = row
    BY <1>2, <1>5, <1>7, <2>1 DEF Typed
  <2>2. CASE s \in submissions
    <3>1. award[s.team] = s.id /\ s.id # 0 /\ s.team \in Teams
      BY <2>2, CompetitionAssumption DEF AcceptedIsAwarded, Typed, Submission, Ids
    <3> QED
      BY <1>8, <1>12, <3>1
  <2> QED
    BY <1>5, <2>1, <2>2
<1> QED
  BY <1>9, <1>10, <1>13, <1>14, <1>15

\* The first DELETE takes awards nobody else is deleting.
LEMMA DeleteAwardsKeepsIInv ==
    ASSUME IInv, NEW c \in Clients, DeleteAwards(c)
    PROVE  IInv'
<1> USE DEF IInv
<1> DEFINE awarded == {t \in Teams : award[t] # 0}
           r == [IdleRequest EXCEPT !.pc = "awards_deleted", !.awards = awarded]
<1>1. req' = [req EXCEPT ![c] = r] /\ ReadOnly /\ awarded \cap LockedAwards = {}
  BY DEF DeleteAwards
<1>2. r \in LooseRequest /\ r.pc = "awards_deleted" /\ r.awards = awarded
  BY IdleType DEF LooseRequest
<1>3. \A d \in Clients : awarded \cap req[d].awards = {}
  BY <1>1 DEF LockedAwards
<1>4. \A t \in awarded : award[t] # 0
  OBVIOUS
<1> HIDE DEF r, awarded
<1>5. req'[c] = r /\ \A d \in Clients : d # c => req'[d] = req[d]
  BY <1>1 DEF Typed
<1>6. Typed'
  BY <1>1, <1>2 DEF Typed, ReadOnly
<1>7. Roles'
  BY <1>2, <1>5 DEF Roles
<1>8. Held'
  <2>1. \A d \in Clients : \A t \in req'[d].awards : award[t] # 0
    BY <1>2, <1>4, <1>5 DEF Held
  <2>2. \A d, e \in Clients : d # e => req'[d].awards \cap req'[e].awards = {}
    BY <1>2, <1>3, <1>5 DEF Held
  <2> QED
    BY <1>1, <2>1, <2>2 DEF Held, ReadOnly
<1>9. Covered' /\ AcceptedIsAwarded'
  BY <1>1, <1>2, <1>5 DEF Covered, AcceptedIsAwarded, ReadOnly
<1> QED
  BY <1>6, <1>7, <1>8, <1>9

\* The second DELETE takes every row there is, the accepted ones included.
LEMMA DeleteSubmissionsKeepsIInv ==
    ASSUME IInv, NEW c \in Clients, DeleteSubmissions(c)
    PROVE  IInv'
<1> USE DEF IInv
<1> DEFINE rows == {s.id : s \in submissions}
           r == [req[c] EXCEPT !.pc = "rows_deleted", !.rows = rows]
<1>1. req' = [req EXCEPT ![c] = r] /\ ReadOnly
  BY DEF DeleteSubmissions, Typed
<1>2. rows \subseteq Ids
  BY DEF Typed, Submission
<1>3. \A s \in submissions : s.id \in rows
  OBVIOUS
<1> HIDE DEF rows
<1>4. r \in LooseRequest /\ r.pc = "rows_deleted" /\ r.awards = req[c].awards /\ r.rows = rows
  BY <1>2 DEF LooseRequest, Typed
<1> HIDE DEF r
<1>5. req'[c] = r /\ \A d \in Clients : d # c => req'[d] = req[d]
  BY <1>1 DEF Typed
<1>6. Typed'
  BY <1>1, <1>4 DEF Typed, ReadOnly
<1>7. Roles'
  BY <1>4, <1>5 DEF Roles
<1>8. \A d \in Clients : req'[d].awards = req[d].awards
  BY <1>4, <1>5
<1>9. Held'
  BY <1>1, <1>8 DEF Held, ReadOnly
<1>10. Covered'
  BY <1>1, <1>3, <1>4, <1>5 DEF Covered, ReadOnly
<1>11. AcceptedIsAwarded'
  BY <1>1 DEF AcceptedIsAwarded, ReadOnly
<1> QED
  BY <1>6, <1>7, <1>9, <1>10, <1>11

\* The commit of a reset takes the accepted row of every award it takes.
LEMMA CommitResetKeepsIInv ==
    ASSUME IInv, NEW c \in Clients, CommitReset(c)
    PROVE  IInv'
<1> USE DEF IInv
<1>1. /\ req[c].pc = "rows_deleted"
      /\ award' = [t \in Teams |-> IF t \in req[c].awards THEN 0 ELSE award[t]]
      /\ submissions' = {s \in submissions : s.id \notin req[c].rows}
      /\ req' = [req EXCEPT ![c] = IdleRequest]
      /\ UNCHANGED <<phase, nextId>>
  BY DEF CommitReset, Ended
<1>2. req'[c].awards = {} /\ req'[c].pc = "idle" /\ \A d \in Clients : d # c => req'[d] = req[d]
  BY <1>1 DEF Typed, IdleRequest
<1>3. Typed'
  <2>1. IsFiniteSet(submissions') /\ submissions' \subseteq submissions
    BY <1>1, FS_Subset DEF Typed
  <2>2. award' \in [Teams -> 0..MaxSubmissions]
    BY <1>1, CompetitionAssumption DEF Typed
  <2>3. req' \in [Clients -> LooseRequest]
    BY <1>1, IdleType DEF Typed
  <2> QED
    BY <1>1, <2>1, <2>2, <2>3 DEF Typed
<1>4. Roles'
  BY <1>2 DEF Roles
<1>5. Held'
  <2>1. \A d \in Clients : \A t \in req'[d].awards : t \in Teams /\ d # c /\ t \notin req[c].awards
    BY <1>2, <1>3 DEF Typed, LooseRequest, Held
  <2>2. \A d \in Clients : \A t \in req'[d].awards : award'[t] # 0
    BY <1>1, <1>2, <2>1 DEF Held
  <2> QED
    BY <1>2, <2>2 DEF Held
<1>6. Covered'
  BY <1>1, <1>2 DEF Covered
<1>7. AcceptedIsAwarded'
  BY <1>1 DEF AcceptedIsAwarded, Covered, Typed, Submission
<1> QED
  BY <1>3, <1>4, <1>5, <1>6, <1>7

\* Opening and closing the competition touches neither the rows nor the requests.
LEMMA SwitchKeepsIInv ==
    ASSUME IInv, StartCompetition \/ StopCompetition
    PROVE  IInv'
BY DEF IInv, StartCompetition, StopCompetition, Typed, Roles, Held, Covered, AcceptedIsAwarded

\* One case per action of Next.
LEMMA NextIInv == IInv /\ [Next]_vars => IInv'
<1> SUFFICES ASSUME IInv, [Next]_vars PROVE IInv'
  OBVIOUS
<1>1. CASE StartCompetition \/ StopCompetition
  BY <1>1, SwitchKeepsIInv
<1>2. CASE \E c \in Clients :
              \/ \E t \in Teams, v \in Values : Submit(c, t, v)
              \/ CountAttempts(c) \/ CheckAward(c) \/ Judge(c) \/ Abort(c)
  BY <1>2, ReadsKeepIInv
<1>3. CASE \E c \in Clients : CommitSubmission(c)
  BY <1>3, CommitKeepsIInv
<1>4. CASE \E c \in Clients : DeleteAwards(c)
  BY <1>4, DeleteAwardsKeepsIInv
<1>5. CASE \E c \in Clients : DeleteSubmissions(c)
  BY <1>5, DeleteSubmissionsKeepsIInv
<1>6. CASE \E c \in Clients : CommitReset(c)
  BY <1>6, CommitResetKeepsIInv
<1>7. CASE UNCHANGED vars
  BY <1>7 DEF vars, IInv, Typed, Roles, Held, Covered, AcceptedIsAwarded
<1> QED
  BY <1>1, <1>2, <1>3, <1>4, <1>5, <1>6, <1>7 DEF Next

\* A team is credited at most once, and for a submission that says so, whatever submissions,
\* resets and aborts interleave (the UNIQUE constraint behind submit_flag).
THEOREM CreditedOnce == Spec => []AcceptedIsAwarded
<1>1. IInv => AcceptedIsAwarded
  BY DEF IInv
<1> QED
  BY <1>1, InitIInv, NextIInv, PTL DEF Spec

-----------------------------------------------------------------------------
(* The bound on the attempts.  A request is in judgement from the count that *)
(* let it through until it commits; the rows that were judged and the        *)
(* requests in judgement are counted together.                               *)

JudgedRows(t, rows) == {s \in rows : s.team = t /\ s.verdict \in {"accepted", "incorrect"}}

LetThrough(r) ==
    \/ r.pc \in {"counted", "unsolved"} /\ r.used < MaxAttempts
    \/ r.pc = "judged" /\ r.verdict \in {"accepted", "incorrect"}

InJudgement(t, rq) == {c \in Clients : rq[c].by = {t} /\ LetThrough(rq[c])}

\* The last request let through saw fewer than MaxAttempts rows, and the others in
\* judgement then are at most all the clients.
Overrun ==
    \A t \in Teams :
        Cardinality(JudgedRows(t, submissions)) + Cardinality(InJudgement(t, req))
            < MaxAttempts + Cardinality(Clients)

\* Ids are given out once and in order.
Numbered ==
    /\ nextId <= MaxSubmissions + 1
    /\ \A s \in submissions : s.id < nextId
    /\ \A s, r \in submissions : s.id = r.id => s = r

\* What a request holds: no count above the rows there can be, nothing once it has ended.
Tidy ==
    \A c \in Clients : /\ req[c].used <= MaxSubmissions
                       /\ req[c].pc = "idle" => req[c] = IdleRequest

Counted == Numbered /\ Tidy /\ Overrun

\* The sets that are counted are finite.
LEMMA CountedSets ==
    ASSUME Typed, NEW t
    PROVE  /\ IsFiniteSet(JudgedRows(t, submissions))
           /\ Cardinality(JudgedRows(t, submissions)) \in Nat
           /\ IsFiniteSet(InJudgement(t, req))
           /\ Cardinality(InJudgement(t, req)) \in Nat
           /\ Cardinality(InJudgement(t, req)) <= Cardinality(Clients)
           /\ Cardinality(Clients) \in Nat
<1>1. IsFiniteSet(Clients)
  BY CompetitionAssumption
<1>2. JudgedRows(t, submissions) \in SUBSET submissions /\ IsFiniteSet(submissions)
  BY DEF JudgedRows, Typed
<1>3. InJudgement(t, req) \in SUBSET Clients
  BY DEF InJudgement
<1>4. /\ IsFiniteSet(JudgedRows(t, submissions))
      /\ IsFiniteSet(InJudgement(t, req))
      /\ Cardinality(InJudgement(t, req)) <= Cardinality(Clients)
  BY <1>1, <1>2, <1>3, FS_Subset
<1> QED
  BY <1>1, <1>4, FS_CardinalityType

\* There are no more rows than ids, so no more of one team either.
LEMMA CountFits ==
    ASSUME Typed, Numbered, NEW t
    PROVE  Cardinality(Of(t)) <= MaxSubmissions
<1>1. MaxSubmissions \in Nat
  BY CompetitionAssumption
<1>2. IsFiniteSet(Ids) /\ Cardinality(Ids) = MaxSubmissions
  BY <1>1, FS_Interval DEF Ids
<1>3. IsFiniteSet(submissions) /\ Cardinality(submissions) \in Nat
  BY FS_CardinalityType DEF Typed
<1> DEFINE f == [s \in submissions |-> s.id]
<1>4. f \in [submissions -> Ids]
  BY DEF Typed, Submission
<1>5. \A x, y \in submissions : f[x] = f[y] => x = y
  BY DEF Numbered
<1> HIDE DEF f
<1>6. ~ (Cardinality(Ids) < Cardinality(submissions))
  BY <1>2, <1>3, <1>4, <1>5, FS_PigeonHole
<1>7. Of(t) \in SUBSET submissions
  BY DEF Of
<1>8. Cardinality(Of(t)) <= Cardinality(submissions) /\ Cardinality(Of(t)) \in Nat
  BY <1>3, <1>7, FS_Subset, CountIsNat
<1> QED
  BY <1>1, <1>2, <1>3, <1>6, <1>8

\* A step that lets nobody through and records no judged row keeps the bound.
LEMMA NobodyLetThrough ==
    ASSUME Typed, Typed', Overrun,
           \A t \in Teams : /\ InJudgement(t, req') \subseteq InJudgement(t, req)
                            /\ JudgedRows(t, submissions') \subseteq JudgedRows(t, submissions)
    PROVE  Overrun'
<1> SUFFICES ASSUME NEW t \in Teams
             PROVE  Cardinality(JudgedRows(t, submissions')) + Cardinality(InJudgement(t, req'))
                        < MaxAttempts + Cardinality(Clients)
  BY DEF Overrun
<1> DEFINE J == JudgedRows(t, submissions)
           I == InJudgement(t, req)
           J2 == JudgedRows(t, submissions')
           I2 == InJudgement(t, req')
<1>1. IsFiniteSet(J) /\ Cardinality(J) \in Nat /\ IsFiniteSet(I) /\ Cardinality(I) \in Nat
      /\ Cardinality(Clients) \in Nat
  BY CountedSets
<1>2. J2 \in SUBSET J /\ I2 \in SUBSET I
  OBVIOUS
<1>3. Cardinality(J) + Cardinality(I) < MaxAttempts + Cardinality(Clients)
  BY DEF Overrun
<1>4. MaxAttempts \in Nat
  BY CompetitionAssumption
<1> HIDE DEF J, I, J2, I2
<1>5. Cardinality(J2) <= Cardinality(J) /\ Cardinality(I2) <= Cardinality(I)
      /\ IsFiniteSet(J2) /\ IsFiniteSet(I2)
  BY <1>1, <1>2, FS_Subset
<1>6. Cardinality(J2) \in Nat /\ Cardinality(I2) \in Nat
  BY <1>5, FS_CardinalityType
<1>7. Cardinality(J2) + Cardinality(I2) < MaxAttempts + Cardinality(Clients)
  BY <1>1, <1>3, <1>4, <1>5, <1>6
<1> QED
  BY <1>7 DEF J2, I2

\* Nothing is recorded and nobody has asked.
LEMMA InitCounted == Init => Counted
<1> SUFFICES ASSUME Init PROVE Counted
  OBVIOUS
<1>1. MaxSubmissions \in Nat /\ MaxAttempts \in Nat /\ IsFiniteSet(Clients) /\ Clients # {}
  BY CompetitionAssumption
<1>2. \A c \in Clients : req[c] = IdleRequest
  BY DEF Init
<1>3. IdleRequest.pc = "idle" /\ IdleRequest.used = 0
  BY DEF IdleRequest
<1>4. Numbered
  BY <1>1 DEF Init, Numbered
<1>5. Tidy
  BY <1>1, <1>2, <1>3 DEF Tidy
<1>6. Overrun
  <2>1. \A t \in Teams : JudgedRows(t, submissions) = {} /\ InJudgement(t, req) = {}
    BY <1>2, <1>3 DEF Init, JudgedRows, InJudgement, LetThrough
  <2>2. Cardinality({}) = 0
    BY FS_EmptySet
  <2>3. Cardinality(Clients) \in Nat /\ Cardinality(Clients) # 0
    BY <1>1, FS_EmptySet, FS_CardinalityType
  <2> QED
    BY <1>1, <2>1, <2>2, <2>3 DEF Overrun
<1> QED
  BY <1>4, <1>5, <1>6 DEF Counted

\* A step that only moves one request, to one that is not let through unless it was, for
\* the same team.
LEMMA QuietCounted ==
    ASSUME IInv, IInv', Counted, NEW c \in Clients, NEW r,
           req' = [req EXCEPT ![c] = r],
           nextId' = nextId, submissions' \subseteq submissions,
           r.used <= MaxSubmissions, r.pc = "idle" => r = IdleRequest,
           LetThrough(r) => LetThrough(req[c]) /\ r.by = req[c].by
    PROVE  Counted'
<1>1. req'[c] = r /\ \A d \in Clients : d # c => req'[d] = req[d]
  BY DEF IInv, Typed
<1>2. Numbered'
  BY DEF Counted, Numbered
<1>3. Tidy'
  BY <1>1 DEF Counted, Tidy
<1>4. \A t \in Teams : /\ InJudgement(t, req') \subseteq InJudgement(t, req)
                       /\ JudgedRows(t, submissions') \subseteq JudgedRows(t, submissions)
  BY <1>1 DEF InJudgement, JudgedRows
<1>5. Overrun'
  BY <1>4, NobodyLetThrough DEF IInv, Counted
<1> QED
  BY <1>2, <1>3, <1>5 DEF Counted

\* A count below the limit lets the request through: fewer than MaxAttempts rows of the team
\* are there, and no more requests than clients are in judgement.
LEMMA CountLetsThrough ==
    ASSUME IInv, IInv', Counted, NEW c \in Clients, CountAttempts(c),
           Cardinality(Of(TeamOf(c))) < MaxAttempts
    PROVE  Overrun'
<1> DEFINE u == TeamOf(c)
<1>1. /\ submissions' = submissions
      /\ \A d \in Clients : d # c => req'[d] = req[d]
      /\ req'[c].by = req[c].by
  BY DEF CountAttempts, ReadOnly, IInv, Typed, LooseRequest
<1>2. PICK k \in Teams : req[c].by = {k}
  BY DEF CountAttempts, IInv, Typed, Roles, LooseRequest
<1>3. u = k
  BY <1>2 DEF TeamOf
<1>4. MaxAttempts \in Nat
  BY CompetitionAssumption
<1> SUFFICES ASSUME NEW t \in Teams
             PROVE  Cardinality(JudgedRows(t, submissions')) + Cardinality(InJudgement(t, req'))
                        < MaxAttempts + Cardinality(Clients)
  BY DEF Overrun
<1>5. CASE t = u
  <2>1. JudgedRows(t, submissions) \in SUBSET Of(t)
    BY DEF JudgedRows, Of
  <2>2. IsFiniteSet(Of(t)) /\ Cardinality(Of(t)) \in Nat
    BY FS_Subset, CountIsNat DEF IInv, Typed, Of
  <2>3. Cardinality(JudgedRows(t, submissions)) <= Cardinality(Of(t))
    BY <2>1, <2>2, FS_Subset
  <2>4. /\ Cardinality(JudgedRows(t, submissions)) \in Nat
        /\ Cardinality(Clients) \in Nat
    BY CountedSets DEF IInv
  <2>5. InJudgement(t, req') \in SUBSET Clients /\ IsFiniteSet(Clients)
    BY CompetitionAssumption DEF InJudgement
  <2>6. Cardinality(InJudgement(t, req')) <= Cardinality(Clients)
        /\ Cardinality(InJudgement(t, req')) \in Nat
    BY <2>5, FS_Subset, FS_CardinalityType
  <2>7. Cardinality(Of(t)) < MaxAttempts
    BY <1>5
  <2> QED
    BY <1>1, <1>4, <2>2, <2>3, <2>4, <2>6, <2>7
<1>6. CASE t # u
  <2>1. InJudgement(t, req') = InJudgement(t, req)
    BY <1>1, <1>2, <1>3, <1>6 DEF InJudgement
  <2> QED
    BY <1>1, <2>1 DEF Counted, Overrun
<1> QED
  BY <1>5, <1>6

\* The count is the step that lets a request through, or not.
LEMMA CountKeepsCounted ==
    ASSUME IInv, IInv', Counted, NEW c \in Clients, CountAttempts(c)
    PROVE  Counted'
<1> DEFINE used == Cardinality(Of(TeamOf(c)))
           r == [req[c] EXCEPT !.used = used,
                               !.pc = IF req[c].open THEN "counted" ELSE "judged",
                               !.verdict = IF req[c].open THEN @ ELSE "not_open"]
<1>1. req' = [req EXCEPT ![c] = r] /\ ReadOnly
  BY DEF CountAttempts, IInv, Typed
<1>2. used \in Nat /\ used <= MaxSubmissions
  BY CountIsNat, CountFits DEF IInv, Counted
<1>3. req[c] \in LooseRequest
  BY DEF IInv, Typed
<1>4. /\ r.used = used /\ r.pc \in {"counted", "judged"} /\ r.by = req[c].by
      /\ r.pc = "judged" => r.verdict = "not_open"
  BY <1>3 DEF LooseRequest
<1>5. MaxAttempts \in Nat
  BY CompetitionAssumption
<1>6. CASE used < MaxAttempts
  <2> HIDE DEF r
  <2>1. req'[c] = r /\ \A d \in Clients : d # c => req'[d] = req[d]
    BY <1>1 DEF IInv, Typed
  <2>2. Overrun'
    BY <1>6, CountLetsThrough
  <2>3. Numbered'
    BY <1>1 DEF Counted, Numbered, ReadOnly
  <2>4. Tidy'
    BY <1>2, <1>4, <2>1 DEF Counted, Tidy
  <2> QED
    BY <2>2, <2>3, <2>4 DEF Counted
<1>7. CASE ~(used < MaxAttempts)
  <2>1. ~LetThrough(r)
    BY <1>4, <1>7 DEF LetThrough
  <2>2. r.used <= MaxSubmissions /\ r.pc # "idle"
    BY <1>2, <1>4
  <2>3. nextId' = nextId /\ submissions' \subseteq submissions
    BY <1>1 DEF ReadOnly
  <2> HIDE DEF r
  <2> QED
    BY <1>1, <2>1, <2>2, <2>3, QuietCounted
<1> QED
  BY <1>6, <1>7

\* The other statements of submit_flag let nobody through who was not, and a reset is never
\* in judgement.
LEMMA ReadsKeepCounted ==
    ASSUME IInv, IInv', Counted, NEW c \in Clients,
           \/ \E t \in Teams, v \in Values : Submit(c, t, v)
           \/ CheckAward(c) \/ Judge(c) \/ Abort(c)
           \/ DeleteAwards(c) \/ DeleteSubmissions(c) \/ CommitReset(c)
    PROVE  Counted'
<1>0. req[c] \in LooseRequest /\ req[c].used <= MaxSubmissions
  BY DEF IInv, Typed, Counted, Tidy
<1>i. /\ IdleRequest.pc = "idle" /\ IdleRequest.used = 0 /\ MaxSubmissions \in Nat
      /\ IdleRequest.used <= MaxSubmissions
  BY CompetitionAssumption DEF IdleRequest
<1>e. ASSUME req' = Ended(c), nextId' = nextId, submissions' \subseteq submissions
      PROVE  Counted'
  <2>1. ~LetThrough(IdleRequest)
    BY <1>i DEF LetThrough
  <2> QED
    BY <1>e, <1>i, <2>1, QuietCounted DEF Ended
<1>1. CASE \E t \in Teams, v \in Values : Submit(c, t, v)
  <2>1. PICK t \in Teams, v \in Values : Submit(c, t, v)
    BY <1>1
  <2> DEFINE r == [IdleRequest EXCEPT !.pc = "opened", !.by = {t}, !.value = v,
                                      !.open = (phase = "running")]
  <2>2. req' = [req EXCEPT ![c] = r] /\ nextId' = nextId /\ submissions' \subseteq submissions
    BY <2>1 DEF Submit, ReadOnly
  <2>3. r.pc = "opened" /\ r.used = 0
    BY DEF IdleRequest
  <2> HIDE DEF r
  <2>4. ~LetThrough(r) /\ r.used <= MaxSubmissions /\ r.pc # "idle"
    BY <1>i, <2>3 DEF LetThrough
  <2> QED
    BY <2>2, <2>4, QuietCounted
<1>2. CASE CheckAward(c)
  <2> DEFINE solved == award[TeamOf(c)] # 0
             r == [req[c] EXCEPT !.pc = IF solved THEN "judged" ELSE "unsolved",
                                 !.verdict = IF solved THEN "already_solved" ELSE @]
  <2>1. req' = [req EXCEPT ![c] = r] /\ nextId' = nextId /\ submissions' \subseteq submissions
        /\ req[c].pc = "counted"
    BY <1>2 DEF CheckAward, IInv, Typed, ReadOnly
  <2>2. /\ r.used = req[c].used /\ r.by = req[c].by /\ r.pc \in {"judged", "unsolved"}
        /\ r.pc = "judged" => r.verdict = "already_solved"
    BY <1>0 DEF LooseRequest
  <2> HIDE DEF r
  <2>3. LetThrough(r) => LetThrough(req[c]) /\ r.by = req[c].by
    BY <2>1, <2>2 DEF LetThrough
  <2>4. r.used <= MaxSubmissions /\ r.pc # "idle"
    BY <1>0, <2>2
  <2> QED
    BY <2>1, <2>3, <2>4, QuietCounted
<1>3. CASE Judge(c)
  <2> DEFINE verdict == Judged(c, req[c].value)
             r == [req[c] EXCEPT !.pc = "judged", !.verdict = verdict]
  <2>1. req' = [req EXCEPT ![c] = r] /\ nextId' = nextId /\ submissions' \subseteq submissions
        /\ req[c].pc = "unsolved"
    BY <1>3 DEF Judge, IInv, Typed, ReadOnly
  <2>2. MaxAttempts \in Nat
    BY CompetitionAssumption
  <2>3. verdict \in {"accepted", "incorrect"} => req[c].used < MaxAttempts
    BY <1>0, <2>2 DEF Judged, Exhausted, LooseRequest
  <2>4. r.used = req[c].used /\ r.by = req[c].by /\ r.pc = "judged" /\ r.verdict = verdict
    BY <1>0 DEF LooseRequest
  <2> HIDE DEF r, verdict
  <2>5. LetThrough(r) => LetThrough(req[c]) /\ r.by = req[c].by
    BY <2>1, <2>3, <2>4 DEF LetThrough
  <2>6. r.used <= MaxSubmissions /\ r.pc # "idle"
    BY <1>0, <2>4
  <2> QED
    BY <2>1, <2>5, <2>6, QuietCounted
<1>4. CASE Abort(c) \/ CommitReset(c)
  <2>1. req' = Ended(c) /\ nextId' = nextId /\ submissions' \subseteq submissions
    BY <1>4 DEF Abort, CommitReset, ReadOnly
  <2> QED
    BY <1>e, <2>1
<1>5. CASE DeleteAwards(c)
  <2> DEFINE awarded == {t \in Teams : award[t] # 0}
             r == [IdleRequest EXCEPT !.pc = "awards_deleted", !.awards = awarded]
  <2>1. req' = [req EXCEPT ![c] = r] /\ nextId' = nextId /\ submissions' \subseteq submissions
    BY <1>5 DEF DeleteAwards, ReadOnly
  <2>2. r.pc = "awards_deleted" /\ r.used = 0
    BY DEF IdleRequest
  <2> HIDE DEF r
  <2>3. ~LetThrough(r) /\ r.used <= MaxSubmissions /\ r.pc # "idle"
    BY <1>i, <2>2 DEF LetThrough
  <2> QED
    BY <2>1, <2>3, QuietCounted
<1>6. CASE DeleteSubmissions(c)
  <2> DEFINE rows == {s.id : s \in submissions}
             r == [req[c] EXCEPT !.pc = "rows_deleted", !.rows = rows]
  <2>1. req' = [req EXCEPT ![c] = r] /\ nextId' = nextId /\ submissions' \subseteq submissions
    BY <1>6 DEF DeleteSubmissions, IInv, Typed, ReadOnly
  <2>2. r.pc = "rows_deleted" /\ r.used = req[c].used
    BY <1>0 DEF LooseRequest
  <2> HIDE DEF r
  <2>3. ~LetThrough(r) /\ r.used <= MaxSubmissions /\ r.pc # "idle"
    BY <1>0, <2>2 DEF LetThrough
  <2> QED
    BY <2>1, <2>3, QuietCounted
<1> QED
  BY <1>1, <1>2, <1>3, <1>4, <1>5, <1>6

\* The commit takes the next id, and turns a request in judgement into a judged row.
LEMMA CommitKeepsCounted ==
    ASSUME IInv, IInv', Counted, NEW c \in Clients, CommitSubmission(c)
    PROVE  Counted'
<1> DEFINE u == TeamOf(c)
           loses == req[c].verdict = "accepted" /\ ~ScoreFree(u)
           verdict == IF loses THEN "already_solved" ELSE req[c].verdict
           row == [id |-> nextId, team |-> u, value |-> req[c].value, verdict |-> verdict]
<1>1. /\ submissions' = submissions \cup {row}
      /\ req' = [req EXCEPT ![c] = IdleRequest]
      /\ nextId' = nextId + 1 /\ nextId <= MaxSubmissions /\ req[c].pc = "judged"
  BY DEF CommitSubmission, Recorded, Ended
<1>2. PICK k \in Teams : req[c].by = {k}
  BY <1>1 DEF IInv, Typed, Roles, LooseRequest
<1>3. u = k /\ req[c].by = {u}
  BY <1>2 DEF TeamOf
<1>4. row.id = nextId /\ row.team = u /\ row.verdict = verdict
  OBVIOUS
<1>5. verdict \in {"accepted", "incorrect"} => LetThrough(req[c])
  BY <1>1 DEF LetThrough
<1>6. nextId \in Nat /\ MaxSubmissions \in Nat /\ MaxAttempts \in Nat
  BY CompetitionAssumption DEF IInv, Typed
<1>7. \A s \in submissions : s.id \in Nat /\ s.id < nextId
  BY <1>6 DEF IInv, Typed, Submission, Ids, Counted, Numbered
<1> HIDE DEF u, loses, verdict, row
<1>8. req'[c] = IdleRequest /\ \A d \in Clients : d # c => req'[d] = req[d]
  BY <1>1 DEF IInv, Typed
<1>9. IdleRequest.pc = "idle" /\ IdleRequest.used <= MaxSubmissions /\ ~LetThrough(IdleRequest)
  BY <1>6 DEF IdleRequest, LetThrough
<1>10. Numbered'
  BY <1>1, <1>4, <1>6, <1>7 DEF Counted, Numbered
<1>11. Tidy'
  BY <1>8, <1>9 DEF Counted, Tidy
<1>12. Overrun'
  <2>1. CASE verdict \notin {"accepted", "incorrect"}
    <3>1. \A t \in Teams : /\ InJudgement(t, req') \subseteq InJudgement(t, req)
                           /\ JudgedRows(t, submissions') \subseteq JudgedRows(t, submissions)
      BY <1>1, <1>4, <1>8, <1>9, <2>1 DEF InJudgement, JudgedRows
    <3> QED
      BY <3>1, NobodyLetThrough DEF IInv, Counted
  <2>2. CASE verdict \in {"accepted", "incorrect"}
    <3> SUFFICES ASSUME NEW t \in Teams
                 PROVE  Cardinality(JudgedRows(t, submissions')) + Cardinality(InJudgement(t, req'))
                            < MaxAttempts + Cardinality(Clients)
      BY DEF Overrun
    <3>1. /\ IsFiniteSet(JudgedRows(t, submissions)) /\ IsFiniteSet(InJudgement(t, req))
          /\ Cardinality(JudgedRows(t, submissions)) \in Nat
          /\ Cardinality(InJudgement(t, req)) \in Nat
          /\ Cardinality(Clients) \in Nat
      BY CountedSets DEF IInv
    <3>2. Cardinality(JudgedRows(t, submissions)) + Cardinality(InJudgement(t, req))
            < MaxAttempts + Cardinality(Clients)
      BY DEF Counted, Overrun
    <3>3. CASE t # u
      <4>1. /\ JudgedRows(t, submissions') = JudgedRows(t, submissions)
            /\ InJudgement(t, req') = InJudgement(t, req)
        BY <1>1, <1>3, <1>4, <1>8, <1>9, <3>3 DEF JudgedRows, InJudgement
      <4> QED
        BY <3>2, <4>1
    <3>4. CASE t = u
      <4>1. /\ JudgedRows(t, submissions') = JudgedRows(t, submissions) \cup {row}
            /\ InJudgement(t, req') = InJudgement(t, req) \ {c}
            /\ c \in InJudgement(t, req)
        BY <1>1, <1>3, <1>4, <1>5, <1>8, <1>9, <2>2, <3>4 DEF JudgedRows, InJudgement
      <4> DEFINE j == Cardinality(JudgedRows(t, submissions))
                 i == Cardinality(InJudgement(t, req))
                 j2 == Cardinality(JudgedRows(t, submissions'))
                 i2 == Cardinality(InJudgement(t, req'))
                 clients == Cardinality(Clients)
      <4>2. j2 = j \/ j2 = j + 1
        BY <3>1, <4>1, FS_AddElement
      <4>3. i2 = i - 1
        BY <3>1, <4>1, FS_RemoveElement
      <4>4. j \in Nat /\ i \in Nat /\ clients \in Nat /\ j + i < MaxAttempts + clients
        BY <3>1, <3>2
      <4> HIDE DEF j, i, j2, i2, clients
      <4>5. j2 + i2 < MaxAttempts + clients
        BY <1>6, <4>2, <4>3, <4>4
      <4> QED
        BY <4>5 DEF j2, i2, clients
    <3> QED
      BY <3>3, <3>4
  <2> QED
    BY <2>1, <2>2
<1> QED
  BY <1>10, <1>11, <1>12 DEF Counted

\* One case per action of Next; the first invariant holds on both sides of the step.
LEMMA NextCounted == IInv /\ Counted /\ [Next]_vars => Counted'
<1> SUFFICES ASSUME IInv, Counted, [Next]_vars PROVE Counted'
  OBVIOUS
<1>0. IInv'
  BY NextIInv
<1>1. CASE StartCompetition \/ StopCompetition \/ UNCHANGED vars
  <2>1. UNCHANGED <<submissions, nextId, req>>
    BY <1>1 DEF StartCompetition, StopCompetition, vars
  <2> QED
    BY <2>1 DEF Counted, Numbered, Tidy, Overrun
<1>2. CASE \E c \in Clients : CountAttempts(c)
  BY <1>0, <1>2, CountKeepsCounted
<1>3. CASE \E c \in Clients : CommitSubmission(c)
  BY <1>0, <1>3, CommitKeepsCounted
<1>4. CASE \E c \in Clients :
              \/ \E t \in Teams, v \in Values : Submit(c, t, v)
              \/ CheckAward(c) \/ Judge(c) \/ Abort(c)
              \/ DeleteAwards(c) \/ DeleteSubmissions(c) \/ CommitReset(c)
  BY <1>0, <1>4, ReadsKeepCounted
<1> QED
  BY <1>1, <1>2, <1>3, <1>4 DEF Next

\* A team is judged fewer than MaxAttempts + Cardinality(Clients) times, whatever requests,
\* resets and aborts interleave: how far the unlocked attempts_used of submit_flag can overrun.
THEOREM AttemptsStayBounded == Spec => []AttemptsBounded
<1>1. IInv /\ Counted => AttemptsBounded
  <2> SUFFICES ASSUME IInv, Counted, NEW t \in Teams
               PROVE  Cardinality({s \in Of(t) : s.verdict \in {"accepted", "incorrect"}})
                          < MaxAttempts + Cardinality(Clients)
    BY DEF AttemptsBounded
  <2>1. {s \in Of(t) : s.verdict \in {"accepted", "incorrect"}} = JudgedRows(t, submissions)
    BY DEF Of, JudgedRows
  <2>2. /\ Cardinality(JudgedRows(t, submissions)) \in Nat
        /\ Cardinality(InJudgement(t, req)) \in Nat
        /\ Cardinality(Clients) \in Nat
    BY CountedSets DEF IInv
  <2>3. Cardinality(JudgedRows(t, submissions)) + Cardinality(InJudgement(t, req))
          < MaxAttempts + Cardinality(Clients)
    BY DEF Counted, Overrun
  <2>4. MaxAttempts \in Nat
    BY CompetitionAssumption
  <2>5. Cardinality(JudgedRows(t, submissions)) < MaxAttempts + Cardinality(Clients)
    BY <2>2, <2>3, <2>4
  <2> QED
    BY <2>1, <2>5, Zenon
<1>2. IInv /\ Counted /\ [Next]_vars => (IInv /\ Counted)'
  BY NextIInv, NextCounted
<1>3. Init => IInv /\ Counted
  BY InitIInv, InitCounted
<1> QED
  BY <1>1, <1>2, <1>3, PTL DEF Spec

\* Ids are never used twice, no count exceeds the rows there can be, and a request that has
\* ended holds nothing (get_db closes its session), in every reachable state.
THEOREM TypeCorrect == Spec => []TypeOK
<1>1. IInv /\ Counted => TypeOK
  <2> SUFFICES ASSUME IInv, Counted PROVE TypeOK
    OBVIOUS
  <2>1. MaxSubmissions \in Nat
    BY CompetitionAssumption
  <2>2. nextId \in 1..(MaxSubmissions + 1)
    BY <2>1 DEF IInv, Typed, Counted, Numbered
  <2>3. ASSUME NEW c \in Clients
        PROVE  req[c] \in Request
    <3>1. req[c] \in LooseRequest /\ req[c].used <= MaxSubmissions
      BY DEF IInv, Typed, Counted, Tidy
    <3>2. req[c].used \in 0..MaxSubmissions
      BY <2>1, <3>1 DEF LooseRequest
    <3> QED
      BY <3>1, <3>2, Zenon DEF LooseRequest, Request
  <2>4. req \in [Clients -> Request]
    BY <2>3 DEF IInv, Typed
  <2> QED
    BY <2>2, <2>4 DEF IInv, Typed, Counted, Numbered, Tidy, TypeOK
<1>2. IInv /\ Counted /\ [Next]_vars => (IInv /\ Counted)'
  BY NextIInv, NextCounted
<1>3. Init => IInv /\ Counted
  BY InitIInv, InitCounted
<1> QED
  BY <1>1, <1>2, <1>3, PTL DEF Spec
===============================================================================
