----------------------------- MODULE Competition -----------------------------
(***************************************************************************)
(* The scoring of ONE challenge of a competition (services/competitions.py *)
(* and its tables in range_models.py): teams submit values, operators open *)
(* and close the competition and reset the scores, several requests at a   *)
(* time.  Rows of different challenges never meet.                         *)
(*                                                                         *)
(* Each statement of a transaction sees what is committed when it runs     *)
(* (READ COMMITTED, the engine's default), and a statement that would      *)
(* write a row another transaction has deleted waits for it.               *)
(***************************************************************************)
EXTENDS Naturals, FiniteSets

CONSTANTS Teams,
          Clients,         \* requests that can be open at the same time
          MaxAttempts,     \* CompetitionChallenge.max_attempts
          MaxSubmissions,  \* bound: submissions ever recorded
          CaseSensitive    \* CompetitionFlag.case_sensitive

ASSUME CompetitionAssumption ==
    /\ MaxAttempts \in Nat /\ MaxSubmissions \in Nat /\ CaseSensitive \in BOOLEAN
    /\ IsFiniteSet(Clients) /\ Clients # {}

VARIABLES phase,        \* Competition.state
          submissions,  \* CompetitionSubmission rows
          award,        \* CompetitionScore: the submission it was given for, by team
          nextId,       \* the next submission id
          req           \* open requests

vars == <<phase, submissions, award, nextId, req>>

\* What can be typed in: the flag, the flag in another case, something else.
Values == {"flag", "FLAG", "other"}
Verdicts == {"accepted", "incorrect", "already_solved", "duplicate",
             "attempts_exhausted", "not_open"}

\* value_fingerprint is taken of the lower-cased value, whatever the flag's case rule.
Fingerprint(v) == IF v = "FLAG" THEN "flag" ELSE v

\* _normalise and compare_digest
Correct(v) == v = "flag" \/ (v = "FLAG" /\ ~CaseSensitive)

\* The row keeps the fingerprint only; value is here for the properties to speak of.
Ids == 1..MaxSubmissions
Submission == [id : Ids, team : Teams, value : Values, verdict : Verdicts]

\* A request: open, used and solved are what submit_flag has read so far, verdict what it
\* concluded; awards and rows are what a reset has deleted and not yet committed.
IdleRequest == [pc |-> "idle", by |-> {}, value |-> "other", open |-> FALSE, used |-> 0,
                verdict |-> "incorrect", awards |-> {}, rows |-> {}]
Request == [pc : {"idle", "opened", "counted", "unsolved", "judged", "awards_deleted", "rows_deleted"},
            by : {{}} \cup {{t} : t \in Teams}, value : Values, open : BOOLEAN,
            used : 0..MaxSubmissions, verdict : Verdicts, awards : SUBSET Teams, rows : SUBSET Ids]

\* Every table and request keeps its vocabulary, a row has one id, and a request that has
\* ended holds nothing: its session is rolled back and closed.
TypeOK ==
    /\ phase \in {"draft", "running", "stopped"}
    /\ submissions \in SUBSET Submission
    /\ \A s, r \in submissions : s.id = r.id => s = r
    /\ award \in [Teams -> 0..MaxSubmissions]
    /\ nextId \in 1..(MaxSubmissions + 1)
    /\ req \in [Clients -> Request]
    /\ \A c \in Clients : req[c].pc = "idle" => req[c] = IdleRequest

\* create_competition; teams and the challenge exist, nobody has submitted anything.
Init ==
    /\ phase = "draft"
    /\ submissions = {}
    /\ award = [t \in Teams |-> 0]
    /\ nextId = 1
    /\ req = [c \in Clients |-> IdleRequest]

-----------------------------------------------------------------------------
(* The operators' two switches.  That the range is ready is RangeLifecycle's *)
(* StartCompetition; here a start may come at any time.                      *)

StartCompetition ==
    /\ phase # "running"
    /\ phase' = "running"
    /\ UNCHANGED <<submissions, award, nextId, req>>

StopCompetition ==
    /\ phase = "running"
    /\ phase' = "stopped"
    /\ UNCHANGED <<submissions, award, nextId, req>>

-----------------------------------------------------------------------------
(* submit_flag, one action per statement. *)

Of(t) == {s \in submissions : s.team = t}
TeamOf(c) == CHOOSE t \in Teams : req[c].by = {t}
ReadOnly == UNCHANGED <<phase, submissions, award, nextId>>

\* get_competition: the state of the competition is the one this request loads.
Submit(c, t, v) ==
    /\ req[c].pc = "idle"
    /\ req' = [req EXCEPT ![c] = [IdleRequest EXCEPT !.pc = "opened", !.by = {t}, !.value = v,
                                                     !.open = (phase = "running")]]
    /\ ReadOnly

\* attempts_used counts every row of the team, whatever its verdict.
CountAttempts(c) ==
    /\ req[c].pc = "opened"
    /\ LET used == Cardinality(Of(TeamOf(c)))
       IN  req' = [req EXCEPT ![c].used = used,
                              ![c].pc = IF req[c].open THEN "counted" ELSE "judged",
                              ![c].verdict = IF req[c].open THEN @ ELSE "not_open"]
    /\ ReadOnly

\* A team that holds the solve gets no further credit.
CheckAward(c) ==
    /\ req[c].pc = "counted"
    /\ LET solved == award[TeamOf(c)] # 0
       IN  req' = [req EXCEPT ![c].pc = IF solved THEN "judged" ELSE "unsolved",
                              ![c].verdict = IF solved THEN "already_solved" ELSE @]
    /\ ReadOnly

ExhaustedOneLate(used) == used > MaxAttempts
Exhausted(used) == used >= MaxAttempts

\* The duplicate check comes before the attempt limit, and both before the flag is compared.
Judged(c, v) ==
    IF \E s \in Of(TeamOf(c)) : Fingerprint(s.value) = Fingerprint(v) THEN "duplicate"
    ELSE IF Exhausted(req[c].used) THEN "attempts_exhausted"
    ELSE IF Correct(v) THEN "accepted" ELSE "incorrect"

Judge(c) ==
    /\ req[c].pc = "unsolved"
    /\ req' = [req EXCEPT ![c].pc = "judged", ![c].verdict = Judged(c, req[c].value)]
    /\ ReadOnly

\* Deleted by a reset that has not committed: a statement that writes these rows waits.
LockedAwards == UNION {req[d].awards : d \in Clients}
LockedRows == UNION {req[d].rows : d \in Clients}

\* get_db: whatever ends a request also ends its transaction.
EndedHolding(c) == [req EXCEPT ![c].pc = "idle"]
Ended(c) == [req EXCEPT ![c] = IdleRequest]

\* UNIQUE (team_id, challenge_id)
NoConstraint(t) == TRUE
ScoreFree(t) == award[t] = 0

Recorded(c, verdict) ==
    submissions \cup {[id |-> nextId, team |-> TeamOf(c), value |-> req[c].value, verdict |-> verdict]}

\* The row, for accepted the award too, then the commit.  If the award exists by now the
\* savepoint fails, everything is rolled back and the row says already_solved.
CommitSubmission(c) ==
    /\ req[c].pc = "judged"
    /\ nextId <= MaxSubmissions
    /\ LET t == TeamOf(c)
           wins == req[c].verdict = "accepted" /\ ScoreFree(t)
           loses == req[c].verdict = "accepted" /\ ~ScoreFree(t)
       IN  /\ req[c].verdict = "accepted" => t \notin LockedAwards
           /\ submissions' = Recorded(c, IF loses THEN "already_solved" ELSE req[c].verdict)
           /\ award' = IF wins THEN [award EXCEPT ![t] = nextId] ELSE award
    /\ nextId' = nextId + 1
    /\ req' = Ended(c)
    /\ UNCHANGED phase

-----------------------------------------------------------------------------
(* reset_scores, and its twin reset_scores_for_range: each DELETE takes the  *)
(* rows that are committed when it runs.                                     *)

DeleteAwards(c) ==
    LET awarded == {t \in Teams : award[t] # 0}
    IN  /\ req[c].pc = "idle"
        /\ awarded \cap LockedAwards = {}
        /\ req' = [req EXCEPT ![c] = [IdleRequest EXCEPT !.pc = "awards_deleted", !.awards = awarded]]
        /\ ReadOnly

DeleteSubmissions(c) ==
    LET rows == {s.id : s \in submissions}
    IN  /\ req[c].pc = "awards_deleted"
        /\ rows \cap LockedRows = {}
        /\ req' = [req EXCEPT ![c].pc = "rows_deleted", ![c].rows = rows]
        /\ ReadOnly

CommitReset(c) ==
    /\ req[c].pc = "rows_deleted"
    /\ award' = [t \in Teams |-> IF t \in req[c].awards THEN 0 ELSE award[t]]
    /\ submissions' = {s \in submissions : s.id \notin req[c].rows}
    /\ req' = Ended(c)
    /\ UNCHANGED <<phase, nextId>>

\* An event-number clash in record_event, a lost connection or a dead process: nothing is written.
Abort(c) ==
    /\ req[c].pc # "idle"
    /\ req' = Ended(c)
    /\ ReadOnly

Next ==
    \/ StartCompetition
    \/ StopCompetition
    \/ \E c \in Clients :
          \/ \E t \in Teams, v \in Values : Submit(c, t, v)
          \/ CountAttempts(c) \/ CheckAward(c) \/ Judge(c) \/ CommitSubmission(c)
          \/ DeleteAwards(c) \/ DeleteSubmissions(c) \/ CommitReset(c)
          \/ Abort(c)

Spec == Init /\ [][Next]_vars

-----------------------------------------------------------------------------
\* Every submission answered `accepted` is the one its team's award was given for, so a team
\* is credited at most once however its submissions and the resets interleave.
AcceptedIsAwarded == \A s \in submissions : s.verdict = "accepted" => award[s.team] = s.id

\* A team is judged at most max_attempts times, give or take the requests that were already
\* past the count of attempts: one for every other request open at the same time.
AttemptsBounded ==
    \A t \in Teams :
        Cardinality({s \in Of(t) : s.verdict \in {"accepted", "incorrect"}})
            < MaxAttempts + Cardinality(Clients)

\* What submit_flag's comment says of the duplicate check: a repeated value cannot be the
\* correct one.  A value tried before the opening, or in another case, is not judged wrong.
RepeatCannotBeCorrect == \A s \in submissions : s.verdict = "duplicate" => ~Correct(s.value)

\* What reset_scores' docstring promises: submissions and awards are cleared together, so no
\* award outlives the submission it was given for.
AwardIsBacked == \A t \in Teams : award[t] # 0 => \E s \in submissions : s.id = award[t]
===============================================================================
