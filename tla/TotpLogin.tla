------------------------------- MODULE TotpLogin -------------------------------
(******************************************************************************)
(* The login of a human by time-based code: authenticate_web_totp of            *)
(* src/identity.rs, the handler auth_totp of http.rs around it, and the         *)
(* sessions of web_auth.rs it hands out.  One participant row is modelled; what  *)
(* any other writer of the database does to a login is that its commit outdates  *)
(* the login's snapshot (OtherCommit).                                          *)
(******************************************************************************)
EXTENDS Naturals, Sequences

CONSTANTS
  Workers,       \* logins in service at the same time
  Secrets,       \* secrets generate_totp_secret may draw, each at most once
  Codes,         \* six-digit codes
  Guesses,       \* the codes clients send
  CodeOf(_, _),  \* the code of a secret in a step; two steps may share one
  NULL,
  Period,        \* TOTP_PERIOD_SECS
  MaxFailures,   \* TOTP_MAX_FAILURES
  LockSecs,      \* TOTP_LOCK_SECS
  SessionTtl,    \* WEB_SESSION_TTL_SECS
  MaxTime,       \* bound on the clock
  MaxLogins,     \* bound on the accepted logins
  MaxFailed,     \* bound on the counted failures
  MaxRestarts    \* bound on the restarts of the server

ASSUME LoginConstants ==
  /\ Period \in Nat \ {0} /\ MaxFailures \in Nat \ {0}
  /\ LockSecs \in Nat /\ SessionTtl \in Nat
  /\ MaxTime \in Nat /\ MaxLogins \in Nat /\ MaxFailed \in Nat /\ MaxRestarts \in Nat
ASSUME NullIsNoLogin == NULL \notin Nat \cup Secrets \cup Codes
ASSUME CodesTyped ==
  /\ Guesses \subseteq Codes
  /\ \A s \in Secrets, n \in 0..(MaxTime + 1) : CodeOf(s, n) \in Codes

VARIABLES
  row,       \* status and totp_* columns of the participant
  used,      \* secrets drawn so far
  now,       \* current_unix_time()
  process,   \* which start of the server runs; each draws its own session key
  fresh,     \* workers whose snapshot is the last commit
  pc,        \* per worker: step of the handler
  attempt,   \* per worker: the code and the time auth_totp took
  plan,      \* per worker: the columns its UPDATE will set
  sessions,  \* tokens handed out: process, login and expires_at
  accepted,  \* history: the logins the database accepted, in commit order
  failed     \* history: the failures it counted, in commit order

vars == <<row, used, now, process, fresh, pc, attempt, plan, sessions, accepted, failed>>

OrNone(S) == S \cup {NULL}

Rows == [status : {"active", "inactive"}, secret : OrNone(Secrets),
         last : OrNone(Nat), fails : Nat, locked : OrNone(Nat)]

Attempts == [code : Codes, at : Nat]

Plans == [accept : BOOLEAN, last : OrNone(Nat), fails : Nat, locked : OrNone(Nat)]

\* What a worker carries from its read to its write, and then to its session.
Carried == OrNone(Plans \cup [login : Nat])

\* A login remembers secret and step, the time of its commit and who served it; a
\* failure remembers how many logins and enrolments came before it.
Logins == [secret : Secrets, step : Nat, time : Nat, process : Nat]
Failures == [at : Nat, logins : Nat, secret : Secrets]

TypeOK ==
  /\ row \in Rows
  /\ used \subseteq Secrets
  /\ now \in Nat /\ process \in Nat
  /\ fresh \subseteq Workers
  /\ pc \in [Workers -> {"idle", "queued", "evaluated", "verified"}]
  /\ attempt \in [Workers -> OrNone(Attempts)]
  /\ plan \in [Workers -> Carried]
  /\ sessions \subseteq [process : Nat, login : Nat, expires : Nat]
  /\ accepted \in Seq(Logins)
  /\ failed \in Seq(Failures)

Init ==
  /\ row = [status |-> "active", secret |-> NULL, last |-> NULL,
            fails |-> 0, locked |-> NULL]
  /\ used = {}
  /\ now = 0 /\ process = 0
  /\ fresh = {}
  /\ pc = [w \in Workers |-> "idle"]
  /\ attempt = [w \in Workers |-> NULL]
  /\ plan = [w \in Workers |-> NULL]
  /\ sessions = {}
  /\ accepted = <<>> /\ failed = <<>>

--------------------------------------------------------------------------------
(* authenticate_web_totp *)

\* matching_totp_step: the current step, else the one before, else the one after.
MatchingStep(secret, code, t) ==
  LET current == t \div Period
      before == IF current = 0 THEN {} ELSE {current - 1}
      hits == {s \in before \cup {current, current + 1} : CodeOf(secret, s) = code}
  IN IF hits = {} THEN NULL
     ELSE IF current \in hits THEN current
     ELSE CHOOSE s \in hits : \A h \in hits : s <= h

\* Mutant of Spent: the step of the last login is not spent by it.
SpentBefore(step) == row.last # NULL /\ step < row.last

Spent(step) == row.last # NULL /\ step <= row.last

Locked(t) == row.locked # NULL /\ row.locked > t

\* The early returns that write nothing.
Refused(a) ==
  \/ row.status # "active" \/ row.secret = NULL
  \/ Locked(a.at)
  \/ LET step == MatchingStep(row.secret, a.code, a.at)
     IN step # NULL /\ Spent(step)

\* A lock that has run out starts the count again.
FailureCount == (IF row.locked # NULL THEN 0 ELSE row.fails) + 1

\* The columns the UPDATE sets: a login clears the failures, the last failure
\* allowed starts a lock, counted from the time the handler took.
PlanFor(a) ==
  LET step == MatchingStep(row.secret, a.code, a.at)
  IN IF step # NULL
       THEN [accept |-> TRUE, last |-> step, fails |-> 0, locked |-> NULL]
     ELSE IF FailureCount >= MaxFailures
       THEN [accept |-> FALSE, last |-> row.last, fails |-> 0, locked |-> a.at + LockSecs]
     ELSE [accept |-> FALSE, last |-> row.last, fails |-> FailureCount, locked |-> NULL]

Finish(w) ==
  /\ pc' = [pc EXCEPT ![w] = "idle"]
  /\ attempt' = [attempt EXCEPT ![w] = NULL]
  /\ plan' = [plan EXCEPT ![w] = NULL]

--------------------------------------------------------------------------------
(* The handler *)

\* auth_totp takes the time before the work is queued for a database thread.
Receive(w, code) ==
  /\ pc[w] = "idle"
  /\ pc' = [pc EXCEPT ![w] = "queued"]
  /\ attempt' = [attempt EXCEPT ![w] = [code |-> code, at |-> now]]
  /\ UNCHANGED <<row, used, now, process, fresh, plan, sessions, accepted, failed>>

\* BEGIN DEFERRED, the SELECT of the row and everything decided from it.
Begin(w) ==
  /\ pc[w] = "queued"
  /\ \/ /\ Refused(attempt[w])
        /\ Finish(w)
        /\ UNCHANGED fresh
     \/ /\ ~Refused(attempt[w])
        /\ plan' = [plan EXCEPT ![w] = PlanFor(attempt[w])]
        /\ pc' = [pc EXCEPT ![w] = "evaluated"]
        /\ fresh' = fresh \cup {w}
        /\ UNCHANGED attempt
  /\ UNCHANGED <<row, used, now, process, sessions, accepted, failed>>

\* Mutant of CanWrite: a transaction that read an older snapshot may write.
CanWriteStale(w) == TRUE

CanWrite(w) == w \in fresh

\* UPDATE and COMMIT.
Update(w) ==
  /\ pc[w] = "evaluated" /\ CanWrite(w)
  /\ row' = [row EXCEPT !.last = plan[w].last, !.fails = plan[w].fails,
                        !.locked = plan[w].locked]
  /\ fresh' = {}
  /\ \/ /\ plan[w].accept /\ Len(accepted) < MaxLogins
        /\ accepted' = Append(accepted, [secret |-> row.secret, step |-> plan[w].last,
                                         time |-> now, process |-> process])
        /\ pc' = [pc EXCEPT ![w] = "verified"]
        /\ plan' = [plan EXCEPT ![w] = [login |-> Len(accepted) + 1]]
        /\ UNCHANGED <<attempt, failed>>
     \/ /\ ~plan[w].accept /\ Len(failed) < MaxFailed
        /\ failed' = Append(failed, [at |-> attempt[w].at, logins |-> Len(accepted),
                                     secret |-> row.secret])
        /\ Finish(w)
        /\ UNCHANGED accepted
  /\ UNCHANGED <<used, now, process, sessions>>

\* The snapshot is outdated, another connection is writing or a statement fails:
\* database_unavailable, and nothing is counted.
Unavailable(w) ==
  /\ pc[w] = "evaluated"
  /\ Finish(w)
  /\ fresh' = fresh \ {w}
  /\ UNCHANGED <<row, used, now, process, sessions, accepted, failed>>

\* issue_web_session, after another connection has read the role to display.
IssueSession(w) ==
  /\ pc[w] = "verified"
  /\ sessions' = sessions \cup {[process |-> process, login |-> plan[w].login,
                                 expires |-> now + SessionTtl]}
  /\ Finish(w)
  /\ UNCHANGED <<row, used, now, process, fresh, accepted, failed>>

--------------------------------------------------------------------------------
(* Everything else that touches the row, the sessions or the snapshots *)

SetRow(r) ==
  /\ row' = r
  /\ fresh' = {}
  /\ UNCHANGED <<now, process, pc, attempt, plan, sessions, accepted, failed>>

\* participant totp-enroll: a new secret, counters cleared.
Enroll(secret) ==
  /\ secret \notin used
  /\ used' = used \cup {secret}
  /\ SetRow([row EXCEPT !.secret = secret, !.last = NULL, !.fails = 0, !.locked = NULL])

\* participant totp-revoke
Revoke ==
  /\ row.secret # NULL
  /\ SetRow([row EXCEPT !.secret = NULL, !.last = NULL, !.fails = 0, !.locked = NULL])
  /\ UNCHANGED used

\* participant deactivate | reactivate
SetStatus(status) ==
  /\ SetRow([row EXCEPT !.status = status])
  /\ UNCHANGED used

\* Any other commit: SQLite versions the database, not the row.
OtherCommit ==
  /\ fresh # {}
  /\ SetRow(row)
  /\ UNCHANGED used

Tick ==
  /\ now < MaxTime
  /\ now' = now + 1
  /\ UNCHANGED <<row, used, process, fresh, pc, attempt, plan, sessions, accepted, failed>>

\* The process dies and starts again with a new session key.
Restart ==
  /\ process < MaxRestarts
  /\ process' = process + 1
  /\ fresh' = {}
  /\ pc' = [w \in Workers |-> "idle"]
  /\ attempt' = [w \in Workers |-> NULL]
  /\ plan' = [w \in Workers |-> NULL]
  /\ UNCHANGED <<row, used, now, sessions, accepted, failed>>

\* Mutant of VerifySession: the key outlives the process.
VerifySessionKept(s) == s.expires >= now

\* verify_web_session: signed with the key of this process and not expired.
VerifySession(s) == s.process = process /\ s.expires >= now

Next ==
  \/ \E w \in Workers, code \in Guesses : Receive(w, code)
  \/ \E w \in Workers : Begin(w) \/ Update(w) \/ Unavailable(w) \/ IssueSession(w)
  \/ \E secret \in Secrets : Enroll(secret)
  \/ Revoke
  \/ \E status \in {"active", "inactive"} : SetStatus(status)
  \/ OtherCommit
  \/ Tick
  \/ Restart

Spec == Init /\ [][Next]_vars

--------------------------------------------------------------------------------
(* Properties *)

\* Under one secret the accepted steps increase: a code that was accepted for a
\* step is never accepted for it again, however logins race, fail or restart
\* (totp_last_step is read in one statement and written in another).
StepsIncrease ==
  \A i, j \in DOMAIN accepted :
    i < j /\ accepted[i].secret = accepted[j].secret => accepted[i].step < accepted[j].step

\* Guesses are throttled: among any MaxFailures + 1 counted failures in a row, with
\* no login and no enrolment between them, two neighbours lie a lock apart.
\* Concurrent failures must not be counted as one.
Throttled ==
  \A i \in DOMAIN failed :
    /\ i + MaxFailures <= Len(failed)
    /\ failed[i].logins = failed[i + MaxFailures].logins
    /\ failed[i].secret = failed[i + MaxFailures].secret
    => \E j \in (i + 1)..(i + MaxFailures) : failed[j].at >= failed[j - 1].at + LockSecs

\* A session that verifies was handed out by the running process for a login that
\* process accepted, and a login gets at most one session: a restart ends them all.
SessionsBacked ==
  \A s \in sessions : VerifySession(s) =>
    /\ s.login \in DOMAIN accepted
    /\ accepted[s.login].process = process
    /\ \A t \in sessions : t.login = s.login => t = s

\* A login is accepted only for what the row says at the commit: the participant is
\* active, its present secret gives the code in the accepted step, and no lock is on.
LoginCurrent ==
  [][\A w \in Workers : accepted' # accepted /\ pc'[w] # pc[w] =>
       /\ row.status = "active" /\ row.secret # NULL
       /\ CodeOf(row.secret, row'.last) = attempt[w].code
       /\ ~Locked(now)]_vars
================================================================================
