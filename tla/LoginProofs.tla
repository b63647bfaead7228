------------------------------ MODULE LoginProofs ------------------------------
(******************************************************************************)
(* Proofs about TotpLogin: the login by time-based code.                        *)
(*                                                                             *)
(* authenticate_web_totp reads the row in one statement and writes it in        *)
(* another.  What ties the two together is Control: a worker whose snapshot is  *)
(* still the last commit carries exactly what the present row asks for.         *)
(******************************************************************************)
EXTENDS TotpLogin, TLAPS

\* A worker holds what its step of the handler needs, and a worker whose snapshot
\* is the last commit was not refused and carries the plan for the present row.
Control ==
  \A w \in Workers :
    /\ pc[w] \in {"queued", "evaluated"} => attempt[w] \in Attempts /\ attempt[w].at <= now
    /\ pc[w] = "evaluated" => plan[w] \in Plans
    /\ pc[w] = "verified" => plan[w] \in [login : Nat]
    /\ w \in fresh => /\ pc[w] = "evaluated"
                      /\ ~Refused(attempt[w])
                      /\ plan[w] = PlanFor(attempt[w])

\* matching_totp_step answers none, or a step in which the secret gives the code.
LEMMA MatchingStepMatches ==
  ASSUME NEW secret, NEW code, NEW t \in Nat
  PROVE  LET step == MatchingStep(secret, code, t)
         IN step = NULL \/ (step \in Nat /\ CodeOf(secret, step) = code)
<1> DEFINE current == t \div Period
           before == IF current = 0 THEN {} ELSE {current - 1}
           hits == {s \in before \cup {current, current + 1} : CodeOf(secret, s) = code}
<1>1. current \in Nat
  BY LoginConstants
<1> HIDE DEF current
<1>2. hits \subseteq Nat /\ \A s \in hits : CodeOf(secret, s) = code
  BY <1>1
<1>3. CASE hits = {}
  BY <1>3 DEF MatchingStep, current
<1>4. CASE hits # {} /\ current \in hits
  BY <1>2, <1>4 DEF MatchingStep, current
<1>5. CASE hits # {} /\ current \notin hits
  <2>1. hits \subseteq {current - 1, current + 1}
    BY <1>1, <1>5
  <2>2. \E s \in hits : \A h \in hits : s <= h
    <3>1. CASE current - 1 \in hits
      BY <1>1, <2>1, <3>1
    <3>2. CASE current - 1 \notin hits
      BY <1>1, <1>5, <2>1, <3>2
    <3> QED
      BY <3>1, <3>2
  <2>3. MatchingStep(secret, code, t) = CHOOSE s \in hits : \A h \in hits : s <= h
    BY <1>5 DEF MatchingStep, current
  <2> HIDE DEF hits
  <2>4. MatchingStep(secret, code, t) \in hits
    BY <2>2, <2>3
  <2> QED
    BY <1>2, <2>4
<1> QED
  BY <1>3, <1>4, <1>5

\* What a login that was not refused will write, and why it may.
LEMMA PlanSound ==
  ASSUME TypeOK, NEW a \in Attempts, ~Refused(a)
  PROVE  /\ row.status = "active" /\ row.secret \in Secrets /\ ~Locked(a.at)
         /\ PlanFor(a) \in Plans
         /\ PlanFor(a).accept => /\ PlanFor(a).last \in Nat
                                 /\ CodeOf(row.secret, PlanFor(a).last) = a.code
                                 /\ ~Spent(PlanFor(a).last)
                                 /\ PlanFor(a).fails = 0 /\ PlanFor(a).locked = NULL
         /\ ~PlanFor(a).accept =>
              /\ PlanFor(a).last = row.last
              /\ \/ PlanFor(a).fails = 0 /\ PlanFor(a).locked = a.at + LockSecs
                 \/ /\ PlanFor(a).fails = FailureCount /\ FailureCount < MaxFailures
                    /\ PlanFor(a).locked = NULL
<1> DEFINE step == MatchingStep(row.secret, a.code, a.at)
<1>1. a.at \in Nat /\ row \in Rows /\ row.secret \in OrNone(Secrets) /\ row.last \in OrNone(Nat)
      /\ row.fails \in Nat
  BY DEF TypeOK, Attempts, Rows
<1>2. step = NULL \/ (step \in Nat /\ CodeOf(row.secret, step) = a.code)
  BY <1>1, MatchingStepMatches
<1>3. row.status = "active" /\ row.secret \in Secrets /\ ~Locked(a.at)
  BY <1>1 DEF Refused, OrNone
<1>4. step # NULL => ~Spent(step)
  BY DEF Refused
<1> HIDE DEF step
<1>5. PlanFor(a) = IF step # NULL
                     THEN [accept |-> TRUE, last |-> step, fails |-> 0, locked |-> NULL]
                   ELSE IF FailureCount >= MaxFailures
                     THEN [accept |-> FALSE, last |-> row.last, fails |-> 0,
                           locked |-> a.at + LockSecs]
                   ELSE [accept |-> FALSE, last |-> row.last, fails |-> FailureCount,
                         locked |-> NULL]
  BY DEF PlanFor, step
<1>6. FailureCount \in Nat
  BY <1>1 DEF FailureCount
<1>7. a.at + LockSecs \in Nat
  BY <1>1, LoginConstants
<1>8. MaxFailures \in Nat
  BY LoginConstants
<1> HIDE DEF step
<1>9. CASE step # NULL
  BY <1>2, <1>3, <1>4, <1>5, <1>9 DEF Plans, OrNone
<1>10. CASE step = NULL /\ FailureCount >= MaxFailures
  BY <1>1, <1>3, <1>5, <1>7, <1>10 DEF Plans, OrNone
<1>11. CASE step = NULL /\ ~(FailureCount >= MaxFailures)
  BY <1>1, <1>3, <1>5, <1>6, <1>8, <1>11 DEF Plans, OrNone
<1> QED
  BY <1>9, <1>10, <1>11

--------------------------------------------------------------------------------
(* Types and control *)

\* The commit of an accepted login: the step is new, and the failures are cleared.
Accepts(w) ==
  /\ row.status = "active" /\ row.secret \in Secrets /\ ~Locked(attempt[w].at)
  /\ pc[w] = "evaluated" /\ plan[w].last \in Nat
  /\ CodeOf(row.secret, plan[w].last) = attempt[w].code
  /\ ~Spent(plan[w].last)
  /\ row' = [row EXCEPT !.last = plan[w].last, !.fails = 0, !.locked = NULL]
  /\ accepted' = Append(accepted, [secret |-> row.secret, step |-> plan[w].last,
                                   time |-> now, process |-> process])
  /\ pc' = [pc EXCEPT ![w] = "verified"]
  /\ plan' = [plan EXCEPT ![w] = [login |-> Len(accepted) + 1]]
  /\ fresh' = {}
  /\ UNCHANGED <<attempt, failed, used, now, process, sessions>>

\* The commit of a failure: it is counted, or it starts a lock.
Fails(w) ==
  /\ row.secret \in Secrets /\ ~Locked(attempt[w].at)
  /\ \/ row' = [row EXCEPT !.fails = 0, !.locked = attempt[w].at + LockSecs]
     \/ /\ FailureCount < MaxFailures
        /\ row' = [row EXCEPT !.fails = FailureCount, !.locked = NULL]
  /\ failed' = Append(failed, [at |-> attempt[w].at, logins |-> Len(accepted),
                               secret |-> row.secret])
  /\ Finish(w)
  /\ fresh' = {}
  /\ UNCHANGED <<accepted, used, now, process, sessions>>

\* A commit of a login is one of the two, decided on the row it writes.
LEMMA UpdateKinds ==
  ASSUME TypeOK, Control, NEW w \in Workers, Update(w)
  PROVE  attempt[w] \in Attempts /\ attempt[w].at <= now /\ (Accepts(w) \/ Fails(w))
<1>1. pc[w] = "evaluated" /\ w \in fresh
  BY DEF Update, CanWrite
<1>2. attempt[w] \in Attempts /\ attempt[w].at <= now /\ plan[w] \in Plans
      /\ ~Refused(attempt[w]) /\ plan[w] = PlanFor(attempt[w])
  BY <1>1 DEF Control
<1>3. row \in Rows
  BY DEF TypeOK
<1>4. /\ row.status = "active" /\ row.secret \in Secrets /\ ~Locked(attempt[w].at)
      /\ plan[w].accept => /\ plan[w].last \in Nat
                           /\ CodeOf(row.secret, plan[w].last) = attempt[w].code
                           /\ ~Spent(plan[w].last)
                           /\ plan[w].fails = 0 /\ plan[w].locked = NULL
      /\ ~plan[w].accept =>
           /\ plan[w].last = row.last
           /\ \/ plan[w].fails = 0 /\ plan[w].locked = attempt[w].at + LockSecs
              \/ /\ plan[w].fails = FailureCount /\ FailureCount < MaxFailures
                 /\ plan[w].locked = NULL
  BY <1>2, PlanSound
<1>5. CASE plan[w].accept
  <2>1. row' = [row EXCEPT !.last = plan[w].last, !.fails = 0, !.locked = NULL]
    BY <1>4, <1>5 DEF Update
  <2> QED
    BY <1>1, <1>2, <1>4, <1>5, <2>1 DEF Update, Accepts
<1>6. CASE ~plan[w].accept
  <2>1. \/ row' = [row EXCEPT !.fails = 0, !.locked = attempt[w].at + LockSecs]
        \/ /\ FailureCount < MaxFailures
           /\ row' = [row EXCEPT !.fails = FailureCount, !.locked = NULL]
    BY <1>3, <1>4, <1>6 DEF Update, Rows
  <2> QED
    BY <1>2, <1>4, <1>6, <2>1 DEF Update, Fails
<1> QED
  BY <1>5, <1>6

\* Every step keeps the types, TypeOK, and the coupling of the workers, Control.
LEMMA TypedStep ==
  TypeOK /\ Control /\ [Next]_vars => TypeOK' /\ Control'
<1> SUFFICES ASSUME TypeOK, Control, [Next]_vars PROVE TypeOK' /\ Control'
  OBVIOUS
<1> USE DEF OrNone
<1>1. ASSUME NEW w \in Workers, NEW code \in Guesses, Receive(w, code)
      PROVE  TypeOK' /\ Control'
  <2>1. [code |-> code, at |-> now] \in Attempts
    BY CodesTyped DEF Attempts, TypeOK
  <2>2. TypeOK'
    BY <1>1, <2>1 DEF Receive, TypeOK
  <2>3. Control'
    <3> SUFFICES ASSUME NEW v \in Workers PROVE Control!(v)'
      BY DEF Control
    <3>1. CASE v = w
      BY <1>1, <2>1, <3>1 DEF Receive, TypeOK, Control, Attempts
    <3>2. CASE v # w
      BY <1>1, <3>2 DEF Receive, TypeOK, Control, Refused, Locked, Spent, PlanFor, FailureCount
    <3> QED
      BY <3>1, <3>2
  <2> QED
    BY <2>2, <2>3
<1>2. ASSUME NEW w \in Workers, Begin(w) PROVE TypeOK' /\ Control'
  <2>1. attempt[w] \in Attempts
    BY <1>2 DEF Begin, Control
  <2>2. CASE Refused(attempt[w])
    <3>1. Finish(w) /\ UNCHANGED <<row, used, now, process, fresh, sessions, accepted, failed>>
      BY <1>2, <2>2 DEF Begin
    <3>2. TypeOK'
      BY <3>1 DEF Finish, TypeOK, Carried
    <3>3. w \notin fresh
      BY <1>2 DEF Begin, Control
    <3>4. Control'
      BY <3>1, <3>3 DEF Finish, TypeOK, Control, Refused, Locked, Spent, PlanFor, FailureCount
    <3> QED
      BY <3>2, <3>4
  <2>3. CASE ~Refused(attempt[w])
    <3>1. PlanFor(attempt[w]) \in Plans
      BY <2>1, <2>3, PlanSound
    <3>2. TypeOK'
      BY <1>2, <2>3, <3>1 DEF Begin, TypeOK, Carried
    <3>3. Control'
      <4> SUFFICES ASSUME NEW v \in Workers PROVE Control!(v)'
        BY DEF Control
      <4>1. UNCHANGED <<row, now, attempt>>
        BY <1>2, <2>3 DEF Begin
      <4>2. /\ (~Refused(attempt[w]))'
            /\ PlanFor(attempt[w])' = PlanFor(attempt[w])
        BY <2>3, <4>1 DEF Refused, Locked, Spent, PlanFor, FailureCount
      <4>3. CASE v = w
        BY <1>2, <2>1, <2>3, <3>1, <4>1, <4>2, <4>3 DEF Begin, TypeOK, Control
      <4>4. CASE v # w
        BY <1>2, <2>3, <4>1, <4>4 DEF Begin, TypeOK, Control, Refused, Locked, Spent, PlanFor,
           FailureCount
      <4> QED
        BY <4>3, <4>4
    <3> QED
      BY <3>2, <3>3
  <2> QED
    BY <2>2, <2>3
<1>3. ASSUME NEW w \in Workers, Update(w) PROVE TypeOK' /\ Control'
  <2>1. attempt[w] \in Attempts /\ (Accepts(w) \/ Fails(w))
    BY <1>3, UpdateKinds
  <2>2. CASE Accepts(w)
    <3>1. Len(accepted) + 1 \in Nat
      BY DEF TypeOK
    <3>2. [secret |-> row.secret, step |-> plan[w].last, time |-> now, process |-> process]
            \in Logins
      BY <2>2 DEF Accepts, Logins, TypeOK
    <3>3. row' \in Rows
      BY <2>2 DEF Accepts, TypeOK, Rows
    <3>4. TypeOK'
      BY <2>2, <3>1, <3>2, <3>3 DEF Accepts, TypeOK, Carried
    <3>5. Control'
      BY <2>2, <3>1 DEF Accepts, TypeOK, Control
    <3> QED
      BY <3>4, <3>5
  <2>3. CASE Fails(w)
    <3>1. attempt[w].at + LockSecs \in Nat /\ FailureCount \in Nat
      BY <2>1, LoginConstants DEF Attempts, FailureCount, TypeOK, Rows
    <3>2. [at |-> attempt[w].at, logins |-> Len(accepted), secret |-> row.secret] \in Failures
      BY <2>1, <2>3 DEF Fails, Failures, Attempts, TypeOK
    <3>3. row' \in Rows
      <4>1. row \in Rows
        BY DEF TypeOK
      <4>2. [row EXCEPT !.fails = 0, !.locked = attempt[w].at + LockSecs] \in Rows
        BY <3>1, <4>1 DEF Rows
      <4>3. [row EXCEPT !.fails = FailureCount, !.locked = NULL] \in Rows
        BY <3>1, <4>1 DEF Rows
      <4> QED
        BY <2>3, <4>2, <4>3 DEF Fails
    <3>4. TypeOK'
      BY <2>3, <3>2, <3>3 DEF Fails, Finish, TypeOK, Carried
    <3>5. Control'
      BY <2>3 DEF Fails, Finish, TypeOK, Control
    <3> QED
      BY <3>4, <3>5
  <2> QED
    BY <2>1, <2>2, <2>3
<1>4. ASSUME NEW w \in Workers, Unavailable(w) PROVE TypeOK' /\ Control'
  BY <1>4 DEF Unavailable, Finish, TypeOK, Carried, Control, Refused, Locked, Spent, PlanFor,
     FailureCount
<1>5. ASSUME NEW w \in Workers, IssueSession(w) PROVE TypeOK' /\ Control'
  <2>1. plan[w].login \in Nat /\ now + SessionTtl \in Nat
    BY <1>5, LoginConstants DEF IssueSession, Control, TypeOK
  <2>2. TypeOK'
    BY <1>5, <2>1 DEF IssueSession, Finish, TypeOK, Carried
  <2>3. Control'
    BY <1>5 DEF IssueSession, Finish, TypeOK, Control, Refused, Locked, Spent, PlanFor,
       FailureCount
  <2> QED
    BY <2>2, <2>3
<1>6. ASSUME NEW r \in Rows, SetRow(r), used' \subseteq Secrets PROVE TypeOK' /\ Control'
  BY <1>6 DEF SetRow, TypeOK, Control
<1>7. ASSUME NEW secret \in Secrets, Enroll(secret) PROVE TypeOK' /\ Control'
  <2>1. [row EXCEPT !.secret = secret, !.last = NULL, !.fails = 0, !.locked = NULL] \in Rows
    BY DEF TypeOK, Rows
  <2> QED
    BY <1>6, <1>7, <2>1 DEF Enroll, TypeOK
<1>8. CASE Revoke
  <2>1. [row EXCEPT !.secret = NULL, !.last = NULL, !.fails = 0, !.locked = NULL] \in Rows
    BY DEF TypeOK, Rows
  <2> QED
    BY <1>6, <1>8, <2>1 DEF Revoke, TypeOK
<1>9. ASSUME NEW status \in {"active", "inactive"}, SetStatus(status)
      PROVE  TypeOK' /\ Control'
  <2>1. [row EXCEPT !.status = status] \in Rows
    BY DEF TypeOK, Rows
  <2> QED
    BY <1>6, <1>9, <2>1 DEF SetStatus, TypeOK
<1>10. CASE OtherCommit
  BY <1>6, <1>10 DEF OtherCommit, TypeOK
<1>11. CASE Tick
  <2>1. now' \in Nat /\ now <= now'
    BY <1>11 DEF Tick, TypeOK
  <2>2. TypeOK'
    BY <1>11, <2>1 DEF Tick, TypeOK
  <2>3. Control'
    BY <1>11, <2>1 DEF Tick, TypeOK, Control, Attempts, Refused, Locked, Spent, PlanFor,
       FailureCount
  <2> QED
    BY <2>2, <2>3
<1>12. CASE Restart
  BY <1>12 DEF Restart, TypeOK, Carried, Control
<1>13. CASE UNCHANGED vars
  BY <1>13 DEF vars, TypeOK, Control, Refused, Locked, Spent, PlanFor, FailureCount
<1> QED
  BY <1>1, <1>2, <1>3, <1>4, <1>5, <1>7, <1>8, <1>9, <1>10, <1>11, <1>12, <1>13 DEF Next

\* The variables keep their types, and no worker writes what it decided on a row
\* that has changed since: a row committed in between outdates the snapshot.
THEOREM LoginTyped == Spec => [](TypeOK /\ Control)
<1>1. Init => TypeOK /\ Control
  BY DEF Init, TypeOK, Control, Rows, OrNone, Carried
<1> QED
  BY <1>1, TypedStep, PTL DEF Spec

--------------------------------------------------------------------------------
(* What a step may do to the counters and to the history *)

\* participant deactivate or reactivate, and whatever leaves the row alone.
KeepsCounters ==
  /\ row'.secret = row.secret /\ row'.last = row.last
  /\ row'.fails = row.fails /\ row'.locked = row.locked
  /\ UNCHANGED <<used, accepted, failed>>

\* participant totp-enroll and totp-revoke.
ClearsCounters ==
  /\ \/ \E secret \in Secrets :
          secret \notin used /\ used' = used \cup {secret} /\ row'.secret = secret
     \/ used' = used /\ row'.secret = NULL
  /\ row'.last = NULL /\ row'.fails = 0 /\ row'.locked = NULL
  /\ UNCHANGED <<accepted, failed>>

\* A login that commits now, taken at a time not after now.
LoginCommits ==
  \E w \in Workers :
    /\ attempt[w] \in Attempts /\ attempt[w].at <= now
    /\ Accepts(w) \/ Fails(w)

\* A step commits a login or a failure, clears the counters or keeps them.
LEMMA CounterSteps ==
  TypeOK /\ Control /\ [Next]_vars => KeepsCounters \/ ClearsCounters \/ LoginCommits
<1> SUFFICES ASSUME TypeOK, Control, [Next]_vars
             PROVE  KeepsCounters \/ ClearsCounters \/ LoginCommits
  OBVIOUS
<1>1. row \in Rows
  BY DEF TypeOK
<1>2. ASSUME NEW w \in Workers,
             \/ \E code \in Guesses : Receive(w, code)
             \/ Begin(w) \/ Unavailable(w) \/ IssueSession(w)
      PROVE  KeepsCounters
  BY <1>2 DEF Receive, Begin, Unavailable, IssueSession, KeepsCounters
<1>3. ASSUME NEW secret \in Secrets, Enroll(secret) PROVE ClearsCounters
  <2>1. /\ row'.secret = secret /\ row'.last = NULL /\ row'.fails = 0 /\ row'.locked = NULL
        /\ UNCHANGED <<accepted, failed>>
    BY <1>1, <1>3 DEF Enroll, SetRow, Rows
  <2> QED
    BY <1>3, <2>1 DEF Enroll, ClearsCounters
<1>4. CASE Revoke
  BY <1>1, <1>4 DEF Revoke, SetRow, Rows, ClearsCounters
<1>5. ASSUME NEW status \in {"active", "inactive"}, SetStatus(status) PROVE KeepsCounters
  BY <1>1, <1>5 DEF SetStatus, SetRow, Rows, KeepsCounters
<1>6. CASE OtherCommit \/ Tick \/ Restart \/ UNCHANGED vars
  BY <1>6 DEF OtherCommit, SetRow, Tick, Restart, vars, KeepsCounters
<1>7. ASSUME NEW w \in Workers, Update(w) PROVE LoginCommits
  BY <1>7, UpdateKinds DEF LoginCommits
<1> QED
  BY <1>2, <1>3, <1>4, <1>5, <1>6, <1>7 DEF Next

--------------------------------------------------------------------------------
(* No step of a secret is accepted twice *)

\* The row remembers the latest step accepted under its secret, and a secret that
\* is drawn has accepted nothing yet.
StepsCovered ==
  /\ row.secret \in OrNone(used)
  /\ \A i \in DOMAIN accepted :
       /\ accepted[i].secret \in used
       /\ accepted[i].secret = row.secret => row.last # NULL /\ accepted[i].step <= row.last

\* Every step keeps the last step ahead of what was accepted, and the order of the steps.
LEMMA StepsStep ==
  TypeOK /\ Control /\ StepsCovered /\ StepsIncrease /\ [Next]_vars
    => StepsCovered' /\ StepsIncrease'
<1> SUFFICES ASSUME TypeOK, Control, StepsCovered, StepsIncrease, [Next]_vars
             PROVE  StepsCovered' /\ StepsIncrease'
  OBVIOUS
<1>1. accepted \in Seq(Logins) /\ row \in Rows /\ used \subseteq Secrets
  BY DEF TypeOK
<1>2. \A i \in DOMAIN accepted : accepted[i].secret \in Secrets /\ accepted[i].step \in Nat
  <2>1. \A i \in DOMAIN accepted : accepted[i] \in Logins
    BY <1>1
  <2> QED
    BY <2>1 DEF Logins
<1>3. CASE KeepsCounters
  <2>1. StepsCovered'
    BY <1>3 DEF KeepsCounters, StepsCovered, OrNone
  <2>2. StepsIncrease'
    BY <1>3, Zenon DEF KeepsCounters, StepsIncrease
  <2> QED
    BY <2>1, <2>2
<1>4. CASE ClearsCounters
  BY <1>2, <1>4, NullIsNoLogin DEF ClearsCounters, StepsCovered, StepsIncrease, OrNone
<1>5. ASSUME NEW w \in Workers, Accepts(w) PROVE StepsCovered' /\ StepsIncrease'
  <2> DEFINE n == Len(accepted)
             new == [secret |-> row.secret, step |-> plan[w].last,
                     time |-> now, process |-> process]
  <2>1. /\ row.secret \in Secrets /\ plan[w].last \in Nat /\ ~Spent(plan[w].last)
        /\ accepted' = Append(accepted, new)
        /\ row' = [row EXCEPT !.last = plan[w].last, !.fails = 0, !.locked = NULL]
        /\ used' = used
    BY <1>5 DEF Accepts
  <2>2. row'.secret = row.secret /\ row'.last = plan[w].last
    BY <1>1, <2>1 DEF Rows
  <2>3. row.secret \in used
    BY <2>1, NullIsNoLogin DEF StepsCovered, OrNone
  <2>4. row.last \in Nat => row.last < plan[w].last
    BY <2>1, NullIsNoLogin DEF Spent
  <2>5. row.last \in OrNone(Nat)
    BY <1>1 DEF Rows
  <2>6. \A i \in 1..n : accepted[i].secret = row.secret => accepted[i].step < plan[w].last
    BY <1>1, <1>2, <2>1, <2>4, <2>5 DEF StepsCovered, OrNone
  <2>7. /\ DOMAIN accepted' = 1..(n + 1) /\ n \in Nat /\ DOMAIN accepted = 1..n
        /\ \A i \in 1..n : accepted'[i] = accepted[i]
        /\ accepted'[n + 1] = new
    BY <1>1, <2>1
  <2>8. StepsCovered'
    BY <1>2, <2>1, <2>2, <2>3, <2>6, <2>7, NullIsNoLogin DEF StepsCovered, OrNone
  <2>9. StepsIncrease'
    <3> SUFFICES ASSUME NEW i \in 1..(n + 1), NEW j \in 1..(n + 1), i < j,
                        accepted'[i].secret = accepted'[j].secret
                 PROVE  accepted'[i].step < accepted'[j].step
      BY <2>7 DEF StepsIncrease
    <3>1. i \in 1..n
      BY <2>7
    <3>2. CASE j \in 1..n
      BY <2>7, <3>1, <3>2 DEF StepsIncrease
    <3>3. CASE j = n + 1
      BY <2>6, <2>7, <3>1, <3>3
    <3> QED
      BY <2>7, <3>2, <3>3
  <2> QED
    BY <2>8, <2>9
<1>6. ASSUME NEW w \in Workers, Fails(w) PROVE StepsCovered' /\ StepsIncrease'
  <2>1. row'.secret = row.secret /\ row'.last = row.last
    BY <1>1, <1>6 DEF Fails, Rows
  <2> QED
    BY <1>6, <2>1 DEF Fails, StepsCovered, StepsIncrease, OrNone
<1> QED
  BY <1>3, <1>4, <1>5, <1>6, CounterSteps DEF LoginCommits

\* Under one secret the accepted steps increase, so no code buys two logins in one
\* step, for any number of concurrent logins, enrolments, lost snapshots and restarts.
THEOREM StepsNeverRepeat == Spec => []StepsIncrease
<1>1. Init => StepsCovered /\ StepsIncrease
  BY DEF Init, StepsCovered, StepsIncrease, OrNone
<1> QED
  BY <1>1, LoginTyped, StepsStep, PTL DEF Spec

\* What LoginCurrent says of one step.
LoginCurrentStep ==
  \A w \in Workers : accepted' # accepted /\ pc'[w] # pc[w] =>
       /\ row.status = "active" /\ row.secret # NULL
       /\ CodeOf(row.secret, row'.last) = attempt[w].code
       /\ ~Locked(now)

\* A login is accepted only for what the row says at the commit, although the code
\* was checked, and its time taken, in earlier steps.
THEOREM LoginIsCurrent == Spec => LoginCurrent
<1>1. TypeOK /\ Control /\ [Next]_vars => [LoginCurrentStep]_vars
  <2> SUFFICES ASSUME TypeOK, Control, [Next]_vars, NEW w \in Workers,
                      accepted' # accepted, pc'[w] # pc[w]
               PROVE  /\ row.status = "active" /\ row.secret # NULL
                      /\ CodeOf(row.secret, row'.last) = attempt[w].code
                      /\ ~Locked(now)
    BY DEF LoginCurrentStep
  <2>1. PICK v \in Workers : attempt[v] \in Attempts /\ attempt[v].at <= now /\ Accepts(v)
    BY CounterSteps DEF KeepsCounters, ClearsCounters, LoginCommits, Fails
  <2>2. v = w
    BY <2>1 DEF Accepts, TypeOK
  <2>3. row'.last = plan[w].last
    BY <2>1, <2>2 DEF Accepts, TypeOK, Rows
  <2>4. ~Locked(now)
    <3>1. ~Locked(attempt[w].at) /\ attempt[w].at \in Nat /\ attempt[w].at <= now
      BY <2>1, <2>2 DEF Accepts, Attempts
    <3>2. now \in Nat /\ row.locked \in OrNone(Nat)
      BY DEF TypeOK, Rows
    <3> QED
      BY <3>1, <3>2 DEF Locked, OrNone
  <2> QED
    BY <2>1, <2>2, <2>3, <2>4, NullIsNoLogin DEF Accepts
<1>2. LoginCurrent <=> [][LoginCurrentStep]_vars
  BY DEF LoginCurrent, LoginCurrentStep
<1> QED
  BY <1>1, <1>2, LoginTyped, PTL DEF Spec

--------------------------------------------------------------------------------
(* A session belongs to one login of one process *)

\* A session was issued for a login of its process, a login has at most one, and a
\* login whose worker has yet to issue the session is of this process and has none.
SessionsOwned ==
  /\ \A s \in sessions : s.login \in DOMAIN accepted /\ accepted[s.login].process = s.process
  /\ \A s, t \in sessions : s.login = t.login => s = t
  /\ \A w \in Workers : pc[w] = "verified" =>
       /\ plan[w].login \in DOMAIN accepted /\ accepted[plan[w].login].process = process
       /\ \A s \in sessions : s.login # plan[w].login
       /\ \A v \in Workers : v # w /\ pc[v] = "verified" => plan[v].login # plan[w].login

\* No login is accepted, no session issued, and nobody comes to hold a login.
KeepsSessions ==
  /\ UNCHANGED <<sessions, accepted, process>>
  /\ \A w \in Workers : pc'[w] = "verified" => pc[w] = "verified" /\ plan'[w] = plan[w]

\* Every step keeps sessions and logins not yet answered apart.
LEMMA SessionsStep ==
  TypeOK /\ Control /\ SessionsOwned /\ [Next]_vars => SessionsOwned'
<1> SUFFICES ASSUME TypeOK, Control, SessionsOwned, [Next]_vars PROVE SessionsOwned'
  OBVIOUS
<1>1. CASE KeepsSessions
  BY <1>1, Zenon DEF KeepsSessions, SessionsOwned
<1>2. ASSUME NEW w \in Workers, Accepts(w) PROVE SessionsOwned'
  <2> DEFINE n == Len(accepted)
  <2>1. /\ n \in Nat /\ DOMAIN accepted = 1..n /\ DOMAIN accepted' = 1..(n + 1)
        /\ \A i \in 1..n : accepted'[i] = accepted[i]
        /\ accepted'[n + 1].process = process
        /\ UNCHANGED <<sessions, process>>
    BY <1>2 DEF Accepts, TypeOK
  <2>2. /\ plan'[w].login = n + 1
        /\ \A v \in Workers : v # w => pc'[v] = pc[v] /\ plan'[v] = plan[v]
    BY <1>2 DEF Accepts, TypeOK
  <2>3. n + 1 \notin DOMAIN accepted
    BY <2>1
  <2>4. \A s \in sessions' : /\ s.login \in DOMAIN accepted'
                             /\ accepted'[s.login].process = s.process
    BY <2>1 DEF SessionsOwned
  <2>5. ASSUME NEW v \in Workers, pc'[v] = "verified"
        PROVE  /\ plan'[v].login \in DOMAIN accepted'
               /\ accepted'[plan'[v].login].process = process'
               /\ \A s \in sessions' : s.login # plan'[v].login
    <3>1. CASE v = w
      BY <2>1, <2>2, <2>3, <3>1 DEF SessionsOwned
    <3>2. CASE v # w
      BY <2>1, <2>2, <2>5, <3>2 DEF SessionsOwned
    <3> QED
      BY <3>1, <3>2
  <2>6. ASSUME NEW v \in Workers, NEW u \in Workers, v # u,
               pc'[v] = "verified", pc'[u] = "verified"
        PROVE  plan'[v].login # plan'[u].login
    BY <2>2, <2>3, <2>6 DEF SessionsOwned
  <2> QED
    BY <2>1, <2>4, <2>5, <2>6 DEF SessionsOwned
<1>3. ASSUME NEW w \in Workers, IssueSession(w) PROVE SessionsOwned'
  <2> DEFINE new == [process |-> process, login |-> plan[w].login, expires |-> now + SessionTtl]
  <2>1. /\ pc[w] = "verified" /\ sessions' = sessions \cup {new}
        /\ UNCHANGED <<accepted, process>>
        /\ \A v \in Workers : pc'[v] = "verified" => v # w /\ pc[v] = "verified"
                                                    /\ plan'[v] = plan[v]
    BY <1>3 DEF IssueSession, Finish, TypeOK
  <2>2. new.login = plan[w].login /\ new.process = process
    OBVIOUS
  <2> HIDE DEF new
  <2>3. new.login \in DOMAIN accepted /\ accepted[new.login].process = new.process
        /\ \A s \in sessions : s.login # new.login
    BY <2>1, <2>2 DEF SessionsOwned
  <2>4. \A s \in sessions' : /\ s.login \in DOMAIN accepted'
                             /\ accepted'[s.login].process = s.process
    BY <2>1, <2>3 DEF SessionsOwned
  <2>5. \A s, t \in sessions' : s.login = t.login => s = t
    BY <2>1, <2>3 DEF SessionsOwned
  <2>6. ASSUME NEW v \in Workers, pc'[v] = "verified"
        PROVE  /\ plan'[v].login \in DOMAIN accepted'
               /\ accepted'[plan'[v].login].process = process'
               /\ \A s \in sessions' : s.login # plan'[v].login
               /\ \A u \in Workers : u # v /\ pc'[u] = "verified"
                                     => plan'[u].login # plan'[v].login
    <3>1. v # w /\ pc[v] = "verified" /\ plan'[v] = plan[v]
      BY <2>1, <2>6
    <3>2. plan[w].login # plan[v].login
      BY <2>1, <3>1 DEF SessionsOwned
    <3> QED
      BY <2>1, <2>2, <3>1, <3>2 DEF SessionsOwned
  <2> QED
    BY <2>4, <2>5, <2>6 DEF SessionsOwned
<1>4. CASE Restart
  BY <1>4 DEF Restart, SessionsOwned
<1>5. ASSUME NEW w \in Workers,
             \/ \E code \in Guesses : Receive(w, code)
             \/ Begin(w) \/ Unavailable(w) \/ Fails(w)
      PROVE  KeepsSessions
  BY <1>5 DEF Receive, Begin, Unavailable, Fails, Finish, KeepsSessions, TypeOK
<1>6. ASSUME \/ \E secret \in Secrets : Enroll(secret)
             \/ Revoke
             \/ \E status \in {"active", "inactive"} : SetStatus(status)
             \/ OtherCommit \/ Tick \/ UNCHANGED vars
      PROVE  KeepsSessions
  BY <1>6 DEF Enroll, Revoke, SetStatus, OtherCommit, SetRow, Tick, vars, KeepsSessions
<1> QED
  BY <1>1, <1>2, <1>3, <1>4, <1>5, <1>6, UpdateKinds DEF Next

\* A session that verifies was handed out by the running process for a login it
\* accepted, and no login gets two, whatever restarts come between the two steps.
THEOREM SessionsAreBacked == Spec => []SessionsBacked
<1>1. Init => SessionsOwned
  BY DEF Init, SessionsOwned
<1>2. SessionsOwned => SessionsBacked
  BY DEF SessionsOwned, SessionsBacked, VerifySession
<1> QED
  BY <1>1, <1>2, LoginTyped, SessionsStep, PTL DEF Spec

--------------------------------------------------------------------------------
(* Guesses are throttled *)

\* The failures counted under the present secret since the last login.
Present(i) == failed[i].logins = Len(accepted) /\ failed[i].secret = row.secret

\* A failure comes a lock or more after the one before it.
LockApart(i) == failed[i].at >= failed[i - 1].at + LockSecs

\* The failures are in the order of the logins, and each secret has one stretch.
FailuresOrdered ==
  LET n == Len(failed)
  IN /\ \A i \in 1..n : failed[i].logins <= Len(accepted) /\ failed[i].secret \in used
     /\ \A i, j \in 1..n : i <= j =>
          /\ failed[i].logins <= failed[j].logins
          /\ failed[i].secret = row.secret => failed[j].secret = row.secret
          /\ \A k \in j..n : failed[i].secret = failed[k].secret
                              => failed[j].secret = failed[k].secret

\* The count of the row reaches back to the failure that began it: the first of
\* all, the first of the present secret and login, or one that waited for a lock.
CountCovers ==
  LET n == Len(failed)
      first == n + 1 - row.fails
  IN /\ row.fails <= n /\ row.fails < MaxFailures
     /\ row.locked # NULL => n > 0 /\ row.locked = failed[n].at + LockSecs
     /\ row.locked = NULL => \/ first = 1
                             \/ ~Present(first - 1)
                             \/ first <= n /\ LockApart(first)

\* Typing facts about the history of failures.
LEMMA FailedTyped ==
  ASSUME TypeOK
  PROVE  /\ Len(failed) \in Nat /\ DOMAIN failed = 1..Len(failed)
         /\ Len(accepted) \in Nat
         /\ \A i \in 1..Len(failed) : /\ failed[i].at \in Nat /\ failed[i].logins \in Nat
                                      /\ failed[i].secret \in Secrets
<1>1. failed \in Seq(Failures) /\ accepted \in Seq(Logins)
  BY DEF TypeOK
<1>2. \A i \in 1..Len(failed) : failed[i] \in Failures
  BY <1>1
<1> QED
  BY <1>1, <1>2 DEF Failures

\* Every step keeps the count in line with the failures, and so the throttle.
LEMMA ThrottledStep ==
  TypeOK /\ Control /\ StepsCovered /\ FailuresOrdered /\ CountCovers /\ Throttled /\ [Next]_vars
    => FailuresOrdered' /\ CountCovers' /\ Throttled'
<1> SUFFICES ASSUME TypeOK, Control, StepsCovered, FailuresOrdered, CountCovers, Throttled,
                    [Next]_vars
             PROVE  FailuresOrdered' /\ CountCovers' /\ Throttled'
  OBVIOUS
<1> DEFINE n == Len(failed)
<1>1. /\ n \in Nat /\ DOMAIN failed = 1..n /\ Len(accepted) \in Nat
      /\ \A i \in 1..n : /\ failed[i].at \in Nat /\ failed[i].logins \in Nat
                         /\ failed[i].secret \in Secrets
  BY FailedTyped
<1>2. /\ row \in Rows /\ row.fails \in Nat /\ row.locked \in OrNone(Nat)
      /\ used \subseteq Secrets /\ MaxFailures \in Nat \ {0} /\ LockSecs \in Nat
  BY LoginConstants DEF TypeOK, Rows
<1>3. CASE KeepsCounters
  <2>1. FailuresOrdered'
    BY <1>3 DEF KeepsCounters, FailuresOrdered
  <2>2. CountCovers'
    BY <1>3, Zenon DEF KeepsCounters, CountCovers, Present, LockApart
  <2>3. Throttled'
    BY <1>3, Zenon DEF KeepsCounters, Throttled
  <2> QED
    BY <2>1, <2>2, <2>3
<1>4. CASE ClearsCounters
  <2>1. \A i \in 1..n : failed[i].secret # row'.secret
    BY <1>1, <1>4, NullIsNoLogin DEF ClearsCounters, FailuresOrdered
  <2>2. failed' = failed /\ accepted' = accepted /\ used \subseteq used'
    BY <1>4 DEF ClearsCounters
  <2>3. FailuresOrdered'
    BY <1>1, <2>1, <2>2 DEF FailuresOrdered
  <2>4. row'.fails = 0 /\ row'.locked = NULL
    BY <1>4 DEF ClearsCounters
  <2>5. CountCovers'
    BY <1>1, <1>2, <2>1, <2>2, <2>4 DEF CountCovers, Present
  <2>6. Throttled'
    BY <2>2, Zenon DEF Throttled
  <2> QED
    BY <2>3, <2>5, <2>6
<1>5. ASSUME NEW w \in Workers, Accepts(w) PROVE FailuresOrdered' /\ CountCovers' /\ Throttled'
  <2>1. /\ failed' = failed /\ used' = used
        /\ Len(accepted') = Len(accepted) + 1
        /\ row'.secret = row.secret /\ row'.fails = 0 /\ row'.locked = NULL
    BY <1>2, <1>5 DEF Accepts, TypeOK, Rows
  <2>2. FailuresOrdered'
    BY <1>1, <2>1 DEF FailuresOrdered
  <2>3. CountCovers'
    <3>1. n >= 1 => (~Present(n))'
      BY <1>1, <2>1 DEF FailuresOrdered, Present
    <3> QED
      BY <1>1, <1>2, <2>1, <3>1 DEF CountCovers
  <2>4. Throttled'
    BY <2>1, Zenon DEF Throttled
  <2> QED
    BY <2>2, <2>3, <2>4
<1>6. ASSUME NEW w \in Workers, attempt[w] \in Attempts, Fails(w)
      PROVE  FailuresOrdered' /\ CountCovers' /\ Throttled'
  <2> DEFINE new == [at |-> attempt[w].at, logins |-> Len(accepted), secret |-> row.secret]
  <2>1. /\ failed' = Append(failed, new) /\ UNCHANGED <<used, accepted>>
        /\ row.secret \in Secrets /\ ~Locked(new.at) /\ new.at \in Nat
    BY <1>6 DEF Fails, Attempts
  <2>2. /\ Len(failed') = n + 1 /\ DOMAIN failed' = 1..(n + 1)
        /\ \A i \in 1..n : failed'[i] = failed[i]
        /\ failed'[n + 1] = new
    BY <2>1 DEF TypeOK
  <2>3. new.logins = Len(accepted) /\ new.secret = row.secret
    OBVIOUS
  <2>4. /\ row'.secret = row.secret
        /\ \/ row'.fails = 0 /\ row'.locked = new.at + LockSecs
           \/ /\ FailureCount < MaxFailures
              /\ row'.fails = FailureCount /\ row'.locked = NULL
    BY <1>2, <1>6 DEF Fails, Rows
  <2>5. row.secret \in used
    BY <2>1, NullIsNoLogin DEF StepsCovered, OrNone
  <2> HIDE DEF new
  <2>6. row.locked # NULL => n > 0 /\ new.at >= failed[n].at + LockSecs
    BY <1>1, <1>2, <2>1 DEF CountCovers, Locked, OrNone
  <2>7. FailuresOrdered'
    <3>1. \A i \in 1..(n + 1) : /\ failed'[i].logins <= Len(accepted)
                                /\ failed'[i].secret \in used
      BY <1>1, <2>2, <2>3, <2>5 DEF FailuresOrdered
    <3>2. ASSUME NEW i \in 1..(n + 1), NEW j \in 1..(n + 1), i <= j
          PROVE  /\ failed'[i].logins <= failed'[j].logins
                 /\ failed'[i].secret = row.secret => failed'[j].secret = row.secret
                 /\ \A k \in j..(n + 1) : failed'[i].secret = failed'[k].secret
                                           => failed'[j].secret = failed'[k].secret
      <4>1. CASE j = n + 1
        BY <1>1, <2>2, <2>3, <3>1, <3>2, <4>1
      <4>2. CASE j \in 1..n
        <5>1. i \in 1..n /\ failed'[i] = failed[i] /\ failed'[j] = failed[j]
          BY <1>1, <2>2, <3>2, <4>2
        <5>2. /\ failed[i].logins <= failed[j].logins
              /\ failed[i].secret = row.secret => failed[j].secret = row.secret
              /\ \A k \in j..n : failed[i].secret = failed[k].secret
                                  => failed[j].secret = failed[k].secret
          BY <3>2, <4>2, <5>1 DEF FailuresOrdered
        <5>3. ASSUME NEW k \in j..(n + 1), failed'[i].secret = failed'[k].secret
              PROVE  failed'[j].secret = failed'[k].secret
          <6>1. CASE k = n + 1
            BY <2>2, <2>3, <5>1, <5>2, <5>3, <6>1
          <6>2. CASE k \in j..n
            BY <1>1, <2>2, <4>2, <5>1, <5>2, <5>3, <6>2
          <6> QED
            BY <1>1, <4>2, <6>1, <6>2
        <5> QED
          BY <5>1, <5>2, <5>3
      <4> QED
        BY <1>1, <4>1, <4>2
    <3> QED
      BY <2>1, <2>2, <2>4, <3>1, <3>2 DEF FailuresOrdered
  <2>8. CountCovers'
    <3>1. CASE row'.fails = 0 /\ row'.locked = new.at + LockSecs
      <4>1. row'.locked # NULL
        BY <1>2, <2>1, <3>1, NullIsNoLogin
      <4> QED
        BY <1>1, <1>2, <2>2, <3>1, <4>1 DEF CountCovers
    <3>2. CASE /\ FailureCount < MaxFailures
               /\ row'.fails = FailureCount /\ row'.locked = NULL
               /\ row.locked # NULL
      <4>1. row'.fails = 1
        BY <3>2 DEF FailureCount
      <4>2. n > 0 /\ failed'[n + 1].at >= failed'[n].at + LockSecs
        BY <1>1, <2>2, <2>6, <3>2
      <4> QED
        BY <1>1, <1>2, <2>2, <3>2, <4>1, <4>2 DEF CountCovers, LockApart
    <3>3. CASE /\ FailureCount < MaxFailures
               /\ row'.fails = FailureCount /\ row'.locked = NULL
               /\ row.locked = NULL
      <4> DEFINE first == n + 1 - row.fails
      <4>1. row'.fails = row.fails + 1 /\ row'.fails < MaxFailures
        BY <3>3 DEF FailureCount
      <4>2. row.fails <= n /\ first \in 1..(n + 1) /\ Len(failed') + 1 - row'.fails = first
        BY <1>1, <1>2, <2>2, <4>1 DEF CountCovers
      <4>3. first = 1 \/ ~Present(first - 1) \/ (first <= n /\ LockApart(first))
        BY <3>3 DEF CountCovers
      <4> HIDE DEF first
      <4>4. \/ first = 1
            \/ ~(/\ failed'[first - 1].logins = Len(accepted')
                 /\ failed'[first - 1].secret = row'.secret)
            \/ first <= Len(failed') /\ failed'[first].at >= failed'[first - 1].at + LockSecs
        <5>1. CASE first = 1
          BY <5>1
        <5>2. CASE first # 1 /\ ~Present(first - 1)
          <6>1. first - 1 \in 1..n
            BY <1>1, <4>2, <5>2
          <6> QED
            BY <2>1, <2>2, <2>4, <5>2, <6>1 DEF Present
        <5>3. CASE first # 1 /\ first <= n /\ LockApart(first)
          <6>1. first - 1 \in 1..n /\ first \in 1..n
            BY <1>1, <4>2, <5>3
          <6> QED
            BY <1>1, <2>2, <5>3, <6>1 DEF LockApart
        <5> QED
          BY <4>3, <5>1, <5>2, <5>3
      <4> QED
        <5>1. row'.fails <= Len(failed')
          BY <1>1, <1>2, <2>2, <4>1, <4>2
        <5> QED
          BY <3>3, <4>1, <4>2, <4>4, <5>1 DEF CountCovers, Present, LockApart
    <3> QED
      BY <2>4, <3>1, <3>2, <3>3
  <2>9. Throttled'
    <3> SUFFICES ASSUME NEW i \in 1..(n + 1),
                        i + MaxFailures <= n + 1,
                        failed'[i].logins = failed'[i + MaxFailures].logins,
                        failed'[i].secret = failed'[i + MaxFailures].secret
                 PROVE  \E j \in (i + 1)..(i + MaxFailures) :
                          failed'[j].at >= failed'[j - 1].at + LockSecs
      BY <2>2 DEF Throttled
    <3>1. i \in 1..n
      BY <1>1, <1>2
    <3>2. CASE i + MaxFailures <= n
      <4>1. i + MaxFailures \in 1..n
        BY <1>1, <1>2, <3>1, <3>2
      <4>2. PICK j \in (i + 1)..(i + MaxFailures) : failed[j].at >= failed[j - 1].at + LockSecs
        BY <1>1, <2>2, <3>1, <3>2, <4>1 DEF Throttled
      <4>3. j \in 1..n /\ j - 1 \in 1..n
        BY <1>1, <1>2, <3>1, <3>2
      <4> QED
        BY <2>2, <4>2, <4>3
    <3>3. CASE i + MaxFailures = n + 1
      <4>1. failed[i].logins = Len(accepted) /\ failed[i].secret = row.secret
        BY <2>2, <2>3, <3>1, <3>3
      <4>2. \A j \in i..n : Present(j)
        BY <1>1, <3>1, <4>1 DEF FailuresOrdered, Present
      <4>3. CASE row.locked # NULL
        BY <1>1, <1>2, <2>2, <2>6, <3>1, <3>3, <4>3
      <4>4. CASE row.locked = NULL
        <5> DEFINE first == n + 1 - row.fails
        <5>1. first \in (i + 1)..(n + 1)
          BY <1>1, <1>2, <3>1, <3>3 DEF CountCovers
        <5>2. first = 1 \/ ~Present(first - 1) \/ (first <= n /\ LockApart(first))
          BY <4>4 DEF CountCovers
        <5> HIDE DEF first
        <5>3. first - 1 \in i..n /\ first # 1
          BY <1>1, <3>1, <5>1
        <5>4. first \in 1..n /\ first - 1 \in 1..n /\ LockApart(first)
          BY <1>1, <3>1, <4>2, <5>1, <5>2, <5>3
        <5> QED
          BY <2>2, <3>3, <5>1, <5>4 DEF LockApart
      <4> QED
        BY <4>3, <4>4
    <3>4. i + MaxFailures <= n \/ i + MaxFailures = n + 1
      BY <1>1, <1>2, <3>1
    <3> QED
      BY <3>2, <3>3, <3>4
  <2> QED
    BY <2>7, <2>8, <2>9
<1>7. CASE LoginCommits
  <2>1. PICK w \in Workers : attempt[w] \in Attempts /\ (Accepts(w) \/ Fails(w))
    BY <1>7 DEF LoginCommits
  <2> QED
    BY <1>5, <1>6, <2>1
<1> HIDE DEF n
<1> QED
  BY <1>3, <1>4, <1>7, CounterSteps

\* Among any MaxFailures + 1 failures counted in a row, with no login and no
\* enrolment between them, two neighbours lie a lock apart, however the guesses race.
THEOREM GuessesAreThrottled == Spec => []Throttled
<1>1. Init => StepsCovered /\ StepsIncrease /\ FailuresOrdered /\ CountCovers /\ Throttled
  BY LoginConstants DEF Init, StepsCovered, StepsIncrease, FailuresOrdered, CountCovers,
     Throttled, OrNone
<1> QED
  BY <1>1, LoginTyped, StepsStep, ThrottledStep, PTL DEF Spec
================================================================================
