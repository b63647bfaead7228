------------------------------ MODULE GrantProofs ------------------------------
(******************************************************************************)
(* Grant administration for every set of callers and commands: what a           *)
(* transaction has read is current while it may write, so every command is one  *)
(* step of GrantPolicy, and the policy's invariants need only be proved for the *)
(* steps of GrantPolicy: a clean audit, a history that explains every grant,    *)
(* and a listing that agrees with the evaluator.                                *)
(******************************************************************************)
EXTENDS GrantAdministration, AuthorizationProofs

--------------------------------------------------------------------------------
(* Tables and their histories *)

\* The part of the type invariant that is about the tables.
TablesTyped ==
  /\ PolicyTypeOK
  /\ durableLog \in Seq(Seq(Events)) /\ Len(durableLog) = Len(durable)
  /\ delegatedLog \in Seq(Seq(Events)) /\ Len(delegatedLog) = Len(delegated)
  /\ now \in Nat

CallersTyped ==
  /\ fresh \subseteq Callers
  /\ command \in [Callers -> OrNull(Commands)]
  /\ plan \in [Callers -> Plans]

\* The type invariant is that of the tables and that of the connections.
LEMMA TypeParts == TypeOK <=> TablesTyped /\ CallersTyped
BY DEF TypeOK, TablesTyped, CallersTyped

\* Rows of a table and the entries of its log have the same positions.
LEMMA Positions ==
  ASSUME TablesTyped
  PROVE  /\ DOMAIN durable = 1..Len(durable) /\ DOMAIN durableLog = DOMAIN durable
         /\ DOMAIN delegated = 1..Len(delegated) /\ DOMAIN delegatedLog = DOMAIN delegated
         /\ Len(durable) \in Nat /\ Len(delegated) \in Nat
         /\ \A i \in DOMAIN durable : durable[i] \in DurableGrants /\ durableLog[i] \in Seq(Events)
         /\ \A i \in DOMAIN delegated :
              delegated[i] \in DelegatedGrants /\ delegatedLog[i] \in Seq(Events)
BY DEF TablesTyped, PolicyTypeOK

\* Changing the status of some rows leaves a table of the same kind.
LEMMA WithStatusTyped ==
  ASSUME NEW Rows, NEW table \in Seq(Rows), NEW rows, NEW status,
         \A row \in Rows : [row EXCEPT !.status = status] \in Rows
  PROVE  /\ WithStatus(table, rows, status) \in Seq(Rows)
         /\ Len(WithStatus(table, rows, status)) = Len(table)
<1> DEFINE row(i) == IF i \in rows THEN [table[i] EXCEPT !.status = status] ELSE table[i]
<1>1. DOMAIN table = 1..Len(table) /\ Len(table) \in Nat
  OBVIOUS
<1>2. \A i \in 1..Len(table) : table[i] \in Rows
  OBVIOUS
<1>3. \A i \in 1..Len(table) : row(i) \in Rows
  BY <1>2
<1>4. WithStatus(table, rows, status) = [i \in 1..Len(table) |-> row(i)]
  BY <1>1 DEF WithStatus
<1> HIDE DEF row
<1>5. WithStatus(table, rows, status) \in [1..Len(table) -> Rows]
  BY <1>3, <1>4
<1> QED
  BY <1>1, <1>5, SeqDef

\* Appending an event to some histories leaves histories.
LEMMA LoggedTyped ==
  ASSUME NEW log \in Seq(Seq(Events)), NEW rows, NEW event \in Events
  PROVE  /\ Logged(log, rows, event) \in Seq(Seq(Events))
         /\ Len(Logged(log, rows, event)) = Len(log)
<1> DEFINE entry(i) == IF i \in rows THEN Append(log[i], event) ELSE log[i]
<1>1. DOMAIN log = 1..Len(log) /\ Len(log) \in Nat
  OBVIOUS
<1>2. \A i \in 1..Len(log) : log[i] \in Seq(Events)
  OBVIOUS
<1>3. \A i \in 1..Len(log) : entry(i) \in Seq(Events)
  BY <1>2
<1>4. Logged(log, rows, event) = [i \in 1..Len(log) |-> entry(i)]
  BY <1>1 DEF Logged
<1> HIDE DEF entry
<1>5. Logged(log, rows, event) \in [1..Len(log) -> Seq(Events)]
  BY <1>3, <1>4
<1> QED
  BY <1>1, <1>5, SeqDef

\* Events of the four commands are events.
LEMMA EventTyped ==
  ASSUME NEW a \in OrNull(Actors)
  PROVE  /\ Event("create", NULL, "active", a) \in Events
         /\ Event("reactivate", "inactive", "active", a) \in Events
         /\ Event("deactivate", "active", "inactive", a) \in Events
BY DEF Event, Events

\* Changing a status keeps a row a row.
LEMMA RowsWithStatus ==
  ASSUME NEW status \in {"active", "inactive"}
  PROVE  /\ \A row \in DurableGrants : [row EXCEPT !.status = status] \in DurableGrants
         /\ \A row \in DelegatedGrants : [row EXCEPT !.status = status] \in DelegatedGrants
BY DEF DurableGrants, DelegatedGrants

\* A scope's rows are positions of the table.
LEMMA ScopeRowsPositions ==
  ASSUME TablesTyped, NEW scope
  PROVE  /\ ScopeRows(scope) \subseteq DOMAIN durable /\ ScopeRows(scope) \subseteq Nat
         /\ ActiveRows(scope) \subseteq ScopeRows(scope)
         /\ ScopeRows(scope) # {} => LeastId(ScopeRows(scope)) \in ScopeRows(scope)
<1>1. ScopeRows(scope) \subseteq DOMAIN durable
  BY DEF ScopeRows
<1>2. ScopeRows(scope) \subseteq Nat
  BY <1>1, Positions
<1>3. ActiveRows(scope) \subseteq ScopeRows(scope)
  BY DEF ActiveRows
<1> QED
  BY <1>1, <1>2, <1>3, LeastIdInSet

--------------------------------------------------------------------------------
(* Steps of GrantPolicy *)

\* A grant that is created, reactivated or left alone; the tables stay typed.
LEMMA GrantDurableTables ==
  ASSUME TablesTyped, NEW a \in OrNull(Actors), NEW g \in DurableSpecs,
         GrantDurable(a, g)
  PROVE  /\ durable' \in Seq(DurableGrants)
         /\ durableLog' \in Seq(Seq(Events)) /\ Len(durableLog') = Len(durable')
<1>1. g \in DurableGrants
  BY SpecsTyped
<1>2. durable' \in Seq(DurableGrants)
  BY <1>1, DurableAfterCreateTyped DEF GrantDurable, TablesTyped
<1>3. CASE ScopeActive(g)
  BY <1>2, <1>3 DEF GrantDurable, DurableAfterCreate, TablesTyped
<1>4. CASE ~ScopeActive(g) /\ ScopeRows(g) # {}
  <2>1. Len(durable') = Len(durable)
    <3>1. LeastId(ScopeRows(g)) \in DOMAIN durable
      BY <1>4, ScopeRowsPositions
    <3>2. durable' = [durable EXCEPT ![LeastId(ScopeRows(g))].status = "active"]
      BY <1>4 DEF GrantDurable, DurableAfterCreate
    <3>3. DOMAIN durable' = DOMAIN durable
      BY <3>2
    <3> QED
      BY <1>2, <3>3, Positions, LenProperties DEF TablesTyped, PolicyTypeOK
  <2>2. durableLog' = Logged(durableLog, {LeastId(ScopeRows(g))},
                             Event("reactivate", "inactive", "active", a))
    BY <1>4 DEF GrantDurable
  <2> QED
    BY <1>2, <2>1, <2>2, LoggedTyped, EventTyped DEF TablesTyped
<1>5. CASE ~ScopeActive(g) /\ ScopeRows(g) = {}
  <2>1. durable' = Append(durable, g)
    BY <1>5 DEF GrantDurable, DurableAfterCreate
  <2>2. durableLog' = Append(durableLog, <<Event("create", NULL, "active", a)>>)
    BY <1>5 DEF GrantDurable
  <2>3. <<Event("create", NULL, "active", a)>> \in Seq(Events)
    BY EventTyped
  <2> QED
    BY <1>1, <2>1, <2>2, <2>3 DEF TablesTyped, PolicyTypeOK
<1> QED
  BY <1>3, <1>4, <1>5

\* Every step of GrantPolicy keeps the tables and their histories typed.
LEMMA PolicyStepTyped == TablesTyped /\ [PolicyNext]_policyVars => TablesTyped'
<1> SUFFICES ASSUME TablesTyped, [PolicyNext]_policyVars PROVE TablesTyped'
  OBVIOUS
<1>1. ASSUME NEW a \in OrNull(Actors), NEW g \in DurableSpecs, GrantDurable(a, g)
      PROVE  TablesTyped'
  BY <1>1, GrantDurableTables DEF GrantDurable, TablesTyped, PolicyTypeOK
<1>2. ASSUME NEW a \in OrNull(Actors), NEW id \in DOMAIN durable, RevokeDurable(a, id)
      PROVE  TablesTyped'
  <2>1. durable' \in Seq(DurableGrants)
    BY <1>2, DurableAfterDeactivateTyped DEF RevokeDurable, TablesTyped
  <2>2. DOMAIN durable' = DOMAIN durable
    BY <1>2 DEF RevokeDurable, DurableAfterDeactivate
  <2>3. Len(durable') = Len(durable)
    BY <2>1, <2>2, LenProperties DEF TablesTyped, PolicyTypeOK
  <2>4. /\ durableLog' \in Seq(Seq(Events))
        /\ Len(durableLog') = Len(durableLog)
    BY <1>2, LoggedTyped, EventTyped DEF RevokeDurable, TablesTyped
  <2> QED
    BY <1>2, <2>1, <2>3, <2>4 DEF RevokeDurable, TablesTyped, PolicyTypeOK
<1>3. ASSUME NEW a \in OrNull(Actors), NEW g \in DelegatedSpecs, GrantDelegated(a, g)
      PROVE  TablesTyped'
  <2>1. g \in DelegatedGrants
    BY SpecsTyped
  <2>2. <<Event("create", NULL, "active", a)>> \in Seq(Events)
    BY <1>3, EventTyped
  <2>3. /\ delegated' \in Seq(DelegatedGrants)
        /\ Len(delegated') = Len(delegated) + 1
    BY <1>3, <2>1, DelegatedAfterCreateTyped DEF GrantDelegated, TablesTyped
  <2>4. /\ delegatedLog' \in Seq(Seq(Events))
        /\ Len(delegatedLog') = Len(delegatedLog) + 1
    BY <1>3, <2>2 DEF GrantDelegated, TablesTyped
  <2> QED
    BY <1>3, <2>3, <2>4 DEF GrantDelegated, TablesTyped, PolicyTypeOK
<1>4. ASSUME NEW a \in OrNull(Actors), NEW id \in DOMAIN delegated, RevokeDelegated(a, id)
      PROVE  TablesTyped'
  <2>1. /\ delegated' \in Seq(DelegatedGrants)
        /\ Len(delegated') = Len(delegated)
    BY <1>4, DelegatedAfterDeactivateTyped DEF RevokeDelegated, TablesTyped
  <2>2. /\ delegatedLog' \in Seq(Seq(Events))
        /\ Len(delegatedLog') = Len(delegatedLog)
    BY <1>4, LoggedTyped, EventTyped DEF RevokeDelegated, TablesTyped
  <2> QED
    BY <1>4, <2>1, <2>2 DEF RevokeDelegated, TablesTyped, PolicyTypeOK
<1>5. ASSUME NEW p \in Participants, ChangeParticipant(p)
      PROVE  TablesTyped'
  BY <1>5 DEF ChangeParticipant, TablesTyped, PolicyTypeOK
<1>6. CASE PassTime
  BY <1>6 DEF PassTime, TablesTyped, PolicyTypeOK, policy
<1>7. CASE UNCHANGED policyVars
  BY <1>7 DEF policyVars, policy, TablesTyped, PolicyTypeOK
<1> QED
  BY <1>1, <1>2, <1>3, <1>4, <1>5, <1>6, <1>7 DEF PolicyNext

--------------------------------------------------------------------------------
(* Every step of GrantAdministration is one of GrantPolicy *)

\* What a caller that may write holds: a command and the plan for it.
LEMMA WriterHolds ==
  ASSUME TypeOK, PlanCurrent, NEW w \in Callers, NEW op, NEW write, Writing(w, op, write)
  PROVE  /\ w \in fresh
         /\ command[w] \in Commands /\ command[w] \in CommandType
         /\ command[w].op = op
         /\ command[w].actor \in OrNull(Actors)
         /\ Permitted(command[w].actor)
         /\ plan[w] = PlanFor(command[w]) /\ plan[w].write = write
<1>1. w \in fresh /\ command[w] # NULL /\ command[w].op = op /\ plan[w].write = write
  BY DEF Writing, CanWrite
<1>2. command[w] \in Commands
  BY <1>1 DEF TypeOK, OrNull
<1>3. command[w] \in CommandType
  BY <1>2, CommandsTyped
<1> QED
  BY <1>1, <1>2, <1>3 DEF PlanCurrent, CommandType

\* A row reactivated by its id, and a row whose status was inactive already.
LEMMA WithStatusOne ==
  ASSUME NEW table, NEW id \in DOMAIN table, NEW status,
         table = [i \in DOMAIN table |-> table[i]]
  PROVE  WithStatus(table, {id}, status) = [table EXCEPT ![id].status = status]
BY DEF WithStatus

\* Deactivating a scope's active rows deactivates the scope.
LEMMA WithStatusScope ==
  ASSUME TablesTyped, NEW id \in DOMAIN durable
  PROVE  WithStatus(durable, ActiveRows(durable[id]), "inactive") = DurableAfterDeactivate(id)
<1> DEFINE new == [i \in DOMAIN durable |->
                     IF i \in ActiveRows(durable[id])
                       THEN [durable[i] EXCEPT !.status = "inactive"] ELSE durable[i]]
           old == [i \in DOMAIN durable |->
                     IF SameScope(durable[i], durable[id])
                       THEN [durable[i] EXCEPT !.status = "inactive"] ELSE durable[i]]
<1>1. ASSUME NEW i \in DOMAIN durable PROVE new[i] = old[i]
  <2>1. CASE SameScope(durable[i], durable[id]) /\ durable[i].status = "active"
    BY <1>1, <2>1 DEF ActiveRows, ScopeRows
  <2>2. CASE ~SameScope(durable[i], durable[id])
    BY <1>1, <2>2 DEF ActiveRows, ScopeRows
  <2>3. CASE SameScope(durable[i], durable[id]) /\ durable[i].status # "active"
    <3>1. durable[i] \in DurableGrants /\ durable[i].status = "inactive"
      BY <1>1, <2>3, Positions DEF DurableGrants
    <3>2. [durable[i] EXCEPT !.status = "inactive"] = durable[i]
      BY <3>1 DEF DurableGrants
    <3> QED
      BY <1>1, <2>3, <3>2 DEF ActiveRows
  <2> QED
    BY <2>1, <2>2, <2>3
<1>2. new = old
  BY <1>1
<1> QED
  BY <1>2 DEF WithStatus, DurableAfterDeactivate

\* The plan of a command: what was read decides what is written.
LEMMA PlanKinds ==
  ASSUME NEW c
  PROVE  /\ c.op = "create_durable" /\ ScopeRows(c.grant) # {} =>
              PlanFor(c) = [write |-> "reactivate", rows |-> {LeastId(ScopeRows(c.grant))},
                            before |-> "inactive"]
         /\ c.op = "create_durable" /\ ScopeRows(c.grant) = {} => PlanFor(c) = NoPlan
         /\ c.op = "create_delegated" => PlanFor(c) = NoPlan
         /\ c.op = "deactivate_durable" =>
              PlanFor(c) = [write |-> "deactivate", rows |-> ActiveRows(durable[c.id]),
                            before |-> "active"]
         /\ c.op = "deactivate_delegated" =>
              PlanFor(c) = [write |-> "deactivate", rows |-> {c.id},
                            before |-> delegated[c.id].status]
BY DEF PlanFor, NoPlan

\* A write of a transaction whose reads are current is a command of GrantPolicy.
LEMMA WriteRefines ==
  ASSUME TypeOK, PlanCurrent, NEW w \in Callers, Write(w)
  PROVE  [PolicyNext]_policyVars
<1> DEFINE c == command[w]
           a == command[w].actor
<1>0. TablesTyped
  BY TypeParts
<1>1. CASE InsertDurable(w)
  <2>1. Writing(w, "create_durable", "insert")
    BY <1>1 DEF InsertDurable
  <2>2. /\ w \in fresh /\ c \in Commands /\ c.op = "create_durable"
        /\ a \in OrNull(Actors) /\ Permitted(a)
        /\ plan[w] = PlanFor(c) /\ plan[w].write = "insert"
    BY <2>1, WriterHolds
  <2>3. ScopeRows(c.grant) = {}
    BY <2>2, PlanKinds
  <2>4. ~ScopeActive(c.grant) /\ participants[c.grant.participant].status = "active"
    BY <2>2 DEF PlanCurrent
  <2>5. c.grant \in DurableSpecs
    BY <2>2, CommandsTyped
  <2>6. GrantDurable(a, c.grant)
    BY <1>1, <2>2, <2>3, <2>4 DEF InsertDurable, GrantDurable, DurableAfterCreate, Commit
  <2> QED
    BY <2>2, <2>5, <2>6 DEF PolicyNext
<1>2. CASE ReactivateDurable(w)
  <2>1. Writing(w, "create_durable", "reactivate")
    BY <1>2 DEF ReactivateDurable
  <2>2. /\ w \in fresh /\ c \in Commands /\ c.op = "create_durable"
        /\ a \in OrNull(Actors) /\ Permitted(a)
        /\ plan[w] = PlanFor(c) /\ plan[w].write = "reactivate"
    BY <2>1, WriterHolds
  <2>3. ScopeRows(c.grant) # {}
    BY <2>2, PlanKinds DEF NoPlan
  <2>4. ~ScopeActive(c.grant) /\ participants[c.grant.participant].status = "active"
    BY <2>2 DEF PlanCurrent
  <2>5. c.grant \in DurableSpecs
    BY <2>2, CommandsTyped
  <2> DEFINE id == LeastId(ScopeRows(c.grant))
  <2>6. plan[w].rows = {id} /\ plan[w].before = "inactive"
    BY <2>2, <2>3, PlanKinds
  <2>7. id \in DOMAIN durable
    BY <1>0, <2>3, ScopeRowsPositions
  <2>8. durable = [i \in DOMAIN durable |-> durable[i]]
    BY <1>0 DEF TablesTyped, PolicyTypeOK
  <2>9. WithStatus(durable, {id}, "active") = [durable EXCEPT ![id].status = "active"]
    <3> HIDE DEF id
    <3> QED
      BY <2>7, <2>8, WithStatusOne
  <2>10. durable' = DurableAfterCreate(c.grant)
    BY <1>2, <2>3, <2>4, <2>6, <2>9 DEF ReactivateDurable, DurableAfterCreate
  <2>11. GrantDurable(a, c.grant)
    BY <1>2, <2>2, <2>3, <2>4, <2>6, <2>10 DEF ReactivateDurable, GrantDurable, Commit
  <2> QED
    BY <2>2, <2>5, <2>11 DEF PolicyNext
<1>3. CASE DeactivateDurable(w)
  <2>1. Writing(w, "deactivate_durable", "deactivate")
    BY <1>3 DEF DeactivateDurable
  <2>2. /\ w \in fresh /\ c \in Commands /\ c.op = "deactivate_durable"
        /\ a \in OrNull(Actors) /\ Permitted(a)
        /\ plan[w] = PlanFor(c) /\ plan[w].write = "deactivate"
    BY <2>1, WriterHolds
  <2>3. c.id \in DOMAIN durable
    BY <2>2 DEF PlanCurrent
  <2>4. plan[w].rows = ActiveRows(durable[c.id]) /\ plan[w].before = "active"
    BY <2>2, PlanKinds
  <2>5. durable' = DurableAfterDeactivate(c.id)
    BY <1>0, <1>3, <2>3, WithStatusScope DEF DeactivateDurable, Updated
  <2>6. RevokeDurable(a, c.id)
    BY <1>3, <2>2, <2>3, <2>4, <2>5 DEF DeactivateDurable, RevokeDurable, Commit
  <2> QED
    BY <2>2, <2>3, <2>6 DEF PolicyNext
<1>4. CASE InsertDelegated(w)
  <2>1. Writing(w, "create_delegated", "insert")
    BY <1>4 DEF InsertDelegated
  <2>2. /\ w \in fresh /\ c \in Commands /\ c.op = "create_delegated"
        /\ a \in OrNull(Actors) /\ Permitted(a)
    BY <2>1, WriterHolds
  <2>3. /\ participants[c.grant.participant].status = "active"
        /\ c.grant.expires = NULL \/ \E t \in 0..now : c.grant.expires > t
    BY <2>2 DEF PlanCurrent
  <2>4. c.grant \in DelegatedSpecs
    BY <2>2, CommandsTyped
  <2>5. GrantDelegated(a, c.grant)
    BY <1>4, <2>2, <2>3 DEF InsertDelegated, GrantDelegated, DelegatedAfterCreate, Commit
  <2> QED
    BY <2>2, <2>4, <2>5 DEF PolicyNext
<1>5. CASE DeactivateDelegated(w)
  <2>1. Writing(w, "deactivate_delegated", "deactivate")
    BY <1>5 DEF DeactivateDelegated
  <2>2. /\ w \in fresh /\ c \in Commands /\ c.op = "deactivate_delegated"
        /\ a \in OrNull(Actors) /\ Permitted(a)
        /\ plan[w] = PlanFor(c)
    BY <2>1, WriterHolds
  <2>3. c.id \in DOMAIN delegated
    BY <2>2 DEF PlanCurrent
  <2>4. plan[w].rows = {c.id} /\ plan[w].before = delegated[c.id].status
    BY <2>2, PlanKinds
  <2>5. delegated = [i \in DOMAIN delegated |-> delegated[i]]
    BY <1>0 DEF TablesTyped, PolicyTypeOK
  <2>6. delegatedLog = [i \in DOMAIN delegatedLog |-> delegatedLog[i]]
    BY <1>0 DEF TablesTyped
  <2>7. CASE delegated[c.id].status = "inactive"
    <3>1. {i \in plan[w].rows : delegated[i].status # "inactive"} = {}
      BY <2>4, <2>7
    <3>2. delegated' = delegated /\ delegatedLog' = delegatedLog
      BY <1>5, <2>5, <2>6, <3>1 DEF DeactivateDelegated, WithStatus, Logged
    <3> QED
      BY <1>5, <3>2 DEF DeactivateDelegated, Commit, policyVars, policy
  <2>8. CASE delegated[c.id].status = "active"
    <3>1. {i \in plan[w].rows : delegated[i].status # "inactive"} = {c.id}
      BY <2>4, <2>8
    <3>2. delegated' = DelegatedAfterDeactivate(c.id)
      BY <1>5, <2>3, <2>5, <3>1, WithStatusOne
         DEF DeactivateDelegated, DelegatedAfterDeactivate
    <3>3. RevokeDelegated(a, c.id)
      BY <1>5, <2>2, <2>3, <2>4, <2>8, <3>1, <3>2
         DEF DeactivateDelegated, RevokeDelegated, Commit
    <3> QED
      BY <2>2, <2>3, <3>3 DEF PolicyNext
  <2> QED
    BY <1>0, <2>3, <2>7, <2>8, Positions DEF DelegatedGrants
<1> QED
  BY <1>1, <1>2, <1>3, <1>4, <1>5 DEF Write

\* Every other step leaves the tables alone or changes a participant or the clock.
LEMMA StepRefines ==
  TypeOK /\ PlanCurrent /\ [Next]_vars => [PolicyNext]_policyVars
<1> SUFFICES ASSUME TypeOK, PlanCurrent, [Next]_vars PROVE [PolicyNext]_policyVars
  OBVIOUS
<1>1. ASSUME NEW w \in Callers, NEW c \in Commands, Begin(w, c)
      PROVE  UNCHANGED policyVars
  BY <1>1 DEF Begin
<1>2. ASSUME NEW w \in Callers, Write(w) PROVE [PolicyNext]_policyVars
  BY <1>2, WriteRefines
<1>3. ASSUME NEW w \in Callers, Fail(w) PROVE UNCHANGED policyVars
  BY <1>3 DEF Fail
<1>4. ASSUME NEW p \in Participants, NEW row \in ParticipantRows,
             row.status # "missing", ParticipantCommit(p, row)
      PROVE  PolicyNext
  BY <1>4 DEF ParticipantCommit, ChangeParticipant, PolicyNext
<1>5. ASSUME NEW p \in Participants PROVE participants[p] \in ParticipantRows
  BY <1>5 DEF TypeOK, PolicyTypeOK
<1>6. ASSUME NEW p \in Participants, Provision(p) PROVE PolicyNext
  <2>1. [status |-> "active", role |-> "user", owner |-> NULL] \in ParticipantRows
    BY DEF ParticipantRows, OrNull
  <2> QED
    BY <1>4, <1>6, <2>1 DEF Provision
<1>7. ASSUME NEW p \in Participants, NEW r \in {"user", "admin"}, SetRole(p, r)
      PROVE  PolicyNext
  <2>1. [participants[p] EXCEPT !.role = r] \in ParticipantRows
    BY <1>5, <1>7 DEF ParticipantRows
  <2>2. [participants[p] EXCEPT !.role = r].status # "missing"
    BY <1>5, <1>7 DEF SetRole, ParticipantRows
  <2> QED
    BY <1>4, <1>7, <2>1, <2>2 DEF SetRole
<1>8. ASSUME NEW p \in Participants, NEW s \in {"active", "inactive"}, SetStatus(p, s)
      PROVE  PolicyNext
  <2>1. [participants[p] EXCEPT !.status = s] \in ParticipantRows
    BY <1>5, <1>8 DEF ParticipantRows
  <2>2. [participants[p] EXCEPT !.status = s].status # "missing"
    BY <1>5, <1>8 DEF ParticipantRows
  <2> QED
    BY <1>4, <1>8, <2>1, <2>2 DEF SetStatus
<1>9. CASE Tick
  BY <1>9 DEF Tick, PolicyNext, PassTime
<1>10. CASE UNCHANGED vars
  BY <1>10 DEF vars
<1> QED
  BY <1>1, <1>2, <1>3, <1>6, <1>7, <1>8, <1>9, <1>10 DEF Next

--------------------------------------------------------------------------------
(* What was read is current *)

\* PlanCurrent for one caller.
PlanHolds(w) ==
  /\ command[w] # NULL
  /\ Permitted(command[w].actor)
  /\ plan[w] = PlanFor(command[w])
  /\ command[w].op \in {"create_durable", "create_delegated"} =>
       participants[command[w].grant.participant].status = "active"
  /\ command[w].op = "create_durable" => ~ScopeActive(command[w].grant)
  /\ command[w].op = "create_delegated" =>
       command[w].grant.expires = NULL \/ \E t \in 0..now : command[w].grant.expires > t
  /\ command[w].op = "deactivate_durable" => command[w].id \in DOMAIN durable
  /\ command[w].op = "deactivate_delegated" => command[w].id \in DOMAIN delegated

\* Authority without an intent is a matter of the tables, not of the clock.
LEMMA PermittedFrame ==
  ASSUME UNCHANGED policy, NEW a
  PROVE  Permitted(a)' <=> Permitted(a)
<1>1. UNCHANGED <<participants, durable, delegated>>
  BY DEF policy
<1>2. ASSUME NEW pr, NEW pa, NEW c, NEW r
      PROVE  Evaluate(pr, pa, c, r, NULL, now, FALSE)' = Evaluate(pr, pa, c, r, NULL, now, FALSE)
  BY <1>1 DEF Evaluate, ExplicitGrants, ExplicitMatches, FirstExplicit, LeastId, Prefer,
              ImplicitReason, Allow, Deny
<1> QED
  BY <1>2 DEF Permitted

\* The plan for a command is a matter of the tables.
LEMMA PlanFrame ==
  ASSUME UNCHANGED policy, NEW c
  PROVE  /\ PlanFor(c)' = PlanFor(c)
         /\ ScopeActive(c.grant)' <=> ScopeActive(c.grant)
<1>1. UNCHANGED <<participants, durable, delegated>>
  BY DEF policy
<1> QED
  BY <1>1 DEF PlanFor, NoPlan, ScopeRows, ActiveRows, ScopeActive, SameScope, LeastId

\* A caller that keeps its command and plan while the tables stay as they are.
LEMMA PlanKept ==
  ASSUME NEW w, PlanHolds(w), UNCHANGED policy, now \in Nat, now' \in {now, now + 1},
         command'[w] = command[w], plan'[w] = plan[w]
  PROVE  PlanHolds(w)'
<1>1. UNCHANGED <<participants, durable, delegated>>
  BY DEF policy
<1>2. PICK c : c = command[w]
  OBVIOUS
<1>3. PICK a : a = c.actor
  OBVIOUS
<1>4. command'[w] = c /\ command'[w].actor = a
  BY <1>2, <1>3
<1>5. Permitted(command[w].actor)'
  BY <1>2, <1>3, <1>4, PermittedFrame DEF PlanHolds
<1>6. /\ plan'[w] = PlanFor(c)'
      /\ c.op = "create_durable" => ~ScopeActive(c.grant)'
  BY <1>2, PlanFrame DEF PlanHolds
<1>7. c.op = "create_delegated" =>
        c.grant.expires = NULL \/ \E t \in 0..now' : c.grant.expires > t
  BY <1>2 DEF PlanHolds
<1> QED
  BY <1>1, <1>2, <1>4, <1>5, <1>6, <1>7 DEF PlanHolds

\* The reads of a command make its plan.
LEMMA PlanMade ==
  ASSUME TypeOK, NEW w \in Callers, NEW c \in Commands, Begin(w, c)
  PROVE  PlanHolds(w)'
<1>1. UNCHANGED policy /\ now' = now /\ now \in Nat
  BY DEF Begin, policyVars, TypeOK
<1>2. command'[w] = c /\ plan'[w] = PlanFor(c)
  BY DEF Begin, TypeOK
<1>3. c # NULL
  BY NullIsNoCommand
<1>4. PICK a : a = c.actor
  OBVIOUS
<1>5. Permitted(command[w].actor)'
  BY <1>1, <1>2, <1>4, PermittedFrame DEF Begin
<1>6. plan'[w] = PlanFor(c)' /\ (c.op = "create_durable" => ~ScopeActive(c.grant)')
  BY <1>1, <1>2, PlanFrame DEF Begin
<1>7. c.op = "create_delegated" =>
        c.grant.expires = NULL \/ \E t \in 0..now : c.grant.expires > t
  BY <1>1 DEF Begin, TargetAccepted
<1>8. UNCHANGED <<participants, durable, delegated>>
  BY <1>1 DEF policy
<1> QED
  BY <1>1, <1>2, <1>3, <1>5, <1>6, <1>7, <1>8 DEF PlanHolds, Begin, TargetAccepted

\* A commit that changed no row leaves the tables as they were.
LEMMA CommitKeeps ==
  ASSUME TypeOK, PlanCurrent, NEW w \in Callers, Write(w)
  PROVE  fresh' = {} \/ (UNCHANGED <<policy, now>> /\ fresh' = fresh \ {w} /\ Done(w))
<1>0. TablesTyped
  BY TypeParts
<1>1. CASE InsertDurable(w)
  BY <1>1 DEF InsertDurable, Commit
<1>2. CASE ReactivateDurable(w)
  BY <1>2 DEF ReactivateDurable, Commit
<1>3. CASE DeactivateDurable(w)
  <2>1. CASE Updated(w) = {}
    <3>1. durable' = [i \in DOMAIN durable |-> durable[i]]
      BY <1>3, <2>1 DEF DeactivateDurable, WithStatus
    <3>2. durable' = durable
      BY <1>0, <3>1 DEF TablesTyped, PolicyTypeOK
    <3> QED
      BY <1>3, <3>2 DEF DeactivateDurable, Commit, policy
  <2> QED
    BY <1>3, <2>1 DEF DeactivateDurable, Commit
<1>4. CASE InsertDelegated(w)
  BY <1>4 DEF InsertDelegated, Commit
<1>5. CASE DeactivateDelegated(w)
  <2> DEFINE updated == {i \in plan[w].rows : delegated[i].status # "inactive"}
  <2>1. CASE updated = {}
    <3>1. delegated' = [i \in DOMAIN delegated |-> delegated[i]]
      BY <1>5, <2>1 DEF DeactivateDelegated, WithStatus
    <3>2. delegated' = delegated
      BY <1>0, <3>1 DEF TablesTyped, PolicyTypeOK
    <3> QED
      BY <1>5, <3>2 DEF DeactivateDelegated, Commit, policy
  <2> QED
    BY <1>5, <2>1 DEF DeactivateDelegated, Commit
<1> QED
  BY <1>1, <1>2, <1>3, <1>4, <1>5 DEF Write

\* A step that leaves a snapshot the last commit leaves what was read in it true.
LEMMA PlanStep == TypeOK /\ PlanCurrent /\ [Next]_vars => PlanCurrent'
<1> SUFFICES ASSUME TypeOK, PlanCurrent, [Next]_vars,
                    NEW w \in fresh'
             PROVE  PlanHolds(w)'
  BY DEF PlanCurrent, PlanHolds
<1>1. now \in Nat /\ fresh \subseteq Callers
  BY DEF TypeOK
<1>2. w \in fresh => PlanHolds(w)
  BY DEF PlanCurrent, PlanHolds
<1>3. ASSUME NEW v \in Callers, NEW c \in Commands, Begin(v, c) PROVE PlanHolds(w)'
  <2>1. CASE w = v
    BY <1>3, <2>1, PlanMade
  <2>2. CASE w # v
    <3>1. w \in fresh /\ command'[w] = command[w] /\ plan'[w] = plan[w]
      BY <1>1, <1>3, <2>2 DEF Begin, TypeOK
    <3>2. UNCHANGED policy /\ now' = now
      BY <1>3 DEF Begin, policyVars
    <3> QED
      BY <1>1, <1>2, <3>1, <3>2, PlanKept
  <2> QED
    BY <2>1, <2>2
<1>4. ASSUME NEW v \in Callers, UNCHANGED <<policy, now>>, fresh' = fresh \ {v}, Done(v)
      PROVE  PlanHolds(w)'
  <2>1. w \in fresh /\ w # v /\ command'[w] = command[w] /\ plan'[w] = plan[w]
    BY <1>1, <1>4 DEF Done, TypeOK
  <2> QED
    BY <1>1, <1>2, <1>4, <2>1, PlanKept
<1>5. ASSUME NEW v \in Callers, Write(v) PROVE PlanHolds(w)'
  BY <1>4, <1>5, CommitKeeps
<1>6. ASSUME NEW v \in Callers, Fail(v) PROVE PlanHolds(w)'
  BY <1>4, <1>6 DEF Fail, policyVars
<1>7. ASSUME NEW p, NEW row, ParticipantCommit(p, row) PROVE PlanHolds(w)'
  BY <1>7 DEF ParticipantCommit
<1>8. CASE Tick
  BY <1>1, <1>2, <1>8, PlanKept DEF Tick
<1>9. CASE UNCHANGED vars
  BY <1>1, <1>2, <1>9, PlanKept DEF vars, policyVars
<1> QED
  BY <1>3, <1>5, <1>6, <1>7, <1>8, <1>9 DEF Next, Provision, SetRole, SetStatus

--------------------------------------------------------------------------------
(* Type correctness, current plans and refinement *)

\* A plan is a plan: it names rows of the tables.
LEMMA PlanForTyped ==
  ASSUME TablesTyped, NEW c \in Commands, TargetAccepted(c)
  PROVE  PlanFor(c) \in Plans
<1>1. c \in CommandType /\ c.op \in Operations /\ c.id \in Nat
  BY CommandsTyped DEF CommandType
<1>2. CASE c.op = "create_durable"
  <2>1. ScopeRows(c.grant) # {} => LeastId(ScopeRows(c.grant)) \in Nat
    BY ScopeRowsPositions
  <2> QED
    BY <1>2, <2>1, PlanKinds DEF NoPlan, Plans
<1>3. CASE c.op = "create_delegated"
  BY <1>3, PlanKinds DEF NoPlan, Plans
<1>4. CASE c.op = "deactivate_durable"
  <2>1. ActiveRows(durable[c.id]) \subseteq Nat
    BY ScopeRowsPositions
  <2> QED
    BY <1>4, <2>1, PlanKinds DEF Plans
<1>5. CASE c.op = "deactivate_delegated"
  <2>1. delegated[c.id].status \in {"active", "inactive"}
    BY <1>5, Positions DEF TargetAccepted, DelegatedGrants
  <2> QED
    BY <1>1, <1>5, <2>1, PlanKinds DEF Plans
<1> QED
  BY <1>1, <1>2, <1>3, <1>4, <1>5 DEF Operations

\* Ending a command leaves its caller without one.
LEMMA DoneTyped ==
  ASSUME CallersTyped, NEW w \in Callers, Done(w), fresh' \subseteq fresh
  PROVE  CallersTyped'
<1>1. NoPlan \in Plans
  BY DEF NoPlan, Plans
<1> QED
  BY <1>1 DEF CallersTyped, Done, OrNull

\* Empty tables and idle connections.
LEMMA TypeInit == Init => TypeOK /\ PlanCurrent
<1> SUFFICES ASSUME Init PROVE TypeOK /\ PlanCurrent
  OBVIOUS
<1>1. TablesTyped
  <2>1. participants \in [Participants -> ParticipantRows]
    BY DEF Init, PolicyInit, ParticipantRows, OrNull
  <2>2. durable = <<>> /\ delegated = <<>> /\ durableLog = <<>> /\ delegatedLog = <<>>
    BY DEF Init, PolicyInit
  <2>3. now \in Nat
    BY DEF Init, PolicyInit
  <2> QED
    BY <2>1, <2>2, <2>3 DEF TablesTyped, PolicyTypeOK
<1>2. NoPlan \in Plans
  BY DEF NoPlan, Plans
<1>3. CallersTyped
  BY <1>2 DEF Init, CallersTyped, OrNull
<1> QED
  BY <1>1, <1>3, TypeParts DEF Init, PlanCurrent

\* No command, commit of somebody else or tick of the clock leaves the types.
LEMMA TypeStep == TypeOK /\ PlanCurrent /\ [Next]_vars => TypeOK'
<1> SUFFICES ASSUME TypeOK, PlanCurrent, [Next]_vars PROVE TypeOK'
  OBVIOUS
<1>1. TablesTyped /\ CallersTyped
  BY TypeParts
<1>2. TablesTyped'
  BY <1>1, StepRefines, PolicyStepTyped
<1>3. ASSUME NEW w \in Callers, NEW c \in Commands, Begin(w, c) PROVE CallersTyped'
  BY <1>1, <1>3, PlanForTyped DEF Begin, CallersTyped, OrNull
<1>4. ASSUME NEW w \in Callers, Write(w) \/ Fail(w) PROVE CallersTyped'
  <2>1. Done(w) /\ fresh' \subseteq fresh
    BY <1>4 DEF Write, Fail, InsertDurable, ReactivateDurable, DeactivateDurable,
                InsertDelegated, DeactivateDelegated, Commit
  <2> QED
    BY <1>1, <2>1, DoneTyped
<1>5. ASSUME NEW p, NEW row, ParticipantCommit(p, row) PROVE CallersTyped'
  BY <1>1, <1>5 DEF ParticipantCommit, CallersTyped
<1>6. ASSUME UNCHANGED <<fresh, command, plan>> PROVE CallersTyped'
  BY <1>1, <1>6 DEF CallersTyped
<1>7. CallersTyped'
  <2>1. CASE Next
    BY <1>3, <1>4, <1>5, <1>6, <2>1 DEF Next, Provision, SetRole, SetStatus, Tick
  <2>2. CASE UNCHANGED vars
    BY <1>6, <2>2 DEF vars
  <2> QED
    BY <2>1, <2>2
<1>8. TypeOK' <=> TablesTyped' /\ CallersTyped'
  BY DEF TypeOK, TablesTyped, CallersTyped
<1> QED
  BY <1>2, <1>7, <1>8

\* The tables, their histories and what the callers hold are always well formed.
THEOREM AdministrationTyped == Spec => []TypeOK
<1>1. Spec => [](TypeOK /\ PlanCurrent)
  BY TypeInit, TypeStep, PlanStep, PTL DEF Spec
<1> QED
  BY <1>1, PTL

\* A transaction of authorization_admin.rs that may still write has read nothing
\* that another commit has changed: actor, target participant and rows.
THEOREM PlansCurrent == Spec => []PlanCurrent
<1>1. Spec => [](TypeOK /\ PlanCurrent)
  BY TypeInit, TypeStep, PlanStep, PTL DEF Spec
<1> QED
  BY <1>1, PTL

\* Grant administration implements GrantPolicy: each command takes effect in one
\* step, on the authority and the rows of that step.
THEOREM AdministrationRefinement == Spec => ImplementsPolicy
<1>1. Spec => [](TypeOK /\ PlanCurrent)
  BY TypeInit, TypeStep, PlanStep, PTL DEF Spec
<1>2. Init => PolicyInit
  BY DEF Init
<1> QED
  BY <1>1, <1>2, StepRefines, PTL DEF Spec, ImplementsPolicy, PolicySpec

--------------------------------------------------------------------------------
(* The audit of the policy *)

\* What audit_authorization_integrity looks for, row by row.
RowsClean ==
  /\ \A i \in DOMAIN durable : participants[durable[i].participant].status # "missing"
  /\ OneRowPerScope
  /\ \A i \in DOMAIN delegated :
       /\ participants[delegated[i].participant].status # "missing"
       /\ delegated[i].consumed = NULL

\* Rows that are clean one by one give an audit that reports nothing.
LEMMA CleanAudit == TablesTyped /\ RowsClean => PolicyAuditClean
<1> SUFFICES ASSUME TablesTyped, RowsClean PROVE PolicyAuditClean
  OBVIOUS
<1>1. \A v \in DurableViolations : v[1] = "missing_participant"
  BY DurableViolationKinds DEF TablesTyped, RowsClean
<1>2. DurableViolations = {}
  BY <1>1 DEF DurableViolations, RowsClean
<1>3. ASSUME NEW v \in DelegatedGrantViolations({}) PROVE v[1] = "unsupported_capability"
  BY <1>3 DEF DelegatedGrantViolations, RowsClean
<1> QED
  BY <1>2, <1>3 DEF PolicyAuditClean

\* Every step of GrantPolicy leaves the rows clean.
LEMMA CleanStep == TablesTyped /\ RowsClean /\ [PolicyNext]_policyVars => RowsClean'
<1> SUFFICES ASSUME TablesTyped, RowsClean, [PolicyNext]_policyVars PROVE RowsClean'
  OBVIOUS
<1>1. ASSUME NEW a \in OrNull(Actors), NEW g \in DurableSpecs, GrantDurable(a, g)
      PROVE  RowsClean'
  <2>1. g \in DurableGrants /\ participants[g.participant].status = "active"
    BY <1>1, SpecsTyped DEF GrantDurable
  <2>2. /\ OneRowPerScope'
        /\ \A i \in DOMAIN durable' :
             \/ durable'[i].participant = g.participant
             \/ i \in DOMAIN durable /\ durable'[i].participant = durable[i].participant
    BY <1>1, <2>1, DurableAfterCreateScopes DEF GrantDurable, TablesTyped, RowsClean
  <2> QED
    BY <1>1, <2>1, <2>2 DEF GrantDurable, RowsClean
<1>2. ASSUME NEW a \in OrNull(Actors), NEW id \in DOMAIN durable, RevokeDurable(a, id)
      PROVE  RowsClean'
  <2>1. /\ OneRowPerScope' /\ DOMAIN durable' = DOMAIN durable
        /\ \A i \in DOMAIN durable : durable'[i].participant = durable[i].participant
    BY <1>2, DurableAfterDeactivateScopes DEF RevokeDurable, TablesTyped, RowsClean
  <2> QED
    BY <1>2, <2>1 DEF RevokeDurable, RowsClean
<1>3. ASSUME NEW a \in OrNull(Actors), NEW g \in DelegatedSpecs, GrantDelegated(a, g)
      PROVE  RowsClean'
  <2>1. g \in DelegatedGrants /\ g.consumed = NULL
    BY SpecsTyped
  <2>2. /\ DOMAIN delegated' = 1..(Len(delegated) + 1)
        /\ delegated'[Len(delegated) + 1] = g
        /\ \A i \in DOMAIN delegated : delegated'[i] = delegated[i]
    BY <1>3, <2>1, DelegatedAfterCreateTyped DEF GrantDelegated, TablesTyped
  <2>3. ASSUME NEW i \in DOMAIN delegated'
        PROVE  i \in DOMAIN delegated \/ i = Len(delegated) + 1
    BY <2>2, <2>3, Positions
  <2> QED
    BY <1>3, <2>1, <2>2, <2>3 DEF GrantDelegated, RowsClean, OneRowPerScope, SameScope
<1>4. ASSUME NEW a \in OrNull(Actors), NEW id \in DOMAIN delegated, RevokeDelegated(a, id)
      PROVE  RowsClean'
  <2>1. delegated' = [delegated EXCEPT ![id].status = "inactive"]
    BY <1>4 DEF RevokeDelegated, DelegatedAfterDeactivate
  <2>2. \A i \in DOMAIN delegated : delegated[i] \in DelegatedGrants
    BY Positions
  <2>3. ASSUME NEW i \in DOMAIN delegated
        PROVE  /\ delegated'[i].participant = delegated[i].participant
               /\ delegated'[i].consumed = delegated[i].consumed
    BY <2>1, <2>2, <2>3 DEF DelegatedGrants
  <2> QED
    BY <1>4, <2>1, <2>3 DEF RevokeDelegated, RowsClean, OneRowPerScope, SameScope
<1>5. ASSUME NEW p \in Participants, ChangeParticipant(p)
      PROVE  RowsClean'
  <2>1. \A q : participants[q].status # "missing" => participants'[q].status # "missing"
    BY <1>5 DEF ChangeParticipant, TablesTyped, PolicyTypeOK
  <2> QED
    BY <1>5, <2>1 DEF ChangeParticipant, RowsClean, OneRowPerScope, SameScope
<1>6. CASE PassTime
  BY <1>6 DEF PassTime, policy, RowsClean, OneRowPerScope, SameScope
<1>7. CASE UNCHANGED policyVars
  BY <1>7 DEF policyVars, policy, RowsClean, OneRowPerScope, SameScope
<1> QED
  BY <1>1, <1>2, <1>3, <1>4, <1>5, <1>6, <1>7 DEF PolicyNext

\* The policy audit never finds a durable grant wrong, nor a delegated one for
\* anything but its capability: concurrent commands cannot duplicate a scope.
THEOREM AuditClean == Spec => []PolicyAuditClean
<1>1. Init => RowsClean
  BY DEF Init, PolicyInit, RowsClean, OneRowPerScope
<1>2. TypeOK /\ PlanCurrent /\ RowsClean /\ [Next]_vars => RowsClean'
  BY StepRefines, CleanStep, TypeParts
<1>3. TypeOK /\ RowsClean => PolicyAuditClean
  BY CleanAudit, TypeParts
<1>4. Spec => [](TypeOK /\ PlanCurrent)
  BY AdministrationTyped, PlansCurrent, PTL
<1> QED
  BY <1>1, <1>2, <1>3, <1>4, PTL DEF Spec

--------------------------------------------------------------------------------
(* The history of a grant *)

\* A new grant's history is its creation.
LEMMA ExplainsCreate ==
  ASSUME NEW a
  PROVE  Explains(<<Event("create", NULL, "active", a)>>, "active")
<1> DEFINE e == Event("create", NULL, "active", a)
<1>1. Len(<<e>>) = 1 /\ <<e>>[1] = e
  OBVIOUS
<1>2. NULL # "active"
  BY NullIsNoStatus
<1> QED
  BY <1>1, <1>2 DEF Explains, Event

\* A change of status with its event continues a history.
LEMMA ExplainsChange ==
  ASSUME NEW log \in Seq(Events), NEW op, NEW before, NEW after, NEW a,
         Explains(log, before), before # after,
         after = IF op = "deactivate" THEN "inactive" ELSE "active",
         Event(op, before, after, a) \in Events
  PROVE  Explains(Append(log, Event(op, before, after, a)), after)
<1> DEFINE e == Event(op, before, after, a)
           new == Append(log, e)
<1>1. /\ Len(new) = Len(log) + 1 /\ Len(log) \in Nat /\ Len(log) > 0
      /\ new[Len(log) + 1] = e
      /\ \A i \in 1..Len(log) : new[i] = log[i]
  BY DEF Explains
<1>2. e.operation = op /\ e.before = before /\ e.after = after
  BY DEF Event
<1>3. new[1] = log[1]
  BY <1>1
<1> HIDE DEF new, e
<1>4. ASSUME NEW i \in 2..Len(new) PROVE new[i].before = new[i - 1].after
  <2>1. CASE i = Len(log) + 1
    BY <1>1, <1>2, <2>1 DEF Explains
  <2>2. CASE i # Len(log) + 1
    <3>1. i \in 2..Len(log) /\ i \in 1..Len(log) /\ i - 1 \in 1..Len(log)
      BY <1>1, <1>4, <2>2
    <3> QED
      BY <1>1, <3>1 DEF Explains
  <2> QED
    BY <2>1, <2>2
<1>5. ASSUME NEW i \in 1..Len(new)
      PROVE  /\ new[i].before # new[i].after
             /\ new[i].after = IF new[i].operation = "deactivate" THEN "inactive" ELSE "active"
  <2>1. CASE i = Len(log) + 1
    BY <1>1, <1>2, <2>1
  <2>2. CASE i # Len(log) + 1
    <3>1. i \in 1..Len(log)
      BY <1>1, <1>5, <2>2
    <3> QED
      BY <1>1, <3>1 DEF Explains
  <2> QED
    BY <2>1, <2>2
<1>6. Explains(new, after)
  BY <1>1, <1>2, <1>3, <1>4, <1>5 DEF Explains
<1> QED
  BY <1>6 DEF new, e

DurableExplained == \A i \in DOMAIN durable : Explains(durableLog[i], durable[i].status)
DelegatedExplained ==
  \A i \in DOMAIN delegated : Explains(delegatedLog[i], delegated[i].status)

\* Rows that change their status from before to after with an event each.
LEMMA DurableChanged ==
  ASSUME TablesTyped, DurableExplained, NEW rows, rows \subseteq DOMAIN durable,
         NEW op, NEW before, NEW after, NEW a \in OrNull(Actors),
         \A i \in rows : durable[i].status = before,
         before # after, after = IF op = "deactivate" THEN "inactive" ELSE "active",
         Event(op, before, after, a) \in Events,
         durableLog' = Logged(durableLog, rows, Event(op, before, after, a)),
         DOMAIN durable' = DOMAIN durable,
         \A i \in DOMAIN durable :
           durable'[i].status = IF i \in rows THEN after ELSE durable[i].status
  PROVE  DurableExplained'
<1> SUFFICES ASSUME NEW i \in DOMAIN durable
             PROVE  Explains(durableLog'[i], durable'[i].status)
  BY DEF DurableExplained, Explains
<1>1. durableLog[i] \in Seq(Events) /\ i \in DOMAIN durableLog
  BY Positions
<1>2. durableLog'[i] = IF i \in rows THEN Append(durableLog[i], Event(op, before, after, a))
                       ELSE durableLog[i]
  BY <1>1 DEF Logged
<1>3. Explains(durableLog[i], durable[i].status)
  BY DEF DurableExplained
<1>4. CASE i \in rows
  <2>1. Explains(Append(durableLog[i], Event(op, before, after, a)), after)
    BY <1>1, <1>3, <1>4, ExplainsChange
  <2> QED
    BY <1>2, <1>4, <2>1
<1>5. CASE i \notin rows
  BY <1>2, <1>3, <1>5
<1> QED
  BY <1>4, <1>5

\* Every step of GrantPolicy leaves the durable grants explained.
LEMMA DurableExplainedStep ==
  TablesTyped /\ DurableExplained /\ [PolicyNext]_policyVars => DurableExplained'
<1> SUFFICES ASSUME TablesTyped, DurableExplained, [PolicyNext]_policyVars
             PROVE  DurableExplained'
  OBVIOUS
<1>0. \A i \in DOMAIN durable :
        durable[i] \in DurableGrants /\ durable[i].status \in {"active", "inactive"}
  BY Positions DEF DurableGrants
<1>1. ASSUME NEW a \in OrNull(Actors), NEW g \in DurableSpecs, GrantDurable(a, g)
      PROVE  DurableExplained'
  <2>1. CASE ScopeActive(g)
    BY <1>1, <2>1 DEF GrantDurable, DurableAfterCreate, DurableExplained, Explains
  <2>2. CASE ~ScopeActive(g) /\ ScopeRows(g) # {}
    <3> DEFINE id == LeastId(ScopeRows(g))
    <3>1. id \in ScopeRows(g) /\ id \in DOMAIN durable
      BY <2>2, ScopeRowsPositions
    <3>2. durable[id].status = "inactive"
      <4> HIDE DEF id
      <4> QED
        BY <1>0, <2>2, <3>1 DEF ScopeActive
    <3>3. durable' = [durable EXCEPT ![id].status = "active"]
      BY <1>1, <2>2 DEF GrantDurable, DurableAfterCreate
    <3>4. durableLog' = Logged(durableLog, {id},
                               Event("reactivate", "inactive", "active", a))
      BY <1>1, <2>2 DEF GrantDurable
    <3> HIDE DEF id
    <3>5. DOMAIN durable' = DOMAIN durable
      BY <3>3
    <3>6. ASSUME NEW i \in DOMAIN durable
          PROVE  durable'[i].status = IF i \in {id} THEN "active" ELSE durable[i].status
      BY <1>0, <3>1, <3>3, <3>6 DEF DurableGrants
    <3>7. \A i \in {id} : durable[i].status = "inactive"
      BY <3>2
    <3> QED
      BY <1>1, <3>1, <3>4, <3>5, <3>6, <3>7, EventTyped, DurableChanged
  <2>3. CASE ~ScopeActive(g) /\ ScopeRows(g) = {}
    <3>1. /\ durable' = Append(durable, g)
          /\ durableLog' = Append(durableLog, <<Event("create", NULL, "active", a)>>)
      BY <1>1, <2>3 DEF GrantDurable, DurableAfterCreate
    <3>2. g.status = "active"
      BY SpecsTyped
    <3>3. /\ DOMAIN durable' = DOMAIN durable \cup {Len(durable) + 1}
          /\ durable'[Len(durable) + 1] = g
          /\ \A i \in DOMAIN durable : durable'[i] = durable[i]
      BY <3>1 DEF TablesTyped, PolicyTypeOK
    <3>4. /\ durableLog'[Len(durable) + 1] = <<Event("create", NULL, "active", a)>>
          /\ \A i \in DOMAIN durable : durableLog'[i] = durableLog[i]
      BY <3>1, Positions DEF TablesTyped
    <3>5. ASSUME NEW i \in DOMAIN durable' PROVE Explains(durableLog'[i], durable'[i].status)
      BY <3>2, <3>3, <3>4, <3>5, ExplainsCreate DEF DurableExplained
    <3> QED
      BY <3>5 DEF DurableExplained, Explains
  <2> QED
    BY <2>1, <2>2, <2>3
<1>2. ASSUME NEW a \in OrNull(Actors), NEW id \in DOMAIN durable, RevokeDurable(a, id)
      PROVE  DurableExplained'
  <2> DEFINE rows == ActiveRows(durable[id])
  <2>1. rows \subseteq DOMAIN durable
    BY ScopeRowsPositions
  <2>2. \A i \in rows : durable[i].status = "active"
    BY DEF ActiveRows
  <2>3. DOMAIN durable' = DOMAIN durable
    BY <1>2 DEF RevokeDurable, DurableAfterDeactivate
  <2>4. ASSUME NEW i \in DOMAIN durable
        PROVE  durable'[i].status = IF i \in rows THEN "inactive" ELSE durable[i].status
    <3>1. durable'[i] = IF SameScope(durable[i], durable[id])
                          THEN [durable[i] EXCEPT !.status = "inactive"] ELSE durable[i]
      BY <1>2 DEF RevokeDurable, DurableAfterDeactivate
    <3>2. i \in rows <=> SameScope(durable[i], durable[id]) /\ durable[i].status = "active"
      BY DEF ActiveRows, ScopeRows
    <3> HIDE DEF rows
    <3> QED
      BY <1>0, <3>1, <3>2 DEF DurableGrants
  <2>5. durableLog' = Logged(durableLog, rows, Event("deactivate", "active", "inactive", a))
    BY <1>2 DEF RevokeDurable
  <2> HIDE DEF rows
  <2> QED
    BY <1>2, <2>1, <2>2, <2>3, <2>4, <2>5, EventTyped, DurableChanged
<1>3. ASSUME UNCHANGED <<durable, durableLog>> PROVE DurableExplained'
  BY <1>3 DEF DurableExplained, Explains
<1>4. CASE UNCHANGED policyVars
  BY <1>3, <1>4 DEF policyVars, policy
<1>5. CASE PolicyNext
  <2>1. ASSUME NEW a \in OrNull(Actors), NEW g \in DelegatedSpecs, GrantDelegated(a, g)
        PROVE  UNCHANGED <<durable, durableLog>>
    BY <2>1 DEF GrantDelegated
  <2>2. ASSUME NEW a \in OrNull(Actors), NEW id \in DOMAIN delegated, RevokeDelegated(a, id)
        PROVE  UNCHANGED <<durable, durableLog>>
    BY <2>2 DEF RevokeDelegated
  <2>3. ASSUME NEW p \in Participants, ChangeParticipant(p)
        PROVE  UNCHANGED <<durable, durableLog>>
    BY <2>3 DEF ChangeParticipant
  <2>4. ASSUME PassTime PROVE UNCHANGED <<durable, durableLog>>
    BY <2>4 DEF PassTime, policy
  <2> QED
    BY <1>1, <1>2, <1>3, <1>5, <2>1, <2>2, <2>3, <2>4 DEF PolicyNext
<1> QED
  BY <1>4, <1>5

\* Every step of GrantPolicy leaves the delegated grants explained.
LEMMA DelegatedExplainedStep ==
  TablesTyped /\ DelegatedExplained /\ [PolicyNext]_policyVars => DelegatedExplained'
<1> SUFFICES ASSUME TablesTyped, DelegatedExplained, [PolicyNext]_policyVars
             PROVE  DelegatedExplained'
  OBVIOUS
<1>1. ASSUME NEW a \in OrNull(Actors), NEW g \in DelegatedSpecs, GrantDelegated(a, g)
      PROVE  DelegatedExplained'
  <2>1. g \in DelegatedGrants /\ g.status = "active"
    BY SpecsTyped
  <2>2. /\ DOMAIN delegated' = DOMAIN delegated \cup {Len(delegated) + 1}
        /\ delegated'[Len(delegated) + 1] = g
        /\ \A i \in DOMAIN delegated : delegated'[i] = delegated[i]
    BY <1>1, <2>1 DEF GrantDelegated, DelegatedAfterCreate, TablesTyped, PolicyTypeOK
  <2>3. /\ delegatedLog'[Len(delegated) + 1] = <<Event("create", NULL, "active", a)>>
        /\ \A i \in DOMAIN delegated : delegatedLog'[i] = delegatedLog[i]
    BY <1>1, Positions DEF GrantDelegated, TablesTyped
  <2>4. ASSUME NEW i \in DOMAIN delegated'
        PROVE  Explains(delegatedLog'[i], delegated'[i].status)
    BY <2>1, <2>2, <2>3, <2>4, ExplainsCreate DEF DelegatedExplained
  <2> QED
    BY <2>4 DEF DelegatedExplained, Explains
<1>2. ASSUME NEW a \in OrNull(Actors), NEW id \in DOMAIN delegated, RevokeDelegated(a, id)
      PROVE  DelegatedExplained'
  <2>1. /\ delegated[id].status = "active"
        /\ delegated' = [delegated EXCEPT ![id].status = "inactive"]
        /\ delegatedLog' = Logged(delegatedLog, {id},
                                  Event("deactivate", "active", "inactive", a))
    BY <1>2 DEF RevokeDelegated, DelegatedAfterDeactivate
  <2>2. ASSUME NEW i \in DOMAIN delegated
        PROVE  Explains(delegatedLog'[i], delegated'[i].status)
    <3>1. /\ delegatedLog[i] \in Seq(Events) /\ i \in DOMAIN delegatedLog
          /\ delegated[i] \in DelegatedGrants
      BY <2>2, Positions
    <3>2. Explains(delegatedLog[i], delegated[i].status)
      BY <2>2 DEF DelegatedExplained
    <3>3. CASE i = id
      <4>1. delegatedLog'[i] =
              Append(delegatedLog[i], Event("deactivate", "active", "inactive", a))
        BY <2>1, <3>1, <3>3 DEF Logged
      <4>2. delegated'[i].status = "inactive"
        BY <2>1, <2>2, <3>1, <3>3 DEF DelegatedGrants
      <4>3. Explains(Append(delegatedLog[i], Event("deactivate", "active", "inactive", a)),
                     "inactive")
        <5>1. Event("deactivate", "active", "inactive", a) \in Events
          BY <1>2, EventTyped
        <5>2. Explains(delegatedLog[i], "active")
          BY <2>1, <3>2, <3>3
        <5> QED
          BY <3>1, <5>1, <5>2, ExplainsChange
      <4> QED
        BY <4>1, <4>2, <4>3
    <3>4. CASE i # id
      <4>1. delegatedLog'[i] = delegatedLog[i]
        BY <2>1, <3>1, <3>4 DEF Logged
      <4>2. delegated'[i] = delegated[i]
        BY <2>1, <2>2, <3>4
      <4> QED
        BY <3>2, <4>1, <4>2
    <3> QED
      BY <3>3, <3>4
  <2> QED
    BY <2>1, <2>2 DEF DelegatedExplained, Explains
<1>3. ASSUME UNCHANGED <<delegated, delegatedLog>> PROVE DelegatedExplained'
  BY <1>3 DEF DelegatedExplained, Explains
<1>4. CASE UNCHANGED policyVars
  BY <1>3, <1>4 DEF policyVars, policy
<1>5. CASE PolicyNext
  <2>1. ASSUME NEW a \in OrNull(Actors), NEW g \in DurableSpecs, GrantDurable(a, g)
        PROVE  UNCHANGED <<delegated, delegatedLog>>
    BY <2>1 DEF GrantDurable
  <2>2. ASSUME NEW a \in OrNull(Actors), NEW id \in DOMAIN durable, RevokeDurable(a, id)
        PROVE  UNCHANGED <<delegated, delegatedLog>>
    BY <2>2 DEF RevokeDurable
  <2>3. ASSUME NEW p \in Participants, ChangeParticipant(p)
        PROVE  UNCHANGED <<delegated, delegatedLog>>
    BY <2>3 DEF ChangeParticipant
  <2>4. ASSUME PassTime PROVE UNCHANGED <<delegated, delegatedLog>>
    BY <2>4 DEF PassTime, policy
  <2> QED
    BY <1>1, <1>2, <1>3, <1>5, <2>1, <2>2, <2>3, <2>4 DEF PolicyNext
<1> QED
  BY <1>4, <1>5

\* authorization_admin_events explains the status of every grant, step by step
\* from its creation, for any callers, commands, failures and races.
THEOREM HistoryExplains == Spec => []HistoryExplainsPolicy
<1>1. Init => DurableExplained /\ DelegatedExplained
  BY DEF Init, PolicyInit, DurableExplained, DelegatedExplained
<1>2. TypeOK /\ PlanCurrent /\ DurableExplained /\ DelegatedExplained /\ [Next]_vars
        => DurableExplained' /\ DelegatedExplained'
  BY StepRefines, DurableExplainedStep, DelegatedExplainedStep, TypeParts
<1>3. DurableExplained /\ DelegatedExplained => HistoryExplainsPolicy
  BY DEF DurableExplained, DelegatedExplained, HistoryExplainsPolicy
<1>4. Spec => [](TypeOK /\ PlanCurrent)
  BY AdministrationTyped, PlansCurrent, PTL
<1> QED
  BY <1>1, <1>2, <1>3, <1>4, PTL DEF Spec

--------------------------------------------------------------------------------
(* The listing of effective grants *)

\* What effective_grants lists for an actor is what evaluate_authorization allows it
\* without an intent, in every state that administration and time can reach.
THEOREM ListingsAgree == Spec => []EffectiveGrantsExact
<1>1. TypeOK => EffectiveGrantsExact
  <2> SUFFICES ASSUME TypeOK, NEW a \in Actors, NEW c \in KnownCapabilities,
                      NEW r \in Resources
               PROVE  (\E e \in EffectiveGrants(a.principal, a.participant) :
                         e.capability = c /\ e.resource \in {NULL, r})
                      <=> Evaluate(a.principal, a.participant, c, r, NULL, now, FALSE).allowed
    BY DEF EffectiveGrantsExact
  <2>1. PolicyTypeOK /\ a.participant \in Participants
    BY ActorsTyped DEF TypeOK
  <2> QED
    BY <2>1, ListingExact
<1> QED
  BY <1>1, AdministrationTyped, PTL
================================================================================
