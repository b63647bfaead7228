-------------------------- MODULE GrantAdministration --------------------------
(******************************************************************************)
(* The commands of src/authorization_admin.rs, called from the command line     *)
(* (grant_admin.rs) and from the REST endpoints (access_api.rs).  Each is one   *)
(* deferred SQLite transaction: it reads who may act, the target participant    *)
(* and the rows it is about to change from a snapshot (Begin), then writes.     *)
(* The first write fails when another commit came in between or another         *)
(* connection is writing; from then to COMMIT nobody else can write, so the     *)
(* writes are one step.                                                         *)
(******************************************************************************)
EXTENDS GrantPolicy

CONSTANTS
  Callers,      \* connections that run commands at the same time
  Commands,     \* the commands they may run, any number of times each
  MaxRows,      \* bound on the rows of each grant table
  MaxEvents,    \* bound on the events of a grant after which no command touches it
  MaxTime       \* bound on the clock

VARIABLES
  fresh,        \* callers whose snapshot is the last commit
  command,      \* the command a caller runs, NULL when it runs none
  plan          \* what its reads decided to write

vars == <<policyVars, fresh, command, plan>>

Operations == {"create_durable", "deactivate_durable",
               "create_delegated", "deactivate_delegated"}

CommandType ==
  [op : Operations, actor : OrNull(Actors),
   grant : OrNull(DurableSpecs \cup DelegatedSpecs), id : Nat]

\* actor: normalize_actor; a grant is what the normalize_*_create_request
\* functions let through, so a durable one has a known capability.
ASSUME CommandsTyped ==
  /\ Commands \subseteq CommandType
  /\ \A c \in Commands :
       /\ c.op = "create_durable" => c.grant \in DurableSpecs
       /\ c.op = "create_delegated" => c.grant \in DelegatedSpecs
ASSUME ActorsTyped ==
  Actors \subseteq [principal : Principals, participant : Participants]
ASSUME SpecsTyped ==
  /\ DurableSpecs \subseteq {g \in DurableGrants : g.status = "active"}
  /\ DelegatedSpecs \subseteq
       {g \in DelegatedGrants : g.status = "active" /\ g.consumed = NULL}
ASSUME BoundsAreNumbers == MaxRows \in Nat /\ MaxEvents \in Nat /\ MaxTime \in Nat
ASSUME NullIsNoCommand == NULL \notin Commands \cup Actors
ASSUME NullIsNoStatus == NULL \notin {"active", "inactive"}

Plans ==
  [write : {"insert", "reactivate", "deactivate"}, rows : SUBSET Nat,
   before : {NULL, "active", "inactive"}]

Events ==
  [operation : {"create", "reactivate", "deactivate"},
   before : {NULL, "active", "inactive"}, after : {"active", "inactive"},
   actor : OrNull(Actors)]

\* The history of a grant starts with its creation, and logs grow with tables.
TypeOK ==
  /\ PolicyTypeOK
  /\ durableLog \in Seq(Seq(Events)) /\ Len(durableLog) = Len(durable)
  /\ delegatedLog \in Seq(Seq(Events)) /\ Len(delegatedLog) = Len(delegated)
  /\ now \in Nat
  /\ fresh \subseteq Callers
  /\ command \in [Callers -> OrNull(Commands)]
  /\ plan \in [Callers -> Plans]

NoPlan == [write |-> "insert", rows |-> {}, before |-> NULL]

Init ==
  /\ PolicyInit
  /\ fresh = {}
  /\ command = [w \in Callers |-> NULL]
  /\ plan = [w \in Callers |-> NoPlan]

--------------------------------------------------------------------------------
(* Reads *)

\* Mutant of TargetAccepted: the participant's status is not required.
TargetUnchecked(c) ==
  /\ c.op = "create_delegated" => c.grant.expires = NULL \/ c.grant.expires > now
  /\ c.op = "deactivate_durable" => c.id \in DOMAIN durable
  /\ c.op = "deactivate_delegated" => c.id \in DOMAIN delegated

\* require_active_participant and, for a delegated grant, a future expiry.
TargetAccepted(c) ==
  /\ c.op \in {"create_durable", "create_delegated"} =>
       participants[c.grant.participant].status = "active"
  /\ c.op = "create_delegated" => c.grant.expires = NULL \/ c.grant.expires > now
  /\ c.op = "deactivate_durable" => c.id \in DOMAIN durable
  /\ c.op = "deactivate_delegated" => c.id \in DOMAIN delegated

\* Mutants of PlanFor: a deactivation records an event for the row whatever its
\* status; a request for a durable grant always inserts.
PlanForNamedRow(c) ==
  CASE c.op = "create_durable" /\ ScopeRows(c.grant) # {} ->
         [write |-> "reactivate", rows |-> {LeastId(ScopeRows(c.grant))},
          before |-> "inactive"]
    [] c.op = "deactivate_durable" ->
         [write |-> "deactivate", rows |-> {c.id}, before |-> "active"]
    [] c.op = "deactivate_delegated" ->
         [write |-> "deactivate", rows |-> {c.id}, before |-> delegated[c.id].status]
    [] OTHER -> NoPlan
PlanForInserts(c) ==
  CASE c.op = "deactivate_durable" ->
         [write |-> "deactivate", rows |-> ActiveRows(durable[c.id]), before |-> "active"]
    [] c.op = "deactivate_delegated" ->
         [write |-> "deactivate", rows |-> {c.id}, before |-> delegated[c.id].status]
    [] OTHER -> NoPlan

\* What the command will write, from the rows it has read.  A durable grant that
\* exists and is active is answered without a write (ScopeActive, see Begin).
PlanFor(c) ==
  CASE c.op = "create_durable" /\ ScopeRows(c.grant) # {} ->
         [write |-> "reactivate", rows |-> {LeastId(ScopeRows(c.grant))},
          before |-> "inactive"]
    [] c.op = "deactivate_durable" ->
         [write |-> "deactivate", rows |-> ActiveRows(durable[c.id]), before |-> "active"]
    [] c.op = "deactivate_delegated" ->
         [write |-> "deactivate", rows |-> {c.id}, before |-> delegated[c.id].status]
    [] OTHER -> NoPlan

\* The bounds: no more rows or events than the instance allows.
Room(c) ==
  /\ c.op = "create_durable" =>
       IF ScopeRows(c.grant) = {} THEN Len(durable) < MaxRows
       ELSE \A i \in ScopeRows(c.grant) : Len(durableLog[i]) < MaxEvents
  /\ c.op = "create_delegated" => Len(delegated) < MaxRows
  /\ c.op = "deactivate_durable" => Len(durableLog[c.id]) < MaxEvents

\* BEGIN DEFERRED and every read of the command.  A command that is refused, that
\* finds nothing under its id or that finds the grant active already ends here.
Begin(w, c) ==
  /\ command[w] = NULL
  /\ Permitted(c.actor)
  /\ TargetAccepted(c)
  /\ ~(c.op = "create_durable" /\ ScopeActive(c.grant))
  /\ Room(c)
  /\ command' = [command EXCEPT ![w] = c]
  /\ plan' = [plan EXCEPT ![w] = PlanFor(c)]
  /\ fresh' = fresh \cup {w}
  /\ UNCHANGED policyVars

--------------------------------------------------------------------------------
(* Writes *)

\* Mutant of CanWrite: a transaction that read an older snapshot may write.
CanWriteStale(w) == TRUE

\* SQLite lets a transaction that has read write only on the last commit.
CanWrite(w) == w \in fresh

Writing(w, op, write) ==
  /\ command[w] # NULL /\ command[w].op = op /\ plan[w].write = write
  /\ CanWrite(w)

Done(w) ==
  /\ command' = [command EXCEPT ![w] = NULL]
  /\ plan' = [plan EXCEPT ![w] = NoPlan]

\* COMMIT; a commit that changed rows outdates the other snapshots.
Commit(w, changed) ==
  /\ Done(w)
  /\ fresh' = IF changed THEN {} ELSE fresh \ {w}
  /\ UNCHANGED <<participants, now>>

\* UNIQUE (..., resource) of principal_grants: NULLs are distinct to it.
UniqueViolated(g) == g.resource # NULL /\ ScopeRows(g) # {}

InsertDurable(w) ==
  LET g == command[w].grant
  IN /\ Writing(w, "create_durable", "insert")
     /\ ~UniqueViolated(g)
     /\ durable' = Append(durable, g)
     /\ durableLog' = Append(durableLog,
                             <<Event("create", NULL, "active", command[w].actor)>>)
     /\ Commit(w, TRUE)
     /\ UNCHANGED <<delegated, delegatedLog>>

ReactivateDurable(w) ==
  /\ Writing(w, "create_durable", "reactivate")
  /\ durable' = WithStatus(durable, plan[w].rows, "active")
  /\ durableLog' = Logged(durableLog, plan[w].rows,
                          Event("reactivate", plan[w].before, "active", command[w].actor))
  /\ Commit(w, TRUE)
  /\ UNCHANGED <<delegated, delegatedLog>>

\* The rows UPDATE ... WHERE scope AND status != 'inactive' changes.
Updated(w) == ActiveRows(durable[command[w].id])

\* The UPDATE is by scope, the events are for the rows that were read.
DeactivateDurable(w) ==
  /\ Writing(w, "deactivate_durable", "deactivate")
  /\ durable' = WithStatus(durable, Updated(w), "inactive")
  /\ durableLog' = Logged(durableLog, plan[w].rows,
                          Event("deactivate", plan[w].before, "inactive", command[w].actor))
  /\ Commit(w, Updated(w) # {} \/ plan[w].rows # {})
  /\ UNCHANGED <<delegated, delegatedLog>>

\* Mutant of InsertDelegated: no event is recorded.
InsertDelegatedSilently(w) ==
  /\ Writing(w, "create_delegated", "insert")
  /\ delegated' = Append(delegated, command[w].grant)
  /\ Commit(w, TRUE)
  /\ UNCHANGED <<durable, durableLog, delegatedLog>>

InsertDelegated(w) ==
  /\ Writing(w, "create_delegated", "insert")
  /\ delegated' = Append(delegated, command[w].grant)
  /\ delegatedLog' = Append(delegatedLog,
                            <<Event("create", NULL, "active", command[w].actor)>>)
  /\ Commit(w, TRUE)
  /\ UNCHANGED <<durable, durableLog>>

\* The event only when UPDATE ... WHERE id AND status != 'inactive' changed the row.
DeactivateDelegated(w) ==
  LET updated == {i \in plan[w].rows : delegated[i].status # "inactive"}
  IN /\ Writing(w, "deactivate_delegated", "deactivate")
     /\ delegated' = WithStatus(delegated, updated, "inactive")
     /\ delegatedLog' =
          Logged(delegatedLog, updated,
                 Event("deactivate", plan[w].before, "inactive", command[w].actor))
     /\ Commit(w, updated # {})
     /\ UNCHANGED <<durable, durableLog>>

\* SQLITE_BUSY, a constraint, an I/O error or the death of the process: rollback.
Fail(w) ==
  /\ command[w] # NULL
  /\ Done(w)
  /\ fresh' = fresh \ {w}
  /\ UNCHANGED policyVars

--------------------------------------------------------------------------------
(* Participants and the clock *)

ParticipantCommit(p, row) ==
  /\ participants' = [participants EXCEPT ![p] = row]
  /\ fresh' = {}
  /\ UNCHANGED <<durable, delegated, durableLog, delegatedLog, now, command, plan>>

\* participant provision
Provision(p) ==
  /\ participants[p].status = "missing"
  /\ ParticipantCommit(p, [status |-> "active", role |-> "user", owner |-> NULL])

\* participant set-role
SetRole(p, role) ==
  /\ participants[p].status # "missing"
  /\ ParticipantCommit(p, [participants[p] EXCEPT !.role = role])

\* participant activate | deactivate
SetStatus(p, status) ==
  /\ participants[p].status # "missing"
  /\ ParticipantCommit(p, [participants[p] EXCEPT !.status = status])

Tick ==
  /\ now < MaxTime
  /\ now' = now + 1
  /\ UNCHANGED <<policy, durableLog, delegatedLog, fresh, command, plan>>

Write(w) ==
  \/ InsertDurable(w)
  \/ ReactivateDurable(w)
  \/ DeactivateDurable(w)
  \/ InsertDelegated(w)
  \/ DeactivateDelegated(w)

Next ==
  \/ \E w \in Callers, c \in Commands : Begin(w, c)
  \/ \E w \in Callers : Write(w) \/ Fail(w)
  \/ \E p \in Participants : Provision(p)
  \/ \E p \in Participants, r \in {"user", "admin"} : SetRole(p, r)
  \/ \E p \in Participants, s \in {"active", "inactive"} : SetStatus(p, s)
  \/ Tick

Spec == Init /\ [][Next]_vars

--------------------------------------------------------------------------------
(* Properties *)

\* A transaction that may still write has read what is still true: its actor is
\* permitted, its target accepted, and the rows it is about to change are the
\* rows its UPDATE will find (the debug_assert of deactivate_durable_grant_in_tx).
PlanCurrent ==
  \A w \in fresh :
    /\ command[w] # NULL
    /\ Permitted(command[w].actor)
    /\ plan[w] = PlanFor(command[w])
    /\ command[w].op \in {"create_durable", "create_delegated"} =>
         participants[command[w].grant.participant].status = "active"
    /\ command[w].op = "create_durable" => ~ScopeActive(command[w].grant)
    /\ command[w].op = "create_delegated" =>
         command[w].grant.expires = NULL \/ \E t \in 0..now : command[w].grant.expires > t
    /\ command[w].op = "deactivate_durable" => command[w].id \in DOMAIN durable
    /\ command[w].op = "deactivate_delegated" => command[w].id \in DOMAIN delegated

\* The audit of the policy (audit_authorization_integrity) finds nothing wrong with
\* what the commands leave, however they interleave: no grant of an unknown
\* participant and, although UNIQUE does not see scopes without a resource, no
\* scope twice.  Only a delegated grant's capability is not checked on creation.
PolicyAuditClean ==
  /\ DurableViolations = {}
  /\ \A v \in DelegatedGrantViolations({}) : v[1] = "unsupported_capability"

\* A history that ends in the grant's present status: created once and active,
\* then deactivated and reactivated in turn, every event starting where the one
\* before it ended.
Explains(log, status) ==
  /\ Len(log) > 0
  /\ log[1].operation = "create" /\ log[1].before = NULL
  /\ \A i \in 2..Len(log) : log[i].before = log[i - 1].after
  /\ \A i \in 1..Len(log) :
       /\ log[i].before # log[i].after
       /\ log[i].after = IF log[i].operation = "deactivate" THEN "inactive" ELSE "active"
  /\ log[Len(log)].after = status

\* authorization_admin_events explains every grant: no change of status without
\* its event and no event without a change, also when commands race or fail.
HistoryExplainsPolicy ==
  /\ \A i \in DOMAIN durable : Explains(durableLog[i], durable[i].status)
  /\ \A i \in DOMAIN delegated : Explains(delegatedLog[i], delegated[i].status)

\* effective_grants lists exactly what the evaluator allows a principal to do
\* without an intent: a listed grant covers a resource iff it is authorised.
EffectiveGrantsExact ==
  \A a \in Actors, c \in KnownCapabilities, r \in Resources :
    (\E e \in EffectiveGrants(a.principal, a.participant) :
       e.capability = c /\ e.resource \in {NULL, r})
    <=> Evaluate(a.principal, a.participant, c, r, NULL, now, FALSE).allowed

\* Every command is one step of the abstract policy on the tables as they are:
\* no command acts on authority, a participant or rows that have changed since.
ImplementsPolicy == PolicySpec
================================================================================
