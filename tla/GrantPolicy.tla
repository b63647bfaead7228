------------------------------ MODULE GrantPolicy ------------------------------
(******************************************************************************)
(* What grant administration promises, without connections or transactions:    *)
(* a command is one step on the tables as they are, allowed by the policy it    *)
(* changes, and every row it changes gets one more event in its history.        *)
(******************************************************************************)
EXTENDS Authorization

CONSTANTS
  Actors,          \* callers of the REST endpoints; NULL is the command line
  DurableSpecs,    \* durable grants that may be asked for
  DelegatedSpecs   \* delegated grants that may be asked for

VARIABLES
  durableLog,      \* authorization_admin_events of each durable grant, in order
  delegatedLog,    \* authorization_admin_events of each delegated grant, in order
  now              \* unixepoch()

policyVars == <<policy, durableLog, delegatedLog, now>>

Event(operation, before, after, actor) ==
  [operation |-> operation, before |-> before, after |-> after, actor |-> actor]

\* The command line is trusted; an endpoint's caller needs the capability.
Permitted(actor) ==
  actor # NULL =>
    Evaluate(actor.principal, actor.participant, "manage_authorization_policy",
             AdminResource["manage_authorization_policy"], NULL, now, FALSE).allowed

WithStatus(table, rows, status) ==
  [i \in DOMAIN table |->
     IF i \in rows THEN [table[i] EXCEPT !.status = status] ELSE table[i]]

Logged(log, rows, event) ==
  [i \in DOMAIN log |-> IF i \in rows THEN Append(log[i], event) ELSE log[i]]

ActiveRows(scope) == {i \in ScopeRows(scope) : durable[i].status = "active"}

--------------------------------------------------------------------------------

PolicyInit ==
  /\ participants = [p \in Participants |->
                       [status |-> "missing", role |-> "user", owner |-> NULL]]
  /\ durable = <<>> /\ delegated = <<>>
  /\ durableLog = <<>> /\ delegatedLog = <<>>
  /\ now = 0

GrantDurable(actor, g) ==
  /\ Permitted(actor)
  /\ participants[g.participant].status = "active"
  /\ durable' = DurableAfterCreate(g)
  /\ durableLog' =
       IF ScopeActive(g) THEN durableLog
       ELSE IF ScopeRows(g) # {}
         THEN Logged(durableLog, {LeastId(ScopeRows(g))},
                     Event("reactivate", "inactive", "active", actor))
       ELSE Append(durableLog, <<Event("create", NULL, "active", actor)>>)
  /\ UNCHANGED <<participants, delegated, delegatedLog, now>>

RevokeDurable(actor, id) ==
  /\ Permitted(actor)
  /\ id \in DOMAIN durable
  /\ durable' = DurableAfterDeactivate(id)
  /\ durableLog' = Logged(durableLog, ActiveRows(durable[id]),
                          Event("deactivate", "active", "inactive", actor))
  /\ UNCHANGED <<participants, delegated, delegatedLog, now>>

\* The expiry was in the future at some moment of the command.
GrantDelegated(actor, g) ==
  /\ Permitted(actor)
  /\ participants[g.participant].status = "active"
  /\ g.expires = NULL \/ \E t \in 0..now : g.expires > t
  /\ delegated' = DelegatedAfterCreate(g)
  /\ delegatedLog' = Append(delegatedLog, <<Event("create", NULL, "active", actor)>>)
  /\ UNCHANGED <<participants, durable, durableLog, now>>

RevokeDelegated(actor, id) ==
  /\ Permitted(actor)
  /\ id \in DOMAIN delegated /\ delegated[id].status = "active"
  /\ delegated' = DelegatedAfterDeactivate(id)
  /\ delegatedLog' = Logged(delegatedLog, {id},
                            Event("deactivate", "active", "inactive", actor))
  /\ UNCHANGED <<participants, durable, durableLog, now>>

\* Lifecycle of the participants, from the command line.
ChangeParticipant(p) ==
  /\ \E row \in ParticipantRows :
       /\ row.status # "missing"
       /\ participants' = [participants EXCEPT ![p] = row]
  /\ UNCHANGED <<durable, delegated, durableLog, delegatedLog, now>>

PassTime ==
  /\ now' = now + 1
  /\ UNCHANGED <<policy, durableLog, delegatedLog>>

PolicyNext ==
  \/ \E a \in OrNull(Actors) :
       \/ \E g \in DurableSpecs : GrantDurable(a, g)
       \/ \E id \in DOMAIN durable : RevokeDurable(a, id)
       \/ \E g \in DelegatedSpecs : GrantDelegated(a, g)
       \/ \E id \in DOMAIN delegated : RevokeDelegated(a, id)
  \/ \E p \in Participants : ChangeParticipant(p)
  \/ PassTime

PolicySpec == PolicyInit /\ [][PolicyNext]_policyVars
================================================================================
