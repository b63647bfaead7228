---------------------------- MODULE ExecutionAudit -----------------------------
(******************************************************************************)
(* The audit of src/execution.rs: verify_execution_audit_integrity, which       *)
(* re-derives one execution from its evidence, and                             *)
(* sweep_execution_audit_integrity, which does so for every receipt and looks   *)
(* for evidence that belongs to no receipt.  Both only read; a report is the    *)
(* set of its violations.  In this model a receipt is always a committed        *)
(* post_message, so the checks of its status and capability cannot differ.      *)
(******************************************************************************)
EXTENDS Execution

\* The absent row has no key
ASSUME NullIsNoKey == NULL \notin Keys

If(condition, violation) == IF condition THEN {violation} ELSE {}

\* The message the receipt names: present, by the participant, with its hash.
EffectViolations(k) ==
  LET m == receipts[k].message
  IN IF ~MessageExists(m) THEN {"message_effect_missing"}
     ELSE If(messages[m].participant # k[1], "message_effect_binding_mismatch")
          \cup If(receipts[k].hash # ExecutionHash(messages[m].content),
                  "intent_hash_mismatch")

\* The reservation of the key or, when there is none, the oldest row with the same
\* nonce or else with the same message (rows are as old as their messages).
NavigationRow(k) ==
  LET sameNonce   == {j \in Keys : nav[j] # NULL /\ j[2] = k[2]}
      sameMessage == {j \in Keys : nav[j] # NULL /\ nav[j].message = receipts[k].message}
      related == IF sameNonce # {} THEN sameNonce ELSE sameMessage
  IN IF nav[k] # NULL THEN k
     ELSE IF related = {} THEN NULL
     ELSE CHOOSE j \in related : \A i \in related : nav[j].message <= nav[i].message

NavigationViolations(k) ==
  LET j == NavigationRow(k)
  IN IF j = NULL THEN {"navigation_reservation_missing"}
     ELSE If(j # k \/ nav[j].message # receipts[k].message, "navigation_binding_mismatch")
          \cup If(nav[j].hash # receipts[k].hash, "navigation_hash_mismatch")

AuthorizationViolations(k) ==
  IF provenance[k] = NULL THEN {"authorization_provenance_missing"}
  ELSE If(~MessageExists(receipts[k].message)
          \/ messages[receipts[k].message].content.channel # provenance[k].resource,
          "authorization_resource_mismatch")

\* The delegated grant the execution was authorised by, one-shot consumption included.
DelegatedViolations(k) ==
  LET g == provenance[k].grant
  IN IF provenance[k] = NULL THEN {}
     ELSE IF provenance[k].source # "delegated_grants" THEN {}
     ELSE IF g = NULL THEN {"delegated_grant_reference_missing"}
     ELSE IF g \notin DOMAIN delegated THEN {"delegated_grant_missing"}
     ELSE If(delegated[g].participant # k[1] \/ delegated[g].capability # "post_message",
             "delegated_grant_binding_mismatch")
          \cup If(delegated[g].oneShot /\ delegated[g].consumed = NULL,
                  "delegated_one_shot_consumption_missing")
          \cup If(delegated[g].oneShot /\ delegated[g].consumed \notin {NULL, k[2]},
                  "delegated_one_shot_consumption_mismatch")

IngressViolations(k) ==
  If(~\E d \in Deliveries : /\ ingress[d] # NULL
                            /\ ingress[d].intent = k[2] /\ ingress[d].participant = k[1],
     "ingress_missing")

\* verify_execution_audit_integrity
VerifyAudit(k) ==
  IF receipts[k] = NULL THEN {"receipt_missing"}
  ELSE EffectViolations(k) \cup NavigationViolations(k) \cup AuthorizationViolations(k)
       \cup DelegatedViolations(k) \cup IngressViolations(k)

\* Evidence rows without a receipt of the same participant and intent.
Orphans ==
  {<<"orphan_authorization_provenance", k>> :
      k \in {j \in Keys : provenance[j] # NULL /\ receipts[j] = NULL}}
  \cup {<<"orphan_ingress_provenance", d>> :
      d \in {e \in Deliveries : ingress[e] # NULL
               /\ receipts[<<ingress[e].participant, ingress[e].intent>>] = NULL}}
  \cup {<<"orphan_navigation_reservation", k>> :
      k \in {j \in Keys : nav[j] # NULL /\ receipts[j] = NULL}}

\* sweep_execution_audit_integrity
InvalidExecutions == {k \in Keys : receipts[k] # NULL /\ VerifyAudit(k) # {}}

--------------------------------------------------------------------------------
(* Properties *)

\* Whatever executions interleave, fail, race or are replayed, and whatever the
\* administrator does to grants and participants afterwards, a sweep of the
\* database finds every execution valid and no orphan: the audit has no false
\* positives on what execute_message_intent commits.
SweepValid == InvalidExecutions = {} /\ Orphans = {}

\* "The durable idempotency reservation in navigation_writes must agree with the
\* execution receipt", hash included
\* (docs/architecture/Execution_Audit_Atomic_Boundary_Integrity_EN.md).
ReservationAgreesWithReceipt ==
  \A k \in Keys : receipts[k] # NULL => nav[k].hash = receipts[k].hash

\* "archived channels reject new writes until reactivated"
\* (docs/compatibility-contract.md): no step adds a message to a channel that is
\* archived when the message is committed.
ArchivedChannelsRejectWrites ==
  [][\A m \in (DOMAIN messages') \ (DOMAIN messages) :
       channels[messages'[m].content.channel] # "archived"]_vars

\* "A different transport delivery for the same committed intent remains an
\* idempotent replay" (docs/delegated-grants.md): while each transport presents an
\* intent for one principal, an authorised execution of an intent that is already
\* committed with the same content is never refused by record_execution_in_tx.
ReplayNeverRefused ==
  \A w \in Workers :
    LET k == KeyOf(req[w])
    IN pc[w] = "locked" /\ receipts[k] # NULL
       /\ receipts[k].hash = ExecutionHash(req[w].content)
         => ~RecordRefused(req[w], receipts[k].message)
================================================================================
