----------------------------- MODULE Authorization -----------------------------
(******************************************************************************)
(* The policy evaluator of src/authorization.rs.  The policy is three tables: *)
(* web_participants, principal_grants (durable) and delegated_grants.  Grants  *)
(* are never deleted and their AUTOINCREMENT ids count from 1, so a grant      *)
(* table is a sequence and a grant id an index into it.  Evaluate is what      *)
(* evaluate_authorization computes from the tables: a pure function of one     *)
(* SQLite snapshot, the clock and the committed receipts.                      *)
(******************************************************************************)
EXTENDS Naturals, Sequences

CONSTANTS
  Participants,   \* participant_id values
  Subjects,       \* principal_subject values; a participant is also a subject
  Resources,      \* channels and the fixed administration resources
  Intents,        \* intent_id values
  NULL            \* SQL NULL, Rust None

ASSUME ParticipantsAreSubjects == Participants \subseteq Subjects
ASSUME NullIsNoValue ==
  NULL \notin (Subjects \cup Resources \cup Intents \cup Nat)

VARIABLES
  participants,   \* web_participants: lifecycle status, role and GitHub owner
  durable,        \* principal_grants
  delegated       \* delegated_grants

policy == <<participants, durable, delegated>>

--------------------------------------------------------------------------------
(* Rows *)

Providers == {"participant-hmac", "human-web", "github", "oidc", "bearer"}

Principals == [provider : Providers, subject : Subjects]

UserCapabilities ==
  {"read_messages", "post_message", "reply",
   "read_execution_receipt", "read_execution_audit"}

\* Administration capabilities that are implicit only on one fixed resource.
AdminResource ==
  [read_authorization_policy                 |-> "authorization-policy",
   read_authorization_policy_integrity       |-> "authorization-policy-integrity",
   read_authorization_decision               |-> "authorization-decision",
   manage_authorization_policy               |-> "authorization-policy-administration",
   read_authorization_administration_history |-> "authorization-administration-history",
   read_execution_audit_sweep                |-> "execution-audit-sweep"]

KnownCapabilities ==
  UserCapabilities \cup DOMAIN AdminResource \cup {"manage_channels"}

ASSUME NullIsNoResource == \A c \in DOMAIN AdminResource : AdminResource[c] # NULL

OrNull(S) == S \cup {NULL}

ParticipantRows ==
  [status : {"missing", "active", "inactive"},
   role   : {"user", "admin"},
   owner  : OrNull(Subjects)]

DurableGrants ==
  [principal : Principals, participant : Participants,
   capability : KnownCapabilities, resource : OrNull(Resources),
   status : {"active", "inactive"}]

\* consumed_at and consumed_intent_id are only ever written together: consumed
\* is the intent that used the grant up, or NULL.  Unlike a durable grant's, the
\* capability of a delegated grant is not checked against the known ones ("other").
DelegatedGrants ==
  [principal : Principals, participant : Participants,
   capability : KnownCapabilities \cup {"other"}, resource : OrNull(Resources),
   intent : OrNull(Intents), expires : OrNull(Nat), oneShot : BOOLEAN,
   consumed : OrNull(Intents), status : {"active", "inactive"}]

PolicyTypeOK ==
  /\ participants \in [Participants -> ParticipantRows]
  /\ durable \in Seq(DurableGrants)
  /\ delegated \in Seq(DelegatedGrants)

--------------------------------------------------------------------------------
(* Decisions *)

Allow(source, reason, grant, consume) ==
  [allowed |-> TRUE, source |-> source, reason |-> reason,
   grant |-> grant, consume |-> consume]

Deny(source, reason, grant) ==
  [allowed |-> FALSE, source |-> source, reason |-> reason,
   grant |-> grant, consume |-> NULL]

Sources ==
  {"participant_lifecycle", "principal_grants", "implicit_authority",
   "delegated_grants", "policy"}

ImplicitReasons ==
  {"implicit_human_web_admin_resource", "implicit_human_web_admin",
   "implicit_participant_hmac", "implicit_human_web", "implicit_github_owner"}

DenialReasons ==
  {"delegated_resource_mismatch", "delegated_intent_mismatch",
   "delegated_consumed_different_intent", "delegated_grant_expired"}

Reasons ==
  ImplicitReasons \cup DenialReasons
  \cup {"participant_missing", "participant_inactive",
        "explicit_durable_grant_match", "explicit_resource_scope_mismatch",
        "delegated_committed_replay", "delegated_grant_match",
        "delegated_consumed_without_committed_receipt", "no_matching_authority"}

ASSUME NullIsNoReason == NULL \notin Reasons

Decisions ==
  [allowed : BOOLEAN, source : Sources, reason : Reasons,
   grant : OrNull(Nat), consume : OrNull(Nat)]

\* ORDER BY (x IS NOT NULL) DESC: the rows in T come before the rest of S.
Prefer(S, T) == IF S \cap T = {} THEN S ELSE S \cap T

\* ORDER BY id ASC LIMIT 1
LeastId(S) == CHOOSE g \in S : \A h \in S : g <= h

--------------------------------------------------------------------------------
(* Durable and implicit authority *)

\* Active durable grants of the principal for the capability, any resource.
ExplicitGrants(principal, participant, capability) ==
  {g \in DOMAIN durable :
     /\ durable[g].principal = principal
     /\ durable[g].participant = participant
     /\ durable[g].capability = capability
     /\ durable[g].status = "active"}

ExplicitMatches(principal, participant, capability, resource) ==
  {g \in ExplicitGrants(principal, participant, capability) :
     durable[g].resource \in {NULL, resource}}

FirstExplicit(S) ==
  LeastId(Prefer(S, {g \in DOMAIN durable : durable[g].resource # NULL}))

\* implicit_authority_reason: authority nobody granted.  A principal that is the
\* participant itself is judged by its own rules only; the GitHub owner rule is
\* for everyone else.
ImplicitReason(principal, participant, capability, resource) ==
  LET row == participants[participant]
      self == /\ principal.provider \in {"participant-hmac", "human-web"}
              /\ principal.subject = participant
      admin == principal.provider = "human-web" /\ row.role = "admin"
      owner == /\ principal.provider = "github"
               /\ row.owner # NULL
               /\ row.owner = principal.subject
  IN CASE self /\ capability \in DOMAIN AdminResource ->
            IF admin /\ resource = AdminResource[capability]
              THEN "implicit_human_web_admin_resource" ELSE NULL
       [] self /\ capability = "manage_channels" ->
            IF admin THEN "implicit_human_web_admin" ELSE NULL
       [] self /\ capability \in UserCapabilities ->
            IF principal.provider = "participant-hmac"
              THEN "implicit_participant_hmac" ELSE "implicit_human_web"
       [] ~self /\ owner /\ capability \in UserCapabilities -> "implicit_github_owner"
       [] OTHER -> NULL

--------------------------------------------------------------------------------
(* Delegated authority *)

DelegatedCandidates(principal, participant, capability) ==
  {g \in DOMAIN delegated :
     /\ delegated[g].principal = principal
     /\ delegated[g].participant = participant
     /\ delegated[g].capability = capability
     /\ delegated[g].status = "active"}

\* The candidate that comes first in (intent, resource, one_shot, id) order.
FirstDelegated(S) ==
  LET bound  == Prefer(S, {g \in DOMAIN delegated : delegated[g].intent # NULL})
      scoped == Prefer(bound, {g \in DOMAIN delegated : delegated[g].resource # NULL})
      single == Prefer(scoped, {g \in DOMAIN delegated : delegated[g].oneShot})
  IN LeastId(single)

\* Mutant of Denial: an expired grant is expired for its own replay too.
DenialForgetsReplay(g, resource, intent, now) ==
  LET grant == delegated[g]
  IN IF grant.resource \notin {NULL, resource} THEN "delegated_resource_mismatch"
     ELSE IF grant.intent \notin {NULL, intent} THEN "delegated_intent_mismatch"
     ELSE IF grant.oneShot /\ grant.consumed \notin {NULL, intent}
       THEN "delegated_consumed_different_intent"
     ELSE IF grant.expires # NULL /\ grant.expires <= now THEN "delegated_grant_expired"
     ELSE NULL

\* Why grant g does not authorise the intent now, or NULL when it does.  A spent
\* one-shot grant stays readable to the intent that spent it, even past expiry.
Denial(g, resource, intent, now) ==
  LET grant == delegated[g]
      spentHere == grant.oneShot /\ grant.consumed = intent
  IN IF grant.resource \notin {NULL, resource} THEN "delegated_resource_mismatch"
     ELSE IF grant.intent \notin {NULL, intent} THEN "delegated_intent_mismatch"
     ELSE IF grant.oneShot /\ grant.consumed \notin {NULL, intent}
       THEN "delegated_consumed_different_intent"
     ELSE IF grant.expires # NULL /\ grant.expires <= now /\ ~spentHere
       THEN "delegated_grant_expired"
     ELSE NULL

\* The loop over the ordered candidates: the first one that is not denied decides;
\* when all are denied, the first denial is the answer.
EvaluateDelegated(candidates, resource, intent, now, committed) ==
  LET usable == {g \in candidates : Denial(g, resource, intent, now) = NULL}
      g == FirstDelegated(usable)
      first == FirstDelegated(candidates)
  IN IF usable = {}
       THEN Deny("delegated_grants", Denial(first, resource, intent, now), first)
     ELSE IF delegated[g].oneShot /\ delegated[g].consumed # NULL
       THEN IF committed
              THEN Allow("delegated_grants", "delegated_committed_replay", g, NULL)
              ELSE Deny("delegated_grants",
                        "delegated_consumed_without_committed_receipt", g)
     ELSE Allow("delegated_grants", "delegated_grant_match", g,
                IF delegated[g].oneShot THEN g ELSE NULL)

--------------------------------------------------------------------------------
(* evaluate_authorization.  intent = NULL is the read path, which never looks  *)
(* at delegated grants; committed says whether the participant and intent have *)
(* a committed receipt.                                                        *)

Evaluate(principal, participant, capability, resource, intent, now, committed) ==
  LET explicit == ExplicitGrants(principal, participant, capability)
      matches  == ExplicitMatches(principal, participant, capability, resource)
      implicit == ImplicitReason(principal, participant, capability, resource)
      candidates == DelegatedCandidates(principal, participant, capability)
  IN IF participants[participant].status = "missing"
       THEN Deny("participant_lifecycle", "participant_missing", NULL)
     ELSE IF participants[participant].status = "inactive"
       THEN Deny("participant_lifecycle", "participant_inactive", NULL)
     ELSE IF matches # {}
       THEN Allow("principal_grants", "explicit_durable_grant_match",
                  FirstExplicit(matches), NULL)
     ELSE IF explicit = {} /\ implicit # NULL
       THEN Allow("implicit_authority", implicit, NULL, NULL)
     ELSE IF intent # NULL /\ candidates # {}
       THEN EvaluateDelegated(candidates, resource, intent, now, committed)
     ELSE IF explicit # {}
       THEN Deny("principal_grants", "explicit_resource_scope_mismatch", NULL)
     ELSE Deny("policy", "no_matching_authority", NULL)

--------------------------------------------------------------------------------
(* What the grant administration of src/authorization_admin.rs leaves in the   *)
(* tables.                                                                     *)

\* Rows of the exact scope; "resource IS ?" also matches NULL with NULL.
SameScope(g, scope) ==
  /\ g.principal = scope.principal
  /\ g.participant = scope.participant
  /\ g.capability = scope.capability
  /\ g.resource = scope.resource

ScopeRows(scope) == {i \in DOMAIN durable : SameScope(durable[i], scope)}

ScopeActive(scope) == \E i \in ScopeRows(scope) : durable[i].status = "active"

\* create_durable_grant: an active row is left alone, otherwise the oldest row of
\* the scope is reactivated, otherwise a row is inserted.
DurableAfterCreate(g) ==
  LET rows == ScopeRows(g)
  IN IF ScopeActive(g) THEN durable
     ELSE IF rows # {} THEN [durable EXCEPT ![LeastId(rows)].status = "active"]
     ELSE Append(durable, g)

\* deactivate_durable_grant: the id only names a scope; all its rows go inactive.
DurableAfterDeactivate(id) ==
  [i \in DOMAIN durable |->
     IF SameScope(durable[i], durable[id])
       THEN [durable[i] EXCEPT !.status = "inactive"] ELSE durable[i]]

\* create_delegated_grant never merges: every call inserts a row.
DelegatedAfterCreate(g) == Append(delegated, g)

DelegatedAfterDeactivate(id) == [delegated EXCEPT ![id].status = "inactive"]

--------------------------------------------------------------------------------
(* What the policy's readers compute from the tables. *)

\* The one resource of an administration capability; the others have none.
FixedResource(c) == IF c \in DOMAIN AdminResource THEN AdminResource[c] ELSE NULL

\* The active durable grants and, for every capability without one, what the
\* evaluator allows implicitly on the capability's fixed resource.
ListedGrants(principal, participant) ==
  LET held == {i \in DOMAIN durable :
                 /\ durable[i].principal = principal
                 /\ durable[i].participant = participant
                 /\ durable[i].status = "active"}
      implicit == {c \in KnownCapabilities \ {durable[i].capability : i \in held} :
                     Evaluate(principal, participant, c, FixedResource(c), NULL, 0, FALSE).allowed}
  IN {[capability |-> durable[i].capability, resource |-> durable[i].resource,
       origin |-> "explicit"] : i \in held}
     \cup {[capability |-> c, resource |-> FixedResource(c), origin |-> "implicit"] :
             c \in implicit}

\* Mutant of EffectiveGrants: the participant's lifecycle is not looked at.
EffectiveGrantsOfAnyone(principal, participant) == ListedGrants(principal, participant)

\* effective_grants
EffectiveGrants(principal, participant) ==
  IF participants[participant].status # "active" THEN {}
  ELSE ListedGrants(principal, participant)

\* audit_authorization_integrity: kind, table and row of what is wrong with the
\* grants, where committed is the set of keys that have a committed receipt.
DurableViolations ==
  {<<"missing_participant", "principal_grants", i>> :
     i \in {j \in DOMAIN durable : participants[durable[j].participant].status = "missing"}}
  \cup {<<"unsupported_capability", "principal_grants", i>> :
     i \in {j \in DOMAIN durable : durable[j].capability \notin KnownCapabilities}}
  \cup {<<"duplicate_durable_scope", "principal_grants", i>> :
     i \in {j \in DOMAIN durable :
              \E k \in DOMAIN durable : k > j /\ SameScope(durable[k], durable[j])}}

DelegatedGrantViolations(committed) ==
  {<<"missing_participant", "delegated_grants", i>> :
     i \in {j \in DOMAIN delegated : participants[delegated[j].participant].status = "missing"}}
  \cup {<<"unsupported_capability", "delegated_grants", i>> :
     i \in {j \in DOMAIN delegated : delegated[j].capability \notin KnownCapabilities}}
  \cup {<<"non_one_shot_consumption_metadata", "delegated_grants", i>> :
     i \in {j \in DOMAIN delegated : ~delegated[j].oneShot /\ delegated[j].consumed # NULL}}
  \cup {<<"consumed_intent_conflicts_with_binding", "delegated_grants", i>> :
     i \in {j \in DOMAIN delegated :
              /\ delegated[j].intent # NULL /\ delegated[j].consumed # NULL
              /\ delegated[j].intent # delegated[j].consumed}}
  \cup {<<"consumed_one_shot_without_committed_receipt", "delegated_grants", i>> :
     i \in {j \in DOMAIN delegated :
              /\ delegated[j].oneShot /\ delegated[j].consumed # NULL
              /\ <<delegated[j].participant, delegated[j].consumed>> \notin committed}}
================================================================================
