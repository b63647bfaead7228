------------------------------- MODULE ReadTools -------------------------------
(******************************************************************************)
(* Everything that reads: the MCP tools of mcp.rs, the REST handlers of         *)
(* access_api.rs and http.rs, and the commands of grant_admin.rs and            *)
(* execution_audit.rs, next to the executions of Execution, administrators and  *)
(* credential changes.                                                         *)
(*                                                                             *)
(* A reader has no transaction: each statement sees the database of its own     *)
(* moment.  A handler is therefore a program, the sequence of its statements;   *)
(* a check that fails ends it with the answer the handler gives, and a program  *)
(* that comes to its end gives its data.  One reader is enough, because readers *)
(* write nothing.  A caller whose request does not even parse is left out, and  *)
(* so is the check for a current schema, the subject of SchemaMigration.        *)
(******************************************************************************)
EXTENDS ExecutionAudit

CONSTANTS
  Reads,        \* the requests readers may send, any number of times each
  Provisioned,  \* the participants there are at first
  Standing,     \* durable grants of which one may be there at first
  Instances,    \* names of identities with a REST token; they may be participants too
  MaxCommits    \* bound on the commits of administrators

VARIABLES
  visibility,   \* channels.visibility
  credentials,  \* HMAC secret and REST token: their generation, and is it usable
  call,         \* the request in service, the generation of its credential and,
                \* as history of a policy audit, who did not exist when it came
  at,           \* the statement to run next
  seen,         \* what earlier statements of the request have returned
  report,       \* violations found so far
  answer,       \* "none" until the request is answered
  moments,      \* history: what has held at some moment of the request
  churn,        \* history: commits inside the last policy evaluation, 2 for more
  commits       \* commits of administrators so far

reader == <<call, at, seen, report, answer, moments, churn>>
readVars == <<vars, visibility, credentials, reader, commits>>

--------------------------------------------------------------------------------
(* Requests and statements *)

Surfaces == {"mcp", "rest", "navigation", "cli"}

Tools ==
  {"access_context", "receipt", "audit", "integrity", "sweep", "decision", "history",
   "policy", "policy_integrity", "messages", "channels", "whoami"}

\* principal = NULL is a caller without credentials, a guest over REST.
ReadRequests ==
  [surface : Surfaces, tool : Tools, principal : OrNull(Principals),
   participant : Participants, intent : Intents, channel : Channels,
   capability : KnownCapabilities]

ASSUME ReadsTyped ==
  /\ Reads \subseteq ReadRequests
  /\ Provisioned \cup Instances \subseteq Participants
  /\ Standing \subseteq {g \in DurableSpecs : g.participant \in Provisioned}
  /\ MaxCommits \in Nat

\* What each surface offers and to whom; any other request is not found or does not
\* authenticate.
ASSUME ReadsOffered ==
  \A q \in Reads :
    /\ q.surface = "mcp" => q.tool \notin {"channels", "whoami"}
    /\ q.surface = "mcp" /\ q.principal # NULL =>
         q.principal.provider \in {"participant-hmac", "oidc"}
    /\ q.surface = "navigation" => q.tool = "messages"
    /\ q.surface \in {"navigation", "cli"} => q.principal = NULL
    /\ q.surface = "cli" =>
         q.tool \in {"audit", "integrity", "sweep", "decision", "history", "policy",
                    "policy_integrity"}
    /\ q.surface = "rest" /\ q.principal # NULL =>
         q.principal.provider \in {"participant-hmac", "human-web", "bearer"}

Statement(do, capability, resource, denied) ==
  [do |-> do, capability |-> capability, resource |-> resource, denied |-> denied]

Check(do, denied) == <<Statement(do, NULL, NULL, denied)>>
Fetch(do) == Check(do, NULL)

\* evaluate_authorization for a read, three statements: the participant's row, the
\* number of explicit grants and, when there are any, the one that matches.
Authorize(capability, resource, denied) ==
  <<Statement("row", capability, resource, denied),
    Statement("count", capability, resource, denied),
    Statement("match", capability, resource, denied)>>

\* get_execution_receipt, get_execution_audit_bundle
Receipt == Check("receipt", "execution_not_found")
AuditBundle == Receipt \o Fetch("provenance") \o Fetch("ingress")

\* Mutant of VerifyStatements: the deliveries are collected first.
VerifyIngressFirst ==
  Fetch("ingress") \o Fetch("verified") \o Fetch("effect") \o Fetch("reservation")
  \o Fetch("provenance") \o Fetch("grant")

\* verify_execution_audit_integrity
VerifyStatements ==
  Fetch("verified") \o Fetch("effect") \o Fetch("reservation") \o Fetch("provenance")
  \o Fetch("grant") \o Fetch("ingress")

\* sweep_execution_audit_integrity.  The listed executions are verified one by one
\* and independently of each other, so one of them, any, is followed.
SweepStatements ==
  Fetch("list") \o VerifyStatements \o Fetch("orphan provenance")
  \o Fetch("orphan ingress") \o Fetch("orphan reservation")

\* audit_authorization_integrity
PolicyAudit ==
  Fetch("participants") \o Fetch("durable") \o Fetch("delegated") \o Fetch("receipts")

\* effective_grants, for one capability: the evaluations of the others are
\* independent of it.
EffectiveGrantsRead(q) ==
  Check("active", "unlisted") \o Fetch("held")
  \o Authorize(q.capability,
               IF q.capability \in DOMAIN AdminResource
                 THEN AdminResource[q.capability] ELSE NULL, "unlisted")

--------------------------------------------------------------------------------
(* MCP: mcp.rs.  A principal of provider oidc comes from a verified Bearer token. *)

Bearer(q) == q.principal # NULL /\ q.principal.provider = "oidc"

\* http_tool_call_requires_auth, of a server that knows an OIDC issuer (any other one
\* refuses these calls for their missing arguments): a call without credentials is
\* challenged, except a read of a channel that is public now.
Challenge(q) ==
  IF q.principal # NULL THEN <<>>
  ELSE Check(IF q.tool = "messages" THEN "public" ELSE "refuse", "challenge")

\* resolve_capability_identity
CapabilityIdentity(q) == IF Bearer(q) THEN <<>> ELSE Check("proof", "unauthorized")

\* resolve_capability_principal: a Bearer principal is authorised beforehand.
CapabilityPrincipal(q, capability, resource) ==
  IF Bearer(q) THEN Authorize(capability, resource, "forbidden") ELSE CapabilityIdentity(q)

McpAccessContext(q) == CapabilityIdentity(q) \o EffectiveGrantsRead(q)

McpReceipt(q) ==
  CapabilityPrincipal(q, "read_execution_receipt", q.intent)
  \o Authorize("read_execution_receipt", q.intent, "execution_not_found") \o Receipt

McpAudit(q) ==
  CapabilityPrincipal(q, "read_execution_audit", q.intent)
  \o Authorize("read_execution_audit", q.intent, "execution_not_found") \o AuditBundle

McpIntegrity(q) ==
  CapabilityPrincipal(q, "read_execution_audit", q.intent)
  \o Authorize("read_execution_audit", q.intent, "forbidden") \o VerifyStatements

McpSweep(q) ==
  CapabilityPrincipal(q, "read_execution_audit_sweep", "execution-audit-sweep")
  \o Authorize("read_execution_audit_sweep", "execution-audit-sweep", "forbidden")
  \o SweepStatements

McpDecision(q) ==
  CapabilityIdentity(q)
  \o Authorize("read_authorization_decision", "authorization-decision", "forbidden")
  \o Fetch("explanation")

McpHistory(q) ==
  CapabilityIdentity(q)
  \o Authorize("read_authorization_administration_history",
               "authorization-administration-history", "forbidden") \o Fetch("window")

McpPolicy(q) ==
  CapabilityIdentity(q)
  \o Authorize("read_authorization_policy", "authorization-policy", "forbidden")
  \o Fetch("window")

McpPolicyIntegrity(q) ==
  CapabilityPrincipal(q, "read_authorization_policy_integrity",
                      "authorization-policy-integrity")
  \o Authorize("read_authorization_policy_integrity", "authorization-policy-integrity",
               "forbidden") \o PolicyAudit

\* blackboard_read: policy is asked for a Bearer principal only; a signed request of
\* an active participant reads every channel.
McpRead(q) ==
  (IF Bearer(q) THEN Authorize("read_messages", q.channel, "forbidden")
   ELSE IF q.principal # NULL THEN Check("proof", "unauthorized")
   ELSE Check("public", "forbidden"))
  \o Fetch("window")

\* mcp_post and tool_call_result
McpProgram(q) ==
  Challenge(q) \o
    CASE q.tool = "access_context"   -> McpAccessContext(q)
      [] q.tool = "receipt"          -> McpReceipt(q)
      [] q.tool = "audit"            -> McpAudit(q)
      [] q.tool = "integrity"        -> McpIntegrity(q)
      [] q.tool = "sweep"            -> McpSweep(q)
      [] q.tool = "decision"         -> McpDecision(q)
      [] q.tool = "history"          -> McpHistory(q)
      [] q.tool = "policy"           -> McpPolicy(q)
      [] q.tool = "policy_integrity" -> McpPolicyIntegrity(q)
      [] q.tool = "messages"         -> McpRead(q)

--------------------------------------------------------------------------------
(* REST: access_api.rs and http.rs *)

\* resolve_request_identity_for_target: the provider is what the headers say, and a
\* guest is nobody.
RequestIdentity(q) ==
  Check(IF q.principal = NULL THEN "refuse"
        ELSE CASE q.principal.provider = "participant-hmac" -> "proof"
               [] q.principal.provider = "human-web"        -> "session"
               [] q.principal.provider = "bearer"           -> "token", "unauthorized")

HumanSession(q) == q.principal # NULL /\ q.principal.provider = "human-web"

\* The role of an inactive participant is None, and then nothing is listed.
RestAccessContext(q) ==
  RequestIdentity(q) \o Check("active", "unlisted") \o EffectiveGrantsRead(q)

\* Whoever the participant's credentials identify reads its receipts: no policy.
RestReceipt(q) == RequestIdentity(q) \o Receipt

RestAudit(q) ==
  RequestIdentity(q) \o Authorize("read_execution_audit", q.intent, "forbidden")
  \o AuditBundle

RestIntegrity(q) ==
  RequestIdentity(q) \o Authorize("read_execution_audit", q.intent, "forbidden")
  \o VerifyStatements

RestSweep(q) ==
  RequestIdentity(q)
  \o Authorize("read_execution_audit_sweep", "execution-audit-sweep", "forbidden")
  \o SweepStatements

RestDecision(q) ==
  RequestIdentity(q)
  \o Authorize("read_authorization_decision", "authorization-decision", "forbidden")
  \o Fetch("explanation")

RestHistory(q) ==
  RequestIdentity(q)
  \o Authorize("read_authorization_administration_history",
               "authorization-administration-history", "forbidden") \o Fetch("window")

RestPolicy(q) ==
  RequestIdentity(q)
  \o Authorize("read_authorization_policy", "authorization-policy", "forbidden")
  \o Fetch("window")

RestPolicyIntegrity(q) ==
  RequestIdentity(q)
  \o Authorize("read_authorization_policy_integrity", "authorization-policy-integrity",
               "forbidden") \o PolicyAudit

\* A guest reads public channels, an identified caller all of them.
RestMessages(q) ==
  (IF q.principal = NULL THEN Check("public", "forbidden") ELSE RequestIdentity(q))
  \o Fetch("window")

\* require_human_admin and the directory, for a human's session only: the identity is
\* looked up whatever its status, the role only of an active participant.
AdminChannels(q) ==
  Check(IF HumanSession(q) THEN "session" ELSE "refuse", "unauthorized")
  \o Check("admin", "forbidden") \o Fetch("window")

\* A guest is told so without a statement.  Signed requests are for other targets only.
Whoami(q) ==
  IF q.principal # NULL /\ q.principal.provider = "participant-hmac"
    THEN Check("refuse", "unauthorized") ELSE RequestIdentity(q)

RestProgram(q) ==
  CASE q.tool = "access_context"   -> RestAccessContext(q)
    [] q.tool = "receipt"          -> RestReceipt(q)
    [] q.tool = "audit"            -> RestAudit(q)
    [] q.tool = "integrity"        -> RestIntegrity(q)
    [] q.tool = "sweep"            -> RestSweep(q)
    [] q.tool = "decision"         -> RestDecision(q)
    [] q.tool = "history"          -> RestHistory(q)
    [] q.tool = "policy"           -> RestPolicy(q)
    [] q.tool = "policy_integrity" -> RestPolicyIntegrity(q)
    [] q.tool = "messages"         -> RestMessages(q)
    [] q.tool = "channels"         -> AdminChannels(q)
    [] q.tool = "whoami"           -> Whoami(q)

NavigationRead == Check("public", "channel_not_found") \o Fetch("window")

--------------------------------------------------------------------------------
(* The command line: whoever can open the file may read it. *)

\* execution_audit.rs
ExecutionCommands(q) ==
  CASE q.tool = "audit"     -> AuditBundle
    [] q.tool = "integrity" -> VerifyStatements
    [] q.tool = "sweep"     -> SweepStatements

\* grant_admin.rs: Verify, History, List and Explain
GrantVerify == PolicyAudit
GrantHistory == Fetch("window")
GrantList == Fetch("window")
GrantExplain == Fetch("explanation")

CliProgram(q) ==
  CASE q.tool = "policy_integrity" -> GrantVerify
    [] q.tool = "history"          -> GrantHistory
    [] q.tool = "policy"           -> GrantList
    [] q.tool = "decision"         -> GrantExplain
    [] OTHER                       -> ExecutionCommands(q)

Program(q) ==
  CASE q.surface = "mcp"        -> McpProgram(q)
    [] q.surface = "rest"       -> RestProgram(q)
    [] q.surface = "navigation" -> NavigationRead
    [] q.surface = "cli"        -> CliProgram(q)

Programs == [q \in Reads |-> Program(q)]

--------------------------------------------------------------------------------
(* What a statement does *)

Usable(credential, key) == credential.usable /\ credential.generation = key

\* get_web_participant_auth and the proof: the secret it was made with is the
\* participant's, and the participant is active.
ProofValid(c) ==
  /\ HasSecret(c.read.participant)
  /\ Usable(credentials[c.read.participant].secret, c.key)

\* resolve_identity: the token's hash is one of the identities, active or not.
TokenValid(c) == Usable(credentials[c.read.participant].token, c.key)

\* channel_is_public_active
PublicActive(c) == channels[c] = "active" /\ visibility[c] = "public"

\* get_web_participant_role, of an active participant
IsAdmin(p) == participants[p].status = "active" /\ participants[p].role = "admin"

\* Mutant of PolicyAllows: implicit authority also counts next to explicit grants.
PolicyAllowsEither(s, q) ==
  \/ ExplicitMatches(q.principal, q.participant, s.capability, s.resource) # {}
  \/ seen.implicit

\* The end of evaluate_authorization: with explicit grants one must match, without
\* any the implicit authority of the row that was read decides.
PolicyAllows(s, q) ==
  IF seen.explicit
    THEN ExplicitMatches(q.principal, q.participant, s.capability, s.resource) # {}
    ELSE seen.implicit

\* The execution that is looked at: the one asked for or the one the sweep follows.
KeyInView(q) == IF q.tool = "sweep" THEN seen.key ELSE <<q.participant, q.intent>>

Refused(s, c) ==
  LET q == c.read
  IN CASE s.do = "refuse"  -> TRUE
       [] s.do = "proof"   -> ~ProofValid(c)
       [] s.do = "token"   -> ~TokenValid(c)
       [] s.do = "session" -> ~Known(q.participant)
       [] s.do = "public"  -> ~PublicActive(q.channel)
       [] s.do = "admin"   -> ~IsAdmin(q.participant)
       [] s.do \in {"row", "active"} -> participants[q.participant].status # "active"
       [] s.do = "match"   -> ~PolicyAllows(s, q)
       [] s.do = "receipt" -> receipts[KeyInView(q)] = NULL
       [] OTHER            -> FALSE

\* Statements after which the program is over at once: a capability held explicitly
\* is listed, an execution without a receipt is not looked at further.
Finishes(s, q) ==
  \/ s.do = "held" /\ ExplicitGrants(q.principal, q.participant, q.capability) # {}
  \/ s.do = "verified" /\ q.tool = "integrity" /\ receipts[KeyInView(q)] = NULL

\* Mutant of KnownIds: the audit reads the active participants only.
ActiveIds == {p \in Participants : participants[p].status = "active"}

\* SELECT participant_id FROM web_participants
KnownIds == {p \in Participants : Known(p)}

NothingSeen ==
  [implicit |-> FALSE, explicit |-> FALSE, key |-> NULL, known |-> {}, spent |-> {}]

\* What the program remembers of the statement's rows.  Which execution a sweep
\* follows is the parameter k.
Learnt(s, q, k) ==
  CASE s.do = "row" ->
         [seen EXCEPT !.implicit =
            ImplicitReason(q.principal, q.participant, s.capability, s.resource) # NULL]
    [] s.do = "count" ->
         [seen EXCEPT !.explicit =
            ExplicitGrants(q.principal, q.participant, s.capability) # {}]
    [] s.do = "match" -> NothingSeen
    [] s.do = "list" -> [seen EXCEPT !.key = k]
    [] s.do = "participants" -> [seen EXCEPT !.known = KnownIds]
    [] s.do = "delegated" ->
         [seen EXCEPT !.spent =
            {<<delegated[g].participant, delegated[g].consumed>> :
               g \in {h \in DOMAIN delegated :
                        delegated[h].oneShot /\ delegated[h].consumed # NULL}}]
    [] OTHER -> seen

\* Rows of a grant table whose participant is not among the ones read before.
Strangers(table) ==
  If(\E g \in DOMAIN table : table[g].participant \notin seen.known, "missing_participant")

Kinds(violations) == {v[1] : v \in violations} \ {"missing_participant"}

OrphanKinds == {v[1] : v \in Orphans}

\* The violations a statement reports.  Rows read by an earlier statement of the
\* same execution are evidence and never change (EvidenceAppendOnly).
Found(s, q) ==
  LET k == KeyInView(q)
      received == k # NULL /\ receipts[k] # NULL
  IN CASE s.do = "durable"   -> Kinds(DurableViolations) \cup Strangers(durable)
       [] s.do = "delegated" -> Strangers(delegated)
            \cup (Kinds(DelegatedGrantViolations({})) \
                    {"consumed_one_shot_without_committed_receipt"})
       [] s.do = "receipts"  ->
            If(\E j \in seen.spent : receipts[j] = NULL,
               "consumed_one_shot_without_committed_receipt")
       [] s.do \in {"orphan provenance", "orphan ingress", "orphan reservation"} ->
            OrphanKinds \cap
              {CASE s.do = "orphan provenance"  -> "orphan_authorization_provenance"
                 [] s.do = "orphan ingress"     -> "orphan_ingress_provenance"
                 [] s.do = "orphan reservation" -> "orphan_navigation_reservation"}
       [] s.do = "verified" -> If(k # NULL /\ receipts[k] = NULL, "receipt_missing")
       [] s.do = "ingress" /\ k # NULL      -> IngressViolations(k)
       [] s.do = "effect" /\ received       -> EffectViolations(k)
       [] s.do = "reservation" /\ received  -> NavigationViolations(k)
       [] s.do = "provenance" /\ received   -> AuthorizationViolations(k)
       [] s.do = "grant" /\ received        -> DelegatedViolations(k)
       [] OTHER -> {}

--------------------------------------------------------------------------------
(* What the policy says at one moment: the reference for the programs *)

Required ==
  [receipt          |-> "read_execution_receipt",
   audit            |-> "read_execution_audit",
   integrity        |-> "read_execution_audit",
   sweep            |-> "read_execution_audit_sweep",
   decision         |-> "read_authorization_decision",
   history          |-> "read_authorization_administration_history",
   policy           |-> "read_authorization_policy",
   policy_integrity |-> "read_authorization_policy_integrity"]

AllowedNow(q, capability, resource) ==
  Evaluate(q.principal, q.participant, capability, resource, NULL, now, FALSE).allowed

PermittedNow(q) ==
  \/ q.surface = "cli" \/ q.tool = "whoami"
  \/ q.tool = "receipt" /\ q.surface = "rest"
  \/ q.tool = "messages" /\ q.principal = NULL /\ PublicActive(q.channel)
  \/ /\ q.principal # NULL
     /\ CASE q.tool = "messages" ->
               Bearer(q) => AllowedNow(q, "read_messages", q.channel)
          [] q.tool = "channels" ->
               q.principal.provider = "human-web" /\ IsAdmin(q.participant)
          [] q.tool = "access_context" ->
               \E g \in EffectiveGrants(q.principal, q.participant) :
                  g.capability = q.capability
          [] OTHER ->
               LET capability == Required[q.tool]
               IN AllowedNow(q, capability,
                             IF capability \in DOMAIN AdminResource
                               THEN AdminResource[capability] ELSE q.intent)

AuthenticNow(c) ==
  LET q == c.read
  IN IF q.principal = NULL THEN TRUE
     ELSE CASE q.principal.provider = "participant-hmac" -> ProofValid(c)
            [] q.principal.provider = "human-web"        -> Known(q.participant)
            [] q.principal.provider = "bearer"           -> TokenValid(c)
            [] OTHER                                     -> TRUE

Moments(c) ==
  If(PermittedNow(c.read), "permitted") \cup If(AuthenticNow(c), "authentic")

--------------------------------------------------------------------------------
(* The reader *)

\* The key a caller signs with is the one its participant has when it sends.
KeyOfCaller(q) ==
  IF q.principal = NULL THEN 0
  ELSE CASE q.principal.provider = "participant-hmac" ->
              credentials[q.participant].secret.generation
         [] q.principal.provider = "bearer" -> credentials[q.participant].token.generation
         [] OTHER -> 0

BeginRead(q) ==
  /\ call = NULL
  /\ call' = [read |-> q, key |-> KeyOfCaller(q), absent |->
              {p \in Participants : q.tool = "policy_integrity" /\ ~Known(p)}]
  /\ at' = 1
  /\ moments' = Moments(call')
  /\ UNCHANGED <<vars, visibility, credentials, seen, report, answer, churn, commits>>

InService == call # NULL /\ answer = "none"

\* The data is given, or an error; of a request that failed only its answer is left.
Give ==
  /\ answer' = "given"
  /\ seen' = NothingSeen
  /\ UNCHANGED <<at, moments>>

Answer(status) ==
  /\ answer' = status
  /\ at' = 0 /\ seen' = NothingSeen /\ report' = {} /\ moments' = {} /\ churn' = 0

\* The next statement runs: it is refused, it is the last one, or the program goes on.
ReadStep ==
  LET q == call.read
      program == Programs[q]
      s == program[at]
  IN /\ InService
     /\ \/ /\ Refused(s, call)
           /\ Answer(s.denied)
        \/ /\ ~Refused(s, call)
           /\ report' = report \cup Found(s, q)
           /\ churn' = IF s.do = "row" THEN 0 ELSE churn
           /\ IF at = Len(program) \/ Finishes(s, q)
                THEN Give
                ELSE /\ \E k \in OrNull(Keys) :
                          /\ s.do = "list" =>
                               IF \E j \in Keys : receipts[j] # NULL
                                 THEN k # NULL /\ receipts[k] # NULL ELSE k = NULL
                          /\ s.do # "list" => k = NULL
                          /\ seen' = Learnt(s, q, k)
                     /\ at' = at + 1
                     /\ UNCHANGED <<answer, moments>>
     /\ UNCHANGED <<vars, visibility, credentials, call, commits>>

\* A statement fails (I/O error, lock): database_unavailable, except that a failed
\* look for the challenge counts as no challenge.
ReadFails ==
  LET program == Programs[call.read]
  IN /\ InService
     /\ IF program[at].denied = "challenge" /\ program[at].do = "public"
          THEN at' = at + 1 /\ UNCHANGED <<seen, report, answer, moments, churn>>
          ELSE Answer("database_unavailable")
     /\ UNCHANGED <<vars, visibility, credentials, call, commits>>

\* The answer is sent and the request forgotten.
EndRead ==
  /\ call # NULL /\ answer # "none"
  /\ call' = NULL /\ at' = 0 /\ seen' = NothingSeen /\ report' = {}
  /\ answer' = "none" /\ moments' = {} /\ churn' = 0
  /\ UNCHANGED <<vars, visibility, credentials, commits>>

--------------------------------------------------------------------------------
(* Everyone else.  What others do while an answer is on its way changes nothing   *)
(* about it, so they move before or after that step.                            *)

\* A commit of another actor: a new moment of the request in service.
Meanwhile(inEvaluation) ==
  /\ call = NULL \/ answer = "none"
  /\ UNCHANGED <<call, at, seen, report, answer>>
  /\ moments' = IF call = NULL THEN moments ELSE moments \cup Moments(call)'
  /\ churn' = IF inEvaluation /\ churn < 2 THEN churn + 1 ELSE churn

InEvaluation ==
  /\ InService
  /\ Programs[call.read][at].do \in {"count", "match"}

\* A worker of Execution moves.
WorkerStep(w) ==
  /\ \/ \E r \in Requests : Receive(w, r)
     \/ Serve(w)
  /\ UNCHANGED <<visibility, credentials, commits>>
  /\ Meanwhile(FALSE)

\* A commit of an administrator, by command line or REST.  A command that changes
\* nothing is no commit.
Commit ==
  /\ commits < MaxCommits
  /\ commits' = commits + 1
  /\ Meanwhile(InEvaluation)

OtherTables == <<durable, delegated, channels, messages, evidence>>

SetRole(p, role) ==
  /\ participants[p].status # "missing" /\ participants[p].role # role
  /\ participants' = [participants EXCEPT ![p].role = role]
  /\ UNCHANGED <<OtherTables, visibility, credentials>>
  /\ AdminCommit /\ Commit

ProvisionParticipant(p) ==
  /\ participants[p].status = "missing"
  /\ participants' = [participants EXCEPT ![p].status = "active"]
  /\ UNCHANGED <<OtherTables, visibility, credentials>>
  /\ AdminCommit /\ Commit

ChangeStatus(p, s) ==
  /\ participants[p].status # s
  /\ SetParticipantStatus(p, s)
  /\ UNCHANGED <<visibility, credentials>>
  /\ Commit

\* PATCH of a channel's visibility
SetVisibility(c, v) ==
  /\ channels[c] # "missing" /\ visibility[c] # v
  /\ visibility' = [visibility EXCEPT ![c] = v]
  /\ UNCHANGED <<tables, credentials>>
  /\ AdminCommit /\ Commit

\* A new secret or token replaces the old one, which no longer verifies.
Renew(p, kind) ==
  credentials' = [credentials EXCEPT
    ![p][kind] = [generation |-> @.generation + 1, usable |-> TRUE]]

CredentialCommit == UNCHANGED <<tables, visibility>> /\ AdminCommit /\ Commit

\* participant auth-generate refuses when there is a secret, auth-rotate does not.
AuthGenerate(p) ==
  /\ Known(p) /\ ~credentials[p].secret.usable
  /\ Renew(p, "secret")
  /\ CredentialCommit

AuthRotate(p) == Known(p) /\ Renew(p, "secret") /\ CredentialCommit

AuthRevoke(p) ==
  /\ credentials[p].secret.usable
  /\ credentials' = [credentials EXCEPT ![p].secret.usable = FALSE]
  /\ CredentialCommit

\* identity register makes the instance, rotate needs one, revoked or not.
Registered(p) == credentials[p].token.generation > 0

RegisterIdentity(p) == ~Registered(p) /\ Renew(p, "token") /\ CredentialCommit

RotateToken(p) == Registered(p) /\ Renew(p, "token") /\ CredentialCommit

RevokeToken(p) ==
  /\ Registered(p) /\ credentials[p].token.usable
  /\ credentials' = [credentials EXCEPT ![p].token.usable = FALSE]
  /\ CredentialCommit

\* The grant commands of grant_admin.rs
GrantCommit == UNCHANGED <<visibility, credentials>> /\ Commit

GrantCreate == (\E g \in GrantSpecs : CreateDelegatedGrant(g)) /\ GrantCommit
GrantDeactivate == (\E id \in DOMAIN delegated : DeactivateDelegatedGrant(id)) /\ GrantCommit
GrantDurable ==
  /\ \/ \E g \in DurableSpecs : CreateDurableGrant(g)
     \/ \E id \in DOMAIN durable : DeactivateDurableGrant(id)
  /\ GrantCommit

\* The same by REST: the handler has identified the caller, refused participant-hmac,
\* and the command succeeds only if the caller may administer the policy it changes.
RestAdministrator ==
  \E p \in Participants, provider \in {"human-web", "bearer"} :
    Evaluate([provider |-> provider, subject |-> p], p, "manage_authorization_policy",
             AdminResource.manage_authorization_policy, NULL, now, FALSE).allowed

RestCreateDurable ==
  RestAdministrator /\ (\E g \in DurableSpecs : CreateDurableGrant(g)) /\ GrantCommit
RestCreateDelegated == RestAdministrator /\ GrantCreate
RestDeactivateDelegated == RestAdministrator /\ GrantDeactivate
RestDeactivateDurable ==
  /\ RestAdministrator
  /\ \E id \in DOMAIN durable : DeactivateDurableGrant(id)
  /\ GrantCommit

--------------------------------------------------------------------------------

NewCredential == [generation |-> 0, usable |-> FALSE]

\* A board in use: participants with a secret, some of them administrators, and
\* perhaps a grant.
ReadInit ==
  /\ \E admins \in SUBSET Provisioned :
       participants =
         [p \in Participants |->
            [status |-> IF p \in Provisioned THEN "active" ELSE "missing",
             role |-> IF p \in admins THEN "admin" ELSE "user", owner |-> NULL]]
  /\ durable \in {<<>>} \cup {<<g>> : g \in Standing}
  /\ delegated = <<>> /\ messages = <<>>
  /\ channels = [c \in Channels |-> "missing"]
  /\ nav = [k \in Keys |-> NULL] /\ receipts = [k \in Keys |-> NULL]
  /\ ingress = [d \in Deliveries |-> NULL] /\ provenance = [k \in Keys |-> NULL]
  /\ now = 0 /\ writer = NULL /\ fresh = {}
  /\ pc = [w \in Workers |-> "idle"] /\ req = [w \in Workers |-> NULL]
  /\ decision = [w \in Workers |-> NULL] /\ response = [w \in Workers |-> NoResponse]
  /\ visibility = [c \in Channels |-> "private"]
  /\ credentials = [p \in Participants |->
                      [secret |-> [generation |-> 1, usable |-> Known(p)],
                       token |-> NewCredential]]
  /\ call = NULL /\ at = 0 /\ seen = NothingSeen /\ report = {} /\ answer = "none"
  /\ moments = {} /\ churn = 0 /\ commits = 0

ReadNext ==
  \/ \E q \in Reads : BeginRead(q)
  \/ ReadStep
  \/ ReadFails
  \/ EndRead
  \/ \E w \in Workers : WorkerStep(w)
  \/ \E p \in Participants, role \in {"user", "admin"} : SetRole(p, role)
  \/ \E p \in Participants : ProvisionParticipant(p)
  \/ \E p \in Participants, s \in {"active", "inactive"} : ChangeStatus(p, s)
  \/ \E c \in Channels, v \in {"public", "private"} : SetVisibility(c, v)
  \/ \E p \in Participants : AuthGenerate(p) \/ AuthRotate(p) \/ AuthRevoke(p)
  \/ \E p \in Instances : RegisterIdentity(p) \/ RotateToken(p) \/ RevokeToken(p)
  \/ GrantCreate
  \/ GrantDeactivate
  \/ GrantDurable
  \/ RestCreateDurable
  \/ RestCreateDelegated
  \/ RestDeactivateDelegated
  \/ RestDeactivateDurable

ReadSpec == ReadInit /\ [][ReadNext]_readVars

--------------------------------------------------------------------------------
(* Properties *)

\* Whatever is revoked, rotated, deactivated or narrowed while a request is served,
\* data is given only to a caller whose credential was valid at some moment of the
\* request and to whom the policy, the role or the channel's visibility permitted
\* the read at some moment of it.  Exempt are requests that saw two or more commits
\* inside one evaluation: its statements then combine rows of different policies.
AnswersPermitted ==
  answer = "given" =>
    /\ "authentic" \in moments
    /\ churn <= 1 => "permitted" \in moments

\* An audit of the executions, taken statement by statement while executions commit,
\* reports nothing, and an audit bundle is never without the authorization and the
\* delivery of its receipt: receipts are read before the evidence they vouch for.
AuditReportsClean ==
  answer = "given" /\ call.read.tool \in {"audit", "integrity", "sweep"} =>
    report \subseteq If(call.read.tool = "integrity", "receipt_missing")

\* So does an audit of the policy, with one exception: a participant provisioned after
\* the audit has read the participants is missing to it when a grant refers to it.
PolicyReportClean ==
  answer = "given" /\ call.read.tool = "policy_integrity" =>
    /\ report \subseteq {"missing_participant"}
    /\ report # {} => \E p \in call.absent : Known(p)
================================================================================
