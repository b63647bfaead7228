------------------------------- MODULE Execution -------------------------------
(******************************************************************************)
(* Posting a message: src/execution.rs (execute_message_intent), the handlers  *)
(* of http.rs, mcp.rs, oidc.rs and github_webhook.rs that call it, and the two  *)
(* older write paths that share its tables, the navigation write and the plain  *)
(* post.                                                                       *)
(*                                                                             *)
(* Every handler step runs on its own SQLite connection, so requests interleave *)
(* between steps.  SQLite is modelled by what WAL mode does with the statements *)
(* the code issues: one writer at a time (writer); a transaction that begins    *)
(* with a read keeps the snapshot it read (fresh holds the workers whose        *)
(* snapshot is still the last commit) and its first write fails at once when    *)
(* the lock is taken or another commit came in between; a statement that begins *)
(* with a write waits for the lock, at most busy_timeout.  What a transaction   *)
(* writes becomes visible in one step, its COMMIT; every early return and every *)
(* error drops it.                                                              *)
(******************************************************************************)
EXTENDS Authorization

CONSTANTS
  Workers,      \* requests in service at the same time
  Channels,     \* channel names; the resource of post_message
  Bodies,       \* kind + body + conversation_ref of a message
  Issues,       \* GitHub issue numbers
  Requests,     \* the requests clients may send, any number of times each
  GrantSpecs,   \* delegated grants the administrator may create
  Owners,       \* GitHub accounts that may be set as a participant's owner
  DurableSpecs, \* durable grants the administrator may create
  MaxGrants,    \* bound on the rows of each grant table
  MaxMessages,  \* bound on the messages after which no plain post is accepted
  MaxTime       \* bound on the clock

VARIABLES
  channels,     \* channels.status, "missing" when there is no row
  messages,     \* messages; the rowid is the position
  nav,          \* navigation_writes by (instance, nonce)
  receipts,     \* execution_receipts by (participant_id, intent_id)
  ingress,      \* ingress_provenance by delivery_id
  provenance,   \* execution_authorization_provenance by (participant_id, intent_id)
  now,          \* unixepoch()
  writer,       \* the worker that holds SQLite's write lock
  fresh,        \* workers whose read snapshot is the last commit
  pc, req, decision, response   \* per worker: step, request, decision, last answer

evidence == <<nav, receipts, ingress, provenance>>
tables == <<policy, channels, messages, evidence>>
local == <<writer, fresh, pc, req, decision, response>>
vars == <<tables, now, local>>

--------------------------------------------------------------------------------
(* Requests *)

ExecuteTransports == {"rest-hmac", "mcp-hmac", "mcp-bearer", "oidc", "github"}
Transports == ExecuteTransports \cup {"navigation", "plain"}

Contents == [channel : Channels, body : Bodies, replyTo : Nat]   \* 0: no reply_to

RequestType ==
  [via : Transports, principal : Principals, participant : Participants,
   intent : OrNull(Intents), issue : OrNull(Issues), content : Contents]

\* The client's key for a request: (participant_id, nonce or intent_id).
Keys == Participants \X Intents
KeyOf(r) == <<r.participant, r.intent>>

\* Mutant of DeliveryId: the transport prefix is missing.
DeliveryIdShared(r) == <<r.participant, r.intent>>

\* delivery_id as each transport builds it.  Only oidc puts the caller in it, and
\* an issue is one delivery whatever intent it asks for.
OidcDelivery(r)   == <<"oidc", r.principal.subject, r.participant, r.intent>>
GithubDelivery(r) == <<"github", r.issue>>
DeliveryId(r) ==
  CASE r.via = "oidc"   -> OidcDelivery(r)
    [] r.via = "github" -> GithubDelivery(r)
    [] OTHER            -> <<r.via, r.participant, r.intent>>

Deliveries == {DeliveryId(r) : r \in {q \in Requests : q.via \in ExecuteTransports}}

\* message_request_hash hashes a JSON object with a conversation_ref member, the
\* navigation write one without: two disjoint injective encodings of a content.
ExecutionHash(c)  == [schema |-> "execution", content |-> c]
NavigationHash(c) == [schema |-> "navigation", content |-> c]
Hashes == [schema : {"execution", "navigation"}, content : Contents]

ASSUME RequestsTyped ==
  /\ Requests \subseteq RequestType
  /\ \A r \in Requests : r.via # "plain" => r.intent \in Intents
ASSUME OwnersAreSubjects == Owners \subseteq Subjects
ASSUME ChannelsAreResources == Channels \subseteq Resources
ASSUME GrantSpecsTyped ==
  /\ GrantSpecs \subseteq DelegatedGrants
  /\ \A g \in GrantSpecs : g.consumed = NULL /\ g.status = "active"
  /\ DurableSpecs \subseteq {g \in DurableGrants : g.status = "active"}
ASSUME NullIsNoRow == NULL \notin Workers \cup Issues
ASSUME BoundsTyped == MaxGrants \in Nat /\ MaxMessages \in Nat /\ MaxTime \in Nat

--------------------------------------------------------------------------------
(* Rows *)

MessageRows == [participant : Participants, content : Contents]
NavRows     == [hash : Hashes, message : Nat]
ReceiptRows == [hash : Hashes, message : Nat]
IngressRows == [participant : Participants, intent : Intents, via : Transports,
                principal : Principals]
ProvenanceRows ==
  [principal : Principals, resource : Resources,
   source : Sources, reason : Reasons, grant : OrNull(Nat)]

\* SQL NULL, the absent row, is no row.
ASSUME NullIsNoEvidence ==
  NULL \notin NavRows \cup ReceiptRows \cup IngressRows \cup ProvenanceRows

Statuses ==
  {"none", "created", "existing", "unauthorized", "authorization_denied",
   "channel_archived", "nonce_conflict", "intent_conflict",
   "reply_target_not_found", "database_unavailable"}

Steps == {"idle", "channel", "begin", "evaluated", "locked"}

NoResponse == [status |-> "none", message |-> 0]

TypeOK ==
  /\ PolicyTypeOK
  /\ channels \in [Channels -> {"missing", "active", "archived"}]
  /\ messages \in Seq(MessageRows)
  /\ nav \in [Keys -> OrNull(NavRows)]
  /\ receipts \in [Keys -> OrNull(ReceiptRows)]
  /\ ingress \in [Deliveries -> OrNull(IngressRows)]
  /\ provenance \in [Keys -> OrNull(ProvenanceRows)]
  /\ now \in Nat
  /\ writer \in OrNull(Workers)
  /\ fresh \subseteq Workers
  /\ pc \in [Workers -> Steps]
  /\ req \in [Workers -> OrNull(Requests)]
  /\ decision \in [Workers -> OrNull(Decisions)]
  /\ response \in [Workers -> [status : Statuses, message : Nat]]

Init ==
  /\ participants = [p \in Participants |->
                       [status |-> "active", role |-> "user", owner |-> NULL]]
  /\ durable = <<>>
  /\ delegated = <<>>
  /\ channels = [c \in Channels |-> "missing"]
  /\ messages = <<>>
  /\ nav = [k \in Keys |-> NULL]
  /\ receipts = [k \in Keys |-> NULL]
  /\ ingress = [d \in Deliveries |-> NULL]
  /\ provenance = [k \in Keys |-> NULL]
  /\ now = 0
  /\ writer = NULL
  /\ fresh = {}
  /\ pc = [w \in Workers |-> "idle"]
  /\ req = [w \in Workers |-> NULL]
  /\ decision = [w \in Workers |-> NULL]
  /\ response = [w \in Workers |-> NoResponse]

--------------------------------------------------------------------------------
(* Handler steps *)

\* The handler returns: its connection, and with it any transaction, is dropped.
Respond(w, status, message) ==
  /\ pc' = [pc EXCEPT ![w] = "idle"]
  /\ decision' = [decision EXCEPT ![w] = NULL]
  /\ response' = [response EXCEPT ![w] = [status |-> status, message |-> message]]

GoTo(w, step) ==
  /\ pc' = [pc EXCEPT ![w] = step]
  /\ UNCHANGED <<decision, response>>

\* A commit that changed a row outdates every snapshot taken before it.
Outdate == fresh' = {}

MessageExists(m) == m \in 1..Len(messages)

ReplyMissing(r) == r.content.replyTo # 0 /\ ~MessageExists(r.content.replyTo)

\* INSERT OR IGNORE INTO channels
ChannelsWith(c) == [channels EXCEPT ![c] = IF @ = "missing" THEN "active" ELSE @]

\* Mutant of Reserved: the reservation is an INSERT OR REPLACE.
NeverReserved(k) == FALSE

\* INSERT OR IGNORE INTO navigation_writes inserted nothing: the key is taken.
Reserved(k) == nav[k] # NULL

\* Mutant of NavRow: message_id keeps its placeholder 0.
NavRowUnset(hash, m) == [hash |-> hash, message |-> 0]

\* The reservation row, with message_id set once the message has a rowid.
NavRow(hash, m) == [hash |-> hash, message |-> m]

\* get_web_participant_auth: only an active participant has a usable secret.
HasSecret(p) == participants[p].status = "active"

\* get_web_participant looks the row up, whatever its status.
Known(p) == participants[p].status # "missing"

\* Who may write, as each handler finds out: a request signed with the secret of
\* the participant needs that secret, the others have authenticated the principal
\* (session, token or webhook signature) and look the participant up.
SignedWriter(r)     == HasSecret(r.participant)
NavigationWriter(r) == HasSecret(r.participant)
McpWriter(r)        == IF r.via = "mcp-hmac" THEN HasSecret(r.participant)
                                             ELSE Known(r.participant)
OidcWriter(r)       == Known(r.participant)
GithubWriter(r)     == Known(r.participant)
PlainWriter(r)      == Known(r.participant)

Authenticated(r) ==
  CASE r.via = "rest-hmac"  -> SignedWriter(r)
    [] r.via = "navigation" -> NavigationWriter(r)
    [] r.via = "oidc"       -> OidcWriter(r)
    [] r.via = "github"     -> GithubWriter(r)
    [] r.via = "plain"      -> PlainWriter(r)
    [] OTHER                -> McpWriter(r)

\* First connection: resolve the caller's identity (and, for a plain post, the
\* reply target).  Messages are never deleted, so the two reads are one step.
Receive(w, r) ==
  /\ pc[w] = "idle"
  /\ r.via = "plain" => Len(messages) < MaxMessages
  /\ req' = [req EXCEPT ![w] = r]
  /\ \/ /\ ~Authenticated(r)
        /\ Respond(w, "unauthorized", 0)
     \/ /\ Authenticated(r)
        /\ r.via = "plain" /\ ReplyMissing(r)
        /\ Respond(w, "reply_target_not_found", 0)
     \/ /\ Authenticated(r)
        /\ ~(r.via = "plain" /\ ReplyMissing(r))
        /\ GoTo(w, IF r.via \in {"rest-hmac", "navigation", "plain"}
                     THEN "channel" ELSE "begin")
  /\ UNCHANGED <<tables, now, writer, fresh>>

\* ensure_channel_for_write, before the write itself: an INSERT OR IGNORE and a
\* read of the status.  An archive between the two is one just before them.
EnsureChannel(w) ==
  LET c == req[w].content.channel
  IN /\ pc[w] = "channel"
     /\ writer = NULL
     /\ channels' = ChannelsWith(c)
     /\ IF channels[c] = "missing" THEN Outdate ELSE UNCHANGED fresh
     /\ IF channels[c] = "archived" THEN Respond(w, "channel_archived", 0)
                                    ELSE GoTo(w, "begin")
     /\ UNCHANGED <<policy, messages, evidence, now, writer, req>>

\* append_message: the last step of a plain post.  It ensures the channel again
\* but does not look at its status again.
AppendPlain(w) ==
  LET r == req[w]
  IN /\ pc[w] = "begin" /\ r.via = "plain"
     /\ writer = NULL
     /\ channels' = ChannelsWith(r.content.channel)
     /\ messages' = Append(messages, [participant |-> r.participant,
                                      content |-> r.content])
     /\ Respond(w, "created", Len(messages) + 1)
     /\ Outdate
     /\ UNCHANGED <<policy, evidence, now, writer, req>>

\* append_navigation_message: one transaction that begins with a write.
AppendNavigation(w) ==
  LET r == req[w]
      k == KeyOf(r)
      c == r.content
  IN /\ pc[w] = "begin" /\ r.via = "navigation"
     /\ writer = NULL
     /\ \/ /\ Reserved(k)
           /\ IF nav[k].hash = NavigationHash(c)
                THEN Respond(w, "existing", nav[k].message)
                ELSE Respond(w, "nonce_conflict", 0)
           /\ UNCHANGED <<channels, messages, nav, fresh>>
        \/ /\ ~Reserved(k) /\ ReplyMissing(r)
           /\ Respond(w, "reply_target_not_found", 0)
           /\ UNCHANGED <<channels, messages, nav, fresh>>
        \/ /\ ~Reserved(k) /\ ~ReplyMissing(r)
           /\ channels' = ChannelsWith(c.channel)
           /\ messages' = Append(messages, [participant |-> r.participant,
                                            content |-> c])
           /\ nav' = [nav EXCEPT ![k] = NavRow(NavigationHash(c), Len(messages) + 1)]
           /\ Respond(w, "created", Len(messages) + 1)
           /\ Outdate
     /\ UNCHANGED <<policy, receipts, ingress, provenance, now, writer, req>>

\* Mutant of BusyTimeout: no busy_timeout, wait forever.
WaitForever(w) == FALSE

\* A statement that begins with a write gives up after busy_timeout.
BusyTimeout(w) ==
  /\ \/ pc[w] = "channel"
     \/ pc[w] = "begin" /\ req[w].via \in {"plain", "navigation"}
  /\ writer # NULL
  /\ Respond(w, "database_unavailable", 0)
  /\ UNCHANGED <<tables, now, writer, fresh, req>>

--------------------------------------------------------------------------------
(* execute_message_intent *)

\* evaluate_authorization for request r in the current database at time t.
DecisionFor(r, t) ==
  Evaluate(r.principal, r.participant, "post_message", r.content.channel,
           r.intent, t, receipts[KeyOf(r)] # NULL)

\* BEGIN DEFERRED and the policy reads: the transaction's snapshot starts here.
BeginExecute(w) ==
  LET d == DecisionFor(req[w], now)
  IN /\ pc[w] = "begin" /\ req[w].via \in ExecuteTransports
     /\ \/ /\ ~d.allowed
           /\ Respond(w, "authorization_denied", 0)
           /\ UNCHANGED fresh
        \/ /\ d.allowed
           /\ decision' = [decision EXCEPT ![w] = d]
           /\ pc' = [pc EXCEPT ![w] = "evaluated"]
           /\ fresh' = fresh \cup {w}
           /\ UNCHANGED response
     /\ UNCHANGED <<tables, now, writer, req>>

\* Mutant of CanUpgrade: a stale snapshot may write.
CanUpgradeStale(w) == writer = NULL

\* The first write asks for the lock.  SQLite refuses to upgrade a snapshot that
\* is no longer the last commit, and never waits when a read is open.
CanUpgrade(w) == writer = NULL /\ w \in fresh

AcquireWriteLock(w) ==
  /\ pc[w] = "evaluated"
  /\ \/ /\ CanUpgrade(w)
        /\ writer' = w
        /\ GoTo(w, "locked")
        /\ UNCHANGED fresh
     \/ /\ ~CanUpgrade(w)
        /\ Respond(w, "database_unavailable", 0)
        /\ fresh' = fresh \ {w}
        /\ UNCHANGED writer
  /\ UNCHANGED <<tables, now, req>>

\* Mutant of Conflicts: any later content counts as a retry.
ConflictsNever(row, c) == FALSE

\* IntentConflict: another hash and another content under the same key.
Conflicts(row, c) ==
  row.hash # ExecutionHash(c) /\ messages[row.message].content # c

IngressRow(r) ==
  [participant |-> r.participant, intent |-> r.intent, via |-> r.via,
   principal |-> r.principal]

\* Mutant of RecordRefused: the recorded rows are not compared.
RecordNeverRefused(r, m) == FALSE

\* record_execution_in_tx refuses a delivery_id that is recorded for something
\* else, and a receipt that names another message.
RecordRefused(r, m) ==
  \/ ingress[DeliveryId(r)] \notin {NULL, IngressRow(r)}
  \/ receipts[KeyOf(r)] # NULL /\ receipts[KeyOf(r)].message # m

\* consume_delegated_grant_in_tx: UPDATE ... WHERE changed one row.
Consumable(g) ==
  /\ g \in DOMAIN delegated
  /\ delegated[g].status = "active"
  /\ delegated[g].oneShot
  /\ delegated[g].consumed = NULL

\* Mutant of Record: the receipt names the rowid before the insert.
RecordStaleRow(r, m) ==
  LET k == KeyOf(r)
  IN /\ ingress' = [ingress EXCEPT ![DeliveryId(r)] = IngressRow(r)]
     /\ receipts' = [receipts EXCEPT ![k] =
          IF @ = NULL THEN [hash |-> ExecutionHash(r.content), message |-> Len(messages)]
          ELSE @]

\* The rows record_execution_in_tx leaves.
Record(r, m) ==
  LET k == KeyOf(r)
  IN /\ ingress' = [ingress EXCEPT ![DeliveryId(r)] = IngressRow(r)]
     /\ receipts' = [receipts EXCEPT ![k] =
          IF @ = NULL THEN [hash |-> ExecutionHash(r.content), message |-> m] ELSE @]

AuthorityRow(r, d) ==
  [principal |-> r.principal, resource |-> r.content.channel,
   source |-> d.source, reason |-> d.reason, grant |-> d.grant]

\* Mutants of RecordAuthority: the grant is not consumed; the participant is bound
\* where the intent belongs; the provenance does not name the grant.
AuthorityUnspent(r, d) ==
  /\ provenance' = [provenance EXCEPT ![KeyOf(r)] = AuthorityRow(r, d)]
  /\ UNCHANGED delegated
AuthorityWrongColumn(r, d) ==
  /\ provenance' = [provenance EXCEPT ![KeyOf(r)] = AuthorityRow(r, d)]
  /\ delegated' = IF d.consume = NULL THEN delegated
                  ELSE [delegated EXCEPT ![d.consume].consumed = r.participant]
AuthorityUnbound(r, d) ==
  /\ provenance' = [provenance EXCEPT ![KeyOf(r)] = [AuthorityRow(r, d) EXCEPT !.grant = NULL]]
  /\ delegated' = IF d.consume = NULL THEN delegated
                  ELSE [delegated EXCEPT ![d.consume].consumed = r.intent]

\* Rows that exist only when the execution created its message.
RecordAuthority(r, d) ==
  /\ provenance' = [provenance EXCEPT ![KeyOf(r)] = AuthorityRow(r, d)]
  /\ delegated' = IF d.consume = NULL THEN delegated
                  ELSE [delegated EXCEPT ![d.consume].consumed = r.intent]

\* Everything after the lock up to COMMIT or ROLLBACK.
ReleaseLock(w) ==
  writer' = NULL /\ UNCHANGED <<participants, durable, now, req>>

Rollback(w, status) ==
  /\ Respond(w, status, 0)
  /\ fresh' = fresh \ {w}
  /\ UNCHANGED <<delegated, channels, messages, evidence>>

CreateEffect(w) ==
  LET r == req[w]
      d == decision[w]
      m == Len(messages) + 1
  IN /\ ~Reserved(KeyOf(r)) /\ ~ReplyMissing(r)
     /\ IF \/ RecordRefused(r, m)
           \/ provenance[KeyOf(r)] # NULL
           \/ d.consume # NULL /\ ~Consumable(d.consume)
          THEN Rollback(w, "database_unavailable")
          ELSE /\ channels' = ChannelsWith(r.content.channel)
               /\ messages' = Append(messages, [participant |-> r.participant,
                                                content |-> r.content])
               /\ nav' = [nav EXCEPT ![KeyOf(r)] = NavRow(ExecutionHash(r.content), m)]
               /\ Record(r, m)
               /\ RecordAuthority(r, d)
               /\ Respond(w, "created", m)
               /\ Outdate

ReplayEffect(w) ==
  LET r == req[w]
      m == nav[KeyOf(r)].message
  IN /\ Reserved(KeyOf(r)) /\ ~Conflicts(nav[KeyOf(r)], r.content)
     /\ IF RecordRefused(r, m)
          THEN Rollback(w, "database_unavailable")
          ELSE /\ Record(r, m)
               /\ Respond(w, "existing", m)
               /\ fresh' = IF UNCHANGED <<ingress, receipts>> THEN fresh \ {w} ELSE {}
               /\ UNCHANGED <<delegated, channels, messages, nav, provenance>>

\* Mutant of ChannelArchived: the check before the transaction is trusted.
ChannelNeverArchived(r) == FALSE

\* The status check inside the transaction.
ChannelArchived(r) == channels[r.content.channel] = "archived"

FinishExecute(w) ==
  LET r == req[w]
  IN /\ pc[w] = "locked" /\ writer = w
     /\ \/ ChannelArchived(r) /\ Rollback(w, "channel_archived")
        \/ /\ ~ChannelArchived(r)
           /\ \/ /\ Reserved(KeyOf(r)) /\ Conflicts(nav[KeyOf(r)], r.content)
                 /\ Rollback(w, "intent_conflict")
              \/ /\ ~Reserved(KeyOf(r)) /\ ReplyMissing(r)
                 /\ Rollback(w, "reply_target_not_found")
              \/ CreateEffect(w)
              \/ ReplayEffect(w)
     /\ ReleaseLock(w)

\* A statement or the COMMIT itself fails (I/O error, full disk): error, rollback.
StorageError(w) ==
  /\ pc[w] = "locked" /\ writer = w
  /\ Rollback(w, "database_unavailable")
  /\ ReleaseLock(w)

--------------------------------------------------------------------------------
(* Administration, clock and crashes.  An administrator's transaction that     *)
(* commits held the lock on a fresh snapshot, so it is one step here; its own   *)
(* reads, races and event log are the subject of GrantAdministration.           *)

AdminCommit == writer = NULL /\ Outdate /\ UNCHANGED <<now, writer, pc, req, decision, response>>

\* participant activate | deactivate
SetParticipantStatus(p, s) ==
  /\ participants[p].status # "missing"
  /\ participants' = [participants EXCEPT ![p].status = s]
  /\ AdminCommit
  /\ UNCHANGED <<durable, delegated, channels, messages, evidence>>

\* PATCH of a channel's status; no row, no change.
UpdateChannel(c, s) ==
  /\ channels[c] # "missing"
  /\ channels' = [channels EXCEPT ![c] = s]
  /\ AdminCommit
  /\ UNCHANGED <<policy, messages, evidence>>

\* github owner set | clear
SetOwner(p, o) ==
  /\ participants[p].status # "missing"
  /\ participants' = [participants EXCEPT ![p].owner = o]
  /\ AdminCommit
  /\ UNCHANGED <<durable, delegated, channels, messages, evidence>>

CreateDelegatedGrant(g) ==
  /\ Len(delegated) < MaxGrants
  /\ participants[g.participant].status = "active"
  /\ g.expires = NULL \/ g.expires > now
  /\ delegated' = DelegatedAfterCreate(g)
  /\ AdminCommit
  /\ UNCHANGED <<participants, durable, channels, messages, evidence>>

DeactivateDelegatedGrant(id) ==
  /\ id \in DOMAIN delegated /\ delegated[id].status = "active"
  /\ delegated' = DelegatedAfterDeactivate(id)
  /\ AdminCommit
  /\ UNCHANGED <<participants, durable, channels, messages, evidence>>

CreateDurableGrant(g) ==
  /\ ScopeRows(g) = {} => Len(durable) < MaxGrants
  /\ participants[g.participant].status = "active"
  /\ ~ScopeActive(g)
  /\ durable' = DurableAfterCreate(g)
  /\ AdminCommit
  /\ UNCHANGED <<participants, delegated, channels, messages, evidence>>

DeactivateDurableGrant(id) ==
  /\ id \in DOMAIN durable /\ ScopeActive(durable[id])
  /\ durable' = DurableAfterDeactivate(id)
  /\ AdminCommit
  /\ UNCHANGED <<participants, delegated, channels, messages, evidence>>

Tick ==
  /\ now < MaxTime
  /\ now' = now + 1
  /\ UNCHANGED <<tables, local>>

\* The server process dies: open transactions are rolled back by SQLite, clients
\* get no answer and may send the request again.
Crash ==
  /\ \E w \in Workers : pc[w] # "idle"
  /\ writer' = NULL
  /\ fresh' = {}
  /\ pc' = [w \in Workers |-> "idle"]
  /\ decision' = [w \in Workers |-> NULL]
  /\ response' = [w \in Workers |-> IF pc[w] = "idle" THEN response[w] ELSE NoResponse]
  /\ UNCHANGED <<tables, now, req>>

Serve(w) ==
  \/ EnsureChannel(w)
  \/ AppendPlain(w)
  \/ AppendNavigation(w)
  \/ BusyTimeout(w)
  \/ BeginExecute(w)
  \/ AcquireWriteLock(w)
  \/ FinishExecute(w)
  \/ StorageError(w)

Next ==
  \/ \E w \in Workers, r \in Requests : Receive(w, r)
  \/ \E w \in Workers : Serve(w)
  \/ \E p \in Participants, s \in {"active", "inactive"} : SetParticipantStatus(p, s)
  \/ \E c \in Channels, s \in {"active", "archived"} : UpdateChannel(c, s)
  \/ \E p \in Participants, o \in OrNull(Owners) : SetOwner(p, o)
  \/ \E g \in GrantSpecs : CreateDelegatedGrant(g)
  \/ \E id \in 1..MaxGrants : DeactivateDelegatedGrant(id)
  \/ \E g \in DurableSpecs : CreateDurableGrant(g)
  \/ \E id \in 1..MaxGrants : DeactivateDurableGrant(id)
  \/ Tick
  \/ Crash

Spec == Init /\ [][Next]_vars

\* tokio runs every accepted request on and SQLite releases its lock with the
\* connection, so a step of a worker that stays enabled is taken.
FairSpec == Spec /\ \A w \in Workers : WF_vars(Serve(w))

--------------------------------------------------------------------------------
(* Properties *)

\* Every reservation names one message, written by the participant of its key
\* with the content its hash was taken of, and no two keys share a message: the
\* INSERT OR IGNORE reservation makes retries, concurrent duplicates and crashes
\* post an intent once.
ExactlyOnce ==
  \A k \in Keys : nav[k] # NULL =>
    /\ MessageExists(nav[k].message)
    /\ messages[nav[k].message].participant = k[1]
    /\ messages[nav[k].message].content = nav[k].hash.content
    /\ \A j \in Keys : nav[j] # NULL /\ nav[j].message = nav[k].message => j = k

\* A receipt is for the reserved message of its key and carries the hash of that
\* message, and authorization provenance never exists without a receipt:
\* record_execution_in_tx binds evidence to what was posted, on replays too.
ReceiptsBound ==
  \A k \in Keys :
    /\ receipts[k] # NULL =>
         /\ nav[k] # NULL
         /\ receipts[k].message = nav[k].message
         /\ receipts[k].hash = ExecutionHash(nav[k].hash.content)
    /\ provenance[k] # NULL => receipts[k] # NULL

\* A one-shot delegated grant pays for exactly one message: it is consumed iff
\* some execution was created on its authority, and by that execution's intent.
\* A replay, a failed execution or a lost race consumes nothing.
OneShotSpentOnce ==
  /\ \A g \in DOMAIN delegated : delegated[g].consumed # NULL =>
       LET k == <<delegated[g].participant, delegated[g].consumed>>
       IN /\ delegated[g].oneShot
          /\ provenance[k] # NULL
          /\ provenance[k].source = "delegated_grants" /\ provenance[k].grant = g
  /\ \A k \in Keys : provenance[k] # NULL /\ provenance[k].source = "delegated_grants" =>
       LET g == provenance[k].grant
       IN /\ g \in DOMAIN delegated
          /\ delegated[g].participant = k[1]
          /\ delegated[g].oneShot => delegated[g].consumed = k[2]

\* When an execution holds the write lock, the decision it made before it had the
\* lock is the decision the tables give now (at the time it asked): no grant,
\* owner or lifecycle change can slip between the check and the commit.
DecisionCurrent ==
  \A w \in Workers : pc[w] = "locked" =>
    \E t \in 0..now : decision[w] = DecisionFor(req[w], t) /\ decision[w].allowed

\* The inductive strengthening of DecisionCurrent.  What a worker holds follows
\* from its step, and a decision is current from the moment it is made for as
\* long as its snapshot is the last commit.
Control ==
  \A w \in Workers :
    /\ pc[w] # "idle" => req[w] \in Requests
    /\ pc[w] \in {"evaluated", "locked"} =>
         req[w].via \in ExecuteTransports /\ decision[w] \in Decisions
    /\ pc[w] = "locked" <=> writer = w

SnapshotCurrent ==
  \A w \in Workers :
    pc[w] = "locked" \/ (pc[w] = "evaluated" /\ w \in fresh) =>
      \E t \in 0..now : decision[w] = DecisionFor(req[w], t) /\ decision[w].allowed

\* The guard of consume_delegated_grant_in_tx never fires: a grant that is to be
\* consumed by a first execution is still active and unspent under the lock.
ConsumeNeverFails ==
  \A w \in Workers :
    pc[w] = "locked" /\ decision[w].consume # NULL /\ nav[KeyOf(req[w])] = NULL
      => Consumable(decision[w].consume)

\* A client that is told created or existing gets a message of its participant
\* with the content it sent, the one its key is reserved for.
AnswersTruthful ==
  \A w \in Workers :
    pc[w] = "idle" /\ response[w].status \in {"created", "existing"} =>
      /\ MessageExists(response[w].message)
      /\ messages[response[w].message] =
           [participant |-> req[w].participant, content |-> req[w].content]
      /\ req[w].via # "plain" =>
           /\ nav[KeyOf(req[w])] # NULL
           /\ nav[KeyOf(req[w])].message = response[w].message

\* A committed one-shot execution stays replayable by the principal it was granted
\* to, also after the grant expired and whatever other grants exist, as long as
\* grant and participant are active: expiry must not break retries.
ReplayStaysAuthorized ==
  \A g \in DOMAIN delegated, r \in Requests :
    /\ delegated[g].consumed # NULL
    /\ delegated[g].status = "active"
    /\ delegated[g].capability = "post_message"
    /\ participants[delegated[g].participant].status = "active"
    /\ r.principal = delegated[g].principal
    /\ KeyOf(r) = <<delegated[g].participant, delegated[g].consumed>>
    /\ r.content.channel = provenance[KeyOf(r)].resource
    => DecisionFor(r, now).allowed

\* Evidence is append-only: no step rewrites or removes a message, reservation,
\* receipt, provenance or ingress row, or the consumption of a grant.
EvidenceKept ==
  /\ \A m \in DOMAIN messages : m \in DOMAIN messages' /\ messages'[m] = messages[m]
  /\ \A k \in Keys :
       /\ nav[k] # NULL => nav'[k] = nav[k]
       /\ receipts[k] # NULL => receipts'[k] = receipts[k]
       /\ provenance[k] # NULL => provenance'[k] = provenance[k]
  /\ \A d \in Deliveries : ingress[d] # NULL => ingress'[d] = ingress[d]
  /\ \A g \in DOMAIN delegated :
       /\ g \in DOMAIN delegated'
       /\ delegated[g].consumed # NULL => delegated'[g].consumed = delegated[g].consumed

EvidenceAppendOnly == [][EvidenceKept]_vars

\* Every request that was accepted is answered, or dies with the server.
EventuallyAnswered == \A w \in Workers : pc[w] # "idle" ~> pc[w] = "idle"

\* The ledger and the spent grants of the abstract specification.
LedgerView == [k \in Keys |-> IF nav[k] = NULL THEN NULL ELSE nav[k].message]

SpentView ==
  [g \in 1..MaxGrants |->
     IF g \in DOMAIN delegated /\ delegated[g].consumed # NULL
       THEN <<delegated[g].participant, delegated[g].consumed>> ELSE NULL]

Ledger == INSTANCE IntentLedger WITH
  Grants <- 1..MaxGrants, board <- messages, ledger <- LedgerView, spent <- SpentView

\* Posting implements the intent ledger: a message appears, its key is reserved
\* and the grant that paid for it is spent in one step, once per key.
ImplementsLedger == Ledger!Spec
================================================================================
