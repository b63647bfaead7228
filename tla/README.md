# Conversation Blackboard in TLA+

Conversation Blackboard is a message board for people and agents: one Rust server over one
SQLite file, with REST, MCP, OIDC, GitHub-webhook and browser-navigation ways in. Its core promise is
that an *intent* (participant + `intent_id`/nonce) is executed once, on an authority that holds at
the moment of the commit, and that the evidence of it (reservation, receipt, ingress and
authorization provenance, consumption of a one-shot grant) can be audited later. This directory
models that core, model-checks it with TLC and proves its main theorems with TLAPS.

## 1. Inventory

| Part | State it keeps | Operations | What is hard |
|---|---|---|---|
| Policy evaluator (`authorization.rs`) | `web_participants`, `principal_grants`, `delegated_grants` | evaluate, consume, list effective grants, audit | order of rules; expiry against replay; explicit grants narrow implicit ones |
| Semantic execution (`execution.rs`) | `messages`, `navigation_writes`, `execution_receipts`, `ingress_provenance`, `execution_authorization_provenance` | `execute_message_intent` | check and commit in one deferred transaction; duplicates, retries, crashes, lock upgrade failures |
| Execution audit (`execution.rs`, `execution_audit.rs`) | none | verify one execution, sweep all | no false positives while everything changes |
| Write handlers (`http.rs`, `mcp.rs`, `oidc.rs`, `github_webhook.rs`, `request_auth.rs`) | none; each step opens its own connection | six ways to post | state read on one connection, used on the next |
| Older write paths (`db.rs`) | shares `messages`, `navigation_writes`, `channels` | `append_message`, `append_navigation_message` | another hash, no second status check |
| Channels (`db.rs`) | `channels` | created by the first write, archived, reactivated | archive racing a write |
| Grant administration (`authorization_admin.rs`, `grant_admin.rs`, `access_api.rs`) | grants, `authorization_admin_events` | create / reactivate / deactivate, CLI and REST | the command's own authority may be withdrawn; NULL in UNIQUE; event chain |
| Participant lifecycle (`participant_admin.rs`, `identity.rs`) | `web_participants` | provision, role, status, owner, credentials | lifecycle racing executions and commands |
| Web login and sessions (`identity.rs`, `web_auth.rs`) | `totp_*` columns, process session key | login, enrol, revoke, issue / verify session | concurrent logins with one code, lost failure counts, restart |
| Message, event, grant and channel windows (`history.rs`, `db.rs`, `authorization_admin.rs`, `authorization.rs`) | none | keyset paging | page and `has_more` are two statements; rows and channels change between pages |
| Web page (`web/app.js`) | `state` and the timeline in the browser | sign in, select, load, jump, poll, post | an answer is applied to the state of the moment it arrives |
| Read tools (`mcp.rs`, `access_api.rs`, `http.rs`, `execution_audit.rs`, `grant_admin.rs`) | none; no transaction | receipts, audits, sweeps, policy, decisions, history, messages, by MCP, REST, navigation and command line | credential, policy and data are read at different moments |
| Schema migration (`db.rs`, `execution.rs`, `authorization*.rs`, `github_webhook.rs`) | all tables | columns, renames and backfills at every start | dying half way; two processes at once; a look that is stale when the ALTER runs |
| Backup and restore (`admin.rs`) | the database, its `-wal`, copies | check, copy, remove, rename | death between remove and rename; the `-wal` of another file |
| Process and service (`main.rs`, `runtime.rs`, `windows_service.rs`) | service state, stop channel | install, start, stop, restart, serve, recover | failing starts, restarts that race commands |
| Contract schemas, native clients | none | static JSON; one request each | — |

The server's parts meet in the SQLite file; the page meets them over HTTP. Nothing is shared in memory except the session key, and nobody
holds a transaction across handler steps, so the interleavings that matter are between database
transactions and between the steps of one handler.

### SQLite, as the code uses it

`db::connect` sets WAL mode and `busy_timeout = 5000`; all transactions are `BEGIN DEFERRED`
(`unchecked_transaction`). The models use exactly these facts (they are assumptions, not proved):

* there is one writer at a time and a commit is atomic; an early return, an error or a crash drops
  the transaction;
* a transaction whose first statement reads keeps the snapshot it read. Its first write fails
  *at once* if another commit came in between (`SQLITE_BUSY_SNAPSHOT`) or the lock is taken. The
  variable `fresh` holds the workers whose snapshot is still the last commit;
* a transaction whose first statement writes waits for the lock, at most the busy timeout;
* `CREATE ... IF NOT EXISTS` on an existing table (the first thing `evaluate_authorization` does)
  reads the schema and takes no write lock;
* ids of AUTOINCREMENT tables count up and rows of the modelled tables are never deleted, so a
  table with ids is a sequence.

## 2. Modules

| Module | Models |
|---|---|
| `Authorization` | the evaluator: `Evaluate` and its parts (`ExplicitMatches`, `ImplicitReason`, `Denial`, ...), `EffectiveGrants`, what a grant command leaves in the tables, and the policy audit |
| `Execution` | posting: six transports, `execute_message_intent` as `BeginExecute` → `AcquireWriteLock` → `FinishExecute`, the two older paths, storage errors, crashes, the administrator's commits, the clock. Extends `Authorization` |
| `IntentLedger` | abstract: a board that grows, one message per key, a one-shot grant spent in the step that posts |
| `ExecutionAudit` | verify and sweep as sets of violations, and the documented promises of posting. Extends `Execution` |
| `GrantPolicy` | abstract: a grant command is one step on the tables as they are, permitted by the policy it changes, with its event |
| `GrantAdministration` | the commands as two-step transactions (`Begin` reads and plans, a write action commits). Extends `GrantPolicy` |
| `TotpLogin` | login by code: time taken, queued, read, written; enrolment; sessions and restarts |
| `KeysetWindow` | the bounded reads as sets of keys: `Page`, `HasMore` (a second statement), `Fetched`/`Truncated`/`Surplus` (one row too many) |
| `WindowReaders` | clients that walk the windows page by page while rows and channels change. Extends `KeysetWindow` |
| `BrowserTimeline` | the embedded page: what the user starts, the server's statements, and what the page does when an answer or an error arrives. Extends `KeysetWindow` |
| `ReadTools` | every read of MCP, REST, navigation and the command line as a program of statements, next to executions, administrators and credential changes. Extends `ExecutionAudit` |
| `SchemaMigration` | what a starting process does to the file: `db::initialize` and `ensure_owner_columns`, one statement per step, by two processes |
| `Operations` | one installation: the service, the service control manager, a second process, the operator's commands with their files, deaths and restarts. Extends `SchemaMigration` |
| `MCExecution`, `MCReadTools`, `MCGrantAdministration`, `MCTotpLogin`, `MCWindowReaders`, `MCBrowserTimeline`, `MCOperations` | instances for TLC |
| `AuthorizationProofs` ← `ExecutionProofs` (which also extends `ReadTools`), `GrantProofs`; `KeysetProofs` ← `WindowProofs`, `TimelineProofs`; `LoginProofs`, `OperationsProofs` | theorems (§4); an arrow points to what is extended |

How state and actions correspond to the code is recorded per definition in `PROJECT.json` (`map`).
The main abstractions:

* **Contents.** kind, body and `conversation_ref` are one value `body`; a request's content is
  channel, body and `reply_to`. A hash is the content tagged with the JSON shape it was taken of:
  `message_request_hash` and the navigation write hash different objects, so equal contents have
  unequal hashes across the two.
* **Authentication** is its outcome: signed requests need an *active* participant
  (`get_web_participant_auth`), the others an existing one. Request validation and rejection before the
  first database access change nothing and are left out; a request is one that passed them.
* **Grants.** `consumed_at` and `consumed_intent_id` are written together and are one field.
* In `Execution`, a successful administration command is one step: it held the lock on a fresh
  snapshot. `GrantAdministration` justifies this: it models the command's own reads and writes and
  is proved to implement the one-step `GrantPolicy`.
* After a worker has the write lock nobody else can change the tables, so everything from the lock to
  COMMIT is one action (`FinishExecute`), with every early return as a disjunct and `StorageError` for
  any statement that fails.
* In `TotpLogin` the code of a secret in a step is a constant operator that need not be injective;
  `accepted` and `failed` are histories for the properties.
* In `WindowReaders` one table with ids stands for messages, events and grants, and a name is a
  number in the order of the names; `base` and `steady` are histories. Readers do not influence each
  other, so one is enough.
* In `BrowserTimeline` a handler is split at its awaits. A request remembers what it was sent with;
  the continuation uses the page's state, as the code does. `then` names the caller that awaits
  `loadLatestHistory` or `loadChannels` in turn (send button, login, admin dialogs). Two sign-ins at
  once are left out. `Overlap = FALSE` is a user who waits for each answer and a network faster than
  the poll timer; it separates what only overlapping requests break. `directory` is `state.channels`: a channel can be
  clicked when a directory page listed it or a message came in while it was selected. `New channel` takes any name.

* In `ReadTools` a request's program is the concatenation of its statements, each with the answer that
  a refusal gives. `ReadStep` runs one; everyone else may commit between two. A credential is the
  number of its generation, so a proof made with an older secret fails. `moments` and `churn` are
  histories. A sweep's verifications are independent, so one execution (any) is followed, and
  `effective_grants` is followed for one capability.
* In `SchemaMigration` a database is its tables and columns and the rows the backfills look at. The tables of
  `schema.sql` are three groups; columns that are added or dropped alike one after the other are one or a
  constant sequence (`TotpColumns`, `ProvenanceColumns`, `OwnerColumns`). `todo` holds what the last
  look at the columns decided, as the numbers of the look's statements (`Statements`) that are still to run in order; it may be
  stale when it is done.
* In `Operations` the service control manager and SQLite's treatment of a `-wal` are external. `Quiesced`
  (nothing open, no restart due) is the operator's part: `docs/operations.md:310` says to stop the service
  before a destructive restore. A service that is deleted while it runs is `marked` and gone when it ends. `lostSight` is a history.

Operators named "Mutant of ..." in comments are plausible bugs. They are not part of any
specification; each shows that a property can fail.

## 3. Properties and runs

Bounds are in the `.cfg` files; the names of bounds are `MaxGrants`, `MaxMessages`, `MaxTime`,
`MaxRows`, `MaxEvents`, `MaxLogins`, `MaxFailed`, `MaxRestarts`, `MaxLog`, `MaxErrors`, `MaxCommits`, `MaxCrashes`, `MaxCommands` and the number of `Slots`. Two workers are enough for every
race here, because each race is between one read-then-write transaction and one other commit, and the
administrator, the clock and crashes act besides the workers. Workers are symmetric in all safety runs.

| Run | Instance | Checks |
|---|---|---|
| `delegate` | two OIDC intents, one a reply to the first message; up to two one-shot grants that expire at 1 | a one-shot grant pays for one message (`OneShotSpentOnce`), the decision is current under the lock (`DecisionCurrent`), consumption never fails (`ConsumeNeverFails`), a committed one-shot execution stays replayable after expiry (`ReplayStaysAuthorized`), the sweep finds nothing (`SweepValid`), refinement of the ledger (`ImplementsLedger`) |
| `transport` | one intent by REST, MCP and GitHub, once with another body; owner, a grant that replaces the owner's authority, and channel change | `ExactlyOnce`, `ReceiptsBound`, `AnswersTruthful`, `ReplayNeverRefused`, nothing enters an archived channel by execution (`ArchivedChannelsRejectWrites`) |
| `reads` | 29 requests of all tools and surfaces; two OIDC principals execute one intent and share a delivery id; an administrator, a participant provisioned late, a grant that narrows; two administrative commits | data is given only to a caller who was authentic and permitted at some moment of the request (`AnswersPermitted`); audits taken statement by statement report nothing (`AuditReportsClean`), the policy audit nothing but a participant younger than itself (`PolicyReportClean`); the second principal is refused and evidence only grows (`EvidenceAppendOnly`) |
| `liveness` | a signed request and a navigation write of one nonce and content, both replies to the message of a plain post | every accepted request is answered (`EventuallyAnswered`); one message per nonce across the older paths (`ExactlyOnce`) |
| `grants` | two connections, seven commands, one actor that gains and loses the admin role, an explicit grant that narrows its authority away | `PlanCurrent`, `PolicyAuditClean`, `HistoryExplainsPolicy`, `EffectiveGrantsExact`, refinement of the policy (`ImplementsPolicy`) |
| `login` | two logins or guessers, two secrets with overlapping codes, codes that repeat, lock after two failures, one restart | `StepsIncrease`, `SessionsBacked`, `LoginCurrent`, a lock between any `MaxFailures + 1` failures (`Throttled`) |
| `windows` | pages of one, three rows of two channels in both orders, three names, member and guest | a walk is given exactly the rows it passes and none twice (`WalkExact`), `HasMoreTruthful`, every channel listed throughout is given (`DirectoryComplete`) |
| `browser_patient` | two channels, pages of two, polls of one, four messages, one failure, no overlap, fair | the timeline has messages of the selected channel only, in order, and nothing is missing inside it (`TimelineExact`); the newest message of the channel comes up once the user stops (`NewestShown`) |
| `browser_live` | two overlapping requests, two channels, a user who stays in the live view, fair | the cursors are the extremes of the timeline (`CursorsMatchTimeline`); what keeps the newest message of the channel away is a later message of another channel on the timeline, and nothing else (`NewestShownUnlessForeign`) |
| `operations` | two older databases, one execution, one owner and one provenance column, two deaths (or failed binds), two commands | the server serves only a database with every column the code names, and `db init` and `mcp serve` finish only on one with everything `db::initialize` adds (`ServesMigrated`); the backfill attributes deliveries to who executed them (`AttributionTruthful`); database or backup keeps the record (`RecordSurvives`); a forced restore never leaves another file's `-wal` (`RestoredAlone`); a started service serves in the end (`ServiceRecovers`) |

Together the passing runs take every action and every disjunct. Deadlock is checked in all of them but
`operations`, where an installation may stand still: the service stopped or uninstalled and no operator.

Two commits in `reads` are the least with which an evaluation can be torn, and enough for every hazard of the
list there: each needs a change before a statement and at most one between two. In `operations`
two deaths cover one that interrupts a command or a migration and one that interrupts what follows; the column
sequences have one element or none (`TotpColumns`, added by the same loop as `OwnerColumns`), because the statements of one loop are alike.

**Fairness.** `liveness` uses weak fairness of each worker's next step. tokio runs an accepted
request's blocking closure to its end, and SQLite releases the lock when the connection of the
holder is dropped; nothing is assumed about clients, administrators or crashes. `operations` assumes that a launched service runs, that the service control manager carries
out the restart it owes (`update_failure_actions`) and that a command that has begun goes on; the second process
may hang and the operator do nothing. The fair browser runs assume that
a request that does not fail is served and answered (the same server argument; failures are bounded by `MaxErrors`)
and strong fairness of `Poll`: the browser's interval timer keeps firing, and only the bound on `Slots`, which
the browser does not have (or, without overlap, another request in flight) can disable it.
A user who also sorts and jumps while two requests overlap is left to the theorem `CursorsAreExact` (3.5 million states without liveness);
`browser_live` has `History = FALSE`. Failing requests are in `browser_patient`, one at a time: the page only drops them, and a poll is
sent again.

**Disagreements with the documentation** (runs that are expected to find a counterexample):

* `legacy_hash`: after a navigation write, an execution of the same nonce with the same content is
  accepted as a replay and leaves a receipt whose hash is not the reservation's. The atomic-boundary document says
  they must agree, and the audit reports the execution (`navigation_hash_mismatch`); this is why
  `SweepValid` is not a property of the `liveness` run.
* `browser_lost`: an answer that arrives after the user selected another channel lands on that channel's timeline
  (a jump, says `docs/web-navigation.md`, remains scoped to the selected channel) and raises `lastId` past a message of
  the new channel that is not shown. `poll` asks for later messages only, so a live view with a running timer and a
  working network polls for ever without it; `docs/message-ordering.md` promises the latest window and new messages at its top.
  `browser_patient` shows that it takes overlapping requests, `browser_live` that nothing else has this effect.

More follows from the same models; the runs leave these properties out where they would fail:

* in the other order, a navigation write of a payload already executed under its nonce is answered
  `nonce_conflict`, although `docs/agent-adapter.md` calls exact retries idempotent;
* a plain or navigation write whose channel is archived between check and insert still posts
  (`ArchivedChannelsRejectWrites` under the constants of `liveness`). Executions check inside their transaction;
* a poll's answer that arrives after the order changed, or that was asked with `lastId = 0`
  while a window was loading, leaves the timeline out of order (`TimelineExact` under the constants of
  `browser_live` with three messages and polls of two). `browser_patient` within its bounds, and the theorems for all, show that
  overlapping requests are the only cause of this;
* with two commits inside one policy evaluation (a role taken away after its row was read, a restricting grant
  deactivated before the grants are counted) a read is allowed that was permitted at no moment.
  `AnswersPermitted` exempts it (`churn`). Executions evaluate inside their transaction and cannot be torn;
* a policy audit that overlaps the provisioning of a participant and a grant to it reports `missing_participant`;
* the REST receipt asks no policy, the MCP receipt does;
* `db init` and `mcp serve` never add the owner columns to an older file, so policy evaluation on it fails until a
  server has run (or participant administration or the GitHub webhook has added them). `ServesMigrated` promises these columns
  of `run_server` only. `grant explain` refuses such a file and says to run `db init` (`src/grant_admin.rs:341`), which does not help;
* a death between adding the role column and promoting `cheng-main` leaves nobody promoted, because the next
  start finds the column;
* a forced restore that dies after removing the database, an automatic start that creates an empty one and a
  backup of that one lose the record (the exemption `lostSight`). An unforced restore after a forced one that
  died between removing the file and its `-wal` puts the database beside another file's `-wal`;
* `service start` says started before the database is initialised, `service stop` during the recovery delay says
  already stopped although a restart is due, and a `service restart` that times out waiting leaves the service
  to stop and stay down.

## 4. Theorems

All hold for every value of the constants that satisfies the named `ASSUME`s of the modules, and TLC evaluates
the assumptions in the runs. They are types of requests, grants, commands and bounds; that NULL is no value
(`NullIsNoResource`: no fixed resource; `NullIsNoKey`: no key of an intent or of a row; `NullIsNoChannel`: no channel and no id); that the page has finitely many `Slots`; and for `Operations`
`MigrationConstants` (participants are numbers, so that the backfill's `MIN(participant_id)` means something, and finitely many),
`ColumnsTyped` (the columns of a loop are none of those that are dropped or renamed) and `ReleasesTyped` (what an older release
left: a board with messages whose deliveries, where they name anybody, name who executed them).

**The evaluator** (`AuthorizationProofs`). `EvaluateSound` says what may be consumed. `AllowedIsBacked` says what every allowed decision rests
on: an active participant, and a matching durable grant, or an implicit rule *where no durable grant narrows the
capability*, or a delegated grant that covers the intent. `ListingExact` relates two pieces of code that compute the same thing
differently: the listing asks the evaluator only about the fixed resource of a capability without durable grants, and
`ImplicitOnFixed` is why that is enough.

**Posting** (`ExecutionProofs`).

* `TypeCorrect`, `DecisionsCurrent`, `ConsumptionSucceeds`. The inductive invariant is
  `TypeOK /\ Control /\ SnapshotCurrent`. `DecisionCurrent` alone is not inductive: it speaks of workers that
  hold the lock, and acquiring the lock needs to know that a worker whose snapshot is *still the last
  commit* holds a decision that is still right. `Control` ties what a worker holds to its step.
* `PostedOnce`, `EvidenceBound`, `OneShotPaysOnce`, `EvidenceGrows`, `Refinement`. They use
  the invariant above: that a one-shot grant is unspent when it is consumed comes from `ConsumeNeverFails`, and
  the refinement's "spent in the step that posts" from the two together. `StepKinds` classifies every step once (quiet, change of a
  grant, plain, navigation or executed post, replay); later proofs go by kind and not by action.

**Promises to clients and auditors** (`ExecutionProofs`), from the conjunction of the above (`Posting`) and:

* `AnswersAreTruthful`: an answer is true when given and stays true because evidence only grows (`Answers`; it also says that an
  answer belongs to a request).
* `ReplaysStayAuthorized`: a spent grant covers the execution that spent it in resource and intent (`SpentInScope`), which the
  evaluator's order of reasons turns into a permission for the replay, expired or not.
* `ReplaysAreAccepted`, if `OneMeaning`: requests with equal delivery ids stand for the same intent, participant and principal.
  The invariant is `IngressOwned`: a recorded delivery is that of a request. A GitHub issue is one delivery whatever
  intent it asks for, so the hypothesis is about the client; without it the second meaning is refused, which is what the comparison in
  `record_execution_in_tx` is for.
* `SweepFindsNothing`, if `NoNavigation`: every reserved key has complete, consistent evidence (`Audited`), and the audit of
  complete evidence reports nothing, check by check. Navigation writes reserve without evidence, and `legacy_hash` shows
  what happens then.
* `ArchivedChannelsStayClosed`, if `OnlyExecutions`: the older paths check the channel before their transaction (see the
  disagreements above).

Each hypothesis holds in the run that checks the property (`transport`: `OneMeaning`, `OnlyExecutions`; `delegate`: `NoNavigation`), and each
says of the requests only what the property needs.

**Reads as they run** (`ExecutionProofs`, last part), for `ReadSpec`: the statements of a request come one after the other and anything may commit
between them.

* `ReadPosting` carries `Posting` over to `ReadSpec`, which starts from a board in use: `ReadKinds` shows that a step is the reader's, one of
  `Execution`, or a commit to participants or durable grants. `EvidenceGrowsAmongReaders` is its first consequence.
* `ProgramChains`: the program of every tool on every surface is a chain in which each statement may follow the one before it (`May`). It begins by identifying
  its caller, or refuses at once if there is nobody to identify; it asks the policy about the capability and the resource the request needs, in
  the order row, count, match; it fetches data only after a check that permits it; and an audit looks at nothing before the statement that opens it (the
  receipt, the participants). This needs `ReadsOffered`: which tools a surface has and how its callers authenticate.
* `AnswersArePermitted`, without a hypothesis. The invariant is `Vetting`: `moments` has the present moment in it, a request past its first
  statement was authentic, and it is `Judged`. That says what an evaluation knows where it stands: with no commit inside, its notes
  are what the policy says now; with one, a verdict it began with or goes on to has a moment that gives the same. The step that needs an argument
  is the first commit inside an evaluation (`JudgedCommit`): a commit changes participants or durable grants and never both (`Committed`), so the row and the
  implicit authority, or the grants, are as after it, and the verdict of the rest is that of the policy before the commit or after it. A second
  commit breaks this, which is what the property exempts. For a capability that is held explicitly one more fact is used: creating a grant needs an
  active participant, so one that appears after the check of the participant appears to an active one.
* `AuditsReportNothing`, if `NoNavigation`. The invariant is `AuditReader`: an audit that looks at evidence looks at an execution that has a receipt. From
  then on the evidence is complete (`Audited`) and only grows, so each check passes at its own moment.
* `PolicyAuditsReportNothing`, if `SupportedGrants`: `create_delegated_grant` does not check the capability, so that the audit would report an unknown one.
  Rows name participants that exist, in scopes of their own (`PolicyRows`); the audit knows everybody who was there when it began
  (`PolicyReader`), so whom it misses came later; and whoever spent a grant it has read has a receipt (`NotesBacked`), because receipts are read last.

Both hypotheses hold in `reads`, whose requests are executions by OIDC principals and whose delegated grant is for `post_message`.

**Grant administration** (`GrantProofs`).

* `AdministrationTyped`, `PlansCurrent`, `AdministrationRefinement`. `PlanCurrent` is inductive
  with the types; with it every write action is a `GrantPolicy` step, so the rest is proved for `GrantPolicy` steps only.
* `AuditClean` (no scope twice although UNIQUE does not see NULL: the plan to insert is
  current, so the scope is still empty), `HistoryExplains` (each log is a chain that ends in the grant's status) and
  `ListingsAgree` (`ListingExact` in every reachable state).

**Login** (`LoginProofs`). `LoginTyped` is the inductive invariant `TypeOK /\ Control`: a worker whose snapshot is the last commit was not
refused and carries the plan for the *present* row. `LoginIsCurrent` follows from it. `StepsNeverRepeat` adds `StepsCovered`:
`row.last` is at or beyond every step accepted under the present secret, and a secret newly drawn has accepted nothing.
`SessionsAreBacked` adds `SessionsOwned`, which also speaks of logins whose session is not issued yet.
`GuessesAreThrottled` adds that the failures are ordered and that the counter covers the failures since the last lock
(`FailuresOrdered`, `CountCovers`): a guess decided before a lock and committed after it is refused, so the counter cannot be outrun.

**Windows** (`KeysetProofs`, `WindowProofs`). The first module is about one page, for every table, limit and order: a page is a beginning of the rows beyond the
cursor, is empty only if there are none, and the surplus row tells whether there are more. The invariant `Walking` then says of
every walk that the cursor separates what was given from what was not, also between the two statements of one page.
`WalksAreExact`, `MoreIsTruthful` and `DirectoryIsComplete` follow from it.

**The web page** (`TimelineProofs`).

* `BrowserTyped` and `CursorsAreExact` hold for every schedule of answers, failures and clicks. `TimelineStep` says what a step can do to the
  timeline (nothing, empty it, or merge an answer into it or into an empty one), and `AppendKeepsCursors` is the merge: rows that are shown are
  skipped, the others go to one end, and the cursors move to the new extremes.
* `ExactWithoutOverlap` has the hypothesis `~Overlap`, a constant: the user waits and the poll timer is slower than the
  network. Without it a late answer breaks it, as the trace of `browser_lost` does. The invariant is `OneView`: there is one request at
  most, and it fits the page that will show its answer (`Follows`). A window loads into an empty page or starts where the timeline ends, a poll starts at
  `lastId`, and rows already read form an unbroken run from there (`RowsRight`). Messages stored meanwhile break none of it, because their ids exceed everything
  that is shown or read (`StoredView`); and a `has_more` that is read later than its rows still says whether there are *older* messages (`MoreRight`).

**Operations** (`OperationsProofs`). A statement of a migration establishes something (`Holds`) that no later statement of any process takes back
(`Evolves`); a look establishes it but for the statements it decided on (`Owed`). So whatever a process has passed holds, in whatever
order two processes, deaths and new starts interleave (`Progress`). With the state of the files and of the command under way this is
`Installed`, proved invariant as `InstallationInOrder`; `ServedDatabaseIsMigrated` (all columns behind the server, those of `db::initialize` behind the second process), `BackfillsAreTruthful`, `RecordIsKept` and
`RestoreLeavesNoJournal` follow.

**Only model-checked:** liveness (`EventuallyAnswered`, `NewestShown`, `NewestShownUnlessForeign`, `ServiceRecovers`), which is out of the prover's
reach. Every safety property that a passing run checks is a theorem: three promises about posting, the two audits and one property of the page
under the hypotheses named above, the others without any. No module with a theorem declares a RECURSIVE operator; nothing is proved by induction over data: where a finite
set is counted the proofs go through well-foundedness of the numbers.

## 5. Not modelled

Signature arithmetic, JSON and JSON-RPC validation and rendering, HTTP status mapping beyond the kind of answer, protocol
negotiation and the static contract schemas, guest session tokens, the page's reply bar, counts, directory paging and
admin tables, the endpoint verifier, the service's log file, argument parsing and the native clients (one request each, no state).
Readers find a current schema: the refusal of an older one is decided by the columns `SchemaMigration` adds. Disk
errors appear as failing statements and deaths, not as damaged files. Clocks do not run backwards in the models. Rows edited
by hand with SQLite are outside: the audits exist for them, and the models only show that the server itself never makes
them report anything.

## 6. Plan

What is left is what no module describes (§5), and the sources listed as `partly` modelled: the commands and tables there that change no
state the properties speak of. Two commits inside one policy evaluation are left out of `AnswersPermitted` because the code does not
exclude their effect; an evaluation inside a read transaction would let the exemption, `churn`, go.
