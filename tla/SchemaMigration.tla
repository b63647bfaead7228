---------------------------- MODULE SchemaMigration ----------------------------
(***************************************************************************)
(* What a starting process does to the database file before it serves:     *)
(* db::initialize, and run_server's owner columns after it.  There is no   *)
(* transaction around a migration and no lock between processes: every     *)
(* statement commits on its own, a process may die between any two, and    *)
(* two processes may start at once.  A migration is therefore a program, a *)
(* sequence of statements, and each process is somewhere in its own.       *)
(*                                                                         *)
(* table_has_column is one statement, the ALTER it guards another: what    *)
(* the first decided (todo) may be stale when the second runs.  SQLite     *)
(* then answers "duplicate column name" or "no such column", and the start *)
(* fails.                                                                  *)
(*                                                                         *)
(* A database is the tables and columns it has, and of its rows what the   *)
(* backfills look at: whether there are messages, whether their channel    *)
(* has its metadata row, whether the first administrator has been          *)
(* promoted, and the evidence of each execution (who executed which        *)
(* intent).                                                                *)
(***************************************************************************)
EXTENDS Naturals, Sequences, SequencesExt, FiniteSets, FiniteSetsExt

CONSTANTS
    NULL,
    Participants,       \* numbers: the backfill takes the least
    Intents,
    NewExecutions,      \* what participants execute while a server runs
    Releases,           \* the databases that earlier releases left behind
    TotpColumns,        \* the columns of web_participants added in one loop
    ProvenanceColumns,  \* of execution_authorization_provenance
    OwnerColumns        \* of web_participants, added by run_server only

\* What an execution leaves: a receipt of who executed which intent, and the
\* participant and capability its delivery names
Evidence ==
    UNION {[executions -> [participant : Participants \union {NULL}, capability : BOOLEAN]] :
              executions \in SUBSET (Participants \X Intents)}

\* The columns that a release has added, dropped or renamed
Columns ==
    {"public_key", "conversation_uuid", "conversation_ref", "auth_secret", "role", "status",
     "grants", "admin_events", "ingress_participant"}
        \union ToSet(TotpColumns) \union ToSet(ProvenanceColumns) \union ToSet(OwnerColumns)

Databases ==
    [tables : SUBSET {"board", "policy", "execution"}, columns : SUBSET Columns,
     messages : BOOLEAN,
     channel : BOOLEAN, admin : BOOLEAN, evidence : Evidence]

ASSUME MigrationConstants ==
    /\ Participants \subseteq Nat /\ IsFiniteSet(Participants)
    /\ NULL \notin Participants \union Databases
    /\ NewExecutions \subseteq Participants \X Intents

\* No column a release adds is one that a release drops or renames
ASSUME ColumnsTyped ==
    \A columns \in {TotpColumns, ProvenanceColumns, OwnerColumns} :
        /\ columns \in Seq(STRING)
        /\ ToSet(columns) \intersect {"public_key", "conversation_uuid", "conversation_ref"} = {}

\* An earlier release has its message table, under one name of the conversation,
\* and messages in it; its grants came with their columns; and its evidence, where
\* it names a participant, names the one who executed
ASSUME ReleasesTyped ==
    \A release \in Releases :
        /\ release \in Databases
        /\ "board" \in release.tables /\ release.messages
        /\ "conversation_uuid" \in release.columns => "conversation_ref" \notin release.columns
        /\ "policy" \in release.tables => {"grants", "admin_events"} \subseteq release.columns
        /\ \A e \in DOMAIN release.evidence : release.evidence[e].participant \in {NULL, e[1]}

VARIABLES
    main,       \* the database file: NULL, or the database in it
    journal,    \* the -wal left beside it when no process has it open: "none",
                \* "own", or "foreign", another file's
    process     \* what each process that opens it is doing

schemaVars == <<main, journal, process>>

Processes == {"service", "cli"}

--------------------------------------------------------------------------------
(* The database *)

\* The tables schema.sql creates, in its order, in three groups: messages,
\* web_participants and channels; the grants and their events; the executions
Schema == <<"board", "policy", "execution">>

TableColumns(table) ==
    CASE table = "board" ->
            {"conversation_ref", "auth_secret", "role", "status"}
                \union ToSet(TotpColumns) \union ToSet(OwnerColumns)
      [] table = "policy" -> {"grants", "admin_events"}
      [] table = "execution" ->
            {"ingress_participant"} \union ToSet(ProvenanceColumns)

Blank == [tables |-> {}, columns |-> {}, messages |-> FALSE, channel |-> FALSE,
          admin |-> FALSE, evidence |-> << >>]

\* The participants with an execution receipt for this intent
Executors(database, intent) == {p \in Participants : <<p, intent>> \in DOMAIN database.evidence}

--------------------------------------------------------------------------------
(* The programs *)

\* A statement, and a look at the columns that decides which statements follow
Do(what, on) == [op |-> what, on |-> on]
Ensure(columns) == [op |-> "ensure", on |-> columns]
DropColumns(columns) == [op |-> "ensure-dropped", on |-> columns]

Each(columns) == [n \in DOMAIN columns |-> Ensure(<<columns[n]>>)]

SchemaBatch == [n \in DOMAIN Schema |-> Do("create", Schema[n])]
\* One column stands for the two added (auth_scheme, auth_secret), one for the two
\* dropped (public_key, signature_scheme)
AuthColumns == <<Ensure(<<"auth_secret">>), DropColumns(<<"public_key">>)>>
RoleColumn == <<Do("ensure-role", "role")>>
StatusColumn == <<Ensure(<<"status">>)>>
ConversationRef == <<Do("ensure-ref", "conversation_ref")>>
ChannelMetadata == <<Do("channels", "channels")>>
AdministrationSchema == <<Do("create", "policy")>>
\* The provenance columns are looked up once, before the loop that adds them
ExecutionSchema ==
    <<Do("create", "execution"),
      Ensure(<<"ingress_participant">>), Ensure(ProvenanceColumns),
      Do("capabilities", "execution"), Do("attribute", "execution")>>

Initialize ==
    <<Do("connect", "main")>> \o SchemaBatch \o AuthColumns \o Each(TotpColumns)
        \o RoleColumn \o StatusColumn \o ConversationRef \o ChannelMetadata
        \o AdministrationSchema \o ExecutionSchema

\* Mutant of RunServer: ensure_owner_columns is not called.
RunServerInitializeOnly == Initialize

RunServer == Initialize \o Each(OwnerColumns)

\* db init and mcp serve stop at db::initialize
Program(p) == IF p = "service" THEN RunServer ELSE Initialize

\* The columns db::initialize has seen to
InitializedColumns ==
    {"auth_secret", "role", "status", "conversation_ref", "grants", "admin_events",
     "ingress_participant"}
        \union ToSet(TotpColumns) \union ToSet(ProvenanceColumns)

\* The columns the code names, whichever process runs it: the policy evaluation
\* of mcp serve reads the owner columns as the server's does
RequiredColumns == InitializedColumns \union ToSet(OwnerColumns)

\* The statements that may follow a look, in their order
Statements(look) ==
    CASE look.op = "ensure" -> [n \in DOMAIN look.on |-> Do("add", look.on[n])]
      [] look.op = "ensure-dropped" -> [n \in DOMAIN look.on |-> Do("drop", look.on[n])]
      [] look.op = "ensure-role" -> <<Do("add", "role"), Do("promote", "role")>>
      [] look.op = "ensure-ref" ->
            <<Do("rename", "conversation_uuid"), Do("add", "conversation_ref")>>

\* Those of them that a look at these columns decides on
Decide(look, columns) ==
    CASE look.op = "ensure" -> {n \in DOMAIN look.on : look.on[n] \notin columns}
      [] look.op = "ensure-dropped" -> {n \in DOMAIN look.on : look.on[n] \in columns}
      [] look.op = "ensure-role" -> IF "role" \in columns THEN {} ELSE {1, 2}
      [] look.op = "ensure-ref" ->
            IF "conversation_ref" \in columns THEN {}
            ELSE IF "conversation_uuid" \in columns THEN {1} ELSE {2}

Looks == {"ensure", "ensure-dropped", "ensure-role", "ensure-ref"}

--------------------------------------------------------------------------------
(* The processes *)

\* at is the place in the program, todo what is left of what the look there
\* decided on
Down == [state |-> "down", at |-> 0, todo |-> {}]
AtStart == [state |-> "migrating", at |-> 1, todo |-> {}]

Initialized(p) == process[p].state = "migrating" /\ process[p].at > Len(Program(p))
Migrating(p) == process[p].state = "migrating" /\ ~Initialized(p)
Serving(p) == process[p].state = "serving"
Open(p) == process[p].state # "down"

Statement(p) ==
    LET here == Program(p)[process[p].at] IN
    IF process[p].todo = {} THEN here ELSE Statements(here)[Min(process[p].todo)]

Running(p, op) == Migrating(p) /\ Statement(p).op = op

Then(p, todo) ==
    process' = [process EXCEPT ![p].todo = todo,
                               ![p].at = IF todo = {} THEN @ + 1 ELSE @]

Change(p, database) ==
    /\ main' = database
    /\ Then(p, {n \in process[p].todo : n > Min(process[p].todo)})
    /\ UNCHANGED journal

\* connect: SQLite creates a file that is not there and drops a -wal it finds
\* beside a new one; a file with another file's -wal is not a database
Connect(p) ==
    /\ Running(p, "connect")
    /\ journal = "foreign" => main = NULL
    /\ main' = IF main = NULL THEN Blank ELSE main
    /\ journal' = "none"
    /\ Then(p, {})

CreateTable(p) ==
    /\ Running(p, "create")
    /\ LET new == {Statement(p).on} \ main.tables IN
       Change(p, [main EXCEPT !.tables = @ \union new,
                              !.columns = @ \union UNION {TableColumns(t) : t \in new}])

\* table_has_column
LookUp(p) ==
    /\ Migrating(p)
    /\ Statement(p).op \in Looks
    /\ Then(p, Decide(Statement(p), main.columns))
    /\ UNCHANGED <<main, journal>>

AddColumn(p) ==
    /\ Running(p, "add")
    /\ Statement(p).on \notin main.columns
    /\ Change(p, [main EXCEPT !.columns = @ \union {Statement(p).on}])

DropColumn(p) ==
    /\ Running(p, "drop")
    /\ Statement(p).on \in main.columns
    /\ Change(p, [main EXCEPT !.columns = @ \ {Statement(p).on}])

PromoteAdministrator(p) ==
    /\ Running(p, "promote")
    /\ Change(p, [main EXCEPT !.admin = TRUE])

RenameColumn(p) ==
    /\ Running(p, "rename")
    /\ Statement(p).on \in main.columns
    /\ Change(p, [main EXCEPT !.columns = (@ \ {Statement(p).on})
                                              \union {"conversation_ref"}])

InsertChannels(p) ==
    /\ Running(p, "channels")
    /\ Change(p, [main EXCEPT !.channel = @ \/ main.messages])

\* The receipt of an execution names its capability
BackfillCapabilities(p) ==
    /\ Running(p, "capabilities")
    /\ Change(p, [main EXCEPT !.evidence =
                     [e \in DOMAIN @ |-> [@[e] EXCEPT !.capability = TRUE]]])

\* Mutant of Attribution: the number of executors is not looked at.
AttributionToLeast(database, e) ==
    IF database.evidence[e].participant = NULL
    THEN Min(Executors(database, e[2])) ELSE database.evidence[e].participant

\* A delivery recorded before participants were is attributed when exactly one
\* participant has a receipt for its intent
Attribution(database, e) ==
    LET executors == Executors(database, e[2]) IN
    IF database.evidence[e].participant = NULL /\ Cardinality(executors) = 1
    THEN Min(executors) ELSE database.evidence[e].participant

BackfillParticipants(p) ==
    /\ Running(p, "attribute")
    /\ Change(p, [main EXCEPT !.evidence =
                     [e \in DOMAIN @ |->
                         [@[e] EXCEPT !.participant = Attribution(main, e)]]])

MigrationStep(p) ==
    \/ Connect(p)
    \/ CreateTable(p)
    \/ LookUp(p)
    \/ AddColumn(p)
    \/ DropColumn(p)
    \/ PromoteAdministrator(p)
    \/ RenameColumn(p)
    \/ InsertChannels(p)
    \/ BackfillCapabilities(p)
    \/ BackfillParticipants(p)

\* SQLite refuses the statement: another file's -wal, "duplicate column name",
\* "no such column"
Refused(p) ==
    \/ Running(p, "connect") /\ journal = "foreign" /\ main # NULL
    \/ Running(p, "add") /\ Statement(p).on \in main.columns
    \/ Running(p, "drop") /\ Statement(p).on \notin main.columns
    \/ Running(p, "rename") /\ Statement(p).on \notin main.columns

\* The semantic execution of a new intent by a process that serves.  The second
\* process never adds the owner columns: where no server has run, its executions
\* fail.
Execute(p) ==
    /\ Serving(p)
    /\ main # NULL
    /\ RequiredColumns \subseteq main.columns
    /\ \E e \in NewExecutions \ DOMAIN main.evidence :
          main' = [main EXCEPT
              !.messages = TRUE, !.channel = TRUE,
              !.evidence = [f \in DOMAIN @ \union {e} |->
                  IF f = e THEN [participant |-> e[1], capability |-> TRUE] ELSE @[f]]]
    /\ UNCHANGED <<journal, process>>
================================================================================
