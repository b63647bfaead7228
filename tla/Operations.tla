------------------------------- MODULE Operations -------------------------------
(***************************************************************************)
(* The life of one installation: the Windows service and the service       *)
(* control manager that starts, stops and restarts it, a second process    *)
(* (db init, or an MCP server on stdio) that opens the same database file, *)
(* and the operator's commands, one at a time: service install, uninstall, *)
(* start, stop and restart, db backup and db restore.                      *)
(*                                                                         *)
(* A command is a sequence of steps with files between them.  It may be    *)
(* killed at any of them, and so may each process; the machine may         *)
(* restart, which kills all of them and starts the service.  What is on    *)
(* disk survives.                                                          *)
(*                                                                         *)
(* The service control manager, and what SQLite does with the files it     *)
(* finds, are external: they are modelled from how the code uses them.     *)
(***************************************************************************)
EXTENDS SchemaMigration

CONSTANTS
    Partial,        \* a copy that was being written when its writer was killed
    MaxCrashes,     \* processes and commands killed, failed binds, restarts
    MaxCommands     \* operator commands and starts of the second process

ASSUME OperationsBounds == MaxCrashes \in Nat /\ MaxCommands \in Nat

VARIABLES
    backup,      \* the --out file of db backup
    backupTmp,   \* its .tmp sibling
    restoreTmp,  \* the .restore-tmp sibling of the database
    scm,         \* the state the service control manager shows
    stopSent,    \* the service's one-shot stop channel has been used
    recovery,    \* a restart by the service control manager is due
    marked,      \* the service is to be deleted when it has stopped
    command,     \* the operator's command: its kind, its next step, --force
    lostSight,   \* a start has found no database file
    crashes, commands

fileVars == <<backup, backupTmp, restoreTmp>>
operatorVars == <<fileVars, command, commands>>
serviceVars == <<scm, stopSent, recovery, marked>>
faultVars == <<lostSight, crashes>>
vars == <<schemaVars, operatorVars, serviceVars, faultVars>>

NoCommand == [kind |-> "none", step |-> "idle", force |-> FALSE]
InCommand(kind, step) == command.kind = kind /\ command.step = step
Active == command # NoCommand
Goto(step) ==
    /\ command' = IF step \in {"done", "error"} THEN NoCommand
                  ELSE [command EXCEPT !.step = step]
    /\ UNCHANGED commands

Init ==
    /\ main \in Releases
    /\ journal \in {"none", "own"}
    /\ process = [p \in Processes |-> Down]
    /\ backup = main
    /\ backupTmp = NULL /\ restoreTmp = NULL
    /\ scm = "stopped"
    /\ stopSent = FALSE /\ recovery = FALSE /\ marked = FALSE /\ lostSight = FALSE
    /\ command = NoCommand
    /\ crashes = 0 /\ commands = 0

--------------------------------------------------------------------------------
(* The service process *)

\* The last process to leave checkpoints the -wal away, unless it is killed
LeavesJournal(p, how) ==
    journal' = IF journal = "foreign" \/ \E q \in Processes \ {p} : Open(q) THEN journal
               ELSE IF how = "killed" THEN "own" ELSE "none"

\* The service control manager launches the executable; main enters
\* run_service with a fresh stop channel
Launch ==
    /\ scm' = "start_pending"
    /\ stopSent' = FALSE
    /\ recovery' = FALSE
    /\ process' = [process EXCEPT !["service"] = [Down EXCEPT !.state = "launched"]]
    /\ UNCHANGED marked

\* RUNNING is reported before run_server initialises the database
ReportRunning ==
    /\ process["service"].state = "launched"
    /\ scm' = "running"
    /\ process' = [process EXCEPT !["service"] = AtStart]
    /\ UNCHANGED <<main, journal, operatorVars, stopSent, recovery, marked, faultVars>>

\* The listener is bound and axum::serve begins
Bind ==
    /\ Initialized("service")
    /\ process' = [process EXCEPT !["service"] = [Down EXCEPT !.state = "serving"]]
    /\ UNCHANGED <<main, journal, operatorVars, serviceVars, faultVars>>

\* Mutant of RestartsOnError: failure actions for crashes only.
RestartsAfterCrashOnly == FALSE

\* set_failure_actions_on_non_crash_failures
RestartsOnError == TRUE

\* The service control manager sees the process gone: it restarts the service
\* later, if that is due, or removes it, if it was deleted meanwhile
ScmSeesEnd(restart) ==
    /\ scm' = IF marked THEN "absent" ELSE "stopped"
    /\ recovery' = (restart /\ ~marked)
    /\ marked' = FALSE

\* run_service ends; an error is a non-zero exit, which is a failure to the
\* service control manager as a crash is
ServiceEnds(failed) ==
    /\ ScmSeesEnd(failed /\ RestartsOnError)
    /\ process' = [process EXCEPT !["service"] = Down]
    /\ LeavesJournal("service", "closed")
    /\ UNCHANGED <<main, operatorVars, stopSent, lostSight>>

\* The stop channel has fired and the requests in flight are answered
Shutdown ==
    /\ Serving("service")
    /\ stopSent
    /\ ServiceEnds(FALSE)
    /\ UNCHANGED crashes

\* A statement of the migration is refused
StartFails ==
    /\ Refused("service")
    /\ ServiceEnds(TRUE)
    /\ UNCHANGED crashes

\* The address is taken, or the OIDC configuration cannot be read
BindFails ==
    /\ Initialized("service")
    /\ crashes < MaxCrashes
    /\ crashes' = crashes + 1
    /\ ServiceEnds(TRUE)

ServiceKilled ==
    /\ Open("service")
    /\ crashes < MaxCrashes
    /\ crashes' = crashes + 1
    /\ ScmSeesEnd(TRUE)
    /\ process' = [process EXCEPT !["service"] = Down]
    /\ LeavesJournal("service", "killed")
    /\ UNCHANGED <<main, operatorVars, stopSent, lostSight>>

\* The recovery action: restart after 5, 15, then every 30 seconds
ScmRestarts ==
    /\ recovery
    /\ scm = "stopped"
    /\ Launch
    /\ UNCHANGED <<main, journal, operatorVars, faultVars>>

ServiceStep ==
    \/ /\ MigrationStep("service")
       /\ lostSight' = (lostSight \/ main = NULL)
       /\ UNCHANGED <<operatorVars, serviceVars, crashes>>
    \/ ReportRunning
    \/ Bind
    \/ Shutdown
    \/ StartFails
    \/ ScmRestarts

--------------------------------------------------------------------------------
(* The second process: db init, or mcp serve *)

CliStart ==
    /\ ~Open("cli")
    /\ command.kind # "restore"
    /\ commands < MaxCommands
    /\ commands' = commands + 1
    /\ process' = [process EXCEPT !["cli"] = AtStart]
    /\ UNCHANGED <<main, journal, fileVars, command, serviceVars, faultVars>>

CliServes ==
    /\ Initialized("cli")
    /\ process' = [process EXCEPT !["cli"] = [Down EXCEPT !.state = "serving"]]
    /\ UNCHANGED <<main, journal, operatorVars, serviceVars, faultVars>>

\* db init returns, mcp serve reads the end of its input, or the start fails
CliEnds ==
    /\ Serving("cli") \/ Refused("cli")
    /\ process' = [process EXCEPT !["cli"] = Down]
    /\ LeavesJournal("cli", "closed")
    /\ UNCHANGED <<main, operatorVars, serviceVars, faultVars>>

CliKilled ==
    /\ Open("cli")
    /\ crashes < MaxCrashes
    /\ crashes' = crashes + 1
    /\ process' = [process EXCEPT !["cli"] = Down]
    /\ LeavesJournal("cli", "killed")
    /\ UNCHANGED <<main, operatorVars, serviceVars, lostSight>>

CliStep ==
    \/ /\ MigrationStep("cli")
       /\ lostSight' = (lostSight \/ main = NULL)
       /\ UNCHANGED <<operatorVars, serviceVars, crashes>>
    \/ CliServes
    \/ CliEnds

Executes(p) ==
    /\ Execute(p)
    /\ UNCHANGED <<operatorVars, serviceVars, faultVars>>

--------------------------------------------------------------------------------
(* The operator's commands *)

Begin(kind, step, force) ==
    /\ ~Active
    /\ commands < MaxCommands
    /\ commands' = commands + 1
    /\ command' = IF step \in {"done", "error"} THEN NoCommand
                  ELSE [kind |-> kind, step |-> step, force |-> force]

Install ==
    /\ scm = "absent"
    /\ Begin("install", "done", FALSE)
    /\ scm' = "stopped"
    /\ UNCHANGED <<schemaVars, fileVars, stopSent, recovery, marked, faultVars>>

\* What a command does of a service that has stopped
OnceStopped ==
    CASE command.kind = "stop" -> "done"
      [] command.kind = "uninstall" -> "delete"
      [] command.kind = "restart" -> "start"

\* uninstall, start, stop and restart open the service and query its state
ServiceCommand ==
    /\ scm # "absent"
    /\ \E kind \in {"uninstall", "start", "stop", "restart"} : Begin(kind, "query", FALSE)
    /\ UNCHANGED <<schemaVars, fileVars, serviceVars, faultVars>>

QueryStatus ==
    /\ command.step = "query"
    /\ Goto(IF command.kind = "start" THEN IF scm = "running" THEN "done" ELSE "start"
            ELSE IF scm = "stopped" THEN OnceStopped ELSE "stop")
    /\ UNCHANGED <<schemaVars, fileVars, serviceVars, faultVars>>

\* The control reaches event_handler, which takes the sender; a service that
\* is not running refuses it
SendStop ==
    /\ command.step = "stop"
    /\ Goto(IF scm = "running" THEN "await-stopped" ELSE "error")
    /\ stopSent' = (stopSent \/ scm = "running")
    /\ UNCHANGED <<schemaVars, fileVars, scm, recovery, marked, faultVars>>

SendStart ==
    /\ command.step = "start"
    /\ IF scm = "stopped"
       THEN Goto("await-running") /\ Launch
       ELSE Goto("error") /\ UNCHANGED <<process, serviceVars>>
    /\ UNCHANGED <<main, journal, fileVars, faultVars>>

\* wait_for_state: the state is seen, or STATE_TIMEOUT has passed
WaitForState ==
    LET target == IF command.step = "await-stopped" THEN "stopped" ELSE "running" IN
    /\ command.step \in {"await-stopped", "await-running"}
    /\ \/ /\ scm = target
          /\ Goto(IF target = "running" THEN "done" ELSE OnceStopped)
       \/ /\ scm # target
          /\ Goto("error")
    /\ UNCHANGED <<schemaVars, fileVars, serviceVars, faultVars>>

\* A service that is up again is only marked; it is gone once it stops
DeleteService ==
    /\ command.step = "delete"
    /\ Goto("done")
    /\ IF scm = "stopped"
       THEN scm' = "absent" /\ recovery' = FALSE /\ UNCHANGED marked
       ELSE marked' = TRUE /\ UNCHANGED <<scm, recovery>>
    /\ UNCHANGED <<schemaVars, fileVars, stopSent, faultVars>>
--------------------------------------------------------------------------------
(* db backup *)

\* Mutant of BackupBegins: the source is not required to exist.
BackupBeginsUnchecked ==
    /\ Begin("backup", "vacuum", FALSE)
    /\ backupTmp' = NULL
    /\ UNCHANGED <<schemaVars, backup, restoreTmp, serviceVars, faultVars>>

\* require_file, and what an earlier backup left behind is removed
BackupBegins ==
    /\ Begin("backup", IF main = NULL THEN "error" ELSE "vacuum", FALSE)
    /\ backupTmp' = IF main = NULL THEN backupTmp ELSE NULL
    /\ UNCHANGED <<schemaVars, backup, restoreTmp, serviceVars, faultVars>>

\* VACUUM INTO copies what is committed when it begins, -wal included; the copy
\* of a file that is not a database fails, or fails integrity_ok
BackupVacuum ==
    LET sound == journal # "foreign" IN
    /\ InCommand("backup", "vacuum")
    /\ Goto(IF sound THEN "clear" ELSE "error")
    /\ backupTmp' = IF sound THEN main ELSE NULL
    /\ LeavesJournal("operator", "closed")
    /\ UNCHANGED <<main, process, backup, restoreTmp, serviceVars, faultVars>>

BackupRemovesOutput ==
    /\ InCommand("backup", "clear")
    /\ Goto("rename")
    /\ backup' = NULL
    /\ UNCHANGED <<schemaVars, backupTmp, restoreTmp, serviceVars, faultVars>>

BackupRenames ==
    /\ InCommand("backup", "rename")
    /\ Goto("done")
    /\ backup' = backupTmp
    /\ backupTmp' = NULL
    /\ UNCHANGED <<schemaVars, restoreTmp, serviceVars, faultVars>>

--------------------------------------------------------------------------------
(* db restore *)

\* "Stop the service before destructive restore/replacement": nothing has the
\* file open and no restart of the service is due
Quiesced ==
    /\ \A p \in Processes : ~Open(p)
    /\ ~recovery

RestoreBegins(force) ==
    LET refused == backup = NULL \/ (main # NULL /\ ~force) IN
    /\ Quiesced
    /\ Begin("restore", IF refused THEN "error" ELSE "vacuum", force)
    /\ restoreTmp' = IF refused THEN restoreTmp ELSE NULL
    /\ UNCHANGED <<schemaVars, backup, backupTmp, serviceVars, faultVars>>

RestoreVacuum ==
    /\ InCommand("restore", "vacuum")
    /\ Goto(IF command.force THEN "clear" ELSE "rename")
    /\ restoreTmp' = backup
    /\ UNCHANGED <<schemaVars, backup, backupTmp, serviceVars, faultVars>>

\* remove_database_files: the file first; a -wal beside it is left alone
RestoreRemovesTarget ==
    /\ InCommand("restore", "clear")
    /\ Goto("clear-wal")
    /\ main' = NULL
    /\ journal' = IF journal = "own" THEN "foreign" ELSE journal
    /\ UNCHANGED <<process, fileVars, serviceVars, faultVars>>

\* Mutant of RestoreRemovesWal: only the database file is removed.
RestoreKeepsWal ==
    /\ InCommand("restore", "clear-wal")
    /\ Goto("rename")
    /\ UNCHANGED <<schemaVars, fileVars, serviceVars, faultVars>>

RestoreRemovesWal ==
    /\ InCommand("restore", "clear-wal")
    /\ Goto("rename")
    /\ journal' = "none"
    /\ UNCHANGED <<main, process, fileVars, serviceVars, faultVars>>

RestoreRenames ==
    /\ InCommand("restore", "rename")
    /\ Goto("done")
    /\ main' = restoreTmp
    /\ restoreTmp' = NULL
    /\ UNCHANGED <<journal, process, backup, backupTmp, serviceVars, faultVars>>

--------------------------------------------------------------------------------
(* Faults of the commands and of the machine *)

\* What the step of the command that was under way leaves of its copy
Interrupted ==
    /\ IF InCommand("backup", "vacuum")
       THEN backupTmp' \in {NULL, Partial} ELSE UNCHANGED backupTmp
    /\ IF InCommand("restore", "vacuum")
       THEN restoreTmp' \in {NULL, Partial} ELSE UNCHANGED restoreTmp
    /\ command' = NoCommand
    /\ UNCHANGED <<backup, commands>>

CommandKilled ==
    /\ Active
    /\ crashes < MaxCrashes
    /\ crashes' = crashes + 1
    /\ Interrupted
    /\ UNCHANGED <<schemaVars, serviceVars, lostSight>>

\* The machine restarts, and the automatic start of the service with it
Reboot ==
    /\ crashes < MaxCrashes
    /\ crashes' = crashes + 1
    /\ Interrupted
    /\ journal' = IF journal = "none" /\ \E p \in Processes : Open(p) THEN "own" ELSE journal
    /\ IF scm = "absent" \/ marked
       THEN /\ process' = [p \in Processes |-> Down]
            /\ scm' = "absent" /\ recovery' = FALSE /\ marked' = FALSE /\ UNCHANGED stopSent
       ELSE /\ process' = [p \in Processes |->
                  IF p = "service" THEN [Down EXCEPT !.state = "launched"] ELSE Down]
            /\ scm' = "start_pending" /\ stopSent' = FALSE /\ recovery' = FALSE
            /\ UNCHANGED marked
    /\ UNCHANGED <<main, lostSight>>

--------------------------------------------------------------------------------
CommandStep ==
    \/ QueryStatus \/ SendStop \/ SendStart \/ WaitForState \/ DeleteService
    \/ BackupVacuum \/ BackupRemovesOutput \/ BackupRenames
    \/ RestoreVacuum \/ RestoreRemovesTarget \/ RestoreRemovesWal \/ RestoreRenames

Operator ==
    \/ Install \/ ServiceCommand \/ BackupBegins
    \/ \E force \in BOOLEAN : RestoreBegins(force)
    \/ CliStart

Fault == BindFails \/ ServiceKilled \/ CliKilled \/ CommandKilled \/ Reboot

Next ==
    \/ ServiceStep
    \/ CliStep
    \/ \E p \in Processes : Executes(p)
    \/ CommandStep
    \/ Operator
    \/ Fault

\* A service that has been launched runs, a request in flight is answered, the
\* service control manager carries out the restart it owes, and a command that
\* has begun goes on.  The second process may hang.
Fairness ==
    /\ WF_vars(ServiceStep)
    /\ WF_vars(CommandStep)

Spec == Init /\ [][Next]_vars /\ Fairness

--------------------------------------------------------------------------------
(* Properties *)

\* A process answers requests only over a database that has everything
\* db::initialize adds, without the credentials of the schemes that were
\* dropped, and with the metadata row of every channel that has messages; and
\* the server (run_server) only over one that has every column the code names.
\* Whatever release left the file behind, whichever other process migrated it
\* at the same time, and wherever earlier starts died.  db init and mcp serve
\* never add the owner columns to an older file, so their policy evaluation
\* fails on one that no server has opened.
ServesMigrated ==
    /\ \A p \in Processes :
          Serving(p) =>
              /\ main # NULL
              /\ InitializedColumns \subseteq main.columns
              /\ main.columns \intersect {"public_key", "conversation_uuid"} = {}
              /\ main.messages => main.channel
    /\ Serving("service") => RequiredColumns \subseteq main.columns

\* The backfills of migrate_execution_schema never give a delivery to a
\* participant who did not execute it, in any file; and once a server serves,
\* the only deliveries without a participant are those whose intent more than
\* one participant has executed.
AttributionTruthful ==
    /\ \A file \in {main, backup, backupTmp, restoreTmp} \ {NULL, Partial} :
          \A e \in DOMAIN file.evidence :
              file.evidence[e].participant \in {NULL, e[1]}
    /\ \A p \in Processes : Serving(p) =>
          \A e \in DOMAIN main.evidence :
              /\ main.evidence[e].capability
              /\ main.evidence[e].participant = NULL =>
                     Cardinality(Executors(main, e[2])) > 1

\* db backup and db restore --force remove a file before they rename its
\* replacement into place.  Wherever they, or the processes, are killed, the
\* database or the backup still holds the record, unless a start meanwhile found
\* no database and created an empty one, which the next backup then copies over
\* the last good one (backup_database, restore_database).
RecordSurvives ==
    \/ lostSight
    \/ \E file \in {main, backup} : file # NULL /\ file.messages

\* A forced restore leaves the database of the backup, never beside the -wal of
\* the file it replaced (remove_database_files).
RestoredAlone ==
    [][RestoreRenames /\ command.force => journal' # "foreign"]_vars

\* A service that is started serves, even if it dies on the way or its start
\* fails because another process is migrating, without an operator, unless it
\* is stopped or deleted, or an unforced restore has put the database beside
\* another file's -wal (the failure actions install configures).
ServiceRecovers ==
    process["service"].state = "launched" ~>
        \/ Serving("service")
        \/ stopSent
        \/ scm = "absent"
        \/ main # NULL /\ journal = "foreign"
================================================================================
