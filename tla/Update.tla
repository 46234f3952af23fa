------------------------------- MODULE Update --------------------------------
(***************************************************************************)
(* keyhole update, restore and backup (internal/release, internal/backup,  *)
(* cmd/keyhole): files that are moved one step at a time, around a service *)
(* systemd runs, by commands that may be cut off between any two steps.    *)
(*                                                                         *)
(* A binary is its version.  A database is its schema version and the      *)
(* users' writes in it; wal is what opening the database gives while a     *)
(* write-ahead log lies beside the file, and file what the file holds.     *)
(***************************************************************************)
EXTENDS Integers, FiniteSets

CONSTANTS
    MaxVersion,     \* releases are 1 .. MaxVersion; a release may be withdrawn
    Keep,           \* --keep of keyhole backup
    StopsFirst,     \* whether the operator stops the service before a restore
    MaxUpdates, MaxWrites, MaxSnapshots, MaxFaults      \* bounds

ASSUME UpdateAssumption ==
    /\ {MaxVersion, Keep, MaxUpdates, MaxWrites, MaxSnapshots, MaxFaults} \subseteq Nat \ {0}
    /\ StopsFirst \in BOOLEAN

Versions == 1 .. MaxVersion
Writes == 0 .. MaxWrites     \* write 0 is the accounts

VARIABLES
    binary,     \* the version at BinaryPath, 0 for none
    prev,       \* the version at PreviousPath
    file,       \* keyhole.db
    wal,        \* keyhole.db with its -wal, NoFile when there is no -wal
    aside,      \* the keyhole.db.replaced-* files
    snapshots,  \* the backup directory
    unit,       \* whether systemd is to keep the service running
    running,    \* the version of the serving process, 0 for none
    held,       \* the database that process has open, if it is not the one at DBPath
    acked,      \* the writes users were told are saved
    job,        \* the command under way
    report,     \* what it told the operator
    updates, taken, faults  \* counters

fileVars == <<binary, prev, file, wal, aside, snapshots>>
serviceVars == <<unit, running, held>>
jobVars == <<job, report, updates>>
machineVars == <<fileVars, serviceVars, jobVars, acked, taken, faults>>

Data(kind, schema, rows) == [kind |-> kind, schema |-> schema, rows |-> rows]
NoFile == Data("none", 0, {})
Torn == Data("torn", 0, {})
Fresh == Data("whole", 0, {})

NoJob == [cmd |-> "none", pc |-> "idle", from |-> 0, to |-> 0, snap |-> 0, before |-> NoFile,
         parked |-> FALSE, migrated |-> FALSE, errs |-> {}, byHand |-> {}]
NoReport == [outcome |-> "none", errs |-> {}, byHand |-> {}]

MachineInit ==
    /\ binary = 1 /\ prev = 0
    /\ file = Data("whole", 1, {0}) /\ wal = NoFile /\ aside = {} /\ snapshots = {}
    /\ unit = "on" /\ running = 1 /\ held = NoFile
    /\ acked = {0} /\ job = NoJob /\ report = NoReport
    /\ updates = 0 /\ taken = 0 /\ faults = 0

-----------------------------------------------------------------------------
(***************************************************************************)
(* The database as SQLite opens, migrates and closes it.                   *)
(***************************************************************************)
Seen == IF wal # NoFile THEN wal ELSE file

\* store.Open creates a database that is not there; a log without one is dropped.
Opened == IF file = NoFile THEN Fresh ELSE Seen

\* Store.Migrate never goes back, and stops at the last migration that applied.
MigratedTo(d, v) == [d EXCEPT !.schema = IF v > @ THEN v ELSE @]

\* The last connection checkpoints the log into the file when it is closed.
Attached == running # 0 /\ held = NoFile
OpenAndClose ==
    IF Attached THEN UNCHANGED <<file, wal>>
    ELSE file' = Opened /\ wal' = NoFile

\* A process that opened the database, brought it to schema v and died.
OpenAndDie(v) ==
    /\ file' = IF file = NoFile THEN Fresh ELSE file
    /\ wal' = MigratedTo(Opened, v)

-----------------------------------------------------------------------------
(***************************************************************************)
(* systemd and the service.  The unit is Type=simple, Restart=on-failure:  *)
(* start says nothing of what becomes of the process.                      *)
(***************************************************************************)
ServiceComesUp ==
    /\ unit = "on" /\ running = 0 /\ binary # 0 /\ Opened.kind = "whole"
    /\ running' = binary
    /\ OpenAndDie(binary)       \* but it lives on
    /\ UNCHANGED <<binary, prev, aside, snapshots, unit, held, jobVars, acked, taken, faults>>

\* serve() returns an error after some of its migrations, or is killed.
ServiceFailsToStart ==
    /\ unit = "on" /\ running = 0 /\ binary # 0 /\ Opened.kind = "whole"
    /\ \E v \in 0 .. binary :
          \/ file' = MigratedTo(Opened, v) /\ wal' = NoFile
          \/ OpenAndDie(v)
    /\ UNCHANGED <<binary, prev, aside, snapshots, serviceVars, jobVars, acked, taken, faults>>

ServiceCrashes ==
    /\ running # 0
    /\ running' = 0 /\ held' = NoFile
    /\ UNCHANGED <<fileVars, unit, jobVars, acked, taken, faults>>

\* Nobody can log in to a database that was just created.
UserWrites ==
    /\ running # 0 /\ Cardinality(acked) <= MaxWrites
    /\ 0 \in (IF Attached THEN Seen ELSE held).rows
    /\ LET w == Cardinality(acked) IN
       /\ acked' = acked \cup {w}
       /\ IF Attached
          THEN wal' = [Seen EXCEPT !.rows = @ \cup {w}] /\ UNCHANGED held
          ELSE held' = [held EXCEPT !.rows = @ \cup {w}] /\ UNCHANGED wal
    /\ UNCHANGED <<binary, prev, file, aside, snapshots, unit, running, jobVars, taken, faults>>

\* systemctl stop: the process ends cleanly, or is killed and leaves its log.
Stops ==
    /\ unit' = "off" /\ running' = 0 /\ held' = NoFile
    /\ \/ /\ IF Attached THEN file' = Seen /\ wal' = NoFile ELSE UNCHANGED <<file, wal>>
          /\ aside' = IF held # NoFile THEN aside \cup {held} ELSE aside
       \/ running # 0 /\ UNCHANGED <<file, wal, aside>>

\* It exits non-zero over a unit that did stop, and over one that did not.
StopErrs == Stops \/ UNCHANGED <<serviceVars, file, wal, aside>>

Starts == unit' = "on" /\ UNCHANGED <<running, held>>
StartErrs == unit' \in {"on", unit} /\ UNCHANGED <<running, held>>

\* The operator's own systemctl stop and start around a restore.
OperatorStops ==
    /\ job = NoJob /\ unit = "on" /\ Stops
    /\ UNCHANGED <<binary, prev, snapshots, jobVars, acked, taken, faults>>

OperatorStarts ==
    /\ job = NoJob /\ unit = "off" /\ Starts
    /\ UNCHANGED <<fileVars, jobVars, acked, taken, faults>>

-----------------------------------------------------------------------------
(***************************************************************************)
(* keyhole backup.                                                         *)
(***************************************************************************)
\* Names sort by the time they were taken.
Newest(n, S) == {s \in S : Cardinality({t \in S : t.n > s.n}) < n}

\* VACUUM INTO a name of its own.
TakeSnapshot ==
    /\ Opened.kind = "whole" /\ taken < MaxSnapshots
    /\ taken' = taken + 1
    /\ OpenAndClose

\* The nightly timer; it prunes the directory update writes into.
Backup ==
    /\ TakeSnapshot
    /\ snapshots' = Newest(Keep, snapshots \cup {[n |-> taken + 1, data |-> Opened]})
    /\ UNCHANGED <<binary, prev, aside, serviceVars, jobVars, acked, faults>>

-----------------------------------------------------------------------------
(***************************************************************************)
(* keyhole update, up to the service answering.                            *)
(***************************************************************************)
Goes(pc) == job' = [job EXCEPT !.pc = pc] /\ UNCHANGED report
EndsWith(outcome) ==
    /\ job' = NoJob
    /\ report' = [outcome |-> outcome, errs |-> job.errs, byHand |-> job.byHand]

\* A release with another version, downloaded and verified.  What is current or
\* fails to verify ends before anything is touched.
BeginUpdate ==
    /\ job = NoJob /\ binary # 0 /\ updates < MaxUpdates
    /\ \E to \in Versions \ {binary} :
          job' = [NoJob EXCEPT !.cmd = "update", !.pc = "snapshot", !.from = binary, !.to = to]
    /\ report' = NoReport /\ updates' = updates + 1
    /\ UNCHANGED <<fileVars, serviceVars, acked, taken, faults>>

BackupSnapshot ==
    /\ job.pc = "snapshot"
    /\ \/ /\ TakeSnapshot
          /\ snapshots' = snapshots \cup {[n |-> taken + 1, data |-> Opened]}
          /\ job' = [job EXCEPT !.pc = "stop", !.snap = taken + 1, !.before = Opened]
          /\ UNCHANGED report
       \/ /\ EndsWith("untouched")
          /\ IF Opened.kind = "whole" THEN OpenAndClose ELSE UNCHANGED <<file, wal>>
          /\ UNCHANGED <<snapshots, taken>>
    /\ UNCHANGED <<binary, prev, aside, serviceVars, updates, acked, faults>>

\* A failed stop may have stopped the service all the same: start it again.
StopForUpdate ==
    /\ job.pc = "stop"
    /\ \/ Stops /\ Goes("park")
       \/ StopErrs /\ Goes("restart")
    /\ UNCHANGED <<binary, prev, snapshots, updates, acked, taken, faults>>

RestartUntouched ==
    /\ job.pc = "restart"
    /\ Starts \/ StartErrs
    /\ EndsWith("stop-failed")
    /\ UNCHANGED <<fileVars, updates, acked, taken, faults>>

\* [bug] the running binary is removed instead of kept.
ParkByRemoving ==
    /\ job.pc = "park"
    /\ \/ /\ prev' = prev /\ binary' = 0
          /\ job' = [job EXCEPT !.pc = "write", !.parked = TRUE]
       \/ UNCHANGED <<binary, prev>> /\ job' = [job EXCEPT !.pc = "rb-stop"]
    /\ UNCHANGED <<file, wal, aside, snapshots, serviceVars, report, updates, acked, taken, faults>>

Park ==
    /\ job.pc = "park"
    /\ \/ /\ prev' = binary /\ binary' = 0
          /\ job' = [job EXCEPT !.pc = "write", !.parked = TRUE]
       \/ UNCHANGED <<binary, prev>> /\ job' = [job EXCEPT !.pc = "rb-stop"]
    /\ UNCHANGED <<file, wal, aside, snapshots, serviceVars, report, updates, acked, taken, faults>>

\* writeBinaryAtomically: all of it or nothing.  From here on the database may
\* have been written.
WriteNew ==
    /\ job.pc = "write"
    /\ \/ /\ binary' = job.to
          /\ job' = [job EXCEPT !.pc = "migrate", !.migrated = TRUE]
       \/ UNCHANGED binary /\ job' = [job EXCEPT !.pc = "rb-stop"]
    /\ UNCHANGED <<prev, file, wal, aside, snapshots, serviceVars, report, updates, acked, taken, faults>>

\* The new binary's migrate; one that fails, or is killed at its time limit, may
\* have applied some.
RunMigrate ==
    /\ job.pc = "migrate"
    /\ \/ /\ Opened.kind = "whole"
          /\ file' = MigratedTo(Opened, job.to) /\ wal' = NoFile
          /\ Goes("start")
       \/ /\ Opened.kind = "whole"
          /\ \E v \in 0 .. job.to :
                \/ file' = MigratedTo(Opened, v) /\ wal' = NoFile
                \/ OpenAndDie(v)
          /\ Goes("rb-stop")
       \/ UNCHANGED <<file, wal>> /\ Goes("rb-stop")
    /\ UNCHANGED <<binary, prev, aside, snapshots, serviceVars, updates, acked, taken, faults>>

StartNew ==
    /\ job.pc = "start"
    /\ \/ Starts /\ Goes("health")
       \/ StartErrs /\ Goes("rb-stop")
    /\ UNCHANGED <<fileVars, updates, acked, taken, faults>>

\* Health.Wait: an answer, or the time is up.
AwaitHealth ==
    /\ job.pc = "health"
    /\ \/ running # 0 /\ EndsWith("installed")
       \/ Goes("rb-stop")
    /\ UNCHANGED <<fileVars, serviceVars, updates, acked, taken, faults>>

-----------------------------------------------------------------------------
(***************************************************************************)
(* rollback: every step is tried whatever became of the one before.        *)
(***************************************************************************)
RollbackStop ==
    /\ job.pc = "rb-stop"
    /\ UNCHANGED report
    /\ \/ Stops /\ job' = [job EXCEPT !.pc = "rb-binary"]
       \/ StopErrs /\ job' = [job EXCEPT !.pc = "rb-binary", !.errs = @ \cup {"stop"}]
    /\ UNCHANGED <<binary, prev, snapshots, updates, acked, taken, faults>>

\* [bug] a parked binary that is not there to move back goes unnoticed.
RestoreBinaryQuietly ==
    /\ job.pc = "rb-binary"
    /\ job' = [job EXCEPT !.pc = "rb-db"]
    /\ \/ job.parked /\ prev # 0 /\ binary' = prev /\ prev' = 0
       \/ UNCHANGED <<binary, prev>>
    /\ UNCHANGED <<file, wal, aside, snapshots, serviceVars, report, updates, acked, taken, faults>>

RestoreBinary ==
    /\ job.pc = "rb-binary"
    /\ UNCHANGED report
    /\ \/ /\ job.parked /\ prev # 0
          /\ binary' = prev /\ prev' = 0
          /\ job' = [job EXCEPT !.pc = "rb-db"]
       \/ /\ job.parked
          /\ job' = [job EXCEPT !.pc = "rb-db", !.byHand = @ \cup {"binary"}]
          /\ UNCHANGED <<binary, prev>>
       \/ /\ ~job.parked
          /\ job' = [job EXCEPT !.pc = "rb-db"]
          /\ UNCHANGED <<binary, prev>>
    /\ UNCHANGED <<file, wal, aside, snapshots, serviceVars, updates, acked, taken, faults>>

\* Only a database that may have been migrated is restored.
RestoreDatabase ==
    /\ job.pc = "rb-db"
    /\ Goes(IF job.migrated THEN "verify" ELSE "rb-start")
    /\ UNCHANGED <<fileVars, serviceVars, updates, acked, taken, faults>>

RollbackStart ==
    /\ job.pc = "rb-start"
    /\ UNCHANGED report
    /\ \/ Starts /\ job' = [job EXCEPT !.pc = "rb-health"]
       \/ StartErrs /\ job' = [job EXCEPT !.pc = "rb-health", !.errs = @ \cup {"start"}]
    /\ UNCHANGED <<fileVars, updates, acked, taken, faults>>

\* [bug] a service that was started is taken for one that serves.
RollbackHealthUnasked ==
    /\ job.pc = "rb-health"
    /\ EndsWith(IF job.errs \cup job.byHand = {} THEN "rolled-back" ELSE "failed")
    /\ UNCHANGED <<fileVars, serviceVars, updates, acked, taken, faults>>

RollbackHealth ==
    /\ job.pc = "rb-health"
    /\ \/ /\ running # 0
          /\ EndsWith(IF job.errs \cup job.byHand = {} THEN "rolled-back" ELSE "failed")
       \/ /\ job' = NoJob
          /\ report' = [outcome |-> "failed", errs |-> job.errs,
                        byHand |-> job.byHand \cup {"service"}]
    /\ UNCHANGED <<fileVars, serviceVars, updates, acked, taken, faults>>

-----------------------------------------------------------------------------
(***************************************************************************)
(* backup.Restore, for a rollback and for keyhole restore.                 *)
(***************************************************************************)
\* refuseIfLocked, then the snapshot the operator names.
BeginRestore ==
    /\ job = NoJob /\ updates < MaxUpdates
    /\ StopsFirst => unit = "off"
    /\ file = NoFile \/ ~Attached
    /\ IF file = NoFile THEN UNCHANGED <<file, wal>> ELSE OpenAndClose
    /\ \E s \in snapshots :
          job' = [NoJob EXCEPT !.cmd = "restore", !.pc = "verify", !.snap = s.n, !.before = s.data]
    /\ report' = NoReport /\ updates' = updates + 1
    /\ UNCHANGED <<binary, prev, aside, snapshots, serviceVars, acked, taken, faults>>

RestoreFails ==
    IF job.cmd = "restore" THEN EndsWith("restore-failed")
    ELSE /\ job' = [job EXCEPT !.pc = "rb-start", !.byHand = @ \cup {"db"}]
         /\ UNCHANGED report

\* A snapshot that was pruned, or does not verify, ends it with nothing touched.
VerifySnapshot ==
    /\ job.pc = "verify"
    /\ \/ (\E s \in snapshots : s.n = job.snap) /\ Goes("aside")
       \/ RestoreFails
    /\ UNCHANGED <<fileVars, serviceVars, updates, acked, taken, faults>>

\* [bug] the database is removed, not moved.
MoveAsideByRemoving ==
    /\ job.pc = "aside"
    /\ \/ /\ file' = NoFile
          /\ held' = IF Attached THEN Seen ELSE held
          /\ Goes("copy")
       \/ RestoreFails /\ UNCHANGED <<file, held>>
    /\ UNCHANGED <<binary, prev, wal, aside, snapshots, unit, running, updates, acked, taken, faults>>

\* A server that still has the file open keeps the one that was moved.
MoveAside ==
    /\ job.pc = "aside"
    /\ \/ /\ aside' = IF file = NoFile THEN aside ELSE aside \cup {file}
          /\ file' = NoFile
          /\ held' = IF Attached THEN Seen ELSE held
          /\ Goes("copy")
       \/ RestoreFails /\ UNCHANGED <<aside, file, held>>
    /\ UNCHANGED <<binary, prev, wal, snapshots, unit, running, updates, acked, taken, faults>>

\* A log that is still there would be replayed over the new file.
CopySnapshot ==
    /\ job.pc = "copy"
    /\ \/ /\ file' = job.before
          /\ wal' = IF wal = NoFile THEN NoFile ELSE Torn
          /\ Goes("clean")
       \/ file' \in {file, Torn} /\ UNCHANGED wal /\ RestoreFails
    /\ UNCHANGED <<binary, prev, aside, snapshots, serviceVars, updates, acked, taken, faults>>

\* Owner, mode, then the stale log.
RemoveStaleLog ==
    /\ job.pc = "clean"
    /\ \/ /\ wal' = NoFile
          /\ IF job.cmd = "restore" THEN EndsWith("restored") ELSE Goes("rb-start")
       \/ UNCHANGED wal /\ RestoreFails
    /\ UNCHANGED <<binary, prev, file, aside, snapshots, serviceVars, updates, acked, taken, faults>>

-----------------------------------------------------------------------------
(***************************************************************************)
(* A command is cut off, or the machine goes down and boots again.         *)
(***************************************************************************)
HalfCopied == file' \in (IF job.pc = "copy" THEN {file, Torn} ELSE {file})

CommandKilled ==
    /\ job # NoJob /\ faults < MaxFaults
    /\ HalfCopied
    /\ job' = NoJob /\ report' = NoReport /\ faults' = faults + 1
    /\ UNCHANGED <<binary, prev, wal, aside, snapshots, serviceVars, updates, acked, taken>>

MachineCrash ==
    /\ faults < MaxFaults
    /\ HalfCopied
    /\ job' = NoJob /\ report' = NoReport /\ faults' = faults + 1
    /\ running' = 0 /\ held' = NoFile /\ unit' = "on"
    /\ UNCHANGED <<binary, prev, wal, aside, snapshots, updates, acked, taken>>

JobStep ==
    \/ BackupSnapshot \/ StopForUpdate \/ RestartUntouched \/ Park \/ WriteNew
    \/ RunMigrate \/ StartNew \/ AwaitHealth
    \/ RollbackStop \/ RestoreBinary \/ RestoreDatabase \/ RollbackStart \/ RollbackHealth
    \/ VerifySnapshot \/ MoveAside \/ CopySnapshot \/ RemoveStaleLog

MachineNext ==
    \/ JobStep \/ BeginUpdate \/ BeginRestore \/ Backup
    \/ ServiceComesUp \/ ServiceFailsToStart \/ ServiceCrashes \/ UserWrites
    \/ OperatorStops \/ OperatorStarts
    \/ CommandKilled \/ MachineCrash

\* A command goes on until it ends: each of its waits has a time limit.
MachineSpec == MachineInit /\ [][MachineNext]_machineVars /\ WF_machineVars(JobStep)

-----------------------------------------------------------------------------
(***************************************************************************)
(* Properties.                                                             *)
(***************************************************************************)
Databases == {Data(k, s, r) : k \in {"none", "torn", "whole"}, s \in 0 .. MaxVersion, r \in SUBSET Writes}
Steps == {"snapshot", "stop", "restart", "park", "write", "migrate", "start", "health",
          "rb-stop", "rb-binary", "rb-db", "rb-start", "rb-health",
          "verify", "aside", "copy", "clean"}

\* What is where; a process that is gone has nothing open.
MachineTypeOK ==
    /\ {binary, prev, running} \subseteq 0 .. MaxVersion /\ unit \in {"on", "off"}
    /\ {file, wal, held} \cup aside \subseteq Databases
    /\ acked \subseteq Writes
    /\ \A s \in snapshots : s.n \in 1 .. taken /\ s.data \in Databases
    /\ job # NoJob => job.pc \in Steps /\ job.cmd \in {"update", "restore"} /\ job.before \in Databases
    /\ running = 0 => held = NoFile

\* The database is as the update found it, or as the version it came from
\* migrates it.
SchemaAsBefore ==
    Seen.schema \in job.before.schema .. MigratedTo(job.before, job.from).schema

Reports(outcome) == job # NoJob /\ job' = NoJob /\ report'.outcome = outcome

\* "Installed is true when the new binary is running", "RolledBack ... when Update
\* successfully restored the previous binary and database": what is reported is
\* what is there.
ReportIsTrue ==
    [][/\ Reports("installed") =>
             running = job.to /\ binary = job.to /\ Seen.schema >= job.to
       /\ Reports("rolled-back") =>
             /\ running = job.from /\ binary = job.from /\ held = NoFile
             /\ SchemaAsBefore /\ job.before.rows \subseteq Seen.rows
       /\ Reports("restored") => Seen' = job.before /\ running = 0]_machineVars

\* The same, or as the version that stands at BinaryPath migrates it again.
SchemaOfTheBinary ==
    Seen.schema \in job.before.schema
                      .. MigratedTo(MigratedTo(job.before, job.from), binary).schema

\* "An operator in that state needs to know to restore by hand": after a rollback
\* that failed, a binary that is not the old one is named, and a service that is
\* down; a database that is not as it was is named, unless the binary that was
\* not moved back has migrated the restored one again; and a service that runs
\* another version goes with an instruction or with the failed stop.
NothingUntold ==
    [][Reports("failed") =>
          /\ binary # job.from => "binary" \in report'.byHand
          /\ ~SchemaOfTheBinary => "db" \in report'.byHand
          /\ running = 0 => "service" \in report'.byHand
          /\ running # job.from => report'.byHand # {} \/ "stop" \in report'.errs]_machineVars

\* "a failure at any point after this still has an original to roll back to":
\* until an update ends, the version it came from is on disk, and no crash leaves
\* the machine without one.
OldBinaryRemains ==
    /\ binary # 0 \/ prev # 0
    /\ job.cmd = "update" => job.from \in {binary, prev}

\* Where that version is at each step.
Untouched == {"snapshot", "stop", "restart", "park"}
Swapped == {"write", "migrate", "start", "health"}
BinaryInv ==
    /\ DOMAIN job = DOMAIN NoJob /\ job.parked \in BOOLEAN
    /\ OldBinaryRemains
    /\ job.pc \in Untouched \cup Swapped \cup {"rb-stop", "rb-binary"} => job.cmd = "update"
    /\ job.cmd = "update" =>
          /\ job.pc # "idle" /\ job.from # 0
          /\ job.pc \in Untouched => ~job.parked /\ binary = job.from
          /\ job.pc \in Swapped => job.parked /\ prev = job.from
          /\ job.pc \in {"rb-stop", "rb-binary"} =>
                IF job.parked THEN prev = job.from ELSE binary = job.from

\* Why the reports are true and no write is lost.  What the files, the service
\* and the job can hold; a service that is on its own database has one to be on,
\* and one that was stopped is down.
DataType == [kind : {"none", "torn", "whole"}, schema : Nat, rows : SUBSET Nat]
JobType == [cmd : {"none", "update", "restore"}, pc : Steps \cup {"idle"},
            from : Nat, to : Nat, snap : Nat, before : DataType,
            parked : BOOLEAN, migrated : BOOLEAN,
            errs : SUBSET {"stop", "start"}, byHand : SUBSET {"binary", "db"}]
StateInv ==
    /\ {binary, prev, running, taken} \subseteq Nat /\ unit \in {"on", "off"}
    /\ {file, wal, held} \cup aside \subseteq DataType
    /\ acked \subseteq Nat /\ IsFiniteSet(acked)
    /\ \A s \in snapshots : s.n \in Nat /\ s.data \in DataType /\ s.data.kind = "whole"
    /\ job \in JobType /\ (job.cmd = "none" <=> job = NoJob)
    /\ running = 0 => held = NoFile
    /\ unit = "off" => running = 0
    /\ Attached => file # NoFile

\* The service is down from the stop of an update to its start, and from the stop
\* of a rollback, if that worked, to its start; the version that comes up then is
\* the one that was put there.
Restoring == {"verify", "aside", "copy", "clean"}
Undone == {"rb-db", "rb-start", "rb-health"} \cup Restoring
ServiceInv ==
    /\ job.cmd = "update" =>
          /\ job.pc \in {"park", "write", "migrate", "start"} => unit = "off"
          /\ job.pc \in (Undone \cup {"rb-binary"}) \ {"rb-health"} /\ "stop" \notin job.errs => unit = "off"
          /\ ~job.migrated => binary \in {0, job.from}
          /\ job.pc \in {"migrate", "start", "health"} => binary = job.to
          /\ job.pc = "health" => running \in {0, job.to} /\ held = NoFile
          /\ job.pc \in Undone /\ "binary" \notin job.byHand => binary = job.from
          /\ job.pc = "rb-health" /\ "binary" \notin job.byHand /\ "stop" \notin job.errs =>
                running \in {0, job.from} /\ held = NoFile
    /\ job.cmd = "restore" => job.pc \in Restoring /\ (StopsFirst => unit = "off")

\* The database is what the update found, but for what the old version makes of
\* it, until the new version runs; once the snapshot is back it is that, or what
\* the version at BinaryPath makes of it.  What a copy replaces has nothing in it.
AsFound(d) ==
    /\ d.kind = "whole" /\ job.before.rows \subseteq d.rows
    /\ job.before.schema <= d.schema
    /\ d.schema <= job.before.schema \/ d.schema <= job.from
AsLeft(d) ==
    /\ d.kind = "whole" /\ job.before.rows \subseteq d.rows
    /\ job.before.schema <= d.schema
    /\ \E v \in {job.before.schema, job.from, binary} : d.schema <= v
DatabaseInv ==
    /\ job.cmd = "update" =>
          /\ job.pc \in Restoring \cup {"migrate", "start", "health"} => job.migrated
          /\ job.pc \in Untouched \cup {"write"} => ~job.migrated
          /\ ~job.migrated /\ job.pc # "snapshot" => file # NoFile /\ AsFound(Seen)
          /\ job.pc \in {"start", "health"} => file # NoFile /\ Seen.schema >= job.to
          /\ job.pc \in {"rb-start", "rb-health"} /\ "db" \notin job.byHand =>
                file # NoFile /\ AsLeft(Seen)
          /\ job.pc = "clean" =>
                AsLeft(file) /\ (wal \in {NoFile, Torn} \/ AsLeft(wal))
    /\ job.cmd # "none" /\ job.pc # "snapshot" => job.before.kind = "whole"
    /\ job.cmd = "restore" /\ job.pc = "clean" /\ StopsFirst =>
          file = job.before /\ wal \in {NoFile, Torn}
    /\ job.pc = "copy" => file.rows = {} /\ (file # NoFile => wal.rows = {})

UpdateInv == BinaryInv /\ StateInv /\ ServiceInv /\ DatabaseInv

\* Every wait of an update has a deadline, so it ends with a report unless it is
\* cut off.
UpdateEnds == job # NoJob ~> job = NoJob

\* Outside the backup directory, which is pruned.
Survives(w) == \E d \in {file, wal, held} \cup aside : w \in d.rows

\* "restoring the wrong snapshot ... must not cost them their last copy": no step
\* of a command takes the last copy of a write, unless the service left its log
\* behind or still runs.
LastCopyIsKept ==
    [][wal = NoFile /\ held = NoFile => \A w \in acked : Survives(w) => Survives(w)']_machineVars

\* The same of a database whose log was left behind.
NoWriteVanishes == \A w \in acked : Survives(w)

\* "the old code would be back, reading a database the new code's migrations
\* already rewrote".
CodeReadsItsSchema == Attached => Seen.schema <= running

\* "names the steps that are actually outstanding": a database that is not as it
\* was is in the instructions.
InstructionsSuffice ==
    [][Reports("failed") /\ ~SchemaAsBefore => "db" \in report'.byHand]_machineVars

\* "renders nothing at all when nothing is outstanding": no instructions means the
\* old version serves from the restored database.
NoInstructionsMeansServing ==
    [][Reports("failed") /\ report'.byHand = {} => running = job.from /\ held = NoFile]_machineVars
=============================================================================
