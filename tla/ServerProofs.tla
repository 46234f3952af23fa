---------------------------- MODULE ServerProofs -----------------------------
(***************************************************************************)
(* The machine a server runs on, and the accounts it keeps.                *)
(*                                                                         *)
(* Whatever fails and wherever keyhole update, restore or backup is cut    *)
(* off, with any number of releases, updates, crashes and restores: the    *)
(* machine keeps a version to start, what a command reports is what is     *)
(* there, and no write loses its last copy.                                *)
(*                                                                         *)
(* For any sets of users, tokens, sessions and concurrent requests: key    *)
(* material is in accounts that are set up and stands, tokens work once,   *)
(* and the last administrator stays.                                       *)
(***************************************************************************)
EXTENDS Update, Accounts, FiniteSetTheorems, TLAPS

\* The steps that move no binary: they leave the job's versions alone and end
\* it, or take it from one step to another of the same or a later group.
Onward ==
    /\ UNCHANGED <<binary, prev>>
    /\ \/ job' = NoJob
       \/ /\ DOMAIN job' = DOMAIN job
          /\ job'.cmd = job.cmd /\ job'.from = job.from /\ job'.parked = job.parked
          /\ job'.pc # "idle"
          /\ \/ job.pc \in Untouched \cup Swapped /\ job'.pc = "rb-stop"
             \/ job.pc \in Untouched /\ job'.pc \in Untouched
             \/ job.pc \in Swapped /\ job'.pc \in Swapped
             \/ job.pc = "rb-stop" /\ job'.pc = "rb-binary"
             \/ job'.pc \notin Untouched \cup Swapped \cup {"rb-stop", "rb-binary", "idle"}

\* Such a step keeps the version an update came from where it is.
LEMMA OnwardKeeps == BinaryInv /\ Onward => BinaryInv'
<1>. SUFFICES ASSUME BinaryInv, Onward PROVE BinaryInv'
  OBVIOUS
<1>1. CASE job' = NoJob
  BY <1>1 DEF BinaryInv, Onward, OldBinaryRemains, Untouched, Swapped, NoJob
<1>2. CASE job' # NoJob
  <2>1. OldBinaryRemains' /\ DOMAIN job' = DOMAIN NoJob /\ job'.parked \in BOOLEAN
    BY <1>2 DEF BinaryInv, Onward, OldBinaryRemains
  <2>. QED
    BY <1>2, <2>1 DEF BinaryInv, Onward, Untouched, Swapped
<1>. QED  BY <1>1, <1>2

\* The installed version is there from the start.
LEMMA BinaryInit == MachineInit => BinaryInv
  BY DEF MachineInit, BinaryInv, OldBinaryRemains, NoJob, Untouched, Swapped

\* Every step of the commands, of systemd and of a crash keeps BinaryInv.
LEMMA BinaryStep == BinaryInv /\ [MachineNext]_machineVars => BinaryInv'
<1>. SUFFICES ASSUME BinaryInv, [MachineNext]_machineVars PROVE BinaryInv'
  OBVIOUS
<1>0. DOMAIN job = DOMAIN NoJob
  BY DEF BinaryInv
<1>1. ASSUME UNCHANGED <<binary, prev, job>> PROVE BinaryInv'
  BY <1>1 DEF BinaryInv, OldBinaryRemains
<1>2. CASE \/ Backup \/ ServiceComesUp \/ ServiceFailsToStart \/ ServiceCrashes \/ UserWrites
           \/ OperatorStops \/ OperatorStarts
  BY <1>1, <1>2 DEF Backup, ServiceComesUp, ServiceFailsToStart, ServiceCrashes, UserWrites,
                    OperatorStops, OperatorStarts, jobVars, fileVars
<1>3. CASE BeginUpdate
  BY <1>3 DEF BeginUpdate, BinaryInv, OldBinaryRemains, NoJob, Untouched, Swapped, fileVars
<1>4. CASE BeginRestore
  BY <1>4 DEF BeginRestore, BinaryInv, OldBinaryRemains, NoJob, Untouched, Swapped
<1>5. CASE CommandKilled \/ MachineCrash
  BY <1>5, OnwardKeeps DEF CommandKilled, MachineCrash, Onward
<1>6. CASE BackupSnapshot
  BY <1>0, <1>6, OnwardKeeps DEF BackupSnapshot, EndsWith, Onward, Untouched, Swapped, NoJob
<1>7. CASE StopForUpdate
  BY <1>0, <1>7, OnwardKeeps DEF StopForUpdate, Goes, Onward, Untouched, Swapped, NoJob
<1>8. CASE RestartUntouched
  BY <1>0, <1>8, OnwardKeeps DEF RestartUntouched, EndsWith, Onward, fileVars
<1>9. CASE Park
  <2>1. /\ job.pc = "park" /\ job.cmd = "update" /\ ~job.parked
        /\ binary = job.from /\ job.from # 0
    BY <1>9 DEF Park, BinaryInv, Untouched
  <2>2. /\ DOMAIN job' = DOMAIN job /\ job'.cmd = job.cmd /\ job'.from = job.from
        /\ \/ prev' = binary /\ job'.pc = "write" /\ job'.parked = TRUE
           \/ UNCHANGED <<binary, prev>> /\ job'.pc = "rb-stop" /\ job'.parked = job.parked
    BY <1>0, <1>9 DEF Park, NoJob
  <2>. QED
    BY <1>0, <2>1, <2>2 DEF BinaryInv, OldBinaryRemains, Untouched, Swapped
<1>10. CASE WriteNew
  <2>1. /\ job.pc = "write" /\ job.cmd = "update" /\ job.parked
        /\ prev = job.from /\ job.from # 0
    BY <1>10 DEF WriteNew, BinaryInv, Swapped
  <2>2. /\ DOMAIN job' = DOMAIN job /\ job'.cmd = job.cmd /\ job'.from = job.from
        /\ job'.parked = job.parked /\ UNCHANGED prev
        /\ job'.pc \in {"migrate", "rb-stop"}
    BY <1>0, <1>10 DEF WriteNew, NoJob
  <2>. QED
    BY <1>0, <2>1, <2>2 DEF BinaryInv, OldBinaryRemains, Untouched, Swapped
<1>11. CASE RunMigrate
  BY <1>0, <1>11, OnwardKeeps DEF RunMigrate, Goes, Onward, Untouched, Swapped, NoJob
<1>12. CASE StartNew
  BY <1>0, <1>12, OnwardKeeps DEF StartNew, Goes, Onward, Untouched, Swapped, NoJob, fileVars
<1>13. CASE AwaitHealth
  BY <1>0, <1>13, OnwardKeeps
  DEF AwaitHealth, Goes, EndsWith, Onward, Untouched, Swapped, NoJob, fileVars
<1>14. CASE RollbackStop
  BY <1>0, <1>14, OnwardKeeps DEF RollbackStop, Onward, Untouched, Swapped, NoJob
<1>15. CASE RestoreBinary
  <2>1. /\ job.pc = "rb-binary" /\ job.cmd = "update" /\ job.from # 0
        /\ IF job.parked THEN prev = job.from ELSE binary = job.from
    BY <1>15 DEF RestoreBinary, BinaryInv
  <2>2. /\ DOMAIN job' = DOMAIN job /\ job'.cmd = job.cmd /\ job'.from = job.from
        /\ job'.parked = job.parked /\ job'.pc = "rb-db"
        /\ (job.parked /\ binary' = prev) \/ UNCHANGED <<binary, prev>>
    BY <1>0, <1>15 DEF RestoreBinary, NoJob
  <2>. QED
    BY <1>0, <2>1, <2>2 DEF BinaryInv, OldBinaryRemains, Untouched, Swapped
<1>16. CASE RestoreDatabase
  BY <1>0, <1>16, OnwardKeeps DEF RestoreDatabase, Goes, Onward, Untouched, Swapped, NoJob, fileVars
<1>17. CASE RollbackStart
  BY <1>0, <1>17, OnwardKeeps DEF RollbackStart, Onward, Untouched, Swapped, NoJob, fileVars
<1>18. CASE RollbackHealth
  BY <1>0, <1>18, OnwardKeeps DEF RollbackHealth, EndsWith, Onward, fileVars
<1>19. CASE VerifySnapshot
  BY <1>0, <1>19, OnwardKeeps
  DEF VerifySnapshot, RestoreFails, Goes, EndsWith, Onward, Untouched, Swapped, NoJob, fileVars
<1>20. CASE MoveAside
  BY <1>0, <1>20, OnwardKeeps
  DEF MoveAside, RestoreFails, Goes, EndsWith, Onward, Untouched, Swapped, NoJob
<1>21. CASE CopySnapshot
  BY <1>0, <1>21, OnwardKeeps
  DEF CopySnapshot, RestoreFails, Goes, EndsWith, Onward, Untouched, Swapped, NoJob
<1>22. CASE RemoveStaleLog
  BY <1>0, <1>22, OnwardKeeps
  DEF RemoveStaleLog, RestoreFails, Goes, EndsWith, Onward, Untouched, Swapped, NoJob
<1>23. CASE UNCHANGED machineVars
  BY <1>1, <1>23 DEF machineVars, fileVars, jobVars
<1>. QED
  BY <1>2, <1>3, <1>4, <1>5, <1>6, <1>7, <1>8, <1>9, <1>10, <1>11, <1>12, <1>13, <1>14,
     <1>15, <1>16, <1>17, <1>18, <1>19, <1>20, <1>21, <1>22, <1>23
  DEF MachineNext, JobStep

\* installAndStart and rollback always leave "an original to roll back to": the
\* version an update came from stays on disk until the update ends, and no
\* failure, kill or crash leaves neither binary.
THEOREM AVersionRemains == MachineSpec => []OldBinaryRemains
<1>1. BinaryInv => OldBinaryRemains
  BY DEF BinaryInv
<1>. QED
  BY <1>1, BinaryInit, BinaryStep, PTL DEF MachineSpec

-----------------------------------------------------------------------------
(***************************************************************************)
(* What opening, migrating and stopping do to a database.                  *)
(***************************************************************************)

\* A migration keeps the rows and never lowers the schema.
LEMMA DataFacts ==
    /\ {NoFile, Torn, Fresh} \subseteq DataType
    /\ NoFile.kind = "none" /\ NoFile.rows = {} /\ Torn.kind = "torn" /\ Torn.rows = {}
    /\ Fresh.kind = "whole" /\ Fresh.rows = {} /\ Fresh.schema = 0
    /\ \A d \in DataType, v \in Nat :
          /\ MigratedTo(d, v) \in DataType
          /\ MigratedTo(d, v).kind = d.kind /\ MigratedTo(d, v).rows = d.rows
          /\ d.schema <= MigratedTo(d, v).schema /\ v <= MigratedTo(d, v).schema
          /\ MigratedTo(d, v).schema \in {d.schema, v}
<1>1. /\ {NoFile, Torn, Fresh} \subseteq DataType
      /\ NoFile.kind = "none" /\ NoFile.rows = {} /\ Torn.kind = "torn" /\ Torn.rows = {}
      /\ Fresh.kind = "whole" /\ Fresh.rows = {} /\ Fresh.schema = 0
  BY DEF NoFile, Torn, Fresh, Data, DataType
<1>2. ASSUME NEW d \in DataType, NEW v \in Nat
      PROVE  /\ MigratedTo(d, v) \in DataType
             /\ MigratedTo(d, v).kind = d.kind /\ MigratedTo(d, v).rows = d.rows
             /\ d.schema <= MigratedTo(d, v).schema /\ v <= MigratedTo(d, v).schema
             /\ MigratedTo(d, v).schema \in {d.schema, v}
  BY DEF MigratedTo, DataType
<1>. QED  BY <1>1, <1>2

\* e is d, opened by a version up to the installed one and perhaps written to.
Later(d, e) ==
    /\ e \in DataType /\ e.kind = d.kind /\ d.rows \subseteq e.rows
    /\ e.rows = d.rows \/ 0 \in d.rows
    /\ d.schema <= e.schema /\ (e.schema <= d.schema \/ e.schema <= binary)

\* What the service, its users and a backup may do to the database.
DbStep ==
    \/ UNCHANGED <<file, wal>>
    \/ /\ Opened.kind = "whole" \/ 0 \in Opened.rows
       /\ \/ Later(Opened, file') /\ wal' = NoFile
          \/ file' = (IF file = NoFile THEN Fresh ELSE file) /\ Later(Opened, wal')

\* A step of the service, of its users or of a backup, beside a command.
EnvStep ==
    /\ UNCHANGED <<binary, prev, job, unit>>
    /\ running' \in {0, running} \/ (unit = "on" /\ running = 0 /\ running' = binary)
    /\ running' = 0 => held' = NoFile
    /\ held = NoFile => held' = NoFile
    /\ DbStep
    /\ unit = "off" => UNCHANGED <<file, wal>> \/ (Opened.kind = "whole" /\ file' = Opened /\ wal' = NoFile)

\* A database that is there stays, and what is seen of it only grows.
LEMMA DbStepFacts ==
    ASSUME StateInv, DbStep
    PROVE  /\ {file', wal'} \subseteq DataType
           /\ file # NoFile => file' # NoFile /\ (Seen' = Seen \/ Later(Seen, Seen'))
           /\ UNCHANGED <<file, wal>> \/ file' # NoFile
<1>1. {file, wal, Opened, Fresh, NoFile} \subseteq DataType
  BY DataFacts DEF StateInv, Opened, Seen
<1>2. CASE UNCHANGED <<file, wal>>
  BY <1>1, <1>2 DEF Seen
<1>3. CASE /\ Opened.kind = "whole" \/ 0 \in Opened.rows
           /\ Later(Opened, file') /\ wal' = NoFile
  <2>1. file' # NoFile /\ Seen' = file' /\ file' \in DataType
    BY <1>3, DataFacts DEF Later, Seen
  <2>. QED  BY <1>1, <1>3, <2>1 DEF Opened
<1>4. CASE /\ Opened.kind = "whole" \/ 0 \in Opened.rows
           /\ file' = (IF file = NoFile THEN Fresh ELSE file) /\ Later(Opened, wal')
  <2>1. wal' # NoFile /\ Seen' = wal' /\ wal' \in DataType
    BY <1>4, DataFacts DEF Later, Seen
  <2>2. Fresh # NoFile
    BY DataFacts
  <2>. QED  BY <1>1, <1>4, <2>1, <2>2 DEF Opened
<1>. QED  BY <1>2, <1>3, <1>4 DEF DbStep

\* A stop takes the service down and leaves what is seen of its database.
LEMMA StopFacts ==
    ASSUME StateInv, Stops
    PROVE  /\ unit' = "off" /\ running' = 0 /\ held' = NoFile
           /\ {file', wal'} \cup aside' \subseteq DataType
           /\ file # NoFile => file' # NoFile /\ Seen' = Seen
           /\ file' = file \/ (wal' = NoFile /\ file' = Seen)
           /\ aside \subseteq aside'
<1>1. {file, wal, held, Seen, NoFile} \cup aside \subseteq DataType
  BY DataFacts DEF StateInv, Seen
<1>2. /\ unit' = "off" /\ running' = 0 /\ held' = NoFile
      /\ UNCHANGED <<file, wal>> \/ (Attached /\ file' = Seen /\ wal' = NoFile)
      /\ aside' = aside \/ aside' = aside \cup {held}
  BY DEF Stops
<1>3. CASE UNCHANGED <<file, wal>>
  BY <1>1, <1>2, <1>3 DEF Seen
<1>4. CASE Attached /\ file' = Seen /\ wal' = NoFile
  BY <1>1, <1>2, <1>4 DEF Seen
<1>. QED  BY <1>2, <1>3, <1>4

\* No command.
LEMMA IdleFacts == NoJob \in JobType /\ NoJob.cmd = "none" /\ NoJob.pc = "idle"
  BY DataFacts DEF NoJob, JobType

\* With no command under way there is nothing to keep but the state's own shape.
LEMMA IdleKeeps ==
    ASSUME job' = NoJob
    PROVE  ServiceInv' /\ DatabaseInv'
  BY IdleFacts DEF ServiceInv, DatabaseInv

-----------------------------------------------------------------------------
(***************************************************************************)
(* The service, its users and the nightly backup, beside a command.        *)
(***************************************************************************)

\* What the installed version makes of a database an update found, the version
\* being the one the update came from, is still as found.
LEMMA AsFoundLater ==
    ASSUME StateInv, NEW d \in DataType, NEW e, AsFound(d), Later(d, e),
           binary \in {0, job.from}
    PROVE  AsFound(e)
<1>1. /\ d.schema \in Nat /\ e.schema \in Nat /\ job.before.schema \in Nat /\ job.from \in Nat
      /\ binary \in Nat
  BY DEF StateInv, JobType, DataType, Later
<1>2. e.schema <= job.before.schema \/ e.schema <= job.from
  BY <1>1 DEF AsFound, Later
<1>3. job.before.schema <= e.schema
  BY <1>1 DEF AsFound, Later
<1>. QED  BY <1>2, <1>3 DEF AsFound, Later

\* Whatever the installed version is, what it makes of a database a rollback left
\* is still as left.
LEMMA AsLeftLater ==
    ASSUME StateInv, NEW d \in DataType, NEW e, AsLeft(d), Later(d, e)
    PROVE  AsLeft(e)
<1>1. /\ d.schema \in Nat /\ e.schema \in Nat /\ job.before.schema \in Nat /\ job.from \in Nat
      /\ binary \in Nat
  BY DEF StateInv, JobType, DataType, Later
<1>2. \E v \in {job.before.schema, job.from, binary} : e.schema <= v
  <2>1. PICK v \in {job.before.schema, job.from, binary} : d.schema <= v
    BY DEF AsLeft
  <2>. QED  BY <1>1, <2>1 DEF Later
<1>3. job.before.schema <= e.schema
  BY <1>1 DEF AsLeft, Later
<1>. QED  BY <1>2, <1>3 DEF AsLeft, Later

\* What is as found is as left.
LEMMA FoundIsLeft == ASSUME NEW d, AsFound(d) PROVE AsLeft(d)
  BY DEF AsFound, AsLeft

\* What is as found stays so while the job keeps what it found, and what is as
\* left while the binary stays as well.
LEMMA SameFound ==
    ASSUME job'.before = job.before, job'.from = job.from
    PROVE  /\ AsFound(Seen') => AsFound(Seen)'
           /\ binary' = binary =>
                 /\ AsLeft(Seen') => AsLeft(Seen)'
                 /\ AsLeft(file') => AsLeft(file)'
                 /\ AsLeft(wal') => AsLeft(wal)'
  BY DEF AsFound, AsLeft

\* Nothing the service, its users or a backup does disturbs a command: what it
\* relies on stays as its invariant says.
LEMMA EnvKeeps ==
    ASSUME StateInv, ServiceInv, DatabaseInv, EnvStep
    PROVE  ServiceInv' /\ DatabaseInv'
<1>0. /\ UNCHANGED <<binary, job, unit>> /\ DbStep /\ job \in JobType
      /\ running' \in {0, running} \/ (unit = "on" /\ running = 0 /\ running' = binary)
      /\ held = NoFile => held' = NoFile
      /\ {file, wal, Seen, Opened} \subseteq DataType
  BY DataFacts DEF EnvStep, StateInv, Opened, Seen
<1>1. /\ file # NoFile => file' # NoFile /\ (Seen' = Seen \/ Later(Seen, Seen'))
      /\ {file', wal', Seen'} \subseteq DataType
  BY <1>0, DbStepFacts DEF Seen
<1>2. ServiceInv'
  <2>1. CASE job.cmd = "update"
    BY <1>0, <2>1 DEF ServiceInv, Undone, Restoring
  <2>2. CASE job.cmd # "update"
    BY <1>0, <2>2 DEF ServiceInv
  <2>. QED  BY <2>1, <2>2
<1>3. ASSUME file # NoFile, AsFound(Seen), binary \in {0, job.from}
      PROVE  file' # NoFile /\ AsFound(Seen')
  BY <1>0, <1>1, <1>3, AsFoundLater
<1>4. ASSUME job.cmd = "update" PROVE
          /\ job.pc \in Restoring \cup {"migrate", "start", "health"} => job.migrated
          /\ job.pc \in Untouched \cup {"write"} => ~job.migrated
          /\ ~job.migrated /\ job.pc # "snapshot" => file' # NoFile /\ AsFound(Seen')
          /\ job.pc \in {"start", "health"} => file' # NoFile /\ Seen'.schema >= job.to
          /\ job.pc \in {"rb-start", "rb-health"} /\ "db" \notin job.byHand =>
                file' # NoFile /\ AsLeft(Seen')
  <2>1. ~job.migrated /\ job.pc # "snapshot" => file' # NoFile /\ AsFound(Seen')
    BY <1>0, <1>3, <1>4 DEF ServiceInv, DatabaseInv, JobType
  <2>2. job.pc \in {"start", "health"} => file' # NoFile /\ Seen'.schema >= job.to
    <3>1. job.pc \in {"start", "health"} => file # NoFile /\ Seen.schema >= job.to
      BY <1>4 DEF DatabaseInv
    <3>2. Seen.schema \in Nat /\ Seen'.schema \in Nat /\ job.to \in Nat
      BY <1>0, <1>1 DEF DataType, JobType
    <3>. QED  BY <1>1, <3>1, <3>2 DEF Later
  <2>3. job.pc \in {"rb-start", "rb-health"} /\ "db" \notin job.byHand =>
           file' # NoFile /\ AsLeft(Seen')
    <3>1. job.pc \in {"rb-start", "rb-health"} /\ "db" \notin job.byHand =>
             file # NoFile /\ AsLeft(Seen)
      BY <1>4 DEF DatabaseInv
    <3>. QED  BY <1>0, <1>1, <3>1, AsLeftLater
  <2>. QED  BY <1>4, <2>1, <2>2, <2>3 DEF DatabaseInv
<1>5. ASSUME job.cmd = "update", job.pc = "clean"
      PROVE  AsLeft(file') /\ (wal' \in {NoFile, Torn} \/ AsLeft(wal'))
  <2>1. /\ AsLeft(file) /\ (wal \in {NoFile, Torn} \/ AsLeft(wal))
    BY <1>5 DEF DatabaseInv
  <2>2. file # NoFile
    BY <2>1, DataFacts DEF AsLeft
  <2>3. CASE UNCHANGED <<file, wal>>
    BY <2>1, <2>3
  <2>4. CASE ~UNCHANGED <<file, wal>>
    <3>1. AsLeft(Opened)
      BY <1>0, <2>1, <2>2, <2>4, DataFacts DEF DbStep, Opened, Seen
    <3>2. \/ Later(Opened, file') /\ wal' = NoFile
          \/ file' = file /\ Later(Opened, wal')
      BY <1>0, <2>2, <2>4 DEF DbStep
    <3>3. CASE Later(Opened, file') /\ wal' = NoFile
      BY <1>0, <2>1, <3>1, <3>3, AsLeftLater
    <3>4. CASE file' = file /\ Later(Opened, wal')
      BY <1>0, <2>1, <3>1, <3>4, AsLeftLater
    <3>. QED  BY <3>2, <3>3, <3>4
  <2>. QED  BY <2>3, <2>4
<1>6. job.cmd = "restore" /\ job.pc = "clean" /\ StopsFirst =>
         file' = job.before /\ wal' \in {NoFile, Torn}
  <2>1. SUFFICES ASSUME job.cmd = "restore", job.pc = "clean", StopsFirst
                 PROVE  file' = job.before /\ wal' \in {NoFile, Torn}
    OBVIOUS
  <2>2. unit = "off" /\ file = job.before /\ wal \in {NoFile, Torn} /\ job.before.kind = "whole"
    BY <2>1 DEF ServiceInv, DatabaseInv
  <2>3. UNCHANGED <<file, wal>> \/ (Opened.kind = "whole" /\ file' = Opened /\ wal' = NoFile)
    BY <2>2 DEF EnvStep
  <2>4. Opened.kind = "whole" => Opened = file
    BY <2>2, DataFacts DEF Opened, Seen
  <2>. QED  BY <2>2, <2>3, <2>4
<1>7. job.pc = "copy" => file'.rows = {} /\ (file' # NoFile => wal'.rows = {})
  <2>1. SUFFICES ASSUME job.pc = "copy" PROVE file'.rows = {} /\ (file' # NoFile => wal'.rows = {})
    OBVIOUS
  <2>2. file.rows = {} /\ (file # NoFile => wal.rows = {})
    BY <2>1 DEF DatabaseInv
  <2>3. Opened.rows = {}
    BY <2>2, DataFacts DEF Opened, Seen
  <2>. QED  BY <1>0, <2>2, <2>3, DataFacts DEF DbStep, Later
<1>8. job.cmd # "none" /\ job.pc # "snapshot" => job.before.kind = "whole"
  BY DEF DatabaseInv
<1>9. DatabaseInv'
  <2>1. /\ AsFound(Seen') => AsFound(Seen)'
        /\ AsLeft(Seen') => AsLeft(Seen)'
        /\ AsLeft(file') => AsLeft(file)'
        /\ AsLeft(wal') => AsLeft(wal)'
    BY <1>0, SameFound
  <2>. QED  BY <1>0, <1>4, <1>5, <1>6, <1>7, <1>8, <2>1 DEF DatabaseInv
<1>. QED  BY <1>2, <1>9

\* The service comes up, fails to, crashes, is written to, or is backed up.
EnvAction == Backup \/ ServiceComesUp \/ ServiceFailsToStart \/ ServiceCrashes \/ UserWrites

\* Each of them is such a step.
LEMMA EnvActions ==
    ASSUME StateInv, EnvAction
    PROVE  EnvStep /\ StateInv'
<1>0. /\ {file, wal, held, Opened, Seen, NoFile} \cup aside \subseteq DataType
      /\ {binary, prev, running, taken} \subseteq Nat
  BY DataFacts DEF StateInv, Opened, Seen
<1>1. \A v \in 0..binary : Later(Opened, MigratedTo(Opened, v))
  <2>1. TAKE v \in 0..binary
  <2>2. Opened.schema \in Nat /\ v \in Nat /\ v <= binary
    BY <1>0 DEF DataType
  <2>3. /\ MigratedTo(Opened, v) \in DataType
        /\ MigratedTo(Opened, v).kind = Opened.kind /\ MigratedTo(Opened, v).rows = Opened.rows
        /\ Opened.schema <= MigratedTo(Opened, v).schema
        /\ MigratedTo(Opened, v).schema \in {Opened.schema, v}
    BY <1>0, <2>2, DataFacts
  <2>. QED  BY <2>2, <2>3 DEF Later
<1>2. Later(Opened, Opened)
  BY <1>0 DEF Later, DataType
<1>3. CASE ServiceComesUp
  <2>1. /\ unit = "on" /\ running = 0 /\ running' = binary /\ binary # 0 /\ Opened.kind = "whole"
        /\ UNCHANGED <<binary, prev, aside, snapshots, unit, held, job, acked, taken>>
        /\ file' = (IF file = NoFile THEN Fresh ELSE file) /\ wal' = MigratedTo(Opened, binary)
    BY <1>3 DEF ServiceComesUp, OpenAndDie, jobVars
  <2>2. DbStep /\ held = NoFile
    BY <1>0, <1>1, <2>1 DEF DbStep, StateInv
  <2>3. EnvStep
    BY <2>1, <2>2 DEF EnvStep
  <2>4. {file', wal'} \subseteq DataType /\ file' # NoFile
    BY <2>1, <2>2, DbStepFacts, DataFacts
  <2>. QED  BY <1>0, <2>1, <2>2, <2>3, <2>4 DEF StateInv, Attached
<1>4. CASE ServiceFailsToStart
  <2>1. /\ unit = "on" /\ running = 0 /\ Opened.kind = "whole"
        /\ UNCHANGED <<binary, prev, aside, snapshots, unit, running, held, job, acked, taken>>
        /\ \E v \in 0 .. binary :
              \/ file' = MigratedTo(Opened, v) /\ wal' = NoFile
              \/ file' = (IF file = NoFile THEN Fresh ELSE file) /\ wal' = MigratedTo(Opened, v)
    BY <1>4 DEF ServiceFailsToStart, OpenAndDie, jobVars, serviceVars
  <2>2. DbStep /\ held = NoFile
    BY <1>0, <1>1, <2>1 DEF DbStep, StateInv
  <2>3. EnvStep
    BY <2>1, <2>2 DEF EnvStep
  <2>4. {file', wal'} \subseteq DataType
    BY <2>2, DbStepFacts
  <2>. QED  BY <1>0, <2>1, <2>2, <2>3, <2>4 DEF StateInv, Attached
<1>5. CASE ServiceCrashes
  <2>1. /\ running' = 0 /\ held' = NoFile
        /\ UNCHANGED <<binary, prev, file, wal, aside, snapshots, unit, job, acked, taken>>
    BY <1>5 DEF ServiceCrashes, fileVars, jobVars
  <2>2. EnvStep
    BY <2>1 DEF EnvStep, DbStep
  <2>. QED  BY <1>0, <2>1, <2>2 DEF StateInv, Attached
<1>6. CASE UserWrites
  <2>. DEFINE w == Cardinality(acked)
  <2>1. w \in Nat /\ IsFiniteSet(acked \cup {w}) /\ acked \cup {w} \subseteq Nat
    BY FS_CardinalityType, FS_AddElement DEF StateInv
  <2>. HIDE DEF w
  <2>2. /\ running # 0 /\ acked' = acked \cup {w}
        /\ UNCHANGED <<binary, prev, file, aside, snapshots, unit, running, job, taken>>
        /\ 0 \in (IF Attached THEN Seen ELSE held).rows
        /\ IF Attached THEN wal' = [Seen EXCEPT !.rows = @ \cup {w}] /\ UNCHANGED held
           ELSE held' = [held EXCEPT !.rows = @ \cup {w}] /\ UNCHANGED wal
    BY <1>6 DEF UserWrites, jobVars, w
  <2>3. CASE Attached
    <3>1. /\ held = NoFile /\ file # NoFile /\ Opened = Seen /\ held' = held
          /\ wal' = [Seen EXCEPT !.rows = @ \cup {w}] /\ 0 \in Seen.rows
      BY <2>2, <2>3 DEF Attached, StateInv, Opened
    <3>2. /\ wal' \in DataType /\ wal'.kind = Seen.kind /\ wal'.schema = Seen.schema
          /\ Seen.rows \subseteq wal'.rows /\ Seen.schema \in Nat
      BY <1>0, <2>1, <3>1 DEF DataType
    <3>3. Later(Opened, wal')
      BY <3>1, <3>2 DEF Later
    <3>4. DbStep
      BY <2>2, <3>1, <3>3 DEF DbStep
    <3>5. EnvStep
      BY <2>2, <3>1, <3>4 DEF EnvStep, StateInv
    <3>. QED  BY <1>0, <2>1, <2>2, <3>1, <3>2, <3>5 DEF StateInv, Attached
  <2>4. CASE ~Attached
    <3>1. /\ held # NoFile /\ UNCHANGED <<file, wal>>
          /\ held' = [held EXCEPT !.rows = @ \cup {w}]
      BY <2>2, <2>4 DEF Attached
    <3>2. held' \in DataType /\ w \in held'.rows
      BY <1>0, <2>1, <3>1 DEF DataType
    <3>3. held' # NoFile
      BY <3>2, DataFacts
    <3>4. EnvStep
      BY <2>2, <3>1 DEF EnvStep, DbStep
    <3>. QED  BY <1>0, <2>1, <2>2, <3>1, <3>2, <3>3, <3>4 DEF StateInv, Attached
  <2>. QED  BY <2>3, <2>4
<1>7. CASE Backup
  <2>1. /\ UNCHANGED <<binary, prev, aside, unit, running, held, job, acked>>
        /\ taken' = taken + 1 /\ Opened.kind = "whole"
        /\ UNCHANGED <<file, wal>> \/ (file' = Opened /\ wal' = NoFile)
        /\ snapshots' \subseteq snapshots \cup {[n |-> taken + 1, data |-> Opened]}
    BY <1>7 DEF Backup, TakeSnapshot, OpenAndClose, Newest, serviceVars, jobVars
  <2>2. DbStep
    BY <1>2, <2>1 DEF DbStep
  <2>3. EnvStep
    BY <2>1, <2>2 DEF EnvStep, StateInv
  <2>4. {file', wal'} \subseteq DataType /\ (file # NoFile => file' # NoFile)
    BY <2>2, DbStepFacts
  <2>5. \A s \in snapshots' : s.n \in Nat /\ s.data \in DataType /\ s.data.kind = "whole"
    BY <1>0, <2>1 DEF StateInv
  <2>. QED  BY <1>0, <2>1, <2>3, <2>4, <2>5 DEF StateInv, Attached
<1>. QED  BY <1>3, <1>4, <1>5, <1>6, <1>7 DEF EnvAction

-----------------------------------------------------------------------------
(***************************************************************************)
(* The steps of the commands.                                              *)
(***************************************************************************)

\* A step that leaves the service and its files alone.
LEMMA StillState ==
    ASSUME StateInv, {binary', prev'} \subseteq Nat,
           job' \in JobType, job'.cmd = "none" <=> job' = NoJob,
           UNCHANGED <<file, wal, aside, snapshots, unit, running, held, acked, taken>>
    PROVE  StateInv'
  BY DEF StateInv, Attached

\* A stop, and one that may not have stopped anything.
LEMMA StoppedState ==
    ASSUME StateInv, {binary', prev'} \subseteq Nat,
           job' \in JobType, job'.cmd = "none" <=> job' = NoJob,
           StopErrs, UNCHANGED <<snapshots, acked, taken>>
    PROVE  StateInv'
<1>1. CASE Stops
  <2>1. /\ unit' = "off" /\ running' = 0 /\ held' = NoFile /\ NoFile \in DataType
        /\ {file', wal'} \cup aside' \subseteq DataType
    BY <1>1, StopFacts, DataFacts
  <2>2. ~Attached'
    BY <2>1 DEF Attached
  <2>3. {binary', prev', running', taken'} \subseteq Nat
    BY <2>1 DEF StateInv
  <2>. QED  BY <2>1, <2>2, <2>3 DEF StateInv
<1>2. CASE UNCHANGED <<serviceVars, file, wal, aside>>
  BY <1>2, StillState DEF serviceVars
<1>. QED  BY <1>1, <1>2 DEF StopErrs

\* A start, and one that may not have started anything.
LEMMA StartedState ==
    ASSUME StateInv, {binary', prev'} \subseteq Nat,
           job' \in JobType, job'.cmd = "none" <=> job' = NoJob,
           StartErrs, UNCHANGED <<file, wal, aside, snapshots, acked, taken>>
    PROVE  StateInv'
  BY DEF StateInv, Attached, StartErrs

\* What a job keeps from one step to the next.
SameJob ==
    /\ job'.cmd = job.cmd /\ job'.from = job.from /\ job'.to = job.to
    /\ job'.before = job.before

\* A job that goes on, and nothing else of it changes.
LEMMA GoesOn ==
    ASSUME StateInv, job.cmd # "none", NEW pc \in Steps, Goes(pc)
    PROVE  /\ job' \in JobType /\ (job'.cmd = "none" <=> job' = NoJob)
           /\ SameJob /\ job'.pc = pc /\ job'.migrated = job.migrated
           /\ job'.errs = job.errs /\ job'.byHand = job.byHand
<1>1. job \in JobType
  BY DEF StateInv
<1>2. job'.pc = pc /\ SameJob /\ job'.migrated = job.migrated
      /\ job'.errs = job.errs /\ job'.byHand = job.byHand
  BY <1>1 DEF Goes, JobType, SameJob
<1>3. job' \in JobType
  BY <1>1 DEF Goes, JobType
<1>4. job'.cmd # "none" /\ job' # NoJob
  BY <1>2, IdleFacts DEF SameJob
<1>. QED  BY <1>2, <1>3, <1>4

\* A restore that fails: a rollback goes on with an instruction to the operator.
LEMMA FailsOn ==
    ASSUME StateInv, RestoreFails, job.cmd = "update"
    PROVE  /\ job' \in JobType /\ (job'.cmd = "none" <=> job' = NoJob)
           /\ SameJob /\ job'.pc = "rb-start" /\ job'.migrated = job.migrated
           /\ job'.errs = job.errs /\ job'.byHand = job.byHand \cup {"db"}
<1>1. job \in JobType
  BY DEF StateInv
<1>2. /\ job'.pc = "rb-start" /\ SameJob /\ job'.migrated = job.migrated
      /\ job'.errs = job.errs /\ job'.byHand = job.byHand \cup {"db"}
  BY <1>1 DEF RestoreFails, JobType, SameJob
<1>3. job' \in JobType
  <2>1. job.byHand \cup {"db"} \in SUBSET {"binary", "db"} /\ "rb-start" \in Steps
    BY <1>1 DEF JobType, Steps
  <2>2. job' = [job EXCEPT !.pc = "rb-start", !.byHand = job.byHand \cup {"db"}]
    BY DEF RestoreFails
  <2>. QED  BY <1>1, <2>1, <2>2 DEF JobType
<1>4. job'.cmd # "none" /\ job' # NoJob
  BY <1>2, IdleFacts DEF SameJob
<1>. QED  BY <1>2, <1>3, <1>4

\* What is there before a step of an update, up to the service answering.
LEMMA UpdateFacts ==
    ASSUME UpdateInv, job.pc \in Untouched \cup Swapped \cup {"rb-stop", "rb-binary"}
    PROVE  /\ job.cmd = "update" /\ job \in JobType /\ {binary, prev} \subseteq Nat
           /\ {file, wal, Opened, Seen, NoFile} \cup aside \subseteq DataType
           /\ ~job.migrated => binary \in {0, job.from}
           /\ ~job.migrated /\ job.pc # "snapshot" => file # NoFile /\ AsFound(Seen)
           /\ job.pc # "snapshot" => job.before.kind = "whole"
<1>1. job.cmd = "update"
  BY DEF UpdateInv, BinaryInv
<1>2. {file, wal, Opened, Seen, NoFile} \cup aside \subseteq DataType
  BY DataFacts DEF UpdateInv, StateInv, Opened, Seen
<1>. QED  BY <1>1, <1>2 DEF UpdateInv, StateInv, ServiceInv, DatabaseInv

\* An update keeps what it relies on, up to the service answering.
LEMMA UpdateSteps ==
    ASSUME UpdateInv,
           \/ BeginUpdate \/ BackupSnapshot \/ StopForUpdate \/ RestartUntouched \/ Park
           \/ WriteNew \/ RunMigrate \/ StartNew \/ AwaitHealth
    PROVE  StateInv' /\ ServiceInv' /\ DatabaseInv'
<1>0. StateInv /\ ServiceInv /\ DatabaseInv /\ {binary, prev} \subseteq Nat
  BY DEF UpdateInv, StateInv
<1>1. CASE BeginUpdate
  <2>1. PICK to \in Versions :
           job' = [NoJob EXCEPT !.cmd = "update", !.pc = "snapshot", !.from = binary, !.to = to]
    BY <1>1 DEF BeginUpdate
  <2>2. /\ job'.cmd = "update" /\ job'.pc = "snapshot" /\ job'.from = binary
        /\ job'.migrated = FALSE /\ job'.errs = {} /\ job'.byHand = {}
    BY <2>1 DEF NoJob
  <2>3. job' \in JobType
    <3>1. to \in Nat /\ "snapshot" \in Steps
      BY UpdateAssumption DEF Versions, Steps
    <3>. QED  BY <1>0, <2>1, <3>1, IdleFacts DEF JobType
  <2>4. job'.cmd = "none" <=> job' = NoJob
    BY <2>2, IdleFacts
  <2>5. UNCHANGED <<binary, prev, file, wal, aside, snapshots, unit, running, held, acked, taken>>
    BY <1>1 DEF BeginUpdate, fileVars, serviceVars
  <2>6. StateInv'
    BY <1>0, <2>3, <2>4, <2>5, StillState
  <2>7. ServiceInv'
    BY <2>2, <2>5 DEF ServiceInv, Undone, Restoring
  <2>8. DatabaseInv'
    BY <2>2 DEF DatabaseInv, Restoring
  <2>. QED  BY <2>6, <2>7, <2>8
<1>2. CASE BackupSnapshot
  <2>0. /\ job.pc = "snapshot" /\ job.cmd = "update" /\ job \in JobType
        /\ {file, wal, Opened, Seen, NoFile} \cup aside \subseteq DataType
        /\ UNCHANGED <<binary, prev, aside, unit, running, held, acked>>
    BY <1>2, UpdateFacts DEF BackupSnapshot, Untouched, serviceVars
  <2>1. CASE /\ TakeSnapshot
             /\ snapshots' = snapshots \cup {[n |-> taken + 1, data |-> Opened]}
             /\ job' = [job EXCEPT !.pc = "stop", !.snap = taken + 1, !.before = Opened]
    <3>1. /\ taken' = taken + 1 /\ taken' \in Nat /\ Opened.kind = "whole"
          /\ IF Attached THEN UNCHANGED <<file, wal>> ELSE file' = Opened /\ wal' = NoFile
      BY <1>0, <2>1 DEF TakeSnapshot, OpenAndClose, StateInv
    <3>2. file' # NoFile /\ Seen' = Opened /\ {file', wal'} \subseteq DataType
      <4>1. CASE Attached
        BY <1>0, <2>0, <3>1, <4>1 DEF StateInv, Opened, Seen
      <4>2. CASE ~Attached
        BY <2>0, <3>1, <4>2, DataFacts DEF Seen
      <4>. QED  BY <4>1, <4>2
    <3>3. /\ job'.cmd = "update" /\ job'.pc = "stop" /\ job'.before = Opened
          /\ job'.from = job.from /\ job'.migrated = job.migrated
      BY <2>0, <2>1 DEF JobType
    <3>4. job' \in JobType
      <4>1. "stop" \in Steps /\ taken + 1 \in Nat
        BY <3>1 DEF Steps
      <4>. QED  BY <2>0, <2>1, <4>1 DEF JobType
    <3>5. job'.cmd = "none" <=> job' = NoJob
      BY <3>3, IdleFacts
    <3>6. \A s \in snapshots' : s.n \in Nat /\ s.data \in DataType /\ s.data.kind = "whole"
      BY <1>0, <2>0, <2>1, <3>1 DEF StateInv
    <3>7. StateInv'
      BY <1>0, <2>0, <3>1, <3>2, <3>4, <3>5, <3>6 DEF StateInv, Attached
    <3>8. ServiceInv'
      BY <1>0, <2>0, <3>3 DEF ServiceInv, Undone, Restoring
    <3>9. AsFound(Seen)'
      <4>1. Opened.schema \in Nat
        BY <2>0 DEF DataType
      <4>. QED  BY <3>1, <3>2, <3>3, <4>1 DEF AsFound
    <3>10. ~job.migrated
      BY <1>0, <2>0 DEF DatabaseInv, Untouched
    <3>11. DatabaseInv'
      BY <3>1, <3>2, <3>3, <3>9, <3>10 DEF DatabaseInv, Restoring
    <3>. QED  BY <3>7, <3>8, <3>11
  <2>2. CASE /\ EndsWith("untouched")
             /\ IF Opened.kind = "whole" THEN OpenAndClose ELSE UNCHANGED <<file, wal>>
             /\ UNCHANGED <<snapshots, taken>>
    <3>1. job' = NoJob /\ job' \in JobType /\ (job'.cmd = "none" <=> job' = NoJob)
      BY <2>2, IdleFacts DEF EndsWith
    <3>2. \/ UNCHANGED <<file, wal>>
          \/ ~Attached /\ Opened.kind = "whole" /\ file' = Opened /\ wal' = NoFile
      BY <2>2 DEF OpenAndClose
    <3>3. StateInv'
      <4>1. CASE UNCHANGED <<file, wal>>
        BY <1>0, <2>0, <2>2, <3>1, <4>1, StillState
      <4>2. CASE ~Attached /\ Opened.kind = "whole" /\ file' = Opened /\ wal' = NoFile
        BY <1>0, <2>0, <2>2, <3>1, <4>2 DEF StateInv, Attached
      <4>. QED  BY <3>2, <4>1, <4>2
    <3>. QED  BY <3>1, <3>3, IdleKeeps
  <2>. QED  BY <1>2, <2>1, <2>2 DEF BackupSnapshot
<1>3. CASE StopForUpdate
  <2>0. /\ job.pc = "stop" /\ job.cmd = "update" /\ job \in JobType
        /\ ~job.migrated /\ file # NoFile /\ AsFound(Seen) /\ job.before.kind = "whole"
        /\ binary \in {0, job.from}
        /\ UNCHANGED <<binary, prev, snapshots, acked, taken>>
    BY <1>3, UpdateFacts DEF StopForUpdate, Untouched, UpdateInv, DatabaseInv
  <2>1. PICK pc \in {"park", "restart"} : Goes(pc)
    BY <1>3 DEF StopForUpdate
  <2>2. pc \in Steps
    BY DEF Steps
  <2>3. /\ job' \in JobType /\ (job'.cmd = "none" <=> job' = NoJob)
        /\ SameJob /\ job'.pc = pc /\ job'.migrated = job.migrated
        /\ job'.errs = job.errs /\ job'.byHand = job.byHand
    BY <1>0, <2>0, <2>1, <2>2, GoesOn
  <2>4. StopErrs /\ (pc = "park" => Stops)
    BY <1>3, <2>0, <2>3 DEF StopForUpdate, StopErrs, Goes, JobType
  <2>5. StateInv'
    BY <1>0, <2>0, <2>3, <2>4, StoppedState
  <2>6. ServiceInv'
    BY <1>0, <2>0, <2>3, <2>4 DEF ServiceInv, Undone, Restoring, SameJob, Stops
  <2>7. file' # NoFile /\ Seen' = Seen
    <3>1. CASE Stops
      BY <1>0, <2>0, <3>1, StopFacts
    <3>2. CASE UNCHANGED <<serviceVars, file, wal, aside>>
      BY <2>0, <3>2 DEF Seen
    <3>. QED  BY <2>4, <3>1, <3>2 DEF StopErrs
  <2>8. AsFound(Seen)'
    BY <2>0, <2>3, <2>7, SameFound DEF SameJob
  <2>9. DatabaseInv'
    BY <2>0, <2>3, <2>7, <2>8 DEF DatabaseInv, Restoring, SameJob
  <2>. QED  BY <2>5, <2>6, <2>9
<1>4. CASE RestartUntouched
  <2>1. /\ job' = NoJob /\ job' \in JobType /\ (job'.cmd = "none" <=> job' = NoJob) /\ StartErrs
        /\ UNCHANGED <<binary, prev, file, wal, aside, snapshots, acked, taken>>
    BY <1>4, IdleFacts DEF RestartUntouched, EndsWith, Starts, StartErrs, fileVars
  <2>. QED  BY <1>0, <2>1, StartedState, IdleKeeps
<1>5. CASE Park
  <2>0. /\ job.pc = "park" /\ job.cmd = "update" /\ job \in JobType /\ unit = "off"
        /\ ~job.migrated /\ file # NoFile /\ AsFound(Seen) /\ job.before.kind = "whole"
        /\ binary \in {0, job.from}
        /\ UNCHANGED <<file, wal, aside, snapshots, unit, running, held, acked, taken>>
    BY <1>5, UpdateFacts DEF Park, Untouched, UpdateInv, DatabaseInv, ServiceInv, serviceVars
  <2>1. /\ SameJob /\ job'.pc \in {"write", "rb-stop"} /\ job'.migrated = job.migrated
        /\ job'.errs = job.errs /\ job'.byHand = job.byHand /\ job' \in JobType
        /\ binary' \in {0, binary} /\ prev' \in {binary, prev}
    <3>1. "write" \in Steps /\ "rb-stop" \in Steps
      BY DEF Steps
    <3>2. CASE /\ prev' = binary /\ binary' = 0
               /\ job' = [job EXCEPT !.pc = "write", !.parked = TRUE]
      BY <2>0, <3>1, <3>2 DEF JobType, SameJob
    <3>3. CASE UNCHANGED <<binary, prev>> /\ job' = [job EXCEPT !.pc = "rb-stop"]
      BY <2>0, <3>1, <3>3 DEF JobType, SameJob
    <3>. QED  BY <1>5, <3>2, <3>3 DEF Park
  <2>2. {binary', prev'} \subseteq Nat
    BY <1>0, <2>1
  <2>3. job'.cmd = "none" <=> job' = NoJob
    BY <2>0, <2>1, IdleFacts DEF SameJob
  <2>4. StateInv'
    BY <1>0, <2>0, <2>1, <2>2, <2>3, StillState
  <2>5. ServiceInv'
    BY <2>0, <2>1 DEF ServiceInv, Undone, Restoring, SameJob
  <2>6. Seen' = Seen
    BY <2>0 DEF Seen
  <2>7. AsFound(Seen)'
    BY <2>0, <2>1, <2>6, SameFound DEF SameJob
  <2>8. DatabaseInv'
    BY <2>0, <2>1, <2>7 DEF DatabaseInv, Restoring, Untouched, SameJob
  <2>. QED  BY <2>4, <2>5, <2>8
<1>6. CASE WriteNew
  <2>0. /\ job.pc = "write" /\ job.cmd = "update" /\ job \in JobType /\ unit = "off"
        /\ ~job.migrated /\ file # NoFile /\ AsFound(Seen) /\ job.before.kind = "whole"
        /\ binary \in {0, job.from}
        /\ UNCHANGED <<prev, file, wal, aside, snapshots, unit, running, held, acked, taken>>
    BY <1>6, UpdateFacts DEF WriteNew, Swapped, UpdateInv, DatabaseInv, ServiceInv, serviceVars
  <2>1. /\ SameJob /\ job'.errs = job.errs /\ job'.byHand = job.byHand /\ job' \in JobType
        /\ \/ binary' = job.to /\ job'.pc = "migrate" /\ job'.migrated = TRUE
           \/ binary' = binary /\ job'.pc = "rb-stop" /\ job'.migrated = job.migrated
    <3>1. "migrate" \in Steps /\ "rb-stop" \in Steps
      BY DEF Steps
    <3>2. CASE /\ binary' = job.to
               /\ job' = [job EXCEPT !.pc = "migrate", !.migrated = TRUE]
      BY <2>0, <3>1, <3>2 DEF JobType, SameJob
    <3>3. CASE UNCHANGED binary /\ job' = [job EXCEPT !.pc = "rb-stop"]
      BY <2>0, <3>1, <3>3 DEF JobType, SameJob
    <3>. QED  BY <1>6, <3>2, <3>3 DEF WriteNew
  <2>2. {binary', prev'} \subseteq Nat
    BY <1>0, <2>0, <2>1 DEF JobType
  <2>3. job'.cmd = "none" <=> job' = NoJob
    BY <2>0, <2>1, IdleFacts DEF SameJob
  <2>4. StateInv'
    BY <1>0, <2>0, <2>1, <2>2, <2>3, StillState
  <2>5. ServiceInv'
    BY <2>0, <2>1 DEF ServiceInv, Undone, Restoring, SameJob
  <2>6. Seen' = Seen
    BY <2>0 DEF Seen
  <2>7. AsFound(Seen)'
    BY <2>0, <2>1, <2>6, SameFound DEF SameJob
  <2>8. DatabaseInv'
    BY <2>0, <2>1, <2>7 DEF DatabaseInv, Restoring, Untouched, SameJob
  <2>. QED  BY <2>4, <2>5, <2>8
<1>7. CASE RunMigrate
  <2>0. /\ job.pc = "migrate" /\ job.cmd = "update" /\ job \in JobType /\ unit = "off"
        /\ job.migrated /\ job.before.kind = "whole" /\ binary = job.to
        /\ {file, wal, Opened, Seen, NoFile} \cup aside \subseteq DataType
        /\ UNCHANGED <<binary, prev, aside, snapshots, unit, running, held, acked, taken>>
    BY <1>7, UpdateFacts DEF RunMigrate, Swapped, UpdateInv, DatabaseInv, ServiceInv, serviceVars
  <2>1. running = 0 /\ held = NoFile
    BY <1>0, <2>0 DEF StateInv
  <2>2. \A v \in 0 .. job.to : MigratedTo(Opened, v) \in DataType
    <3>1. \A v \in 0 .. job.to : v \in Nat
      BY <2>0 DEF JobType
    <3>. QED  BY <2>0, <3>1, DataFacts
  <2>3. /\ job.to \in Nat /\ MigratedTo(Opened, job.to) \in DataType
        /\ MigratedTo(Opened, job.to).kind = Opened.kind
        /\ MigratedTo(Opened, job.to).schema >= job.to
    <3>1. job.to \in Nat
      BY <2>0 DEF JobType
    <3>2. MigratedTo(Opened, job.to) \in DataType
      BY <2>0, <3>1, DataFacts
    <3>. QED  BY <2>0, <3>1, <3>2, DataFacts DEF DataType
  <2>4. {file', wal'} \subseteq DataType
    BY <1>7, <2>0, <2>2, <2>3, DataFacts DEF RunMigrate, OpenAndDie
  <2>5. PICK pc \in {"start", "rb-stop"} : Goes(pc)
    BY <1>7 DEF RunMigrate
  <2>6. pc \in Steps
    BY DEF Steps
  <2>7. /\ job' \in JobType /\ (job'.cmd = "none" <=> job' = NoJob)
        /\ SameJob /\ job'.pc = pc /\ job'.migrated = job.migrated
        /\ job'.errs = job.errs /\ job'.byHand = job.byHand
    BY <1>0, <2>0, <2>5, <2>6, GoesOn
  <2>8. pc = "start" => /\ Opened.kind = "whole" /\ wal' = NoFile
                        /\ file' = MigratedTo(Opened, job.to)
    BY <1>7, <2>0, <2>7 DEF RunMigrate, Goes, JobType
  <2>9. pc = "start" => file' # NoFile /\ Seen' = file' /\ Seen'.schema >= job.to
    BY <2>3, <2>8, DataFacts DEF Seen
  <2>10. StateInv'
    BY <1>0, <2>0, <2>1, <2>4, <2>7 DEF StateInv, Attached
  <2>11. ServiceInv'
    BY <2>0, <2>7 DEF ServiceInv, Undone, Restoring, SameJob
  <2>12. DatabaseInv'
    BY <2>0, <2>7, <2>9 DEF DatabaseInv, Restoring, Untouched, SameJob
  <2>. QED  BY <2>10, <2>11, <2>12
<1>8. CASE StartNew
  <2>0. /\ job.pc = "start" /\ job.cmd = "update" /\ job \in JobType /\ unit = "off"
        /\ job.migrated /\ job.before.kind = "whole" /\ binary = job.to
        /\ file # NoFile /\ Seen.schema >= job.to
        /\ UNCHANGED <<binary, prev, file, wal, aside, snapshots, acked, taken>>
    BY <1>8, UpdateFacts DEF StartNew, Swapped, UpdateInv, DatabaseInv, ServiceInv, fileVars
  <2>1. running = 0 /\ held = NoFile
    BY <1>0, <2>0 DEF StateInv
  <2>2. PICK pc \in {"health", "rb-stop"} : Goes(pc)
    BY <1>8 DEF StartNew
  <2>3. pc \in Steps
    BY DEF Steps
  <2>4. /\ job' \in JobType /\ (job'.cmd = "none" <=> job' = NoJob)
        /\ SameJob /\ job'.pc = pc /\ job'.migrated = job.migrated
        /\ job'.errs = job.errs /\ job'.byHand = job.byHand
    BY <1>0, <2>0, <2>2, <2>3, GoesOn
  <2>5. StartErrs
    BY <1>8 DEF StartNew, Starts, StartErrs
  <2>6. StateInv'
    BY <1>0, <2>0, <2>4, <2>5, StartedState
  <2>7. ServiceInv'
    BY <2>0, <2>1, <2>4, <2>5 DEF ServiceInv, Undone, Restoring, SameJob, StartErrs
  <2>8. Seen' = Seen
    BY <2>0 DEF Seen
  <2>9. DatabaseInv'
    BY <2>0, <2>4, <2>8 DEF DatabaseInv, Restoring, Untouched, SameJob
  <2>. QED  BY <2>6, <2>7, <2>9
<1>9. CASE AwaitHealth
  <2>0. /\ job.pc = "health" /\ job.cmd = "update" /\ job \in JobType
        /\ job.migrated /\ job.before.kind = "whole"
        /\ UNCHANGED <<binary, prev, file, wal, aside, snapshots, unit, running, held, acked, taken>>
    BY <1>9, UpdateFacts DEF AwaitHealth, Swapped, UpdateInv, DatabaseInv, fileVars, serviceVars
  <2>1. CASE EndsWith("installed")
    <3>1. job' = NoJob /\ job' \in JobType /\ (job'.cmd = "none" <=> job' = NoJob)
      BY <2>1, IdleFacts DEF EndsWith
    <3>. QED  BY <1>0, <2>0, <3>1, StillState, IdleKeeps
  <2>2. CASE Goes("rb-stop")
    <3>1. "rb-stop" \in Steps
      BY DEF Steps
    <3>2. /\ job' \in JobType /\ (job'.cmd = "none" <=> job' = NoJob)
          /\ SameJob /\ job'.pc = "rb-stop" /\ job'.migrated = job.migrated
      BY <1>0, <2>0, <2>2, <3>1, GoesOn
    <3>3. StateInv'
      BY <1>0, <2>0, <3>2, StillState
    <3>4. ServiceInv'
      BY <2>0, <3>2 DEF ServiceInv, Undone, Restoring, SameJob
    <3>5. DatabaseInv'
      BY <2>0, <3>2 DEF DatabaseInv, Restoring, Untouched, SameJob
    <3>. QED  BY <3>3, <3>4, <3>5
  <2>. QED  BY <1>9, <2>1, <2>2 DEF AwaitHealth
<1>. QED  BY <1>1, <1>2, <1>3, <1>4, <1>5, <1>6, <1>7, <1>8, <1>9

\* What is there before a step of a rollback or a restore.
LEMMA RollbackFacts ==
    ASSUME UpdateInv, job.pc \in Undone \cup {"rb-stop", "rb-binary"}
    PROVE  /\ job.cmd \in {"update", "restore"} /\ job \in JobType
           /\ job.cmd = "restore" => job.pc \in Restoring
           /\ job.before.kind = "whole" /\ {binary, prev} \subseteq Nat
           /\ job.cmd = "update" /\ job.pc # "rb-stop" /\ job.pc # "rb-health" /\ "stop" \notin job.errs =>
                 unit = "off" /\ running = 0 /\ held = NoFile
           /\ job.cmd = "update" /\ ~job.migrated => binary \in {0, job.from} /\ file # NoFile /\ AsFound(Seen)
           /\ job.cmd = "update" /\ job.pc \in Undone /\ "binary" \notin job.byHand => binary = job.from
           /\ job.cmd = "update" /\ job.pc \in Restoring => job.migrated
<1>1. job \in JobType /\ job.cmd \in {"update", "restore"} /\ job.pc # "snapshot"
  BY IdleFacts DEF UpdateInv, StateInv, JobType, Undone, Restoring
<1>. QED  BY <1>1 DEF UpdateInv, StateInv, ServiceInv, DatabaseInv, Undone, Restoring

\* A restore that fails, of whichever command, keeps what a rollback relies on.
LEMMA FailKeeps ==
    ASSUME UpdateInv, job.pc \in Restoring, RestoreFails,
           UNCHANGED <<binary, unit, running, held>>
    PROVE  /\ job' \in JobType /\ (job'.cmd = "none" <=> job' = NoJob)
           /\ ServiceInv' /\ DatabaseInv'
<1>1. /\ StateInv /\ ServiceInv /\ DatabaseInv /\ job \in JobType
      /\ job.cmd \in {"update", "restore"} /\ job.before.kind = "whole"
      /\ job.cmd = "update" => job.migrated
  BY RollbackFacts DEF UpdateInv, Undone
<1>2. CASE job.cmd = "restore"
  <2>1. job' = NoJob
    BY <1>2 DEF RestoreFails, EndsWith
  <2>. QED  BY <2>1, IdleFacts, IdleKeeps
<1>3. CASE job.cmd = "update"
  <2>1. /\ job' \in JobType /\ (job'.cmd = "none" <=> job' = NoJob)
        /\ SameJob /\ job'.pc = "rb-start" /\ job'.migrated = job.migrated
        /\ job'.errs = job.errs /\ job'.byHand = job.byHand \cup {"db"}
    BY <1>1, <1>3, FailsOn
  <2>2. ServiceInv'
    BY <1>1, <1>3, <2>1 DEF ServiceInv, Undone, Restoring, SameJob
  <2>3. DatabaseInv'
    BY <1>1, <1>3, <2>1 DEF DatabaseInv, Restoring, Untouched, SameJob
  <2>. QED  BY <2>1, <2>2, <2>3
<1>. QED  BY <1>1, <1>2, <1>3

\* A rollback keeps what it relies on.
LEMMA RollbackSteps ==
    ASSUME UpdateInv,
           RollbackStop \/ RestoreBinary \/ RestoreDatabase \/ RollbackStart \/ RollbackHealth
    PROVE  StateInv' /\ ServiceInv' /\ DatabaseInv'
<1>0. StateInv /\ ServiceInv /\ DatabaseInv /\ BinaryInv /\ {binary, prev} \subseteq Nat
  BY DEF UpdateInv, StateInv
<1>1. CASE RollbackStop
  <2>0. /\ job.pc = "rb-stop" /\ job.cmd = "update" /\ job \in JobType
        /\ job.before.kind = "whole"
        /\ ~job.migrated => binary \in {0, job.from} /\ file # NoFile /\ AsFound(Seen)
        /\ UNCHANGED <<binary, prev, snapshots, acked, taken>>
    BY <1>1, UpdateFacts DEF RollbackStop
  <2>1. /\ SameJob /\ job'.pc = "rb-binary" /\ job'.migrated = job.migrated
        /\ job'.byHand = job.byHand /\ job' \in JobType
        /\ StopErrs /\ ("stop" \notin job'.errs => Stops)
    <3>1. "rb-binary" \in Steps /\ job.errs \cup {"stop"} \in SUBSET {"stop", "start"}
      BY <2>0 DEF Steps, JobType
    <3>2. CASE Stops /\ job' = [job EXCEPT !.pc = "rb-binary"]
      BY <2>0, <3>1, <3>2 DEF JobType, SameJob, StopErrs
    <3>3. CASE StopErrs /\ job' = [job EXCEPT !.pc = "rb-binary", !.errs = job.errs \cup {"stop"}]
      BY <2>0, <3>1, <3>3 DEF JobType, SameJob
    <3>. QED  BY <1>1, <3>2, <3>3 DEF RollbackStop
  <2>2. job'.cmd = "none" <=> job' = NoJob
    BY <2>0, <2>1, IdleFacts DEF SameJob
  <2>3. StateInv'
    BY <1>0, <2>0, <2>1, <2>2, StoppedState
  <2>4. ServiceInv'
    BY <2>0, <2>1 DEF ServiceInv, Undone, Restoring, SameJob, Stops
  <2>5. file # NoFile => file' # NoFile /\ Seen' = Seen
    <3>1. CASE Stops
      BY <1>0, <3>1, StopFacts
    <3>2. CASE UNCHANGED <<serviceVars, file, wal, aside>>
      BY <3>2 DEF Seen
    <3>. QED  BY <2>1, <3>1, <3>2 DEF StopErrs
  <2>6. ~job.migrated => file' # NoFile /\ AsFound(Seen)'
    BY <2>0, <2>1, <2>5, SameFound DEF SameJob
  <2>7. DatabaseInv'
    BY <2>0, <2>1, <2>6 DEF DatabaseInv, Restoring, Untouched, SameJob
  <2>. QED  BY <2>3, <2>4, <2>7
<1>2. CASE RestoreBinary
  <2>0. /\ job.pc = "rb-binary" /\ job.cmd = "update" /\ job \in JobType
        /\ job.before.kind = "whole" /\ job.from # 0
        /\ IF job.parked THEN prev = job.from ELSE binary = job.from
        /\ ~job.migrated => binary \in {0, job.from} /\ file # NoFile /\ AsFound(Seen)
        /\ "stop" \notin job.errs => unit = "off"
        /\ UNCHANGED <<file, wal, aside, snapshots, unit, running, held, acked, taken>>
    BY <1>0, <1>2, UpdateFacts
    DEF RestoreBinary, BinaryInv, ServiceInv, serviceVars, UpdateInv
  <2>1. /\ SameJob /\ job'.pc = "rb-db" /\ job'.migrated = job.migrated
        /\ job'.errs = job.errs /\ job' \in JobType
        /\ \/ binary' = job.from /\ prev' \in {0, prev}
           \/ UNCHANGED <<binary, prev>> /\ "binary" \in job'.byHand
    <3>1. "rb-db" \in Steps /\ job.byHand \cup {"binary"} \in SUBSET {"binary", "db"}
      BY <2>0 DEF Steps, JobType
    <3>2. CASE job.parked /\ binary' = prev /\ prev' = 0 /\ job' = [job EXCEPT !.pc = "rb-db"]
      BY <2>0, <3>1, <3>2 DEF JobType, SameJob
    <3>3. CASE /\ job' = [job EXCEPT !.pc = "rb-db", !.byHand = job.byHand \cup {"binary"}]
               /\ UNCHANGED <<binary, prev>>
      BY <2>0, <3>1, <3>3 DEF JobType, SameJob
    <3>4. CASE ~job.parked /\ job' = [job EXCEPT !.pc = "rb-db"] /\ UNCHANGED <<binary, prev>>
      BY <2>0, <3>1, <3>4 DEF JobType, SameJob
    <3>. QED  BY <1>2, <3>2, <3>3, <3>4 DEF RestoreBinary
  <2>2. {binary', prev'} \subseteq Nat
    BY <1>0, <2>0, <2>1 DEF JobType
  <2>3. job'.cmd = "none" <=> job' = NoJob
    BY <2>0, <2>1, IdleFacts DEF SameJob
  <2>4. StateInv'
    BY <1>0, <2>0, <2>1, <2>2, <2>3, StillState
  <2>5. ServiceInv'
    BY <2>0, <2>1 DEF ServiceInv, Undone, Restoring, SameJob
  <2>6. Seen' = Seen
    BY <2>0 DEF Seen
  <2>7. ~job.migrated => file' # NoFile /\ AsFound(Seen)'
    BY <2>0, <2>1, <2>6, SameFound DEF SameJob
  <2>8. DatabaseInv'
    BY <2>0, <2>1, <2>7 DEF DatabaseInv, Restoring, Untouched, SameJob
  <2>. QED  BY <2>4, <2>5, <2>8
<1>3. CASE RestoreDatabase
  <2>0. /\ job.pc = "rb-db" /\ job.cmd = "update" /\ job \in JobType
        /\ job.before.kind = "whole"
        /\ ~job.migrated => binary \in {0, job.from} /\ file # NoFile /\ AsFound(Seen)
        /\ "stop" \notin job.errs => unit = "off"
        /\ "binary" \notin job.byHand => binary = job.from
        /\ UNCHANGED <<binary, prev, file, wal, aside, snapshots, unit, running, held, acked, taken>>
    BY <1>3, RollbackFacts DEF RestoreDatabase, Undone, Restoring, fileVars, serviceVars
  <2>1. PICK pc \in {"verify", "rb-start"} : Goes(pc) /\ (pc = "verify" <=> job.migrated)
    BY <1>3, <2>0 DEF RestoreDatabase, JobType
  <2>2. pc \in Steps
    BY DEF Steps
  <2>3. /\ job' \in JobType /\ (job'.cmd = "none" <=> job' = NoJob)
        /\ SameJob /\ job'.pc = pc /\ job'.migrated = job.migrated
        /\ job'.errs = job.errs /\ job'.byHand = job.byHand
    BY <1>0, <2>0, <2>1, <2>2, GoesOn
  <2>4. StateInv'
    BY <1>0, <2>0, <2>3, StillState
  <2>5. ServiceInv'
    BY <2>0, <2>3 DEF ServiceInv, Undone, Restoring, SameJob
  <2>6. Seen' = Seen
    BY <2>0 DEF Seen
  <2>7. ~job.migrated => file' # NoFile /\ AsFound(Seen)' /\ AsLeft(Seen)'
    BY <2>0, <2>3, <2>6, SameFound, FoundIsLeft DEF SameJob
  <2>8. DatabaseInv'
    BY <2>0, <2>1, <2>3, <2>7 DEF DatabaseInv, Restoring, Untouched, SameJob
  <2>. QED  BY <2>4, <2>5, <2>8
<1>4. CASE RollbackStart
  <2>0. /\ job.pc = "rb-start" /\ job.cmd = "update" /\ job \in JobType
        /\ job.before.kind = "whole"
        /\ ~job.migrated => binary \in {0, job.from} /\ file # NoFile /\ AsFound(Seen)
        /\ "stop" \notin job.errs => unit = "off" /\ running = 0 /\ held = NoFile
        /\ "binary" \notin job.byHand => binary = job.from
        /\ "db" \notin job.byHand => file # NoFile /\ AsLeft(Seen)
        /\ UNCHANGED <<binary, prev, file, wal, aside, snapshots, acked, taken>>
    BY <1>0, <1>4, RollbackFacts DEF RollbackStart, Undone, Restoring, fileVars, DatabaseInv
  <2>1. /\ SameJob /\ job'.pc = "rb-health" /\ job'.migrated = job.migrated
        /\ job'.byHand = job.byHand /\ job' \in JobType
        /\ StartErrs /\ job.errs \subseteq job'.errs
    <3>1. "rb-health" \in Steps /\ job.errs \cup {"start"} \in SUBSET {"stop", "start"}
      BY <2>0 DEF Steps, JobType
    <3>2. CASE Starts /\ job' = [job EXCEPT !.pc = "rb-health"]
      BY <2>0, <3>1, <3>2 DEF JobType, SameJob, Starts, StartErrs
    <3>3. CASE StartErrs /\ job' = [job EXCEPT !.pc = "rb-health", !.errs = job.errs \cup {"start"}]
      BY <2>0, <3>1, <3>3 DEF JobType, SameJob
    <3>. QED  BY <1>4, <3>2, <3>3 DEF RollbackStart
  <2>2. job'.cmd = "none" <=> job' = NoJob
    BY <2>0, <2>1, IdleFacts DEF SameJob
  <2>3. StateInv'
    BY <1>0, <2>0, <2>1, <2>2, StartedState
  <2>4. ServiceInv'
    BY <2>0, <2>1 DEF ServiceInv, Undone, Restoring, SameJob, StartErrs
  <2>5. Seen' = Seen
    BY <2>0 DEF Seen
  <2>6. /\ ~job.migrated => file' # NoFile /\ AsFound(Seen)'
        /\ "db" \notin job.byHand => file' # NoFile /\ AsLeft(Seen)'
    BY <2>0, <2>1, <2>5, SameFound DEF SameJob
  <2>7. DatabaseInv'
    BY <2>0, <2>1, <2>6 DEF DatabaseInv, Restoring, Untouched, SameJob
  <2>. QED  BY <2>3, <2>4, <2>7
<1>5. CASE RollbackHealth
  <2>1. /\ job' = NoJob /\ job' \in JobType /\ (job'.cmd = "none" <=> job' = NoJob)
        /\ UNCHANGED <<binary, prev, file, wal, aside, snapshots, unit, running, held, acked, taken>>
    BY <1>5, IdleFacts DEF RollbackHealth, EndsWith, fileVars, serviceVars
  <2>. QED  BY <1>0, <2>1, StillState, IdleKeeps
<1>. QED  BY <1>1, <1>2, <1>3, <1>4, <1>5

\* backup.Restore keeps what it and a rollback rely on.
LEMMA RestoreSteps ==
    ASSUME UpdateInv,
           BeginRestore \/ VerifySnapshot \/ MoveAside \/ CopySnapshot \/ RemoveStaleLog
    PROVE  StateInv' /\ ServiceInv' /\ DatabaseInv'
<1>0. /\ StateInv /\ ServiceInv /\ DatabaseInv
      /\ {file, wal, held, Opened, Seen, NoFile, Torn} \cup aside \subseteq DataType
      /\ {binary, prev} \subseteq Nat
  BY DataFacts DEF UpdateInv, StateInv, Opened, Seen
<1>1. CASE BeginRestore
  <2>0. /\ ~Attached /\ (StopsFirst => unit = "off")
        /\ UNCHANGED <<file, wal>> \/ (file' = Opened /\ wal' = NoFile)
        /\ UNCHANGED <<binary, prev, aside, snapshots, unit, running, held, acked, taken>>
    BY <1>0, <1>1 DEF BeginRestore, OpenAndClose, serviceVars, StateInv
  <2>1. PICK s \in snapshots :
           job' = [NoJob EXCEPT !.cmd = "restore", !.pc = "verify", !.snap = s.n, !.before = s.data]
    BY <1>1 DEF BeginRestore
  <2>2. s.n \in Nat /\ s.data \in DataType /\ s.data.kind = "whole" /\ "verify" \in Steps
    BY <1>0 DEF StateInv, Steps
  <2>3. job'.cmd = "restore" /\ job'.pc = "verify" /\ job'.before = s.data
    BY <2>1 DEF NoJob
  <2>4. job' \in JobType
    BY <2>1, <2>2, IdleFacts DEF JobType
  <2>5. job'.cmd = "none" <=> job' = NoJob
    BY <2>3, IdleFacts
  <2>6. {file', wal'} \subseteq DataType /\ ~Attached'
    BY <1>0, <2>0 DEF Attached
  <2>7. StateInv'
    BY <1>0, <2>0, <2>4, <2>5, <2>6 DEF StateInv
  <2>8. ServiceInv'
    BY <2>0, <2>3 DEF ServiceInv, Restoring
  <2>9. DatabaseInv'
    BY <2>2, <2>3 DEF DatabaseInv
  <2>. QED  BY <2>7, <2>8, <2>9
<1>2. CASE VerifySnapshot
  <2>0. /\ job.pc = "verify" /\ job.pc \in Restoring /\ job.cmd # "none" /\ job.before.kind = "whole"
        /\ job.cmd = "update" => job.migrated
        /\ UNCHANGED <<binary, prev, file, wal, aside, snapshots, unit, running, held, acked, taken>>
    BY <1>2, RollbackFacts DEF VerifySnapshot, Undone, Restoring, fileVars, serviceVars
  <2>1. CASE Goes("aside")
    <3>1. "aside" \in Steps
      BY DEF Steps
    <3>2. /\ job' \in JobType /\ (job'.cmd = "none" <=> job' = NoJob)
          /\ SameJob /\ job'.pc = "aside" /\ job'.migrated = job.migrated
          /\ job'.errs = job.errs /\ job'.byHand = job.byHand
      BY <1>0, <2>0, <2>1, <3>1, GoesOn
    <3>3. StateInv'
      BY <1>0, <2>0, <3>2, StillState
    <3>4. ServiceInv'
      BY <1>0, <2>0, <3>2 DEF ServiceInv, Undone, Restoring, SameJob
    <3>5. DatabaseInv'
      BY <2>0, <3>2 DEF DatabaseInv, Restoring, Untouched, SameJob
    <3>. QED  BY <3>3, <3>4, <3>5
  <2>2. CASE RestoreFails
    BY <1>0, <2>0, <2>2, FailKeeps, StillState
  <2>. QED  BY <1>2, <2>1, <2>2 DEF VerifySnapshot
<1>3. CASE MoveAside
  <2>0. /\ job.pc = "aside" /\ job.pc \in Restoring /\ job.cmd # "none" /\ job.before.kind = "whole"
        /\ job.cmd = "update" => job.migrated
        /\ UNCHANGED <<binary, prev, wal, snapshots, unit, running, acked, taken>>
    BY <1>3, RollbackFacts DEF MoveAside, Undone, Restoring
  <2>1. CASE /\ aside' = (IF file = NoFile THEN aside ELSE aside \cup {file})
             /\ file' = NoFile
             /\ held' = (IF Attached THEN Seen ELSE held)
             /\ Goes("copy")
    <3>1. "copy" \in Steps
      BY DEF Steps
    <3>2. /\ job' \in JobType /\ (job'.cmd = "none" <=> job' = NoJob)
          /\ SameJob /\ job'.pc = "copy" /\ job'.migrated = job.migrated
          /\ job'.errs = job.errs /\ job'.byHand = job.byHand
      BY <1>0, <2>0, <2>1, <3>1, GoesOn
    <3>3. {file', wal', held'} \cup aside' \subseteq DataType
      BY <1>0, <2>0, <2>1
    <3>4. ~Attached' /\ (running' = 0 => held' = NoFile)
      <4>1. CASE Attached
        BY <1>0, <2>0, <2>1, <4>1 DEF Attached, Seen, StateInv
      <4>2. CASE ~Attached
        BY <1>0, <2>0, <2>1, <4>2 DEF Attached, StateInv
      <4>. QED  BY <4>1, <4>2
    <3>5. StateInv'
      BY <1>0, <2>0, <3>2, <3>3, <3>4 DEF StateInv
    <3>6. ServiceInv'
      BY <1>0, <2>0, <3>2 DEF ServiceInv, Undone, Restoring, SameJob
    <3>7. DatabaseInv'
      BY <2>0, <2>1, <3>2, DataFacts DEF DatabaseInv, Restoring, Untouched, SameJob
    <3>. QED  BY <3>5, <3>6, <3>7
  <2>2. CASE RestoreFails /\ UNCHANGED <<aside, file, held>>
    BY <1>0, <2>0, <2>2, FailKeeps, StillState
  <2>. QED  BY <1>3, <2>1, <2>2 DEF MoveAside
<1>4. CASE CopySnapshot
  <2>0. /\ job.pc = "copy" /\ job.pc \in Restoring /\ job.cmd # "none" /\ job.before.kind = "whole"
        /\ job.cmd = "update" => job.migrated
        /\ job \in JobType
        /\ UNCHANGED <<binary, prev, aside, snapshots, unit, running, held, acked, taken>>
    BY <1>4, RollbackFacts DEF CopySnapshot, Undone, Restoring, serviceVars
  <2>1. CASE /\ file' = job.before
             /\ wal' = (IF wal = NoFile THEN NoFile ELSE Torn)
             /\ Goes("clean")
    <3>1. "clean" \in Steps
      BY DEF Steps
    <3>2. /\ job' \in JobType /\ (job'.cmd = "none" <=> job' = NoJob)
          /\ SameJob /\ job'.pc = "clean" /\ job'.migrated = job.migrated
          /\ job'.errs = job.errs /\ job'.byHand = job.byHand
      BY <1>0, <2>0, <2>1, <3>1, GoesOn
    <3>3. /\ {file', wal'} \subseteq DataType /\ file' # NoFile /\ wal' \in {NoFile, Torn}
          /\ file'.schema \in Nat
      BY <1>0, <2>0, <2>1, DataFacts DEF JobType, DataType
    <3>4. StateInv'
      BY <1>0, <2>0, <3>2, <3>3 DEF StateInv, Attached
    <3>5. ServiceInv'
      BY <1>0, <2>0, <3>2 DEF ServiceInv, Undone, Restoring, SameJob
    <3>6. AsLeft(file)'
      BY <2>0, <2>1, <3>2, <3>3 DEF AsLeft, SameJob
    <3>7. DatabaseInv'
      BY <2>0, <2>1, <3>2, <3>3, <3>6 DEF DatabaseInv, Restoring, Untouched, SameJob
    <3>. QED  BY <3>4, <3>5, <3>7
  <2>2. CASE file' \in {file, Torn} /\ UNCHANGED wal /\ RestoreFails
    <3>1. /\ job' \in JobType /\ (job'.cmd = "none" <=> job' = NoJob)
          /\ ServiceInv' /\ DatabaseInv'
      BY <2>0, <2>2, FailKeeps
    <3>2. file' \in DataType /\ (file # NoFile => file' # NoFile)
      BY <1>0, <2>2, DataFacts
    <3>3. StateInv'
      BY <1>0, <2>0, <2>2, <3>1, <3>2 DEF StateInv, Attached
    <3>. QED  BY <3>1, <3>3
  <2>. QED  BY <1>4, <2>1, <2>2 DEF CopySnapshot
<1>5. CASE RemoveStaleLog
  <2>0. /\ job.pc = "clean" /\ job.pc \in Restoring /\ job.cmd \in {"update", "restore"}
        /\ job.before.kind = "whole" /\ job \in JobType
        /\ job.cmd = "update" => job.migrated
        /\ UNCHANGED <<binary, prev, file, aside, snapshots, unit, running, held, acked, taken>>
        /\ {binary', prev'} \subseteq Nat
    BY <1>0, <1>5, RollbackFacts DEF RemoveStaleLog, Undone, Restoring, serviceVars
  <2>1. ASSUME wal' \in {wal, NoFile}, job' \in JobType, job'.cmd = "none" <=> job' = NoJob
        PROVE  StateInv'
    BY <1>0, <2>0, <2>1 DEF StateInv, Attached
  <2>2. CASE wal' = NoFile /\ job.cmd = "restore" /\ EndsWith("restored")
    <3>1. job' = NoJob
      BY <2>2 DEF EndsWith
    <3>. QED  BY <2>1, <2>2, <3>1, IdleFacts, IdleKeeps
  <2>3. CASE wal' = NoFile /\ job.cmd = "update" /\ Goes("rb-start")
    <3>1. "rb-start" \in Steps
      BY DEF Steps
    <3>2. /\ job' \in JobType /\ (job'.cmd = "none" <=> job' = NoJob)
          /\ SameJob /\ job'.pc = "rb-start" /\ job'.migrated = job.migrated
          /\ job'.errs = job.errs /\ job'.byHand = job.byHand
      BY <1>0, <2>0, <2>3, <3>1, GoesOn
    <3>3. ServiceInv'
      BY <1>0, <2>0, <2>3, <3>2 DEF ServiceInv, Undone, Restoring, SameJob
    <3>4. AsLeft(file) /\ file # NoFile /\ Seen' = file
      <4>1. AsLeft(file)
        BY <1>0, <2>0, <2>3 DEF DatabaseInv
      <4>. QED  BY <2>0, <2>3, <4>1, DataFacts DEF AsLeft, Seen
    <3>5. file' # NoFile /\ AsLeft(Seen)'
      BY <2>0, <3>2, <3>4, SameFound DEF SameJob
    <3>6. DatabaseInv'
      BY <2>0, <2>3, <3>2, <3>5 DEF DatabaseInv, Restoring, Untouched, SameJob
    <3>. QED  BY <2>1, <2>3, <3>2, <3>3, <3>6
  <2>4. CASE UNCHANGED wal /\ RestoreFails
    BY <2>0, <2>1, <2>4, FailKeeps
  <2>. QED  BY <1>5, <2>0, <2>2, <2>3, <2>4 DEF RemoveStaleLog
<1>. QED  BY <1>1, <1>2, <1>3, <1>4, <1>5

\* The operator's stop and start, with no command under way; a kill, and a crash
\* of the machine.
LEMMA OutsideSteps ==
    ASSUME UpdateInv, OperatorStops \/ OperatorStarts \/ CommandKilled \/ MachineCrash
    PROVE  StateInv' /\ ServiceInv' /\ DatabaseInv'
<1>0. /\ StateInv /\ {file, wal, held, NoFile, Torn} \cup aside \subseteq DataType
      /\ {binary, prev} \subseteq Nat
  BY DataFacts DEF UpdateInv, StateInv
<1>1. job' = NoJob /\ job' \in JobType /\ (job'.cmd = "none" <=> job' = NoJob)
  BY IdleFacts DEF OperatorStops, OperatorStarts, CommandKilled, MachineCrash, jobVars
<1>2. CASE OperatorStops
  BY <1>0, <1>1, <1>2, StoppedState, IdleKeeps DEF OperatorStops, StopErrs
<1>3. CASE OperatorStarts
  BY <1>0, <1>1, <1>3, StartedState, IdleKeeps DEF OperatorStarts, Starts, StartErrs, fileVars
<1>4. CASE CommandKilled \/ MachineCrash
  <2>1. file' \in {file, Torn} /\ UNCHANGED <<binary, prev, wal, aside, snapshots, acked, taken>>
    BY <1>4 DEF CommandKilled, MachineCrash, HalfCopied
  <2>2. file' \in DataType /\ (file # NoFile => file' # NoFile)
    BY <1>0, <2>1, DataFacts
  <2>3. CASE CommandKilled
    <3>1. UNCHANGED <<unit, running, held>>
      BY <2>3 DEF CommandKilled, serviceVars
    <3>2. StateInv'
      BY <1>0, <1>1, <2>1, <2>2, <3>1 DEF StateInv, Attached
    <3>. QED  BY <1>1, <3>2, IdleKeeps
  <2>4. CASE MachineCrash
    <3>1. running' = 0 /\ held' = NoFile /\ unit' = "on"
      BY <2>4 DEF MachineCrash
    <3>2. StateInv'
      BY <1>0, <1>1, <2>1, <2>2, <3>1 DEF StateInv, Attached
    <3>. QED  BY <1>1, <3>2, IdleKeeps
  <2>. QED  BY <1>4, <2>3, <2>4
<1>. QED  BY <1>2, <1>3, <1>4

-----------------------------------------------------------------------------
(***************************************************************************)
(* The theorems.                                                           *)
(***************************************************************************)

\* The installed service, before any command.
LEMMA UpdateInit == MachineInit => UpdateInv
<1>. SUFFICES ASSUME MachineInit PROVE UpdateInv
  OBVIOUS
<1>1. BinaryInv
  BY BinaryInit
<1>2. /\ job = NoJob /\ acked = {0} /\ binary = 1 /\ prev = 0 /\ running = 1 /\ taken = 0
      /\ unit = "on" /\ aside = {} /\ snapshots = {} /\ held = NoFile /\ wal = NoFile
      /\ file = Data("whole", 1, {0})
  BY DEF MachineInit
<1>3. file \in DataType /\ file.kind = "whole"
  BY <1>2 DEF Data, DataType
<1>4. file # NoFile /\ NoFile \in DataType
  BY <1>3, DataFacts
<1>5. IsFiniteSet(acked)
  BY <1>2, FS_Singleton
<1>6. StateInv
  BY <1>2, <1>3, <1>4, <1>5, IdleFacts DEF StateInv
<1>7. ServiceInv /\ DatabaseInv
  BY <1>2, IdleFacts DEF ServiceInv, DatabaseInv
<1>. QED  BY <1>1, <1>6, <1>7 DEF UpdateInv

\* Every step keeps what the reports rest on.
LEMMA UpdateStep == UpdateInv /\ [MachineNext]_machineVars => UpdateInv'
<1>. SUFFICES ASSUME UpdateInv, [MachineNext]_machineVars PROVE UpdateInv'
  OBVIOUS
<1>1. BinaryInv'
  BY BinaryStep DEF UpdateInv
<1>2. CASE EnvAction
  BY <1>1, <1>2, EnvActions, EnvKeeps DEF UpdateInv
<1>3. CASE \/ BeginUpdate \/ BackupSnapshot \/ StopForUpdate \/ RestartUntouched \/ Park
           \/ WriteNew \/ RunMigrate \/ StartNew \/ AwaitHealth
  BY <1>1, <1>3, UpdateSteps DEF UpdateInv
<1>4. CASE RollbackStop \/ RestoreBinary \/ RestoreDatabase \/ RollbackStart \/ RollbackHealth
  BY <1>1, <1>4, RollbackSteps DEF UpdateInv
<1>5. CASE BeginRestore \/ VerifySnapshot \/ MoveAside \/ CopySnapshot \/ RemoveStaleLog
  BY <1>1, <1>5, RestoreSteps DEF UpdateInv
<1>6. CASE OperatorStops \/ OperatorStarts \/ CommandKilled \/ MachineCrash
  BY <1>1, <1>6, OutsideSteps DEF UpdateInv
<1>7. CASE UNCHANGED machineVars
  BY <1>1, <1>7
  DEF UpdateInv, StateInv, ServiceInv, DatabaseInv, AsFound, AsLeft, Seen, Attached,
      machineVars, fileVars, serviceVars, jobVars
<1>. QED
  BY <1>2, <1>3, <1>4, <1>5, <1>6, <1>7 DEF MachineNext, JobStep, EnvAction

\* How a command ends: with nothing installed and nothing rolled back, or at one
\* of the three steps that say so.
LEMMA HowItEnds ==
    ASSUME UpdateInv, [MachineNext]_machineVars, job # NoJob, job' = NoJob
    PROVE  \/ report'.outcome \in {"none", "untouched", "stop-failed", "restore-failed"}
           \/ job.pc = "health" /\ running # 0 /\ report'.outcome = "installed"
           \/ /\ job.pc = "rb-health" /\ report'.errs = job.errs
              /\ \/ /\ running # 0 /\ report'.byHand = job.byHand
                    /\ report'.outcome = (IF job.errs \cup job.byHand = {} THEN "rolled-back" ELSE "failed")
                 \/ report'.outcome = "failed" /\ report'.byHand = job.byHand \cup {"service"}
           \/ /\ job.pc = "clean" /\ job.cmd = "restore" /\ report'.outcome = "restored"
              /\ UNCHANGED <<file, running>> /\ wal' = NoFile
<1>0. job \in JobType /\ job.cmd # "none" /\ StateInv
  BY DEF UpdateInv, StateInv
<1>1. \A pc \in Steps : ~Goes(pc)
  BY <1>0, GoesOn, IdleFacts DEF SameJob
<1>2. RestoreFails => report'.outcome = "restore-failed"
  <2>1. RestoreFails /\ job.cmd = "update" => FALSE
    BY <1>0, FailsOn, IdleFacts DEF SameJob
  <2>. QED  BY <1>0, <2>1 DEF RestoreFails, EndsWith, JobType
<1>3. \A pc : [job EXCEPT !.pc = pc].cmd = job.cmd
  BY <1>0 DEF JobType
<1>4. CASE EnvAction \/ OperatorStops \/ OperatorStarts \/ UNCHANGED machineVars
  <2>1. job' = job
    BY <1>4 DEF EnvAction, Backup, ServiceComesUp, ServiceFailsToStart, ServiceCrashes, UserWrites,
                OperatorStops, OperatorStarts, machineVars, jobVars
  <2>. QED  BY <2>1
<1>5. CASE BeginUpdate \/ BeginRestore
  BY <1>5 DEF BeginUpdate, BeginRestore
<1>6. CASE CommandKilled \/ MachineCrash
  BY <1>6 DEF CommandKilled, MachineCrash, NoReport
<1>7. CASE BackupSnapshot
  <2>1. job' # [job EXCEPT !.pc = "stop", !.snap = taken + 1, !.before = Opened]
    BY <1>0, IdleFacts DEF JobType
  <2>. QED  BY <1>7, <2>1 DEF BackupSnapshot, EndsWith
<1>8. CASE RestartUntouched
  BY <1>8 DEF RestartUntouched, EndsWith
<1>9. CASE StopForUpdate \/ RunMigrate \/ StartNew
  BY <1>1, <1>9 DEF StopForUpdate, RunMigrate, StartNew, Steps
<1>10. CASE Park \/ WriteNew
  <2>1. /\ [job EXCEPT !.pc = "write", !.parked = TRUE].cmd = job.cmd
        /\ [job EXCEPT !.pc = "migrate", !.migrated = TRUE].cmd = job.cmd
        /\ [job EXCEPT !.pc = "rb-stop"].cmd = job.cmd
    BY <1>0 DEF JobType
  <2>. QED  BY <1>0, <1>10, <2>1, IdleFacts DEF Park, WriteNew
<1>11. CASE AwaitHealth
  BY <1>1, <1>11 DEF AwaitHealth, EndsWith, Steps
<1>12. CASE RollbackStop \/ RollbackStart
  <2>1. /\ [job EXCEPT !.pc = "rb-binary"].cmd = job.cmd
        /\ [job EXCEPT !.pc = "rb-binary", !.errs = @ \cup {"stop"}].cmd = job.cmd
        /\ [job EXCEPT !.pc = "rb-health"].cmd = job.cmd
        /\ [job EXCEPT !.pc = "rb-health", !.errs = @ \cup {"start"}].cmd = job.cmd
    BY <1>0 DEF JobType
  <2>. QED  BY <1>0, <1>12, <2>1, IdleFacts DEF RollbackStop, RollbackStart
<1>13. CASE RestoreBinary
  <2>1. /\ [job EXCEPT !.pc = "rb-db"].cmd = job.cmd
        /\ [job EXCEPT !.pc = "rb-db", !.byHand = @ \cup {"binary"}].cmd = job.cmd
    BY <1>0 DEF JobType
  <2>. QED  BY <1>0, <1>13, <2>1, IdleFacts DEF RestoreBinary
<1>14. CASE RestoreDatabase
  BY <1>1, <1>14 DEF RestoreDatabase, Steps
<1>15. CASE RollbackHealth
  BY <1>15 DEF RollbackHealth, EndsWith
<1>16. CASE VerifySnapshot \/ MoveAside \/ CopySnapshot
  BY <1>1, <1>2, <1>16 DEF VerifySnapshot, MoveAside, CopySnapshot, Steps
<1>17. CASE RemoveStaleLog
  BY <1>1, <1>2, <1>17 DEF RemoveStaleLog, EndsWith, Steps, serviceVars
<1>. QED
  BY <1>4, <1>5, <1>6, <1>7, <1>8, <1>9, <1>10, <1>11, <1>12, <1>13, <1>14, <1>15, <1>16, <1>17
  DEF MachineNext, JobStep, EnvAction

\* A database as the update found it has the schema it had, or the one the
\* version it came from gives it.
LEMMA AsFoundSchema ==
    ASSUME StateInv, AsFound(Seen)
    PROVE  SchemaAsBefore
<1>1. /\ Seen.schema \in Nat /\ job.before.schema \in Nat /\ job.from \in Nat
      /\ job.before \in DataType
  BY DEF StateInv, Seen, JobType, DataType
<1>2. /\ MigratedTo(job.before, job.from).schema \in Nat
      /\ job.before.schema <= MigratedTo(job.before, job.from).schema
      /\ job.from <= MigratedTo(job.before, job.from).schema
  BY <1>1, DataFacts DEF DataType
<1>. QED  BY <1>1, <1>2 DEF AsFound, SchemaAsBefore

\* One as a rollback leaves it, or the one the version at BinaryPath gives it.
LEMMA AsLeftSchema ==
    ASSUME StateInv, AsLeft(Seen)
    PROVE  SchemaOfTheBinary
<1>. DEFINE once == MigratedTo(job.before, job.from)
            twice == MigratedTo(once, binary)
<1>1. /\ Seen.schema \in Nat /\ job.before.schema \in Nat /\ {job.from, binary} \subseteq Nat
      /\ job.before \in DataType
  BY DEF StateInv, Seen, JobType, DataType
<1>2. /\ once \in DataType /\ job.before.schema <= once.schema /\ job.from <= once.schema
  BY <1>1, DataFacts
<1>3. /\ twice \in DataType /\ once.schema <= twice.schema /\ binary <= twice.schema
  BY <1>1, <1>2, DataFacts
<1>4. once.schema \in Nat /\ twice.schema \in Nat
  BY <1>2, <1>3 DEF DataType
<1>5. PICK v \in {job.before.schema, job.from, binary} : Seen.schema <= v
  BY DEF AsLeft
<1>6. job.before.schema <= Seen.schema /\ Seen.schema <= twice.schema
  BY <1>1, <1>2, <1>3, <1>4, <1>5 DEF AsLeft
<1>. QED  BY <1>1, <1>4, <1>6 DEF SchemaOfTheBinary

\* What a rollback that is about to report relies on.
LEMMA RolledBackFacts ==
    ASSUME UpdateInv, job.pc = "rb-health"
    PROVE  /\ "binary" \notin job.byHand => binary = job.from
           /\ "binary" \notin job.byHand /\ "stop" \notin job.errs =>
                 running \in {0, job.from} /\ held = NoFile
           /\ job.byHand = {} => SchemaAsBefore /\ job.before.rows \subseteq Seen.rows
           /\ "db" \notin job.byHand => SchemaOfTheBinary
           /\ job.byHand \subseteq {"binary", "db"}
<1>1. job.cmd = "update" /\ job.byHand \subseteq {"binary", "db"} /\ StateInv
  BY RollbackFacts DEF Undone, Restoring, UpdateInv, JobType
<1>2. "db" \notin job.byHand => AsLeft(Seen)
  BY <1>1 DEF UpdateInv, DatabaseInv
<1>3. "binary" \notin job.byHand => binary = job.from
  BY <1>1 DEF UpdateInv, ServiceInv, Undone
<1>4. job.byHand = {} => AsFound(Seen)
  BY <1>2, <1>3 DEF AsFound, AsLeft
<1>5. job.byHand = {} => SchemaAsBefore /\ job.before.rows \subseteq Seen.rows
  BY <1>1, <1>4, AsFoundSchema DEF AsFound
<1>6. "db" \notin job.byHand => SchemaOfTheBinary
  BY <1>1, <1>2, AsLeftSchema
<1>. QED  BY <1>1, <1>3, <1>5, <1>6 DEF UpdateInv, ServiceInv, Undone

\* What a command reports is what is there: an update that says the new version is
\* installed leaves it running on a migrated database, one that says it rolled
\* back leaves the old version running on the database it found, and a restore
\* with the service stopped leaves the snapshot.
THEOREM ReportsAreTrue == StopsFirst /\ MachineSpec => ReportIsTrue
<1>. DEFINE Told ==
        /\ Reports("installed") =>
              running = job.to /\ binary = job.to /\ Seen.schema >= job.to
        /\ Reports("rolled-back") =>
              /\ running = job.from /\ binary = job.from /\ held = NoFile
              /\ SchemaAsBefore /\ job.before.rows \subseteq Seen.rows
        /\ Reports("restored") => Seen' = job.before /\ running = 0
<1>1. ASSUME StopsFirst, UpdateInv, [MachineNext]_machineVars PROVE Told
  <2>1. ASSUME Reports("installed")
        PROVE  running = job.to /\ binary = job.to /\ Seen.schema >= job.to
    <3>1. job.pc = "health" /\ running # 0
      BY <1>1, <2>1, HowItEnds DEF Reports
    <3>2. job.cmd = "update"
      BY <1>1, <3>1, UpdateFacts DEF Swapped
    <3>. QED  BY <1>1, <3>1, <3>2 DEF UpdateInv, ServiceInv, DatabaseInv
  <2>2. ASSUME Reports("rolled-back")
        PROVE  /\ running = job.from /\ binary = job.from /\ held = NoFile
               /\ SchemaAsBefore /\ job.before.rows \subseteq Seen.rows
    <3>1. job.pc = "rb-health" /\ running # 0 /\ job.errs = {} /\ job.byHand = {}
      BY <1>1, <2>2, HowItEnds DEF Reports
    <3>. QED  BY <1>1, <3>1, RolledBackFacts
  <2>3. ASSUME Reports("restored") PROVE Seen' = job.before /\ running = 0
    <3>1. /\ job.pc = "clean" /\ job.cmd = "restore" /\ wal' = NoFile /\ file' = file
      BY <1>1, <2>3, HowItEnds DEF Reports
    <3>2. file = job.before /\ unit = "off"
      BY <1>1, <3>1 DEF UpdateInv, ServiceInv, DatabaseInv
    <3>3. running = 0
      BY <1>1, <3>2 DEF UpdateInv, StateInv
    <3>. QED  BY <3>1, <3>2, <3>3 DEF Seen
  <2>. QED  BY <2>1, <2>2, <2>3
<1>2. StopsFirst /\ UpdateInv /\ [MachineNext]_machineVars => [Told]_machineVars
  BY <1>1
<1>3. CASE StopsFirst
  BY <1>2, <1>3, UpdateInit, UpdateStep, PTL DEF MachineSpec, ReportIsTrue
<1>4. CASE ~StopsFirst
  BY <1>4
<1>. QED  BY <1>3, <1>4

\* A rollback that failed tells the operator of a binary that is not the old one,
\* of a service that is down or of another version, and of a database that is not
\* as it was, but for one that the binary it names, not moved back, has migrated
\* again after the snapshot was back.
THEOREM NothingGoesUntold == MachineSpec => NothingUntold
<1>. DEFINE Told ==
        Reports("failed") =>
          /\ binary # job.from => "binary" \in report'.byHand
          /\ ~SchemaOfTheBinary => "db" \in report'.byHand
          /\ running = 0 => "service" \in report'.byHand
          /\ running # job.from => report'.byHand # {} \/ "stop" \in report'.errs
<1>1. ASSUME UpdateInv, [MachineNext]_machineVars PROVE Told
  <2>1. SUFFICES ASSUME Reports("failed")
        PROVE  /\ binary # job.from => "binary" \in report'.byHand
               /\ ~SchemaOfTheBinary => "db" \in report'.byHand
               /\ running = 0 => "service" \in report'.byHand
               /\ running # job.from => report'.byHand # {} \/ "stop" \in report'.errs
    OBVIOUS
  <2>2. /\ job.pc = "rb-health" /\ report'.errs = job.errs
        /\ \/ running # 0 /\ report'.byHand = job.byHand
           \/ report'.byHand = job.byHand \cup {"service"}
    BY <1>1, <2>1, HowItEnds DEF Reports
  <2>. QED  BY <1>1, <2>2, RolledBackFacts
<1>2. UpdateInv /\ [MachineNext]_machineVars => [Told]_machineVars
  BY <1>1
<1>. QED
  BY <1>2, UpdateInit, UpdateStep, PTL DEF MachineSpec, NothingUntold

\* A step that keeps what was moved aside, and what the file held somewhere.
Carries ==
    /\ aside \subseteq aside'
    /\ \E d \in {file', wal', held'} \cup aside' : file.rows \subseteq d.rows

\* With no log left behind and no service on a database of its own, every step
\* carries what the file holds: a copy only overwrites what has no rows.
LEMMA EveryStepCarries ==
    ASSUME UpdateInv, [MachineNext]_machineVars, wal = NoFile, held = NoFile
    PROVE  Carries
<1>0. /\ StateInv /\ DatabaseInv /\ Seen = file
      /\ {file, wal, Opened, Fresh} \subseteq DataType
      /\ file.rows \subseteq Opened.rows /\ job \in JobType /\ binary \in Nat
      /\ file = NoFile => file.rows = {}
  BY DataFacts DEF UpdateInv, StateInv, Opened, Seen
<1>1. ASSUME aside \subseteq aside', file' = file \/ file' = Opened PROVE Carries
  BY <1>0, <1>1 DEF Carries
<1>2. ASSUME aside' = aside, NEW v \in Nat,
             (file' = MigratedTo(Opened, v)) \/ OpenAndDie(v)
      PROVE  Carries
  <2>1. file.rows \subseteq MigratedTo(Opened, v).rows
    BY <1>0, DataFacts
  <2>. QED  BY <1>2, <2>1 DEF Carries, OpenAndDie
<1>3. CASE EnvAction
  <2>1. CASE ServiceComesUp
    BY <1>0, <1>2, <2>1 DEF ServiceComesUp
  <2>2. CASE ServiceFailsToStart
    <3>1. PICK v \in 0 .. binary : (file' = MigratedTo(Opened, v)) \/ OpenAndDie(v)
      BY <2>2 DEF ServiceFailsToStart
    <3>2. v \in Nat /\ aside' = aside
      BY <1>0, <2>2 DEF ServiceFailsToStart
    <3>. QED  BY <1>2, <3>1, <3>2
  <2>3. CASE ServiceCrashes \/ UserWrites \/ Backup
    BY <1>1, <2>3 DEF ServiceCrashes, UserWrites, Backup, TakeSnapshot, OpenAndClose, fileVars
  <2>. QED  BY <1>3, <2>1, <2>2, <2>3 DEF EnvAction
<1>4. ASSUME StopErrs PROVE Carries
  <2>1. CASE Stops
    BY <1>0, <1>1, <2>1, StopFacts
  <2>2. CASE UNCHANGED <<serviceVars, file, wal, aside>>
    BY <1>1, <2>2
  <2>. QED  BY <1>4, <2>1, <2>2 DEF StopErrs
<1>5. CASE OperatorStops \/ StopForUpdate \/ RollbackStop
  BY <1>4, <1>5 DEF OperatorStops, StopForUpdate, RollbackStop, StopErrs
<1>6. CASE BackupSnapshot \/ BeginRestore
  BY <1>1, <1>6 DEF BackupSnapshot, BeginRestore, TakeSnapshot, OpenAndClose
<1>7. CASE \/ BeginUpdate \/ RestartUntouched \/ Park \/ WriteNew \/ StartNew \/ AwaitHealth
           \/ RestoreBinary \/ RestoreDatabase \/ RollbackStart \/ RollbackHealth
           \/ VerifySnapshot \/ RemoveStaleLog \/ OperatorStarts \/ UNCHANGED machineVars
  BY <1>1, <1>7
  DEF BeginUpdate, RestartUntouched, Park, WriteNew, StartNew, AwaitHealth, RestoreBinary,
      RestoreDatabase, RollbackStart, RollbackHealth, VerifySnapshot, RemoveStaleLog,
      OperatorStarts, machineVars, fileVars
<1>8. CASE RunMigrate
  <2>1. aside' = aside /\ job.to \in Nat
    BY <1>0, <1>8 DEF RunMigrate, JobType
  <2>2. \/ file' = file
        \/ \E v \in 0 .. job.to : (file' = MigratedTo(Opened, v)) \/ OpenAndDie(v)
    BY <1>8, <2>1 DEF RunMigrate
  <2>3. CASE \E v \in 0 .. job.to : (file' = MigratedTo(Opened, v)) \/ OpenAndDie(v)
    <3>1. PICK v \in 0 .. job.to : (file' = MigratedTo(Opened, v)) \/ OpenAndDie(v)
      BY <2>3
    <3>2. v \in Nat
      BY <2>1
    <3>. QED  BY <1>2, <2>1, <3>1, <3>2
  <2>. QED  BY <1>1, <2>1, <2>2, <2>3
<1>9. CASE MoveAside
  BY <1>0, <1>9 DEF MoveAside, Carries
<1>10. CASE CopySnapshot
  BY <1>0, <1>10 DEF CopySnapshot, DatabaseInv, Carries
<1>11. CASE CommandKilled \/ MachineCrash
  BY <1>0, <1>11 DEF CommandKilled, MachineCrash, HalfCopied, DatabaseInv, Carries
<1>. QED
  BY <1>3, <1>5, <1>6, <1>7, <1>8, <1>9, <1>10, <1>11 DEF MachineNext, JobStep, EnvAction

\* A write users were told is saved does not lose its last copy to a command:
\* Restore moves the database aside before it copies the snapshot, and a copy
\* that stops halfway overwrites only what has nothing in it.
THEOREM LastCopyStays == MachineSpec => LastCopyIsKept
<1>. DEFINE Kept == wal = NoFile /\ held = NoFile => \A w \in acked : Survives(w) => Survives(w)'
<1>1. ASSUME UpdateInv, [MachineNext]_machineVars PROVE Kept
  <2>1. SUFFICES ASSUME wal = NoFile, held = NoFile, NEW w \in acked, Survives(w)
                 PROVE  Survives(w)'
    OBVIOUS
  <2>2. w \in file.rows \/ \E d \in aside : w \in d.rows
    BY <2>1, DataFacts DEF Survives
  <2>3. Carries
    BY <1>1, <2>1, EveryStepCarries
  <2>4. \E d \in {file', wal', held'} \cup aside' : w \in d.rows
    BY <2>2, <2>3 DEF Carries
  <2>. QED  BY <2>4 DEF Survives
<1>2. UpdateInv /\ [MachineNext]_machineVars => [Kept]_machineVars
  BY <1>1
<1>. QED
  BY <1>2, UpdateInit, UpdateStep, PTL DEF MachineSpec, LastCopyIsKept

-----------------------------------------------------------------------------
(***************************************************************************)
(* Accounts.                                                               *)
(***************************************************************************)
USE AccountsAssumption

-----------------------------------------------------------------------------
\* A request that starts carries a well-formed job and touches no table.
LEMMA StartType ==
    ASSUME TypeOK, NEW r \in Requests, NEW request, IsJob(request),
           Start(r, request)
    PROVE  TypeOK'
BY DEF Start, TypeOK, tables, IsJob, Idle

\* A transaction that leaves the tables in their types and only ends its own
\* request keeps the whole state in its type.
LEMMA FinishType ==
    ASSUME TypeOK, NEW r \in Requests, Finish(r)
    PROVE  /\ DOMAIN jobs' = Requests
           /\ \A q \in Requests : IsJob(jobs'[q])
BY DEF Finish, TypeOK, IsJob, Idle

\* The checks that open a user's request read rows that are there.
LEMMA UserCheckType ==
    ASSUME TypeOK, NEW r \in Requests, UserCheck(r)
    PROVE  TypeOK'
<1>1. CASE \E i \in Invites : CheckEnroll(r, i)
  BY <1>1, StartType DEF CheckEnroll, IsJob
<1>2. ASSUME NEW u \in Users, CheckLogin(r, u) PROVE TypeOK'
  BY <1>2, StartType DEF CheckLogin, IsJob, TypeOK, UserRow
<1>3. ASSUME NEW u \in Users, CheckRecover(r, u) PROVE TypeOK'
  BY <1>3, StartType DEF CheckRecover, IsJob, TypeOK, UserRow
<1>4. ASSUME NEW t \in RecoveryTokens, CheckComplete(r, t) PROVE TypeOK'
  BY <1>4, StartType DEF CheckComplete, IsJob
<1>5. ASSUME NEW s \in Sessions, CheckRefresh(r, s) PROVE TypeOK'
  <2>1. sessions[s].user \in Users /\ sessions[s].pair \in Nat
    BY <1>5 DEF CheckRefresh, TypeOK, SessionRow
  <2> QED BY <1>5, <2>1, StartType DEF CheckRefresh, IsJob
<1>6. ASSUME NEW s \in Sessions, NEW other \in Sessions, CheckRevoke(r, s, other)
      PROVE TypeOK'
  BY <1>6, StartType DEF CheckRevoke, IsJob
<1>7. ASSUME NEW s \in Sessions, NEW op \in {"password", "recovery"},
             CheckRotate(r, s, op)
      PROVE TypeOK'
  <2>1. sessions[s].user \in Users /\ sessions[s].key \in Nat
    BY <1>7 DEF CheckRotate, Authenticated, TypeOK, SessionRow
  <2> QED BY <1>7, <2>1, StartType DEF CheckRotate, IsJob
<1> QED BY <1>1, <1>2, <1>3, <1>4, <1>5, <1>6, <1>7 DEF UserCheck

\* So do the checks that open an administrator's.
LEMMA AdminCheckType ==
    ASSUME TypeOK, NEW r \in Requests, AdminCheck(r)
    PROVE  TypeOK'
<1>0. PICK u \in Users :
        \/ RunAdminCreate(r, u)
        \/ \E s \in Sessions :
              \/ \E role \in {"admin", "user"} : CheckCreate(r, s, u, role)
              \/ CheckReissue(r, s, u)
              \/ \E status \in {"active", "disabled"} :
                    CheckAdmin(r, s, [op |-> "status", user |-> u, status |-> status])
              \/ \E op \in {"reset", "delete"} :
                    CheckAdmin(r, s, [op |-> op, user |-> u])
  BY DEF AdminCheck
<1>1. CASE RunAdminCreate(r, u)
  BY <1>1, StartType DEF RunAdminCreate, IsJob
<1>2. ASSUME NEW s \in Sessions, NEW role \in {"admin", "user"},
             CheckCreate(r, s, u, role)
      PROVE TypeOK'
  BY <1>2, StartType DEF CheckCreate, IsJob
<1>3. ASSUME NEW s \in Sessions, CheckReissue(r, s, u) PROVE TypeOK'
  BY <1>3, StartType DEF CheckReissue, IsJob
<1>4. ASSUME NEW s \in Sessions, NEW status \in {"active", "disabled"},
             CheckAdmin(r, s, [op |-> "status", user |-> u, status |-> status])
      PROVE TypeOK'
  BY <1>4, StartType DEF CheckAdmin, IsJob
<1>5. ASSUME NEW s \in Sessions, NEW op \in {"reset", "delete"},
             CheckAdmin(r, s, [op |-> op, user |-> u])
      PROVE TypeOK'
  BY <1>5, StartType DEF CheckAdmin, IsJob
<1> QED BY <1>0, <1>1, <1>2, <1>3, <1>4, <1>5

\* Revoking sessions changes no row's shape and no row's user.
LEMMA RevokedType ==
    ASSUME TypeOK, NEW u, NEW keep
    PROVE  /\ RevokedExcept(u, keep) \in [Sessions -> SessionRow]
           /\ \A s \in Sessions :
                 RevokedExcept(u, keep)[s].st \notin {"none", "gone"}
                 => RevokedExcept(u, keep)[s].user \in Users
BY DEF RevokedExcept, TypeOK, SessionRow

\* The transactions keep the tables in their types.
LEMMA CommitType ==
    ASSUME TypeOK, NEW r \in Requests, Commit(r)
    PROVE  TypeOK'
<1> USE DEF NewSecret
<1>1. CASE CreatePendingUser(r)
  BY <1>1 DEF CreatePendingUser, TypeOK, UserRow, Blank, IsJob, Idle
<1>2. ASSUME NEW i \in Invites, CreateInvite(r, i) PROVE TypeOK'
  BY <1>2, FinishType DEF CreateInvite, TypeOK, TokenRow, IsJob, Idle
<1>3. ASSUME NEW i \in Invites, ResetUser(r, i) PROVE TypeOK'
  <2>1. jobs[r].user \in Users
    BY <1>3 DEF ResetUser, TypeOK, IsJob, Idle
  <2> QED BY <1>3, <2>1, FinishType, RevokedType
          DEF ResetUser, TypeOK, TokenRow, UserRow, Blank
<1>4. CASE CompleteEnrollment(r)
  <2>1. jobs[r].invite \in Invites
    BY <1>4 DEF CompleteEnrollment, TypeOK, IsJob, Idle
  <2> QED BY <1>4, <2>1, FinishType
          DEF CompleteEnrollment, Enrol, TypeOK, TokenRow, UserRow
<1>5. ASSUME NEW s \in Sessions, CreateSession(r, s) PROVE TypeOK'
  <2>1. jobs[r].user \in Users /\ jobs[r].password \in Nat /\ jobs[r].key \in Nat
    BY <1>5 DEF CreateSession, TypeOK, IsJob, Idle
  <2> QED BY <1>5, <2>1, FinishType DEF CreateSession, TypeOK, SessionRow
<1>6. CASE RotateSession(r)
  <2>1. jobs[r].session \in Sessions /\ jobs[r].user \in Users
    BY <1>6 DEF RotateSession, TypeOK, IsJob, Idle
  <2>2. sessions[jobs[r].session].pair + 1 \in Nat
    BY <2>1 DEF TypeOK, SessionRow
  <2>3. DOMAIN jobs' = Requests /\ \A q \in Requests : IsJob(jobs'[q])
    BY <1>6, <2>1, <2>2 DEF RotateSession, SwapPair, TypeOK, IsJob, Idle
  <2> QED BY <1>6, <2>1, <2>2, <2>3 DEF RotateSession, SwapPair, TypeOK, SessionRow
<1>7. CASE AnswerRefresh(r)
  <2>1. jobs[r].session \in Sessions /\ jobs[r].pair \in Nat
    BY <1>7 DEF AnswerRefresh, TypeOK, IsJob, Idle
  <2> QED BY <1>7, <2>1, FinishType DEF AnswerRefresh, TypeOK, SessionRow
<1>8. CASE RevokeSession(r)
  <2>1. jobs[r].session \in Sessions
    BY <1>8 DEF RevokeSession, TypeOK, IsJob, Idle
  <2> QED BY <1>8, <2>1, FinishType DEF RevokeSession, TypeOK, SessionRow
<1>9. CASE RotatePassword(r)
  <2>1. jobs[r].session \in Sessions /\ jobs[r].user \in Users /\ jobs[r].key \in Nat
    BY <1>9 DEF RotatePassword, TypeOK, IsJob, Idle
  <2>2. secrets' \in Nat
    BY <1>9 DEF RotatePassword, TypeOK
  <2>3. users' \in [Users -> UserRow]
    BY <1>9, <2>1, <2>2 DEF RotatePassword, WritePassword, TypeOK, UserRow
  <2>4. /\ sessions' \in [Sessions -> SessionRow]
        /\ \A s \in Sessions : sessions'[s].st \notin {"none", "gone"}
                               => sessions'[s].user \in Users
    <3> DEFINE R == RevokedExcept(jobs[r].user, jobs[r].session)
    <3>1. /\ R \in [Sessions -> SessionRow]
          /\ \A s \in Sessions : R[s].st \notin {"none", "gone"} => R[s].user \in Users
      BY RevokedType
    <3>2. sessions' = [R EXCEPT ![jobs[r].session].password = secrets']
      BY <1>9 DEF RotatePassword
    <3> HIDE DEF R
    <3> QED BY <3>1, <3>2, <2>1, <2>2 DEF SessionRow
  <2> QED BY <1>9, <2>2, <2>3, <2>4, FinishType DEF RotatePassword, TypeOK
<1>10. CASE RotateRecovery(r)
  <2>1. jobs[r].user \in Users /\ jobs[r].key \in Nat
    BY <1>10 DEF RotateRecovery, TypeOK, IsJob, Idle
  <2> QED BY <1>10, <2>1, FinishType DEF RotateRecovery, TypeOK, UserRow
<1>11. ASSUME NEW t \in RecoveryTokens, CreateRecoveryToken(r, t) PROVE TypeOK'
  <2>1. jobs[r].user \in Users /\ jobs[r].key \in Nat
    BY <1>11 DEF CreateRecoveryToken, TypeOK, IsJob, Idle
  <2> QED BY <1>11, <2>1, FinishType DEF CreateRecoveryToken, TypeOK, RecoveryRow
<1>12. CASE CompleteRecovery(r)
  <2>1. jobs[r].token \in RecoveryTokens
    BY <1>12 DEF CompleteRecovery, TypeOK, IsJob, Idle
  <2>2. /\ users' \in [Users -> UserRow]
        /\ secrets' \in Nat
    BY <1>12, <2>1 DEF CompleteRecovery, Recovered, TypeOK, UserRow, RecoveryRow
  <2>3. /\ recoveryTokens' \in [RecoveryTokens -> RecoveryRow]
        /\ \A t \in RecoveryTokens : recoveryTokens'[t].st \notin {"none", "gone"}
                                     => recoveryTokens'[t].user \in Users
    BY <1>12 DEF CompleteRecovery, Recovered, TypeOK, RecoveryRow
  <2> QED BY <1>12, <2>2, <2>3, FinishType, RevokedType
          DEF CompleteRecovery, Recovered, TypeOK
<1>13. CASE SetUserStatus(r)
  <2>1. jobs[r].user \in Users /\ jobs[r].status \in {"active", "disabled"}
    BY <1>13 DEF SetUserStatus, TypeOK, IsJob, Idle
  <2> QED BY <1>13, <2>1, FinishType, RevokedType
          DEF SetUserStatus, WriteStatus, TypeOK, UserRow
<1>14. CASE DeleteUser(r)
  <2>1. jobs[r].user \in Users
    BY <1>14 DEF DeleteUser, TypeOK, IsJob, Idle
  <2>2. users' \in [Users -> UserRow]
    BY <1>14, <2>1 DEF DeleteUser, TypeOK, UserRow, Blank
  <2>3. /\ invites' \in [Invites -> TokenRow]
        /\ \A i \in Invites : invites'[i].st \notin {"none", "gone"}
                              => invites'[i].user \in Users
    BY <1>14 DEF DeleteUser, TypeOK, TokenRow, NoToken
  <2>4. /\ sessions' \in [Sessions -> SessionRow]
        /\ \A s \in Sessions : sessions'[s].st \notin {"none", "gone"}
                               => sessions'[s].user \in Users
    BY <1>14 DEF DeleteUser, TypeOK, SessionRow, NoSession
  <2>5. /\ recoveryTokens' \in [RecoveryTokens -> RecoveryRow]
        /\ \A t \in RecoveryTokens : recoveryTokens'[t].st \notin {"none", "gone"}
                                     => recoveryTokens'[t].user \in Users
    BY <1>14 DEF DeleteUser, TypeOK, RecoveryRow, NoRecovery
  <2> QED BY <1>14, <2>2, <2>3, <2>4, <2>5, FinishType DEF DeleteUser, TypeOK
<1> QED BY <1>1, <1>2, <1>3, <1>4, <1>5, <1>6, <1>7, <1>8, <1>9, <1>10, <1>11,
           <1>12, <1>13, <1>14 DEF Commit

\* Time moves a status and nothing else.
LEMMA ExpireType ==
    ASSUME TypeOK, Expire
    PROVE  TypeOK'
<1>1. UNCHANGED <<users, secrets, jobs>>
  BY DEF Expire
<1>2. \A r \in Requests : IsJob(jobs[r])'
  BY <1>1 DEF TypeOK, IsJob
<1>3. /\ invites' \in [Invites -> TokenRow]
      /\ \A i \in Invites : invites'[i].st \notin {"none", "gone"}
                            => invites'[i].user \in Users
  BY DEF Expire, TypeOK, TokenRow
<1>4. /\ sessions' \in [Sessions -> SessionRow]
      /\ \A s \in Sessions : sessions'[s].st \notin {"none", "gone"}
                             => sessions'[s].user \in Users
  BY DEF Expire, TypeOK, SessionRow
<1>5. /\ recoveryTokens' \in [RecoveryTokens -> RecoveryRow]
      /\ \A t \in RecoveryTokens : recoveryTokens'[t].st \notin {"none", "gone"}
                                   => recoveryTokens'[t].user \in Users
  BY DEF Expire, TypeOK, RecoveryRow
<1> QED BY <1>1, <1>2, <1>3, <1>4, <1>5 DEF TypeOK

\* Every step keeps the type invariant.
LEMMA AccountsTypeStep == TypeOK /\ [Next]_vars => TypeOK'
<1> SUFFICES ASSUME TypeOK, [Next]_vars PROVE TypeOK'
  OBVIOUS
<1>1. ASSUME NEW r \in Requests, DropJob(r) PROVE TypeOK'
  BY <1>1, FinishType DEF DropJob, tables, TypeOK
<1>2. CASE UNCHANGED vars
  BY <1>2 DEF vars, tables, TypeOK, IsJob
<1> QED BY <1>1, <1>2, UserCheckType, AdminCheckType, CommitType, ExpireType
        DEF Next

\* Rows keep the shape of their tables, and no transaction finds a request
\* without what it reads.
THEOREM AccountsTypeCorrect == Spec => []TypeOK
<1>1. Init => TypeOK
  BY DEF Init, TypeOK, UserRow, TokenRow, SessionRow, RecoveryRow, Blank,
         NoToken, NoSession, NoRecovery, IsJob, Idle
<1> QED BY <1>1, AccountsTypeStep, PTL DEF Spec

-----------------------------------------------------------------------------
(***************************************************************************)
(* The steps that write the users table, and what each may do to a row.    *)
(* Everything else about accounts follows from this list.                  *)
(***************************************************************************)

\* u enrols: it was pending, and gets a key pair.
Enrolled(u) ==
    /\ users[u].st = "pending"
    /\ users'[u].st = "active"
    /\ users'[u].role = users[u].role

\* u, in use before and after, gets new credentials around its key pair.
Rewrapped(u) ==
    /\ users[u].st = "active"
    /\ users'[u].st = "active"
    /\ users'[u].role = users[u].role
    /\ users'[u].privateKey = users[u].privateKey

\* u is made active or disabled and is otherwise unchanged.
StatusSet(u) ==
    \E status \in {"active", "disabled"} :
        /\ Exists(u)
        /\ users'[u] = [users[u] EXCEPT !.st = status]
        /\ status = "disabled" /\ users[u].role = "admin" => OtherActiveAdmin(u)

\* u is created, reset or deleted.
Wiped(u) ==
    /\ \E st \in {"pending", "gone"}, role \in {"admin", "user"} :
          users'[u] = Blank(st, role)
    /\ \/ users[u].st = "none"
       \/ users[u].role = "admin" => OtherActiveAdmin(u)
       \/ \E r \in Requests, i \in Invites : ResetUser(r, i)

WrittenRow(u) == Enrolled(u) \/ Rewrapped(u) \/ StatusSet(u) \/ Wiped(u)

\* A step of the system writes at most one users row, in one of those ways.
LEMMA UsersStep ==
    ASSUME TypeOK, [Next]_vars
    PROVE  \/ UNCHANGED users
           \/ \E u \in Users :
                 /\ WrittenRow(u)
                 /\ \A v \in Users \ {u} : users'[v] = users[v]
<1> DEFINE Goal == \/ UNCHANGED users
                   \/ \E u \in Users :
                         /\ WrittenRow(u)
                         /\ \A v \in Users \ {u} : users'[v] = users[v]
<1> SUFFICES Goal
  OBVIOUS
<1>1. ASSUME NEW r \in Requests, UserCheck(r) PROVE Goal
  BY <1>1 DEF UserCheck, CheckEnroll, CheckLogin, CheckRecover, CheckComplete,
              CheckRefresh, CheckRevoke, CheckRotate, Start, tables
<1>2. ASSUME NEW r \in Requests, AdminCheck(r) PROVE Goal
  BY <1>2 DEF AdminCheck, RunAdminCreate, CheckCreate, CheckReissue, CheckAdmin,
              Start, tables
<1>3. ASSUME NEW r \in Requests, DropJob(r) PROVE Goal
  BY <1>3 DEF DropJob, tables
<1>4. CASE Expire
  BY <1>4 DEF Expire
<1>5. ASSUME NEW r \in Requests, Commit(r) PROVE Goal
  <2>1. CASE CreatePendingUser(r)
    <3>1. jobs[r].user \in Users /\ jobs[r].role \in {"admin", "user"}
      BY <2>1 DEF CreatePendingUser, TypeOK, IsJob, Idle
    <3>2. Wiped(jobs[r].user)
      BY <2>1, <3>1 DEF CreatePendingUser, Wiped, TypeOK
    <3> QED BY <2>1, <3>1, <3>2 DEF CreatePendingUser, WrittenRow, TypeOK
  <2>2. ASSUME NEW i \in Invites, ResetUser(r, i) PROVE Goal
    <3>1. jobs[r].user \in Users
      BY <2>2 DEF ResetUser, TypeOK, IsJob, Idle
    <3>2. /\ users[jobs[r].user].role \in {"admin", "user"}
          /\ users'[jobs[r].user] = Blank("pending", users[jobs[r].user].role)
      BY <2>2, <3>1 DEF ResetUser, TypeOK, UserRow
    <3>3. Wiped(jobs[r].user)
      BY <2>2, <3>2 DEF Wiped
    <3> QED BY <2>2, <3>1, <3>3 DEF ResetUser, WrittenRow, TypeOK
  <2>3. CASE CompleteEnrollment(r)
    <3>1. jobs[r].invite \in Invites
      BY <2>3 DEF CompleteEnrollment, TypeOK, IsJob, Idle
    <3>2. invites[jobs[r].invite].user \in Users
      BY <2>3, <3>1 DEF CompleteEnrollment, TypeOK
    <3>3. Enrolled(invites[jobs[r].invite].user)
      BY <2>3, <3>2 DEF CompleteEnrollment, Enrol, Enrolled, TypeOK, UserRow
    <3> QED BY <2>3, <3>2, <3>3 DEF CompleteEnrollment, Enrol, WrittenRow, TypeOK
  <2>4. CASE RotatePassword(r)
    <3>1. jobs[r].user \in Users
      BY <2>4 DEF RotatePassword, TypeOK, IsJob, Idle
    <3>2. Rewrapped(jobs[r].user)
      BY <2>4, <3>1 DEF RotatePassword, WritePassword, Rewrapped, TypeOK, UserRow
    <3> QED BY <2>4, <3>1, <3>2 DEF RotatePassword, WritePassword, WrittenRow, TypeOK
  <2>5. CASE RotateRecovery(r)
    <3>1. jobs[r].user \in Users
      BY <2>5 DEF RotateRecovery, TypeOK, IsJob, Idle
    <3>2. Rewrapped(jobs[r].user)
      BY <2>5, <3>1 DEF RotateRecovery, Rewrapped, TypeOK, UserRow
    <3> QED BY <2>5, <3>1, <3>2 DEF RotateRecovery, WrittenRow, TypeOK
  <2>6. CASE CompleteRecovery(r)
    <3>1. jobs[r].token \in RecoveryTokens
      BY <2>6 DEF CompleteRecovery, TypeOK, IsJob, Idle
    <3>2. recoveryTokens[jobs[r].token].user \in Users
      BY <2>6, <3>1 DEF CompleteRecovery, TypeOK
    <3>3. Rewrapped(recoveryTokens[jobs[r].token].user)
      BY <2>6, <3>2 DEF CompleteRecovery, Recovered, Rewrapped, TypeOK, UserRow
    <3> QED BY <2>6, <3>2, <3>3 DEF CompleteRecovery, Recovered, WrittenRow, TypeOK
  <2>7. CASE SetUserStatus(r)
    <3>1. jobs[r].user \in Users /\ jobs[r].status \in {"active", "disabled"}
      BY <2>7 DEF SetUserStatus, TypeOK, IsJob, Idle
    <3>2. StatusSet(jobs[r].user)
      BY <2>7, <3>1 DEF SetUserStatus, WriteStatus, StatusSet, TypeOK
    <3> QED BY <2>7, <3>1, <3>2 DEF SetUserStatus, WriteStatus, WrittenRow, TypeOK
  <2>8. CASE DeleteUser(r)
    <3>1. jobs[r].user \in Users
      BY <2>8 DEF DeleteUser, TypeOK, IsJob, Idle
    <3>2. /\ users[jobs[r].user].role \in {"admin", "user"}
          /\ users'[jobs[r].user] = Blank("gone", users[jobs[r].user].role)
      BY <2>8, <3>1 DEF DeleteUser, TypeOK, UserRow
    <3>3. Wiped(jobs[r].user)
      BY <2>8, <3>2 DEF DeleteUser, Wiped
    <3> QED BY <2>8, <3>1, <3>3 DEF DeleteUser, WrittenRow, TypeOK
  <2> QED BY <1>5, <2>1, <2>2, <2>3, <2>4, <2>5, <2>6, <2>7, <2>8
          DEF Commit, CreateInvite, CreateSession, RotateSession, SwapPair,
              AnswerRefresh, RevokeSession, CreateRecoveryToken
<1>6. CASE UNCHANGED vars
  BY <1>6 DEF vars, tables
<1> QED BY <1>1, <1>2, <1>3, <1>4, <1>5, <1>6 DEF Next

-----------------------------------------------------------------------------
BlankInv == TypeOK /\ PendingIsBlank

\* The inductive step, with the type invariant for the rows' shapes.
LEMMA BlankStep == BlankInv /\ [Next]_vars => PendingIsBlank'
<1> SUFFICES ASSUME TypeOK, PendingIsBlank, [Next]_vars, NEW u \in Users,
                    users'[u].st \notin {"active", "disabled"}
             PROVE  users'[u] = Blank(users'[u].st, users'[u].role)
  BY DEF BlankInv, PendingIsBlank
<1>1. CASE users'[u] = users[u]
  BY <1>1 DEF PendingIsBlank
<1>2. CASE WrittenRow(u)
  <2>1. CASE Wiped(u)
    BY <2>1 DEF Wiped, Blank
  <2>2. ~ StatusSet(u)
    BY DEF StatusSet, TypeOK, UserRow
  <2> QED BY <1>2, <2>1, <2>2 DEF WrittenRow, Enrolled, Rewrapped
<1> QED BY <1>1, <1>2, UsersStep

\* An account that is not set up holds no key material (PendingIsBlank), for
\* any number of requests racing its creation, reset and deletion.
THEOREM PendingStaysBlank == Spec => []PendingIsBlank
<1>1. Init => PendingIsBlank
  BY DEF Init, PendingIsBlank, Blank
<1> QED BY <1>1, BlankStep, AccountsTypeCorrect, PTL DEF Spec, BlankInv

\* An enrolment finds no key pair in the row it writes, and nothing else but a
\* wipe changes one (KeyPairNeverReplaced).
THEOREM KeyPairsStand == Spec => KeyPairNeverReplaced
<1>1. BlankInv /\ [Next]_vars
      => \A u \in Users :
            users'[u].privateKey # users[u].privateKey
            => users[u].privateKey = 0 \/ users'[u].privateKey = 0
  <2> SUFFICES ASSUME TypeOK, PendingIsBlank, [Next]_vars, NEW u \in Users,
                      users'[u].privateKey # users[u].privateKey
               PROVE  users[u].privateKey = 0 \/ users'[u].privateKey = 0
    BY DEF BlankInv
  <2>1. WrittenRow(u)
    BY UsersStep
  <2>2. CASE Enrolled(u)
    <3>1. users[u] = Blank("pending", users[u].role)
      BY <2>2 DEF Enrolled, PendingIsBlank
    <3> QED BY <3>1 DEF Blank
  <2>3. CASE Wiped(u)
    BY <2>3 DEF Wiped, Blank
  <2>4. ~ Rewrapped(u)
    BY DEF Rewrapped
  <2>5. ~ StatusSet(u)
    BY DEF StatusSet, TypeOK, UserRow
  <2> QED BY <2>1, <2>2, <2>3, <2>4, <2>5 DEF WrittenRow
<1>2. BlankInv /\ [Next]_vars
      => [\A u \in Users :
            users'[u].privateKey # users[u].privateKey
            => users[u].privateKey = 0 \/ users'[u].privateKey = 0]_vars
  BY <1>1
<1> QED BY <1>2, AccountsTypeCorrect, PendingStaysBlank, PTL
        DEF Spec, BlankInv, KeyPairNeverReplaced

\* Disabling and deleting leave an active administrator (LastAdminStays).
THEOREM AdminsStand == Spec => LastAdminStays
<1>1. TypeOK /\ [Next]_vars
      => (ActiveAdmins # {} /\ ActiveAdmins' = {}
          => \E r \in Requests, i \in Invites : ResetUser(r, i))
  <2> SUFFICES ASSUME TypeOK, [Next]_vars, NEW a \in ActiveAdmins,
                      ~ \E r \in Requests, i \in Invites : ResetUser(r, i)
               PROVE  ActiveAdmins' # {}
    OBVIOUS
  <2> USE DEF ActiveAdmins
  <2>0. a \in Users /\ users[a].st = "active" /\ users[a].role = "admin"
    OBVIOUS
  <2>1. CASE users'[a] = users[a]
    BY <2>0, <2>1
  <2>2. CASE /\ WrittenRow(a)
             /\ \A v \in Users \ {a} : users'[v] = users[v]
    <3>1. CASE OtherActiveAdmin(a)
      BY <2>2, <3>1 DEF OtherActiveAdmin
    <3>2. CASE Rewrapped(a)
      BY <2>0, <3>2 DEF Rewrapped
    <3>3. CASE StatusSet(a) /\ ~ OtherActiveAdmin(a)
      <4>1. users'[a] = [users[a] EXCEPT !.st = "active"]
        BY <2>0, <3>3 DEF StatusSet
      <4> QED BY <2>0, <4>1 DEF TypeOK, UserRow
    <3>4. CASE Wiped(a) /\ ~ OtherActiveAdmin(a)
      BY <2>0, <3>4 DEF Wiped
    <3> QED BY <2>0, <2>2, <3>1, <3>2, <3>3, <3>4 DEF WrittenRow, Enrolled
  <2> QED BY <2>0, <2>1, <2>2, UsersStep
<1>2. TypeOK /\ [Next]_vars
      => [ActiveAdmins # {} /\ ActiveAdmins' = {}
          => \E r \in Requests, i \in Invites : ResetUser(r, i)]_vars
  BY <1>1
<1> QED BY <1>2, AccountsTypeCorrect, PTL DEF Spec, LastAdminStays

-----------------------------------------------------------------------------
\* A token that was redeemed cannot be claimed again: its row says so, or is
\* gone, or (a refresh token) has moved on to a later pair.
SpentTokens ==
    /\ \A i \in Invites :
          <<"invite", i>> \in spent => invites[i].st \in {"used", "gone"}
    /\ \A t \in RecoveryTokens :
          <<"recovery", t>> \in spent => recoveryTokens[t].st \in {"used", "gone"}
    /\ \A s \in Sessions : \A p \in Nat :
          <<"refresh", s, p>> \in spent
          => /\ sessions[s].st # "none"
             /\ sessions[s].st = "gone" \/ p < sessions[s].pair

\* No invite or recovery token leaves used or gone; a session leaves gone never
\* and its pair number only grows.
Forward ==
    /\ \A i \in Invites :
          invites[i].st \in {"used", "gone"} => invites'[i].st \in {"used", "gone"}
    /\ \A t \in RecoveryTokens :
          recoveryTokens[t].st \in {"used", "gone"}
          => recoveryTokens'[t].st \in {"used", "gone"}
    /\ \A s \in Sessions :
          /\ sessions[s].st # "none" => sessions'[s].st # "none"
          /\ sessions[s].st # "none"
             => sessions'[s].st = "gone" \/ sessions[s].pair <= sessions'[s].pair
          /\ sessions[s].st = "gone" => sessions'[s].st = "gone"

\* Revoking moves sessions forward.
LEMMA RevokedForward ==
    ASSUME TypeOK, NEW u, NEW keep, NEW s \in Sessions
    PROVE  /\ sessions[s].st # "none" => RevokedExcept(u, keep)[s].st # "none"
           /\ RevokedExcept(u, keep)[s].pair = sessions[s].pair
           /\ sessions[s].st = "gone" => RevokedExcept(u, keep)[s].st = "gone"
BY DEF RevokedExcept, TypeOK, SessionRow

\* Every step moves the token tables forward.
LEMMA TablesForward ==
    ASSUME TypeOK, [Next]_vars
    PROVE  Forward
<1>0. \A s \in Sessions : sessions[s].pair \in Nat
  BY DEF TypeOK, SessionRow
<1>1. CASE UNCHANGED <<invites, sessions, recoveryTokens>>
  BY <1>0, <1>1 DEF Forward
<1>2. ASSUME NEW r \in Requests, UserCheck(r) PROVE Forward
  BY <1>1, <1>2 DEF UserCheck, CheckEnroll, CheckLogin, CheckRecover,
                    CheckComplete, CheckRefresh, CheckRevoke, CheckRotate,
                    Start, tables
<1>3. ASSUME NEW r \in Requests, AdminCheck(r) PROVE Forward
  BY <1>1, <1>3 DEF AdminCheck, RunAdminCreate, CheckCreate, CheckReissue,
                    CheckAdmin, Start, tables
<1>4. ASSUME NEW r \in Requests, DropJob(r) PROVE Forward
  BY <1>1, <1>4 DEF DropJob, tables
<1>5. CASE Expire
  <2>1. \A i \in Invites :
           invites[i].st \in {"used", "gone"} => invites'[i].st \in {"used", "gone"}
    BY <1>5 DEF Expire, TypeOK, TokenRow
  <2>2. \A t \in RecoveryTokens :
           recoveryTokens[t].st \in {"used", "gone"}
           => recoveryTokens'[t].st \in {"used", "gone"}
    BY <1>5 DEF Expire, TypeOK, RecoveryRow
  <2>3. \A s \in Sessions :
           /\ sessions[s].st # "none" => sessions'[s].st # "none"
           /\ sessions[s].pair = sessions'[s].pair
           /\ sessions[s].st = "gone" => sessions'[s].st = "gone"
    BY <1>5 DEF Expire, TypeOK, SessionRow
  <2> QED BY <1>0, <2>1, <2>2, <2>3 DEF Forward
<1>6. ASSUME NEW r \in Requests, Commit(r) PROVE Forward
  <2>1. CASE CreatePendingUser(r) \/ RotateRecovery(r)
    BY <1>1, <2>1 DEF CreatePendingUser, RotateRecovery
  <2>2. ASSUME NEW i \in Invites, CreateInvite(r, i) PROVE Forward
    BY <1>0, <2>2 DEF CreateInvite, Forward, TypeOK
  <2>3. ASSUME NEW i \in Invites, ResetUser(r, i) PROVE Forward
    <3>1. /\ UNCHANGED recoveryTokens
          /\ sessions' = RevokedExcept(jobs[r].user, None)
      BY <2>3 DEF ResetUser
    <3>2. \A k \in Invites : invites[k].st \in {"used", "gone"}
                             => invites'[k].st \in {"used", "gone"}
      BY <2>3 DEF ResetUser, TypeOK
    <3> QED BY <1>0, <3>1, <3>2, RevokedForward DEF Forward
  <2>4. CASE CompleteEnrollment(r)
    BY <1>0, <2>4 DEF CompleteEnrollment, Enrol, Forward, TypeOK, TokenRow
  <2>5. ASSUME NEW s \in Sessions, CreateSession(r, s) PROVE Forward
    BY <1>0, <2>5 DEF CreateSession, Forward, TypeOK
  <2>6. CASE RotateSession(r)
    BY <1>0, <2>6 DEF RotateSession, SwapPair, Forward, TypeOK, SessionRow
  <2>7. CASE AnswerRefresh(r)
    BY <1>0, <2>7 DEF AnswerRefresh, Forward, TypeOK, SessionRow
  <2>8. CASE RevokeSession(r)
    BY <1>0, <2>8 DEF RevokeSession, Forward, TypeOK, SessionRow
  <2>9. CASE RotatePassword(r)
    <3> DEFINE R == RevokedExcept(jobs[r].user, jobs[r].session)
    <3>1. R \in [Sessions -> SessionRow]
      BY RevokedType
    <3>2. \A s \in Sessions : /\ sessions[s].st # "none" => R[s].st # "none"
                              /\ R[s].pair = sessions[s].pair
                              /\ sessions[s].st = "gone" => R[s].st = "gone"
      BY RevokedForward
    <3>3. sessions' = [R EXCEPT ![jobs[r].session].password = secrets']
      BY <2>9 DEF RotatePassword
    <3> HIDE DEF R
    <3>4. \A s \in Sessions : /\ sessions'[s].st = R[s].st
                              /\ sessions'[s].pair = R[s].pair
      BY <3>1, <3>3 DEF SessionRow
    <3> QED BY <1>0, <2>9, <3>2, <3>4 DEF RotatePassword, Forward
  <2>10. ASSUME NEW t \in RecoveryTokens, CreateRecoveryToken(r, t) PROVE Forward
    BY <1>0, <2>10 DEF CreateRecoveryToken, Forward, TypeOK
  <2>11. CASE CompleteRecovery(r)
    <3>1. \A t \in RecoveryTokens :
             recoveryTokens[t].st \in {"used", "gone"}
             => recoveryTokens'[t].st \in {"used", "gone"}
      BY <2>11 DEF CompleteRecovery, Recovered, TypeOK, RecoveryRow
    <3> DEFINE u == recoveryTokens[jobs[r].token].user
    <3>2. /\ sessions' = RevokedExcept(u, None)
          /\ UNCHANGED invites
      BY <2>11 DEF CompleteRecovery, Recovered
    <3> HIDE DEF u
    <3>3. \A s \in Sessions :
             /\ sessions[s].st # "none" => sessions'[s].st # "none"
             /\ sessions'[s].pair = sessions[s].pair
             /\ sessions[s].st = "gone" => sessions'[s].st = "gone"
      BY <3>2, RevokedForward
    <3> QED BY <1>0, <3>1, <3>2, <3>3 DEF Forward
  <2>12. CASE SetUserStatus(r)
    <3>1. UNCHANGED <<invites, recoveryTokens>>
      BY <2>12 DEF SetUserStatus, WriteStatus
    <3>2. CASE sessions' = sessions
      BY <1>1, <3>1, <3>2
    <3>3. CASE sessions' = RevokedExcept(jobs[r].user, None)
      BY <1>0, <3>1, <3>3, RevokedForward DEF Forward
    <3> QED BY <2>12, <3>2, <3>3 DEF SetUserStatus, WriteStatus
  <2>13. CASE DeleteUser(r)
    BY <1>0, <2>13 DEF DeleteUser, Forward, NoToken, NoSession, NoRecovery
  <2> QED BY <1>6, <2>1, <2>2, <2>3, <2>4, <2>5, <2>6, <2>7, <2>8, <2>9, <2>10,
             <2>11, <2>12, <2>13 DEF Commit
<1>7. CASE UNCHANGED vars
  BY <1>1, <1>7 DEF vars, tables
<1> QED BY <1>2, <1>3, <1>4, <1>5, <1>6, <1>7 DEF Next

\* The only steps that spend a token are the three that claim one.
LEMMA SpentStep ==
    ASSUME TypeOK, [Next]_vars
    PROVE  \/ UNCHANGED spent
           \/ \E r \in Requests :
                 CompleteEnrollment(r) \/ CompleteRecovery(r) \/ RotateSession(r)
<1>1. ASSUME NEW r \in Requests, UserCheck(r) PROVE UNCHANGED spent
  BY <1>1 DEF UserCheck, CheckEnroll, CheckLogin, CheckRecover, CheckComplete,
              CheckRefresh, CheckRevoke, CheckRotate, Start
<1>2. ASSUME NEW r \in Requests, AdminCheck(r) PROVE UNCHANGED spent
  BY <1>2 DEF AdminCheck, RunAdminCreate, CheckCreate, CheckReissue, CheckAdmin,
              Start
<1>3. ASSUME NEW r \in Requests, Commit(r)
      PROVE  \/ UNCHANGED spent
             \/ CompleteEnrollment(r) \/ CompleteRecovery(r) \/ RotateSession(r)
  BY <1>3 DEF Commit, CreatePendingUser, CreateInvite, ResetUser, CreateSession,
              AnswerRefresh, RevokeSession, RotatePassword, RotateRecovery,
              CreateRecoveryToken, SetUserStatus, WriteStatus, DeleteUser
<1> QED BY <1>1, <1>2, <1>3 DEF Next, DropJob, Expire, vars

SpentInv == TypeOK /\ SpentTokens

\* The three claiming steps record tokens that no row will honour again.
LEMMA SpentTokensStep == SpentInv /\ [Next]_vars => SpentTokens'
<1> SUFFICES ASSUME TypeOK, SpentTokens, [Next]_vars PROVE SpentTokens'
  BY DEF SpentInv
<1>0. Forward
  BY TablesForward
<1>1. \A s \in Sessions : sessions[s].pair \in Nat /\ sessions'[s].pair \in Nat
  BY AccountsTypeStep DEF TypeOK, SessionRow
<1>2. CASE UNCHANGED spent
  BY <1>0, <1>1, <1>2 DEF SpentTokens, Forward
<1>3. ASSUME NEW r \in Requests, CompleteEnrollment(r) PROVE SpentTokens'
  <2>1. jobs[r].invite \in Invites
    BY <1>3 DEF CompleteEnrollment, TypeOK, IsJob, Idle
  <2>2. /\ invites'[jobs[r].invite].st = "used"
        /\ spent' = spent \cup {<<"invite", jobs[r].invite>>}
    BY <1>3, <2>1 DEF CompleteEnrollment, Enrol, TypeOK, TokenRow
  <2> QED BY <1>0, <1>1, <2>2 DEF SpentTokens, Forward
<1>4. ASSUME NEW r \in Requests, CompleteRecovery(r) PROVE SpentTokens'
  <2>1. jobs[r].token \in RecoveryTokens
    BY <1>4 DEF CompleteRecovery, TypeOK, IsJob, Idle
  <2>2. /\ recoveryTokens'[jobs[r].token].st = "used"
        /\ spent' = spent \cup {<<"recovery", jobs[r].token>>}
    BY <1>4, <2>1 DEF CompleteRecovery, Recovered, TypeOK, RecoveryRow
  <2> QED BY <1>0, <1>1, <2>2 DEF SpentTokens, Forward
<1>5. ASSUME NEW r \in Requests, RotateSession(r) PROVE SpentTokens'
  <2>1. jobs[r].session \in Sessions
    BY <1>5 DEF RotateSession, TypeOK, IsJob, Idle
  <2>2. /\ sessions'[jobs[r].session].st = sessions[jobs[r].session].st
        /\ sessions[jobs[r].session].st # "none"
        /\ sessions'[jobs[r].session].pair = jobs[r].pair + 1
        /\ jobs[r].pair \in Nat
        /\ spent' = spent \cup {<<"refresh", jobs[r].session, jobs[r].pair>>}
    BY <1>1, <1>5, <2>1 DEF RotateSession, SwapPair, TypeOK, SessionRow
  <2> QED BY <1>0, <1>1, <2>2 DEF SpentTokens, Forward
<1> QED BY <1>2, <1>3, <1>4, <1>5, SpentStep

\* No request redeems a token that another one redeemed before it (SingleUse).
THEOREM TokensWorkOnce == Spec => SingleUse
<1>1. Init => SpentTokens
  BY DEF Init, SpentTokens
<1>2. Spec => [](TypeOK /\ SpentTokens)
  BY <1>1, SpentTokensStep, AccountsTypeCorrect, PTL DEF Spec, SpentInv
<1>3. ASSUME TypeOK, SpentTokens, NEW r \in Requests
      PROVE  /\ CompleteEnrollment(r) => <<"invite", jobs[r].invite>> \notin spent
             /\ CompleteRecovery(r) => <<"recovery", jobs[r].token>> \notin spent
             /\ RotateSession(r)
                => <<"refresh", jobs[r].session, jobs[r].pair>> \notin spent
  <2>1. CompleteEnrollment(r) => <<"invite", jobs[r].invite>> \notin spent
    <3>1. CompleteEnrollment(r) => jobs[r].invite \in Invites
      BY <1>3 DEF CompleteEnrollment, TypeOK, IsJob, Idle
    <3> QED BY <1>3, <3>1 DEF CompleteEnrollment, SpentTokens
  <2>2. CompleteRecovery(r) => <<"recovery", jobs[r].token>> \notin spent
    <3>1. CompleteRecovery(r) => jobs[r].token \in RecoveryTokens
      BY <1>3 DEF CompleteRecovery, TypeOK, IsJob, Idle
    <3> QED BY <1>3, <3>1 DEF CompleteRecovery, SpentTokens
  <2>3. RotateSession(r)
        => <<"refresh", jobs[r].session, jobs[r].pair>> \notin spent
    <3>1. RotateSession(r)
          => /\ jobs[r].session \in Sessions
             /\ jobs[r].pair \in Nat
             /\ sessions[jobs[r].session].pair = jobs[r].pair
      BY <1>3 DEF RotateSession, TypeOK, IsJob, Idle
    <3> QED BY <1>3, <3>1 DEF RotateSession, SpentTokens
  <2> QED BY <2>1, <2>2, <2>3
<1>4. TypeOK /\ SpentTokens
      => [\A r \in Requests :
            /\ CompleteEnrollment(r) => <<"invite", jobs[r].invite>> \notin spent
            /\ CompleteRecovery(r) => <<"recovery", jobs[r].token>> \notin spent
            /\ RotateSession(r)
               => <<"refresh", jobs[r].session, jobs[r].pair>> \notin spent]_vars
  BY <1>3
<1> QED BY <1>2, <1>4, PTL DEF SingleUse
=============================================================================
