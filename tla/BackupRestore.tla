--------------------------- MODULE BackupRestore ---------------------------
(***************************************************************************)
(* scripts/backup.sh and scripts/restore.sh against the data volume of a   *)
(* service that stores rows, crashes, and is stopped and started.          *)
(*                                                                         *)
(* A script runs while nobody else operates the service: at most one of    *)
(* them at a time, and Docker restarts a crashed service only when none    *)
(* is running.  Every copy and every rename of a file is a step; a script  *)
(* may be interrupted before each (a signal, a command that fails), and    *)
(* its traps then run; or it may be killed, and they do not.               *)
(*                                                                         *)
(* The contents of users.yml, token.txt and master.key are numbers, drawn  *)
(* afresh when a start creates the file.  The database and its write-ahead *)
(* log are sets of rows, each with the key that encrypted it.  The -shm    *)
(* and -journal files are handled like the log and hold nothing of their   *)
(* own.                                                                    *)
(***************************************************************************)
EXTENDS Integers, Sequences, FiniteSets

CONSTANTS
    MaxDraws,    \* bound: rows written
    MaxBackups,  \* bound: backup directories
    MaxFaults,   \* bound: scripts killed, each way
    Absent,      \* no such file
    Damaged      \* a file whose contents nothing accepts

\* What a file may hold is not confused with its absence or its damage.
ASSUME FilesAssumption ==
    /\ MaxDraws \in Nat
    /\ Absent # Damaged /\ Absent \notin Nat
    /\ \A rows \in SUBSET [id : 1..MaxDraws, key : 1..MaxDraws] : rows \notin {Absent, Damaged}

VARIABLES
    data,        \* the volume: file -> contents
    svc,         \* the service: "up", "stopped" or "crashed"
    draws,       \* random values and row numbers used so far
    pc,          \* next step of the script, "idle" without one
    i,           \* position in the loop over the files
    was,         \* was_running
    tmp,         \* the directory backup.sh builds
    backups,     \* the finished backups
    src,         \* the directory given to restore.sh
    new, old,    \* .restore-new and .restore-old
    faults,      \* which processes have been killed, how often
    acked,       \* ghost: rows the volume owes its clients
    before,      \* ghost: the volume a restore that is not committed has to keep
    broken       \* ghost: a killed restore left the volume half done

volume == <<data, svc, draws>>
script == <<pc, i, was, tmp, src, new, old>>
ghosts == <<acked, before, broken>>
vars == <<volume, script, backups, faults, ghosts>>

\* The files in the order restore.sh moves them, and those of a backup.
LiveFiles == <<"db", "wal", "key", "users", "token">>
Payload == <<"db", "key", "users">>

NoFiles == [db |-> Absent, wal |-> Absent, key |-> Absent, users |-> Absent, token |-> Absent]
NoPayload == [db |-> Absent, key |-> Absent, users |-> Absent]

Contents(file) == IF file = Absent THEN {} ELSE file
Rows(v) == Contents(v.db) \cup Contents(v.wal)
----------------------------------------------------------------------------
(***************************************************************************)
(* The service on its volume.                                              *)
(***************************************************************************)

\* The last connection closes: SQLite moves the log into the database.
Checkpointed(v) ==
    IF v.wal = Absent THEN v ELSE [v EXCEPT !.db = Rows(v), !.wal = Absent]

\* docker-entrypoint.sh: without a users.yml, bootstrap makes a user and a token.
Bootstrapped(v) ==
    IF v.users # Absent THEN v ELSE [v EXCEPT !.users = draws + 1, !.token = draws + 1]

\* sqlite.Open: a missing database is created, and a log without one is dropped.
Opened(v) ==
    IF v.db = Absent THEN [v EXCEPT !.db = {}, !.wal = {}]
    ELSE [v EXCEPT !.wal = Contents(v.wal)]

\* keys.NewFileProvider: a missing master key is created.
Keyed(v) == IF v.key # Absent THEN v ELSE [v EXCEPT !.key = draws + 1]

\* The start of the service on volume v: it serves, or fails on a damaged file.
Started(v) ==
    LET u == Bootstrapped(v)
    IN  IF u.db = Damaged THEN u
        ELSE IF u.users = Damaged THEN Checkpointed(Opened(u))
        ELSE Keyed(Opened(u))

StartService ==
    /\ data' = Started(data)
    /\ svc' = IF Damaged \in {data'.db, data'.users} THEN "crashed" ELSE "up"
    /\ draws' = IF data'.users = data.users /\ data'.key = data.key THEN draws ELSE draws + 1
    /\ before' = {}

\* SIGTERM, and time enough to close the database; or SIGKILL after the grace.
StopService ==
    /\ svc' = "stopped"
    /\ data' \in (IF svc = "up" THEN {Checkpointed(data), data} ELSE {data})
    /\ UNCHANGED draws

\* An operator starts or stops the service; Docker restarts a crashed one.
Up ==
    /\ pc = "idle" /\ svc # "up"
    /\ StartService
    /\ UNCHANGED <<script, backups, faults, acked, broken>>

Down ==
    /\ pc = "idle" /\ svc # "stopped"
    /\ StopService
    /\ UNCHANGED <<script, backups, faults, ghosts>>

Crash ==
    /\ svc = "up"
    /\ svc' = "crashed"
    /\ UNCHANGED <<data, draws, script, backups, faults, ghosts>>

\* A client's row is committed, which in WAL mode appends it to the log.
Write ==
    /\ svc = "up" /\ draws < MaxDraws
    /\ LET row == [id |-> draws + 1, key |-> data.key]
       IN  /\ data' = [data EXCEPT !.wal = @ \cup {row}]
           /\ acked' = acked \cup {row}
    /\ draws' = draws + 1
    /\ UNCHANGED <<svc, script, backups, faults, before, broken>>
----------------------------------------------------------------------------
(***************************************************************************)
(* What the scripts share: was_running, stop, and the EXIT trap.           *)
(***************************************************************************)

\* `compose ps --status running`
Begin ==
    /\ pc = "idle"
    /\ was' = (svc = "up")
    /\ i' = 1
    /\ UNCHANGED <<volume, tmp, backups, new, old, faults, ghosts>>

\* The next file of a loop over files, or the step after the loop.
NextFile(files, after) ==
    IF i < Len(files) THEN i' = i + 1 /\ UNCHANGED pc ELSE i' = 1 /\ pc' = after

\* Mutant of StopIfRunning: the service goes on during the script.
StopNothing == UNCHANGED volume

\* `compose stop`, which also ends a service that crashed since.
StopIfRunning == IF was THEN StopService ELSE UNCHANGED volume

\* Mutant of ExitTrap: the script ends where it failed.
NoExitTrap == "idle"

\* `trap finish EXIT`
ExitTrap == "finish"

\* finish: remove the temporary directory, start what was running.
Finish ==
    /\ pc = "finish"
    /\ IF was THEN StartService ELSE UNCHANGED <<volume, before>>
    /\ pc' = "idle" /\ was' = FALSE /\ i' = 1
    /\ tmp' = NoPayload /\ src' = NoPayload
    /\ UNCHANGED <<backups, new, old, faults, acked, broken>>
----------------------------------------------------------------------------
(***************************************************************************)
(* backup.sh                                                               *)
(***************************************************************************)

BeginBackup ==
    /\ Begin
    /\ pc' = "bstop"
    /\ UNCHANGED src

BackupStop ==
    /\ pc = "bstop"
    /\ StopIfRunning
    /\ pc' = "copy"
    /\ UNCHANGED <<i, was, tmp, src, new, old, backups, faults, ghosts>>

\* Mutant of Copyable: cat without the tests before it.
CopyableOrNot(file) == TRUE

\* test -f and test -s
Copyable(file) == file # Absent

\* One container per file.
Copy ==
    /\ pc = "copy"
    /\ Copyable(data[Payload[i]])
    /\ tmp' = [tmp EXCEPT ![Payload[i]] = data[Payload[i]]]
    /\ NextFile(Payload, "publish")
    /\ UNCHANGED <<volume, was, src, new, old, backups, faults, ghosts>>

\* The rename of the temporary directory.  With the files, the backup records
\* what the volume was when they were copied.
Publish ==
    /\ pc = "publish"
    /\ tmp.key # Damaged
    /\ backups' = backups \cup
         {[files |-> tmp, acked |-> acked, sound |-> ~broken,
           log |-> svc # "up" /\ data.wal # Absent]}
    /\ tmp' = NoPayload
    /\ pc' = ExitTrap
    /\ UNCHANGED <<volume, i, was, src, new, old, faults, ghosts>>

\* A copy fails, the key has another size, or a signal arrives.
BackupInterrupted ==
    /\ pc \in {"bstop", "copy", "publish"}
    /\ pc' = ExitTrap
    /\ UNCHANGED <<volume, i, was, tmp, src, new, old, backups, faults, ghosts>>
----------------------------------------------------------------------------
(***************************************************************************)
(* restore.sh                                                              *)
(***************************************************************************)

\* The required files are there and the key has its size.
Acceptable(files) == Absent \notin {files[f] : f \in DOMAIN files} /\ files.key # Damaged

\* A backup, as it was made or with one file lost or damaged since.
BeginRestore(files) ==
    /\ Acceptable(files)
    /\ Begin
    /\ src' = files
    /\ pc' = "rstop"

RestoreStop ==
    /\ pc = "rstop"
    /\ StopIfRunning
    /\ pc' = "extract"
    /\ UNCHANGED <<i, was, tmp, src, new, old, backups, faults, ghosts>>

\* mktemp, tar -x and the tests of what it extracted.
Extract ==
    /\ pc = "extract"
    /\ new' = src /\ old' = NoFiles
    /\ before' = {data}
    /\ pc' = "move"
    /\ UNCHANGED <<volume, i, was, tmp, src, backups, faults, acked, broken>>

\* Mutant of MovedAway: the log stays where it is.
MovedAwayButLog(f) == data[f] # Absent /\ f # "wal"

\* [ -e "/data/$file" ]
MovedAway(f) == data[f] # Absent

MoveOld ==
    /\ pc = "move"
    /\ LET f == LiveFiles[i]
       IN  IF MovedAway(f)
           THEN data' = [data EXCEPT ![f] = Absent] /\ old' = [old EXCEPT ![f] = data[f]]
           ELSE UNCHANGED <<data, old>>
    /\ NextFile(LiveFiles, "install")
    /\ UNCHANGED <<svc, draws, was, tmp, src, new, backups, faults, ghosts>>

Install ==
    /\ pc = "install"
    /\ LET f == Payload[i]
       IN  data' = [data EXCEPT ![f] = new[f]] /\ new' = [new EXCEPT ![f] = Absent]
    /\ NextFile(Payload, "doctor")
    /\ UNCHANGED <<svc, draws, was, tmp, src, old, backups, faults, ghosts>>

\* runDoctor: the users file loads, the key has its size, the database opens.
DoctorPasses(v) ==
    /\ v.users \notin {Absent, Damaged}
    /\ v.key \notin {Absent, Damaged}
    /\ v.db # Damaged

\* committed=1
Commit ==
    /\ pc = "doctor"
    /\ DoctorPasses(data)
    /\ pc' = "sweep"
    /\ before' = {}
    /\ acked' = Contents(src.db)
    /\ broken' = \A b \in backups : b.files = src => ~b.sound
    /\ UNCHANGED <<volume, i, was, tmp, src, new, old, backups, faults>>

\* Mutant of FirstUndo: the live files go first, whether or not the new ones
\* had begun to replace them.
FirstUndoAlways(step) == "clear"

\* finish_restore: where the trap begins when it runs before step.
FirstUndo(step) == IF step \in {"install", "doctor"} THEN "clear" ELSE "putback"

\* Doctor fails, another command fails, or a signal arrives.
RestoreInterrupted ==
    /\ \/ /\ pc = "rstop"
          /\ pc' = ExitTrap
       \/ /\ pc \in {"extract", "move", "install", "doctor"}
          /\ pc' = IF pc = "extract" THEN ExitTrap ELSE FirstUndo(pc)
    /\ i' = 1
    /\ UNCHANGED <<volume, was, tmp, src, new, old, backups, faults, ghosts>>

\* if [ "$install_started" -eq 1 ]: rm -f of every live file.
Clear ==
    /\ pc = "clear"
    /\ data' = NoFiles
    /\ pc' = "putback"
    /\ UNCHANGED <<svc, draws, i, was, tmp, src, new, old, backups, faults, ghosts>>

\* Mutant of Saved: the log is not put back.
SavedButLog(f) == old[f] # Absent /\ f # "wal"

\* [ -e "$old_dir/$file" ]
Saved(f) == old[f] # Absent

PutBack ==
    /\ pc = "putback"
    /\ LET f == LiveFiles[i]
       IN  IF Saved(f)
           THEN data' = [data EXCEPT ![f] = old[f]] /\ old' = [old EXCEPT ![f] = Absent]
           ELSE UNCHANGED <<data, old>>
    /\ NextFile(LiveFiles, "sweep")
    /\ UNCHANGED <<svc, draws, was, tmp, src, new, backups, faults, ghosts>>

\* rm -rf of the two directories; restore.sh goes on to its own trap.
Sweep ==
    /\ pc = "sweep"
    /\ new' = NoPayload /\ old' = NoFiles
    /\ before' = {}
    /\ pc' = ExitTrap
    /\ UNCHANGED <<volume, i, was, tmp, src, backups, faults, acked, broken>>
----------------------------------------------------------------------------
(***************************************************************************)
(* Kills, which no trap sees.                                              *)
(***************************************************************************)

InContainer == {"move", "install", "doctor", "clear", "putback", "sweep"}

\* The container of restore.sh dies; the trap of the script itself still runs.
\* The directories stay; nothing looks into .restore-new again, nor into the
\* .restore-old of a restore that was committed.
KillContainer ==
    /\ pc \in InContainer
    /\ faults.container < MaxFaults
    /\ faults' = [faults EXCEPT !.container = @ + 1]
    /\ broken' = (broken \/ \E b \in before : data # b)
    /\ pc' = ExitTrap /\ i' = 1
    /\ new' = NoPayload
    /\ old' = IF before = {} THEN NoFiles ELSE old
    /\ UNCHANGED <<volume, was, tmp, src, backups, acked, before>>

\* The script itself dies; the container of a restore goes on without it.
KillHost ==
    /\ pc # "idle"
    /\ faults.host < MaxFaults
    /\ faults' = [faults EXCEPT !.host = @ + 1]
    /\ was' = FALSE
    /\ pc' = IF pc \in InContainer \cup {"extract"} THEN pc ELSE "idle"
    /\ i' = IF pc' = "idle" THEN 1 ELSE i
    /\ tmp' = NoPayload
    /\ src' = IF pc' = "idle" THEN NoPayload ELSE src
    /\ UNCHANGED <<volume, new, old, backups, ghosts>>
----------------------------------------------------------------------------
\* A volume nobody has started on.
Init ==
    /\ data = NoFiles /\ svc = "stopped" /\ draws = 0
    /\ pc = "idle" /\ i = 1 /\ was = FALSE
    /\ tmp = NoPayload /\ src = NoPayload /\ new = NoPayload /\ old = NoFiles
    /\ backups = {} /\ faults = [container |-> 0, host |-> 0]
    /\ acked = {} /\ before = {} /\ broken = FALSE

\* What restore.sh may be given: a backup, or one a file of which was lost or damaged.
Sources ==
    {b.files : b \in backups} \cup
    {[b.files EXCEPT ![f] = x] : b \in backups, f \in DOMAIN NoPayload, x \in {Absent, Damaged}}

ScriptStep ==
    \/ BackupStop \/ Copy \/ Publish
    \/ RestoreStop \/ Extract \/ MoveOld \/ Install \/ Commit
    \/ Clear \/ PutBack \/ Sweep \/ Finish

\* A command of the script fails and its traps run.
ScriptFails == BackupInterrupted \/ RestoreInterrupted

Next ==
    \/ Up \/ Down \/ Crash \/ Write
    \/ Cardinality(backups) < MaxBackups /\ BeginBackup
    \/ \E files \in Sources : BeginRestore(files)
    \/ ScriptStep \/ ScriptFails
    \/ KillContainer \/ KillHost

Spec == Init /\ [][Next]_vars

\* A script that is not killed runs to its end; the shell takes the failing
\* branch when a command cannot succeed.
FairSpec == Spec /\ WF_vars(ScriptStep \/ ScriptFails)
----------------------------------------------------------------------------
RowSet == [id : 1..draws, key : 1..draws]
Stored(f, x) ==
    x \in {Absent, Damaged} \/ IF f \in {"db", "wal"} THEN x \subseteq RowSet ELSE x \in 1..draws

\* Every file of the volume and of the staging directories holds what a file of
\* its name may; a finished backup has all three files and a key of its size.
TypeOK ==
    /\ \A f \in DOMAIN NoFiles :
         Stored(f, data[f]) /\ Stored(f, old[f])
    /\ svc \in {"up", "stopped", "crashed"}
    /\ pc \in {"idle", "bstop", "copy", "publish", "rstop", "extract", "finish"} \cup InContainer
    /\ i \in 1..Len(LiveFiles)
    /\ was \in BOOLEAN /\ broken \in BOOLEAN
    /\ \A b \in backups :
         /\ \A f \in DOMAIN NoPayload : b.files[f] # Absent
         /\ b.files.key \in 1..draws
    /\ acked \subseteq RowSet

Readable(db, key) == \A row \in db : row.key = key

\* A restore whose container ran to its end left the volume exactly as the
\* backup has it, with no log and no token of the volume before, or exactly as
\* it was before (restore.sh, finish_restore; docs/DEPLOYMENT.md "restores the
\* previous files if validation fails").
EndsWhole ==
    pc = "sweep" =>
      IF before = {}
      THEN data = [db |-> src.db, wal |-> Absent, key |-> src.key,
                   users |-> src.users, token |-> Absent]
      ELSE data \in before

\* As long as a restore is not committed, and after it was killed until
\* something starts on the volume, every file the volume had is in place or in
\* the .restore-old directory, at whatever step it stopped (restore.sh moves
\* files one by one and its trap moves them back).
OldFilesKept ==
    \A b \in before : \A f \in DOMAIN b : b[f] \in {Absent, data[f], old[f]}

\* The service has every row it acknowledged, and can decrypt it, after any
\* sequence of crashes, backups, and restores that completed or were rolled
\* back: a restored volume owes the rows of the backup, a rolled back one its
\* own, those only in the log of a crashed service included.
VolumeServes ==
    svc = "up" /\ ~broken => acked \subseteq Rows(data) /\ Readable(Rows(data), data.key)

\* A finished backup has a key that opens its rows, and has every row that was
\* acknowledged before it was taken, unless the service had left rows in a log
\* that backup.sh does not copy (a crash, or a stop cut off by SIGKILL).
BackupsComplete ==
    \A b \in backups :
      b.sound => /\ Readable(b.files.db, b.files.key)
                 /\ b.acked \subseteq b.files.db \/ b.log

\* A service that a script found running runs again, whatever became of the
\* backup or the restore, unless the script itself was killed, or its container
\* was and left files in place the service cannot use (trap finish EXIT).
ServiceBack ==
    (was /\ svc # "up") ~>
      (svc = "up" \/ faults.host > 0 \/ Damaged \in {data.db, data.users})
=============================================================================
