----------------------------- MODULE Migrations -----------------------------
(***************************************************************************)
(* sqlite.Open by several processes on one database file: the schema       *)
(* migrations embedded in each binary are applied in order, each in a      *)
(* transaction that also records it in schema_migrations.                  *)
(*                                                                         *)
(* Binaries of different releases embed 1..Latest[p].  Each statement of a *)
(* migration is a step; effects counts how often it has taken effect (the  *)
(* IF NOT EXISTS of 001_init.sql, which makes a repetition harmless, is    *)
(* not something every migration can have).                                *)
(* SQLite lets one connection write at a time: its transaction works on a  *)
(* copy (the tx variables) that COMMIT publishes and a rollback, an error  *)
(* or the death of the process discards.                                   *)
(***************************************************************************)
EXTENDS Integers

CONSTANTS
    Openers,     \* processes that call sqlite.Open
    Latest,      \* opener -> number of migrations its binary embeds
    Newest,      \* number of migrations the newest binary embeds
    Length,      \* statements of a migration
    NoOpener

ASSUME MigrationsAssumption ==
    /\ Newest \in Nat /\ Length \in Nat
    /\ Latest \in [Openers -> 0..Newest]
    /\ NoOpener \notin Openers

VARIABLES
    ledger,      \* "missing" or "there": table schema_migrations
    recorded,    \* versions in it
    effects,     \* version -> statement -> times it took effect
    \* the running transaction, or with no writer a copy of the database
    writer,      \* opener that holds the write lock
    txRecorded,  \* recorded as the transaction has it
    txEffects,   \* effects as the transaction has them
    txNext,      \* its next statement
    at,          \* opener -> its next step
    seen,        \* opener -> applied versions as it read them
    reached      \* opener -> version its loop has reached

database == <<ledger, recorded, effects>>
transaction == <<writer, txRecorded, txEffects, txNext>>
opener == <<at, seen, reached>>
migrationVars == <<database, transaction, opener>>

Versions == 1..Newest
Statements == 1..Length
OpenSteps == {"closed", "ledger", "read", "loop", "exec", "commit", "open"}

Move(p, step) == at' = [at EXCEPT ![p] = step]

\* The transaction of p ends without a trace, if it has one.
Rollback(p) ==
    /\ IF writer = p
       THEN writer' = NoOpener /\ txRecorded' = recorded /\ txEffects' = effects /\ txNext' = 1
       ELSE UNCHANGED transaction
    /\ UNCHANGED database

\* Open has failed or its store is closed: nothing of the call remains.
Forget(p) ==
    /\ Move(p, "closed")
    /\ seen' = [seen EXCEPT ![p] = {}]
    /\ reached' = [reached EXCEPT ![p] = 1]
----------------------------------------------------------------------------
\* Directory, connection with its pragmas, ping, verifyPragmas.
Connect(p) ==
    /\ at[p] = "closed"
    /\ Move(p, "ledger")
    /\ UNCHANGED <<database, transaction, seen, reached>>

\* CREATE TABLE IF NOT EXISTS schema_migrations, a transaction by itself.
CreateLedger(p) ==
    /\ at[p] = "ledger"
    /\ writer = NoOpener
    /\ ledger' = "there"
    /\ Move(p, "read")
    /\ UNCHANGED <<recorded, effects, transaction, seen, reached>>

\* loadAppliedVersions reads outside of any transaction.
LoadApplied(p) ==
    /\ at[p] = "read"
    /\ ledger = "there"
    /\ seen' = [seen EXCEPT ![p] = recorded]
    /\ Move(p, "loop")
    /\ UNCHANGED <<database, transaction, reached>>

Pending(p) == at[p] = "loop" /\ reached[p] <= Latest[p]

\* Mutant of Applied: only the newest version is kept, one too many.
AppliedUpTo(p) == \E v \in seen[p] \cup {0} : reached[p] <= v + 1

Applied(p) == reached[p] \in seen[p]

SkipApplied(p) ==
    /\ Pending(p)
    /\ Applied(p)
    /\ reached' = [reached EXCEPT ![p] = @ + 1]
    /\ UNCHANGED <<database, transaction, at, seen>>

\* BEGIN IMMEDIATE of a migration waits for the write lock.
BeginMigration(p) ==
    /\ Pending(p)
    /\ ~Applied(p)
    /\ writer = NoOpener
    /\ writer' = p
    /\ Move(p, "exec")
    /\ UNCHANGED <<database, txRecorded, txEffects, txNext, seen, reached>>

Exec(p) ==
    /\ at[p] = "exec"
    /\ txNext \in Statements
    /\ txEffects' = [txEffects EXCEPT ![reached[p]][txNext] = @ + 1]
    /\ txNext' = txNext + 1
    /\ UNCHANGED <<database, writer, txRecorded, opener>>

\* Mutant of Unrecorded: INSERT OR IGNORE.
RecordedOrNot(p) == TRUE

\* version is the primary key of schema_migrations.
Unrecorded(p) == reached[p] \notin txRecorded

\* INSERT INTO schema_migrations after the last statement ...
Record(p) ==
    /\ at[p] = "exec"
    /\ txNext \notin Statements
    /\ Unrecorded(p)
    /\ txRecorded' = txRecorded \cup {reached[p]}
    /\ Move(p, "commit")
    /\ UNCHANGED <<database, writer, txEffects, txNext, seen, reached>>

\* ... fails if another process has applied the migration since LoadApplied:
\* the transaction is rolled back and Open returns the error.
RecordFails(p) ==
    /\ at[p] = "exec"
    /\ txNext \notin Statements
    /\ ~Unrecorded(p)
    /\ Rollback(p)
    /\ Forget(p)

CommitMigration(p) ==
    /\ at[p] = "commit"
    /\ recorded' = txRecorded
    /\ effects' = txEffects
    /\ writer' = NoOpener
    /\ txNext' = 1
    /\ reached' = [reached EXCEPT ![p] = @ + 1]
    /\ Move(p, "loop")
    /\ UNCHANGED <<ledger, txRecorded, txEffects, seen>>

AllApplied(p) == reached[p] > Latest[p]

\* File modes are tightened and Open returns the store.
Opened(p) ==
    /\ at[p] = "loop"
    /\ AllApplied(p)
    /\ Move(p, "open")
    /\ seen' = [seen EXCEPT ![p] = {}]
    /\ UNCHANGED <<database, transaction, reached>>

\* Open fails (a statement, the wait for the lock, a file mode), or the process
\* dies.
AbandonOpen(p) ==
    /\ at[p] \notin {"closed", "open"}
    /\ Rollback(p)
    /\ Forget(p)

\* The store is closed, or its process dies.
CloseStore(p) ==
    /\ at[p] = "open"
    /\ Forget(p)
    /\ UNCHANGED <<database, transaction>>
----------------------------------------------------------------------------
MigrationsInit ==
    /\ ledger = "missing" /\ recorded = {}
    /\ effects = [v \in Versions |-> [i \in Statements |-> 0]]
    /\ writer = NoOpener /\ txRecorded = {} /\ txEffects = effects /\ txNext = 1
    /\ at = [p \in Openers |-> "closed"]
    /\ seen = [p \in Openers |-> {}]
    /\ reached = [p \in Openers |-> 1]

\* What a call of Open does by itself, short of failing.
OpenStep(p) ==
    \/ Connect(p) \/ CreateLedger(p) \/ LoadApplied(p) \/ SkipApplied(p)
    \/ BeginMigration(p) \/ Exec(p) \/ Record(p) \/ CommitMigration(p) \/ Opened(p)

MigrationsNext ==
    \E p \in Openers :
        OpenStep(p) \/ RecordFails(p) \/ AbandonOpen(p) \/ CloseStore(p)

MigrationsSpec == MigrationsInit /\ [][MigrationsNext]_migrationVars
----------------------------------------------------------------------------
MigrationsTypeOK ==
    /\ ledger \in {"missing", "there"}
    /\ recorded \subseteq Versions /\ txRecorded \subseteq Versions
    /\ effects \in [Versions -> [Statements -> Nat]]
    /\ txEffects \in [Versions -> [Statements -> Nat]]
    /\ writer \in Openers \cup {NoOpener}
    /\ txNext \in Nat
    /\ at \in [Openers -> OpenSteps]
    /\ seen \in [Openers -> SUBSET Versions]
    /\ reached \in [Openers -> 1..(Newest + 1)]

\* Every statement of a recorded migration has taken effect exactly once and no
\* statement of another has, although Open decides what to apply from a list it
\* read before its transactions, several processes may do so at once, and any of
\* them may die between two statements (migrations/README.md: "a failed migration
\* leaves the database in a consistent state at the previous version").
AppliedOnce ==
    \A v \in Versions, i \in Statements :
        effects[v][i] = IF v \in recorded THEN 1 ELSE 0

\* The recorded migrations are the first ones, without a gap, whatever releases
\* opened the file in whatever order.
NoGap == \A v \in recorded : 1..v \subseteq recorded

\* A store that Open has returned has every migration its binary knows.
SchemaUpToDate ==
    \A p \in Openers : at[p] = "open" => 1..Latest[p] \subseteq recorded
=============================================================================
