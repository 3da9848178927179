# tabby-sync in TLA+

This directory holds a TLA+ model of tabby-sync, the self-hosted configuration
store for the Tabby terminal: an HTTP service that keeps YAML configurations,
encrypted, in SQLite. It contains the modules, the TLC configurations that
model-check them on small instances, and TLAPS proofs of the properties that
matter most for instances of every size. Paths below are relative to the
repository (`src/`). `PROJECT.json` maps every definition to the lines it
models.

## 1. The system

| Part | State | Operations | Interacts with |
|---|---|---|---|
| API handlers (`internal/api`) | none of their own | list, get, create, patch, delete, user | encrypting store |
| Encrypting store (`internal/store/encrypted`) | the master key buffer | the same operations on plaintext; `Close` wipes the key | envelope, SQLite store |
| Envelope (`internal/crypto`) | none | `Encrypt`, `Decrypt`, `BuildAAD` | — |
| SQLite store (`internal/store/sqlite`) | `configs`, `sqlite_sequence`, one connection, the write lock | one statement or one transaction per operation | file shared with other processes |
| Server lifecycle (`internal/server`, `internal/cli`) | listening, draining, closed | start, serve, signal, drain, deadline, close | all of the above |
| Rate limiter (`internal/ratelimit`) | buckets under a mutex | `Allow`, sweep | clock, middleware |
| Middleware chain (`internal/server/middleware`) | the exchange in progress | headers, CORS, client address, request id, access record, recovery, body limit | authentication, limiter, handlers |
| Authentication (`internal/auth`) | snapshot of users.yml | load, look up, reload | users file |
| User commands (`internal/cli/usercmd.go`) | users.yml, token.txt | init, bootstrap, user add, rm, rotate, doctor | authentication, first start |
| Master key (`internal/keys`) | the key file | load, generate | first start |
| Migrations (`sqlite/migrations.go`) | `schema_migrations` and the schema | apply in order, one transaction each | SQLite store, first start |
| Entrypoint (`docker-entrypoint.sh`) | lock directory | lock, bootstrap, wait, exec | first start |
| Backup, restore (`scripts/`) | archive, staged files | stop, copy, install, roll back | data directory |

What makes it hard to test:

* PATCH reads a row, decrypts and compares it, and only then opens a
  transaction. Other requests commit in between.
* The create quota is counted in a statement of its own, before the transaction
  that inserts.
* A create first inserts a row that reserves an id, because the ciphertext is
  bound to the id. The row must never be visible, whoever fails when.
* `modified_at` is the only version number a client has. It must work under a
  clock that stalls or steps back.
* Two server processes may share one database file. A process has one
  connection; SQLite lets one writer in at a time, and who waits for that keeps
  the connection.
* A shutdown that reaches its deadline, and a listener that fails, wipe the key
  and close the database under the handlers that are still running.
* Rate limiter readings of the clock are taken before the mutex and applied in
  any order.
* Containers that start on one empty volume create a token, a users file and a
  master key, each in its own way, and may be killed anywhere.
* The user commands read `users.yml`, change their copy and rename it back; the
  server keeps the copy it read when it started.
* Processes of different releases open one database and read which migrations
  are applied before they take the write lock.
* A response passes two recorders on its way out; a handler may panic before,
  between and after its writes, and whatever record is made must be true.
* `restore.sh` moves files one by one, from inside a container, under two traps
  (its own and the container's), and the service's last rows may be in a log file
  next to the database.

The complete list, with source lines and the properties that cover each item,
is under `hazards` in `PROJECT.json`.

## 2. Modules

| Module | Models |
|---|---|
| `Envelope` | the AES-GCM envelope as data: a ciphertext remembers key, user, configuration and plaintext |
| `ConfigContract` | what the store promises: single configurations created, written, touched, deleted |
| `ConfigService` | handlers, encrypting store, SQLite store, process lifecycle, as interleaved steps |
| `MCConfigService` | instances and workloads of `ConfigService` for TLC |
| `RateLimit`, `MCRateLimit` | the token bucket, its callers and its sweeper; its instance |
| `FirstStart`, `MCFirstStart` | containers on one volume: `init`, entrypoint, bootstrap, `serve` up to the master key; its instance for `key_race` |
| `Migrations` | `sqlite.Open` by several processes of several releases |
| `Deployment`, `MCDeployment` | `FirstStart` and `Migrations` composed: the whole start; its instance |
| `UsersFile`, `MCUsersFile` | `users.yml`, the user commands, the server's snapshot of it; its instances |
| `HttpServer`, `MCHttpServer` | `server.Run` and the middleware chain around the handlers; its instance |
| `BackupRestore`, `MCBackupRestore` | `backup.sh` and `restore.sh` against the volume of a running service; its instance |
| `ConfigService_proofs` | the inductive invariant of `ConfigService`, type correctness, and that lock and connections cannot deadlock |
| `ConfigRows_proofs` | what happens to rows: versions, no-op, overlapping and repeated patches, readable rows |
| `ConfigContract_proofs` | what clients see: `ConfigService` implements `ConfigContract`, rows change for their owner, the quota |
| `RateLimit_proofs` | the bucket mints no tokens, refuses no spaced request, and nobody notices the sweeper |
| `Deployment_proofs` | `FirstStart`: the token on disk opens every server, credentials are kept, rows keep their key; `Migrations`: they take effect once and in order; `Deployment` implements both |
| `UsersFile_proofs` | the file loads, tokens are as reported, ids and rows stay apart |
| `HttpServer_proofs` | records are truthful, responses whole, handlers guarded; a completed shutdown cuts nothing off |
| `BackupRestore_proofs` | no file and no acknowledged row is lost; backups are complete |

### ConfigService

A *slot* is a goroutine serving a request. `pc[s]` is its next step, `q[s]` the
request, `cur[s]` the row a PATCH compared itself with, `env[s]` the ciphertext
it sealed, `resp[s]` the last response. `rows` and `seq` are the committed
table and the AUTOINCREMENT counter. `txRows` and `txSeq` are what the open
transaction sees; `writer` holds the write lock, `conn[p]` the connection of
process `p`. `taking` are the processes that take requests on their connections.

| Request | Steps | Code |
|---|---|---|
| any | `Accept` (decode, validate, early 400, 404, 413) | `handlers.go` |
| GET one | `Get` | `GetConfigPlaintext`, `GetConfig` |
| GET all | `List` | `ListConfigsByUserPlaintext` |
| POST | `Count`, `Connect`, `Begin`, `Reserve`, `Build`, `Commit` | `handleCreateConfig`, `CreateConfigPlaintext`, `CreateConfigWithID` |
| PATCH | `Read`, `Seal`, `Connect`, `Begin`, `Apply`, `Commit`, `Reload`; `Apply` may go back to `Read` | `UpdateConfigPlaintext`, `UpdateConfig` |
| DELETE | `Connect`, `Delete` | `DeleteConfig` |
| failures | `BusyTimeout`, `Abort` | `busy_timeout`, a cancelled context, a failing statement, a closed handle |

A statement that writes takes the connection (`Connect`) and, with it in hand,
waits for the write lock, which `Begin` and `Delete` get and `BusyTimeout` gives
up on. Meanwhile the other requests of the process wait for the connection.

`Life(p)` is the life of a process: `Crash`, `Start`, and the shutdown
`Shutdown` → `Drained`, or `Shutdown` → `DeadlineExpires` → `Wiped` → `CloseDB`
→ `Exit`. `ServeFails` is the return of `Run` without a `Shutdown`: the deferred
`Close` runs (`Wiped` → `CloseDB` → `Exit`) while handlers go on and connections
that are kept alive still bring requests. While `Close` overwrites the key buffer, a goroutine that reads it
races with it: `KeysInUse` then offers the key, zeros, or a mixture. `Tick` moves
the wall clock anywhere. `Remember` lets a client keep any row of any response,
which is what the version property is about.

Abstractions:

* A statement outside a transaction, with the decryption of its result, is one
  step: it reads one snapshot and the key.
* The two reloads that end a PATCH (in `UpdateConfig`, and in
  `UpdateConfigPlaintext`) are one step; the response is what the second finds.
* COMMIT and the response of a create are one step, since the response is made
  of values the handler already holds.
* An absent JSON field is `Nil`. `""` for `last_used_with_version` is SQL NULL.
  Timestamps are integers: their text form, RFC 3339 with nanoseconds, reads back
  exactly. The unit is the millisecond `nextModifiedAt` adds where the clock is not
  past the old value.
* `created_at` is only copied to responses and is left out.
* A statement that only reads takes the connection and gives it back in one step.
  It does not wait for the write lock (WAL mode), so it keeps nobody waiting.
* `sql.DB.Close` does not wait for a connection in use: a transaction open when
  the handle is closed may still commit.
* A crash is the death of a process. SQLite then rolls its transaction back.
  Power loss is not modelled.
* `MaxId` is SQLite's largest row id; an INSERT beyond it fails.

### RateLimit

Tokens are counted in units of 1/`Window` token, so the refill is exact in
integers. The code's float64 rounding is left out. `Arrive` reads the clock
before the mutex and `Allow` is the critical section; likewise `SweepBegin` and
`SweepEnd`. `MaxDelay` bounds the time between a reading and the mutex. `mark`
and `admitted` belong to an observer that counts admissions from any moment on;
`latest` records the latest reading applied.

### FirstStart

A container is one `pc[c]` that runs through `docker-entrypoint.sh` (`Check`,
`Mkdir`, `Recheck`, `Unlock`, or `WaitSees` and `WaitTimesOut`), `tabby-sync
bootstrap` inside the lock (`Stat`, `WriteToken`, `WriteUsers`,
`BootstrapFails`), and `serve` (`LoadUsers`, `ReadKey`, `RenameKey`,
`StoreRow`). Every look at a file and every rename is a step of its own.
`bootstrap` and `serve` write to a temporary name and rename, so a write is one
step. `racers` records who drew a master key while another container was about
to save one. Tokens and keys are numbers, never drawn twice; `users` is the
token of the one user `bootstrap` creates, or `Skeleton`, the file of an `init`.
`Kill` ends a container at any step
without its trap. `RemoveStaleLock` and `DeleteToken` are the operator, who does
what the script's messages say. The fifty polls of the waiting loop are one poll
that sees the file or gives up.

`tabby-sync init` (`InitKey`, `InitKeyWritten`, `InitUsers`, `InitUsersWritten`)
may run whenever no container does, also after a bootstrap was killed. It writes
in place, so `master.key` and `users.yml` exist with some of their bytes (`Torn`)
for a while, and for good if it is killed (`InitKilled`). Its users file lists no
user, and it does not look at `token.txt`.

### Migrations and Deployment

`at[p]` is where a call of `sqlite.Open` is: `Connect`, `CreateLedger`,
`LoadApplied`, then for each version of its binary `SkipApplied`, or
`BeginMigration`, `Exec` per statement, `Record`, `CommitMigration`; then
`Opened`. `LoadApplied` reads outside of a transaction, as the code does, so
another process may apply a version after it. `Record` then meets the primary
key and `RecordFails` rolls back and fails the call. `AbandonOpen` is any other
failure and the death of the process. `effects` counts how often each statement
took effect; the `IF NOT EXISTS` of the first migration is left out on purpose,
because later ones may not have it.

`Deployment` conjoins steps of the two modules: `serve` calls `sqlite.Open`
before it loads users and key (`ServeOpens`, `StoreReady`), a failed `Open` ends
it (`ServeConflicts`), and a container that dies takes its transaction with it
(`Dies`). Its theorem `ImplementsItsParts` says that it implements the
specifications of both modules, so that their theorems hold of it.

`ConfigService` starts where `serve` holds its key, with the keys of all
processes equal. `KeyOnDisk` is what that takes, and `key_race` shows when it
fails.

### UsersFile

A `user` command is two steps: `Load` reads and checks the file, `Add`,
`Rotate` or `Rm` replaces it by the changed copy; `GiveUp` is a failed save or a
declined confirmation. An entry holds its token in place of the token's hash.
`StartServer` validates the file and takes the snapshot `Lookup` searches;
`Request` stores a configuration under the id of the token's user. `person`,
`owed`, `due` record who a token was printed for and which tokens the commands
have reported valid, now and at the server's start; `stale` and `removed` whether
a command has saved over a change it had not read, and removed a user. Left out:
the `disabled` flag, which only people editing the file set, and targets that
are a number (an id finds the entry its name finds, unless somebody's name is a
number).

### HttpServer

A request descends through the layers of `buildHandler`, outermost first. `pc[c]`
is the layer it has reached:

| Step | Code |
|---|---|
| `SecurityHeaders`, `CORS` | both above the access log; `CORS` answers preflights |
| `TrustedProxy`, `RequestID` | client address from `X-Forwarded-For` of a trusted peer; the id given or a new one |
| `MaxBodyBytes`, `ReadTimeout` | reads the body before anything below runs: 413, 400, or the server's `ReadTimeout` |
| `Authenticate`, `Limit`, `Mux`, `Handle` | `routeAwareAuth`, the limiter and its key, the two muxes, an API handler in two writes |
| `Panic`, `Recover`, `AccessLog`, `Finish` | the way out; `Recover` lets `http.ErrAbortHandler` pass |
| `Cancelled`, `Drained`, `DeadlineExpires`, `ServeFails`, `Exit`, `Restart` | `server.Run` and its supervisor |

`ex[c]` is the exchange: what the layers put into the context, the header map,
the two `statusRecorder`s (`inner` is Recover's, `outer` AccessLog's), what
went over the wire (`wire`, with the layers that wrote its body), and its access
records. The limiter and the handlers appear by their outcomes; `RateLimit` and
`ConfigService` model what they decide.

### BackupRestore

`data` is the volume, a function from file to contents: database, write-ahead
log, key, users, token. The service (`Up`, `Down`, `Crash`, `Write`) creates
what is missing when it starts, appends rows to the log, and moves the log into
the database when it closes in time. `backup.sh` is `BeginBackup`, `BackupStop`,
`Copy` per file, `Publish`, `Finish`. `restore.sh` is `BeginRestore`,
`RestoreStop`, `Extract`, `MoveOld` per file, `Install` per file, `Commit` (after
`doctor`), `Sweep`, `Finish`; its rollback is `Clear`, `PutBack` per file,
`Sweep`. `BackupInterrupted` and `RestoreInterrupted` stand for a failing command or
a signal before any of these; `FirstUndo` is where the trap then begins.
`KillContainer` and `KillHost` are kills on either side that no trap sees. A
restore is given a backup as it was made, or with one file lost or damaged.

Ghosts: `acked` are the rows the volume owes its clients (those of the backup
after a restore is committed), `before` the volume an uncommitted restore has to
keep, `broken` that a killed container left it half done. A backup records what the
volume owed when it was taken and whether a log was left behind.

Assumed: one script runs at a time and nobody else operates the service
meanwhile; Docker restarts a crashed service only when no script runs; the
destination of a backup does not appear while it is being built. A `compose
start` that fails is only reported by the scripts and is not modelled as a
failure.

## 3. Runs

| Run | Instance | Shows |
|---|---|---|
| `edits` | 1 process, 2 handlers, 1 user, 3 requests, every fault, a failing listener included, fairness | `QuotaSlack`, `NoopStillHolds`, `FreshPatchApplied`, `RepeatPreservesModifiedAt`, `OnlyLateCommitsDamage`, `RequestsEnd`, `ShutdownEnds` |
| `fleet` | 2 processes with 2 handlers (symmetric) and 1, 2 users, crashes and aborts at every step, 3 requests | `TypeOK`, `RowsReadable`, `WaitsEnd`, `VersionIdentifiesContent`, `RowsChangeForOwner`, `ImplementsContract` |
| `bucket` | 2 callers of one key, the sweeper, 10 ticks | `AdmissionBound`, `EvictionsUnseen`, `SpacedRequestAdmitted` |
| `first_start` | 2 containers of 2 releases, perhaps an `init`, 3 kills or failed writes, fairness | `DeploymentTypeOK`, `TokenOpens`, `RowsSurviveRestart`, `AppliedOnce`, `NoGap`, `ServesItsSchema`, `CredentialsKept`, `EventuallyServes` |
| `users` | 2 operators, 2 names (both symmetric), 3 tokens | `FileLoads`, `TokensAsReported`, `RowsStayApart`, `IdsStay` |
| `server` | 2 connections, 7 kinds of request, panics, stalled clients, shutdowns, fairness | `RecordsTruthful`, `HeadersOnEveryResponse`, `OneAuthor`, `HandlerGuarded`, `CutOnlyByForce`, `EveryRequestEnds` |
| `backup_restore` | 1 backup, any number of restores, 3 draws, a kill on either side, fairness | `TypeOK`, `EndsWhole`, `OldFilesKept`, `VolumeServes`, `BackupsComplete`, `ServiceBack` |

The type invariants of `RateLimit`, `UsersFile` and `HttpServer` are theorems
(section 4) and are not repeated as invariants of their runs.

Five runs show that the code does not do what the repository says. Each
checks one property and TLC finds it violated:

| Run | Property | What happens |
|---|---|---|
| `quota_race` | `QuotaHolds` | Two creates of one user count before either inserts. The user exceeds the quota (`docs/SECURITY_MODEL.md:28`). `QuotaSlack` says by how much at most. |
| `upload_race` | `LastWriteWins` | Two overlapping full uploads: each writes only the fields that differ from the row it read. The row gets the name of one and the content of the other (`docs/CLIENT_SETUP.md:49`). |
| `shutdown_deadline` | `RowsReadable` | A handler outlives the shutdown deadline, seals with the wiped key and commits a row nobody can decrypt (`docs/CRYPTO.md:104`). |
| `key_race` | `KeyOnDisk` | Two containers find no master key; each writes one over the other. The first serves with a key that is no longer on disk, so its rows are lost at its restart (`internal/keys/file_provider.go:36`, `docker-entrypoint.sh:10`). |
| `users_reuse` | `RowsOfOnePerson` | `user rm` of the newest user and `user add`: the new user gets the id and the rows of the old one (`docs/users.yml.example:12`). |

For each there is a passing property with the condition under which the code
keeps its word. `QuotaSlack`: the overrun is bounded by the concurrency.
`FreshPatchApplied` and `RepeatPreservesModifiedAt`: the row is still as the
PATCH read it. `RowsReadable` in `fleet`: no deadline expires and no listener fails.
`OnlyLateCommitsDamage`: where one does, the damage is done by a commit in the
process that is closing and by nothing else.
`RowsSurviveRestart`: no two containers looked for the key before either saved one
(`racers`). `RowsStayApart`: no user was removed and no command saved over a change
it had not read (`stale`). `TokensAsReported` and `IdsStay` have the condition on
saves too: a `user add` that reads the file before a `user rotate` saves, and
saves after it, brings the rotated token back. The window of `upload_race` also
lets two overlapping identical uploads advance `modified_at` twice, where
`docs/API.md:87` says that repeating an upload preserves it.

For the three races it is proved that the overlap is all there is to them:
`QuotaHolds`, `LastWriteWins` and `KeyOnDisk`, the very properties that the runs
violate, are theorems for one handler or one container at a time, whatever else
goes wrong (`QuotaHoldsAlone`, `LastWriteWinsAlone`, `KeyOnDiskAlone`).

Exceptions built into properties, because the code works that way:

* `TokenOpens` excepts servers whose users file lists nobody. A bootstrap killed
  between `token.txt` and `users.yml`, followed by an `init`, leaves a token beside
  the file of the `init`, and that token opens nothing: `runInit` does not look at
  `token.txt`, and no later start replaces a users file.
* `RecordsTruthful` excepts preflights. `CORS` answers them above `AccessLog`, so
  they leave no record, although `docs/LOGGING_POLICY.md:13` speaks of every
  request. It also excepts requests aborted with `http.ErrAbortHandler`.
* `BackupsComplete` excepts rows in a log left by a crash or a stop cut short:
  `backup.sh` copies only the database file, and relies on the checkpoint of a
  clean stop (`docs/DEPLOYMENT.md:171`).
* `VolumeServes` excepts volumes a killed restore left half moved (`broken`);
  `OldFilesKept` says that the files are all still there.
* `EventuallyServes` excepts a file a killed `init` left torn: every start
  refuses it.

### Bounds

`MaxRequests` bounds the requests of a behaviour and `MaxClock` the clock.
Three requests are a create and two overlapping operations on its row, or two
overlapping ones and one to observe the result. In `fleet` they also make the
longest wait: a handler that waits for the connection of one that waits for the
write lock of the other process. Two clock
values let the clock stand still, advance and step back; `modified_at` exceeds
them by the increments of `nextModifiedAt`. Ids run to 3 in `edits`, where
they never run out, and to 2 in `fleet`, where they do. In
`edits` the quota is 1, so the check is reached by every second create. In
`bucket` there are several windows (`Window` 4, `MaxTime` 10), so that an idle
bucket is evicted and comes back. `MaxMishaps` bounds kills and failed writes:
three are enough to kill the bootstrapping container, the one that waited for
it, and a server. Two releases of one and two migrations with two statements
each give every race: over the same migration, over one the other does not have,
and a death between statements. `MaxTokens` bounds commands that print a token;
three make an add, and a rotation and another add that overlap. The requests of
`server` include each outcome of each layer, and `BodyLimit` 1 puts bodies at
and above the limit. In `backup_restore` three draws are a first start and two
rows, or two rows around a restore that makes the next start draw again; `MaxFaults`
allows one kill of the container and one of the script. Two backups do not
finish in TLC; the theorems on `BackupRestore` cover every number. Deadlock
checking is on in every run.

### Fairness

`ConfigService`: weak fairness of the steps of a handler, `Handle(s)` or, where it
waits for the write lock, `BusyTimeout(s)`, and of the shutdown steps of a
process. The first and the last are what the Go scheduler gives a runnable
goroutine, the second is SQLite's timer; `database/sql` queues requests for the
connection first come, first served. Nothing forces requests, faults, restarts or clock steps. The retry loop
of a no-op PATCH ends because every further round needs another committed
change of that row, and clients send finitely many requests (`MaxRequests`);
against clients that never stop, the loop has no bound of its own.

`Deployment`: containers run, the supervisor starts a container that is down
(`restart: unless-stopped` in `docker-compose.yml`), an `init` that was begun and
not killed ends, and the operator removes a lock directory no container holds,
which the message at the timeout asks for. Without the last, a kill inside the
bootstrap stops all later starts for good.

`HttpServer`: goroutines run, the shutdown timer fires, a process that left `Run`
exits. A client need not send its body: `MaxBodyBytes` is not fair, and requests
end because of `ReadTimeout`, which is. Nothing forces a shutdown or a restart.

`BackupRestore`: a script that is not killed takes its next command or, where
that cannot succeed, its failing branch.

## 4. Proofs

Every theorem holds for every value of the constants that satisfies the named
assumptions of its module, and so for any number of processes, slots, users,
containers, operators, connections, backups or kills. TLC evaluates the
assumptions in every run.

| Module | Theorem | States |
|---|---|---|
| `ConfigService` | `TypeCorrect` | `[]TypeOK` |
| | `NoCircularWait` | `[]WaitsEnd` |
| | `VersionsIdentify` | `[]VersionIdentifiesContent` |
| | `NoopsSwallowNothing` | `NoopStillHolds` |
| | `FreshPatchesApply` | `FreshPatchApplied` |
| | `RepeatsKeepModifiedAt` | `RepeatPreservesModifiedAt` |
| | `RowsAlwaysReadable` | `[]RowsReadable`, when no shutdown deadline expires and Serve does not fail |
| | `DamageIsLate` | `OnlyLateCommitsDamage`, under every fault |
| | `LastWriteWinsAlone` | `LastWriteWins`, with one handler |
| | `ContractImplemented` | `ImplementsContract` |
| | `OwnersOnly` | `RowsChangeForOwner` |
| | `QuotaBounded` | `[]QuotaSlack` |
| | `QuotaHoldsAlone` | `[]QuotaHolds`, with one handler |
| `RateLimit` | `AdmissionBounded` | `[]AdmissionBound` |
| | `SpacedAlwaysAdmitted` | `SpacedRequestAdmitted` |
| | `SweeperUnseen` | `EvictionsUnseen` |
| | `LimiterTyped` | `[]TypeOK` |
| `FirstStart` | `TokenAlwaysOpens` | `[]TokenOpens` |
| | `CredentialsAlwaysKept` | `CredentialsKept` |
| | `RowsAlwaysSurvive` | `[]RowsSurviveRestart` |
| | `KeyOnDiskAlone` | `[]KeyOnDisk`, with one container |
| `Migrations` | `EveryMigrationOnce` | `[]AppliedOnce` |
| | `LedgerHasNoGap` | `[]NoGap` |
| | `OpenIsUpToDate` | a process whose `Open` has returned finds all its migrations recorded |
| `Deployment` | `ImplementsItsParts` | the composition implements `FirstStart` and `Migrations` |
| | `UpServersHaveTheirSchema` | `[]ServesItsSchema` |
| | `DeploymentTyped` | `[]DeploymentTypeOK` |
| | `DeploymentKeepsTheVolume` | the properties of both parts hold of the composition |
| `UsersFile` | `FileAlwaysLoads` | `[]FileLoads` |
| | `ServerOpensAsReported` | `[]TokensAsReported` |
| | `IdsAlwaysStay` | `IdsStay` |
| | `RowsAlwaysApart` | `[]RowsStayApart` |
| | `UsersTyped` | `[]TypeOK` |
| `HttpServer` | `RecordsAreTruthful` | `[]RecordsTruthful` |
| | `ResponsesHaveHeaders` | `[]HeadersOnEveryResponse` |
| | `ResponsesHaveOneAuthor` | `[]OneAuthor` |
| | `HandlersAreGuarded` | `[]HandlerGuarded` |
| | `ShutdownCutsNothing` | `CutOnlyByForce` |
| | `ExchangesTyped` | `[]TypeOK` |
| `BackupRestore` | `OldFilesAlwaysKept` | `[]OldFilesKept` |
| | `RestoreEndsWhole` | `[]EndsWhole` |
| | `VolumeAlwaysServes` | `[]VolumeServes` |
| | `BackupsAlwaysComplete` | `[]BackupsComplete` |
| | `VolumeTyped` | `[]TypeOK` |

**ConfigService.** `Inv` is inductive and carries the rest:

* `HandlerInv`: a busy slot serves a request that passed validation and is at a
  step of its kind. Without it a commit could be of any request.
* `CompareInv`: a PATCH past its read has a row to compare with and, if the
  content changed, a ciphertext.
* `LockInv`: the write lock is held exactly by the slot inside a transaction;
  without a transaction the private copy equals the database. This is what
  makes each transaction appear atomic.
* `FreshInv`: ids above the counter are unused.
* `TxInv`: what the open transaction has done so far — nothing, reserved or
  completed one fresh row, or rewritten one row of its owner so that
  `modified_at` advanced or name and content stayed (`RowEvolves`).

`VersionInv` adds that everything recorded of a row — in responses, in the
client's copy, in the row a PATCH compared with — *records* a version: its id was
handed out, and if the table holds that id with the recorded `modified_at`, owner,
name and content are the recorded ones. `RowsEvolve` shows every step keeps a
record true. `NoopInv` says a transaction that found nothing to change holds what
its PATCH asks for, because the `modified_at` it checked equals the recorded one.

`ReadInv` is about readable rows. In a process whose `Close` has not begun,
the ciphertext a slot holds opens for the row it is meant for, and
every row of the private copy at COMMIT opens if it did in the database. The
reserved row is the one exception, and only before its transaction commits. A
process that has begun to close goes on until it ends, and its requests with it
(`ClosingStays`), so a commit that damages a row is one of a closing process;
without expiring deadlines and failing listeners among the faults, no process
closes under a request and all rows open. `CurInv`, for a single handler, says that the
row a PATCH compared with is still in the table.

`HoldInv` says that a connection is in use only by a slot of its own process,
inside a transaction or at the statement that waits for the write lock, and that
busy slots are in live processes. With `LockInv`, who has the lock is inside a
transaction and waits for nobody, so that chains of waits have at most two links;
that the one at the end goes on is `RequestsEnd`, which TLC checks.

The quota bound is inductive with its pending creates: a create enters
`Pending` only after a count below the quota, and while it is there at most the
other slots are pending; a commit moves it from the pending to the rows, and a
failure only lowers the sum.

For the refinement, `AsConfigs` drops the ciphertext. Only DELETE and COMMIT change
the database (`TableStep`); each is a step of the contract, everything else a
stutter.

**RateLimit**, from `LimiterAssumption`: no goroutine waits for the mutex longer
than half a window. `SolventInv` says that out-of-order readings take no more from
a bucket than the latest reading gives back. `CreditInv` says, for every time from
`MaxDelay` ago on and not just now, that what was admitted and what is left do
not exceed a full bucket and the refill; it must hold for past times because
such readings are still to be applied. An evicted bucket was full at every one of
these times (`IdleIsFull`), so that its return as a full one mints nothing.
`EvictedIsFull` says so of the times to come as well, which makes an eviction
invisible to every later request.

**FirstStart.** `LockInv`: at most one container is inside the lock, and the lock
directory exists while it is. `BootInv`: a bootstrap past its check finds no users
file until it writes its own. `FileInv` and `ServeInv`: once there is a users
file with a user in it, token.txt is absent or matches it, and every server has loaded just that
file. `SetupInv`: `init` is alone on the volume, and what it is writing is torn.
`KeyInv`, for row survival: while nobody has raced, at most one container is about
to save a key, only while there is none, and servers and rows have the key on
disk. A single container cannot race, which leaves its `KeyInv` without exception.

**Migrations and Deployment.** `WriterInv`: the write lock is with the process
inside a migration. `LoopInv`: a loop has passed only versions that are recorded,
and what it saw applied is still recorded. `TxInv`: a transaction has added
exactly the statements it has executed of one version, and at its commit that
version was not recorded before. `AppliedOnce` follows because the ledger and the
effects are published together. For the composition, each step is shown to be a
step or a stutter of both parts; `StoreInv` (a server past its store has it open)
joins the two.

**UsersFile.** `CopiesInv` is the point: every copy of the file, also one a
command holds that is out of date, is `Sound` by itself, and no entry has an id or
token still to be drawn. So whichever copy is saved last, the file loads.
`NextIdIsNew` shows that the id of `user add` is above all others, by the least
element of a set of naturals. `TokensInv` and `PeopleInv` relate the file, the
server's snapshot and the stored rows as long as no save was stale.

**HttpServer.** `Ok(at, x)` says for each layer what an exchange that has reached
it looks like: on the way in nothing is written, and what the layers above have
established holds (`OkIn`); on the way out status line, outer recorder and wire
agree (`OkOut`). One lemma per layer shows it hands on an `Ok` exchange.
`RunInv`, for shutdowns: `Run` has returned from a drain only when no connection
has a request, and none is accepted after it.

**BackupRestore.** `PhaseInv` says where each file is at each step of a restore:
before its turn in place (`Here`), after it in `.restore-old` with its place free
(`Aside`), then replaced by the source's, and in the rollback back in place; the
index of the loop decides. `QuietInv`: the service is down wherever a script takes
it to be, so the volume does not move under it. `WholeInv`: unless a kill left the
volume half done, the volume, or the one an uncommitted restore has to keep, can
be started on with every row it owes. `CopyInv`: what `backup.sh` has copied so
far is what the volume has. `BackupsComplete` is part of the invariant because a
restore makes a backup the volume. `OwedInv`, for the types: only rows that were
drawn are owed, and a published backup has every file.

Every invariant and every action property that a passing run checks is proved.
Only model-checked are the liveness properties (`RequestsEnd`, `ShutdownEnds`,
`EventuallyServes`, `EveryRequestEnds`, `ServiceBack`), as fairness and ENABLED are
out of the prover's reach, and the five violations, which need only an example.

## 5. Not modelled

* Configuration parsing (`internal/config`) and version information: read once,
  no state that changes. `GET /api/1/user` reads the request context only.
* `CreateConfig` of the SQLite store, which has no caller outside tests; the
  values of file modes and pragmas (a failure to set them fails `Open`, which is
  modelled).
* `auth.None`, `Reload` of the users file, which the server never calls, and the
  `disabled` flag: a disabled user is to the server one without an entry.
* `statusRecorder.Flush`, which no handler reaches, and the branch of
  `MaxBodyBytes` for a nil body, which a server request never has. The comment at
  `middleware.go:268` says that its limit leaves room for JSON framing around the
  largest content, `docs/API.md:168` that framing counts toward it; both are
  sizes, which the models abstract to fits and does not fit.
* Power loss. A crash is the death of a process; what `synchronous=NORMAL` may
  lose with the machine is not modelled.
* float64 rounding in the rate limiter, the cipher of the envelope, SQL text and
  the YAML and JSON encodings.
* `doctor` and the end of `init` open the database and close it at once; to other
  processes they are a container killed at that point of `Deployment`, and are
  not actions of their own. `restore.sh` uses the verdict of `doctor`, which
  `BackupRestore` models.
* The composition of all modules in one. They meet at interfaces: what
  `HttpServer` lets through is what `ConfigService` accepts; `Deployment` and
  `UsersFile` end where a server holds users and key, where `ConfigService`
  begins; `BackupRestore` takes a service that creates and serves its files.
