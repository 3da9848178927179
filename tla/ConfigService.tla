---------------------------- MODULE ConfigService ----------------------------
(***************************************************************************)
(* The configuration service: the HTTP handlers of internal/api over the   *)
(* encrypting store (internal/store/encrypted) over SQLite                 *)
(* (internal/store/sqlite), as run by one or more server processes that    *)
(* share one database file.                                                *)
(*                                                                         *)
(* A slot is a goroutine serving one request at a time.  Every SQL         *)
(* statement outside a transaction is one step; a transaction is BEGIN     *)
(* IMMEDIATE, its statements on a private copy of the database, COMMIT.    *)
(* A process has one connection (MaxOpenConns = 1), so its statements and  *)
(* transactions exclude each other; the write lock excludes the writers of *)
(* all processes, while readers of other processes see the last commit.    *)
(***************************************************************************)
EXTENDS Integers, FiniteSets, Envelope

CONSTANTS
    Procs,              \* server processes sharing the data directory
    Slots,              \* goroutines serving requests
    ProcOf,             \* the process a slot belongs to
    Users,              \* authenticated user ids
    Names, Contents,    \* values of the name and content columns
    Versions,           \* values of last_used_with_version ("" is SQL NULL)
    Oversized,          \* contents longer than MaxContentBytes
    Workload,           \* the requests clients may send
    MaxConfigsPerUser,  \* the quota of the create handler
    MaxId,              \* the largest row id SQLite can hand out
    MaxClock,           \* bound: largest wall clock reading
    MaxRequests,        \* bound: requests accepted in a behaviour
    Faults,             \* what may go wrong: a subset of FaultKinds
    Watched,            \* TRUE if a client keeps rows of responses
    Nil,                \* an absent JSON field, an unset pointer
    NoRow,              \* no such row
    None                \* no slot

Ids == 1..MaxId

\* abort: a context is cancelled or a statement fails; crash: a process is
\* killed; shutdown: a process is told to stop; deadline: the 10 s a shutdown
\* waits for requests run out.
FaultKinds == {"abort", "crash", "shutdown", "deadline", "serve"}

Request == [op : {"get", "list", "create", "patch", "delete"},
            user : Users, id : Ids \cup {0},
            name : Names \cup {Nil}, content : Contents \cup {Nil},
            luwv : Versions \cup {Nil}]

Envelopes == [key : Keys \cup {NoKey}, aad : Users \X Ids, plain : Contents]

\* A row of the configs table.  The id is the index; created_at, which is only
\* copied to responses, is left out.
Row == [user : Users, name : Names, env : Envelopes, luwv : Versions,
        modified : Nat]

\* What a response carries of a row: store.ConfigWithPlaintext.
View == [id : Ids, user : Users, name : Names, content : Contents,
         luwv : Versions, modified : Nat]

\* A row without its ciphertext: a configuration of ConfigContract.
Config == [user : Users, name : Names, content : Contents, luwv : Versions,
           modified : Nat]

ASSUME ConstantsOK ==
    /\ ProcOf \in [Slots -> Procs]
    /\ IsFiniteSet(Slots)
    /\ "" \in Names /\ "" \in Contents /\ "" \in Versions
    /\ Oversized \subseteq Contents
    /\ Workload \subseteq Request
    /\ MaxConfigsPerUser \in Nat \ {0}
    /\ MaxId \in Nat \ {0}
    /\ MaxClock \in Nat /\ MaxRequests \in Nat
    /\ Faults \subseteq FaultKinds
    /\ Nil \notin Names \cup Contents \cup Versions \cup Request
    /\ NoRow \notin Row \cup Config
    /\ None \notin Slots

VARIABLES
    rows,    \* the committed configs table: id -> row or NoRow
    seq,     \* the committed AUTOINCREMENT counter (sqlite_sequence)
    txRows,  \* the table as the open transaction sees it
    txSeq,   \* the counter as the open transaction sees it
    writer,  \* the slot whose transaction holds SQLite's write lock
    conn,    \* process -> the slot holding its connection
    clock,   \* the wall clock; it may stall and step back
    proc,    \* process -> where it is in its life
    taking,  \* the processes that take requests on their connections
    pc,      \* slot -> next step of its handler
    q,       \* slot -> the request it serves (kept until the next one)
    cur,     \* slot -> the row a PATCH compared itself with
    env,     \* slot -> the ciphertext a PATCH is about to store
    resp,    \* slot -> the last response
    served,  \* number of requests accepted
    cache    \* one response row some client keeps

dbVars == <<rows, seq>>
txVars == <<txRows, txSeq, writer>>
reqVars == <<pc, q, cur, env, resp, served>>
vars == <<dbVars, txVars, conn, clock, proc, taking, reqVars, cache>>
----------------------------------------------------------------------------
(***************************************************************************)
(* Helpers.                                                                *)
(***************************************************************************)

\* Mutant of NextModifiedAt: the bare clock.
ClockModifiedAt(old) == clock

\* nextModifiedAt(old): the clock, or one millisecond after old when the clock
\* has not moved past it.
NextModifiedAt(old) == IF clock > old THEN clock ELSE old + 1

\* Mutant of Lookup: WHERE id = ? only.
LookupById(table, user, id) == table[id]

\* SELECT ... WHERE id = ? AND user_id = ?
Lookup(table, user, id) ==
    IF table[id] # NoRow /\ table[id].user = user THEN table[id] ELSE NoRow

OwnedIds(table, user) == {id \in Ids : Lookup(table, user, id) # NoRow}

\* toPlaintext: a decrypted row as the response shows it.
ToPlaintext(id, row) ==
    [id |-> id, user |-> row.user, name |-> row.name,
     content |-> Plain(row.env), luwv |-> row.luwv, modified |-> row.modified]

\* The bytes of the master key a goroutine of p may read.  Close wipes the
\* buffer without synchronising with goroutines still using it.
KeysInUse(p) ==
    CASE proc[p] = "wiping" -> Keys
      [] proc[p] \in {"wiped", "closed"} -> {ZeroKey}
      [] OTHER -> {MasterKey}

Alive(p) == proc[p] # "down"

\* sql.DB hands out its connection: it is not closed and the connection is idle.
CanQuery(p) == proc[p] \notin {"closed", "down"} /\ conn[p] = None

Busy(s) == pc[s] # "idle"

\* Slot s is about to take this step.
At(s, step) == pc[s] = step /\ Alive(ProcOf[s])

\* The handler writes its response and returns.
Respond(s, status, body) ==
    /\ pc' = [pc EXCEPT ![s] = "idle"]
    /\ resp' = [resp EXCEPT ![s] = [status |-> status, body |-> body]]
    /\ cur' = [cur EXCEPT ![s] = NoRow]
    /\ env' = [env EXCEPT ![s] = Nil]
    /\ UNCHANGED <<q, served>>

\* The handler goes on to its next step.
Goto(s, step) ==
    /\ pc' = [pc EXCEPT ![s] = step]
    /\ UNCHANGED <<q, cur, env, resp, served>>

\* Mutant of Rollback: the connection is not given back.
RollbackLeaks(p) ==
    /\ txRows' = rows /\ txSeq' = seq /\ writer' = None
    /\ UNCHANGED <<dbVars, conn>>

\* The open transaction is rolled back and its connection released.
Rollback(p) ==
    /\ txRows' = rows
    /\ txSeq' = seq
    /\ writer' = None
    /\ conn' = [conn EXCEPT ![p] = None]
    /\ UNCHANGED dbVars

\* A statement outside a transaction has failed: its connection is released.
Disconnect(p) ==
    /\ conn' = [conn EXCEPT ![p] = None]
    /\ UNCHANGED <<dbVars, txVars>>
----------------------------------------------------------------------------
(***************************************************************************)
(* The handlers.                                                           *)
(***************************************************************************)

FirstStep == [get |-> "get", list |-> "list", create |-> "count",
              patch |-> "read", delete |-> "delete"]

\* Checks the handlers make before they touch the store, as the status of the
\* error response, or 0: of the id in the path, of a create, of a patch.
BadId(m) == IF m.op \in {"get", "patch", "delete"} /\ m.id = 0 THEN 404 ELSE 0
BadCreate(m) == IF m.op = "create" /\ m.name \in {Nil, ""} THEN 400 ELSE 0
BadPatch(m) ==
    IF m.op = "patch" /\ {m.name, m.content, m.luwv} = {Nil} THEN 400
    ELSE IF m.op = "patch" /\ m.content \in Oversized THEN 413 ELSE 0

Rejected(m) ==
    IF BadId(m) # 0 THEN BadId(m)
    ELSE IF BadCreate(m) # 0 THEN BadCreate(m) ELSE BadPatch(m)

\* A request arrives, is decoded and checked.
Accept(s, m) ==
    /\ Alive(ProcOf[s]) /\ ProcOf[s] \in taking
    /\ pc[s] = "idle"
    /\ served < MaxRequests
    /\ served' = served + 1
    /\ q' = [q EXCEPT ![s] = m]
    /\ pc' = [pc EXCEPT ![s] = IF Rejected(m) = 0 THEN FirstStep[m.op] ELSE "idle"]
    /\ resp' = [resp EXCEPT ![s] = [status |-> Rejected(m), body |-> {}]]
    /\ UNCHANGED <<cur, env, dbVars, txVars, conn, clock, proc, taking, cache>>

\* GetConfigPlaintext and the response made of it.
FetchRow(s, key) ==
    LET row == Lookup(rows, q[s].user, q[s].id)
    IN  IF row = NoRow THEN Respond(s, 404, {})
        ELSE IF Opens(key, q[s].user, q[s].id, row.env)
             THEN Respond(s, 200, {ToPlaintext(q[s].id, row)})
             ELSE Respond(s, 500, {})

Get(s) ==
    /\ At(s, "get")
    /\ CanQuery(ProcOf[s])
    /\ \E key \in KeysInUse(ProcOf[s]) : FetchRow(s, key)
    /\ UNCHANGED <<dbVars, txVars, conn, clock, proc, taking, cache>>

\* The reload that ends a PATCH.  The code reads twice, in UpdateConfig and in
\* UpdateConfigPlaintext; the response is what the second read finds.
Reload(s) ==
    /\ At(s, "reload")
    /\ CanQuery(ProcOf[s])
    /\ \E key \in KeysInUse(ProcOf[s]) : FetchRow(s, key)
    /\ UNCHANGED <<dbVars, txVars, conn, clock, proc, taking, cache>>

\* ListConfigsByUserPlaintext: one row that does not open fails the list.
FetchRows(s, key) ==
    LET ids == OwnedIds(rows, q[s].user)
    IN  IF \A id \in ids : Opens(key, q[s].user, id, rows[id].env)
        THEN Respond(s, 200, {ToPlaintext(id, rows[id]) : id \in ids})
        ELSE Respond(s, 500, {})

List(s) ==
    /\ At(s, "list")
    /\ CanQuery(ProcOf[s])
    /\ \E key \in KeysInUse(ProcOf[s]) : FetchRows(s, key)
    /\ UNCHANGED <<dbVars, txVars, conn, clock, proc, taking, cache>>

\* A statement that writes takes the connection of its process, and keeps it
\* while it waits for the write lock, which another process may have.
Connect(s) ==
    LET p == ProcOf[s]
    IN  /\ At(s, "begin") \/ At(s, "delete")
        /\ CanQuery(p)
        /\ conn' = [conn EXCEPT ![p] = s]
        /\ UNCHANGED <<dbVars, txVars, clock, proc, taking, reqVars, cache>>

Connected(s) == conn[ProcOf[s]] = s

\* DeleteConfig: one DELETE statement, which takes the write lock.
Delete(s) ==
    LET p == ProcOf[s]
        id == q[s].id
    IN  /\ At(s, "delete")
        /\ Connected(s)
        /\ writer = None
        /\ IF Lookup(rows, q[s].user, id) = NoRow
           THEN Respond(s, 404, {}) /\ UNCHANGED <<rows, txRows>>
           ELSE /\ Respond(s, 204, {})
                /\ rows' = [rows EXCEPT ![id] = NoRow]
                /\ txRows' = rows'
        /\ conn' = [conn EXCEPT ![p] = None]
        /\ UNCHANGED <<seq, txSeq, writer, clock, proc, taking, cache>>

\* Mutant of QuotaReached: off by one.
QuotaPassed(count) == count > MaxConfigsPerUser

QuotaReached(count) == count >= MaxConfigsPerUser

\* handleCreateConfig reads the count in a statement of its own.
Count(s) ==
    /\ At(s, "count")
    /\ CanQuery(ProcOf[s])
    /\ IF QuotaReached(Cardinality(OwnedIds(rows, q[s].user)))
       THEN Respond(s, 409, {})
       ELSE Goto(s, "begin")
    /\ UNCHANGED <<dbVars, txVars, conn, clock, proc, taking, cache>>

\* BeginTx: BEGIN IMMEDIATE takes the write lock.
Begin(s) ==
    /\ At(s, "begin")
    /\ Connected(s)
    /\ writer = None
    /\ writer' = s
    /\ Goto(s, IF q[s].op = "create" THEN "reserve" ELSE "apply")
    /\ UNCHANGED <<dbVars, txRows, txSeq, conn, clock, proc, taking, cache>>

\* The write lock stays with another process beyond busy_timeout.
BusyTimeout(s) ==
    /\ At(s, "begin") \/ At(s, "delete")
    /\ Connected(s)
    /\ writer # None
    /\ Disconnect(ProcOf[s])
    /\ Respond(s, 500, {})
    /\ UNCHANGED <<clock, proc, taking, cache>>

\* Mutant of NextRowId: a rowid without AUTOINCREMENT.
ReusedRowId == CHOOSE id \in 1..(MaxId + 1) :
    /\ \A i \in Ids : rows[i] # NoRow => i < id
    /\ id = 1 \/ rows[id - 1] # NoRow

\* AUTOINCREMENT: one more than any id a committed row ever had.
NextRowId == seq + 1

\* Mutant of IdsLeft: off by one.
IdsLeftOver == NextRowId <= MaxId + 1

\* The INSERT fails when the ids are used up.
IdsLeft == NextRowId <= MaxId

\* CreateConfigWithID inserts a row that only reserves the next id.
ReservedRow(s) ==
    [user |-> q[s].user, name |-> "", luwv |-> "", modified |-> clock,
     env |-> [key |-> NoKey, aad |-> BuildAAD(q[s].user, NextRowId), plain |-> ""]]

Reserve(s) ==
    /\ At(s, "reserve")
    /\ IF IdsLeft
       THEN /\ txSeq' = NextRowId
            /\ txRows' = [txRows EXCEPT ![NextRowId] = ReservedRow(s)]
            /\ Goto(s, "build")
            /\ UNCHANGED <<dbVars, writer, conn>>
       ELSE Rollback(ProcOf[s]) /\ Respond(s, 500, {})
    /\ UNCHANGED <<clock, proc, taking, cache>>

\* Mutant of Completed: the row keeps the bytes it was reserved with.
CompletedUnsealed(s, key, row) ==
    [row EXCEPT !.name = q[s].name, !.modified = NextModifiedAt(@)]

\* build(id) seals the empty content for the reserved id; the row is completed.
Completed(s, key, row) ==
    [row EXCEPT !.name = q[s].name,
                !.env = Encrypt(key, q[s].user, txSeq, ""),
                !.modified = NextModifiedAt(@)]

Build(s) ==
    /\ At(s, "build")
    /\ \E key \in KeysInUse(ProcOf[s]) :
         txRows' = [txRows EXCEPT ![txSeq] = Completed(s, key, @)]
    /\ Goto(s, "commit")
    /\ UNCHANGED <<dbVars, txSeq, writer, conn, clock, proc, taking, cache>>

\* UpdateConfigPlaintext compares the patch with the row it reads.
NameChanged(s) == q[s].name # Nil /\ q[s].name # cur[s].name
ContentChanged(s) == q[s].content # Nil /\ q[s].content # Plain(cur[s].env)

\* Mutant of Changed: a field that is present counts as changed.
ChangedIfPresent(s) == q[s].name # Nil \/ q[s].content # Nil

Changed(s) == NameChanged(s) \/ ContentChanged(s)

Read(s) ==
    LET p == ProcOf[s]
        row == Lookup(rows, q[s].user, q[s].id)
    IN  /\ At(s, "read")
        /\ CanQuery(p)
        /\ \E key \in KeysInUse(p) :
             IF row = NoRow THEN Respond(s, 404, {})
             ELSE IF Opens(key, q[s].user, q[s].id, row.env)
                  THEN /\ cur' = [cur EXCEPT ![s] = row]
                       /\ pc' = [pc EXCEPT ![s] = "seal"]
                       /\ UNCHANGED <<q, env, resp, served>>
                  ELSE Respond(s, 500, {})
        /\ UNCHANGED <<dbVars, txVars, conn, clock, proc, taking, cache>>

\* A content that differs is sealed before the transaction starts.
Seal(s) ==
    /\ At(s, "seal")
    /\ \E key \in KeysInUse(ProcOf[s]) :
         env' = [env EXCEPT ![s] = IF ContentChanged(s)
                                   THEN Encrypt(key, q[s].user, q[s].id, q[s].content)
                                   ELSE Nil]
    /\ pc' = [pc EXCEPT ![s] = "begin"]
    /\ UNCHANGED <<q, cur, resp, served, dbVars, txVars, conn, clock, proc, taking, cache>>

\* Mutant of Patched: a rename drops the content that came with it.
PatchedNameFirst(s, row) ==
    [row EXCEPT
       !.name = IF NameChanged(s) THEN q[s].name ELSE @,
       !.env = IF ContentChanged(s) /\ ~NameChanged(s) THEN env[s] ELSE @,
       !.modified = IF Changed(s) THEN NextModifiedAt(@) ELSE @]

\* The row as UpdateConfig rewrites it.  A patch that changes nothing leaves
\* modified_at alone, and last_used_with_version unless that differs.
Patched(s, row) ==
    [row EXCEPT
       !.name = IF NameChanged(s) THEN q[s].name ELSE @,
       !.env = IF ContentChanged(s) THEN env[s] ELSE @,
       !.luwv = IF q[s].luwv # Nil /\ (Changed(s) \/ q[s].luwv # cur[s].luwv)
                THEN q[s].luwv ELSE @,
       !.modified = IF Changed(s) THEN NextModifiedAt(@) ELSE @]

\* Mutant of ConfigChanged: no check.
NeverChanged(s, row) == FALSE

\* The optimistic check of a patch that changes nothing.
ConfigChanged(s, row) == ~Changed(s) /\ row.modified # cur[s].modified

\* UpdateConfig between BEGIN and COMMIT.
Apply(s) ==
    LET row == Lookup(txRows, q[s].user, q[s].id)
    IN  /\ At(s, "apply")
        /\ IF row = NoRow
           THEN Rollback(ProcOf[s]) /\ Respond(s, 404, {})
           ELSE IF ConfigChanged(s, row)
           THEN Rollback(ProcOf[s]) /\ Goto(s, "read")
           ELSE /\ txRows' = [txRows EXCEPT ![q[s].id] = Patched(s, row)]
                /\ Goto(s, "commit")
                /\ UNCHANGED <<dbVars, txSeq, writer, conn>>
        /\ UNCHANGED <<clock, proc, taking, cache>>

\* COMMIT publishes the transaction and releases lock and connection.
Commit(s) ==
    /\ At(s, "commit")
    /\ rows' = txRows
    /\ seq' = txSeq
    /\ writer' = None
    /\ conn' = [conn EXCEPT ![ProcOf[s]] = None]
    /\ IF q[s].op = "create"
       THEN Respond(s, 201, {ToPlaintext(txSeq, txRows[txSeq])})
       ELSE Goto(s, "reload")
    /\ UNCHANGED <<txRows, txSeq, clock, proc, taking, cache>>

\* The request's context is cancelled or a statement fails: whatever is not
\* committed is rolled back.  Every request that needs a connection fails once
\* the database handle is closed.
Abort(s) ==
    /\ Busy(s)
    /\ \/ "abort" \in Faults
       \/ proc[ProcOf[s]] = "closed" /\ ~Connected(s)
    /\ IF writer = s THEN Rollback(ProcOf[s])
       ELSE IF Connected(s) THEN Disconnect(ProcOf[s])
       ELSE UNCHANGED <<dbVars, txVars, conn>>
    /\ Respond(s, 500, {})
    /\ UNCHANGED <<clock, proc, taking, cache>>
----------------------------------------------------------------------------
(***************************************************************************)
(* Processes, the clock, and a client.                                     *)
(***************************************************************************)

SlotsOf(p) == {s \in Slots : ProcOf[s] = p}

\* The process ends: its requests get no response (status 0), SQLite rolls its
\* open transaction back.
Die(p) ==
    /\ proc' = [proc EXCEPT ![p] = "down"]
    /\ taking' = taking \ {p}
    /\ IF writer \in SlotsOf(p) THEN Rollback(p) ELSE Disconnect(p)
    /\ pc' = [s \in Slots |-> IF s \in SlotsOf(p) THEN "idle" ELSE pc[s]]
    /\ resp' = [s \in Slots |-> IF s \in SlotsOf(p) /\ Busy(s)
                                THEN [status |-> 0, body |-> {}] ELSE resp[s]]
    /\ cur' = [s \in Slots |-> IF s \in SlotsOf(p) THEN NoRow ELSE cur[s]]
    /\ env' = [s \in Slots |-> IF s \in SlotsOf(p) THEN Nil ELSE env[s]]
    /\ UNCHANGED <<q, served, clock, cache>>

Crash(p) == "crash" \in Faults /\ Alive(p) /\ Die(p)

\* The supervisor starts the process again; it loads the master key.
Start(p) ==
    /\ proc[p] = "down"
    /\ proc' = [proc EXCEPT ![p] = "up"]
    /\ taking' = taking \cup {p}
    /\ UNCHANGED <<dbVars, txVars, conn, clock, reqVars, cache>>

ProcStep(p, from, to) ==
    /\ proc[p] = from
    /\ proc' = [proc EXCEPT ![p] = to]
    /\ UNCHANGED <<dbVars, txVars, conn, clock, reqVars, cache>>

\* server.Run: the signal arrives and Shutdown stops accepting requests.
Shutdown(p) ==
    /\ "shutdown" \in Faults
    /\ ProcStep(p, "up", "draining")
    /\ taking' = taking \ {p}

\* server.Run: Serve fails and Run returns without a Shutdown.  runServe returns
\* and its deferred encStore.Close starts to wipe the key, while requests are in
\* flight and connections kept alive go on to send new ones.
ServeFails(p) ==
    /\ "serve" \in Faults
    /\ ProcStep(p, "up", "wiping")
    /\ UNCHANGED taking

\* Shutdown returns nil once no request is left; the deferred Close runs and
\* the process exits.
Drained(p) ==
    /\ proc[p] = "draining"
    /\ \A s \in SlotsOf(p) : ~Busy(s)
    /\ Die(p)

\* Shutdown gives up after 10 s with requests in flight, and the deferred Close
\* starts as above.
DeadlineExpires(p) ==
    /\ "deadline" \in Faults
    /\ \E s \in SlotsOf(p) : Busy(s)
    /\ ProcStep(p, "draining", "wiping")
    /\ UNCHANGED taking

\* Close has wiped the key, closes the database handle, and the process exits.
Wiped(p) == ProcStep(p, "wiping", "wiped") /\ UNCHANGED taking
CloseDB(p) == ProcStep(p, "wiped", "closed") /\ UNCHANGED taking
Exit(p) == proc[p] = "closed" /\ Die(p)

Tick ==
    /\ clock' \in 0..MaxClock
    /\ clock' # clock
    /\ UNCHANGED <<dbVars, txVars, conn, proc, taking, reqVars, cache>>

\* A client keeps a row of a response, to compare it with later ones.
Remember(s) ==
    /\ Watched
    /\ \E v \in resp[s].body : cache' = v
    /\ UNCHANGED <<dbVars, txVars, conn, clock, proc, taking, reqVars>>
----------------------------------------------------------------------------
Init ==
    /\ rows = [id \in Ids |-> NoRow]
    /\ seq = 0
    /\ txRows = rows
    /\ txSeq = 0
    /\ writer = None
    /\ conn = [p \in Procs |-> None]
    /\ clock = 0
    /\ proc = [p \in Procs |-> "up"]
    /\ taking = Procs
    /\ pc = [s \in Slots |-> "idle"]
    /\ q = [s \in Slots |-> Nil]
    /\ cur = [s \in Slots |-> NoRow]
    /\ env = [s \in Slots |-> Nil]
    /\ resp = [s \in Slots |-> [status |-> 0, body |-> {}]]
    /\ served = 0
    /\ cache = Nil

\* The steps of the handler a slot runs.
Handle(s) ==
    \/ Get(s) \/ List(s) \/ Connect(s) \/ Delete(s)
    \/ Count(s) \/ Begin(s) \/ Reserve(s) \/ Build(s)
    \/ Read(s) \/ Seal(s) \/ Apply(s) \/ Commit(s) \/ Reload(s)

Life(p) ==
    \/ Crash(p) \/ Start(p) \/ Shutdown(p) \/ Drained(p)
    \/ ServeFails(p) \/ DeadlineExpires(p) \/ Wiped(p) \/ CloseDB(p) \/ Exit(p)

Next ==
    \/ \E s \in Slots : \E m \in Workload : Accept(s, m)
    \/ \E s \in Slots : Handle(s) \/ BusyTimeout(s) \/ Abort(s) \/ Remember(s)
    \/ \E p \in Procs : Life(p)
    \/ Tick

Spec == Init /\ [][Next]_vars

\* The Go scheduler runs every goroutine that can run, busy_timeout ends a wait
\* for the write lock, and a shutdown that may go on does.  Nothing forces
\* requests, faults, clock steps or restarts.
Fairness ==
    /\ \A s \in Slots : WF_vars(Handle(s) \/ BusyTimeout(s))
    /\ \A p \in Procs : WF_vars(Drained(p) \/ Wiped(p) \/ CloseDB(p) \/ Exit(p))

FairSpec == Spec /\ Fairness
----------------------------------------------------------------------------
(***************************************************************************)
(* Properties.                                                             *)
(***************************************************************************)

Steps == {"idle", "get", "list", "delete", "count", "begin", "reserve", "build",
          "read", "seal", "apply", "commit", "reload"}
Stages == {"up", "draining", "wiping", "wiped", "closed", "down"}
Tables == [Ids -> Row \cup {NoRow}]

TypeOK ==
    /\ rows \in Tables /\ txRows \in Tables
    /\ seq \in 0..MaxId /\ txSeq \in 0..MaxId
    /\ writer \in Slots \cup {None}
    /\ conn \in [Procs -> Slots \cup {None}]
    /\ clock \in Nat
    /\ proc \in [Procs -> Stages]
    /\ taking \subseteq Procs
    /\ pc \in [Slots -> Steps]
    /\ q \in [Slots -> Request \cup {Nil}]
    /\ cur \in [Slots -> Row \cup {NoRow}]
    /\ env \in [Slots -> Envelopes \cup {Nil}]
    /\ resp \in [Slots -> [status : Nat, body : SUBSET View]]
    /\ served \in Nat
    /\ cache \in View \cup {Nil}

\* Every row any reader can find opens under the master key for its own owner
\* and id: a reader never meets the reserved row of an unfinished create, nor a
\* ciphertext moved between rows (encrypted.go, CreateConfigPlaintext).
RowsReadable ==
    \A id \in Ids : rows[id] # NoRow =>
        Opens(MasterKey, rows[id].user, id, rows[id].env)

\* Process p has left server.Run with requests in flight, perhaps, and its
\* deferred Close is wiping the key, or has wiped it.
Closing(p) == proc[p] \in {"wiping", "wiped", "closed"}

\* A row of a table that is there opens.
Intact(table, id) ==
    table[id] # NoRow => Opens(MasterKey, table[id].user, id, table[id].env)

\* A row becomes unreadable only when a request commits in a process whose
\* deferred Close has begun, after an expired shutdown deadline or a failed
\* listener: no other process, and no crash, failed statement or retry, ever
\* damages one (server.Run, encrypted.Close, CreateConfigPlaintext,
\* UpdateConfigPlaintext).
OnlyLateCommitsDamage ==
    [][\A id \in Ids : Intact(rows, id) /\ ~Intact(rows', id) =>
          \E s \in Slots : /\ pc[s] = "commit" /\ pc'[s] # "commit"
                           /\ Closing(ProcOf[s])]_vars

\* Slot s is at a step of its transaction, which waits for nobody.
InTransaction(s) == pc[s] \in {"reserve", "build", "apply", "commit"}

\* Slot s is at a statement and needs the connection slot t holds, or holds its
\* own and needs the write lock slot t holds.
WaitsFor(s, t) ==
    \/ pc[s] \in {"get", "list", "count", "read", "reload"} /\ conn[ProcOf[s]] = t
    \/ pc[s] \in {"begin", "delete"} /\ ~Connected(s) /\ conn[ProcOf[s]] = t
    \/ pc[s] \in {"begin", "delete"} /\ Connected(s) /\ writer = t

\* Waiting ends: a request waits for one of a live process that is inside its
\* transaction or, with the only connection of the process, waits for the write
\* lock; and who has that is inside a transaction.  So no requests wait in a
\* circle, and none waits for one that is over (BeginTx, DeleteConfig,
\* MaxOpenConns = 1, busy_timeout).
WaitsEnd ==
    \A s, t \in Slots : WaitsFor(s, t) =>
        /\ Alive(ProcOf[t])
        /\ \/ InTransaction(t)
           \/ /\ pc[t] \in {"begin", "delete"} /\ Connected(t)
              /\ \A u \in Slots : WaitsFor(t, u) => InTransaction(u)

\* modified_at is a version number: if a client kept a row of an earlier
\* response and the store now holds that id with that modified_at, its owner,
\* name and content are the ones the client kept, whatever the clock did and
\* whatever was deleted, retried or crashed in between (nextModifiedAt).
VersionIdentifiesContent ==
    cache # Nil /\ rows[cache.id] # NoRow /\ rows[cache.id].modified = cache.modified =>
        /\ rows[cache.id].user = cache.user
        /\ rows[cache.id].name = cache.name
        /\ Plain(rows[cache.id].env) = cache.content

\* A table holds what the fields a patch carries ask for.
Holds(table, m) ==
    /\ m.name # Nil => table[m.id].name = m.name
    /\ m.content # Nil => Plain(table[m.id].env) = m.content

\* Slot s commits a PATCH in this step.
CommitsPatch(s) == pc[s] = "commit" /\ pc'[s] = "reload"

\* A PATCH found to change nothing is committed only while that is still so: a
\* concurrent change of name or content is never swallowed (the optimistic
\* check of UpdateConfigPlaintext).
NoopStillHolds ==
    [][\A s \in Slots : CommitsPatch(s) /\ ~Changed(s) => Holds(rows', q[s])]_vars

\* The row a PATCH commits holds every field of the PATCH: the last writer wins.
LastWriteWins ==
    [][\A s \in Slots : CommitsPatch(s) => Holds(rows', q[s])]_vars

\* Slot s commits a PATCH of a row that is still as the handler read it.
CommitsFresh(s) == CommitsPatch(s) /\ rows[q[s].id] = cur[s]

\* If nobody changed the row between the read of UpdateConfigPlaintext and its
\* transaction, the row it commits holds every field of the PATCH, although only
\* those that differ are written.
FreshPatchApplied ==
    [][\A s \in Slots : CommitsFresh(s) => Holds(rows', q[s])]_vars

\* And if the row held them already, modified_at stays: a client that retries an
\* upload after a lost response does not make the others download it again.
RepeatPreservesModifiedAt ==
    [][\A s \in Slots : CommitsFresh(s) /\ Holds(rows, q[s]) =>
          rows'[q[s].id].modified = rows[q[s].id].modified]_vars

\* A row changes only in a step of a request of its owner, and only the row the
\* request addresses (or the new row of a create).
RowsChangeForOwner ==
    [][\A id \in Ids : rows'[id] # rows[id] =>
          \E s \in Slots :
            /\ Busy(s) /\ pc'[s] # pc[s]
            /\ IF rows[id] = NoRow
               THEN q[s].op = "create" /\ rows'[id].user = q[s].user
               ELSE /\ q[s].op \in {"patch", "delete"}
                    /\ q[s].id = id
                    /\ q[s].user = rows[id].user]_vars

\* Creates of a user that passed the quota check and have not committed.
Pending(user) ==
    {s \in Slots : /\ q[s] # Nil /\ q[s].op = "create" /\ q[s].user = user
                   /\ pc[s] \in {"begin", "reserve", "build", "commit"}}

\* No user owns more configurations than the quota.
QuotaHolds ==
    \A user \in Users : Cardinality(OwnedIds(rows, user)) <= MaxConfigsPerUser

\* The quota is overrun by at most the number of concurrent requests less one,
\* however long the service runs: creates that passed the check count as rows.
QuotaSlack ==
    \A user \in Users :
        Cardinality(OwnedIds(rows, user)) + Cardinality(Pending(user))
            <= MaxConfigsPerUser - 1 + Cardinality(Slots)

\* Every accepted request ends: with a response, or with its process.  No slot
\* waits forever for the connection, for the write lock, or in the retry loop of
\* UpdateConfigPlaintext.
RequestsEnd == \A s \in Slots : Busy(s) ~> ~Busy(s)

\* A process told to stop stops.
ShutdownEnds == \A p \in Procs : proc[p] = "draining" ~> proc[p] = "down"

\* What the contract sees of a table: no ciphertext.
AsConfig(row) ==
    IF row = NoRow THEN NoRow
    ELSE [user |-> row.user, name |-> row.name, content |-> Plain(row.env),
          luwv |-> row.luwv, modified |-> row.modified]
AsConfigs(table) == [id \in Ids |-> AsConfig(table[id])]

Contract == INSTANCE ConfigContract WITH
    NoConfig <- NoRow, configs <- AsConfigs(rows), lastId <- seq

\* The service implements the contract of the store: whatever handlers, processes
\* and faults do, clients see single configurations created under fresh ids,
\* written with an advancing modified_at, touched, or deleted.
ImplementsContract == Contract!Spec
=============================================================================
