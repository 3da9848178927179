-------------------------- MODULE ConfigRows_proofs --------------------------
(***************************************************************************)
(* What is in the rows.                                                    *)
(*                                                                         *)
(* modified_at identifies what a client saw, and a PATCH that changes      *)
(* nothing swallows nothing: both rest on one fact, that a row once read   *)
(* is a true record of its version ever after.  A row any reader can find  *)
(* opens under the master key; only a commit of a process whose deferred   *)
(* Close has begun can change that.  And a PATCH whose row stayed as it    *)
(* was read is applied in full, or, if the row held its fields already,    *)
(* leaves modified_at alone; where requests come one at a time that is     *)
(* every PATCH.                                                            *)
(***************************************************************************)
EXTENDS ConfigService_proofs
----------------------------------------------------------------------------
(***************************************************************************)
(* Versions.                                                               *)
(***************************************************************************)

\* A row that was read stays a true record of its version: the id is spent, and
\* the row the table holds is newer or says the same.
Records(table, last, v) ==
    /\ v.id <= last
    /\ table[v.id] # NoRow =>
         \/ table[v.id].modified > v.modified
         \/ /\ table[v.id].modified = v.modified
            /\ table[v.id].user = v.user
            /\ table[v.id].name = v.name
            /\ Plain(table[v.id].env) = v.content

\* This holds of every row in a response, in the client's cache, and of the rows
\* PATCH handlers compared themselves with.
ResponsesRecord == \A s \in Slots : \A v \in resp[s].body : Records(rows, seq, v)
CacheRecords == cache # Nil => Records(rows, seq, cache)
ComparedRecord ==
    \A s \in Slots : Compared(s) => Records(rows, seq, ToPlaintext(q[s].id, cur[s]))

\* A PATCH that changes nothing is about to commit fields the row already has.
NoopInv ==
    \A s \in Slots : pc[s] = "commit" /\ q[s].op = "patch" /\ ~Changed(s) =>
        Holds(txRows, q[s])

VersionInv == ResponsesRecord /\ CacheRecords /\ ComparedRecord /\ NoopInv
----------------------------------------------------------------------------
\* What is read now is a record now.
LEMMA ReadRecords ==
    ASSUME TypeOK, FreshInv, NEW id \in Ids, rows[id] \in Row
    PROVE  Records(rows, seq, ToPlaintext(id, rows[id]))
<1>1. rows[id] # NoRow
  BY ConstantsOK, Zenon
<1>2. ~(id > seq)
  BY <1>1 DEF FreshInv
<1>3. id <= seq
  BY <1>2, MaxIdNat DEF TypeOK, Ids
<1> QED BY <1>3, ToPlaintextType DEF Records

\* The same of the state after a step.
LEMMA ReadRecordsNext ==
    ASSUME TypeOK', FreshInv', NEW id \in Ids, rows'[id] \in Row
    PROVE  Records(rows', seq', ToPlaintext(id, rows'[id]))
<1>1. rows'[id] # NoRow
  BY ConstantsOK, Zenon
<1>2. ~(id > seq')
  BY <1>1 DEF FreshInv
<1>3. id <= seq'
  BY <1>2, MaxIdNat DEF TypeOK, Ids
<1> QED BY <1>3, ToPlaintextType DEF Records

\* A record stays one.
LEMMA RecordsStay ==
    ASSUME Inv, Inv', [Next]_vars, NEW v \in View, Records(rows, seq, v)
    PROVE  Records(rows', seq', v)
<1>1. seq \in Nat /\ seq' \in Nat
  BY MaxIdNat DEF Inv, TypeOK
<1>2. v.id \in Ids /\ v.modified \in Nat /\ v.id \in Nat
  BY MaxIdNat DEF View, Ids
<1>3. v.id <= seq'
  BY <1>1, <1>2, RowsEvolve DEF Records
<1>4. CASE rows'[v.id] = rows[v.id] \/ rows'[v.id] = NoRow
  BY <1>3, <1>4 DEF Records
<1>5. CASE /\ rows[v.id] \in Row /\ rows'[v.id] \in Row
           /\ RowEvolves(rows[v.id], rows'[v.id])
  <2>1. rows[v.id] # NoRow
    BY <1>5, ConstantsOK, Zenon
  <2>2. rows[v.id].modified \in Nat /\ rows'[v.id].modified \in Nat
    BY <1>5 DEF Row
  <2> QED BY <1>2, <1>3, <1>5, <2>1, <2>2 DEF Records, RowEvolves
<1> QED BY <1>2, <1>4, <1>5, RowsEvolve DEF Records

\* A response carries rows of the table, or is the old one.
LEMMA RespStep ==
    ASSUME Inv, [Next]_vars, NEW s \in Slots, NEW v \in resp'[s].body
    PROVE  \/ v \in resp[s].body
           \/ \E id \in Ids : rows'[id] \in Row /\ v = ToPlaintext(id, rows'[id])
<1> DEFINE Goal == \/ v \in resp[s].body
                   \/ \E id \in Ids : rows'[id] \in Row /\ v = ToPlaintext(id, rows'[id])
<1>0. TypeOK
  BY DEF Inv
<1>1. ASSUME NEW status, Respond(s, status, {}) PROVE FALSE
  BY <1>0, <1>1 DEF Respond, TypeOK
<1>2. ASSUME NEW step, Goto(s, step) PROVE Goal
  BY <1>2 DEF Goto
<1>3. CASE SlotStep(s)
  <2>1. ASSUME NEW m, Accept(s, m) PROVE FALSE
    BY <1>0, <2>1 DEF Accept, TypeOK
  <2>2. ASSUME NEW key, FetchRow(s, key), pc[s] \in {"get", "reload"}, UNCHANGED dbVars
        PROVE  Goal
    <3> DEFINE row == Lookup(rows, q[s].user, q[s].id)
    <3>1. q[s].id \in Ids
      BY <2>2, Zenon DEF Inv, HandlerInv, HandlerOK, Busy, WellFormed, StepsOf, Request
    <3>2. row # NoRow /\ Respond(s, 200, {ToPlaintext(q[s].id, row)})
      BY <1>1, <2>2, Zenon DEF FetchRow
    <3>3. row = rows[q[s].id] /\ rows[q[s].id] \in Row
      BY <1>0, <3>1, <3>2, TableTypes, LookupFinds
    <3>4. v = ToPlaintext(q[s].id, row)
      BY <1>0, <3>2 DEF Respond, TypeOK
    <3> QED BY <2>2, <3>1, <3>3, <3>4 DEF dbVars
  <2>3. CASE Get(s) \/ Reload(s)
    BY <2>2, <2>3 DEF Get, Reload, At
  <2>4. CASE List(s)
    <3> DEFINE ids == OwnedIds(rows, q[s].user)
               views == {ToPlaintext(id, rows[id]) : id \in ids}
    <3>1. Respond(s, 200, views) /\ UNCHANGED dbVars
      BY <1>1, <2>4, Zenon DEF List, FetchRows
    <3>2. v \in views
      BY <1>0, <3>1 DEF Respond, TypeOK
    <3>3. PICK id \in ids : v = ToPlaintext(id, rows[id])
      BY <3>2
    <3>4. id \in Ids /\ rows[id] \in Row
      BY <1>0, TableTypes, LookupFinds DEF OwnedIds
    <3> QED BY <3>1, <3>3, <3>4 DEF dbVars
  <2>5. CASE Delete(s) \/ BusyTimeout(s) \/ Abort(s)
    BY <1>1, <2>5 DEF Delete, BusyTimeout, Abort
  <2>6. CASE Count(s) \/ Begin(s) \/ Reserve(s) \/ Build(s) \/ Apply(s)
    BY <1>1, <1>2, <2>6 DEF Count, Begin, Reserve, Build, Apply
  <2>7. CASE Read(s) \/ Seal(s)
    BY <1>1, <2>7 DEF Read, Seal
  <2>8. CASE Commit(s)
    <3>1. CASE q[s].op = "create"
      <4>1. /\ Respond(s, 201, {ToPlaintext(txSeq, txRows[txSeq])})
            /\ rows' = txRows
        BY <2>8, <3>1 DEF Commit
      <4>2. pc[s] = "commit" /\ txSeq \in Ids
        BY <2>8, <3>1, CommitIsCreateOrPatch
      <4>3. txRows[txSeq] \in Row
        BY <3>1, <4>2, Zenon DEF Inv, TxInv, TxOK, TxCreates
      <4>4. v = ToPlaintext(txSeq, txRows[txSeq])
        BY <1>0, <4>1 DEF Respond, TypeOK
      <4> QED BY <4>1, <4>2, <4>3, <4>4
    <3>2. CASE q[s].op # "create"
      BY <1>2, <2>8, <3>2 DEF Commit
    <3> QED BY <3>1, <3>2
  <2>9. CASE Connect(s)
    BY <2>9, Zenon DEF Connect, reqVars
  <2> QED BY <1>3, <2>1, <2>3, <2>4, <2>5, <2>6, <2>7, <2>8, <2>9 DEF SlotStep, Handle
<1>4. ASSUME NEW p \in Procs, Die(p) PROVE Goal
  BY <1>4 DEF Die
<1>5. CASE UNCHANGED <<dbVars, txVars, reqVars>>
  BY <1>5 DEF reqVars
<1> QED BY <1>0, <1>3, <1>4, <1>5, StepKinds, SlotFrame

\* A PATCH is compared with the row it reads, and keeps it until it commits.
LEMMA ComparedStep ==
    ASSUME Inv, [Next]_vars, NEW s \in Slots, Compared(s)'
    PROVE  \/ Compared(s) /\ q'[s] = q[s] /\ cur'[s] = cur[s]
           \/ /\ q'[s].id \in Ids
              /\ rows'[q'[s].id] \in Row
              /\ cur'[s] = rows'[q'[s].id]
<1> DEFINE Kept == Compared(s) /\ q'[s] = q[s] /\ cur'[s] = cur[s]
<1>0. TypeOK
  BY DEF Inv
<1>1. ASSUME NEW status, NEW body, Respond(s, status, body) PROVE FALSE
  BY <1>0, <1>1 DEF Respond, TypeOK, Compared
<1>2. ASSUME NEW step, Goto(s, step) PROVE pc'[s] = step /\ q'[s] = q[s] /\ cur'[s] = cur[s]
  BY <1>0, <1>2 DEF Goto, TypeOK
<1>3. CASE Same(s)
  BY <1>3 DEF Same, Compared
<1>4. CASE SlotStep(s)
  <2>1. ASSUME NEW m \in Workload, Accept(s, m) PROVE FALSE
    <3>1. m \in Request
      BY ConstantsOK, Zenon
    <3>2. pc'[s] \in {"idle", "get", "list", "count", "read", "delete"}
      BY <1>0, <2>1, <3>1, AcceptedWellFormed DEF Accept, TypeOK
    <3> QED BY <3>2 DEF Compared
  <2>2. CASE Get(s) \/ Reload(s) \/ List(s) \/ Delete(s) \/ BusyTimeout(s) \/ Abort(s)
    BY <1>1, <2>2, Zenon DEF Get, Reload, FetchRow, List, FetchRows, Delete, BusyTimeout, Abort
  <2>3. CASE Count(s) \/ Reserve(s) \/ Build(s)
    <3>1. pc[s] \in {"count", "reserve", "build"}
      BY <2>3 DEF Count, Reserve, Build, At
    <3>2. q[s].op = "create"
      BY <3>1, Zenon DEF Inv, HandlerInv, HandlerOK, Busy, WellFormed, StepsOf, Request
    <3>3. q'[s] = q[s]
      BY <1>1, <1>2, <2>3, Zenon DEF Count, Reserve, Build
    <3> QED BY <3>2, <3>3 DEF Compared
  <2>4. CASE Begin(s)
    <3>1. pc[s] = "begin" /\ q'[s] = q[s] /\ cur'[s] = cur[s]
      BY <1>2, <2>4 DEF Begin, At
    <3> QED BY <3>1 DEF Compared
  <2>5. CASE Apply(s)
    <3>1. pc[s] = "apply" /\ q'[s] = q[s] /\ cur'[s] = cur[s]
      BY <1>1, <1>2, <2>5 DEF Apply, At
    <3> QED BY <3>1 DEF Compared
  <2>6. CASE Commit(s)
    <3>1. pc'[s] = "reload"
      BY <1>1, <1>2, <2>6 DEF Commit
    <3> QED BY <3>1 DEF Compared
  <2>7. CASE Seal(s)
    <3>1. pc[s] = "seal" /\ q' = q /\ cur' = cur
      BY <2>7 DEF Seal, At
    <3> QED BY <3>1 DEF Compared
  <2>8. CASE Read(s)
    <3> DEFINE row == Lookup(rows, q[s].user, q[s].id)
    <3>1. pc[s] = "read" /\ UNCHANGED dbVars
      BY <2>8 DEF Read, At
    <3>2. row # NoRow /\ cur' = [cur EXCEPT ![s] = row] /\ q' = q
      BY <1>1, <2>8, Zenon DEF Read
    <3>3. q[s].id \in Ids
      BY <3>1, Zenon DEF Inv, HandlerInv, HandlerOK, Busy, WellFormed, StepsOf, Request
    <3>4. row = rows[q[s].id] /\ rows[q[s].id] \in Row
      BY <1>0, <3>2, <3>3, TableTypes, LookupFinds
    <3>5. cur'[s] = row
      BY <1>0, <3>2 DEF TypeOK
    <3> QED BY <3>1, <3>2, <3>3, <3>4, <3>5 DEF dbVars
  <2>9. CASE Connect(s)
    BY <1>3, <2>9, Zenon DEF Connect, reqVars, Same
  <2> QED BY <1>4, <2>1, <2>2, <2>3, <2>4, <2>5, <2>6, <2>7, <2>8, <2>9 DEF SlotStep, Handle
<1>5. ASSUME NEW p \in Procs, Die(p) PROVE Same(s)
  <2>1. CASE s \in SlotsOf(p)
    BY <1>5, <2>1 DEF Die, Compared
  <2>2. CASE s \notin SlotsOf(p)
    BY <1>5, <2>2 DEF Die, Same
  <2> QED BY <2>1, <2>2
<1>6. CASE UNCHANGED <<dbVars, txVars, reqVars>>
  BY <1>3, <1>6 DEF reqVars, Same
<1> QED BY <1>0, <1>3, <1>4, <1>5, <1>6, StepKinds, SlotFrame

\* A transaction ready to commit was just completed, or has been left alone.
LEMMA CommitStep ==
    ASSUME Inv, [Next]_vars, NEW s \in Slots, pc'[s] = "commit"
    PROVE  \/ pc[s] = "commit" /\ Same(s) /\ UNCHANGED txRows
           \/ Build(s)
           \/ Apply(s)
<1>0. TypeOK /\ LockInv
  BY DEF Inv
<1>1. ASSUME NEW status, NEW body, Respond(s, status, body) PROVE FALSE
  BY <1>0, <1>1 DEF Respond, TypeOK
<1>2. ASSUME NEW step, Goto(s, step) PROVE step = "commit"
  BY <1>0, <1>2 DEF Goto, TypeOK
<1>3. CASE SlotStep(s)
  <2>1. ASSUME NEW m \in Workload, Accept(s, m) PROVE FALSE
    <3>1. m \in Request
      BY ConstantsOK, Zenon
    <3> QED BY <1>0, <2>1, <3>1, AcceptedWellFormed DEF Accept, TypeOK
  <2>2. CASE Get(s) \/ Reload(s) \/ List(s) \/ Delete(s) \/ BusyTimeout(s) \/ Abort(s)
    BY <1>1, <2>2, Responding, Zenon
  <2>3. CASE Count(s) \/ Begin(s) \/ Reserve(s) \/ Commit(s)
    BY <1>1, <1>2, <2>3, Zenon DEF Count, Begin, Reserve, Commit
  <2>4. CASE Read(s)
    <3>1. pc' = [pc EXCEPT ![s] = "seal"]
      BY <1>1, <2>4, Zenon DEF Read
    <3> QED BY <1>0, <3>1 DEF TypeOK
  <2>5. CASE Seal(s)
    BY <1>0, <2>5 DEF Seal, TypeOK
  <2>6. CASE Connect(s)
    BY <2>6 DEF Connect, At, reqVars
  <2> QED BY <1>3, <2>1, <2>2, <2>3, <2>4, <2>5, <2>6 DEF SlotStep, Handle
<1>4. ASSUME NEW t \in Slots, SlotStep(t), t # s
      PROVE  pc[s] = "commit" /\ Same(s) /\ UNCHANGED txRows
  <2>1. pc[s] = "commit" /\ Same(s)
    BY <1>0, <1>4, SlotFrame DEF Same
  <2>2. writer = s /\ writer # None /\ pc[t] \notin TxSteps
    BY <1>0, <1>4, <2>1, ConstantsOK, Zenon DEF LockInv, TxSteps
  <2>3. UNCHANGED txRows
    BY <1>4, <2>2, Zenon DEF SlotStep, Accept, Handle, Get, List, Connect, Delete, Count, Begin,
       Reserve, Build, Read, Seal, Apply, Commit, Reload, BusyTimeout, Abort, Disconnect, At,
       TxSteps, txVars
  <2> QED BY <2>1, <2>3
<1>5. ASSUME NEW p \in Procs, Die(p)
      PROVE  pc[s] = "commit" /\ Same(s) /\ UNCHANGED txRows
  <2>1. s \notin SlotsOf(p)
    BY <1>5, Zenon DEF Die
  <2>2. pc[s] = "commit" /\ Same(s)
    BY <1>5, <2>1 DEF Die, Same
  <2>3. writer = s
    BY <1>0, <2>2 DEF LockInv, TxSteps
  <2> QED BY <1>5, <2>1, <2>2, <2>3, Zenon DEF Die, Disconnect, txVars
<1>6. CASE UNCHANGED <<dbVars, txVars, reqVars>>
  BY <1>6 DEF reqVars, txVars, Same
<1> QED BY <1>3, <1>4, <1>5, <1>6, StepKinds

\* The optimistic check lets a no-op through only over the version it compared
\* itself with, which by ComparedRecord says what it said then.
LEMMA NoopStep ==
    ASSUME Inv, ComparedRecord, NoopInv, [Next]_vars
    PROVE  NoopInv'
<1> SUFFICES ASSUME NEW s \in Slots, (pc[s] = "commit" /\ q[s].op = "patch" /\ ~Changed(s))'
             PROVE  Holds(txRows, q[s])'
  BY DEF NoopInv
<1>0. TypeOK
  BY DEF Inv
<1>1. CASE pc[s] = "commit" /\ Same(s) /\ UNCHANGED txRows
  BY <1>1 DEF NoopInv, Same, Changed, NameChanged, ContentChanged, Holds
<1>2. CASE Build(s)
  <2>1. pc[s] = "build" /\ q' = q
    BY <1>2 DEF Build, Goto, At
  <2>2. q[s].op = "create"
    BY <2>1, Zenon DEF Inv, HandlerInv, HandlerOK, Busy, WellFormed, StepsOf, Request
  <2> QED BY <2>1, <2>2
<1>3. CASE Apply(s)
  <2> DEFINE id == q[s].id
             row == Lookup(txRows, q[s].user, id)
  <2>1. pc[s] = "apply"
    BY <1>3 DEF Apply, At
  <2>2. /\ row # NoRow /\ ~ConfigChanged(s, row)
        /\ txRows' = [txRows EXCEPT ![id] = Patched(s, row)]
        /\ Goto(s, "commit")
    <3>1. ~Respond(s, 404, {}) /\ ~Goto(s, "read")
      BY <1>0 DEF Respond, Goto, TypeOK
    <3> QED BY <1>3, <3>1, Zenon DEF Apply
  <2>3. q' = q /\ cur' = cur /\ ~Changed(s)
    BY <2>2 DEF Goto, Changed, NameChanged, ContentChanged
  <2>4. id \in Ids /\ q[s].op = "patch"
    BY <2>1, Zenon DEF Inv, HandlerInv, HandlerOK, Busy, WellFormed, StepsOf, Request
  <2>5. txRows = rows /\ cur[s] \in Row
    BY <2>1, <2>4 DEF Inv, TxInv, TxOK, TxUntouched, CompareInv, CompareOK, Compared
  <2>6. row = rows[id] /\ row \in Row
    <3>1. rows \in Tables
      BY <1>0, TableTypes
    <3>2. row = Lookup(rows, q[s].user, id)
      BY <2>5
    <3>3. id \in Ids /\ Lookup(rows, q[s].user, id) # NoRow
      BY <2>2, <2>4, <3>2
    <3>4. Lookup(rows, q[s].user, id) = rows[id] /\ rows[id] \in Row
      BY <3>1, <3>3, LookupFinds
    <3> QED BY <3>2, <3>4
  <2> HIDE DEF row
  <2>7. row.modified = cur[s].modified
    BY <2>2, <2>3 DEF ConfigChanged
  <2>8. row.name = cur[s].name /\ Plain(row.env) = Plain(cur[s].env)
    <3>1. Records(rows, seq, ToPlaintext(id, cur[s]))
      BY <2>1, <2>4 DEF ComparedRecord, Compared
    <3>2. cur[s].modified \in Nat
      BY <2>5 DEF Row
    <3>3. /\ ToPlaintext(id, cur[s]).id = id
          /\ ToPlaintext(id, cur[s]).name = cur[s].name
          /\ ToPlaintext(id, cur[s]).content = Plain(cur[s].env)
          /\ ToPlaintext(id, cur[s]).modified = cur[s].modified
      BY <2>4, <2>5, ToPlaintextType, Zenon
    <3>4. rows[id] # NoRow
      BY <2>2, <2>6
    <3>5. \/ rows[id].modified > cur[s].modified
          \/ rows[id].name = cur[s].name /\ Plain(rows[id].env) = Plain(cur[s].env)
      BY <3>1, <3>3, <3>4, Zenon DEF Records
    <3>6. ~(rows[id].modified > cur[s].modified)
      BY <2>6, <2>7, <3>2
    <3> QED BY <2>6, <3>5, <3>6, Zenon
  <2>9. txRows'[id].name = row.name /\ txRows'[id].env = row.env
    <3>1. Patched(s, row).name = row.name /\ Patched(s, row).env = row.env
      BY <2>3, <2>6 DEF Patched, Changed, Row
    <3> QED BY <1>0, <2>2, <2>4, <3>1 DEF TypeOK, Tables
  <2>10. q[s].name # Nil => q[s].name = cur[s].name
    BY <2>3 DEF Changed, NameChanged
  <2>11. q[s].content # Nil => q[s].content = Plain(cur[s].env)
    BY <2>3 DEF Changed, ContentChanged
  <2> QED BY <2>3, <2>8, <2>9, <2>10, <2>11 DEF Holds, Plain
<1> QED BY <1>1, <1>2, <1>3, CommitStep

\* The version invariant holds initially and is kept by every step.
LEMMA VersionInit == Init => VersionInv
BY DEF Init, VersionInv, ResponsesRecord, CacheRecords, ComparedRecord, NoopInv, Compared

\* Every step keeps the version invariant.
LEMMA VersionStep == Inv /\ Inv' /\ VersionInv /\ [Next]_vars => VersionInv'
<1> SUFFICES ASSUME Inv, Inv', VersionInv, [Next]_vars PROVE VersionInv'
  OBVIOUS
<1>0. TypeOK /\ TypeOK' /\ FreshInv'
  BY DEF Inv
<1>1. ResponsesRecord'
  <2> SUFFICES ASSUME NEW s \in Slots, NEW v \in resp'[s].body
               PROVE  Records(rows', seq', v)
    BY DEF ResponsesRecord
  <2>1. CASE v \in resp[s].body
    <3>1. v \in View
      BY <1>0, <2>1 DEF TypeOK
    <3> QED BY <2>1, <3>1, RecordsStay DEF VersionInv, ResponsesRecord
  <2>2. CASE \E id \in Ids : rows'[id] \in Row /\ v = ToPlaintext(id, rows'[id])
    BY <1>0, <2>2, ReadRecordsNext
  <2> QED BY <2>1, <2>2, RespStep
<1>2. CacheRecords'
  <2>1. CASE UNCHANGED cache
    <3>1. cache # Nil => cache \in View
      BY <1>0 DEF TypeOK
    <3> QED BY <2>1, <3>1, RecordsStay DEF VersionInv, CacheRecords
  <2>2. ASSUME NEW s \in Slots, Remember(s) PROVE CacheRecords'
    <3>1. cache' \in resp[s].body
      BY <2>2 DEF Remember
    <3>2. cache' \in View
      BY <1>0, <3>1 DEF TypeOK
    <3> QED BY <3>1, <3>2, RecordsStay DEF VersionInv, ResponsesRecord, CacheRecords
  <2>3. UNCHANGED cache \/ \E s \in Slots : Remember(s)
    <3>1. ASSUME NEW p \in Procs, Life(p) PROVE UNCHANGED cache
      BY <3>1, Zenon DEF Life, Crash, Start, Shutdown, Drained, ServeFails, DeadlineExpires,
         Wiped, CloseDB, Exit, ProcStep, Die
    <3>2. ASSUME NEW t \in Slots, SlotStep(t) PROVE UNCHANGED cache
      BY <3>2, Zenon DEF SlotStep, Accept, Handle, Get, List, Connect, Delete, Count, Begin, Reserve, Build,
         Read, Seal, Apply, Commit, Reload, BusyTimeout, Abort
    <3> QED BY <3>1, <3>2 DEF Next, SlotStep, Tick, vars
  <2> QED BY <2>1, <2>2, <2>3
<1>3. ComparedRecord'
  <2> SUFFICES ASSUME NEW s \in Slots, Compared(s)'
               PROVE  Records(rows', seq', ToPlaintext(q'[s].id, cur'[s]))
    BY DEF ComparedRecord, ToPlaintext
  <2>1. CASE Compared(s) /\ q'[s] = q[s] /\ cur'[s] = cur[s]
    <3>1. cur[s] \in Row /\ q[s].id \in Ids
      BY <2>1, Zenon DEF Inv, CompareInv, CompareOK, Compared, HandlerInv, HandlerOK, Busy,
         WellFormed
    <3>2. ToPlaintext(q[s].id, cur[s]) \in View
      BY <3>1, ToPlaintextType
    <3>3. Records(rows', seq', ToPlaintext(q[s].id, cur[s]))
      BY <2>1, <3>2, RecordsStay DEF VersionInv, ComparedRecord
    <3> QED BY <2>1, <3>3
  <2>2. CASE /\ q'[s].id \in Ids
             /\ rows'[q'[s].id] \in Row
             /\ cur'[s] = rows'[q'[s].id]
    BY <1>0, <2>2, ReadRecordsNext
  <2> QED BY <2>1, <2>2, ComparedStep
<1>4. NoopInv'
  BY NoopStep DEF VersionInv
<1> QED BY <1>1, <1>2, <1>3, <1>4 DEF VersionInv

\* Only COMMIT takes a PATCH from its transaction to its reload.
LEMMA CommitsByCommit ==
    ASSUME Inv, [Next]_vars, NEW s \in Slots, CommitsPatch(s)
    PROVE  Commit(s) /\ q[s].op = "patch"
<1>0. TypeOK /\ pc[s] = "commit" /\ pc'[s] = "reload"
  BY DEF Inv, CommitsPatch
<1>1. ASSUME NEW status, NEW body, Respond(s, status, body) PROVE FALSE
  BY <1>0, <1>1 DEF Respond, TypeOK
<1>2. CASE SlotStep(s)
  <2>1. Commit(s)
    BY <1>0, <1>1, <1>2, Zenon DEF SlotStep, Accept, Handle, Get, List, Connect, Delete, Count,
       Begin, Reserve, Build, Read, Seal, Apply, Reload, BusyTimeout, Abort, At, reqVars
  <2>2. q[s].op # "create"
    BY <1>1, <2>1, Zenon DEF Commit
  <2> QED BY <2>1, <2>2, CommitIsCreateOrPatch
<1>3. ASSUME NEW t \in Slots, SlotStep(t), t # s PROVE FALSE
  BY <1>0, <1>3, SlotFrame DEF Same
<1>4. ASSUME NEW p \in Procs, Die(p) PROVE FALSE
  BY <1>0, <1>4 DEF Die
<1>5. CASE UNCHANGED <<dbVars, txVars, reqVars>>
  BY <1>0, <1>5 DEF reqVars
<1> QED BY <1>2, <1>3, <1>4, <1>5, StepKinds

\* The version invariant holds throughout.
LEMMA VersionInvariance == Spec => []VersionInv
<1> QED BY Invariance, VersionInit, VersionStep, PTL DEF Spec

\* modified_at is a version number, for any number of clients, requests and
\* processes, any clock and any fault: a row with the id and the modified_at of a
\* row seen earlier has the owner, the name and the content seen then.
THEOREM VersionsIdentify == Spec => []VersionIdentifiesContent
<1>1. CacheRecords /\ TypeOK => VersionIdentifiesContent
  <2> SUFFICES ASSUME CacheRecords, TypeOK, cache # Nil, rows[cache.id] # NoRow,
                      rows[cache.id].modified = cache.modified
               PROVE  /\ rows[cache.id].user = cache.user
                      /\ rows[cache.id].name = cache.name
                      /\ Plain(rows[cache.id].env) = cache.content
    BY DEF VersionIdentifiesContent
  <2>1. cache.modified \in Nat
    BY DEF TypeOK, View
  <2> QED BY <2>1 DEF CacheRecords, Records
<1>2. VersionInv => CacheRecords
  BY DEF VersionInv
<1> QED BY <1>1, <1>2, VersionInvariance, TypeCorrect, PTL

\* A PATCH acknowledged without a change finds its fields in the row it commits
\* over: the optimistic check of UpdateConfigPlaintext swallows no concurrent
\* change, although the comparison is made outside the transaction.
THEOREM NoopsSwallowNothing == Spec => NoopStillHolds
<1>1. Inv /\ VersionInv /\ [Next]_vars =>
        [\A s \in Slots : CommitsPatch(s) /\ ~Changed(s) => Holds(rows', q[s])]_vars
  <2> SUFFICES ASSUME Inv, VersionInv, [Next]_vars, NEW s \in Slots,
                      CommitsPatch(s), ~Changed(s)
               PROVE  Holds(rows', q[s])
    OBVIOUS
  <2>1. Commit(s) /\ q[s].op = "patch"
    BY CommitsByCommit
  <2>2. pc[s] = "commit" /\ rows' = txRows
    BY <2>1 DEF Commit, At
  <2> QED BY <2>1, <2>2 DEF VersionInv, NoopInv
<1> QED BY <1>1, Invariance, VersionInvariance, PTL DEF Spec, NoopStillHolds
----------------------------------------------------------------------------
(***************************************************************************)
(* Rows open.                                                              *)
(***************************************************************************)

\* What a process seals in time opens, and so does what it is about to commit,
\* unless it was damaged before.
SealedOpen ==
    \A s \in Slots : Sealed(s) /\ ~Closing(ProcOf[s]) =>
        Opens(MasterKey, q[s].user, q[s].id, env[s])
CommitsOpen ==
    \A s \in Slots : pc[s] = "commit" /\ ~Closing(ProcOf[s]) =>
        \A id \in Ids : Intact(rows, id) => Intact(txRows, id)

ReadInv == SealedOpen /\ CommitsOpen
----------------------------------------------------------------------------
\* A handler seals with the master key until the Close of its process begins.
LEMMA KeyInUse ==
    ASSUME TypeOK, NEW s \in Slots, ~Closing(ProcOf[s])
    PROVE  KeysInUse(ProcOf[s]) = {MasterKey}
<1>1. ProcOf[s] \in Procs
  BY ConstantsOK, Zenon
<1> QED BY <1>1 DEF Closing, KeysInUse

\* Only the life of a process changes its stage.
LEMMA StageStep ==
    ASSUME [Next]_vars
    PROVE  UNCHANGED proc \/ \E p \in Procs : Life(p)
<1>1. ASSUME NEW t \in Slots, SlotStep(t) PROVE UNCHANGED proc
  BY <1>1, Zenon DEF SlotStep, Accept, Handle, Get, List, Connect, Delete, Count, Begin, Reserve, Build,
     Read, Seal, Apply, Commit, Reload, BusyTimeout, Abort
<1>2. ASSUME NEW t \in Slots, Remember(t) PROVE UNCHANGED proc
  BY <1>2 DEF Remember
<1> QED BY <1>1, <1>2 DEF Next, SlotStep, Tick, vars

\* A process that has begun to close goes on until it ends, with its requests.
LEMMA ClosingStays ==
    ASSUME Inv, [Next]_vars, NEW s \in Slots, Closing(ProcOf[s]), pc'[s] # "idle"
    PROVE  Closing(ProcOf[s])'
<1> DEFINE own == ProcOf[s]
<1>0. TypeOK /\ own \in Procs /\ proc[own] \in {"wiping", "wiped", "closed"}
  BY ConstantsOK, Zenon DEF Inv, Closing
<1>1. CASE UNCHANGED proc
  BY <1>1 DEF Closing
<1>2. ASSUME NEW p \in Procs, Life(p) PROVE proc'[own] \in {"wiping", "wiped", "closed"}
  <2>1. CASE Die(p)
    <3>1. s \notin SlotsOf(p)
      BY <2>1, Zenon DEF Die
    <3>2. own # p
      BY <3>1 DEF SlotsOf
    <3> QED BY <1>0, <2>1, <3>2, Zenon DEF Die, TypeOK
  <2>2. ASSUME NEW from, NEW to, ProcStep(p, from, to),
               from \in {"wiping", "wiped"} => to \in {"wiped", "closed"},
               from \in {"up", "draining", "wiping", "wiped"}
        PROVE  proc'[own] \in {"wiping", "wiped", "closed"}
    BY <1>0, <2>2 DEF ProcStep, TypeOK
  <2>3. CASE Start(p)
    BY <1>0, <2>3 DEF Start, TypeOK
  <2>4. CASE Shutdown(p) \/ ServeFails(p) \/ DeadlineExpires(p) \/ Wiped(p) \/ CloseDB(p)
    BY <2>2, <2>4 DEF Shutdown, ServeFails, DeadlineExpires, Wiped, CloseDB
  <2> QED BY <1>2, <2>1, <2>3, <2>4, Zenon DEF Life, Crash, Drained, Exit
<1> QED BY <1>1, <1>2, StageStep DEF Closing

\* Nobody changes the table under a transaction that is ready to commit.
LEMMA CommitKeepsTable ==
    ASSUME Inv, [Next]_vars, NEW s \in Slots, pc[s] = "commit", pc'[s] = "commit"
    PROVE  UNCHANGED rows
<1>0. TypeOK /\ writer = s /\ writer # None
  BY ConstantsOK, Zenon DEF Inv, LockInv, TxSteps
<1>1. ASSUME NEW t \in Slots, Delete(t) PROVE FALSE
  BY <1>0, <1>1 DEF Delete
<1>2. ASSUME NEW t \in Slots, Commit(t) PROVE FALSE
  <2>1. t = s
    BY <1>2, <1>0 DEF Commit, At, Inv, LockInv, TxSteps
  <2>2. pc'[s] # "commit"
    BY <1>0, <1>2, <2>1, Zenon DEF Commit, Respond, Goto, TypeOK
  <2> QED BY <2>2
<1>3. CASE UNCHANGED <<dbVars, txVars, reqVars>>
  BY <1>3 DEF dbVars
<1>4. ASSUME NEW t \in Slots, SlotStep(t) PROVE UNCHANGED rows
  BY <1>1, <1>2, <1>4, Zenon DEF SlotStep, Accept, Handle, Get, List, Connect, Count, Begin,
     Reserve, Build, Read, Seal, Apply, Reload, BusyTimeout, Abort, Rollback, Disconnect, dbVars
<1>5. ASSUME NEW p \in Procs, Die(p) PROVE UNCHANGED rows
  BY <1>5, Zenon DEF Die, Rollback, Disconnect, dbVars
<1> QED BY <1>3, <1>4, <1>5, StepKinds

\* A sealed content was sealed in this step, or has been left alone.
LEMMA SealedStep ==
    ASSUME Inv, [Next]_vars, NEW s \in Slots, Sealed(s)'
    PROVE  \/ Sealed(s) /\ q'[s] = q[s] /\ env'[s] = env[s]
           \/ Seal(s)
<1>0. TypeOK
  BY DEF Inv
<1>1. ASSUME NEW status, NEW body, Respond(s, status, body) PROVE FALSE
  BY <1>0, <1>1 DEF Respond, TypeOK, Sealed, Compared
<1>2. ASSUME NEW step, Goto(s, step)
      PROVE  pc'[s] = step /\ q'[s] = q[s] /\ cur'[s] = cur[s] /\ env'[s] = env[s]
  BY <1>0, <1>2 DEF Goto, TypeOK
<1>3. CASE Same(s)
  BY <1>3 DEF Same, Sealed, Compared, ContentChanged
<1>4. CASE SlotStep(s)
  <2>1. ASSUME NEW m \in Workload, Accept(s, m) PROVE FALSE
    <3>1. m \in Request
      BY ConstantsOK, Zenon
    <3>2. pc'[s] \in {"idle", "get", "list", "count", "read", "delete"}
      BY <1>0, <2>1, <3>1, AcceptedWellFormed, Zenon DEF Accept, TypeOK
    <3> QED BY <3>2 DEF Sealed, Compared
  <2>2. CASE Get(s) \/ Reload(s) \/ List(s) \/ Delete(s) \/ BusyTimeout(s) \/ Abort(s)
    BY <1>1, <2>2, Responding, Zenon
  <2>3. CASE Count(s) \/ Reserve(s) \/ Build(s)
    <3>1. pc[s] \in {"count", "reserve", "build"}
      BY <2>3, Zenon DEF Count, Reserve, Build, At
    <3>2. q[s].op = "create"
      BY <3>1, Zenon DEF Inv, HandlerInv, HandlerOK, Busy, WellFormed, StepsOf, Request
    <3>3. q'[s] = q[s]
      BY <1>1, <1>2, <2>3, Zenon DEF Count, Reserve, Build
    <3> QED BY <3>2, <3>3, Zenon DEF Sealed, Compared
  <2>4. CASE Begin(s) \/ Apply(s)
    <3>1. /\ pc[s] \in {"begin", "apply"}
          /\ q'[s] = q[s] /\ cur'[s] = cur[s] /\ env'[s] = env[s]
      BY <1>1, <1>2, <2>4, Zenon DEF Begin, Apply, At
    <3> QED BY <3>1 DEF Sealed, Compared, ContentChanged
  <2>5. CASE Commit(s)
    <3>1. pc'[s] = "reload"
      BY <1>1, <1>2, <2>5 DEF Commit
    <3> QED BY <3>1 DEF Sealed, Compared
  <2>6. CASE Read(s)
    <3>1. pc'[s] = "seal"
      BY <1>0, <1>1, <2>6 DEF Read, TypeOK
    <3> QED BY <3>1 DEF Sealed
  <2>7. CASE Connect(s)
    BY <1>3, <2>7, Zenon DEF Connect, reqVars, Same
  <2> QED BY <1>4, <2>1, <2>2, <2>3, <2>4, <2>5, <2>6, <2>7, Zenon DEF SlotStep, Handle
<1>5. ASSUME NEW p \in Procs, Die(p) PROVE Same(s)
  <2>1. CASE s \in SlotsOf(p)
    BY <1>5, <2>1, Zenon DEF Die, Sealed, Compared
  <2>2. CASE s \notin SlotsOf(p)
    BY <1>5, <2>2 DEF Die, Same
  <2> QED BY <2>1, <2>2
<1>6. CASE UNCHANGED <<dbVars, txVars, reqVars>>
  BY <1>3, <1>6 DEF reqVars, Same
<1> QED BY <1>0, <1>3, <1>4, <1>5, <1>6, StepKinds, SlotFrame

\* A PATCH seals for the row it addresses, with the key the process holds.
LEMMA SealOpens ==
    ASSUME Inv, NEW s \in Slots, ~Closing(ProcOf[s]), Seal(s), ContentChanged(s)
    PROVE  Opens(MasterKey, q[s].user, q[s].id, env'[s])
<1>1. env' = [env EXCEPT ![s] = Encrypt(MasterKey, q[s].user, q[s].id, q[s].content)]
  <2>1. PICK key \in KeysInUse(ProcOf[s]) :
          env' = [env EXCEPT ![s] = IF ContentChanged(s)
                                    THEN Encrypt(key, q[s].user, q[s].id, q[s].content)
                                    ELSE Nil]
    BY Zenon DEF Seal
  <2>2. key = MasterKey
    BY KeyInUse DEF Inv
  <2> QED BY <2>1, <2>2
<1>2. env'[s] = Encrypt(MasterKey, q[s].user, q[s].id, q[s].content)
  BY <1>1 DEF Inv, TypeOK
<1>3. Opens(MasterKey, q[s].user, q[s].id, Encrypt(MasterKey, q[s].user, q[s].id, q[s].content))
  BY DEF Opens, Encrypt
<1> QED BY <1>2, <1>3, Zenon

\* The completed row of a create opens, and nothing around it changes.
LEMMA BuildOpens ==
    ASSUME Inv, NEW s \in Slots, ~Closing(ProcOf[s]), Build(s)
    PROVE  \A id \in Ids : Intact(rows, id) => Intact(txRows', id)
<1> DEFINE new == Completed(s, MasterKey, txRows[txSeq])
<1>1. pc[s] = "build" /\ txRows' = [txRows EXCEPT ![txSeq] = new]
  <2>1. PICK key \in KeysInUse(ProcOf[s]) :
          txRows' = [txRows EXCEPT ![txSeq] = Completed(s, key, txRows[txSeq])]
    BY Zenon DEF Build
  <2>2. key = MasterKey
    BY KeyInUse DEF Inv
  <2> QED BY <2>1, <2>2, Zenon DEF Build, At
<1>2. txRows[txSeq] \in Row /\ txRows[txSeq].user = q[s].user /\ TxOnly(txSeq)
  BY <1>1, Zenon DEF Inv, TxInv, TxOK, TxCreates
<1>3. new.user = q[s].user /\ new.env = Encrypt(MasterKey, q[s].user, txSeq, "")
  BY <1>2 DEF Completed, Row
<1> HIDE DEF new
<1> SUFFICES ASSUME NEW id \in Ids, Intact(rows, id), txRows'[id] # NoRow
             PROVE  Opens(MasterKey, txRows'[id].user, id, txRows'[id].env)
  BY Zenon DEF Intact
<1>4. CASE id = txSeq
  <2>1. txRows'[id] = new
    BY <1>1, <1>4 DEF Inv, TypeOK, Tables
  <2>2. txRows'[id].user = q[s].user
        /\ txRows'[id].env = Encrypt(MasterKey, q[s].user, id, "")
    BY <1>3, <1>4, <2>1, Zenon
  <2>3. Opens(MasterKey, q[s].user, id, Encrypt(MasterKey, q[s].user, id, ""))
    BY DEF Opens, Encrypt
  <2> QED BY <2>2, <2>3, Zenon
<1>5. CASE id # txSeq
  <2>1. txRows'[id] = rows[id]
    BY <1>1, <1>2, <1>5 DEF Inv, TypeOK, Tables, TxOnly
  <2> QED BY <2>1, Zenon DEF Intact
<1> QED BY <1>4, <1>5

\* So does the row a PATCH has rewritten.
LEMMA ApplyOpens ==
    ASSUME Inv, SealedOpen, NEW s \in Slots, ~Closing(ProcOf[s]),
           Apply(s), pc'[s] = "commit"
    PROVE  \A id \in Ids : Intact(rows, id) => Intact(txRows', id)
<1> DEFINE id == q[s].id
           row == Lookup(txRows, q[s].user, id)
           new == Patched(s, row)
<1>0. TypeOK
  BY DEF Inv
<1>1. pc[s] = "apply"
  BY Zenon DEF Apply, At
<1>2. row # NoRow /\ txRows' = [txRows EXCEPT ![id] = new]
  <2>1. ~Respond(s, 404, {}) /\ ~Goto(s, "read")
    BY <1>0 DEF Respond, Goto, TypeOK
  <2> QED BY <2>1, Zenon DEF Apply
<1>3. id \in Ids /\ q[s].op = "patch" /\ txRows = rows
  BY <1>1, Zenon DEF Inv, HandlerInv, HandlerOK, Busy, WellFormed, StepsOf, Request,
     TxInv, TxOK, TxUntouched
<1>4. row = rows[id] /\ row \in Row /\ row.user = q[s].user
  <2>1. rows \in Tables /\ row = Lookup(rows, q[s].user, id)
    BY <1>0, <1>3, TableTypes, Zenon
  <2>2. Lookup(rows, q[s].user, id) # NoRow
    BY <1>2, <2>1
  <2>3. /\ Lookup(rows, q[s].user, id) = rows[id]
        /\ rows[id] \in Row
        /\ rows[id].user = q[s].user
    BY <1>3, <2>1, <2>2, LookupFinds, Zenon
  <2> QED BY <2>1, <2>3, Zenon
<1>5. Intact(rows, id) => Opens(MasterKey, row.user, id, row.env)
  BY <1>2, <1>4, Zenon DEF Intact
<1>6. new.user = row.user /\ new.env = IF ContentChanged(s) THEN env[s] ELSE row.env
  BY <1>4 DEF Patched, Row
<1> HIDE DEF row, new
<1>7. ContentChanged(s) => Opens(MasterKey, q[s].user, id, env[s])
  BY <1>1, <1>3 DEF SealedOpen, Sealed, Compared
<1>8. Intact(rows, id) => Opens(MasterKey, new.user, id, new.env)
  BY <1>4, <1>5, <1>6, <1>7
<1> SUFFICES ASSUME NEW i \in Ids, Intact(rows, i), txRows'[i] # NoRow
             PROVE  Opens(MasterKey, txRows'[i].user, i, txRows'[i].env)
  BY Zenon DEF Intact
<1>9. CASE i = id
  BY <1>0, <1>2, <1>8, <1>9, Zenon DEF TypeOK, Tables
<1>10. CASE i # id
  <2>1. txRows'[i] = rows[i]
    BY <1>0, <1>2, <1>3, <1>10, Zenon DEF TypeOK, Tables
  <2> QED BY <2>1, Zenon DEF Intact
<1> QED BY <1>9, <1>10

\* Every step keeps what is known of sealed and of finished rows.
LEMMA ReadStep == Inv /\ ReadInv /\ [Next]_vars => ReadInv'
<1> SUFFICES ASSUME Inv, ReadInv, [Next]_vars PROVE ReadInv'
  OBVIOUS
<1> USE DEF ReadInv
<1>1. SealedOpen'
  <2> SUFFICES ASSUME NEW s \in Slots, Sealed(s)', ~Closing(ProcOf[s])'
               PROVE  Opens(MasterKey, q'[s].user, q'[s].id, env'[s])
    BY DEF SealedOpen, Opens
  <2>0. ~Closing(ProcOf[s])
    <3>1. pc'[s] # "idle"
      BY DEF Sealed, Compared
    <3> QED BY <3>1, ClosingStays
  <2>1. CASE Sealed(s) /\ q'[s] = q[s] /\ env'[s] = env[s]
    BY <2>0, <2>1 DEF SealedOpen
  <2>2. CASE Seal(s)
    <3>1. q' = q /\ cur' = cur
      BY <2>2 DEF Seal
    <3>2. ContentChanged(s)
      BY <3>1 DEF Sealed, ContentChanged
    <3> QED BY <2>0, <2>2, <3>1, <3>2, SealOpens
  <2> QED BY <2>1, <2>2, SealedStep, Zenon
<1>2. CommitsOpen'
  <2> SUFFICES ASSUME NEW s \in Slots, pc'[s] = "commit", ~Closing(ProcOf[s])'
               PROVE  UNCHANGED rows /\ \A id \in Ids : Intact(rows, id) => Intact(txRows', id)
    <3> SUFFICES ASSUME NEW t \in Slots, pc'[t] = "commit", ~Closing(ProcOf[t])',
                        NEW id \in Ids, Intact(rows, id)'
                 PROVE  Intact(txRows, id)'
      BY Zenon DEF CommitsOpen
    <3>1. UNCHANGED rows /\ (Intact(rows, id) => Intact(txRows', id))
      OBVIOUS
    <3> QED BY <3>1 DEF Intact, Opens
  <2>0. ~Closing(ProcOf[s])
    BY ClosingStays
  <2>1. CASE pc[s] = "commit" /\ Same(s) /\ UNCHANGED txRows
    BY <2>0, <2>1, CommitKeepsTable DEF CommitsOpen
  <2>2. CASE Build(s)
    BY <2>0, <2>2, BuildOpens, Zenon DEF Build, dbVars
  <2>3. CASE Apply(s)
    <3>1. UNCHANGED rows
      BY <2>3, Zenon DEF Apply, Rollback, dbVars
    <3> QED BY <2>0, <2>3, <3>1, ApplyOpens
  <2> QED BY <2>1, <2>2, <2>3, CommitStep
<1> QED BY <1>1, <1>2

\* It holds throughout.
LEMMA ReadInvariance == Spec => []ReadInv
<1>1. Init => ReadInv
  BY DEF Init, ReadInv, SealedOpen, CommitsOpen, Sealed, Compared
<1> QED BY <1>1, Invariance, ReadStep, PTL DEF Spec

\* A row that a step makes unreadable was committed by a process that is closing.
LEMMA DamageStep ==
    ASSUME Inv, ReadInv, [Next]_vars, NEW id \in Ids, Intact(rows, id), ~Intact(rows', id)
    PROVE  \E s \in Slots : /\ pc[s] = "commit" /\ pc'[s] # "commit"
                            /\ Closing(ProcOf[s])
<1>0. TypeOK
  BY DEF Inv
<1>1. ~UNCHANGED dbVars
  BY DEF dbVars
<1>2. ASSUME NEW s \in Slots, rows' = [rows EXCEPT ![q[s].id] = NoRow] PROVE FALSE
  BY <1>0, <1>2 DEF TypeOK, Tables, Intact
<1>3. ASSUME NEW s \in Slots, Commit(s)
      PROVE  pc[s] = "commit" /\ pc'[s] # "commit" /\ Closing(ProcOf[s])
  <2>1. pc[s] = "commit" /\ rows' = txRows
    BY <1>3, Zenon DEF Commit, At
  <2>2. pc'[s] # "commit"
    BY <1>0, <1>3, Zenon DEF Commit, Respond, Goto, TypeOK
  <2>3. Closing(ProcOf[s])
    BY <2>1, Zenon DEF ReadInv, CommitsOpen
  <2> QED BY <2>1, <2>2, <2>3
<1> QED BY <1>1, <1>2, <1>3, TableStep, Zenon

\* However requests, crashes, shutdowns and failures to serve of any number of
\* processes interleave, a committed row stops opening only when a request commits
\* in a process that has left server.Run, that is, after Close has begun to wipe
\* the key.
THEOREM DamageIsLate == Spec => OnlyLateCommitsDamage
<1>1. Inv /\ ReadInv /\ [Next]_vars =>
        [\A id \in Ids : Intact(rows, id) /\ ~Intact(rows', id) =>
            \E s \in Slots : /\ pc[s] = "commit" /\ pc'[s] # "commit"
                             /\ Closing(ProcOf[s])]_vars
  BY DamageStep
<1> QED BY <1>1, Invariance, ReadInvariance, PTL DEF Spec, OnlyLateCommitsDamage

\* No process has begun to wipe its key.
KeysIntact == \A p \in Procs : ~Closing(p)

\* Nothing but the deadline of a shutdown and a failure to serve makes one do so
\* while it has requests.
LEMMA KeysStep ==
    ASSUME "deadline" \notin Faults, "serve" \notin Faults
    PROVE  Inv /\ KeysIntact /\ [Next]_vars => KeysIntact'
<1> SUFFICES ASSUME Inv, KeysIntact, [Next]_vars PROVE KeysIntact'
  OBVIOUS
<1>1. CASE UNCHANGED proc
  BY <1>1 DEF KeysIntact, Closing
<1>2. ASSUME NEW p \in Procs, Life(p)
      PROVE  \E to \in {"up", "draining", "down"} : proc' = [proc EXCEPT ![p] = to]
  <2>1. ~ServeFails(p) /\ ~DeadlineExpires(p) /\ ~Wiped(p) /\ ~CloseDB(p)
    BY DEF ServeFails, DeadlineExpires, Wiped, CloseDB, ProcStep, KeysIntact, Closing
  <2> QED BY <1>2, <2>1, Zenon DEF Life, Crash, Start, Shutdown, Drained, Exit, ProcStep, Die
<1>3. ASSUME NEW p \in Procs, Life(p) PROVE KeysIntact'
  BY <1>2, <1>3 DEF KeysIntact, Closing, Inv, TypeOK
<1> QED BY <1>1, <1>3, StageStep

\* Unless a shutdown outlives its deadline or Serve fails, every row any reader of
\* any process can find opens under the master key for its own owner and id: crashes, failed
\* statements and concurrent creates never expose the reserved row of an
\* unfinished create, and no PATCH stores a ciphertext bound to another row.
THEOREM RowsAlwaysReadable ==
    ASSUME "deadline" \notin Faults, "serve" \notin Faults
    PROVE  Spec => []RowsReadable
<1>1. Init => KeysIntact /\ RowsReadable
  BY DEF Init, KeysIntact, Closing, RowsReadable
<1>2. Inv /\ KeysIntact /\ ReadInv /\ RowsReadable /\ [Next]_vars => RowsReadable'
  <2> SUFFICES ASSUME Inv, KeysIntact, ReadInv, RowsReadable, [Next]_vars, NEW id \in Ids
               PROVE  Intact(rows, id)'
    BY DEF RowsReadable, Intact
  <2>1. \A s \in Slots : ~Closing(ProcOf[s])
    BY ConstantsOK, Zenon DEF KeysIntact
  <2>2. Intact(rows, id)
    BY DEF RowsReadable, Intact
  <2>3. Intact(rows', id)
    BY <2>1, <2>2, DamageStep
  <2> QED BY <2>3 DEF Intact, Opens
<1> QED BY <1>1, <1>2, KeysStep, Invariance, ReadInvariance, PTL DEF Spec
----------------------------------------------------------------------------
(***************************************************************************)
(* A PATCH of a row that stayed as the handler read it.                    *)
(***************************************************************************)

\* What was sealed is the content of the PATCH.
SealedIsAsked == \A s \in Slots : Sealed(s) => Plain(env[s]) = q[s].content

\* The row a PATCH is about to commit: the fields that differ from the row it
\* compared itself with are those of the PATCH, the others those of the table.
Written(s) ==
    LET was == rows[q[s].id]
        is == txRows[q[s].id]
    IN  /\ is.name = IF NameChanged(s) THEN q[s].name ELSE was.name
        /\ Plain(is.env) = IF ContentChanged(s) THEN q[s].content ELSE Plain(was.env)
        /\ ~Changed(s) => is.modified = was.modified
WrittenInv == \A s \in Slots : pc[s] = "commit" /\ q[s].op = "patch" => Written(s)

PatchInv == SealedIsAsked /\ WrittenInv

\* UpdateConfig writes the fields that differ and copies the others.
LEMMA ApplyWrites ==
    ASSUME Inv, SealedIsAsked, NEW s \in Slots, Apply(s), pc'[s] = "commit"
    PROVE  Written(s)'
<1> DEFINE id == q[s].id
           row == Lookup(txRows, q[s].user, id)
           new == Patched(s, row)
<1>0. TypeOK
  BY DEF Inv
<1>1. pc[s] = "apply"
  BY Zenon DEF Apply, At
<1>2. row # NoRow /\ txRows' = [txRows EXCEPT ![id] = new] /\ Goto(s, "commit") /\ UNCHANGED dbVars
  <2>1. ~Respond(s, 404, {}) /\ ~Goto(s, "read")
    BY <1>0, Zenon DEF Respond, Goto, TypeOK
  <2> QED BY <2>1, Zenon DEF Apply
<1>3. id \in Ids /\ q[s].op = "patch" /\ txRows = rows
  BY <1>1, Zenon DEF Inv, HandlerInv, HandlerOK, Busy, WellFormed, StepsOf, Request,
     TxInv, TxOK, TxUntouched
<1>4. row = rows[id] /\ row \in Row
  <2>1. rows \in Tables /\ row = Lookup(rows, q[s].user, id)
    BY <1>0, <1>3, TableTypes
  <2>2. Lookup(rows, q[s].user, id) # NoRow
    BY <1>2, <2>1
  <2>3. /\ Lookup(rows, q[s].user, id) = rows[id]
        /\ rows[id] \in Row
        /\ rows[id].user = q[s].user
    BY <1>3, <2>1, <2>2, LookupFinds, Zenon
  <2> QED BY <2>1, <2>3, Zenon
<1>5. /\ new.name = IF NameChanged(s) THEN q[s].name ELSE row.name
      /\ new.env = IF ContentChanged(s) THEN env[s] ELSE row.env
      /\ ~Changed(s) => new.modified = row.modified
  BY <1>4 DEF Patched, Row
<1> HIDE DEF row, new
<1>6. ContentChanged(s) => Plain(env[s]) = q[s].content
  BY <1>1, <1>3 DEF SealedIsAsked, Sealed, Compared
<1>7. Plain(new.env) = IF ContentChanged(s) THEN q[s].content ELSE Plain(row.env)
  BY <1>5, <1>6
<1>8. txRows'[id] = new /\ rows'[id] = row
  BY <1>0, <1>2, <1>3, <1>4 DEF TypeOK, Tables, dbVars
<1>9. q' = q /\ cur' = cur
  BY <1>2 DEF Goto
<1> QED BY <1>5, <1>7, <1>8, <1>9 DEF Written, Changed, NameChanged, ContentChanged, Plain

\* Every step keeps what is known of an open PATCH.
LEMMA PatchStep == Inv /\ PatchInv /\ [Next]_vars => PatchInv'
<1> SUFFICES ASSUME Inv, PatchInv, [Next]_vars PROVE PatchInv'
  OBVIOUS
<1> USE DEF PatchInv
<1>0. TypeOK
  BY DEF Inv
<1>1. SealedIsAsked'
  <2> SUFFICES ASSUME NEW s \in Slots, Sealed(s)' PROVE Plain(env'[s]) = q'[s].content
    BY Zenon DEF SealedIsAsked, Plain
  <2>1. CASE Sealed(s) /\ q'[s] = q[s] /\ env'[s] = env[s]
    BY <2>1 DEF SealedIsAsked
  <2>2. CASE Seal(s)
    <3>1. q' = q /\ cur' = cur
      BY <2>2 DEF Seal
    <3>2. ContentChanged(s)
      BY <3>1 DEF Sealed, ContentChanged
    <3>3. PICK key : env' = [env EXCEPT ![s] = Encrypt(key, q[s].user, q[s].id, q[s].content)]
      BY <2>2, <3>2, Zenon DEF Seal
    <3>4. env'[s] = Encrypt(key, q[s].user, q[s].id, q[s].content)
      BY <1>0, <3>3 DEF TypeOK
    <3> QED BY <3>1, <3>4 DEF Encrypt, Plain
  <2> QED BY <2>1, <2>2, SealedStep
<1>2. WrittenInv'
  <2> SUFFICES ASSUME NEW s \in Slots, pc'[s] = "commit", q'[s].op = "patch"
               PROVE  Written(s)'
    BY DEF WrittenInv
  <2>1. CASE pc[s] = "commit" /\ Same(s) /\ UNCHANGED txRows
    <3>1. UNCHANGED rows
      BY <2>1, CommitKeepsTable
    <3>2. q'[s] = q[s] /\ cur'[s] = cur[s]
      BY <2>1 DEF Same
    <3> QED BY <2>1, <3>1, <3>2 DEF WrittenInv, Written, Changed, NameChanged, ContentChanged, Plain
  <2>2. CASE Build(s)
    <3>1. pc[s] = "build" /\ q' = q
      BY <2>2 DEF Build, Goto, At
    <3>2. q[s].op = "create"
      BY <3>1, Zenon DEF Inv, HandlerInv, HandlerOK, Busy, WellFormed, StepsOf, Request
    <3> QED BY <3>1, <3>2
  <2>3. CASE Apply(s)
    BY <2>3, ApplyWrites
  <2> QED BY <2>1, <2>2, <2>3, CommitStep
<1> QED BY <1>1, <1>2

\* It holds throughout.
LEMMA PatchInvariance == Spec => []PatchInv
<1>1. Init => PatchInv
  BY DEF Init, PatchInv, SealedIsAsked, WrittenInv, Sealed, Compared
<1> QED BY <1>1, Invariance, PatchStep, PTL DEF Spec

\* A PATCH whose row nobody changed since UpdateConfigPlaintext read it commits a
\* row with every field it carries, whatever else runs, fails or is shut down.
THEOREM FreshPatchesApply == Spec => FreshPatchApplied
<1>1. Inv /\ PatchInv /\ [Next]_vars =>
        [\A s \in Slots : CommitsFresh(s) => Holds(rows', q[s])]_vars
  <2> SUFFICES ASSUME Inv, PatchInv, [Next]_vars, NEW s \in Slots, CommitsFresh(s)
               PROVE  Holds(rows', q[s])
    OBVIOUS
  <2>1. Commit(s) /\ q[s].op = "patch" /\ rows[q[s].id] = cur[s]
    BY CommitsByCommit DEF CommitsFresh
  <2>2. Written(s) /\ rows' = txRows
    BY <2>1, Zenon DEF Commit, At, PatchInv, WrittenInv
  <2> QED BY <2>1, <2>2, Zenon DEF Holds, Written, NameChanged, ContentChanged
<1> QED BY <1>1, Invariance, PatchInvariance, PTL DEF Spec, FreshPatchApplied

\* The row a PATCH compared itself with is the row in the table.
CurInv == \A s \in Slots : Compared(s) => rows[q[s].id] = cur[s]

\* A single handler is not overtaken.
LEMMA AloneStep ==
    ASSUME \A s, t \in Slots : s = t
    PROVE  Inv /\ CurInv /\ [Next]_vars => CurInv'
<1> SUFFICES ASSUME Inv, CurInv, [Next]_vars, NEW s \in Slots, Compared(s)'
             PROVE  rows'[q'[s].id] = cur'[s]
  BY Zenon DEF CurInv
<1>0. TypeOK
  BY DEF Inv
<1>1. ASSUME NEW status, NEW body, Respond(s, status, body) PROVE FALSE
  BY <1>0, <1>1 DEF Respond, TypeOK, Compared
<1>2. ASSUME NEW step, Goto(s, step)
      PROVE  pc'[s] = step /\ q'[s] = q[s] /\ cur'[s] = cur[s]
  BY <1>0, <1>2 DEF Goto, TypeOK
<1>3. CASE pc'[s] = pc[s] /\ q'[s] = q[s] /\ cur'[s] = cur[s] /\ UNCHANGED rows
  BY <1>3 DEF CurInv, Compared
<1>4. CASE SlotStep(s)
  <2>1. ASSUME NEW m \in Workload, Accept(s, m) PROVE FALSE
    <3>1. m \in Request
      BY ConstantsOK, Zenon
    <3>2. pc'[s] \in {"idle", "get", "list", "count", "read", "delete"}
      BY <1>0, <2>1, <3>1, AcceptedWellFormed, Zenon DEF Accept, TypeOK
    <3> QED BY <3>2 DEF Compared
  <2>2. CASE Get(s) \/ Reload(s) \/ List(s) \/ Delete(s) \/ BusyTimeout(s) \/ Abort(s)
    BY <1>1, <2>2, Responding, Zenon
  <2>3. CASE Count(s) \/ Reserve(s) \/ Build(s)
    <3>1. pc[s] \in {"count", "reserve", "build"}
      BY <2>3, Zenon DEF Count, Reserve, Build, At
    <3>2. q[s].op = "create"
      BY <3>1, Zenon DEF Inv, HandlerInv, HandlerOK, Busy, WellFormed, StepsOf, Request
    <3>3. q'[s] = q[s]
      BY <1>1, <1>2, <2>3, Zenon DEF Count, Reserve, Build
    <3> QED BY <3>2, <3>3, Zenon DEF Compared
  <2>4. CASE Begin(s) \/ Apply(s)
    <3>1. /\ pc[s] \in {"begin", "apply"} /\ rows' = rows
          /\ q'[s] = q[s] /\ cur'[s] = cur[s]
      BY <1>1, <1>2, <2>4, Zenon DEF Begin, Apply, At, Rollback, dbVars
    <3> QED BY <3>1 DEF CurInv, Compared
  <2>5. CASE Commit(s)
    <3>1. pc'[s] = "reload"
      BY <1>1, <1>2, <2>5 DEF Commit
    <3> QED BY <3>1 DEF Compared
  <2>6. CASE Read(s)
    <3> DEFINE row == Lookup(rows, q[s].user, q[s].id)
    <3>0. pc[s] = "read" /\ rows' = rows
      BY <2>6, Zenon DEF Read, At, dbVars
    <3>1. row # NoRow /\ q' = q /\ cur' = [cur EXCEPT ![s] = row]
      BY <1>1, <2>6, Zenon DEF Read
    <3>2. row = rows[q[s].id]
      BY <3>1, Zenon DEF Lookup
    <3> HIDE DEF row
    <3> QED BY <1>0, <3>0, <3>1, <3>2 DEF TypeOK
  <2>7. CASE Seal(s)
    <3>1. pc[s] = "seal" /\ q' = q /\ cur' = cur /\ rows' = rows
      BY <2>7, Zenon DEF Seal, At, dbVars
    <3> QED BY <3>1, Zenon DEF CurInv, Compared
  <2>8. CASE Connect(s)
    BY <1>3, <2>8, Zenon DEF Connect, reqVars, dbVars
  <2> QED BY <1>4, <2>1, <2>2, <2>3, <2>4, <2>5, <2>6, <2>7, <2>8, Zenon DEF SlotStep, Handle
<1>5. ASSUME NEW p \in Procs, Die(p) PROVE Same(s) /\ UNCHANGED rows
  <2>1. s \notin SlotsOf(p)
    BY <1>5 DEF Die, Compared
  <2>2. Same(s)
    BY <1>5, <2>1, Zenon DEF Die, Same
  <2>3. UNCHANGED rows
    BY <1>5, Zenon DEF Die, Rollback, Disconnect, dbVars
  <2> QED BY <2>2, <2>3
<1>6. CASE UNCHANGED <<dbVars, txVars, reqVars>>
  BY <1>3, <1>6 DEF dbVars, reqVars
<1> QED BY <1>3, <1>4, <1>5, <1>6, StepKinds, Zenon DEF Same

\* The last writer wins where the service handles one request at a time: what
\* loses an upload is that UpdateConfigPlaintext compares outside the transaction
\* while another request commits, never a crash, a fault or a shutdown.
THEOREM LastWriteWinsAlone ==
    ASSUME \A s, t \in Slots : s = t
    PROVE  Spec => LastWriteWins
<1>1. Init => CurInv
  BY DEF Init, CurInv, Compared
<1>2. Spec => []CurInv
  BY <1>1, Invariance, AloneStep, PTL DEF Spec
<1>3. Inv /\ PatchInv /\ CurInv /\ [Next]_vars =>
        [\A s \in Slots : CommitsPatch(s) => Holds(rows', q[s])]_vars
  <2> SUFFICES ASSUME Inv, PatchInv, CurInv, [Next]_vars, NEW s \in Slots, CommitsPatch(s)
               PROVE  Holds(rows', q[s])
    OBVIOUS
  <2>1. Commit(s) /\ q[s].op = "patch" /\ pc[s] = "commit"
    BY CommitsByCommit DEF CommitsPatch
  <2>2. rows[q[s].id] = cur[s]
    BY <2>1 DEF CurInv, Compared
  <2>3. Written(s) /\ rows' = txRows
    BY <2>1, Zenon DEF Commit, PatchInv, WrittenInv
  <2> QED BY <2>2, <2>3, Zenon DEF Holds, Written, NameChanged, ContentChanged
<1> QED BY <1>2, <1>3, Invariance, PatchInvariance, PTL DEF Spec, LastWriteWins

\* Such a PATCH of fields the row already has leaves its modified_at, so a
\* retried upload does not look like a change to the other clients.
THEOREM RepeatsKeepModifiedAt == Spec => RepeatPreservesModifiedAt
<1>1. Inv /\ PatchInv /\ [Next]_vars =>
        [\A s \in Slots : CommitsFresh(s) /\ Holds(rows, q[s]) =>
            rows'[q[s].id].modified = rows[q[s].id].modified]_vars
  <2> SUFFICES ASSUME Inv, PatchInv, [Next]_vars, NEW s \in Slots,
                      CommitsFresh(s), Holds(rows, q[s])
               PROVE  rows'[q[s].id].modified = rows[q[s].id].modified
    OBVIOUS
  <2>1. Commit(s) /\ q[s].op = "patch" /\ rows[q[s].id] = cur[s]
    BY CommitsByCommit DEF CommitsFresh
  <2>2. Written(s) /\ rows' = txRows
    BY <2>1 DEF Commit, At, PatchInv, WrittenInv
  <2>3. ~Changed(s)
    BY <2>1 DEF Holds, Changed, NameChanged, ContentChanged
  <2> QED BY <2>2, <2>3, Zenon DEF Written
<1> QED BY <1>1, Invariance, PatchInvariance, PTL DEF Spec, RepeatPreservesModifiedAt
==============================================================================
