----------------------- MODULE ConfigService_proofs -----------------------
(***************************************************************************)
(* Proofs about ConfigService, for every number of processes, goroutines,  *)
(* users, ids and requests.  The invariants below are what the code relies *)
(* on between its steps; together they are inductive.                      *)
(***************************************************************************)
EXTENDS ConfigService, TLAPS

\* The steps a handler takes inside a transaction.
TxSteps == {"reserve", "build", "apply", "commit"}

\* The steps a request of each kind goes through.
StepsOf(op) ==
    CASE op = "get" -> {"get"}
      [] op = "list" -> {"list"}
      [] op = "delete" -> {"delete"}
      [] op = "create" -> {"count", "begin", "reserve", "build", "commit"}
      [] op = "patch" -> {"read", "seal", "begin", "apply", "commit", "reload"}

\* A request that passed the checks of its handler.
WellFormed(m) ==
    /\ m \in Request
    /\ m.op \in {"get", "patch", "delete"} => m.id \in Ids
    /\ m.op = "create" => m.name \in Names \ {""}

\* A busy slot serves a well-formed request, at one of the steps of its kind.
HandlerOK(s) == Busy(s) => WellFormed(q[s]) /\ pc[s] \in StepsOf(q[s].op)
HandlerInv == \A s \in Slots : HandlerOK(s)

\* Slot s has compared its PATCH with a row.
Compared(s) ==
    pc[s] \in {"seal", "begin", "apply", "commit"} /\ q[s].op = "patch"

\* Slot s has sealed the content its PATCH changes.
Sealed(s) == Compared(s) /\ pc[s] # "seal" /\ ContentChanged(s)

CompareOK(s) ==
    /\ Compared(s) => cur[s] \in Row
    /\ Sealed(s) => env[s] \in Envelopes
CompareInv == \A s \in Slots : CompareOK(s)

\* The write lock is held exactly by the slot inside a transaction; without one
\* the private copy is the database.
LockInv ==
    /\ \A s \in Slots : pc[s] \in TxSteps <=> writer = s
    /\ writer = None => txRows = rows /\ txSeq = seq

\* Ids above the counter were never used.
FreshInv == \A id \in Ids : id > seq => rows[id] = NoRow

\* A committed row may be replaced by this one: same owner, and a later
\* modified_at unless name and content stay.
RowEvolves(old, new) ==
    /\ new.user = old.user
    /\ \/ new.modified > old.modified
       \/ /\ new.modified = old.modified
          /\ new.name = old.name
          /\ Plain(new.env) = Plain(old.env)

\* The private copy differs from the database in this row only.
TxOnly(id) == \A i \in Ids \ {id} : txRows[i] = rows[i]

\* What the transaction of slot s has done so far.
TxUntouched(s) == pc[s] \in {"reserve", "apply"} => txRows = rows /\ txSeq = seq

TxCreates(s) ==
    pc[s] = "build" \/ (pc[s] = "commit" /\ q[s].op = "create") =>
        /\ txSeq = seq + 1
        /\ TxOnly(txSeq)
        /\ txRows[txSeq] \in Row
        /\ txRows[txSeq].user = q[s].user
        /\ txRows[txSeq].luwv = ""
        /\ Plain(txRows[txSeq].env) = ""
        /\ pc[s] = "commit" => txRows[txSeq].name = q[s].name

TxPatches(s) ==
    pc[s] = "commit" /\ q[s].op = "patch" =>
        /\ txSeq = seq
        /\ TxOnly(q[s].id)
        /\ rows[q[s].id] \in Row /\ txRows[q[s].id] \in Row
        /\ rows[q[s].id].user = q[s].user
        /\ RowEvolves(rows[q[s].id], txRows[q[s].id])

TxOK(s) == TxUntouched(s) /\ TxCreates(s) /\ TxPatches(s)
TxInv == \A s \in Slots : TxOK(s)

\* The inductive invariant behind type correctness.
Inv == TypeOK /\ HandlerInv /\ CompareInv /\ LockInv /\ FreshInv /\ TxInv
----------------------------------------------------------------------------
(***************************************************************************)
(* Facts about the helpers.                                                *)
(***************************************************************************)

\* There is an id.
LEMMA MaxIdNat == MaxId \in Nat /\ MaxId >= 1
<1>1. MaxId \in Nat \ {0}
  BY ConstantsOK, Zenon
<1> QED BY <1>1

\* Whatever a goroutine reads in the key buffer is one of the three keys.
LEMMA KeysInUseIsKey == \A p : KeysInUse(p) \subseteq Keys
BY DEF KeysInUse, Keys

\* The committed table and the transaction's copy are tables.
LEMMA TableTypes ==
    ASSUME TypeOK
    PROVE  rows \in Tables /\ txRows \in Tables
BY DEF TypeOK

\* A row found by id and owner is a row of the table, owned by that user.
LEMMA LookupFinds ==
    ASSUME NEW table \in Tables, NEW user, NEW id \in Ids,
           Lookup(table, user, id) # NoRow
    PROVE  /\ Lookup(table, user, id) = table[id]
           /\ table[id] \in Row
           /\ table[id].user = user
BY DEF Lookup, Tables

\* A row of a table, decrypted, is a view.
LEMMA ToPlaintextType ==
    ASSUME NEW id \in Ids, NEW row \in Row
    PROVE  /\ ToPlaintext(id, row) \in View
           /\ ToPlaintext(id, row).id = id
           /\ ToPlaintext(id, row).user = row.user
           /\ ToPlaintext(id, row).name = row.name
           /\ ToPlaintext(id, row).content = Plain(row.env)
           /\ ToPlaintext(id, row).modified = row.modified
BY DEF ToPlaintext, View, Row, Envelopes, Plain

\* nextModifiedAt moves forward.
LEMMA NextModifiedAtGrows ==
    ASSUME NEW old \in Nat, clock \in Nat
    PROVE  NextModifiedAt(old) \in Nat /\ NextModifiedAt(old) > old
BY DEF NextModifiedAt

\* Sealing makes an envelope.
LEMMA EncryptType ==
    ASSUME NEW key \in Keys, NEW user \in Users, NEW id \in Ids,
           NEW plain \in Contents
    PROVE  /\ Encrypt(key, user, id, plain) \in Envelopes
           /\ Plain(Encrypt(key, user, id, plain)) = plain
           /\ Opens(key, user, id, Encrypt(key, user, id, plain))
BY DEF Encrypt, Envelopes, Plain, Opens, BuildAAD

\* A handler that is at its first step serves a well-formed request.
LEMMA AcceptedWellFormed ==
    ASSUME NEW m \in Request, Rejected(m) = 0
    PROVE  /\ WellFormed(m)
           /\ FirstStep[m.op] \in StepsOf(m.op)
           /\ FirstStep[m.op] \in {"get", "list", "count", "read", "delete"}
<1>a. BadId(m) = 0 /\ BadCreate(m) = 0
  BY DEF Rejected
<1>b. m.op \in {"get", "patch", "delete"} => m.id # 0
  BY <1>a DEF BadId
<1>c. m.op = "create" => m.name \notin {Nil, ""}
  <2>1. m.op = "create" /\ m.name \in {Nil, ""} => BadCreate(m) = 400
    BY Zenon DEF BadCreate
  <2>2. 400 # 0
    OBVIOUS
  <2> QED BY <1>a, <2>1, <2>2, Zenon
<1>1. WellFormed(m)
  BY <1>b, <1>c, Zenon DEF WellFormed, Request
<1>2. FirstStep[m.op] \in StepsOf(m.op)
  BY DEF FirstStep, StepsOf, Request
<1>3. FirstStep[m.op] \in {"get", "list", "count", "read", "delete"}
  BY DEF FirstStep, Request
<1> QED BY <1>1, <1>2, <1>3
----------------------------------------------------------------------------
(***************************************************************************)
(* Inv is inductive.                                                       *)
(***************************************************************************)

\* Nothing a handler keeps for slot t changes.
Same(t) == pc'[t] = pc[t] /\ q'[t] = q[t] /\ cur'[t] = cur[t] /\ env'[t] = env[t]

\* A slot nothing happened to keeps its invariants.
LEMMA SameKeeps ==
    ASSUME NEW t \in Slots, Same(t), HandlerOK(t), CompareOK(t)
    PROVE  HandlerOK(t)' /\ CompareOK(t)'
BY DEF Same, HandlerOK, CompareOK, Busy, Compared, Sealed, ContentChanged

\* A slot outside a transaction owes nothing to it.
LEMMA OutsideTxOK ==
    ASSUME NEW t \in Slots, pc'[t] \notin TxSteps
    PROVE  TxOK(t)'
BY Zenon DEF TxSteps, TxOK, TxUntouched, TxCreates, TxPatches

\* A slot keeps its transaction while tables and slot stay.
LEMMA SameTxOK ==
    ASSUME NEW t \in Slots, Same(t), UNCHANGED <<dbVars, txVars>>, TxOK(t)
    PROVE  TxOK(t)'
BY Zenon DEF Same, dbVars, txVars, TxOK, TxUntouched, TxCreates, TxPatches, TxOnly, RowEvolves

\* A slot that is idle keeps nothing the invariant speaks of.
LEMMA IdleOK ==
    ASSUME NEW t \in Slots, pc'[t] = "idle"
    PROVE  HandlerOK(t)' /\ CompareOK(t)' /\ TxOK(t)'
BY DEF HandlerOK, CompareOK, Busy, Compared, Sealed, TxOK, TxUntouched, TxCreates, TxPatches

\* Initially nothing is stored and every slot is idle.
LEMMA InitInv == Init => Inv
<1> SUFFICES ASSUME Init PROVE Inv
  OBVIOUS
<1>1. TypeOK
  <2>1. rows \in Tables /\ txRows \in Tables
    BY DEF Init, Tables
  <2>2. seq \in 0..MaxId /\ txSeq \in 0..MaxId /\ clock \in Nat /\ served \in Nat
    BY MaxIdNat DEF Init
  <2>3. resp \in [Slots -> [status : Nat, body : SUBSET View]]
    BY DEF Init
  <2> QED BY <2>1, <2>2, <2>3 DEF Init, TypeOK, Stages, Steps
<1>2. HandlerInv /\ CompareInv /\ TxInv
  BY DEF Init, HandlerInv, HandlerOK, CompareInv, CompareOK, Busy, Compared, Sealed,
         TxInv, TxOK, TxUntouched, TxCreates, TxPatches
<1>3. LockInv
  BY ConstantsOK, Zenon DEF Init, LockInv, TxSteps
<1>4. FreshInv
  BY DEF Init, FreshInv
<1> QED BY <1>1, <1>2, <1>3, <1>4 DEF Inv

\* A handler outside a transaction answers, and gives the connection back if it
\* had it.
LEMMA RespondInv ==
    ASSUME Inv, NEW s \in Slots, pc[s] \notin TxSteps,
           NEW status \in Nat, NEW body \in SUBSET View, Respond(s, status, body),
           conn' \in {conn, [conn EXCEPT ![ProcOf[s]] = None]},
           UNCHANGED <<dbVars, txVars, clock, proc, taking, cache>>
    PROVE  Inv'
<1> USE DEF Inv, dbVars, txVars
<1>0. conn' \in [Procs -> Slots \cup {None}]
  BY DEF TypeOK
<1>1. TypeOK'
  BY <1>0 DEF TypeOK, Respond, Steps
<1>2. ASSUME NEW t \in Slots PROVE HandlerOK(t)' /\ CompareOK(t)' /\ TxOK(t)'
  <2>1. CASE t = s
    BY <2>1, IdleOK DEF Respond, TypeOK
  <2>2. CASE t # s
    BY <2>2, SameKeeps, SameTxOK DEF Respond, TypeOK, Same, HandlerInv, CompareInv, TxInv
  <2> QED BY <2>1, <2>2
<1>3. LockInv'
  BY DEF LockInv, Respond, TypeOK, TxSteps
<1>4. FreshInv'
  BY DEF FreshInv
<1> QED BY <1>1, <1>2, <1>3, <1>4 DEF HandlerInv, CompareInv, TxInv

\* A handler inside a transaction rolls back and answers.
LEMMA RollbackInv ==
    ASSUME Inv, NEW s \in Slots, writer = s,
           NEW status \in Nat, NEW body \in SUBSET View, Respond(s, status, body),
           Rollback(ProcOf[s]), UNCHANGED <<clock, proc, taking, cache>>
    PROVE  Inv'
<1> USE DEF Inv, dbVars, txVars
<1>1. TypeOK'
  BY Zenon DEF TypeOK, Respond, Rollback, Steps
<1>2. ASSUME NEW t \in Slots PROVE HandlerOK(t)' /\ CompareOK(t)' /\ TxOK(t)'
  <2>1. CASE t = s
    BY <2>1, IdleOK DEF Respond, TypeOK
  <2>2. CASE t # s
    <3>1. Same(t) /\ pc'[t] \notin TxSteps
      BY <2>2 DEF Respond, TypeOK, Same, LockInv
    <3> QED BY <3>1, SameKeeps, OutsideTxOK DEF HandlerInv, CompareInv
  <2> QED BY <2>1, <2>2
<1>3. LockInv'
  BY ConstantsOK, Zenon DEF LockInv, Respond, Rollback, TypeOK, TxSteps
<1>4. FreshInv'
  BY DEF FreshInv, Rollback
<1> QED BY <1>1, <1>2, <1>3, <1>4 DEF HandlerInv, CompareInv, TxInv

\* Steps of processes, clock and client touch no table and no handler.
LEMMA QuietInv ==
    ASSUME Inv, TypeOK', UNCHANGED <<dbVars, txVars, pc, q, cur, env>>
    PROVE  Inv'
<1> USE DEF Inv, dbVars, txVars
<1>1. ASSUME NEW t \in Slots PROVE HandlerOK(t)' /\ CompareOK(t)' /\ TxOK(t)'
  BY SameKeeps, SameTxOK DEF Same, HandlerInv, CompareInv, TxInv
<1>2. LockInv' /\ FreshInv'
  BY DEF LockInv, FreshInv
<1> QED BY <1>1, <1>2 DEF HandlerInv, CompareInv, TxInv

\* A request is accepted, or rejected at once.
LEMMA AcceptInv ==
    ASSUME Inv, NEW s \in Slots, NEW m \in Workload, Accept(s, m)
    PROVE  Inv'
<1> USE DEF Inv, dbVars, txVars
<1>1. m \in Request
  BY ConstantsOK, Zenon
<1>2. Rejected(m) \in Nat
  <2>1. BadId(m) \in Nat
    BY DEF BadId
  <2>2. BadCreate(m) \in {0, 400}
    BY Zenon DEF BadCreate
  <2>3. BadPatch(m) \in {0, 400, 413}
    <3> DEFINE Empty == m.op = "patch" /\ {m.name, m.content, m.luwv} = {Nil}
               Big == m.op = "patch" /\ m.content \in Oversized
    <3>1. BadPatch(m) = IF Empty THEN 400 ELSE IF Big THEN 413 ELSE 0
      BY Zenon DEF BadPatch
    <3> HIDE DEF Empty, Big
    <3> QED BY <3>1
  <2> QED BY <2>1, <2>2, <2>3 DEF Rejected
<1>3. Rejected(m) = 0 => FirstStep[m.op] \in {"get", "list", "count", "read", "delete"}
  BY <1>1, AcceptedWellFormed
<1>4. pc'[s] \in {"idle", "get", "list", "count", "read", "delete"}
  BY <1>3 DEF Accept, TypeOK
<1>5. TypeOK'
  BY <1>1, <1>2, <1>4 DEF TypeOK, Accept, Steps
<1>6. ASSUME NEW t \in Slots PROVE HandlerOK(t)' /\ CompareOK(t)' /\ TxOK(t)'
  <2>1. CASE t = s /\ Rejected(m) # 0
    BY <2>1, IdleOK DEF Accept, TypeOK
  <2>2. CASE t = s /\ Rejected(m) = 0
    <3>1. q'[t] = m /\ pc'[t] = FirstStep[m.op]
      BY <2>2 DEF Accept, TypeOK
    <3>2. HandlerOK(t)'
      BY <1>1, <2>2, <3>1, AcceptedWellFormed DEF HandlerOK
    <3>3. CompareOK(t)' /\ TxOK(t)'
      BY <1>4, <2>2, OutsideTxOK DEF CompareOK, Compared, Sealed, TxSteps
    <3> QED BY <3>2, <3>3
  <2>3. CASE t # s
    BY <2>3, SameKeeps, SameTxOK DEF Accept, TypeOK, Same, HandlerInv, CompareInv, TxInv
  <2> QED BY <2>1, <2>2, <2>3
<1>7. LockInv'
  BY <1>4 DEF LockInv, Accept, TypeOK, TxSteps
<1>8. FreshInv'
  BY DEF FreshInv, Accept
<1> QED BY <1>5, <1>6, <1>7, <1>8 DEF HandlerInv, CompareInv, TxInv

\* Reading one row.
LEMMA FetchRowInv ==
    ASSUME Inv, NEW s \in Slots, pc[s] \in {"get", "reload"}, NEW key,
           FetchRow(s, key), UNCHANGED <<dbVars, txVars, conn, clock, proc, taking, cache>>
    PROVE  Inv'
<1> DEFINE row == Lookup(rows, q[s].user, q[s].id)
<1>1. q[s].id \in Ids /\ rows \in Tables /\ pc[s] \notin TxSteps
  BY Zenon DEF Inv, TypeOK, HandlerInv, HandlerOK, Busy, WellFormed, StepsOf, Request, TxSteps
<1>2. row # NoRow => {ToPlaintext(q[s].id, row)} \in SUBSET View
  BY <1>1, LookupFinds, ToPlaintextType
<1>3. \/ Respond(s, 404, {})
      \/ Respond(s, 500, {})
      \/ row # NoRow /\ Respond(s, 200, {ToPlaintext(q[s].id, row)})
  BY Zenon DEF FetchRow
<1>4. CASE Respond(s, 404, {})
  BY <1>1, <1>4, RespondInv
<1>5. CASE Respond(s, 500, {})
  BY <1>1, <1>5, RespondInv
<1>6. CASE row # NoRow /\ Respond(s, 200, {ToPlaintext(q[s].id, row)})
  BY <1>1, <1>2, <1>6, RespondInv
<1> QED BY <1>3, <1>4, <1>5, <1>6

\* Reading all rows of a user.
LEMMA ListInv ==
    ASSUME Inv, NEW s \in Slots, List(s)
    PROVE  Inv'
<1> DEFINE ids == OwnedIds(rows, q[s].user)
           views == {ToPlaintext(id, rows[id]) : id \in ids}
<1>1. PICK key : FetchRows(s, key)
  BY DEF List
<1>2. rows \in Tables /\ pc[s] \notin TxSteps
  BY DEF Inv, TypeOK, List, At, TxSteps
<1>3. views \in SUBSET View
  <2>1. ASSUME NEW id \in ids PROVE ToPlaintext(id, rows[id]) \in View
    BY <1>2, LookupFinds, ToPlaintextType DEF OwnedIds
  <2> QED BY <2>1
<1>4. Respond(s, 200, views) \/ Respond(s, 500, {})
  BY <1>1, Zenon DEF FetchRows
<1>5. UNCHANGED <<dbVars, txVars, conn, clock, proc, taking, cache>>
  BY DEF List
<1>6. CASE Respond(s, 200, views)
  BY <1>2, <1>3, <1>5, <1>6, RespondInv
<1>7. CASE Respond(s, 500, {})
  BY <1>2, <1>5, <1>7, RespondInv
<1> QED BY <1>4, <1>6, <1>7

\* A slot outside a transaction moves on to another step outside one, leaving
\* alone what it compared and sealed.
LEMMA GotoInv ==
    ASSUME Inv, NEW s \in Slots, pc[s] = "count", Goto(s, "begin"),
           UNCHANGED <<dbVars, txVars, conn, clock, proc, taking, cache>>
    PROVE  Inv'
<1> USE DEF Inv, dbVars, txVars
<1>1. TypeOK'
  BY DEF TypeOK, Goto, Steps
<1>2. ASSUME NEW t \in Slots PROVE HandlerOK(t)' /\ CompareOK(t)' /\ TxOK(t)'
  <2>1. CASE t = s
    <3>1. pc'[t] = "begin" /\ q'[t] = q[t] /\ q[t].op = "create"
      BY <2>1, Zenon DEF Goto, TypeOK, HandlerInv, HandlerOK, Busy, WellFormed, StepsOf, Request
    <3>2. HandlerOK(t)'
      BY <2>1, <3>1 DEF HandlerInv, HandlerOK, Busy, StepsOf
    <3>3. CompareOK(t)' /\ TxOK(t)'
      BY <3>1, OutsideTxOK DEF CompareOK, Compared, Sealed, TxSteps
    <3> QED BY <3>2, <3>3
  <2>2. CASE t # s
    BY <2>2, SameKeeps, SameTxOK DEF Goto, TypeOK, Same, HandlerInv, CompareInv, TxInv
  <2> QED BY <2>1, <2>2
<1>3. LockInv'
  BY DEF LockInv, Goto, TypeOK, TxSteps
<1>4. FreshInv'
  BY DEF FreshInv
<1> QED BY <1>1, <1>2, <1>3, <1>4 DEF HandlerInv, CompareInv, TxInv

\* DELETE removes one row of a user outside any transaction.
LEMMA DeleteInv ==
    ASSUME Inv, NEW s \in Slots, Delete(s)
    PROVE  Inv'
<1> USE DEF Inv, dbVars, txVars
<1>0. pc[s] = "delete" /\ pc[s] \notin TxSteps /\ writer = None
  BY DEF Delete, At, TxSteps
<1>1. CASE Respond(s, 404, {}) /\ UNCHANGED <<rows, txRows>>
  <2>1. /\ UNCHANGED <<dbVars, txVars, clock, proc, taking, cache>>
        /\ conn' \in {conn, [conn EXCEPT ![ProcOf[s]] = None]}
    BY <1>1 DEF Delete
  <2> QED BY <1>0, <1>1, <2>1, RespondInv
<1>2. CASE /\ Respond(s, 204, {})
           /\ rows' = [rows EXCEPT ![q[s].id] = NoRow]
           /\ txRows' = rows'
  <2>1. /\ UNCHANGED <<seq, txSeq, writer, clock, proc, taking, cache>>
        /\ conn' = [conn EXCEPT ![ProcOf[s]] = None]
    BY DEF Delete
  <2>2. TypeOK'
    <3>1. rows' \in Tables /\ txRows' \in Tables
      BY <1>2, Zenon DEF TypeOK, Tables
    <3>2. conn' \in [Procs -> Slots \cup {None}]
      BY <2>1, Zenon DEF TypeOK
    <3> QED BY <1>2, <2>1, <3>1, <3>2, Zenon DEF TypeOK, Respond, Steps
  <2>3. ASSUME NEW t \in Slots PROVE HandlerOK(t)' /\ CompareOK(t)' /\ TxOK(t)'
    <3>1. CASE t = s
      BY <1>2, <3>1, IdleOK DEF Respond, TypeOK
    <3>2. CASE t # s
      <4>1. Same(t) /\ pc'[t] \notin TxSteps
        BY <1>0, <1>2, <3>2, ConstantsOK, Zenon DEF Respond, TypeOK, Same, LockInv
      <4> QED BY <4>1, SameKeeps, OutsideTxOK DEF HandlerInv, CompareInv
    <3> QED BY <3>1, <3>2
  <2>4. LockInv'
    BY <1>0, <1>2, <2>1 DEF LockInv, Respond, TypeOK, TxSteps
  <2>5. FreshInv'
    BY <1>2, <2>1 DEF FreshInv, TypeOK, Tables
  <2> QED BY <2>2, <2>3, <2>4, <2>5 DEF HandlerInv, CompareInv, TxInv
<1> QED BY <1>1, <1>2, Zenon DEF Delete

\* A statement that writes takes the connection.
LEMMA ConnectInv ==
    ASSUME Inv, NEW s \in Slots, Connect(s)
    PROVE  Inv'
<1>1. TypeOK'
  BY Zenon DEF Connect, Inv, TypeOK, dbVars, txVars, reqVars
<1> QED BY <1>1, QuietInv DEF Connect, reqVars

\* BEGIN IMMEDIATE: the slot takes the lock.
LEMMA BeginInv ==
    ASSUME Inv, NEW s \in Slots, Begin(s)
    PROVE  Inv'
<1> DEFINE step == IF q[s].op = "create" THEN "reserve" ELSE "apply"
<1> USE DEF Inv, dbVars, txVars
<1>0. /\ pc[s] = "begin" /\ writer = None /\ writer' = s
      /\ Goto(s, step)
      /\ UNCHANGED <<rows, seq, txRows, txSeq, conn, clock, proc, taking, cache>>
  BY DEF Begin, At
<1>1. step \in {"reserve", "apply"} /\ pc' = [pc EXCEPT ![s] = step]
  BY <1>0 DEF Goto
<1> HIDE DEF step
<1>2. TypeOK'
  BY <1>0, <1>1, Zenon DEF TypeOK, Goto, Steps
<1>3. q[s].op \in {"create", "patch"} /\ WellFormed(q[s])
  BY <1>0, Zenon DEF HandlerInv, HandlerOK, Busy, WellFormed, StepsOf, Request
<1>4. ASSUME NEW t \in Slots PROVE HandlerOK(t)' /\ CompareOK(t)' /\ TxOK(t)'
  <2>1. CASE t = s
    <3>1. q'[t] = q[t] /\ cur'[t] = cur[t] /\ env'[t] = env[t] /\ pc'[t] = step
      BY <1>0, <1>1, <2>1 DEF Goto, TypeOK
    <3>2. HandlerOK(t)'
      BY <1>3, <2>1, <3>1 DEF HandlerOK, StepsOf, step
    <3>3. CompareOK(t)'
      BY <1>0, <1>1, <2>1, <3>1 DEF CompareInv, CompareOK, Compared, Sealed, ContentChanged
    <3>4. TxOK(t)'
      BY <1>0, <1>1, <2>1, <3>1, Zenon DEF TxOK, TxUntouched, TxCreates, TxPatches, LockInv
    <3> QED BY <3>2, <3>3, <3>4
  <2>2. CASE t # s
    <3>1. Same(t) /\ pc'[t] \notin TxSteps
      BY <1>0, <1>1, <2>2, ConstantsOK, Zenon DEF Goto, TypeOK, Same, LockInv
    <3> QED BY <3>1, SameKeeps, OutsideTxOK DEF HandlerInv, CompareInv
  <2> QED BY <2>1, <2>2
<1>5. LockInv'
  BY <1>0, <1>1, ConstantsOK, Zenon DEF LockInv, TypeOK, TxSteps
<1>6. FreshInv'
  BY <1>0 DEF FreshInv
<1> QED BY <1>2, <1>4, <1>5, <1>6 DEF HandlerInv, CompareInv, TxInv

\* The reserving INSERT.
LEMMA ReserveInv ==
    ASSUME Inv, NEW s \in Slots, Reserve(s)
    PROVE  Inv'
<1> USE DEF Inv, dbVars, txVars
<1>0. pc[s] = "reserve" /\ writer = s /\ txRows = rows /\ txSeq = seq
      /\ UNCHANGED <<clock, proc, taking, cache>>
  BY Zenon DEF Reserve, At, LockInv, TxSteps, TxInv, TxOK, TxUntouched
<1>1. CASE ~IdsLeft
  <2>1. Rollback(ProcOf[s]) /\ Respond(s, 500, {})
    BY <1>1, Zenon DEF Reserve
  <2>2. 500 \in Nat /\ {} \in SUBSET View
    OBVIOUS
  <2>3. Inv
    OBVIOUS
  <2> HIDE DEF Inv
  <2> QED BY <1>0, <2>1, <2>2, <2>3, RollbackInv, Zenon
<1>2. CASE IdsLeft
  <2>1. /\ txSeq' = seq + 1
        /\ txRows' = [txRows EXCEPT ![seq + 1] = ReservedRow(s)]
        /\ Goto(s, "build")
        /\ UNCHANGED <<rows, seq, writer, conn>>
    BY <1>2, Zenon DEF Reserve, NextRowId
  <2>2. seq + 1 \in Ids /\ seq + 1 \in 0..MaxId /\ seq \in Nat
    BY <1>2, MaxIdNat DEF IdsLeft, NextRowId, Ids, TypeOK
  <2>3. WellFormed(q[s]) /\ q[s].op = "create"
    BY <1>0, Zenon DEF HandlerInv, HandlerOK, Busy, WellFormed, StepsOf, Request
  <2>4. /\ ReservedRow(s) \in Row
        /\ ReservedRow(s).user = q[s].user
        /\ ReservedRow(s).luwv = ""
        /\ Plain(ReservedRow(s).env) = ""
    <3>1. "" \in Names /\ "" \in Contents /\ "" \in Versions
      BY ConstantsOK, Zenon
    <3>2. q[s].user \in Users /\ clock \in Nat
      BY <2>3, Zenon DEF WellFormed, Request, TypeOK
    <3>3. [key |-> NoKey, aad |-> BuildAAD(q[s].user, NextRowId), plain |-> ""] \in Envelopes
      BY <2>2, <3>1, <3>2, Zenon DEF Envelopes, BuildAAD, NextRowId
    <3> QED BY <3>1, <3>2, <3>3, Zenon DEF ReservedRow, Row, Plain
  <2>5. TypeOK'
    <3>1. txRows' \in Tables
      BY <2>1, <2>2, <2>4, Zenon DEF TypeOK, Tables
    <3> QED BY <1>0, <2>1, <2>2, <3>1 DEF TypeOK, Goto, Steps
  <2>6. ASSUME NEW t \in Slots PROVE HandlerOK(t)' /\ CompareOK(t)' /\ TxOK(t)'
    <3>1. CASE t = s
      <4>1. q'[t] = q[t] /\ pc'[t] = "build"
        BY <2>1, <3>1 DEF Goto, TypeOK
      <4>2. HandlerOK(t)'
        BY <2>3, <3>1, <4>1 DEF HandlerOK, StepsOf
      <4>3. CompareOK(t)'
        BY <4>1 DEF CompareOK, Compared, Sealed
      <4>4. TxCreates(t)'
        BY <1>0, <2>1, <2>2, <2>4, <3>1, <4>1, Zenon DEF TxCreates, TxOnly, TypeOK, Tables
      <4>5. TxUntouched(t)' /\ TxPatches(t)'
        BY <4>1 DEF TxUntouched, TxPatches
      <4> QED BY <4>2, <4>3, <4>4, <4>5 DEF TxOK
    <3>2. CASE t # s
      <4>1. Same(t) /\ pc'[t] \notin TxSteps
        BY <1>0, <2>1, <3>2 DEF Goto, TypeOK, Same, LockInv
      <4> QED BY <4>1, SameKeeps, OutsideTxOK DEF HandlerInv, CompareInv
    <3> QED BY <3>1, <3>2
  <2>7. LockInv'
    BY <1>0, <2>1, ConstantsOK, Zenon DEF LockInv, Goto, TypeOK, TxSteps
  <2>8. FreshInv'
    BY <2>1 DEF FreshInv
  <2> QED BY <2>5, <2>6, <2>7, <2>8 DEF HandlerInv, CompareInv, TxInv
<1> QED BY <1>1, <1>2

\* build(id) and the UPDATE that completes the reserved row.
LEMMA BuildInv ==
    ASSUME Inv, NEW s \in Slots, Build(s)
    PROVE  Inv'
<1> USE DEF Inv, dbVars, txVars
<1>0. /\ pc[s] = "build" /\ writer = s
      /\ Goto(s, "commit")
      /\ UNCHANGED <<rows, seq, txSeq, writer, conn, clock, proc, taking, cache>>
  BY Zenon DEF Build, At, LockInv, TxSteps
<1>1. WellFormed(q[s]) /\ q[s].op = "create"
  BY <1>0, Zenon DEF HandlerInv, HandlerOK, Busy, WellFormed, StepsOf, Request
<1>2. /\ txSeq = seq + 1
      /\ TxOnly(txSeq)
      /\ txRows[txSeq] \in Row
      /\ txRows[txSeq].user = q[s].user
      /\ txRows[txSeq].luwv = ""
  BY <1>0, Zenon DEF TxInv, TxOK, TxCreates
<1>3. txSeq \in Ids
  <2>1. seq \in 0..MaxId /\ txSeq \in 0..MaxId
    BY DEF TypeOK
  <2>2. txSeq = seq + 1
    BY <1>2, Zenon
  <2> HIDE DEF Inv
  <2> QED BY <2>1, <2>2, MaxIdNat DEF Ids
<1>4. PICK key \in Keys : txRows' = [txRows EXCEPT ![txSeq] = Completed(s, key, txRows[txSeq])]
  BY KeysInUseIsKey, Zenon DEF Build
<1> DEFINE new == Completed(s, key, txRows[txSeq])
<1>5. /\ new \in Row
      /\ new.user = q[s].user
      /\ new.luwv = ""
      /\ new.name = q[s].name
      /\ Plain(new.env) = ""
  <2>0. "" \in Contents
    BY ConstantsOK, Zenon
  <2>1. q[s].user \in Users /\ q[s].name \in Names /\ "" \in Contents
    BY <1>1, <2>0, Zenon DEF WellFormed, Request
  <2>2. NextModifiedAt(txRows[txSeq].modified) \in Nat
    BY <1>2, NextModifiedAtGrows, Zenon DEF Row, TypeOK
  <2>3. /\ Encrypt(key, q[s].user, txSeq, "") \in Envelopes
        /\ Plain(Encrypt(key, q[s].user, txSeq, "")) = ""
    BY <1>3, <2>1, EncryptType, Zenon
  <2> QED BY <1>2, <2>1, <2>2, <2>3, Zenon DEF Completed, Row
<1> HIDE DEF new
<1>6. TypeOK'
  <2>1. txRows' \in Tables
    BY <1>3, <1>4, <1>5, Zenon DEF TypeOK, Tables, new
  <2> QED BY <1>0, <2>1 DEF TypeOK, Goto, Steps
<1>7. ASSUME NEW t \in Slots PROVE HandlerOK(t)' /\ CompareOK(t)' /\ TxOK(t)'
  <2>1. CASE t = s
    <3>1. q'[t] = q[t] /\ pc'[t] = "commit"
      BY <1>0, <2>1 DEF Goto, TypeOK
    <3>2. HandlerOK(t)'
      BY <1>1, <2>1, <3>1 DEF HandlerOK, StepsOf
    <3>3. CompareOK(t)'
      BY <1>1, <2>1, <3>1 DEF CompareOK, Compared, Sealed
    <3>4. txRows'[txSeq'] = new /\ (TxOnly(txSeq))'
      BY <1>0, <1>2, <1>3, <1>4, Zenon DEF TypeOK, Tables, TxOnly, new
    <3>5. TxCreates(t)'
      BY <1>0, <1>2, <1>5, <2>1, <3>1, <3>4, Zenon DEF TxCreates
    <3>6. TxUntouched(t)' /\ TxPatches(t)'
      BY <1>1, <2>1, <3>1 DEF TxUntouched, TxPatches
    <3> QED BY <3>2, <3>3, <3>5, <3>6 DEF TxOK
  <2>2. CASE t # s
    <3>1. Same(t) /\ pc'[t] \notin TxSteps
      BY <1>0, <2>2 DEF Goto, TypeOK, Same, LockInv
    <3> QED BY <3>1, SameKeeps, OutsideTxOK DEF HandlerInv, CompareInv
  <2> QED BY <2>1, <2>2
<1>8. LockInv'
  BY <1>0, ConstantsOK, Zenon DEF LockInv, Goto, TypeOK, TxSteps
<1>9. FreshInv'
  BY <1>0 DEF FreshInv
<1> QED BY <1>6, <1>7, <1>8, <1>9 DEF HandlerInv, CompareInv, TxInv

\* A PATCH reads the row it is compared with.
LEMMA ReadStepInv ==
    ASSUME Inv, NEW s \in Slots, Read(s)
    PROVE  Inv'
<1> DEFINE row == Lookup(rows, q[s].user, q[s].id)
<1> USE DEF Inv, dbVars, txVars
<1>0. pc[s] = "read" /\ pc[s] \notin TxSteps
      /\ UNCHANGED <<dbVars, txVars, conn, clock, proc, taking, cache>>
  BY Zenon DEF Read, At, TxSteps
<1>1. WellFormed(q[s]) /\ q[s].op = "patch" /\ q[s].id \in Ids
  BY <1>0, Zenon DEF HandlerInv, HandlerOK, Busy, WellFormed, StepsOf, Request
<1>2. \/ Respond(s, 404, {})
      \/ Respond(s, 500, {})
      \/ /\ row # NoRow
         /\ cur' = [cur EXCEPT ![s] = row]
         /\ pc' = [pc EXCEPT ![s] = "seal"]
         /\ UNCHANGED <<q, env, resp, served>>
  BY Zenon DEF Read
<1>3. CASE Respond(s, 404, {})
  BY <1>0, <1>3, RespondInv
<1>4. CASE Respond(s, 500, {})
  BY <1>0, <1>4, RespondInv
<1>5. CASE /\ row # NoRow
           /\ cur' = [cur EXCEPT ![s] = row]
           /\ pc' = [pc EXCEPT ![s] = "seal"]
           /\ UNCHANGED <<q, env, resp, served>>
  <2>1. row \in Row
    BY <1>1, <1>5, TableTypes, LookupFinds
  <2> HIDE DEF row
  <2>2. TypeOK'
    BY <1>0, <1>5, <2>1 DEF TypeOK, Steps
  <2>3. ASSUME NEW t \in Slots PROVE HandlerOK(t)' /\ CompareOK(t)' /\ TxOK(t)'
    <3>1. CASE t = s
      <4>1. q'[t] = q[t] /\ pc'[t] = "seal" /\ cur'[t] = row
        BY <1>5, <3>1 DEF TypeOK
      <4>2. HandlerOK(t)'
        BY <1>1, <3>1, <4>1 DEF HandlerOK, StepsOf
      <4>3. CompareOK(t)' /\ TxOK(t)'
        BY <2>1, <4>1, OutsideTxOK DEF CompareOK, Compared, Sealed, TxSteps
      <4> QED BY <4>2, <4>3
    <3>2. CASE t # s
      BY <1>0, <1>5, <3>2, SameKeeps, SameTxOK
         DEF TypeOK, Same, HandlerInv, CompareInv, TxInv
    <3> QED BY <3>1, <3>2
  <2>4. LockInv'
    BY <1>0, <1>5 DEF LockInv, TypeOK, TxSteps
  <2>5. FreshInv'
    BY <1>0 DEF FreshInv
  <2> QED BY <2>2, <2>3, <2>4, <2>5 DEF HandlerInv, CompareInv, TxInv
<1> QED BY <1>2, <1>3, <1>4, <1>5

\* The content of a PATCH that differs is sealed.
LEMMA SealInv ==
    ASSUME Inv, NEW s \in Slots, Seal(s)
    PROVE  Inv'
<1> USE DEF Inv, dbVars, txVars
<1>0. /\ pc[s] = "seal" /\ pc' = [pc EXCEPT ![s] = "begin"]
      /\ UNCHANGED <<q, cur, resp, served, dbVars, txVars, conn, clock, proc, taking, cache>>
  BY Zenon DEF Seal, At
<1>1. WellFormed(q[s]) /\ q[s].op = "patch" /\ q[s].id \in Ids /\ q[s].user \in Users
  BY <1>0, Zenon DEF HandlerInv, HandlerOK, Busy, WellFormed, StepsOf, Request
<1>2. PICK key \in Keys :
        env' = [env EXCEPT ![s] = IF ContentChanged(s)
                                  THEN Encrypt(key, q[s].user, q[s].id, q[s].content)
                                  ELSE Nil]
  BY KeysInUseIsKey, Zenon DEF Seal
<1>3. ContentChanged(s) => Encrypt(key, q[s].user, q[s].id, q[s].content) \in Envelopes
  <2>1. ContentChanged(s) => q[s].content \in Contents
    BY <1>1 DEF ContentChanged, WellFormed, Request
  <2> QED BY <1>1, <2>1, EncryptType
<1>4. /\ env' \in [Slots -> Envelopes \cup {Nil}]
      /\ ContentChanged(s) => env'[s] \in Envelopes
      /\ \A t \in Slots \ {s} : env'[t] = env[t]
  BY <1>2, <1>3 DEF TypeOK
<1>5. TypeOK'
  <2>1. pc' \in [Slots -> Steps]
    BY <1>0, Zenon DEF TypeOK, Steps
  <2> QED BY <1>0, <1>4, <2>1 DEF TypeOK
<1>6. ASSUME NEW t \in Slots PROVE HandlerOK(t)' /\ CompareOK(t)' /\ TxOK(t)'
  <2>1. CASE t = s
    <3>1. q'[t] = q[t] /\ pc'[t] = "begin" /\ cur'[t] = cur[t]
      BY <1>0, <2>1 DEF TypeOK
    <3>2. HandlerOK(t)'
      BY <1>1, <2>1, <3>1 DEF HandlerOK, StepsOf
    <3>3. cur[t] \in Row
      BY <1>0, <1>1, <2>1, Zenon DEF CompareInv, CompareOK, Compared
    <3>4. CompareOK(t)'
      BY <1>4, <2>1, <3>1, <3>3 DEF CompareOK, Compared, Sealed, ContentChanged
    <3>5. TxOK(t)'
      BY <3>1, OutsideTxOK DEF TxSteps
    <3> QED BY <3>2, <3>4, <3>5
  <2>2. CASE t # s
    BY <1>0, <1>4, <2>2, SameKeeps, SameTxOK
       DEF TypeOK, Same, HandlerInv, CompareInv, TxInv
  <2> QED BY <2>1, <2>2
<1>7. LockInv'
  BY <1>0 DEF LockInv, TypeOK, TxSteps
<1>8. FreshInv'
  BY <1>0 DEF FreshInv
<1> QED BY <1>5, <1>6, <1>7, <1>8 DEF HandlerInv, CompareInv, TxInv

\* What UpdateConfig makes of a row is a row, of the same owner, that is newer or
\* says the same.
LEMMA PatchedEvolves ==
    ASSUME NEW s \in Slots, NEW row \in Row, clock \in Nat, q[s] \in Request,
           ContentChanged(s) => env[s] \in Envelopes
    PROVE  Patched(s, row) \in Row /\ RowEvolves(row, Patched(s, row))
<1> DEFINE new == Patched(s, row)
<1>1. row.modified \in Nat
  BY DEF Row
<1>2. NextModifiedAt(row.modified) \in Nat /\ NextModifiedAt(row.modified) > row.modified
  BY <1>1, NextModifiedAtGrows
<1>3. NameChanged(s) => q[s].name \in Names
  BY DEF NameChanged, Request
<1>4. q[s].luwv # Nil => q[s].luwv \in Versions
  BY DEF Request
<1>5. new \in Row
  BY <1>2, <1>3, <1>4, Zenon DEF Patched, Row
<1>6. new.user = row.user
  BY DEF Patched, Row
<1>7. CASE Changed(s)
  <2>1. new.modified > row.modified
    BY <1>2, <1>7 DEF Patched, Row
  <2> QED BY <1>5, <1>6, <2>1 DEF RowEvolves
<1>8. CASE ~Changed(s)
  <2>1. new.modified = row.modified /\ new.name = row.name /\ new.env = row.env
    BY <1>8 DEF Patched, Row, Changed
  <2> QED BY <1>5, <1>6, <2>1 DEF RowEvolves
<1> QED BY <1>7, <1>8

\* The UPDATE of a PATCH, or its rollback.
LEMMA ApplyInv ==
    ASSUME Inv, NEW s \in Slots, Apply(s)
    PROVE  Inv'
<1> DEFINE row == Lookup(txRows, q[s].user, q[s].id)
<1> USE DEF Inv, dbVars, txVars
<1>0. /\ pc[s] = "apply" /\ writer = s /\ txRows = rows /\ txSeq = seq
      /\ UNCHANGED <<clock, proc, taking, cache>>
  BY Zenon DEF Apply, At, LockInv, TxSteps, TxInv, TxOK, TxUntouched
<1>1. WellFormed(q[s]) /\ q[s] \in Request /\ q[s].op = "patch" /\ q[s].id \in Ids
  BY <1>0, Zenon DEF HandlerInv, HandlerOK, Busy, WellFormed, StepsOf, Request
<1>2. \/ Rollback(ProcOf[s]) /\ Respond(s, 404, {})
      \/ Rollback(ProcOf[s]) /\ Goto(s, "read")
      \/ /\ row # NoRow
         /\ txRows' = [txRows EXCEPT ![q[s].id] = Patched(s, row)]
         /\ Goto(s, "commit")
         /\ UNCHANGED <<rows, seq, txSeq, writer, conn>>
  BY Zenon DEF Apply
<1>3. CASE Rollback(ProcOf[s]) /\ Respond(s, 404, {})
  BY <1>0, <1>3, RollbackInv
<1>4. CASE Rollback(ProcOf[s]) /\ Goto(s, "read")
  <2>1. TypeOK'
    BY <1>0, <1>4, Zenon DEF TypeOK, Goto, Rollback, Steps
  <2>2. ASSUME NEW t \in Slots PROVE HandlerOK(t)' /\ CompareOK(t)' /\ TxOK(t)'
    <3>1. CASE t = s
      <4>1. q'[t] = q[t] /\ pc'[t] = "read"
        BY <1>4, <3>1 DEF Goto, TypeOK
      <4>2. HandlerOK(t)'
        BY <1>1, <3>1, <4>1 DEF HandlerOK, StepsOf
      <4>3. CompareOK(t)' /\ TxOK(t)'
        BY <4>1, OutsideTxOK DEF CompareOK, Compared, Sealed, TxSteps
      <4> QED BY <4>2, <4>3
    <3>2. CASE t # s
      <4>1. Same(t) /\ pc'[t] \notin TxSteps
        BY <1>0, <1>4, <3>2 DEF Goto, TypeOK, Same, LockInv
      <4> QED BY <4>1, SameKeeps, OutsideTxOK DEF HandlerInv, CompareInv
    <3> QED BY <3>1, <3>2
  <2>3. LockInv'
    BY <1>0, <1>4, ConstantsOK, Zenon DEF LockInv, Goto, Rollback, TypeOK, TxSteps
  <2>4. FreshInv'
    BY <1>4 DEF FreshInv, Rollback
  <2> QED BY <2>1, <2>2, <2>3, <2>4 DEF HandlerInv, CompareInv, TxInv
<1>5. CASE /\ row # NoRow
           /\ txRows' = [txRows EXCEPT ![q[s].id] = Patched(s, row)]
           /\ Goto(s, "commit")
           /\ UNCHANGED <<rows, seq, txSeq, writer, conn>>
  <2>1. row = rows[q[s].id] /\ row \in Row /\ row.user = q[s].user
    <3>1. rows \in Tables
      BY TableTypes
    <3>2. row = Lookup(rows, q[s].user, q[s].id)
      BY <1>0
    <3>3. q[s].id \in Ids /\ Lookup(rows, q[s].user, q[s].id) # NoRow
      BY <1>1, <1>5, <3>2
    <3>4. /\ Lookup(rows, q[s].user, q[s].id) = rows[q[s].id]
          /\ rows[q[s].id] \in Row /\ rows[q[s].id].user = q[s].user
      BY <3>1, <3>3, LookupFinds
    <3> QED BY <3>2, <3>4
  <2> HIDE DEF row
  <2> DEFINE new == Patched(s, row)
  <2>2. new \in Row /\ RowEvolves(row, new)
    <3>1. ContentChanged(s) => env[s] \in Envelopes
      BY <1>0, <1>1, Zenon DEF CompareInv, CompareOK, Compared, Sealed
    <3> QED BY <1>1, <2>1, <3>1, PatchedEvolves DEF TypeOK
  <2> HIDE DEF new
  <2>3. txRows' \in Tables /\ txRows'[q[s].id] = new
    BY <1>1, <1>5, <2>2 DEF TypeOK, Tables, new
  <2>4. TypeOK'
    BY <1>0, <1>5, <2>3 DEF TypeOK, Goto, Steps
  <2>5. ASSUME NEW t \in Slots PROVE HandlerOK(t)' /\ CompareOK(t)' /\ TxOK(t)'
    <3>1. CASE t = s
      <4>1. /\ q'[t] = q[t] /\ pc'[t] = "commit"
            /\ cur'[t] = cur[t] /\ env'[t] = env[t]
        BY <1>5, <3>1 DEF Goto, TypeOK
      <4>2. HandlerOK(t)'
        BY <1>1, <3>1, <4>1 DEF HandlerOK, StepsOf
      <4>3. CompareOK(t)'
        BY <1>0, <3>1, <4>1, Zenon DEF CompareInv, CompareOK, Compared, Sealed, ContentChanged
      <4>4. \A i \in Ids \ {q[s].id} : txRows'[i] = rows'[i]
        BY <1>0, <1>5 DEF TypeOK, Tables
      <4>5. TxPatches(t)'
        BY <1>0, <1>5, <2>1, <2>2, <2>3, <3>1, <4>1, <4>4, Zenon
           DEF TxPatches, TxOnly, RowEvolves
      <4>6. TxUntouched(t)' /\ TxCreates(t)'
        BY <1>1, <3>1, <4>1, Zenon DEF TxUntouched, TxCreates
      <4> QED BY <4>2, <4>3, <4>5, <4>6 DEF TxOK
    <3>2. CASE t # s
      <4>1. Same(t) /\ pc'[t] \notin TxSteps
        BY <1>0, <1>5, <3>2 DEF Goto, TypeOK, Same, LockInv
      <4> QED BY <4>1, SameKeeps, OutsideTxOK DEF HandlerInv, CompareInv
    <3> QED BY <3>1, <3>2
  <2>6. LockInv'
    BY <1>0, <1>5, ConstantsOK, Zenon DEF LockInv, Goto, TypeOK, TxSteps
  <2>7. FreshInv'
    BY <1>5 DEF FreshInv
  <2> QED BY <2>4, <2>5, <2>6, <2>7 DEF HandlerInv, CompareInv, TxInv
<1> QED BY <1>2, <1>3, <1>4, <1>5, Zenon

\* What a transaction about to commit is: a create that adds one row under a new
\* id, or a PATCH that lets one row evolve.
LEMMA CommitIsCreateOrPatch ==
    ASSUME Inv, NEW s \in Slots, Commit(s)
    PROVE  /\ pc[s] = "commit" /\ writer = s /\ WellFormed(q[s])
           /\ seq \in Nat /\ txSeq \in Nat
           /\ \/ /\ q[s].op = "create"
                 /\ txSeq = seq + 1 /\ txSeq \in Ids
                 /\ rows[txSeq] = NoRow
              \/ /\ q[s].op = "patch"
                 /\ txSeq = seq
                 /\ q[s].id \in Ids
                 /\ q[s].id <= seq
<1>1. pc[s] = "commit" /\ writer = s
  BY DEF Commit, At, Inv, LockInv, TxSteps
<1>2. WellFormed(q[s]) /\ q[s].op \in {"create", "patch"}
  BY <1>1, Zenon DEF Inv, HandlerInv, HandlerOK, Busy, WellFormed, StepsOf, Request
<1>3. seq \in 0..MaxId /\ txSeq \in 0..MaxId
  BY DEF Inv, TypeOK
<1>4. CASE q[s].op = "create"
  <2>1. txSeq = seq + 1
    BY <1>1, <1>4, Zenon DEF Inv, TxInv, TxOK, TxCreates
  <2>2. txSeq \in Ids
    BY <1>3, <2>1, MaxIdNat DEF Ids
  <2>3. rows[txSeq] = NoRow
    BY <1>3, <2>1, <2>2, MaxIdNat DEF Inv, FreshInv
  <2> QED BY <1>1, <1>2, <1>3, <1>4, <2>1, <2>2, <2>3, MaxIdNat
<1>5. CASE q[s].op = "patch"
  <2>1. q[s].id \in Ids
    BY <1>2, <1>5 DEF WellFormed
  <2>2. txSeq = seq /\ rows[q[s].id] \in Row
    BY <1>1, <1>5 DEF Inv, TxInv, TxOK, TxPatches
  <2>3. rows[q[s].id] # NoRow
    BY <2>2, ConstantsOK, Zenon
  <2>4. ~(q[s].id > seq)
    BY <2>1, <2>3 DEF Inv, FreshInv
  <2>5. q[s].id <= seq
    BY <1>3, <2>1, <2>4, MaxIdNat DEF Ids
  <2>6. txSeq = seq
    BY <2>2
  <2> QED BY <1>1, <1>2, <1>3, <1>5, <2>1, <2>5, <2>6, MaxIdNat
<1> QED BY <1>2, <1>4, <1>5, Zenon

\* COMMIT.
LEMMA CommitInv ==
    ASSUME Inv, NEW s \in Slots, Commit(s)
    PROVE  Inv'
<1> USE DEF dbVars, txVars
<1>0. /\ rows' = txRows /\ seq' = txSeq /\ writer' = None
      /\ conn' = [conn EXCEPT ![ProcOf[s]] = None]
      /\ UNCHANGED <<txRows, txSeq, clock, proc, taking, cache>>
      /\ TypeOK /\ LockInv /\ FreshInv
  BY DEF Commit, Inv
<1>1. /\ pc[s] = "commit" /\ writer = s /\ WellFormed(q[s])
      /\ q[s].op \in {"create", "patch"}
  BY CommitIsCreateOrPatch
<1>2. CASE q[s].op = "create"
  <2>1. Respond(s, 201, {ToPlaintext(txSeq, txRows[txSeq])})
    BY <1>2 DEF Commit
  <2>2. txSeq = seq + 1 /\ txSeq \in Ids /\ seq \in Nat
    BY <1>2, CommitIsCreateOrPatch
  <2>3. TxOnly(txSeq) /\ txRows[txSeq] \in Row
    BY <1>1, <1>2, Zenon DEF Inv, TxInv, TxOK, TxCreates
  <2>4. {ToPlaintext(txSeq, txRows[txSeq])} \in SUBSET View
    <3>1. ToPlaintext(txSeq, txRows[txSeq]) \in View
      BY <2>2, <2>3, ToPlaintextType
    <3> QED BY <3>1
  <2>5. TypeOK'
    <3>1. /\ pc' \in [Slots -> Steps] /\ q' \in [Slots -> Request \cup {Nil}]
          /\ cur' \in [Slots -> Row \cup {NoRow}] /\ env' \in [Slots -> Envelopes \cup {Nil}]
      BY <1>0, <2>1, Zenon DEF TypeOK, Respond, Steps
    <3>2. resp' \in [Slots -> [status : Nat, body : SUBSET View]] /\ served' \in Nat
      <4> DEFINE body == {ToPlaintext(txSeq, txRows[txSeq])}
      <4>1. body \in SUBSET View /\ Respond(s, 201, body)
        BY <2>1, <2>4
      <4> HIDE DEF body
      <4> QED BY <1>0, <4>1 DEF TypeOK, Respond
    <3> QED BY <1>0, <3>1, <3>2, Zenon DEF TypeOK
  <2>6. ASSUME NEW t \in Slots PROVE HandlerOK(t)' /\ CompareOK(t)' /\ TxOK(t)'
    <3>1. CASE t = s
      BY <1>0, <2>1, <3>1, IdleOK, Zenon DEF Respond, TypeOK
    <3>2. CASE t # s
      <4>1. Same(t) /\ pc'[t] \notin TxSteps
        BY <1>0, <1>1, <2>1, <3>2, Zenon DEF Respond, TypeOK, Same, LockInv
      <4> QED BY <4>1, SameKeeps, OutsideTxOK DEF Inv, HandlerInv, CompareInv
    <3> QED BY <3>1, <3>2
  <2>7. LockInv'
    BY <1>0, <1>1, <2>1, ConstantsOK, Zenon DEF LockInv, Respond, TypeOK, TxSteps
  <2>8. FreshInv'
    <3> SUFFICES ASSUME NEW id \in Ids, id > seq + 1 PROVE rows'[id] = NoRow
      BY <1>0, <2>2, Zenon DEF FreshInv
    <3>1. id > seq /\ id # txSeq
      BY <2>2, MaxIdNat DEF Ids
    <3> QED BY <1>0, <2>3, <3>1 DEF FreshInv, TxOnly
  <2> QED BY <2>5, <2>6, <2>7, <2>8 DEF Inv, HandlerInv, CompareInv, TxInv
<1>3. CASE q[s].op = "patch"
  <2>1. Goto(s, "reload")
    BY <1>3 DEF Commit
  <2>2. txSeq = seq /\ q[s].id \in Ids /\ q[s].id <= seq
    BY <1>3, CommitIsCreateOrPatch
  <2>3. TxOnly(q[s].id)
    BY <1>1, <1>3 DEF Inv, TxInv, TxOK, TxPatches
  <2>5. TypeOK'
    BY <1>0, <2>1, Zenon DEF TypeOK, Goto, Steps
  <2>6. ASSUME NEW t \in Slots PROVE HandlerOK(t)' /\ CompareOK(t)' /\ TxOK(t)'
    <3>1. CASE t = s
      <4>1. q'[t] = q[t] /\ pc'[t] = "reload"
        BY <1>0, <2>1, <3>1 DEF Goto, TypeOK
      <4>2. HandlerOK(t)'
        BY <1>1, <1>3, <3>1, <4>1 DEF HandlerOK, StepsOf
      <4>3. CompareOK(t)' /\ TxOK(t)'
        BY <4>1, OutsideTxOK, Zenon DEF CompareOK, Compared, Sealed, TxSteps
      <4> QED BY <4>2, <4>3
    <3>2. CASE t # s
      <4>1. Same(t) /\ pc'[t] \notin TxSteps
        BY <1>0, <1>1, <2>1, <3>2 DEF Goto, TypeOK, Same, LockInv
      <4> QED BY <4>1, SameKeeps, OutsideTxOK DEF Inv, HandlerInv, CompareInv
    <3> QED BY <3>1, <3>2
  <2>7. LockInv'
    BY <1>0, <1>1, <2>1, ConstantsOK, Zenon DEF LockInv, Goto, TypeOK, TxSteps
  <2>8. FreshInv'
    <3> SUFFICES ASSUME NEW id \in Ids, id > seq PROVE rows'[id] = NoRow
      BY <1>0, <2>2 DEF FreshInv
    <3>1. id # q[s].id
      BY <1>0, <2>2, MaxIdNat DEF Ids, TypeOK
    <3> QED BY <1>0, <2>3, <3>1, Zenon DEF FreshInv, TxOnly
  <2> QED BY <2>5, <2>6, <2>7, <2>8 DEF Inv, HandlerInv, CompareInv, TxInv
<1> QED BY <1>1, <1>2, <1>3

\* A process ends: all its handlers are gone and its transaction with them.
LEMMA DieInv ==
    ASSUME Inv, NEW p \in Procs, Die(p)
    PROVE  Inv'
<1> USE DEF Inv, dbVars, txVars
<1>0. /\ proc' = [proc EXCEPT ![p] = "down"]
      /\ UNCHANGED <<rows, seq, q, served, clock, cache>>
      /\ \A t \in Slots : t \in SlotsOf(p) => pc'[t] = "idle"
      /\ \A t \in Slots : t \notin SlotsOf(p) => Same(t)
  BY Zenon DEF Die, Rollback, Disconnect, Same
<1>1. \/ writer \in SlotsOf(p) /\ Rollback(p)
      \/ writer \notin SlotsOf(p) /\ Disconnect(p)
  BY Zenon DEF Die
<1>2. TypeOK'
  <2>1. /\ pc' \in [Slots -> Steps]
        /\ cur' \in [Slots -> Row \cup {NoRow}]
        /\ env' \in [Slots -> Envelopes \cup {Nil}]
    BY Zenon DEF Die, TypeOK, Steps
  <2>2. resp' \in [Slots -> [status : Nat, body : SUBSET View]]
    BY Zenon DEF Die, TypeOK
  <2>3. txRows' \in Tables /\ txSeq' \in 0..MaxId /\ writer' \in Slots \cup {None}
        /\ conn' \in [Procs -> Slots \cup {None}]
    BY <1>1 DEF Rollback, Disconnect, TypeOK
  <2>4. proc' \in [Procs -> Stages] /\ taking' \subseteq Procs
    BY <1>0, Zenon DEF Die, TypeOK, Stages
  <2> QED BY <1>0, <2>1, <2>2, <2>3, <2>4, Zenon DEF TypeOK
<1>3. ASSUME NEW t \in Slots PROVE HandlerOK(t)' /\ CompareOK(t)' /\ TxOK(t)'
  <2>1. CASE t \in SlotsOf(p)
    BY <1>0, <2>1, IdleOK
  <2>2. CASE t \notin SlotsOf(p) /\ writer \in SlotsOf(p)
    <3>1. Same(t) /\ pc'[t] \notin TxSteps
      BY <1>0, <2>2 DEF Same, LockInv
    <3> QED BY <3>1, SameKeeps, OutsideTxOK DEF HandlerInv, CompareInv
  <2>3. CASE t \notin SlotsOf(p) /\ writer \notin SlotsOf(p)
    BY <1>0, <1>1, <2>3, SameKeeps, SameTxOK DEF HandlerInv, CompareInv, TxInv, Disconnect
  <2> QED BY <2>1, <2>2, <2>3
<1>4. LockInv'
  <2>1. CASE writer \in SlotsOf(p) /\ Rollback(p)
    BY <1>0, <2>1, ConstantsOK, Zenon DEF LockInv, Rollback, TxSteps, Same, SlotsOf
  <2>2. CASE writer \notin SlotsOf(p) /\ Disconnect(p)
    BY <1>0, <2>2, Zenon DEF LockInv, Disconnect, TxSteps, Same, SlotsOf
  <2> QED BY <1>1, <2>1, <2>2
<1>5. FreshInv'
  BY <1>0 DEF FreshInv
<1> QED BY <1>2, <1>3, <1>4, <1>5 DEF HandlerInv, CompareInv, TxInv

\* A request is cut short.
LEMMA AbortInv ==
    ASSUME Inv, NEW s \in Slots, Abort(s)
    PROVE  Inv'
<1>1. Respond(s, 500, {}) /\ UNCHANGED <<clock, proc, taking, cache>>
  BY Zenon DEF Abort
<1>2. CASE writer = s
  <2>1. Rollback(ProcOf[s])
    BY <1>2, Zenon DEF Abort
  <2> QED BY <1>1, <1>2, <2>1, RollbackInv
<1>3. CASE writer # s
  <2>1. /\ pc[s] \notin TxSteps /\ UNCHANGED <<dbVars, txVars>>
        /\ conn' \in {conn, [conn EXCEPT ![ProcOf[s]] = None]}
    BY <1>3 DEF Abort, Disconnect, Inv, LockInv
  <2> QED BY <1>1, <2>1, RespondInv
<1> QED BY <1>2, <1>3

\* A process moves to its next stage.
LEMMA ProcStepInv ==
    ASSUME Inv, NEW p \in Procs, NEW from, NEW to \in Stages, ProcStep(p, from, to),
           taking' \subseteq Procs
    PROVE  Inv'
<1>1. TypeOK'
  BY DEF ProcStep, Inv, TypeOK, dbVars, txVars, reqVars
<1> QED BY <1>1, QuietInv DEF ProcStep, reqVars

\* Every step keeps the invariant.
LEMMA StepInv == Inv /\ [Next]_vars => Inv'
<1> SUFFICES ASSUME Inv, [Next]_vars PROVE Inv'
  OBVIOUS
<1>1. ASSUME NEW s \in Slots, NEW m \in Workload, Accept(s, m) PROVE Inv'
  BY <1>1, AcceptInv
<1>2. ASSUME NEW s \in Slots, Get(s) \/ Reload(s) PROVE Inv'
  BY <1>2, FetchRowInv DEF Get, Reload, At
<1>3. ASSUME NEW s \in Slots, Count(s) PROVE Inv'
  <2>1. /\ pc[s] = "count" /\ pc[s] \notin TxSteps
        /\ UNCHANGED <<dbVars, txVars, conn, clock, proc, taking, cache>>
        /\ Respond(s, 409, {}) \/ Goto(s, "begin")
    BY <1>3 DEF Count, At, TxSteps
  <2> QED BY <2>1, RespondInv, GotoInv
<1>4. ASSUME NEW s \in Slots, BusyTimeout(s) PROVE Inv'
  <2>1. /\ pc[s] \notin TxSteps
        /\ UNCHANGED <<dbVars, txVars, clock, proc, taking, cache>>
        /\ conn' \in {conn, [conn EXCEPT ![ProcOf[s]] = None]}
        /\ Respond(s, 500, {})
    BY <1>4 DEF BusyTimeout, Disconnect, At, TxSteps
  <2>2. 500 \in Nat /\ {} \in SUBSET View
    OBVIOUS
  <2> QED BY <2>1, <2>2, RespondInv, Zenon
<1>5. ASSUME NEW s \in Slots, Handle(s) PROVE Inv'
  BY <1>2, <1>3, <1>5, ListInv, ConnectInv, DeleteInv, BeginInv, ReserveInv, BuildInv,
     ReadStepInv, SealInv, ApplyInv, CommitInv DEF Handle
<1>6. ASSUME NEW s \in Slots, Remember(s) PROVE Inv'
  <2>1. TypeOK'
    BY <1>6 DEF Remember, Inv, TypeOK, dbVars, txVars, reqVars
  <2> QED BY <1>6, <2>1, QuietInv, Zenon DEF Remember, reqVars
<1>7. ASSUME NEW p \in Procs, Life(p) PROVE Inv'
  <2>1. CASE Crash(p) \/ Drained(p) \/ Exit(p)
    BY <2>1, DieInv DEF Crash, Drained, Exit
  <2>2. CASE Start(p)
    <3>1. ProcStep(p, "down", "up") /\ taking' \subseteq Procs
      BY <2>2 DEF Start, ProcStep, Inv, TypeOK
    <3> QED BY <3>1, ProcStepInv DEF Stages
  <2>3. CASE Shutdown(p) \/ ServeFails(p) \/ DeadlineExpires(p) \/ Wiped(p) \/ CloseDB(p)
    <3>1. taking' \subseteq Procs
      BY <2>3 DEF Shutdown, ServeFails, DeadlineExpires, Wiped, CloseDB, Inv, TypeOK
    <3> QED BY <2>3, <3>1, ProcStepInv
            DEF Shutdown, ServeFails, DeadlineExpires, Wiped, CloseDB, Stages
  <2> QED BY <1>7, <2>1, <2>2, <2>3 DEF Life
<1>8. CASE Tick
  <2>0. MaxClock \in Nat
    BY ConstantsOK, Zenon
  <2>1. clock' \in Nat
    BY <1>8, <2>0 DEF Tick
  <2>2. TypeOK'
    BY <1>8, <2>1 DEF Tick, Inv, TypeOK, dbVars, txVars, reqVars
  <2> QED BY <1>8, <2>2, QuietInv DEF Tick, reqVars
<1>9. CASE UNCHANGED vars
  <2>1. TypeOK'
    BY <1>9 DEF Inv, TypeOK, vars, dbVars, txVars, reqVars
  <2> QED BY <1>9, <2>1, QuietInv DEF vars, reqVars
<1> QED BY <1>1, <1>4, <1>5, <1>6, <1>7, <1>8, <1>9, AbortInv DEF Next

\* Every reachable state satisfies the invariant.
THEOREM Invariance == Spec => []Inv
<1> QED BY InitInv, StepInv, PTL DEF Spec

\* Type correctness of the service: every table holds rows, every response well
\* formed views, however handlers, processes and faults interleave.
THEOREM TypeCorrect == Spec => []TypeOK
<1>1. Inv => TypeOK
  BY DEF Inv
<1> QED BY <1>1, Invariance, PTL
----------------------------------------------------------------------------
(***************************************************************************)
(* What a step may do to the tables and to a slot.                         *)
(***************************************************************************)

\* A step of one slot.
SlotStep(t) ==
    \/ \E m \in Workload : Accept(t, m)
    \/ Handle(t) \/ BusyTimeout(t) \/ Abort(t)

\* Outside the steps of slots and the ends of processes nothing moves.
LEMMA StepKinds ==
    ASSUME [Next]_vars
    PROVE  \/ \E t \in Slots : SlotStep(t) /\ UNCHANGED cache
           \/ \E p \in Procs : Die(p)
           \/ UNCHANGED <<dbVars, txVars, reqVars>>
<1>1. ASSUME NEW t \in Slots, SlotStep(t) PROVE UNCHANGED cache
  BY <1>1, Zenon DEF SlotStep, Accept, Handle, Get, List, Connect, Delete, Count, Begin, Reserve, Build,
     Read, Seal, Apply, Commit, Reload, BusyTimeout, Abort
<1>2. ASSUME NEW p \in Procs, Life(p)
      PROVE  Die(p) \/ UNCHANGED <<dbVars, txVars, reqVars>>
  BY <1>2 DEF Life, Crash, Start, Shutdown, Drained, ServeFails, DeadlineExpires, Wiped, CloseDB,
     Exit, ProcStep
<1>3. ASSUME NEW t \in Slots, Remember(t) PROVE UNCHANGED <<dbVars, txVars, reqVars>>
  BY <1>3, Zenon DEF Remember
<1>4. Tick => UNCHANGED <<dbVars, txVars, reqVars>>
  BY DEF Tick
<1>5. UNCHANGED vars => UNCHANGED <<dbVars, txVars, reqVars>>
  BY DEF vars
<1> QED BY <1>1, <1>2, <1>3, <1>4, <1>5 DEF Next, SlotStep

\* These steps end the request with a response ...
LEMMA Responding ==
    ASSUME NEW s \in Slots,
           Get(s) \/ Reload(s) \/ List(s) \/ Delete(s) \/ BusyTimeout(s) \/ Abort(s)
    PROVE  \E status, body : Respond(s, status, body)
<1>1. ASSUME NEW key, FetchRow(s, key) PROVE \E status, body : Respond(s, status, body)
  BY <1>1, Zenon DEF FetchRow
<1>2. ASSUME NEW key, FetchRows(s, key) PROVE \E status, body : Respond(s, status, body)
  BY <1>2, Zenon DEF FetchRows
<1>3. CASE Get(s)
  BY <1>1, <1>3, Zenon DEF Get
<1>4. CASE Reload(s)
  BY <1>1, <1>4, Zenon DEF Reload
<1>5. CASE List(s)
  BY <1>2, <1>5, Zenon DEF List
<1>6. CASE Delete(s)
  BY <1>6, Zenon DEF Delete
<1>7. CASE BusyTimeout(s)
  BY <1>7, Zenon DEF BusyTimeout
<1>8. CASE Abort(s)
  BY <1>8, Zenon DEF Abort
<1> QED BY <1>3, <1>4, <1>5, <1>6, <1>7, <1>8

\* ... and these either do that or go on to another step of it.
LEMMA RespondingOrMoving ==
    ASSUME NEW s \in Slots,
           Count(s) \/ Begin(s) \/ Reserve(s) \/ Build(s) \/ Apply(s) \/ Commit(s)
    PROVE  \/ \E status, body : Respond(s, status, body)
           \/ \E step : Goto(s, step)
<1>1. CASE Count(s)
  BY <1>1, Zenon DEF Count
<1>2. CASE Begin(s)
  BY <1>2, Zenon DEF Begin
<1>3. CASE Reserve(s)
  BY <1>3, Zenon DEF Reserve
<1>4. CASE Build(s)
  BY <1>4, Zenon DEF Build
<1>5. CASE Apply(s)
  BY <1>5, Zenon DEF Apply
<1>6. CASE Commit(s)
  BY <1>6, Zenon DEF Commit
<1> QED BY <1>1, <1>2, <1>3, <1>4, <1>5, <1>6

\* A step of one slot leaves the other slots alone.
LEMMA SlotFrame ==
    ASSUME TypeOK, NEW t \in Slots, SlotStep(t), NEW s \in Slots, s # t
    PROVE  Same(s) /\ resp'[s] = resp[s]
<1>1. ASSUME NEW status, NEW body, Respond(t, status, body)
      PROVE  Same(s) /\ resp'[s] = resp[s]
  BY <1>1, Zenon DEF Respond, Same, TypeOK
<1>2. ASSUME NEW step, Goto(t, step) PROVE Same(s) /\ resp'[s] = resp[s]
  BY <1>2 DEF Goto, Same, TypeOK
<1>3. ASSUME NEW m, Accept(t, m) PROVE Same(s) /\ resp'[s] = resp[s]
  BY <1>3, Zenon DEF Accept, Same, TypeOK
<1>4. CASE Get(t) \/ Reload(t) \/ List(t)
  BY <1>1, <1>4, Responding, Zenon
<1>5. CASE Delete(t) \/ BusyTimeout(t) \/ Abort(t)
  BY <1>1, <1>5, Responding, Zenon
<1>6. CASE Count(t) \/ Begin(t) \/ Reserve(t) \/ Build(t) \/ Apply(t) \/ Commit(t)
  BY <1>1, <1>2, <1>6, RespondingOrMoving, Zenon
<1>7. CASE Read(t)
  BY <1>1, <1>7 DEF Read, Same, TypeOK
<1>8. CASE Seal(t)
  <2>1. /\ \E e : env' = [env EXCEPT ![t] = e]
        /\ \E step : pc' = [pc EXCEPT ![t] = step]
        /\ UNCHANGED <<q, cur, resp>>
    BY <1>8, Zenon DEF Seal
  <2> QED BY <2>1 DEF Same, TypeOK
<1>9. CASE Connect(t)
  BY <1>9, Zenon DEF Connect, Same, reqVars
<1> QED BY <1>3, <1>4, <1>5, <1>6, <1>7, <1>8, <1>9, Zenon DEF SlotStep, Handle

\* Only DELETE and COMMIT touch the database.
LEMMA TableStep ==
    ASSUME Inv, [Next]_vars
    PROVE  \/ UNCHANGED dbVars
           \/ \E s \in Slots :
                /\ Delete(s) /\ UNCHANGED seq
                /\ WellFormed(q[s]) /\ q[s].op = "delete"
                /\ rows[q[s].id] \in Row /\ rows[q[s].id].user = q[s].user
                /\ rows' = [rows EXCEPT ![q[s].id] = NoRow]
           \/ \E s \in Slots : Commit(s)
<1>1. ASSUME NEW t \in Slots, SlotStep(t)
      PROVE  UNCHANGED dbVars \/ Delete(t) \/ Commit(t)
  BY <1>1, Zenon DEF SlotStep, Accept, Handle, Get, List, Connect, Count, Begin, Reserve, Build,
     Read, Seal, Apply, Reload, BusyTimeout, Abort, Rollback, Disconnect
<1>2. ASSUME NEW p \in Procs, Die(p) PROVE UNCHANGED dbVars
  BY <1>2, Zenon DEF Die, Rollback, Disconnect
<1>3. ASSUME NEW s \in Slots, Delete(s)
      PROVE  \/ UNCHANGED dbVars
             \/ /\ UNCHANGED seq
                /\ WellFormed(q[s]) /\ q[s].op = "delete"
                /\ rows[q[s].id] \in Row /\ rows[q[s].id].user = q[s].user
                /\ rows' = [rows EXCEPT ![q[s].id] = NoRow]
  <2>1. pc[s] = "delete" /\ UNCHANGED seq
    BY <1>3, Zenon DEF Delete, At
  <2>2. WellFormed(q[s]) /\ q[s].op = "delete"
    BY <2>1, Zenon DEF Inv, HandlerInv, HandlerOK, Busy, WellFormed, StepsOf, Request
  <2>3. CASE Lookup(rows, q[s].user, q[s].id) = NoRow
    BY <1>3, <2>1, <2>3, Zenon DEF Delete, dbVars
  <2>4. CASE Lookup(rows, q[s].user, q[s].id) # NoRow
    <3>1. q[s].id \in Ids
      BY <2>2 DEF WellFormed
    <3>2. rows[q[s].id] \in Row /\ rows[q[s].id].user = q[s].user
      <4>1. rows \in Tables
        BY TableTypes DEF Inv
      <4>2. /\ Lookup(rows, q[s].user, q[s].id) = rows[q[s].id]
            /\ rows[q[s].id] \in Row /\ rows[q[s].id].user = q[s].user
        BY <2>4, <3>1, <4>1, LookupFinds, Zenon
      <4> QED BY <4>2, Zenon
    <3>3. rows' = [rows EXCEPT ![q[s].id] = NoRow]
      BY <1>3, <2>4, Zenon DEF Delete
    <3> QED BY <2>1, <2>2, <3>2, <3>3
  <2> QED BY <2>3, <2>4, Zenon
<1> QED BY <1>1, <1>2, <1>3, StepKinds

\* Ids are never taken back, and a row under a spent id stays, goes for good, or
\* evolves.
LEMMA RowsEvolve ==
    ASSUME Inv, [Next]_vars
    PROVE  /\ seq' >= seq
           /\ \A id \in Ids : id <= seq =>
                \/ rows'[id] = rows[id]
                \/ rows'[id] = NoRow
                \/ rows[id] \in Row /\ rows'[id] \in Row /\ RowEvolves(rows[id], rows'[id])
<1>0. seq \in Nat
  BY MaxIdNat DEF Inv, TypeOK
<1>1. CASE UNCHANGED dbVars
  BY <1>0, <1>1 DEF dbVars
<1>2. ASSUME NEW s \in Slots, UNCHANGED seq, rows' = [rows EXCEPT ![q[s].id] = NoRow]
      PROVE  /\ seq' >= seq
             /\ \A id \in Ids : rows'[id] = rows[id] \/ rows'[id] = NoRow
  BY <1>0, <1>2 DEF Inv, TypeOK, Tables
<1>3. ASSUME NEW s \in Slots, Commit(s)
      PROVE  /\ seq' >= seq
             /\ \A id \in Ids : id <= seq =>
                  \/ rows'[id] = rows[id]
                  \/ rows[id] \in Row /\ rows'[id] \in Row /\ RowEvolves(rows[id], rows'[id])
  <2>1. rows' = txRows /\ seq' = txSeq
    BY <1>3, Zenon DEF Commit
  <2>2. CASE q[s].op = "create"
    <3>1. pc[s] = "commit" /\ txSeq = seq + 1
      BY <1>3, <2>2, CommitIsCreateOrPatch
    <3>2. TxOnly(txSeq)
      BY <2>2, <3>1, Zenon DEF Inv, TxInv, TxOK, TxCreates
    <3>3. \A id \in Ids : id <= seq => id # txSeq
      BY <1>0, <3>1, MaxIdNat DEF Ids
    <3>4. \A id \in Ids : id # txSeq => rows'[id] = rows[id]
      BY <2>1, <3>2, Zenon DEF TxOnly
    <3>5. seq' >= seq
      BY <1>0, <2>1, <3>1
    <3> QED BY <3>3, <3>4, <3>5, Zenon
  <2>3. CASE q[s].op = "patch"
    <3>1. pc[s] = "commit" /\ txSeq = seq
      BY <1>3, <2>3, CommitIsCreateOrPatch
    <3>2. /\ TxOnly(q[s].id)
          /\ rows[q[s].id] \in Row /\ txRows[q[s].id] \in Row
          /\ RowEvolves(rows[q[s].id], txRows[q[s].id])
      BY <2>3, <3>1, Zenon DEF Inv, TxInv, TxOK, TxPatches
    <3>3. \A id \in Ids : id # q[s].id => rows'[id] = rows[id]
      BY <2>1, <3>2, Zenon DEF TxOnly
    <3>4. seq' >= seq
      BY <1>0, <2>1, <3>1
    <3> QED BY <2>1, <3>2, <3>3, <3>4, Zenon
  <2> QED BY <1>3, <2>2, <2>3, CommitIsCreateOrPatch, Zenon
<1> QED BY <1>1, <1>2, <1>3, TableStep, Zenon
----------------------------------------------------------------------------
(***************************************************************************)
(* The lock and the connections.                                           *)
(***************************************************************************)

\* The steps at which a slot may have the connection.
HoldSteps == TxSteps \cup {"begin", "delete"}

\* A connection in use is used by a slot of its process, at one of those steps.
HeldInv ==
    \A p \in Procs : conn[p] # None => ProcOf[conn[p]] = p /\ pc[conn[p]] \in HoldSteps

\* Requests end with their process.
LiveInv == \A s \in Slots : Busy(s) => Alive(ProcOf[s])

HoldInv == HeldInv /\ LiveInv

\* A slot that takes or gives back the connection of its process, and has it only
\* at the steps above, leaves the other connections to their slots.
LEMMA SlotHolds ==
    ASSUME TypeOK, HeldInv, NEW t \in Slots, SlotStep(t),
           conn' \in {conn, [conn EXCEPT ![ProcOf[t]] = None], [conn EXCEPT ![ProcOf[t]] = t]},
           conn'[ProcOf[t]] = t => pc'[t] \in HoldSteps
    PROVE  HeldInv'
<1> SUFFICES ASSUME NEW p \in Procs, conn'[p] # None
             PROVE  ProcOf[conn'[p]] = p /\ pc'[conn'[p]] \in HoldSteps
  BY DEF HeldInv
<1>1. ProcOf[t] \in Procs /\ None \notin Slots
  BY ConstantsOK, Zenon
<1>2. conn \in [Procs -> Slots \cup {None}]
  BY DEF TypeOK
<1>3. CASE conn'[p] = t
  <2>1. ProcOf[t] = p
    BY <1>1, <1>2, <1>3 DEF HeldInv
  <2> QED BY <1>3, <2>1
<1>4. CASE conn'[p] # t
  <2>1. conn'[p] = conn[p] /\ conn[p] \in Slots
    BY <1>1, <1>2, <1>4
  <2>2. pc'[conn[p]] = pc[conn[p]]
    BY <1>4, <2>1, SlotFrame, Zenon DEF Same
  <2> QED BY <2>1, <2>2 DEF HeldInv
<1> QED BY <1>3, <1>4

\* Every step of a slot keeps the connections with the slots that use them.
LEMMA SlotHeld ==
    ASSUME Inv, HeldInv, NEW t \in Slots, SlotStep(t)
    PROVE  HeldInv'
<1>0. /\ TypeOK /\ ProcOf[t] \in Procs /\ None # t
      /\ conn \in [Procs -> Slots \cup {None}] /\ pc \in [Slots -> Steps]
  BY ConstantsOK, Zenon DEF Inv, TypeOK
<1>1. ASSUME UNCHANGED conn, pc[t] \notin HoldSteps \/ pc'[t] \in HoldSteps PROVE HeldInv'
  <2>1. conn'[ProcOf[t]] = t => pc'[t] \in HoldSteps
    BY <1>0, <1>1 DEF HeldInv
  <2> QED BY <1>0, <1>1, <2>1, SlotHolds
<1>2. ASSUME conn' = [conn EXCEPT ![ProcOf[t]] = None] PROVE HeldInv'
  <2>1. conn'[ProcOf[t]] # t
    BY <1>0, <1>2
  <2> QED BY <1>0, <1>2, <2>1, SlotHolds
<1>3. ASSUME NEW step \in HoldSteps, Goto(t, step) PROVE pc'[t] \in HoldSteps
  BY <1>0, <1>3 DEF Goto
<1>4. CASE \E m \in Workload : Accept(t, m)
  BY <1>1, <1>4 DEF Accept, Busy, HoldSteps, TxSteps
<1>5. CASE Get(t) \/ List(t) \/ Count(t) \/ Read(t) \/ Seal(t) \/ Reload(t)
  <2>1. UNCHANGED conn /\ pc[t] \in {"get", "list", "count", "read", "seal", "reload"}
    BY <1>5, Zenon DEF Get, List, Count, Read, Seal, Reload, At
  <2> QED BY <1>1, <2>1 DEF HoldSteps, TxSteps
<1>6. CASE Connect(t)
  <2>1. conn' = [conn EXCEPT ![ProcOf[t]] = t] /\ pc'[t] \in HoldSteps
    BY <1>6 DEF Connect, At, HoldSteps, reqVars
  <2> QED BY <1>0, <2>1, SlotHolds
<1>7. CASE Delete(t) \/ Commit(t)
  BY <1>2, <1>7 DEF Delete, Commit
<1>8. CASE Begin(t)
  <2>1. UNCHANGED conn /\ (Goto(t, "reserve") \/ Goto(t, "apply"))
    BY <1>8 DEF Begin
  <2> QED BY <1>1, <1>3, <2>1 DEF HoldSteps, TxSteps
<1>9. CASE Reserve(t) \/ Apply(t) \/ Build(t)
  <2>1. \/ UNCHANGED conn /\ (Goto(t, "build") \/ Goto(t, "commit"))
        \/ Rollback(ProcOf[t])
    BY <1>9, Zenon DEF Reserve, Apply, Build
  <2> QED BY <1>1, <1>2, <1>3, <2>1 DEF Rollback, HoldSteps, TxSteps
<1>10. CASE BusyTimeout(t)
  BY <1>2, <1>10 DEF BusyTimeout, Disconnect
<1>11. CASE Abort(t)
  <2>1. CASE writer = t \/ Connected(t)
    BY <1>2, <1>11, <2>1, Zenon DEF Abort, Rollback, Disconnect
  <2>2. CASE writer # t /\ ~Connected(t)
    <3>1. UNCHANGED conn /\ conn[ProcOf[t]] # t
      BY <1>11, <2>2, Zenon DEF Abort, Connected
    <3> QED BY <1>0, <3>1, SlotHolds
  <2> QED BY <2>1, <2>2
<1> QED BY <1>4, <1>5, <1>6, <1>7, <1>8, <1>9, <1>10, <1>11, Zenon DEF SlotStep, Handle

\* A slot that takes a step belongs to a live process.
LEMMA SlotLive ==
    ASSUME Inv, LiveInv, NEW t \in Slots, SlotStep(t)
    PROVE  LiveInv'
<1>1. UNCHANGED proc
  BY Zenon DEF SlotStep, Accept, Handle, Get, List, Connect, Delete, Count, Begin,
     Reserve, Build, Read, Seal, Apply, Commit, Reload, BusyTimeout, Abort
<1>2. Alive(ProcOf[t])
  <2>1. CASE Busy(t)
    BY <2>1 DEF LiveInv
  <2>2. CASE \E m \in Workload : Accept(t, m)
    BY <2>2, Zenon DEF Accept
  <2>3. ASSUME NEW step, At(t, step) PROVE Alive(ProcOf[t])
    BY <2>3 DEF At
  <2>4. CASE Handle(t)
    BY <2>3, <2>4, Zenon DEF Handle, Get, List, Connect, Delete, Count, Begin, Reserve,
       Build, Read, Seal, Apply, Commit, Reload
  <2>5. CASE BusyTimeout(t)
    BY <2>3, <2>5, Zenon DEF BusyTimeout
  <2>6. CASE Abort(t)
    BY <2>1, <2>6 DEF Abort
  <2> QED BY <2>2, <2>4, <2>5, <2>6 DEF SlotStep
<1>3. ASSUME NEW s \in Slots, s # t PROVE Busy(s)' => Busy(s)
  BY <1>3, SlotFrame DEF Inv, Same, Busy
<1> QED BY <1>1, <1>2, <1>3 DEF LiveInv, Alive

\* A process that ends takes its connection and its requests with it.
LEMMA DieHolds ==
    ASSUME Inv, HoldInv, NEW p \in Procs, Die(p)
    PROVE  HoldInv'
<1>0. /\ conn \in [Procs -> Slots \cup {None}] /\ proc \in [Procs -> Stages]
      /\ \A s \in Slots : ProcOf[s] \in Procs
  BY ConstantsOK, Zenon DEF Inv, TypeOK
<1>1. conn' = [conn EXCEPT ![p] = None]
  BY Zenon DEF Die, Rollback, Disconnect
<1>2. \A s \in Slots : pc'[s] = IF ProcOf[s] = p THEN "idle" ELSE pc[s]
  BY DEF Die, SlotsOf
<1>3. HeldInv'
  <2> SUFFICES ASSUME NEW r \in Procs, conn'[r] # None
               PROVE  ProcOf[conn'[r]] = r /\ pc'[conn'[r]] \in HoldSteps
    BY DEF HeldInv
  <2>1. r # p /\ conn'[r] = conn[r] /\ conn[r] \in Slots
    BY <1>0, <1>1
  <2>2. ProcOf[conn[r]] = r /\ pc[conn[r]] \in HoldSteps
    BY <2>1 DEF HoldInv, HeldInv
  <2> QED BY <1>2, <2>1, <2>2
<1>4. LiveInv'
  <2> SUFFICES ASSUME NEW s \in Slots, Busy(s)' PROVE Alive(ProcOf[s])'
    BY DEF LiveInv
  <2>1. ProcOf[s] # p /\ pc'[s] = pc[s]
    BY <1>2 DEF Busy
  <2>2. proc'[ProcOf[s]] = proc[ProcOf[s]]
    BY <1>0, <2>1, Zenon DEF Die
  <2> QED BY <2>1, <2>2 DEF HoldInv, LiveInv, Busy, Alive
<1> QED BY <1>3, <1>4 DEF HoldInv

\* Every step keeps the connections in the hands of live requests.
LEMMA HoldStep == Inv /\ HoldInv /\ [Next]_vars => HoldInv'
<1> SUFFICES ASSUME Inv, HoldInv, [Next]_vars PROVE HoldInv'
  OBVIOUS
<1>1. ASSUME NEW t \in Slots, SlotStep(t) PROVE HoldInv'
  BY <1>1, SlotHeld, SlotLive DEF HoldInv
<1>2. CASE UNCHANGED <<proc, conn, reqVars>>
  BY <1>2 DEF HoldInv, HeldInv, LiveInv, Busy, Alive, reqVars
<1>3. ASSUME NEW p \in Procs, NEW to, to # "down", proc' = [proc EXCEPT ![p] = to],
             UNCHANGED <<conn, reqVars>>
      PROVE  HoldInv'
  <2>1. ASSUME NEW s \in Slots, Alive(ProcOf[s]) PROVE Alive(ProcOf[s])'
    BY <1>3, <2>1 DEF Alive, Inv, TypeOK
  <2> QED BY <1>3, <2>1 DEF HoldInv, HeldInv, LiveInv, Busy, reqVars
<1>4. ASSUME NEW p \in Procs, Life(p) PROVE HoldInv'
  <2>1. ASSUME NEW from, NEW to, to # "down", ProcStep(p, from, to) PROVE HoldInv'
    BY <1>3, <2>1, Zenon DEF ProcStep
  <2>2. CASE Crash(p) \/ Drained(p) \/ Exit(p)
    BY <2>2, DieHolds, Zenon DEF Crash, Drained, Exit
  <2>3. CASE Start(p)
    BY <1>3, <2>3, Zenon DEF Start
  <2>4. CASE Shutdown(p) \/ ServeFails(p) \/ DeadlineExpires(p) \/ Wiped(p) \/ CloseDB(p)
    BY <2>1, <2>4 DEF Shutdown, ServeFails, DeadlineExpires, Wiped, CloseDB
  <2> QED BY <1>4, <2>2, <2>3, <2>4, Zenon DEF Life
<1>5. Tick \/ (\E s \in Slots : Remember(s)) \/ UNCHANGED vars => UNCHANGED <<proc, conn, reqVars>>
  BY Zenon DEF Tick, Remember, vars
<1> QED BY <1>1, <1>2, <1>4, <1>5, Zenon DEF Next, SlotStep

\* For any number of processes and handlers, a request waits only for one that is
\* inside its transaction, or that waits itself for one that is: the waits for
\* the connections of the processes and for the write lock never form a cycle,
\* and none is for a request that has ended.
THEOREM NoCircularWait == Spec => []WaitsEnd
<1>1. Init => HoldInv
  BY DEF Init, HoldInv, HeldInv, LiveInv, Busy
<1>2. Spec => []HoldInv
  BY <1>1, Invariance, HoldStep, PTL DEF Spec
<1>3. Inv /\ HoldInv => WaitsEnd
  <2> SUFFICES ASSUME Inv, HoldInv, NEW s \in Slots, NEW t \in Slots, WaitsFor(s, t)
               PROVE  /\ Alive(ProcOf[t])
                      /\ \/ InTransaction(t)
                         \/ /\ pc[t] \in {"begin", "delete"} /\ Connected(t)
                            /\ \A u \in Slots : WaitsFor(t, u) => InTransaction(u)
    BY Zenon DEF WaitsEnd
  <2>0. ProcOf[s] \in Procs /\ t # None
    BY ConstantsOK, Zenon
  <2>1. ASSUME NEW u \in Slots, writer = u PROVE InTransaction(u)
    BY <2>1 DEF Inv, LockInv, TxSteps, InTransaction
  <2>2. CASE writer = t
    <3>1. InTransaction(t)
      BY <2>1, <2>2
    <3> QED BY <3>1 DEF InTransaction, HoldInv, LiveInv, Busy
  <2>3. CASE conn[ProcOf[s]] = t
    <3>1. ProcOf[t] = ProcOf[s] /\ pc[t] \in HoldSteps
      BY <2>0, <2>3 DEF HoldInv, HeldInv
    <3>2. Alive(ProcOf[t])
      BY <3>1 DEF HoldInv, LiveInv, Busy, HoldSteps, TxSteps
    <3>3. CASE InTransaction(t)
      BY <3>2, <3>3
    <3>4. CASE pc[t] \in {"begin", "delete"}
      <4>1. Connected(t)
        BY <2>3, <3>1 DEF Connected
      <4>2. ASSUME NEW u \in Slots, WaitsFor(t, u) PROVE InTransaction(u)
        <5>1. writer = u
          BY <3>4, <4>1, <4>2 DEF WaitsFor
        <5> QED BY <2>1, <5>1
      <4> QED BY <3>2, <3>4, <4>1, <4>2
    <3> QED BY <3>1, <3>3, <3>4 DEF HoldSteps, TxSteps, InTransaction
  <2> QED BY <2>2, <2>3 DEF WaitsFor
<1> QED BY <1>2, <1>3, Invariance, PTL
=============================================================================
